-------------------------- MODULE OrchestratorProofs --------------------------
(***************************************************************************)
(* Proofs about Orchestrator: for any sets of sessions, run ids and        *)
(* callers and any settings, every variable keeps its type, a run that     *)
(* nobody stopped holds the slot of its session, and there are never two   *)
(* such runs in one session.  The inductive invariant IInv adds to those   *)
(* what the steps rely on: that a thread knows its session and run where   *)
(* it uses them, that a kill frees a slot only after it cancelled its run  *)
(* or saw it over, and that no two launches are at one claimed run.        *)
(*                                                                         *)
(* On it rest the other results: who stands behind a slot, by how many     *)
(* the limit is passed, that no message left to a live run is missed, that *)
(* no session is left with a status nobody will change, that a stopped     *)
(* session stays stopped, that messages are handed over in order, and that *)
(* the handles map implements SlotContract, the contract of a lock.        *)
(***************************************************************************)
EXTENDS Orchestrator, FiniteSetTheorems, TLAPS

\* What a thread works on, by where it stands.
ThreadsHaveWork ==
  \A t \in Thread :
    /\ pc[t] \in (CallPcs \ {"create", "createFull"}) \cup LaunchPcs \cup {"popped"}
         => job[t] \in Job
    /\ pc[t] \in KillPcs => job[t].sid \in Session
    /\ pc[t] \in {"start", "attach", "failed", "killwait", "killfree"}
         => held[t] \in RunId

RunsHaveSessions == \A r \in RunId : run[r].phase # "none" => run[r].sid \in Session

\* A kill frees the slot of a run it has cancelled, or of one that is over.
KillsAreSafe ==
  \A t \in Thread : pc[t] \in {"killwait", "killfree"} =>
    (AtWork(held[t]) => run[held[t]].cancelled)

\* A launch that has claimed its run is the only one at it.
StartsAreClaimed ==
  \A t \in Thread : pc[t] = "start" =>
    /\ run[held[t]].phase = "claimed"
    /\ \A u \in Thread : pc[u] = "start" /\ held[u] = held[t] => u = t

IInv ==
  /\ TypeOK
  /\ ThreadsHaveWork
  /\ RunsHaveSessions
  /\ KillsAreSafe
  /\ StartsAreClaimed
  /\ SlotIsHeld

(***************************************************************************)
(* Lemmas about the slots                                                  *)
(***************************************************************************)
HandleMaps == [Session -> RunId \cup {None}]

\* What retain(|_, handle| !handle.finished()) leaves is a handles map.
LEMMA ReapedType == ASSUME SlotTypes PROVE Reaped \in HandleMaps
  BY DEF SlotTypes, Reaped, HandleMaps

\* Freed gives back a handles map.
LEMMA FreedType ==
  ASSUME SlotTypes, NEW s, NEW r PROVE Freed(s, r) \in HandleMaps
  BY DEF SlotTypes, Freed, HandleMaps

\* A run at work that nobody stopped keeps its handle when the map is reaped:
\* its task has not returned.
LEMMA ReapedKeeps ==
  ASSUME IInv, NEW r \in RunId, AtWork(r), ~ run[r].cancelled
  PROVE  run[r].sid \in Session /\ Reaped[run[r].sid] = r
  BY NoneAssumption DEF IInv, RunsHaveSessions, SlotIsHeld, AtWork, Working,
     Reaped, Finished, TaskOver

\* A step that gives one run a new record keeps the types of the slots.
LEMMA RunUpdated ==
  ASSUME SlotTypes, NEW r \in RunId, NEW R \in Runs,
         run' = [run EXCEPT ![r] = R], handles' \in HandleMaps
  PROVE  /\ SlotTypes'
         /\ run'[r] = R
         /\ \A q \in RunId \ {r} : run'[q] = run[q]
  BY DEF SlotTypes, HandleMaps

\* r has taken a step: it is the same run, in phase p, and the only one changed.
Stepped(r, p) ==
  /\ run'[r].phase = p
  /\ run'[r].sid = run[r].sid /\ run'[r].cancelled = run[r].cancelled
  /\ \A q \in RunId \ {r} : run'[q] = run[q]

\* Move is such a step.
LEMMA MoveSteps ==
  ASSUME SlotTypes, NEW r \in RunId, NEW p \in Phases, Move(r, p),
         handles' \in HandleMaps
  PROVE  SlotTypes' /\ Stepped(r, p)
  <1>1. run[r] \in Runs
    BY DEF SlotTypes
  <1> DEFINE R == [run[r] EXCEPT !.phase = p]
  <1>2. R \in Runs
    BY <1>1 DEF Runs
  <1>3. R.phase = p /\ R.sid = run[r].sid /\ R.cancelled = run[r].cancelled
    BY <1>1 DEF Runs
  <1> QED BY <1>2, <1>3, RunUpdated DEF Move, Stepped

\* So is Settles.
LEMMA SettlesSteps ==
  ASSUME SlotTypes, NEW r \in RunId, NEW want \in Statuses, NEW done \in BOOLEAN,
         Settles(r, want, done), handles' \in HandleMaps
  PROVE  SlotTypes' /\ Stepped(r, "settling")
  <1>1. run[r] \in Runs
    BY DEF SlotTypes
  <1> DEFINE R == [run[r] EXCEPT !.phase = "settling", !.want = want, !.done = done]
  <1>2. R \in Runs
    BY <1>1 DEF Runs, Phases, Working
  <1>3. R.phase = "settling" /\ R.sid = run[r].sid /\ R.cancelled = run[r].cancelled
    BY <1>1 DEF Runs
  <1> QED BY <1>2, <1>3, RunUpdated DEF Settles, Stepped

\* A run that goes on, or gives up its own slot as it ends, disturbs no other.
LEMMA RunGoesOn ==
  ASSUME IInv, NEW r \in RunId, NEW p \in Working \cup TaskOver, Stepped(r, p),
         run[r].phase \in Working \cup TaskOver,
         p \in Working => run[r].phase \in Working /\ handles' = handles,
         handles' = handles \/ handles' = Freed(run[r].sid, r),
         UNCHANGED <<pc, held>>
  PROVE  (RunsHaveSessions /\ KillsAreSafe /\ StartsAreClaimed /\ SlotIsHeld)'
  <1>1. RunsHaveSessions'
    BY DEF IInv, RunsHaveSessions, Stepped, Working, TaskOver
  <1>2. AtWork(r)' => AtWork(r)
    BY DEF Stepped, AtWork, Working, TaskOver
  <1>3. KillsAreSafe'
    BY <1>2 DEF IInv, KillsAreSafe, Stepped, AtWork, ThreadsHaveWork
  <1>4. StartsAreClaimed'
    BY DEF IInv, StartsAreClaimed, Stepped, Working, TaskOver, ThreadsHaveWork
  <1>5. SlotIsHeld'
    <2> SUFFICES ASSUME NEW q \in RunId, AtWork(q)', ~ run'[q].cancelled
                 PROVE  handles'[run'[q].sid] = q
      BY DEF SlotIsHeld
    <2>1. handles[run[q].sid] = q /\ run'[q].sid = run[q].sid /\ run[q].sid \in Session
      BY <1>2 DEF IInv, SlotIsHeld, RunsHaveSessions, Stepped, AtWork, Working
    <2>2. CASE handles' = handles
      BY <2>1, <2>2
    <2>3. CASE handles' # handles
      <3>1. q # r
        BY <2>3 DEF Stepped, AtWork, Working, TaskOver
      <3> QED BY <2>1, <2>3, <3>1 DEF Freed, IInv, TypeOK, SlotTypes
    <2> QED BY <2>2, <2>3
  <1> QED BY <1>1, <1>3, <1>4, <1>5

(***************************************************************************)
(* Lemmas about the helpers of run.rs                                      *)
(***************************************************************************)
MarkMaps == [Session -> Nat \cup {None}]

\* The input of a first turn is a range of messages.
LEMMA FirstInputType ==
  ASSUME NEW R \in Runs, R.sid \in Session, mark \in MarkMaps
  PROVE  FirstInput(R).lo \in Nat /\ FirstInput(R).hi \in Nat
  <1>1. From(R) \in Nat \cup {None} /\ R.from \in Nat \cup {None} /\ R.seen \in Nat
    BY DEF From, Runs, MarkMaps
  <1> QED BY <1>1 DEF FirstInput

\* TakesInput makes the run ready for its first turn.
LEMMA TakesInputSteps ==
  ASSUME SlotTypes, mark \in MarkMaps, NEW r \in RunId, run[r].sid \in Session,
         TakesInput(r), UNCHANGED handles
  PROVE  SlotTypes' /\ Stepped(r, "ready")
  <1>1. run[r] \in Runs /\ handles' \in HandleMaps
    BY DEF SlotTypes, HandleMaps
  <1> DEFINE R == [run[r] EXCEPT !.phase = "ready", !.turns = 1,
                                 !.lo = FirstInput(run[r]).lo,
                                 !.hi = FirstInput(run[r]).hi]
  <1>2. FirstInput(run[r]).lo \in Nat /\ FirstInput(run[r]).hi \in Nat
    BY <1>1, FirstInputType
  <1>3. R \in Runs
    BY <1>1, <1>2 DEF Runs, Phases, Working
  <1>4. R.phase = "ready" /\ R.sid = run[r].sid /\ R.cancelled = run[r].cancelled
    BY <1>1 DEF Runs
  <1> QED BY <1>1, <1>3, <1>4, RunUpdated DEF TakesInput, Stepped

\* GoOn makes the run ready for its next turn, or has it settle.
LEMMA GoOnSteps ==
  ASSUME SlotTypes, mark \in MarkMaps, sent \in [Session -> Nat],
         NEW r \in RunId, run[r].sid \in Session, GoOn(r), UNCHANGED handles
  PROVE  /\ SlotTypes' /\ mark' \in MarkMaps
         /\ Stepped(r, "ready") \/ Stepped(r, "settling")
  <1>1. run[r] \in Runs /\ handles' \in HandleMaps
    BY DEF SlotTypes, HandleMaps
  <1>2. mark' \in MarkMaps
    BY <1>1 DEF GoOn, MarkMaps, Runs
  <1>3. CASE run[r].turns >= MaxTurns
    BY <1>1, <1>2, <1>3, SettlesSteps DEF GoOn, Statuses
  <1>4. CASE ~ run[r].turns >= MaxTurns
    <2> DEFINE R == [run[r] EXCEPT !.phase = "ready",
                                   !.turns = run[r].turns + 1,
                                   !.lo = run[r].seen, !.hi = sent[run[r].sid],
                                   !.seen = sent[run[r].sid]]
    <2>0. run[r].seen \in Nat /\ run[r].turns + 1 \in Nat /\ sent[run[r].sid] \in Nat
      BY <1>1 DEF Runs
    <2>1. R \in Runs
      BY <1>1, <2>0 DEF Runs, Phases, Working
    <2>2. R.phase = "ready" /\ R.sid = run[r].sid /\ R.cancelled = run[r].cancelled
      BY <1>1 DEF Runs
    <2>3. run' = [run EXCEPT ![r] = R]
      BY <1>4 DEF GoOn
    <2> HIDE DEF R
    <2> QED BY <1>1, <1>2, <2>1, <2>2, <2>3, RunUpdated DEF Stepped
  <1> QED BY <1>3, <1>4

\* settle writes a status.
LEMMA SettledType ==
  ASSUME NEW r, NEW want \in Statuses PROVE Settled(r, want) \in Statuses
  BY DEF Settled, Statuses

\* What is pushed back is a queued run like the others.
LEMMA PushBackType ==
  ASSUME \A e \in queue : e.job \in Job, NEW j \in Job, PushBack(j)
  PROVE  \A e \in queue' : e.job \in Job
  BY DEF PushBack

(***************************************************************************)
(* Every step keeps the invariant: one lemma per action, and under it one  *)
(* step per conjunct of IInv the action can disturb.                       *)
(***************************************************************************)
LEMMA BeginSendKeeps ==
  ASSUME NEW t \in Caller, NEW s \in Session, NEW op \in AllOps, IInv, BeginSend(t, s, op) PROVE IInv'
  <1> USE DEF IInv, TypeOK
  <1>1. ThreadTypes'
    BY ThreadAssumption DEF ThreadTypes, Pcs, CallPcs, LaunchPcs, KillPcs,
       PumpPcs, Job, NoJob, Causes, BeginSend, Goto, FromPerson, Thread
  <1>2. OtherTypes'
    BY BoundAssumption DEF OtherTypes, BeginSend, Awake, FromPerson, Calls
  <1>3. ThreadsHaveWork'
    BY DEF ThreadsHaveWork, ThreadTypes, CallPcs, LaunchPcs, KillPcs,
       BeginSend, Goto, FromPerson, Thread, Job, Causes
  <1>4. KillsAreSafe'
    BY DEF KillsAreSafe, AtWork, Working, ThreadTypes, ThreadsHaveWork,
       CallPcs, LaunchPcs, KillPcs, BeginSend, slots, Goto, FromPerson, Thread
  <1>5. StartsAreClaimed'
    BY DEF StartsAreClaimed, AtWork, Working, ThreadTypes, ThreadsHaveWork,
       CallPcs, LaunchPcs, KillPcs, BeginSend, slots, Goto, FromPerson, Thread
  <1>6. (DiskTypes /\ SlotTypes
        /\ WaitTypes /\ RunsHaveSessions /\ SlotIsHeld)'
    BY DEF DiskTypes, SlotTypes, WaitTypes, RunsHaveSessions, SlotIsHeld,
       AtWork, BeginSend, waiting, slots, disk, Awake, Calls
  <1> QED BY <1>1, <1>2, <1>3, <1>4, <1>5, <1>6

LEMMA SendCheckKeeps ==
  ASSUME NEW t \in Caller, IInv, SendCheck(t) PROVE IInv'
  <1> USE DEF IInv, TypeOK
  <1>1. DiskTypes'
    BY DEF DiskTypes, Statuses, ThreadsHaveWork, CallPcs, LaunchPcs, KillPcs,
       SendCheck, SetStatus, NoJob, Reaped, Finished, TaskOver
  <1>2. SlotTypes'
    BY NoneAssumption DEF SlotTypes, ThreadsHaveWork, CallPcs, LaunchPcs,
       KillPcs, SendCheck, NoJob, Reaped, Finished, TaskOver
  <1>3. ThreadTypes'
    BY ThreadAssumption DEF ThreadTypes, Pcs, CallPcs, LaunchPcs, KillPcs,
       PumpPcs, Job, NoJob, Causes, SendCheck, local, Goto, Finish, Reaped,
       Finished, TaskOver, Thread
  <1>4. ThreadsHaveWork'
    BY DEF ThreadsHaveWork, ThreadTypes, CallPcs, LaunchPcs, KillPcs,
       SendCheck, local, Goto, Finish, NoJob, Reaped, Finished, TaskOver,
       Thread
  <1>5. KillsAreSafe'
    BY DEF KillsAreSafe, AtWork, Working, ThreadTypes, ThreadsHaveWork,
       CallPcs, LaunchPcs, KillPcs, SendCheck, local, Goto, Finish, NoJob,
       Reaped, Finished, TaskOver, Thread
  <1>6. StartsAreClaimed'
    BY DEF StartsAreClaimed, AtWork, Working, ThreadTypes, ThreadsHaveWork,
       CallPcs, LaunchPcs, KillPcs, SendCheck, local, Goto, Finish, NoJob,
       Reaped, Finished, TaskOver, Thread
  <1>7. SlotIsHeld'
    BY NoneAssumption DEF SlotIsHeld, AtWork, Working, ThreadTypes,
       ThreadsHaveWork, RunsHaveSessions, KillsAreSafe, StartsAreClaimed,
       SendCheck, NoJob, Reaped, Finished, TaskOver
  <1>8. (WaitTypes /\ OtherTypes /\ RunsHaveSessions)'
    BY DEF WaitTypes, OtherTypes, RunsHaveSessions, SendCheck, history,
       bounds, waiting, Finish
  <1> QED BY <1>1, <1>2, <1>3, <1>4, <1>5, <1>6, <1>7, <1>8

LEMMA CountKeeps ==
  ASSUME NEW t \in Caller, IInv, Count(t) PROVE IInv'
  <1> USE DEF IInv, TypeOK
  <1>1. SlotTypes'
    BY NoneAssumption DEF SlotTypes, ThreadsHaveWork, CallPcs, LaunchPcs,
       KillPcs, Count, NoJob, Full, Live, Reaped, Finished, TaskOver
  <1>2. ThreadTypes'
    BY ThreadAssumption DEF ThreadTypes, Pcs, CallPcs, LaunchPcs, KillPcs,
       PumpPcs, Job, NoJob, Causes, Count, Finish, Goto, local, Full, Live,
       Reaped, Finished, TaskOver, Thread
  <1>3. ThreadsHaveWork'
    BY DEF ThreadsHaveWork, ThreadTypes, CallPcs, LaunchPcs, KillPcs, Count,
       Finish, NoJob, Goto, local, Full, Live, Reaped, Finished, TaskOver,
       Thread
  <1>4. KillsAreSafe'
    BY DEF KillsAreSafe, AtWork, Working, ThreadTypes, ThreadsHaveWork,
       CallPcs, LaunchPcs, KillPcs, Count, Finish, NoJob, Goto, local, Full,
       Live, Reaped, Finished, TaskOver, Thread
  <1>5. StartsAreClaimed'
    BY DEF StartsAreClaimed, AtWork, Working, ThreadTypes, ThreadsHaveWork,
       CallPcs, LaunchPcs, KillPcs, Count, Finish, NoJob, Goto, local, Full,
       Live, Reaped, Finished, TaskOver, Thread
  <1>6. SlotIsHeld'
    BY NoneAssumption DEF SlotIsHeld, AtWork, Working, ThreadTypes,
       ThreadsHaveWork, RunsHaveSessions, KillsAreSafe, StartsAreClaimed,
       Count, NoJob, Full, Live, Reaped, Finished, TaskOver
  <1>7. (DiskTypes /\ WaitTypes /\ OtherTypes /\ RunsHaveSessions)'
    BY DEF DiskTypes, WaitTypes, OtherTypes, RunsHaveSessions, Count, history,
       bounds, waiting, disk, Finish
  <1> QED BY <1>1, <1>2, <1>3, <1>4, <1>5, <1>6, <1>7

LEMMA UnstaffKeeps ==
  ASSUME NEW t \in Caller, IInv, Unstaff(t) PROVE IInv'
  <1> USE DEF IInv, TypeOK
  <1>1. DiskTypes'
    BY DEF DiskTypes, Statuses, ThreadsHaveWork, CallPcs, LaunchPcs, KillPcs,
       Unstaff, NoJob, SetStatus
  <1>2. ThreadTypes'
    BY ThreadAssumption DEF ThreadTypes, Pcs, CallPcs, LaunchPcs, KillPcs,
       PumpPcs, Job, NoJob, Causes, Unstaff, Finish, Goto, Thread
  <1>3. ThreadsHaveWork'
    BY DEF ThreadsHaveWork, ThreadTypes, CallPcs, LaunchPcs, KillPcs, Unstaff,
       Finish, NoJob, Goto, Thread
  <1>4. KillsAreSafe'
    BY DEF KillsAreSafe, AtWork, Working, ThreadTypes, ThreadsHaveWork,
       CallPcs, LaunchPcs, KillPcs, Unstaff, slots, Finish, NoJob, Goto,
       Thread
  <1>5. StartsAreClaimed'
    BY DEF StartsAreClaimed, AtWork, Working, ThreadTypes, ThreadsHaveWork,
       CallPcs, LaunchPcs, KillPcs, Unstaff, slots, Finish, NoJob, Goto,
       Thread
  <1>6. (SlotTypes /\ WaitTypes
        /\ OtherTypes /\ RunsHaveSessions /\ SlotIsHeld)'
    BY DEF SlotTypes, WaitTypes, OtherTypes, RunsHaveSessions, SlotIsHeld,
       AtWork, Unstaff, history, bounds, waiting, slots, Finish
  <1> QED BY <1>1, <1>2, <1>3, <1>4, <1>5, <1>6

LEMMA BeginSpawnKeeps ==
  ASSUME NEW t \in Caller, IInv, BeginSpawn(t) PROVE IInv'
  <1> USE DEF IInv, TypeOK
  <1>1. SlotTypes'
    BY NoneAssumption DEF SlotTypes, ThreadsHaveWork, CallPcs, LaunchPcs,
       KillPcs, BeginSpawn, Full, Live, Reaped, Finished, TaskOver
  <1>2. ThreadTypes'
    BY ThreadAssumption DEF ThreadTypes, Pcs, CallPcs, LaunchPcs, KillPcs,
       PumpPcs, BeginSpawn, local, Full, Live, Goto, Reaped, Finished,
       TaskOver, Thread
  <1>3. OtherTypes'
    BY BoundAssumption DEF OtherTypes, BeginSpawn, history, Full, Live,
       Reaped, Finished, TaskOver, Calls
  <1>4. ThreadsHaveWork'
    BY DEF ThreadsHaveWork, ThreadTypes, CallPcs, LaunchPcs, KillPcs,
       BeginSpawn, local, Full, Live, Goto, Reaped, Finished, TaskOver, Thread
  <1>5. KillsAreSafe'
    BY DEF KillsAreSafe, AtWork, Working, ThreadTypes, ThreadsHaveWork,
       CallPcs, LaunchPcs, KillPcs, BeginSpawn, local, Full, Live, Goto,
       Reaped, Finished, TaskOver, Thread
  <1>6. StartsAreClaimed'
    BY DEF StartsAreClaimed, AtWork, Working, ThreadTypes, ThreadsHaveWork,
       CallPcs, LaunchPcs, KillPcs, BeginSpawn, local, Full, Live, Goto,
       Reaped, Finished, TaskOver, Thread
  <1>7. SlotIsHeld'
    BY NoneAssumption DEF SlotIsHeld, AtWork, Working, ThreadTypes,
       ThreadsHaveWork, RunsHaveSessions, KillsAreSafe, StartsAreClaimed,
       BeginSpawn, Full, Live, Reaped, Finished, TaskOver
  <1>8. (DiskTypes /\ WaitTypes /\ RunsHaveSessions)'
    BY DEF DiskTypes, WaitTypes, RunsHaveSessions, BeginSpawn, waiting, disk,
       Calls
  <1> QED BY <1>1, <1>2, <1>3, <1>4, <1>5, <1>6, <1>7, <1>8

LEMMA CreateKeeps ==
  ASSUME NEW t \in Caller, NEW s \in Session, IInv, Create(t, s) PROVE IInv'
  <1> USE DEF IInv, TypeOK
  <1>1. DiskTypes'
    BY DEF DiskTypes, Statuses, ThreadsHaveWork, CallPcs, LaunchPcs, KillPcs,
       Create, NoJob, SetStatus
  <1>2. ThreadTypes'
    BY ThreadAssumption DEF ThreadTypes, Pcs, CallPcs, LaunchPcs, KillPcs,
       PumpPcs, Job, NoJob, Causes, Create, Goto, Finish, Thread
  <1>3. ThreadsHaveWork'
    BY DEF ThreadsHaveWork, ThreadTypes, CallPcs, LaunchPcs, KillPcs, Create,
       Goto, Finish, NoJob, Thread, Job, Causes
  <1>4. KillsAreSafe'
    BY DEF KillsAreSafe, AtWork, Working, ThreadTypes, ThreadsHaveWork,
       CallPcs, LaunchPcs, KillPcs, Create, slots, Goto, Finish, NoJob, Thread
  <1>5. StartsAreClaimed'
    BY DEF StartsAreClaimed, AtWork, Working, ThreadTypes, ThreadsHaveWork,
       CallPcs, LaunchPcs, KillPcs, Create, slots, Goto, Finish, NoJob, Thread
  <1>6. (SlotTypes /\ WaitTypes
        /\ OtherTypes /\ RunsHaveSessions /\ SlotIsHeld)'
    BY DEF SlotTypes, WaitTypes, OtherTypes, RunsHaveSessions, SlotIsHeld,
       AtWork, Create, history, bounds, waiting, slots, Finish
  <1> QED BY <1>1, <1>2, <1>3, <1>4, <1>5, <1>6

LEMMA BeginChildKeeps ==
  ASSUME NEW t \in Caller, NEW s \in Session, IInv, BeginChild(t, s) PROVE IInv'
  <1> USE DEF IInv, TypeOK
  <1>1. DiskTypes'
    BY DEF DiskTypes, Statuses, ThreadsHaveWork, CallPcs, LaunchPcs, KillPcs,
       BeginChild, SetStatus
  <1>2. ThreadTypes'
    BY ThreadAssumption DEF ThreadTypes, Pcs, CallPcs, LaunchPcs, KillPcs,
       PumpPcs, Job, NoJob, Causes, BeginChild, Goto, Thread
  <1>3. OtherTypes'
    BY BoundAssumption DEF OtherTypes, BeginChild, history, Calls
  <1>4. ThreadsHaveWork'
    BY DEF ThreadsHaveWork, ThreadTypes, CallPcs, LaunchPcs, KillPcs,
       BeginChild, Goto, Thread, Job, Causes
  <1>5. KillsAreSafe'
    BY DEF KillsAreSafe, AtWork, Working, ThreadTypes, ThreadsHaveWork,
       CallPcs, LaunchPcs, KillPcs, BeginChild, slots, Goto, Thread
  <1>6. StartsAreClaimed'
    BY DEF StartsAreClaimed, AtWork, Working, ThreadTypes, ThreadsHaveWork,
       CallPcs, LaunchPcs, KillPcs, BeginChild, slots, Goto, Thread
  <1>7. (SlotTypes /\ WaitTypes /\ RunsHaveSessions /\ SlotIsHeld)'
    BY DEF SlotTypes, WaitTypes, RunsHaveSessions, SlotIsHeld, AtWork,
       BeginChild, waiting, slots, Calls
  <1> QED BY <1>1, <1>2, <1>3, <1>4, <1>5, <1>6, <1>7

LEMMA DeliverKeeps ==
  ASSUME NEW t \in Caller, NEW s \in Session, IInv, Deliver(t, s) PROVE IInv'
  <1> USE DEF IInv, TypeOK
  <1>1. DiskTypes'
    BY DEF DiskTypes, ThreadsHaveWork, CallPcs, LaunchPcs, KillPcs, Deliver,
       Reaped, Finished, TaskOver
  <1>2. SlotTypes'
    BY NoneAssumption DEF SlotTypes, ThreadsHaveWork, CallPcs, LaunchPcs,
       KillPcs, Deliver, Reaped, Finished, TaskOver
  <1>3. ThreadTypes'
    BY ThreadAssumption DEF ThreadTypes, Pcs, CallPcs, LaunchPcs, KillPcs,
       PumpPcs, Job, NoJob, Causes, Deliver, Goto, Reaped, Finished, TaskOver,
       Thread, DiskTypes
  <1>4. OtherTypes'
    <2>1. sent[s] + 1 \in Nat
      BY DEF DiskTypes
    <2>2. owed' \in [Session -> SUBSET Nat]
      <3>0. owed[s] \cup {sent[s] + 1} \in SUBSET Nat
        BY <2>1 DEF OtherTypes
      <3>1. owed' = owed \/ owed' = [owed EXCEPT ![s] = @ \cup {sent[s] + 1}]
        BY DEF Deliver
      <3> QED BY <3>0, <3>1 DEF OtherTypes
    <2>3. ops' \in 0..MaxOps /\ crashes' \in 0..MaxCrashes
      BY BoundAssumption DEF OtherTypes, Deliver, Calls
    <2>4. handed' \in [Session -> Seq(Nat)] /\ halted' \in [Session -> BOOLEAN]
      BY DEF OtherTypes, Deliver
    <2> QED BY <2>2, <2>3, <2>4 DEF OtherTypes
  <1>5. ThreadsHaveWork'
    BY DEF ThreadsHaveWork, ThreadTypes, CallPcs, LaunchPcs, KillPcs, Deliver,
       Goto, Reaped, Finished, TaskOver, Thread, Job, Causes, DiskTypes
  <1>6. KillsAreSafe'
    BY DEF KillsAreSafe, AtWork, Working, ThreadTypes, ThreadsHaveWork,
       CallPcs, LaunchPcs, KillPcs, Deliver, Goto, Reaped, Finished, TaskOver,
       Thread
  <1>7. StartsAreClaimed'
    BY DEF StartsAreClaimed, AtWork, Working, ThreadTypes, ThreadsHaveWork,
       CallPcs, LaunchPcs, KillPcs, Deliver, Goto, Reaped, Finished, TaskOver,
       Thread
  <1>8. SlotIsHeld'
    BY NoneAssumption DEF SlotIsHeld, AtWork, Working, ThreadTypes,
       ThreadsHaveWork, RunsHaveSessions, KillsAreSafe, StartsAreClaimed,
       Deliver, Reaped, Finished, TaskOver
  <1>9. (WaitTypes /\ RunsHaveSessions)'
    BY DEF WaitTypes, RunsHaveSessions, Deliver, waiting, Calls
  <1> QED BY <1>1, <1>2, <1>3, <1>4, <1>5, <1>6, <1>7, <1>8, <1>9

LEMMA MarkQueuedKeeps ==
  ASSUME NEW t \in Thread, IInv, MarkQueued(t) PROVE IInv'
  <1> USE DEF IInv, TypeOK
  <1>1. DiskTypes'
    BY DEF DiskTypes, Statuses, ThreadsHaveWork, CallPcs, LaunchPcs, KillPcs,
       MarkQueued, SetStatus
  <1>2. ThreadTypes'
    BY ThreadAssumption DEF ThreadTypes, Pcs, CallPcs, LaunchPcs, KillPcs,
       PumpPcs, MarkQueued, local, Goto, Thread
  <1>3. ThreadsHaveWork'
    BY DEF ThreadsHaveWork, ThreadTypes, CallPcs, LaunchPcs, KillPcs,
       MarkQueued, local, Goto, Thread
  <1>4. KillsAreSafe'
    BY DEF KillsAreSafe, AtWork, Working, ThreadTypes, ThreadsHaveWork,
       CallPcs, LaunchPcs, KillPcs, MarkQueued, local, slots, Goto, Thread
  <1>5. StartsAreClaimed'
    BY DEF StartsAreClaimed, AtWork, Working, ThreadTypes, ThreadsHaveWork,
       CallPcs, LaunchPcs, KillPcs, MarkQueued, local, slots, Goto, Thread
  <1>6. (SlotTypes /\ WaitTypes
        /\ OtherTypes /\ RunsHaveSessions /\ SlotIsHeld)'
    BY DEF SlotTypes, WaitTypes, OtherTypes, RunsHaveSessions, SlotIsHeld,
       AtWork, MarkQueued, history, bounds, waiting, slots
  <1> QED BY <1>1, <1>2, <1>3, <1>4, <1>5, <1>6

LEMMA PersistKeeps ==
  ASSUME NEW t \in Thread, IInv, Persist(t) PROVE IInv'
  <1> USE DEF IInv, TypeOK
  <1>1. DiskTypes'
    BY DEF DiskTypes, Statuses, Job, NoJob, ThreadsHaveWork, CallPcs,
       LaunchPcs, KillPcs, Persist
  <1>2. ThreadTypes'
    BY ThreadAssumption DEF ThreadTypes, Pcs, CallPcs, LaunchPcs, KillPcs,
       PumpPcs, Persist, local, Goto, Thread
  <1>3. ThreadsHaveWork'
    BY DEF ThreadsHaveWork, ThreadTypes, CallPcs, LaunchPcs, KillPcs, Persist,
       local, Goto, Thread
  <1>4. KillsAreSafe'
    BY DEF KillsAreSafe, AtWork, Working, ThreadTypes, ThreadsHaveWork,
       CallPcs, LaunchPcs, KillPcs, Persist, local, slots, Goto, Thread
  <1>5. StartsAreClaimed'
    BY DEF StartsAreClaimed, AtWork, Working, ThreadTypes, ThreadsHaveWork,
       CallPcs, LaunchPcs, KillPcs, Persist, local, slots, Goto, Thread
  <1>6. (SlotTypes /\ WaitTypes
        /\ OtherTypes /\ RunsHaveSessions /\ SlotIsHeld)'
    BY DEF SlotTypes, WaitTypes, OtherTypes, RunsHaveSessions, SlotIsHeld,
       AtWork, Persist, history, bounds, waiting, slots
  <1> QED BY <1>1, <1>2, <1>3, <1>4, <1>5, <1>6

LEMMA PushKeeps ==
  ASSUME NEW t \in Thread, IInv, Push(t) PROVE IInv'
  <1> USE DEF IInv, TypeOK
  <1>1. WaitTypes'
    <2>1. job[t] \in Job
      BY DEF ThreadsHaveWork, CallPcs, Push
    <2> QED BY <2>1, PushBackType DEF WaitTypes, Push
  <1>2. ThreadTypes'
    BY ThreadAssumption DEF ThreadTypes, Pcs, CallPcs, LaunchPcs, KillPcs,
       PumpPcs, Job, NoJob, Causes, Push, Finish, Goto, Thread
  <1>3. ThreadsHaveWork'
    BY DEF ThreadsHaveWork, ThreadTypes, CallPcs, LaunchPcs, KillPcs, Push,
       Finish, NoJob, Goto, Thread
  <1>4. KillsAreSafe'
    BY DEF KillsAreSafe, AtWork, Working, ThreadTypes, ThreadsHaveWork,
       CallPcs, LaunchPcs, KillPcs, Push, slots, Finish, NoJob, Goto, Thread
  <1>5. StartsAreClaimed'
    BY DEF StartsAreClaimed, AtWork, Working, ThreadTypes, ThreadsHaveWork,
       CallPcs, LaunchPcs, KillPcs, Push, slots, Finish, NoJob, Goto, Thread
  <1>6. (DiskTypes /\ SlotTypes
        /\ OtherTypes /\ RunsHaveSessions /\ SlotIsHeld)'
    BY DEF DiskTypes, SlotTypes, OtherTypes, RunsHaveSessions, SlotIsHeld,
       AtWork, Push, history, bounds, slots, disk, Finish
  <1> QED BY <1>1, <1>2, <1>3, <1>4, <1>5, <1>6

LEMMA LaunchClearKeeps ==
  ASSUME NEW t \in Thread, IInv, LaunchClear(t) PROVE IInv'
  <1> USE DEF IInv, TypeOK
  <1>1. DiskTypes'
    BY DEF DiskTypes, Statuses, Job, NoJob, ThreadsHaveWork, CallPcs,
       LaunchPcs, KillPcs, LaunchClear
  <1>2. ThreadTypes'
    BY ThreadAssumption DEF ThreadTypes, Pcs, CallPcs, LaunchPcs, KillPcs,
       PumpPcs, LaunchClear, local, Goto, NoJob, Thread
  <1>3. ThreadsHaveWork'
    BY DEF ThreadsHaveWork, ThreadTypes, CallPcs, LaunchPcs, KillPcs,
       LaunchClear, local, Goto, NoJob, Thread
  <1>4. KillsAreSafe'
    BY DEF KillsAreSafe, AtWork, Working, ThreadTypes, ThreadsHaveWork,
       CallPcs, LaunchPcs, KillPcs, LaunchClear, local, slots, Goto, NoJob,
       Thread
  <1>5. StartsAreClaimed'
    BY DEF StartsAreClaimed, AtWork, Working, ThreadTypes, ThreadsHaveWork,
       CallPcs, LaunchPcs, KillPcs, LaunchClear, local, slots, Goto, NoJob,
       Thread
  <1>6. (SlotTypes /\ WaitTypes
        /\ OtherTypes /\ RunsHaveSessions /\ SlotIsHeld)'
    BY DEF SlotTypes, WaitTypes, OtherTypes, RunsHaveSessions, SlotIsHeld,
       AtWork, LaunchClear, history, bounds, waiting, slots
  <1> QED BY <1>1, <1>2, <1>3, <1>4, <1>5, <1>6

LEMMA ClaimKeeps ==
  ASSUME NEW t \in Thread, NEW r \in RunId, IInv, Claim(t, r) PROVE IInv'
  <1> USE DEF IInv, TypeOK
  <1>1. SlotTypes'
    <2>1. job[t] \in Job /\ sent[job[t].sid] \in Nat
      BY DEF ThreadsHaveWork, LaunchPcs, DiskTypes, Job, Claim
    <2>2. ClaimedRun(job[t], sent[job[t].sid]) \in Runs
      BY <2>1 DEF ClaimedRun, NoRun, Runs, Phases, Job, Statuses
    <2>3. handles' \in HandleMaps
      BY ReapedType DEF Claim, HandleMaps
    <2> QED BY <2>2, <2>3, RunUpdated DEF Claim
  <1>2. ThreadTypes'
    BY ThreadAssumption DEF ThreadTypes, Pcs, CallPcs, LaunchPcs, KillPcs,
       PumpPcs, Runs, Claim, Goto, ClaimedRun, NoRun, FreshRun, Thread,
       Reaped, Finished, TaskOver
  <1>3. ThreadsHaveWork'
    BY DEF ThreadsHaveWork, ThreadTypes, CallPcs, LaunchPcs, KillPcs, Runs,
       Claim, Goto, ClaimedRun, NoRun, FreshRun, Thread, Reaped, Finished,
       TaskOver
  <1>4. RunsHaveSessions'
    <2>1. job[t].sid \in Session
      BY DEF ThreadsHaveWork, LaunchPcs, Job, Claim
    <2>2. run'[r].sid = job[t].sid /\ \A q \in RunId \ {r} : run'[q] = run[q]
      BY DEF SlotTypes, Claim, ClaimedRun, NoRun
    <2> QED BY <2>1, <2>2 DEF RunsHaveSessions
  <1>5. KillsAreSafe'
    BY DEF KillsAreSafe, AtWork, Working, SlotTypes, ThreadTypes,
       ThreadsHaveWork, Runs, CallPcs, LaunchPcs, KillPcs, Claim, Goto,
       ClaimedRun, NoRun, FreshRun, Thread, Reaped, Finished, TaskOver
  <1>6. StartsAreClaimed'
    BY DEF StartsAreClaimed, AtWork, Working, SlotTypes, ThreadTypes,
       ThreadsHaveWork, Runs, CallPcs, LaunchPcs, KillPcs, Claim, Goto,
       ClaimedRun, NoRun, FreshRun, Thread, Reaped, Finished, TaskOver
  <1>7. SlotIsHeld'
    <2>1. job[t].sid \in Session
      BY DEF ThreadsHaveWork, LaunchPcs, Job, Claim
    <2>2. run'[r].sid = job[t].sid /\ \A q \in RunId \ {r} : run'[q] = run[q]
      BY DEF SlotTypes, Claim, ClaimedRun, NoRun
    <2>3. handles'[job[t].sid] = r
      BY <2>1, ReapedType DEF Claim, HandleMaps
    <2>4. ASSUME NEW q \in RunId \ {r}, AtWork(q), ~ run[q].cancelled
          PROVE  handles'[run[q].sid] = q
      <3>1. run[q].sid \in Session /\ Reaped[run[q].sid] = q
        BY <2>4, ReapedKeeps
      <3>2. run[q].sid # job[t].sid
        BY <3>1, NoneAssumption DEF Claim
      <3> QED BY <2>1, <3>1, <3>2, ReapedType DEF Claim, HandleMaps
    <2> QED BY <2>2, <2>3, <2>4 DEF SlotIsHeld, AtWork
  <1>8. (DiskTypes /\ WaitTypes /\ OtherTypes)'
    BY DEF DiskTypes, WaitTypes, OtherTypes, Claim, history, bounds, waiting,
       disk
  <1> QED BY <1>1, <1>2, <1>3, <1>4, <1>5, <1>6, <1>7, <1>8

LEMMA LoseClaimKeeps ==
  ASSUME NEW t \in Thread, IInv, LoseClaim(t) PROVE IInv'
  <1> USE DEF IInv, TypeOK
  <1>1. SlotTypes'
    BY NoneAssumption DEF SlotTypes, ThreadsHaveWork, CallPcs, LaunchPcs,
       KillPcs, LoseClaim, NoJob, FromPerson, Reaped, Finished, TaskOver
  <1>2. ThreadTypes'
    BY ThreadAssumption DEF ThreadTypes, Pcs, CallPcs, LaunchPcs, KillPcs,
       PumpPcs, Job, NoJob, Causes, LoseClaim, Finish, Goto, local,
       FromPerson, Reaped, Finished, TaskOver, Thread
  <1>3. ThreadsHaveWork'
    BY DEF ThreadsHaveWork, ThreadTypes, CallPcs, LaunchPcs, KillPcs,
       LoseClaim, Finish, NoJob, Goto, local, FromPerson, Reaped, Finished,
       TaskOver, Thread
  <1>4. KillsAreSafe'
    BY DEF KillsAreSafe, AtWork, Working, ThreadTypes, ThreadsHaveWork,
       CallPcs, LaunchPcs, KillPcs, LoseClaim, Finish, NoJob, Goto, local,
       FromPerson, Reaped, Finished, TaskOver, Thread
  <1>5. StartsAreClaimed'
    BY DEF StartsAreClaimed, AtWork, Working, ThreadTypes, ThreadsHaveWork,
       CallPcs, LaunchPcs, KillPcs, LoseClaim, Finish, NoJob, Goto, local,
       FromPerson, Reaped, Finished, TaskOver, Thread
  <1>6. SlotIsHeld'
    BY NoneAssumption DEF SlotIsHeld, AtWork, Working, ThreadTypes,
       ThreadsHaveWork, RunsHaveSessions, KillsAreSafe, StartsAreClaimed,
       LoseClaim, NoJob, FromPerson, Reaped, Finished, TaskOver
  <1>7. (DiskTypes /\ WaitTypes /\ OtherTypes /\ RunsHaveSessions)'
    BY DEF DiskTypes, WaitTypes, OtherTypes, RunsHaveSessions, LoseClaim,
       history, bounds, waiting, disk, Finish
  <1> QED BY <1>1, <1>2, <1>3, <1>4, <1>5, <1>6, <1>7

LEMMA LaunchStartKeeps ==
  ASSUME NEW t \in Thread, IInv, LaunchStart(t) PROVE IInv'
  <1> USE DEF IInv, TypeOK
  <1>1. DiskTypes'
    BY DEF DiskTypes, Statuses, Runs, ThreadsHaveWork, CallPcs, LaunchPcs,
       KillPcs, LaunchStart, SetStatus
  <1>2. SlotTypes'
    BY MoveSteps DEF LaunchStart, ThreadsHaveWork, SlotTypes, HandleMaps,
       Phases, Working
  <1>3. ThreadTypes'
    BY ThreadAssumption DEF ThreadTypes, Pcs, CallPcs, LaunchPcs, KillPcs,
       PumpPcs, Runs, LaunchStart, local, Goto, Thread
  <1>4. ThreadsHaveWork'
    BY DEF ThreadsHaveWork, ThreadTypes, CallPcs, LaunchPcs, KillPcs, Runs,
       LaunchStart, local, Goto, Thread
  <1>5. RunsHaveSessions'
    <2>1. held[t] \in RunId /\ Stepped(held[t], "spawned")
      BY MoveSteps DEF LaunchStart, ThreadsHaveWork, SlotTypes, HandleMaps,
         Phases, Working
    <2> QED BY <2>1 DEF RunsHaveSessions, StartsAreClaimed, Stepped, LaunchStart
  <1>6. KillsAreSafe'
    <2>1. held[t] \in RunId /\ Stepped(held[t], "spawned")
      BY MoveSteps DEF LaunchStart, ThreadsHaveWork, SlotTypes, HandleMaps,
         Phases, Working
    <2>2. AtWork(held[t])
      BY DEF StartsAreClaimed, LaunchStart, AtWork
    <2> QED BY <2>1, <2>2 DEF KillsAreSafe, Stepped, AtWork, ThreadTypes,
              ThreadsHaveWork, LaunchStart, Goto, local
  <1>7. StartsAreClaimed'
    <2>1. held[t] \in RunId /\ Stepped(held[t], "spawned")
      BY MoveSteps DEF LaunchStart, ThreadsHaveWork, SlotTypes, HandleMaps,
         Phases, Working
    <2> QED BY <2>1 DEF StartsAreClaimed, Stepped, ThreadTypes, ThreadsHaveWork,
              LaunchStart, Goto, local
  <1>8. SlotIsHeld'
    <2>1. held[t] \in RunId /\ Stepped(held[t], "spawned")
      BY MoveSteps DEF LaunchStart, ThreadsHaveWork, SlotTypes, HandleMaps,
         Phases, Working
    <2>2. AtWork(held[t])
      BY DEF StartsAreClaimed, LaunchStart, AtWork
    <2> QED BY <2>1, <2>2 DEF SlotIsHeld, Stepped, AtWork, LaunchStart
  <1>9. (WaitTypes /\ OtherTypes)'
    BY DEF WaitTypes, OtherTypes, LaunchStart, history, bounds, waiting
  <1> QED BY <1>1, <1>2, <1>3, <1>4, <1>5, <1>6, <1>7, <1>8, <1>9

LEMMA LaunchAttachKeeps ==
  ASSUME NEW t \in Thread, IInv, LaunchAttach(t) PROVE IInv'
  <1> USE DEF IInv, TypeOK
  <1>1. SlotTypes'
    <2>1. held[t] \in RunId /\ run[held[t]] \in Runs /\ handles' \in HandleMaps
      BY DEF LaunchAttach, ThreadsHaveWork, SlotTypes, HandleMaps
    <2> DEFINE R == [run[held[t]] EXCEPT
                       !.attached = (handles[job[t].sid] = held[t])]
    <2>2. R \in Runs
      BY <2>1 DEF Runs
    <2>3. run' = [run EXCEPT ![held[t]] = R]
      BY DEF LaunchAttach
    <2> HIDE DEF R
    <2> QED BY <2>1, <2>2, <2>3, RunUpdated
  <1>2. ThreadTypes'
    BY ThreadAssumption DEF ThreadTypes, Pcs, CallPcs, LaunchPcs, KillPcs,
       PumpPcs, Job, NoJob, Causes, Runs, LaunchAttach, Finish, Goto, Thread
  <1>3. ThreadsHaveWork'
    BY DEF ThreadsHaveWork, ThreadTypes, CallPcs, LaunchPcs, KillPcs, Runs,
       LaunchAttach, Finish, NoJob, Goto, Thread
  <1>4. RunsHaveSessions'
    BY DEF RunsHaveSessions, SlotTypes, Runs, ThreadsHaveWork, CallPcs,
       LaunchPcs, KillPcs, LaunchAttach, NoJob
  <1>5. KillsAreSafe'
    BY DEF KillsAreSafe, AtWork, Working, SlotTypes, ThreadTypes,
       ThreadsHaveWork, Runs, CallPcs, LaunchPcs, KillPcs, LaunchAttach,
       Finish, NoJob, Goto, Thread
  <1>6. StartsAreClaimed'
    BY DEF StartsAreClaimed, AtWork, Working, SlotTypes, ThreadTypes,
       ThreadsHaveWork, Runs, CallPcs, LaunchPcs, KillPcs, LaunchAttach,
       Finish, NoJob, Goto, Thread
  <1>7. SlotIsHeld'
    BY NoneAssumption DEF SlotIsHeld, AtWork, Working, SlotTypes, ThreadTypes,
       Runs, ThreadsHaveWork, RunsHaveSessions, KillsAreSafe,
       StartsAreClaimed, LaunchAttach, NoJob
  <1>8. (DiskTypes /\ WaitTypes /\ OtherTypes)'
    BY DEF DiskTypes, WaitTypes, OtherTypes, LaunchAttach, history, bounds,
       waiting, disk, Finish
  <1> QED BY <1>1, <1>2, <1>3, <1>4, <1>5, <1>6, <1>7, <1>8

LEMMA LaunchFailsKeeps ==
  ASSUME NEW t \in Thread, IInv, LaunchFails(t) PROVE IInv'
  <1> USE DEF IInv, TypeOK
  <1>1. SlotTypes'
    BY NoneAssumption DEF SlotTypes, Runs, Phases, Working, TaskOver,
       Statuses, ThreadsHaveWork, CallPcs, LaunchPcs, KillPcs, LaunchFails,
       NoRun, Freed
  <1>2. ThreadTypes'
    BY ThreadAssumption DEF ThreadTypes, Pcs, CallPcs, LaunchPcs, KillPcs,
       PumpPcs, Runs, LaunchFails, local, Goto, NoRun, Freed, Thread
  <1>3. OtherTypes'
    BY BoundAssumption DEF OtherTypes, Runs, LaunchFails, bounds, Forgive,
       NoRun, Freed
  <1>4. ThreadsHaveWork'
    BY DEF ThreadsHaveWork, ThreadTypes, CallPcs, LaunchPcs, KillPcs, Runs,
       LaunchFails, local, Goto, NoRun, Freed, Thread
  <1>5. RunsHaveSessions'
    BY DEF RunsHaveSessions, SlotTypes, Runs, ThreadsHaveWork, CallPcs,
       LaunchPcs, KillPcs, LaunchFails, NoRun, Freed
  <1>6. KillsAreSafe'
    BY DEF KillsAreSafe, AtWork, Working, SlotTypes, ThreadTypes,
       ThreadsHaveWork, Runs, CallPcs, LaunchPcs, KillPcs, LaunchFails, local,
       Goto, NoRun, Freed, Thread
  <1>7. StartsAreClaimed'
    BY DEF StartsAreClaimed, AtWork, Working, SlotTypes, ThreadTypes,
       ThreadsHaveWork, Runs, CallPcs, LaunchPcs, KillPcs, LaunchFails, local,
       Goto, NoRun, Freed, Thread
  <1>8. SlotIsHeld'
    BY NoneAssumption DEF SlotIsHeld, AtWork, Working, SlotTypes, ThreadTypes,
       Runs, ThreadsHaveWork, RunsHaveSessions, KillsAreSafe,
       StartsAreClaimed, LaunchFails, NoRun, Freed
  <1>9. (DiskTypes /\ WaitTypes)'
    BY DEF DiskTypes, WaitTypes, LaunchFails, waiting, disk, Forgive
  <1> QED BY <1>1, <1>2, <1>3, <1>4, <1>5, <1>6, <1>7, <1>8, <1>9

LEMMA LaunchFailedKeeps ==
  ASSUME NEW t \in Thread, IInv, LaunchFailed(t) PROVE IInv'
  <1> USE DEF IInv, TypeOK
  <1>1. DiskTypes'
    BY DEF DiskTypes, Statuses, ThreadsHaveWork, CallPcs, LaunchPcs, KillPcs,
       LaunchFailed, NoJob, SetStatus
  <1>2. ThreadTypes'
    BY ThreadAssumption DEF ThreadTypes, Pcs, CallPcs, LaunchPcs, KillPcs,
       PumpPcs, Job, NoJob, Causes, LaunchFailed, Finish, Goto, Thread
  <1>3. ThreadsHaveWork'
    BY DEF ThreadsHaveWork, ThreadTypes, CallPcs, LaunchPcs, KillPcs,
       LaunchFailed, Finish, NoJob, Goto, Thread
  <1>4. KillsAreSafe'
    BY DEF KillsAreSafe, AtWork, Working, ThreadTypes, ThreadsHaveWork,
       CallPcs, LaunchPcs, KillPcs, LaunchFailed, slots, Finish, NoJob, Goto,
       Thread
  <1>5. StartsAreClaimed'
    BY DEF StartsAreClaimed, AtWork, Working, ThreadTypes, ThreadsHaveWork,
       CallPcs, LaunchPcs, KillPcs, LaunchFailed, slots, Finish, NoJob, Goto,
       Thread
  <1>6. (SlotTypes /\ WaitTypes
        /\ OtherTypes /\ RunsHaveSessions /\ SlotIsHeld)'
    BY DEF SlotTypes, WaitTypes, OtherTypes, RunsHaveSessions, SlotIsHeld,
       AtWork, LaunchFailed, history, bounds, waiting, slots, Finish
  <1> QED BY <1>1, <1>2, <1>3, <1>4, <1>5, <1>6

LEMMA DroppedKeeps ==
  ASSUME NEW t \in Thread, IInv, Dropped(t) PROVE IInv'
  <1> USE DEF IInv, TypeOK
  <1>1. ThreadTypes'
    BY ThreadAssumption DEF ThreadTypes, Pcs, CallPcs, LaunchPcs, KillPcs,
       PumpPcs, Job, NoJob, Causes, Dropped, Finish, Goto, Thread
  <1>2. ThreadsHaveWork'
    BY ThreadAssumption DEF ThreadsHaveWork, ThreadTypes, CallPcs, LaunchPcs,
       KillPcs, Dropped, Finish, NoJob, Goto, Thread
  <1>3. KillsAreSafe'
    BY ThreadAssumption DEF KillsAreSafe, AtWork, Working, ThreadTypes, ThreadsHaveWork,
       CallPcs, LaunchPcs, KillPcs, Dropped, slots, Finish, NoJob, Goto, Thread
  <1>4. StartsAreClaimed'
    BY ThreadAssumption DEF StartsAreClaimed, ThreadTypes, ThreadsHaveWork,
       CallPcs, LaunchPcs, KillPcs, Dropped, slots, Finish, NoJob, Goto, Thread
  <1>5. (DiskTypes /\ SlotTypes /\ WaitTypes
        /\ OtherTypes /\ RunsHaveSessions /\ SlotIsHeld)'
    BY DEF DiskTypes, SlotTypes, WaitTypes, OtherTypes, RunsHaveSessions,
       SlotIsHeld, AtWork, Dropped, history, bounds, waiting, slots, disk
  <1> QED BY <1>1, <1>2, <1>3, <1>4, <1>5

LEMMA KillCancelKeeps ==
  ASSUME NEW t \in Caller, NEW s \in Session, IInv, KillCancel(t, s)
  PROVE  IInv'
  <1> USE DEF IInv, TypeOK
  <1> DEFINE r == handles[s]
             j == [NoJob EXCEPT !.sid = s]
  <1>1. t \in Thread /\ pc \in [Thread -> Pcs] /\ held \in [Thread -> RunId \cup {None}]
    BY DEF ThreadTypes, Thread
  <1>2. j = [sid |-> s, cause |-> None, from |-> None]
    BY DEF NoJob
  <1>3. (DiskTypes /\ WaitTypes)'
    BY DEF DiskTypes, WaitTypes, KillCancel, disk, waiting
  <1>4. OtherTypes'
    BY BoundAssumption DEF OtherTypes, KillCancel, Calls, history
  <1>5. job' \in [Thread -> [sid : Session \cup {None}, cause : Causes \cup {None},
                             from : Nat \cup {None}]]
        /\ job'[t].sid = s
    BY <1>1, <1>2 DEF ThreadTypes, KillCancel
  <1>6. \A u \in Thread \ {t} : job'[u] = job[u] /\ held'[u] = held[u] /\ pc'[u] = pc[u]
    BY <1>1 DEF ThreadTypes, KillCancel, Goto
  <1>7. CASE r = None
    <2>1. UNCHANGED <<handles, run, held>> /\ pc' = [pc EXCEPT ![t] = "killqueue"]
      BY <1>7 DEF KillCancel, Goto
    <2>2. pc'[t] = "killqueue" /\ pc' \in [Thread -> Pcs]
      BY <1>1, <2>1 DEF Pcs, KillPcs
    <2>3. SlotTypes' /\ RunsHaveSessions' /\ SlotIsHeld'
      BY <2>1 DEF SlotTypes, RunsHaveSessions, SlotIsHeld, AtWork
    <2>4. ThreadTypes'
      BY <1>5, <2>1, <2>2 DEF ThreadTypes, KillCancel
    <2>5. ThreadsHaveWork'
      BY <1>5, <1>6, <2>2 DEF ThreadsHaveWork, CallPcs, LaunchPcs
    <2>6. KillsAreSafe' /\ StartsAreClaimed'
      BY <1>6, <2>1, <2>2 DEF KillsAreSafe, StartsAreClaimed, AtWork
    <2> QED BY <1>3, <1>4, <2>3, <2>4, <2>5, <2>6
  <1>8. CASE r # None
    <2> DEFINE R == [run[r] EXCEPT !.cancelled = TRUE, !.attached = FALSE]
    <2>1. r \in RunId /\ run[r] \in Runs /\ handles' = handles /\ handles' \in HandleMaps
      BY <1>8 DEF SlotTypes, KillCancel, HandleMaps
    <2>2. R \in Runs /\ R.cancelled /\ R.sid = run[r].sid /\ R.phase = run[r].phase
      BY <2>1 DEF Runs
    <2>3. run' = [run EXCEPT ![r] = R] /\ held' = [held EXCEPT ![t] = r]
      BY <1>8 DEF KillCancel
    <2>4. PICK p \in {"killwait", "killfree"} : pc' = [pc EXCEPT ![t] = p]
      BY <1>8 DEF KillCancel, Goto
    <2> HIDE DEF R, r
    <2>5. SlotTypes' /\ run'[r] = R /\ \A q \in RunId \ {r} : run'[q] = run[q]
      BY <2>1, <2>2, <2>3, RunUpdated
    <2>6. pc'[t] = p /\ pc' \in [Thread -> Pcs] /\ held'[t] = r
          /\ held' \in [Thread -> RunId \cup {None}]
      BY <1>1, <2>1, <2>3, <2>4 DEF Pcs, KillPcs
    <2>7. ThreadTypes'
      BY <1>5, <2>6 DEF ThreadTypes, KillCancel
    <2>8. ThreadsHaveWork'
      BY <1>5, <1>6, <2>1, <2>6 DEF ThreadsHaveWork, CallPcs, LaunchPcs
    <2>9. RunsHaveSessions' /\ SlotIsHeld'
      BY <2>1, <2>2, <2>5 DEF RunsHaveSessions, SlotIsHeld, AtWork
    <2>10. KillsAreSafe'
      BY <1>6, <2>1, <2>2, <2>5, <2>6 DEF KillsAreSafe, AtWork, ThreadsHaveWork
    <2>11. StartsAreClaimed'
      BY <1>6, <2>1, <2>2, <2>5, <2>6 DEF StartsAreClaimed, ThreadsHaveWork
    <2> QED BY <1>3, <1>4, <2>5, <2>7, <2>8, <2>9, <2>10, <2>11
  <1> QED BY <1>7, <1>8

LEMMA KillWaitKeeps ==
  ASSUME NEW t \in Caller, IInv, KillWait(t) PROVE IInv'
  <1> USE DEF IInv, TypeOK
  <1>1. ThreadTypes'
    BY ThreadAssumption DEF ThreadTypes, Pcs, CallPcs, LaunchPcs, KillPcs,
       PumpPcs, KillWait, local, Goto, Working, Thread
  <1>2. ThreadsHaveWork'
    BY DEF ThreadsHaveWork, ThreadTypes, CallPcs, LaunchPcs, KillPcs,
       KillWait, local, Goto, Working, Thread
  <1>3. KillsAreSafe'
    BY DEF KillsAreSafe, AtWork, Working, ThreadTypes, ThreadsHaveWork,
       CallPcs, LaunchPcs, KillPcs, KillWait, local, slots, Goto, Thread
  <1>4. StartsAreClaimed'
    BY DEF StartsAreClaimed, AtWork, Working, ThreadTypes, ThreadsHaveWork,
       CallPcs, LaunchPcs, KillPcs, KillWait, local, slots, Goto, Thread
  <1>5. (DiskTypes /\ SlotTypes /\ WaitTypes
        /\ OtherTypes /\ RunsHaveSessions /\ SlotIsHeld)'
    BY DEF DiskTypes, SlotTypes, WaitTypes, OtherTypes, RunsHaveSessions,
       SlotIsHeld, AtWork, KillWait, history, bounds, waiting, slots, disk
  <1> QED BY <1>1, <1>2, <1>3, <1>4, <1>5

LEMMA KillAbortKeeps ==
  ASSUME NEW t \in Caller, IInv, KillAbort(t) PROVE IInv'
  <1> USE DEF IInv, TypeOK
  <1>1. SlotTypes'
    <2>1. held[t] \in RunId /\ handles' \in HandleMaps
      BY DEF KillAbort, ThreadsHaveWork, SlotTypes, HandleMaps, Thread
    <2> QED BY <2>1, MoveSteps DEF KillAbort, Phases, TaskOver
  <1>2. ThreadTypes'
    BY ThreadAssumption DEF ThreadTypes, Pcs, CallPcs, LaunchPcs, KillPcs,
       PumpPcs, Runs, KillAbort, local, Goto, Working, Thread
  <1>3. OtherTypes'
    BY BoundAssumption DEF OtherTypes, Runs, KillAbort, bounds, Forgive,
       Working
  <1>4. ThreadsHaveWork'
    BY DEF ThreadsHaveWork, ThreadTypes, CallPcs, LaunchPcs, KillPcs, Runs,
       KillAbort, local, Goto, Working, Thread
  <1>5. RunsHaveSessions'
    BY DEF RunsHaveSessions, SlotTypes, Runs, ThreadsHaveWork, CallPcs,
       LaunchPcs, KillPcs, KillAbort, Move, Working
  <1>6. KillsAreSafe'
    BY DEF KillsAreSafe, AtWork, Working, SlotTypes, ThreadTypes,
       ThreadsHaveWork, Runs, CallPcs, LaunchPcs, KillPcs, KillAbort, local,
       Goto, Move, Thread
  <1>7. StartsAreClaimed'
    BY DEF StartsAreClaimed, AtWork, Working, SlotTypes, ThreadTypes,
       ThreadsHaveWork, Runs, CallPcs, LaunchPcs, KillPcs, KillAbort, local,
       Goto, Move, Thread
  <1>8. SlotIsHeld'
    BY NoneAssumption DEF SlotIsHeld, AtWork, Working, SlotTypes, ThreadTypes,
       Runs, ThreadsHaveWork, RunsHaveSessions, KillsAreSafe,
       StartsAreClaimed, KillAbort, Move
  <1>9. (DiskTypes /\ WaitTypes)'
    BY DEF DiskTypes, WaitTypes, KillAbort, waiting, disk, Forgive
  <1> QED BY <1>1, <1>2, <1>3, <1>4, <1>5, <1>6, <1>7, <1>8, <1>9

LEMMA KillFreeKeeps ==
  ASSUME NEW t \in Caller, IInv, KillFree(t) PROVE IInv'
  <1> USE DEF IInv, TypeOK
  <1>1. SlotTypes'
    BY NoneAssumption DEF SlotTypes, ThreadsHaveWork, CallPcs, LaunchPcs,
       KillPcs, KillFree, Freed
  <1>2. ThreadTypes'
    BY ThreadAssumption DEF ThreadTypes, Pcs, CallPcs, LaunchPcs, KillPcs,
       PumpPcs, KillFree, Goto, Freed, Thread
  <1>3. OtherTypes'
    BY BoundAssumption DEF OtherTypes, KillFree, bounds, Forgive, Freed
  <1>4. ThreadsHaveWork'
    BY DEF ThreadsHaveWork, ThreadTypes, CallPcs, LaunchPcs, KillPcs,
       KillFree, Goto, Freed, Thread
  <1>5. KillsAreSafe'
    BY DEF KillsAreSafe, AtWork, Working, ThreadTypes, ThreadsHaveWork,
       CallPcs, LaunchPcs, KillPcs, KillFree, Goto, Freed, Thread
  <1>6. StartsAreClaimed'
    BY DEF StartsAreClaimed, AtWork, Working, ThreadTypes, ThreadsHaveWork,
       CallPcs, LaunchPcs, KillPcs, KillFree, Goto, Freed, Thread
  <1>7. SlotIsHeld'
    <2>1. KillsAreSafe /\ SlotIsHeld /\ UNCHANGED run
      BY DEF KillFree
    <2>2. ASSUME NEW q \in RunId, AtWork(q), ~ run[q].cancelled
          PROVE  handles'[run[q].sid] = q
      <3>1. handles[run[q].sid] = q /\ run[q].sid \in Session
        BY <2>2 DEF SlotIsHeld, RunsHaveSessions, AtWork, Working
      <3>2. held[t] # q
        BY <2>2 DEF KillsAreSafe, KillFree, Thread
      <3> QED BY <3>1, <3>2 DEF KillFree, Freed, SlotTypes
    <2> QED BY <2>1, <2>2 DEF SlotIsHeld, AtWork
  <1>8. (DiskTypes /\ WaitTypes /\ RunsHaveSessions)'
    BY DEF DiskTypes, WaitTypes, RunsHaveSessions, KillFree, waiting, disk,
       Forgive
  <1> QED BY <1>1, <1>2, <1>3, <1>4, <1>5, <1>6, <1>7, <1>8

LEMMA KillQueueKeeps ==
  ASSUME NEW t \in Caller, IInv, KillQueue(t) PROVE IInv'
  <1> USE DEF IInv, TypeOK
  <1>1. WaitTypes'
    BY DEF WaitTypes, ThreadsHaveWork, CallPcs, LaunchPcs, KillPcs, KillQueue
  <1>2. ThreadTypes'
    BY ThreadAssumption DEF ThreadTypes, Pcs, CallPcs, LaunchPcs, KillPcs,
       PumpPcs, KillQueue, local, Goto, Thread
  <1>3. ThreadsHaveWork'
    BY DEF ThreadsHaveWork, ThreadTypes, CallPcs, LaunchPcs, KillPcs,
       KillQueue, local, Goto, Thread
  <1>4. KillsAreSafe'
    BY DEF KillsAreSafe, AtWork, Working, ThreadTypes, ThreadsHaveWork,
       CallPcs, LaunchPcs, KillPcs, KillQueue, local, slots, Goto, Thread
  <1>5. StartsAreClaimed'
    BY DEF StartsAreClaimed, AtWork, Working, ThreadTypes, ThreadsHaveWork,
       CallPcs, LaunchPcs, KillPcs, KillQueue, local, slots, Goto, Thread
  <1>6. (DiskTypes /\ SlotTypes
        /\ OtherTypes /\ RunsHaveSessions /\ SlotIsHeld)'
    BY DEF DiskTypes, SlotTypes, OtherTypes, RunsHaveSessions, SlotIsHeld,
       AtWork, KillQueue, history, bounds, slots, disk
  <1> QED BY <1>1, <1>2, <1>3, <1>4, <1>5, <1>6

LEMMA KillClearKeeps ==
  ASSUME NEW t \in Caller, IInv, KillClear(t) PROVE IInv'
  <1> USE DEF IInv, TypeOK
  <1>1. DiskTypes'
    BY DEF DiskTypes, Statuses, Job, NoJob, ThreadsHaveWork, CallPcs,
       LaunchPcs, KillPcs, KillClear
  <1>2. ThreadTypes'
    BY ThreadAssumption DEF ThreadTypes, Pcs, CallPcs, LaunchPcs, KillPcs,
       PumpPcs, KillClear, local, Goto, NoJob, Thread
  <1>3. ThreadsHaveWork'
    BY DEF ThreadsHaveWork, ThreadTypes, CallPcs, LaunchPcs, KillPcs,
       KillClear, local, Goto, NoJob, Thread
  <1>4. KillsAreSafe'
    BY DEF KillsAreSafe, AtWork, Working, ThreadTypes, ThreadsHaveWork,
       CallPcs, LaunchPcs, KillPcs, KillClear, local, slots, Goto, NoJob,
       Thread
  <1>5. StartsAreClaimed'
    BY DEF StartsAreClaimed, AtWork, Working, ThreadTypes, ThreadsHaveWork,
       CallPcs, LaunchPcs, KillPcs, KillClear, local, slots, Goto, NoJob,
       Thread
  <1>6. (SlotTypes /\ WaitTypes
        /\ OtherTypes /\ RunsHaveSessions /\ SlotIsHeld)'
    BY DEF SlotTypes, WaitTypes, OtherTypes, RunsHaveSessions, SlotIsHeld,
       AtWork, KillClear, history, bounds, waiting, slots
  <1> QED BY <1>1, <1>2, <1>3, <1>4, <1>5, <1>6

LEMMA KillMarkKeeps ==
  ASSUME NEW t \in Caller, IInv, KillMark(t) PROVE IInv'
  <1> USE DEF IInv, TypeOK
  <1>1. DiskTypes'
    BY DEF DiskTypes, Statuses, ThreadsHaveWork, CallPcs, LaunchPcs, KillPcs,
       KillMark, NoJob, SetStatus
  <1>2. WaitTypes'
    BY DEF WaitTypes, ThreadsHaveWork, CallPcs, LaunchPcs, KillPcs, KillMark,
       NoJob
  <1>3. ThreadTypes'
    BY ThreadAssumption DEF ThreadTypes, Pcs, CallPcs, LaunchPcs, KillPcs,
       PumpPcs, Job, NoJob, Causes, KillMark, Finish, Goto, Thread
  <1>4. OtherTypes'
    BY BoundAssumption DEF OtherTypes, KillMark, bounds, NoJob
  <1>5. ThreadsHaveWork'
    BY DEF ThreadsHaveWork, ThreadTypes, CallPcs, LaunchPcs, KillPcs,
       KillMark, Finish, NoJob, Goto, Thread
  <1>6. KillsAreSafe'
    BY DEF KillsAreSafe, AtWork, Working, ThreadTypes, ThreadsHaveWork,
       CallPcs, LaunchPcs, KillPcs, KillMark, slots, Finish, NoJob, Goto,
       Thread
  <1>7. StartsAreClaimed'
    BY DEF StartsAreClaimed, AtWork, Working, ThreadTypes, ThreadsHaveWork,
       CallPcs, LaunchPcs, KillPcs, KillMark, slots, Finish, NoJob, Goto,
       Thread
  <1>8. (SlotTypes /\ RunsHaveSessions /\ SlotIsHeld)'
    BY DEF SlotTypes, RunsHaveSessions, SlotIsHeld, AtWork, KillMark, slots,
       Finish
  <1> QED BY <1>1, <1>2, <1>3, <1>4, <1>5, <1>6, <1>7, <1>8

LEMMA BeginKeeps ==
  ASSUME NEW r \in RunId, IInv, Begin(r) PROVE IInv'
  <1> USE DEF IInv, TypeOK
  <1>1. mark \in MarkMaps /\ run[r] \in Runs /\ run[r].sid \in Session
    BY DEF WaitTypes, MarkMaps, SlotTypes, RunsHaveSessions, Begin
  <1>2. PICK p \in {"turn", "ready"} : SlotTypes' /\ Stepped(r, p)
    <2>1. CASE run[r].cause = "compact"
      BY <2>1, MoveSteps DEF Begin, SlotTypes, HandleMaps, Phases, Working
    <2>2. CASE run[r].cause # "compact"
      BY <1>1, <2>2, TakesInputSteps DEF Begin
    <2> QED BY <2>1, <2>2
  <1>3. (RunsHaveSessions /\ KillsAreSafe /\ StartsAreClaimed /\ SlotIsHeld)'
    BY <1>2, RunGoesOn DEF Begin, Working, local
  <1>4. DiskTypes'
    BY <1>1 DEF DiskTypes, Statuses, Begin, SetStatus
  <1>5. WaitTypes'
    BY <1>1 DEF WaitTypes, MarkMaps, Runs, Begin, waiting
  <1>6. (ThreadTypes /\ OtherTypes /\ ThreadsHaveWork)'
    BY DEF ThreadTypes, OtherTypes, ThreadsHaveWork, Begin, local, bounds,
       history
  <1> QED BY <1>2, <1>3, <1>4, <1>5, <1>6

LEMMA StartTurnKeeps ==
  ASSUME NEW r \in RunId, IInv, StartTurn(r) PROVE IInv'
  <1> USE DEF IInv, TypeOK
  <1>1. SlotTypes' /\ Stepped(r, "turn")
    BY MoveSteps DEF StartTurn, SlotTypes, HandleMaps, Phases, Working
  <1>2. (RunsHaveSessions /\ KillsAreSafe /\ StartsAreClaimed /\ SlotIsHeld)'
    BY <1>1, RunGoesOn DEF StartTurn, Working, local
  <1>3. OtherTypes'
    <2>1. run[r].lo \in Nat /\ run[r].hi \in Nat
      BY DEF SlotTypes, Runs
    <2> DEFINE input == [k \in 1..(run[r].hi - run[r].lo) |-> run[r].lo + k]
    <2>2. input \in Seq(Nat)
      <3>1. CASE run[r].lo <= run[r].hi
        <4>1. run[r].hi - run[r].lo \in Nat
          BY <2>1, <3>1
        <4> QED BY <2>1, <4>1
      <3>2. CASE ~ run[r].lo <= run[r].hi
        <4>1. 1..(run[r].hi - run[r].lo) = 1..0
          BY <2>1, <3>2
        <4> QED BY <2>1, <4>1
      <3> QED BY <3>1, <3>2
    <2>3. handed' = [handed EXCEPT ![run[r].sid] = @ \o input]
      BY DEF StartTurn
    <2> HIDE DEF input
    <2>4. \A s \in Session : handed[s] \o input \in Seq(Nat)
      BY <2>2 DEF OtherTypes
    <2>5. handed' \in [Session -> Seq(Nat)]
      BY <2>3, <2>4 DEF OtherTypes
    <2>6. owed' \in [Session -> SUBSET Nat]
      BY DEF OtherTypes, StartTurn
    <2> QED BY <2>5, <2>6 DEF OtherTypes, StartTurn, bounds
  <1>4. (DiskTypes /\ WaitTypes /\ ThreadTypes /\ ThreadsHaveWork)'
    BY DEF DiskTypes, WaitTypes, ThreadTypes, ThreadsHaveWork, StartTurn, disk,
       waiting, local
  <1> QED BY <1>1, <1>2, <1>3, <1>4

LEMMA BudgetHitKeeps ==
  ASSUME NEW r \in RunId, IInv, BudgetHit(r) PROVE IInv'
  <1> USE DEF IInv, TypeOK
  <1>1. SlotTypes' /\ Stepped(r, "settling")
    BY SettlesSteps DEF BudgetHit, SlotTypes, Statuses, HandleMaps
  <1>2. (RunsHaveSessions /\ KillsAreSafe /\ StartsAreClaimed /\ SlotIsHeld)'
    BY <1>1, RunGoesOn DEF BudgetHit, Working, local
  <1>3. (DiskTypes /\ WaitTypes /\ ThreadTypes /\ OtherTypes /\ ThreadsHaveWork)'
    BY DEF DiskTypes, WaitTypes, ThreadTypes, OtherTypes, ThreadsHaveWork,
       BudgetHit, disk, waiting, local, bounds, history
  <1> QED BY <1>1, <1>2, <1>3

LEMMA TurnCompletedKeeps ==
  ASSUME NEW r \in RunId, IInv, TurnCompleted(r) PROVE IInv'
  <1> USE DEF IInv, TypeOK
  <1>1. /\ mark \in MarkMaps /\ sent \in [Session -> Nat]
        /\ run[r].sid \in Session /\ handles' \in HandleMaps
    BY DEF WaitTypes, DiskTypes, MarkMaps, SlotTypes, RunsHaveSessions,
       HandleMaps, TurnCompleted
  <1>2. PICK p \in {"settling", "ready", "looking"} :
          SlotTypes' /\ mark' \in MarkMaps /\ Stepped(r, p)
    <2>1. CASE run[r].cause = "compact"
      BY <1>1, <2>1, SettlesSteps DEF TurnCompleted, Statuses
    <2>2. CASE run[r].cause # "compact" /\ Fresh(r)
      BY <1>1, <2>2, GoOnSteps DEF TurnCompleted
    <2>3. CASE run[r].cause # "compact" /\ ~ Fresh(r)
      BY <1>1, <2>3, MoveSteps DEF TurnCompleted, Phases, Working
    <2> QED BY <2>1, <2>2, <2>3
  <1>3. (RunsHaveSessions /\ KillsAreSafe /\ StartsAreClaimed /\ SlotIsHeld)'
    BY <1>2, RunGoesOn DEF TurnCompleted, Working, local
  <1>4. WaitTypes'
    BY <1>2 DEF WaitTypes, MarkMaps, TurnCompleted, waiting
  <1>5. (DiskTypes /\ ThreadTypes /\ OtherTypes /\ ThreadsHaveWork)'
    BY DEF DiskTypes, ThreadTypes, OtherTypes, ThreadsHaveWork, TurnCompleted,
       disk, local, bounds, history
  <1> QED BY <1>2, <1>3, <1>4, <1>5

LEMMA LastLookKeeps ==
  ASSUME NEW r \in RunId, IInv, LastLook(r) PROVE IInv'
  <1> USE DEF IInv, TypeOK
  <1>1. /\ mark \in MarkMaps /\ sent \in [Session -> Nat]
        /\ run[r] \in Runs /\ run[r].sid \in Session
    BY DEF WaitTypes, DiskTypes, MarkMaps, SlotTypes, RunsHaveSessions, LastLook
  <1>2. PICK p \in {"settling", "ready", "over"} :
          /\ SlotTypes' /\ mark' \in MarkMaps /\ Stepped(r, p)
          /\ handles' = handles \/ (p = "over" /\ handles' = Freed(run[r].sid, r))
    <2>1. CASE Fresh(r)
      BY <1>1, <2>1, GoOnSteps DEF LastLook
    <2>2. CASE ~ Fresh(r)
      <3> DEFINE R == [run[r] EXCEPT !.phase = "over", !.done = TRUE]
      <3>1. R \in Runs
        BY <1>1 DEF Runs, Phases, TaskOver
      <3>2. R.phase = "over" /\ R.sid = run[r].sid /\ R.cancelled = run[r].cancelled
        BY <1>1 DEF Runs
      <3>3. /\ run' = [run EXCEPT ![r] = R]
            /\ handles' = Freed(run[r].sid, r)
            /\ mark' \in MarkMaps
        BY <1>1, <2>2 DEF LastLook, MarkMaps
      <3> HIDE DEF R
      <3> QED BY <3>1, <3>2, <3>3, RunUpdated, FreedType DEF Stepped
    <2> QED BY <2>1, <2>2
  <1>3. (RunsHaveSessions /\ KillsAreSafe /\ StartsAreClaimed /\ SlotIsHeld)'
    BY <1>2, RunGoesOn DEF LastLook, Working, TaskOver, local
  <1>4. DiskTypes'
    BY <1>1, SettledType DEF DiskTypes, Statuses, LastLook, SetStatus
  <1>5. WaitTypes'
    BY <1>2 DEF WaitTypes, MarkMaps, LastLook, waiting
  <1>6. (ThreadTypes /\ OtherTypes /\ ThreadsHaveWork)'
    BY DEF ThreadTypes, OtherTypes, ThreadsHaveWork, LastLook, local, bounds,
       history
  <1> QED BY <1>2, <1>3, <1>4, <1>5, <1>6

LEMMA TurnStopsKeeps ==
  ASSUME NEW r \in RunId, NEW o \in AllOutcomes, IInv, TurnStops(r, o)
  PROVE  IInv'
  <1> USE DEF IInv, TypeOK
  <1>1. SlotTypes' /\ Stepped(r, "settling")
    BY SettlesSteps DEF TurnStops, SlotTypes, Statuses, HandleMaps
  <1>2. (RunsHaveSessions /\ KillsAreSafe /\ StartsAreClaimed /\ SlotIsHeld)'
    BY <1>1, RunGoesOn DEF TurnStops, Working, local
  <1>3. (DiskTypes /\ WaitTypes /\ ThreadTypes /\ OtherTypes /\ ThreadsHaveWork)'
    BY DEF DiskTypes, WaitTypes, ThreadTypes, OtherTypes, ThreadsHaveWork,
       TurnStops, disk, waiting, local, bounds, history
  <1> QED BY <1>1, <1>2, <1>3

LEMMA ReleaseKeeps ==
  ASSUME NEW r \in RunId, IInv, Release(r) PROVE IInv'
  <1> USE DEF IInv, TypeOK
  <1>1. run[r] \in Runs /\ run[r].sid \in Session
    BY DEF SlotTypes, RunsHaveSessions, Release
  <1>2. SlotTypes' /\ Stepped(r, "over")
    BY <1>1, MoveSteps, FreedType DEF Release, Phases, TaskOver
  <1>3. (RunsHaveSessions /\ KillsAreSafe /\ StartsAreClaimed /\ SlotIsHeld)'
    BY <1>2, RunGoesOn DEF Release, Working, TaskOver, local
  <1>4. DiskTypes'
    <2>1. Settled(r, run[r].want) \in Statuses
      BY <1>1, SettledType DEF Runs
    <2> QED BY <2>1 DEF DiskTypes, Release, SetStatus
  <1>5. OtherTypes'
    BY <1>1 DEF OtherTypes, Release, Forgive, bounds, history
  <1>6. (WaitTypes /\ ThreadTypes /\ ThreadsHaveWork)'
    BY DEF WaitTypes, ThreadTypes, ThreadsHaveWork, Release, waiting, local
  <1> QED BY <1>2, <1>3, <1>4, <1>5, <1>6

LEMMA RunDiesKeeps ==
  ASSUME NEW r \in RunId, IInv, RunDies(r) PROVE IInv'
  <1> USE DEF IInv, TypeOK
  <1>1. SlotTypes' /\ Stepped(r, "over")
    BY MoveSteps DEF RunDies, SlotTypes, HandleMaps, Phases, TaskOver
  <1>2. (RunsHaveSessions /\ KillsAreSafe /\ StartsAreClaimed /\ SlotIsHeld)'
    BY <1>1, RunGoesOn DEF RunDies, Working, TaskOver, local
  <1>3. OtherTypes'
    BY DEF OtherTypes, RunDies, Forgive, bounds
  <1>4. (DiskTypes /\ WaitTypes /\ ThreadTypes /\ ThreadsHaveWork)'
    BY DEF DiskTypes, WaitTypes, ThreadTypes, ThreadsHaveWork, RunDies, disk,
       waiting, local
  <1> QED BY <1>1, <1>2, <1>3, <1>4

LEMMA EndReleaseKeeps ==
  ASSUME NEW r \in RunId, IInv, EndRelease(r) PROVE IInv'
  <1> USE DEF IInv, TypeOK
  <1>1. PICK p \in {"repair", "notify"} : SlotTypes' /\ Stepped(r, p)
    BY MoveSteps, FreedType DEF EndRelease, Phases, TaskOver
  <1>2. (RunsHaveSessions /\ KillsAreSafe /\ StartsAreClaimed /\ SlotIsHeld)'
    BY <1>1, RunGoesOn DEF EndRelease, Working, TaskOver, local
  <1>3. (DiskTypes /\ WaitTypes /\ ThreadTypes /\ OtherTypes /\ ThreadsHaveWork)'
    BY DEF DiskTypes, WaitTypes, ThreadTypes, OtherTypes, ThreadsHaveWork,
       EndRelease, disk, waiting, local, bounds, history
  <1> QED BY <1>1, <1>2, <1>3

LEMMA EndReadKeeps ==
  ASSUME NEW r \in RunId, IInv, EndRead(r) PROVE IInv'
  <1> USE DEF IInv, TypeOK
  <1>1. PICK p \in {"repairing", "notify"} : SlotTypes' /\ Stepped(r, p)
    BY MoveSteps DEF EndRead, SlotTypes, HandleMaps, Phases, TaskOver
  <1>2. (RunsHaveSessions /\ KillsAreSafe /\ StartsAreClaimed /\ SlotIsHeld)'
    BY <1>1, RunGoesOn DEF EndRead, Working, TaskOver, local
  <1>3. (DiskTypes /\ WaitTypes /\ ThreadTypes /\ OtherTypes /\ ThreadsHaveWork)'
    BY DEF DiskTypes, WaitTypes, ThreadTypes, OtherTypes, ThreadsHaveWork,
       EndRead, disk, waiting, local, bounds, history
  <1> QED BY <1>1, <1>2, <1>3

LEMMA EndRepairKeeps ==
  ASSUME NEW r \in RunId, IInv, EndRepair(r) PROVE IInv'
  <1> USE DEF IInv, TypeOK
  <1>1. SlotTypes' /\ Stepped(r, "notify")
    BY MoveSteps DEF EndRepair, SlotTypes, HandleMaps, Phases, TaskOver
  <1>2. (RunsHaveSessions /\ KillsAreSafe /\ StartsAreClaimed /\ SlotIsHeld)'
    BY <1>1, RunGoesOn DEF EndRepair, Working, TaskOver, local
  <1>3. DiskTypes'
    BY DEF DiskTypes, Statuses, EndRepair, SetStatus
  <1>4. (WaitTypes /\ ThreadTypes /\ OtherTypes /\ ThreadsHaveWork)'
    BY DEF WaitTypes, ThreadTypes, OtherTypes, ThreadsHaveWork, EndRepair,
       waiting, local, bounds, history
  <1> QED BY <1>1, <1>2, <1>3, <1>4

LEMMA EndNotifyKeeps ==
  ASSUME NEW r \in RunId, IInv, EndNotify(r) PROVE IInv'
  <1> USE DEF IInv, TypeOK
  <1>1. SlotTypes'
    BY NoneAssumption DEF SlotTypes, Runs, Phases, Working, TaskOver,
       Statuses, ThreadsHaveWork, CallPcs, LaunchPcs, KillPcs, EndNotify,
       NoRun
  <1>2. WaitTypes'
    BY DEF WaitTypes, Runs, ThreadsHaveWork, CallPcs, LaunchPcs, KillPcs,
       EndNotify, NoRun
  <1>3. RunsHaveSessions'
    BY DEF RunsHaveSessions, SlotTypes, Runs, ThreadsHaveWork, CallPcs,
       LaunchPcs, KillPcs, EndNotify, NoRun
  <1>4. KillsAreSafe'
    BY DEF KillsAreSafe, AtWork, Working, SlotTypes, ThreadsHaveWork, Runs,
       CallPcs, LaunchPcs, KillPcs, EndNotify, local, NoRun, Thread
  <1>5. StartsAreClaimed'
    BY DEF StartsAreClaimed, AtWork, Working, SlotTypes, ThreadsHaveWork,
       Runs, CallPcs, LaunchPcs, KillPcs, EndNotify, local, NoRun, Thread
  <1>6. SlotIsHeld'
    BY NoneAssumption DEF SlotIsHeld, AtWork, Working, SlotTypes, Runs,
       ThreadsHaveWork, RunsHaveSessions, KillsAreSafe, StartsAreClaimed,
       EndNotify, NoRun
  <1>7. (DiskTypes /\ ThreadTypes /\ OtherTypes /\ ThreadsHaveWork)'
    BY DEF DiskTypes, ThreadTypes, OtherTypes, ThreadsHaveWork, EndNotify,
       history, bounds, local, disk
  <1> QED BY <1>1, <1>2, <1>3, <1>4, <1>5, <1>6, <1>7

LEMMA PumpWakeKeeps ==
  ASSUME IInv, PumpWake PROVE IInv'
  <1> USE DEF IInv, TypeOK
  <1>1. WaitTypes'
    BY DEF WaitTypes, ThreadsHaveWork, CallPcs, LaunchPcs, KillPcs, PumpWake
  <1>2. ThreadTypes'
    BY ThreadAssumption DEF ThreadTypes, Pcs, CallPcs, LaunchPcs, KillPcs,
       PumpPcs, PumpWake, local, Goto, Thread
  <1>3. ThreadsHaveWork'
    BY DEF ThreadsHaveWork, ThreadTypes, CallPcs, LaunchPcs, KillPcs,
       PumpWake, local, Goto, Thread
  <1>4. KillsAreSafe'
    BY DEF KillsAreSafe, AtWork, Working, ThreadTypes, ThreadsHaveWork,
       CallPcs, LaunchPcs, KillPcs, PumpWake, local, slots, Goto, Thread
  <1>5. StartsAreClaimed'
    BY DEF StartsAreClaimed, AtWork, Working, ThreadTypes, ThreadsHaveWork,
       CallPcs, LaunchPcs, KillPcs, PumpWake, local, slots, Goto, Thread
  <1>6. (DiskTypes /\ SlotTypes
        /\ OtherTypes /\ RunsHaveSessions /\ SlotIsHeld)'
    BY DEF DiskTypes, SlotTypes, OtherTypes, RunsHaveSessions, SlotIsHeld,
       AtWork, PumpWake, history, bounds, slots, disk
  <1> QED BY <1>1, <1>2, <1>3, <1>4, <1>5, <1>6

LEMMA PumpScanKeeps ==
  ASSUME IInv, PumpScan PROVE IInv'
  <1> USE DEF IInv, TypeOK
  <1>1. SlotTypes'
    BY NoneAssumption DEF SlotTypes, ThreadsHaveWork, CallPcs, LaunchPcs,
       KillPcs, PumpScan, Live, Full, Reaped, Finished, TaskOver
  <1>2. ThreadTypes'
    BY ThreadAssumption DEF ThreadTypes, Pcs, CallPcs, LaunchPcs, KillPcs,
       PumpPcs, PumpScan, Live, Goto, Full, Reaped, Finished, TaskOver, Thread
  <1>3. ThreadsHaveWork'
    BY DEF ThreadsHaveWork, ThreadTypes, CallPcs, LaunchPcs, KillPcs,
       PumpScan, Live, Goto, Full, Reaped, Finished, TaskOver, Thread
  <1>4. KillsAreSafe'
    BY DEF KillsAreSafe, AtWork, Working, ThreadTypes, ThreadsHaveWork,
       CallPcs, LaunchPcs, KillPcs, PumpScan, Live, Goto, Full, Reaped,
       Finished, TaskOver, Thread
  <1>5. StartsAreClaimed'
    BY DEF StartsAreClaimed, AtWork, Working, ThreadTypes, ThreadsHaveWork,
       CallPcs, LaunchPcs, KillPcs, PumpScan, Live, Goto, Full, Reaped,
       Finished, TaskOver, Thread
  <1>6. SlotIsHeld'
    BY NoneAssumption DEF SlotIsHeld, AtWork, Working, ThreadTypes,
       ThreadsHaveWork, RunsHaveSessions, KillsAreSafe, StartsAreClaimed,
       PumpScan, Live, Full, Reaped, Finished, TaskOver
  <1>7. (DiskTypes /\ WaitTypes /\ OtherTypes /\ RunsHaveSessions)'
    BY DEF DiskTypes, WaitTypes, OtherTypes, RunsHaveSessions, PumpScan,
       history, bounds, waiting, disk
  <1> QED BY <1>1, <1>2, <1>3, <1>4, <1>5, <1>6, <1>7

LEMMA PumpPopKeeps ==
  ASSUME NEW e \in queue, IInv, PumpPop(e) PROVE IInv'
  <1> USE DEF IInv, TypeOK
  <1>1. WaitTypes'
    BY DEF WaitTypes, ThreadsHaveWork, CallPcs, LaunchPcs, KillPcs, PumpPop
  <1>2. ThreadTypes'
    BY ThreadAssumption DEF ThreadTypes, Pcs, CallPcs, LaunchPcs, KillPcs,
       PumpPcs, Job, NoJob, Causes, PumpPop, Goto, Thread, WaitTypes
  <1>3. ThreadsHaveWork'
    BY DEF ThreadsHaveWork, ThreadTypes, CallPcs, LaunchPcs, KillPcs, PumpPop,
       Goto, Thread, Job, Causes, WaitTypes
  <1>4. KillsAreSafe'
    BY DEF KillsAreSafe, AtWork, Working, ThreadTypes, ThreadsHaveWork,
       CallPcs, LaunchPcs, KillPcs, PumpPop, slots, Goto, Thread
  <1>5. StartsAreClaimed'
    BY DEF StartsAreClaimed, AtWork, Working, ThreadTypes, ThreadsHaveWork,
       CallPcs, LaunchPcs, KillPcs, PumpPop, slots, Goto, Thread
  <1>6. (DiskTypes /\ SlotTypes
        /\ OtherTypes /\ RunsHaveSessions /\ SlotIsHeld)'
    BY DEF DiskTypes, SlotTypes, OtherTypes, RunsHaveSessions, SlotIsHeld,
       AtWork, PumpPop, history, bounds, slots, disk
  <1> QED BY <1>1, <1>2, <1>3, <1>4, <1>5, <1>6

LEMMA PumpFindsNoneKeeps ==
  ASSUME IInv, PumpFindsNone PROVE IInv'
  <1> USE DEF IInv, TypeOK
  <1>1. ThreadTypes'
    BY ThreadAssumption DEF ThreadTypes, Pcs, CallPcs, LaunchPcs, KillPcs,
       PumpPcs, PumpFindsNone, Goto, Thread
  <1>2. ThreadsHaveWork'
    BY DEF ThreadsHaveWork, ThreadTypes, CallPcs, LaunchPcs, KillPcs,
       PumpFindsNone, Goto, Thread
  <1>3. KillsAreSafe'
    BY DEF KillsAreSafe, AtWork, Working, ThreadTypes, ThreadsHaveWork,
       CallPcs, LaunchPcs, KillPcs, PumpFindsNone, slots, Goto, Thread
  <1>4. StartsAreClaimed'
    BY DEF StartsAreClaimed, AtWork, Working, ThreadTypes, ThreadsHaveWork,
       CallPcs, LaunchPcs, KillPcs, PumpFindsNone, slots, Goto, Thread
  <1>5. (DiskTypes /\ SlotTypes /\ WaitTypes
        /\ OtherTypes /\ RunsHaveSessions /\ SlotIsHeld)'
    BY DEF DiskTypes, SlotTypes, WaitTypes, OtherTypes, RunsHaveSessions,
       SlotIsHeld, AtWork, PumpFindsNone, history, bounds, waiting, slots,
       disk
  <1> QED BY <1>1, <1>2, <1>3, <1>4, <1>5

LEMMA PumpCheckKeeps ==
  ASSUME IInv, PumpCheck PROVE IInv'
  <1> USE DEF IInv, TypeOK
  <1>1. ThreadTypes'
    BY ThreadAssumption DEF ThreadTypes, Pcs, CallPcs, LaunchPcs, KillPcs,
       PumpPcs, Job, NoJob, Causes, PumpCheck, local, Goto, Finish, Thread
  <1>2. ThreadsHaveWork'
    BY DEF ThreadsHaveWork, ThreadTypes, CallPcs, LaunchPcs, KillPcs,
       PumpCheck, local, Goto, Finish, NoJob, Thread
  <1>3. KillsAreSafe'
    BY DEF KillsAreSafe, AtWork, Working, ThreadTypes, ThreadsHaveWork,
       CallPcs, LaunchPcs, KillPcs, PumpCheck, slots, local, Goto, Finish,
       NoJob, Thread
  <1>4. StartsAreClaimed'
    BY DEF StartsAreClaimed, AtWork, Working, ThreadTypes, ThreadsHaveWork,
       CallPcs, LaunchPcs, KillPcs, PumpCheck, slots, local, Goto, Finish,
       NoJob, Thread
  <1>5. (DiskTypes /\ SlotTypes /\ WaitTypes
        /\ OtherTypes /\ RunsHaveSessions /\ SlotIsHeld)'
    BY DEF DiskTypes, SlotTypes, WaitTypes, OtherTypes, RunsHaveSessions,
       SlotIsHeld, AtWork, PumpCheck, history, bounds, waiting, slots, disk,
       Finish
  <1> QED BY <1>1, <1>2, <1>3, <1>4, <1>5

LEMMA CrashKeeps ==
  ASSUME IInv, Crash PROVE IInv'
  <1> USE DEF IInv, TypeOK
  <1>1. DiskTypes'
    BY DEF DiskTypes, Statuses, Runs, ThreadsHaveWork, CallPcs, LaunchPcs,
       KillPcs, Crash, NoJob, Thread, NoRun
  <1>2. SlotTypes'
    BY NoneAssumption DEF SlotTypes, Runs, Phases, Working, TaskOver,
       Statuses, ThreadsHaveWork, CallPcs, LaunchPcs, KillPcs, Crash, NoJob,
       Thread, NoRun
  <1>3. WaitTypes'
    BY DEF WaitTypes, Runs, ThreadsHaveWork, CallPcs, LaunchPcs, KillPcs,
       Crash, NoJob, Thread, NoRun
  <1>4. ThreadTypes'
    BY ThreadAssumption DEF ThreadTypes, Pcs, CallPcs, LaunchPcs, KillPcs,
       PumpPcs, Job, NoJob, Causes, Runs, Crash, Thread, NoRun
  <1>5. OtherTypes'
    BY BoundAssumption DEF OtherTypes, Runs, Crash, NoJob, Thread, NoRun
  <1>6. ThreadsHaveWork'
    BY DEF ThreadsHaveWork, ThreadTypes, CallPcs, LaunchPcs, KillPcs, Runs,
       Crash, NoJob, Thread, NoRun
  <1>7. RunsHaveSessions'
    BY DEF RunsHaveSessions, SlotTypes, Runs, ThreadsHaveWork, CallPcs,
       LaunchPcs, KillPcs, Crash, NoJob, Thread, NoRun
  <1>8. KillsAreSafe'
    BY DEF KillsAreSafe, AtWork, Working, SlotTypes, ThreadTypes,
       ThreadsHaveWork, Runs, CallPcs, LaunchPcs, KillPcs, Crash, NoJob,
       Thread, NoRun
  <1>9. StartsAreClaimed'
    BY DEF StartsAreClaimed, AtWork, Working, SlotTypes, ThreadTypes,
       ThreadsHaveWork, Runs, CallPcs, LaunchPcs, KillPcs, Crash, NoJob,
       Thread, NoRun
  <1>10. SlotIsHeld'
    BY NoneAssumption DEF SlotIsHeld, AtWork, Working, SlotTypes, ThreadTypes,
       Runs, ThreadsHaveWork, RunsHaveSessions, KillsAreSafe,
       StartsAreClaimed, Crash, NoJob, Thread, NoRun
  <1> QED BY <1>1, <1>2, <1>3, <1>4, <1>5, <1>6, <1>7, <1>8, <1>9, <1>10

LEMMA RecoverListKeeps ==
  ASSUME IInv, RecoverList PROVE IInv'
  <1> USE DEF IInv, TypeOK
  <1>1. ThreadTypes'
    BY ThreadAssumption DEF ThreadTypes, Pcs, CallPcs, LaunchPcs, KillPcs,
       PumpPcs, RecoverList, Goto, Thread
  <1>2. ThreadsHaveWork'
    BY DEF ThreadsHaveWork, ThreadTypes, CallPcs, LaunchPcs, KillPcs,
       RecoverList, Goto, Thread
  <1>3. KillsAreSafe'
    BY DEF KillsAreSafe, AtWork, Working, ThreadTypes, ThreadsHaveWork,
       CallPcs, LaunchPcs, KillPcs, RecoverList, slots, Goto, Thread
  <1>4. StartsAreClaimed'
    BY DEF StartsAreClaimed, AtWork, Working, ThreadTypes, ThreadsHaveWork,
       CallPcs, LaunchPcs, KillPcs, RecoverList, slots, Goto, Thread
  <1>5. (DiskTypes /\ SlotTypes /\ WaitTypes
        /\ OtherTypes /\ RunsHaveSessions /\ SlotIsHeld)'
    BY DEF DiskTypes, SlotTypes, WaitTypes, OtherTypes, RunsHaveSessions,
       SlotIsHeld, AtWork, RecoverList, history, bounds, waiting, slots, disk
  <1> QED BY <1>1, <1>2, <1>3, <1>4, <1>5

LEMMA RecoverOneKeeps ==
  ASSUME NEW s \in Session, IInv, RecoverOne(s) PROVE IInv'
  <1> USE DEF IInv, TypeOK
  <1>1. DiskTypes'
    BY DEF DiskTypes, Statuses, ThreadsHaveWork, CallPcs, LaunchPcs, KillPcs,
       RecoverOne, SetStatus, NoJob
  <1>2. WaitTypes'
    <2>1. sidecar[s] # NoJob => sidecar[s] \in Job
      BY DEF DiskTypes
    <2>2. sidecar[s] # NoJob => \A e \in queue' : e.job \in Job
      BY <2>1, PushBackType DEF WaitTypes, RecoverOne
    <2> QED BY <2>2 DEF WaitTypes, RecoverOne
  <1>3. ThreadTypes'
    BY ThreadAssumption DEF ThreadTypes, RecoverOne, NoJob, Thread
  <1>4. (SlotTypes /\ OtherTypes /\ ThreadsHaveWork
        /\ RunsHaveSessions /\ KillsAreSafe /\ StartsAreClaimed /\ SlotIsHeld)'
    BY DEF SlotTypes, OtherTypes, ThreadsHaveWork, RunsHaveSessions,
       KillsAreSafe, StartsAreClaimed, SlotIsHeld, AtWork, RecoverOne,
       history, bounds, slots
  <1> QED BY <1>1, <1>2, <1>3, <1>4

LEMMA RecoverDoneKeeps ==
  ASSUME IInv, RecoverDone PROVE IInv'
  <1> USE DEF IInv, TypeOK
  <1>1. WaitTypes'
    BY DEF WaitTypes, ThreadsHaveWork, CallPcs, LaunchPcs, KillPcs,
       RecoverDone
  <1>2. ThreadTypes'
    BY ThreadAssumption DEF ThreadTypes, Pcs, CallPcs, LaunchPcs, KillPcs,
       PumpPcs, RecoverDone, local, Goto, Thread
  <1>3. ThreadsHaveWork'
    BY DEF ThreadsHaveWork, ThreadTypes, CallPcs, LaunchPcs, KillPcs,
       RecoverDone, local, Goto, Thread
  <1>4. KillsAreSafe'
    BY DEF KillsAreSafe, AtWork, Working, ThreadTypes, ThreadsHaveWork,
       CallPcs, LaunchPcs, KillPcs, RecoverDone, local, slots, Goto, Thread
  <1>5. StartsAreClaimed'
    BY DEF StartsAreClaimed, AtWork, Working, ThreadTypes, ThreadsHaveWork,
       CallPcs, LaunchPcs, KillPcs, RecoverDone, local, slots, Goto, Thread
  <1>6. (DiskTypes /\ SlotTypes
        /\ OtherTypes /\ RunsHaveSessions /\ SlotIsHeld)'
    BY DEF DiskTypes, SlotTypes, OtherTypes, RunsHaveSessions, SlotIsHeld,
       AtWork, RecoverDone, history, bounds, slots, disk
  <1> QED BY <1>1, <1>2, <1>3, <1>4, <1>5, <1>6
(***************************************************************************)
(* The invariant                                                           *)
(***************************************************************************)
LEMMA InitHolds == ASSUME Init PROVE IInv
  <1> USE DEF Init, Thread
  <1>1. DiskTypes
    BY DEF DiskTypes, Statuses, Job, NoJob
  <1>2. SlotTypes
    BY DEF SlotTypes, Runs, NoRun, Phases, Statuses
  <1>3. WaitTypes
    BY DEF WaitTypes
  <1>4. ThreadTypes
    BY DEF ThreadTypes, Pcs, PumpPcs, NoJob
  <1>5. OtherTypes
    <2>1. << >> \in Seq(Nat)
      OBVIOUS
    <2> QED BY <2>1, BoundAssumption DEF OtherTypes
  <1>6. ThreadsHaveWork
    BY DEF ThreadsHaveWork, CallPcs, LaunchPcs, KillPcs
  <1>7. RunsHaveSessions /\ SlotIsHeld
    BY DEF RunsHaveSessions, SlotIsHeld, AtWork, Working, NoRun
  <1>8. KillsAreSafe /\ StartsAreClaimed
    BY DEF KillsAreSafe, StartsAreClaimed
  <1> QED BY <1>1, <1>2, <1>3, <1>4, <1>5, <1>6, <1>7, <1>8 DEF IInv, TypeOK

LEMMA StutterKeeps == ASSUME IInv, UNCHANGED vars PROVE IInv'
  BY DEF vars, disk, slots, waiting, local, bounds, history, IInv, TypeOK,
     DiskTypes, SlotTypes, WaitTypes, ThreadTypes, OtherTypes, ThreadsHaveWork,
     RunsHaveSessions, KillsAreSafe, StartsAreClaimed, SlotIsHeld, AtWork

LEMMA EnqueueStepKeeps ==
  ASSUME NEW t \in Thread, IInv, EnqueueStep(t) PROVE IInv'
  BY MarkQueuedKeeps, PersistKeeps, PushKeeps DEF EnqueueStep

LEMMA LaunchStepKeeps ==
  ASSUME NEW t \in Thread, IInv, LaunchStep(t) PROVE IInv'
  BY LaunchClearKeeps, LoseClaimKeeps, LaunchStartKeeps, LaunchAttachKeeps,
     LaunchFailedKeeps, ClaimKeeps DEF LaunchStep

LEMMA CallKeeps ==
  ASSUME NEW t \in Caller, IInv, CallBegins(t) \/ CallStep(t) PROVE IInv'
  <1>1. t \in Thread
    BY DEF Thread
  <1>2. CASE CallBegins(t)
    <2>1. Ops \subseteq AllOps
      BY ChoiceAssumption
    <2> QED BY <1>2, <2>1, BeginSpawnKeeps, BeginSendKeeps, BeginChildKeeps,
              DeliverKeeps, KillCancelKeeps DEF CallBegins
  <1>3. CASE SendCheck(t) \/ Count(t) \/ Unstaff(t) \/ \E s \in Session : Create(t, s)
    BY <1>3, SendCheckKeeps, CountKeeps, UnstaffKeeps, CreateKeeps
  <1>4. CASE EnqueueStep(t) \/ LaunchStep(t)
    BY <1>1, <1>4, EnqueueStepKeeps, LaunchStepKeeps
  <1>5. CASE KillStep(t)
    BY <1>5, KillWaitKeeps, KillFreeKeeps, KillQueueKeeps, KillClearKeeps,
       KillMarkKeeps DEF KillStep
  <1> QED BY <1>2, <1>3, <1>4, <1>5 DEF CallStep

LEMMA PumpStepKeeps == ASSUME IInv, PumpStep PROVE IInv'
  <1>1. Pump \in Thread
    BY DEF Thread
  <1> QED BY <1>1, PumpWakeKeeps, PumpScanKeeps, PumpFindsNoneKeeps,
             PumpCheckKeeps, PumpPopKeeps, RecoverListKeeps, RecoverDoneKeeps,
             RecoverOneKeeps, EnqueueStepKeeps, LaunchStepKeeps DEF PumpStep

LEMMA RunKeeps ==
  ASSUME NEW r \in RunId, IInv, RunStep(r) \/ TurnEnds(r) PROVE IInv'
  BY BeginKeeps, StartTurnKeeps, LastLookKeeps, ReleaseKeeps, EndReleaseKeeps,
     EndReadKeeps, EndRepairKeeps, EndNotifyKeeps, TurnCompletedKeeps,
     TurnStopsKeeps DEF RunStep, TurnEnds

LEMMA FaultKeeps == ASSUME IInv, Fault PROVE IInv'
  BY CrashKeeps, LaunchFailsKeeps, KillAbortKeeps, DroppedKeeps, RunDiesKeeps,
     BudgetHitKeeps DEF Fault, Thread

\* Every step of the orchestrator keeps the inductive invariant.
THEOREM Inductive == Spec => []IInv
  <1>1. Init => IInv
    BY InitHolds
  <1>2. IInv /\ [Next]_vars => IInv'
    BY StutterKeeps, CallKeeps, PumpStepKeeps, RunKeeps, FaultKeeps DEF Next
  <1> QED BY <1>1, <1>2, PTL DEF Spec

(***************************************************************************)
(* The theorems                                                            *)
(***************************************************************************)
\* Whatever the sessions, run ids, callers and settings are, every variable of
\* the orchestrator keeps its type (mod.rs, launch.rs, queue.rs, run.rs).
THEOREM TypeCorrect == Spec => []TypeOK
  <1>1. IInv => TypeOK
    BY DEF IInv
  <1> QED BY <1>1, Inductive, PTL

\* A run that nobody stopped holds the handle of its session from its claim to
\* its release: no late kill, failed launch or ended run gives the slot of
\* another run away (launch.rs, 443-448, 657-674; mod.rs, 304-309).
THEOREM SlotHeld == Spec => []SlotIsHeld
  <1>1. IInv => SlotIsHeld
    BY DEF IInv
  <1> QED BY <1>1, Inductive, PTL

\* Two runs that nobody stopped are never at work on one session, for any number
\* of callers: the claim in launch (launch.rs, 404-422) is enough.
THEOREM OneRun == Spec => []OneRunPerSession
  <1>1. IInv => OneRunPerSession
    BY DEF IInv, SlotIsHeld, OneRunPerSession
  <1> QED BY <1>1, Inductive, PTL

(***************************************************************************)
(* Who stands behind a handle                                              *)
(***************************************************************************)
Startings == {t \in Thread : pc[t] = "start"}

\* A handle is that of a run of its session which has not left RunEnd::drop.
HandlesHaveRuns ==
  \A s \in Session : handles[s] # None =>
    /\ run[handles[s]].sid = s
    /\ run[handles[s]].phase \in {"claimed", "over"} \cup Working

\* The launch that claimed a run knows its session.
StartsHaveRuns == \A t \in Startings : run[held[t]].sid = job[t].sid

\* Behind a claim is its launch.  A dropped call breaks it.
ClaimsHaveStarts ==
  \A s \in Session : handles[s] # None /\ run[handles[s]].phase = "claimed" =>
    \E t \in Startings : held[t] = handles[s]

Owners == HandlesHaveRuns /\ StartsHaveRuns
Launchers == "drop" \notin Faults => ClaimsHaveStarts

\* A step that starts no launch and moves no run, and at most reaps the handles.
Quiet ==
  /\ UNCHANGED run
  /\ handles' = handles \/ handles' = Reaped
  /\ Startings' = Startings
  /\ \A t \in Startings : held'[t] = held[t] /\ job'[t] = job[t]

LEMMA QuietKeeps ==
  ASSUME IInv, Owners, Launchers, Quiet PROVE Owners' /\ Launchers'
  BY DEF Quiet, Owners, Launchers, HandlesHaveRuns, StartsHaveRuns, ClaimsHaveStarts, Reaped, IInv,
         TypeOK, SlotTypes

LEMMA QuietCalls ==
  ASSUME IInv, NEW t \in Thread,
         \/ SendCheck(t) \/ Count(t) \/ Unstaff(t) \/ EnqueueStep(t)
         \/ LaunchClear(t) \/ LoseClaim(t) \/ LaunchFailed(t)
         \/ KillWait(t) \/ KillQueue(t) \/ KillClear(t) \/ KillMark(t)
         \/ \E s \in Session : Create(t, s)
  PROVE  Quiet
  <1> USE DEF Quiet, Startings, IInv, TypeOK, ThreadTypes, slots, local, Goto, Finish
  <1>1. CASE SendCheck(t) \/ Count(t) \/ Unstaff(t)
    BY <1>1, ThreadAssumption DEF SendCheck, Count, Unstaff
  <1>2. CASE EnqueueStep(t)
    BY <1>2 DEF EnqueueStep, MarkQueued, Persist, Push
  <1>3. CASE LaunchClear(t) \/ LoseClaim(t) \/ LaunchFailed(t)
    BY <1>3 DEF LaunchClear, LoseClaim, LaunchFailed
  <1>4. CASE KillWait(t) \/ KillQueue(t) \/ KillClear(t) \/ KillMark(t)
    BY <1>4 DEF KillWait, KillQueue, KillClear, KillMark
  <1>5. CASE \E s \in Session : Create(t, s)
    BY <1>5 DEF Create
  <1> QED BY <1>1, <1>2, <1>3, <1>4, <1>5

LEMMA QuietBegins ==
  ASSUME IInv, NEW t \in Caller,
         \/ BeginSpawn(t)
         \/ \E s \in Session : \/ \E op \in Ops : BeginSend(t, s, op)
                               \/ BeginChild(t, s)
                               \/ Deliver(t, s)
  PROVE  Quiet
  <1> USE DEF Quiet, Startings, IInv, TypeOK, ThreadTypes, Thread, slots, local, Goto
  <1>1. CASE BeginSpawn(t)
    BY <1>1 DEF BeginSpawn
  <1>2. CASE \E s \in Session : \E op \in Ops : BeginSend(t, s, op)
    BY <1>2 DEF BeginSend
  <1>3. CASE \E s \in Session : BeginChild(t, s)
    BY <1>3 DEF BeginChild
  <1>4. CASE \E s \in Session : Deliver(t, s)
    BY <1>4 DEF Deliver
  <1> QED BY <1>1, <1>2, <1>3, <1>4

LEMMA QuietPump ==
  ASSUME IInv,
         \/ PumpWake \/ PumpScan \/ PumpFindsNone \/ PumpCheck \/ \E e \in queue : PumpPop(e)
         \/ RecoverList \/ RecoverDone \/ \E s \in Session : RecoverOne(s)
  PROVE  Quiet
  <1> USE DEF Quiet, Startings, IInv, TypeOK, ThreadTypes, Thread, slots, local, Goto, Finish
  <1>1. CASE PumpWake \/ PumpScan \/ PumpFindsNone \/ PumpCheck
    BY <1>1 DEF PumpWake, PumpScan, PumpFindsNone, PumpCheck
  <1>2. CASE \E e \in queue : PumpPop(e)
    BY <1>2 DEF PumpPop
  <1>3. CASE RecoverList \/ RecoverDone \/ \E s \in Session : RecoverOne(s)
    BY <1>3 DEF RecoverList, RecoverDone, RecoverOne
  <1> QED BY <1>1, <1>2, <1>3

\* The steps of a run that was claimed and is not yet past RunEnd::drop.
LEMMA RunStepsKeep ==
  ASSUME IInv, Owners, Launchers, NEW r \in RunId, NEW p \in Working \cup TaskOver,
         Stepped(r, p), run[r].phase \in Working \cup TaskOver,
         handles' = handles \/ handles' = Freed(run[r].sid, r),
         p \in {"repair", "repairing", "notify"} =>
           run[r].phase \in {"repair", "repairing"} \/ handles' = Freed(run[r].sid, r),
         UNCHANGED <<pc, held, job>>
  PROVE  Owners' /\ Launchers'
  <1>1. \A s \in Session : handles'[s] # None => handles'[s] = handles[s]
    BY DEF Freed, IInv, TypeOK, SlotTypes
  <1>2. HandlesHaveRuns'
    <2> SUFFICES ASSUME NEW s \in Session, handles'[s] # None
                 PROVE  /\ run'[handles'[s]].sid = s
                        /\ run'[handles'[s]].phase \in {"claimed", "over"} \cup Working
      BY DEF HandlesHaveRuns
    <2>1. /\ handles'[s] = handles[s] /\ handles[s] \in RunId
          /\ run[handles[s]].sid = s /\ run[handles[s]].phase \in {"claimed", "over"} \cup Working
      BY <1>1 DEF Owners, HandlesHaveRuns, IInv, TypeOK, SlotTypes
    <2>2. CASE handles[s] # r
      BY <2>1, <2>2 DEF Stepped
    <2>3. CASE handles[s] = r
      <3>1. p \notin {"repair", "repairing", "notify"}
        BY <2>1, <2>3, NoneAssumption DEF Freed, Working, IInv, TypeOK, SlotTypes
      <3> QED BY <2>1, <2>3, <3>1 DEF Stepped, TaskOver
    <2> QED BY <2>2, <2>3
  <1>3. Startings' = Startings /\ \A t \in Startings : held[t] # r
    BY DEF Startings, IInv, StartsAreClaimed, Working, TaskOver
  <1>4. StartsHaveRuns'
    BY <1>3 DEF StartsHaveRuns, Owners, Stepped, Startings, IInv, ThreadsHaveWork
  <1>5. ClaimsHaveStarts => ClaimsHaveStarts'
    BY <1>1, <1>3 DEF ClaimsHaveStarts, Stepped, Working, TaskOver, IInv, TypeOK, SlotTypes
  <1> QED BY <1>2, <1>4, <1>5 DEF Owners, Launchers

LEMMA RunsKeep ==
  ASSUME IInv, Owners, Launchers, NEW r \in RunId, RunStep(r) \/ TurnEnds(r) \/ RunDies(r) \/ BudgetHit(r),
         ~ EndNotify(r)
  PROVE  Owners' /\ Launchers'
  <1> USE DEF IInv, TypeOK, Working, TaskOver, Phases
  <1>1. run[r].phase # "none" => run[r].sid \in Session
    BY DEF RunsHaveSessions
  <1>2. handles \in HandleMaps /\ Freed(run[r].sid, r) \in HandleMaps
    BY FreedType DEF SlotTypes, HandleMaps
  <1>3. CASE Begin(r)
    <2>1. Stepped(r, "ready") \/ Stepped(r, "turn")
      BY <1>1, <1>2, <1>3, TakesInputSteps, MoveSteps DEF Begin, DiskTypes, WaitTypes, MarkMaps
    <2> QED BY <1>3, <2>1, RunStepsKeep DEF Begin, local
  <1>4. CASE StartTurn(r)
    BY <1>2, <1>4, MoveSteps, RunStepsKeep DEF StartTurn, local
  <1>5. CASE TurnCompleted(r)
    <2>1. Stepped(r, "ready") \/ Stepped(r, "settling") \/ Stepped(r, "looking")
      BY <1>1, <1>2, <1>5, GoOnSteps, SettlesSteps, MoveSteps
         DEF TurnCompleted, DiskTypes, WaitTypes, MarkMaps, Statuses
    <2> QED BY <1>5, <2>1, RunStepsKeep DEF TurnCompleted, local
  <1>6. CASE LastLook(r)
    <2>1. CASE Fresh(r)
      <3>1. Stepped(r, "ready") \/ Stepped(r, "settling")
        BY <1>1, <1>2, <1>6, <2>1, GoOnSteps DEF LastLook, DiskTypes, WaitTypes, MarkMaps
      <3> QED BY <1>6, <2>1, <3>1, RunStepsKeep DEF LastLook, local
    <2>2. CASE ~ Fresh(r)
      <3>1. Stepped(r, "over")
        <4> DEFINE R == [run[r] EXCEPT !.phase = "over", !.done = TRUE]
        <4>1. run[r] \in Runs
          BY DEF SlotTypes
        <4>2. R.phase = "over" /\ R.sid = run[r].sid /\ R.cancelled = run[r].cancelled
          BY <4>1 DEF Runs
        <4>3. run' = [run EXCEPT ![r] = R] /\ run \in [RunId -> Runs]
          BY <1>6, <2>2 DEF LastLook, SlotTypes
        <4> HIDE DEF R
        <4> QED BY <4>2, <4>3 DEF Stepped
      <3> QED BY <1>6, <2>2, <3>1, RunStepsKeep DEF LastLook, local
    <2> QED BY <2>1, <2>2
  <1>7. CASE \E o \in AllOutcomes : TurnStops(r, o)
    <2>1. Stepped(r, "settling")
      BY <1>2, <1>7, SettlesSteps DEF TurnStops, Statuses
    <2> QED BY <1>7, <2>1, RunStepsKeep DEF TurnStops, local
  <1>8. CASE BudgetHit(r)
    <2>1. Stepped(r, "settling")
      BY <1>2, <1>8, SettlesSteps DEF BudgetHit, Statuses
    <2> QED BY <1>8, <2>1, RunStepsKeep DEF BudgetHit, local
  <1>9. CASE Release(r)
    BY <1>2, <1>9, MoveSteps, RunStepsKeep DEF Release, local
  <1>10. CASE RunDies(r)
    BY <1>2, <1>10, MoveSteps, RunStepsKeep DEF RunDies, local
  <1>11. CASE EndRelease(r)
    BY <1>2, <1>11, MoveSteps, RunStepsKeep DEF EndRelease, local
  <1>12. CASE EndRead(r) \/ EndRepair(r)
    BY <1>2, <1>12, MoveSteps, RunStepsKeep DEF EndRead, EndRepair, local
  <1> QED BY <1>3, <1>4, <1>5, <1>6, <1>7, <1>8, <1>9, <1>10, <1>11, <1>12 DEF RunStep, TurnEnds

LEMMA LaunchesKeep ==
  ASSUME IInv, Owners, Launchers, NEW t \in Thread,
         \/ \E r \in RunId : Claim(t, r)
         \/ LaunchStart(t) \/ LaunchAttach(t) \/ LaunchFails(t)
         \/ t \in Caller /\ Dropped(t)
  PROVE  Owners' /\ Launchers'
  <1> USE DEF IInv, TypeOK, Startings, Goto
  <1>1. CASE \E r \in RunId : Claim(t, r)
    <2> PICK r \in RunId : Claim(t, r)
      BY <1>1
    <2> DEFINE s == job[t].sid
    <2>1. /\ pc[t] = "claim" /\ s \in Session /\ Reaped[s] = None /\ FreshRun(r)
          /\ handles' = [Reaped EXCEPT ![s] = r] /\ Reaped \in HandleMaps
      BY ReapedType DEF Claim, ThreadsHaveWork, LaunchPcs, Job
    <2>2. /\ run' = [run EXCEPT ![r] = ClaimedRun(job[t], sent[s])]
          /\ run'[r].sid = s /\ run'[r].phase = "claimed"
      BY DEF Claim, ClaimedRun, NoRun, SlotTypes
    <2>3. /\ pc' = [pc EXCEPT ![t] = "start"] /\ held' = [held EXCEPT ![t] = r] /\ job' = job
      BY DEF Claim
    <2>4. HandlesHaveRuns'
      BY <2>1, <2>2, NoneAssumption
         DEF HandlesHaveRuns, Owners, FreshRun, Reaped, HandleMaps, SlotTypes
    <2>5. StartsHaveRuns'
      BY <2>1, <2>2, <2>3 DEF StartsHaveRuns, Owners, FreshRun, ThreadTypes, ThreadsHaveWork
    <2>6. ClaimsHaveStarts => ClaimsHaveStarts'
      BY <2>1, <2>2, <2>3
         DEF ClaimsHaveStarts, FreshRun, Reaped, HandleMaps, SlotTypes, ThreadTypes
    <2> QED BY <2>4, <2>5, <2>6 DEF Owners, Launchers
  <1>2. CASE LaunchStart(t)
    <2>1. /\ pc[t] = "start" /\ held[t] \in RunId /\ run[held[t]].phase = "claimed"
          /\ handles \in HandleMaps
      BY <1>2 DEF LaunchStart, ThreadsHaveWork, StartsAreClaimed, SlotTypes, HandleMaps
    <2>2. Stepped(held[t], "spawned")
      BY <1>2, <2>1, MoveSteps DEF LaunchStart, Phases, Working
    <2>3. /\ pc' = [pc EXCEPT ![t] = "attach"] /\ UNCHANGED <<handles, held, job>>
      BY <1>2 DEF LaunchStart, local
    <2>4. \A u \in Startings' : u # t /\ u \in Startings /\ held[u] \in RunId /\ held[u] # held[t]
      BY <2>1, <2>3 DEF ThreadTypes, StartsAreClaimed, ThreadsHaveWork
    <2>5. HandlesHaveRuns'
      BY <2>1, <2>2, <2>3 DEF HandlesHaveRuns, Owners, Stepped, SlotTypes, Working
    <2>6. StartsHaveRuns'
      BY <2>2, <2>3, <2>4 DEF StartsHaveRuns, Owners, Stepped
    <2>7. ClaimsHaveStarts => ClaimsHaveStarts'
      BY <2>1, <2>2, <2>3 DEF ClaimsHaveStarts, Stepped, SlotTypes, ThreadTypes
    <2> QED BY <2>5, <2>6, <2>7 DEF Owners, Launchers
  <1>3. CASE LaunchAttach(t)
    <2>1. pc[t] = "attach" /\ held[t] \in RunId /\ UNCHANGED handles
      BY <1>3 DEF LaunchAttach, ThreadsHaveWork
    <2>2. \A q \in RunId : run'[q].sid = run[q].sid /\ run'[q].phase = run[q].phase
      BY <1>3, <2>1 DEF LaunchAttach, SlotTypes, Runs
    <2>3. Startings' = Startings /\ \A u \in Startings : held'[u] = held[u] /\ job'[u] = job[u]
      BY <1>3, <2>1, ThreadAssumption DEF LaunchAttach, Finish, ThreadTypes
    <2>4. HandlesHaveRuns'
      BY <2>1, <2>2 DEF HandlesHaveRuns, Owners, SlotTypes
    <2>5. StartsHaveRuns'
      BY <2>2, <2>3 DEF StartsHaveRuns, Owners, ThreadsHaveWork
    <2>6. ClaimsHaveStarts => ClaimsHaveStarts'
      BY <2>1, <2>2, <2>3 DEF ClaimsHaveStarts, SlotTypes
    <2> QED BY <2>4, <2>5, <2>6 DEF Owners, Launchers
  <1>4. CASE LaunchFails(t)
    <2>1. /\ pc[t] = "start" /\ held[t] \in RunId /\ run[held[t]].sid = job[t].sid
          /\ handles' = Freed(job[t].sid, held[t])
          /\ run' = [run EXCEPT ![held[t]] = NoRun]
          /\ pc' = [pc EXCEPT ![t] = "failed"] /\ UNCHANGED <<held, job>>
      BY <1>4 DEF LaunchFails, ThreadsHaveWork, Owners, StartsHaveRuns, local
    <2>2. \A s \in Session : handles'[s] # None => handles'[s] = handles[s] /\ handles[s] # held[t]
      BY <2>1, NoneAssumption DEF Freed, Owners, HandlesHaveRuns, SlotTypes
    <2>3. \A u \in Startings' : u # t /\ u \in Startings /\ held[u] \in RunId /\ held[u] # held[t]
      BY <2>1 DEF ThreadTypes, StartsAreClaimed, ThreadsHaveWork
    <2>4. HandlesHaveRuns'
      BY <2>1, <2>2 DEF HandlesHaveRuns, Owners, SlotTypes
    <2>5. StartsHaveRuns'
      BY <2>1, <2>3 DEF StartsHaveRuns, Owners, SlotTypes
    <2>6. ClaimsHaveStarts => ClaimsHaveStarts'
      BY <2>1, <2>2 DEF ClaimsHaveStarts, SlotTypes, ThreadTypes
    <2> QED BY <2>4, <2>5, <2>6 DEF Owners, Launchers
  <1>5. CASE t \in Caller /\ Dropped(t)
    <2>1. /\ "drop" \in Faults /\ UNCHANGED <<handles, run>>
          /\ Startings' \subseteq Startings
          /\ \A u \in Startings' : held'[u] = held[u] /\ job'[u] = job[u]
      BY <1>5, ThreadAssumption DEF Dropped, Finish, slots, ThreadTypes
    <2> QED BY <2>1 DEF Owners, Launchers, HandlesHaveRuns, StartsHaveRuns
  <1> QED BY <1>1, <1>2, <1>3, <1>4, <1>5

LEMMA StopsKeep ==
  ASSUME IInv, Owners, Launchers, NEW t \in Caller,
         \/ \E s \in Session : KillCancel(t, s)
         \/ KillAbort(t) \/ KillFree(t)
  PROVE  Owners' /\ Launchers'
  <1> USE DEF IInv, TypeOK, Startings, Goto
  <1>0. t \in Thread
    BY DEF Thread
  <1>1. CASE \E s \in Session : KillCancel(t, s)
    <2>1. PICK s \in Session : KillCancel(t, s)
      BY <1>1
    <2>2. /\ UNCHANGED handles
          /\ \A q \in RunId : run'[q].sid = run[q].sid /\ run'[q].phase = run[q].phase
      <3>1. CASE handles[s] = None
        BY <2>1, <3>1 DEF KillCancel
      <3>2. CASE handles[s] # None
        <4>1. handles[s] \in RunId /\ run \in [RunId -> Runs]
          BY <3>2 DEF SlotTypes
        <4>2. run' = [run EXCEPT ![handles[s]] =
                        [@ EXCEPT !.cancelled = TRUE, !.attached = FALSE]]
          BY <2>1, <3>2 DEF KillCancel
        <4> QED BY <2>1, <4>1, <4>2 DEF KillCancel, Runs
      <3> QED BY <3>1, <3>2
    <2>3. Startings' = Startings /\ \A u \in Startings : held'[u] = held[u] /\ job'[u] = job[u]
      BY <2>1, <1>0 DEF KillCancel, ThreadTypes
    <2>4. HandlesHaveRuns'
      BY <2>2 DEF HandlesHaveRuns, Owners, SlotTypes
    <2>5. StartsHaveRuns'
      BY <2>2, <2>3 DEF StartsHaveRuns, Owners, ThreadsHaveWork
    <2>6. ClaimsHaveStarts => ClaimsHaveStarts'
      BY <2>2, <2>3 DEF ClaimsHaveStarts, SlotTypes
    <2> QED BY <2>4, <2>5, <2>6 DEF Owners, Launchers
  <1>2. CASE KillAbort(t)
    <2>1. /\ held[t] \in RunId /\ run[held[t]].phase \in Working /\ pc[t] = "killwait"
          /\ Stepped(held[t], "over") /\ UNCHANGED <<handles, held, job>>
      <3>1. handles' \in HandleMaps /\ held[t] \in RunId /\ UNCHANGED handles
        BY <1>2, <1>0 DEF KillAbort, ThreadsHaveWork, SlotTypes, HandleMaps
      <3> QED BY <1>2, <3>1, MoveSteps DEF KillAbort, Phases, TaskOver, local
    <2>2. Startings' = Startings /\ \A u \in Startings : held[u] # held[t]
      BY <1>0, <1>2, <2>1 DEF KillAbort, ThreadTypes, StartsAreClaimed, Working
    <2>3. HandlesHaveRuns'
      BY <2>1 DEF HandlesHaveRuns, Owners, Stepped, SlotTypes
    <2>4. StartsHaveRuns'
      BY <2>1, <2>2 DEF StartsHaveRuns, Owners, Stepped, ThreadsHaveWork
    <2>5. ClaimsHaveStarts => ClaimsHaveStarts'
      BY <2>1, <2>2 DEF ClaimsHaveStarts, Stepped, SlotTypes
    <2> QED BY <2>3, <2>4, <2>5 DEF Owners, Launchers
  <1>3. CASE KillFree(t)
    <2>1. /\ UNCHANGED run /\ \A s \in Session : handles'[s] # None => handles'[s] = handles[s]
      BY <1>3 DEF KillFree, Freed, SlotTypes
    <2>2. Startings' = Startings /\ \A u \in Startings : held'[u] = held[u] /\ job'[u] = job[u]
      BY <1>0, <1>3 DEF KillFree, ThreadTypes
    <2> QED BY <2>1, <2>2 DEF Owners, Launchers, HandlesHaveRuns, StartsHaveRuns, ClaimsHaveStarts, SlotTypes
  <1> QED BY <1>1, <1>2, <1>3

LEMMA OwnersKeep == IInv /\ Owners /\ Launchers /\ [Next]_vars => Owners' /\ Launchers'
  <1> SUFFICES ASSUME IInv, Owners, Launchers, [Next]_vars PROVE Owners' /\ Launchers'
    OBVIOUS
  <1>1. CASE \E t \in Caller : CallBegins(t) \/ CallStep(t)
    <2>1. PICK t \in Caller : CallBegins(t) \/ CallStep(t)
      BY <1>1
    <2>2. t \in Thread
      BY DEF Thread
    <2>3. CASE CallBegins(t) /\ \A s \in Session : ~ KillCancel(t, s)
      BY <2>3, QuietBegins, QuietKeeps DEF CallBegins
    <2>4. CASE \E s \in Session : KillCancel(t, s)
      BY <2>4, StopsKeep
    <2>5. CASE CallStep(t)
      BY <2>2, <2>5, QuietCalls, QuietKeeps, StopsKeep, LaunchesKeep
         DEF CallStep, LaunchStep, KillStep
    <2> QED BY <2>1, <2>3, <2>4, <2>5
  <1>2. CASE PumpStep
    <2>1. Pump \in Thread
      BY DEF Thread
    <2> QED BY <1>2, <2>1, QuietPump, QuietCalls, QuietKeeps, LaunchesKeep DEF PumpStep, LaunchStep
  <1>3. CASE \E r \in RunId : RunStep(r) \/ TurnEnds(r)
    <2>1. PICK r \in RunId : RunStep(r) \/ TurnEnds(r)
      BY <1>3
    <2>2. CASE ~ EndNotify(r)
      BY <2>1, <2>2, RunsKeep
    <2>3. CASE EndNotify(r)
      <3>1. /\ run[r].phase = "notify" /\ run' = [run EXCEPT ![r] = NoRun]
            /\ UNCHANGED <<handles, pc, held, job>>
        BY <2>3 DEF EndNotify, local
      <3>2. \A s \in Session : handles[s] # None => handles[s] \in RunId \ {r}
        BY <3>1 DEF Owners, HandlesHaveRuns, Working, IInv, TypeOK, SlotTypes
      <3>3. \A t \in Startings : held[t] \in RunId \ {r}
        BY <3>1 DEF Startings, IInv, StartsAreClaimed, ThreadsHaveWork
      <3> QED BY <3>1, <3>2, <3>3
             DEF Owners, Launchers, HandlesHaveRuns, StartsHaveRuns, ClaimsHaveStarts, Startings,
                 IInv, TypeOK, SlotTypes
    <2> QED BY <2>2, <2>3
  <1>4. CASE Fault
    <2>1. CASE Crash
      BY <2>1, ThreadAssumption
         DEF Crash, Owners, Launchers, HandlesHaveRuns, StartsHaveRuns, ClaimsHaveStarts, Startings
    <2>2. CASE \E t \in Thread : LaunchFails(t)
      BY <2>2, LaunchesKeep
    <2>3. CASE \E t \in Caller : KillAbort(t) \/ Dropped(t)
      BY <2>3, StopsKeep, LaunchesKeep DEF Thread
    <2>4. CASE \E r \in RunId : RunDies(r) \/ BudgetHit(r)
      <3>1. PICK r \in RunId : RunDies(r) \/ BudgetHit(r)
        BY <2>4
      <3>2. ~ EndNotify(r)
        BY <3>1 DEF RunDies, BudgetHit, EndNotify
      <3> QED BY <3>1, <3>2, RunsKeep
    <2> QED BY <1>4, <2>1, <2>2, <2>3, <2>4 DEF Fault
  <1>5. CASE UNCHANGED vars
    BY <1>5 DEF vars, slots, local, Owners, Launchers, HandlesHaveRuns, StartsHaveRuns,
                ClaimsHaveStarts, Startings
  <1> QED BY <1>1, <1>2, <1>3, <1>4, <1>5 DEF Next

LEMMA OwnersStart == Init => Owners /\ Launchers
  BY ThreadAssumption DEF Init, Owners, Launchers, HandlesHaveRuns, StartsHaveRuns, ClaimsHaveStarts, Startings

\* A handle is that of a run of its own session which is not past RunEnd::drop,
\* whatever is dropped, fails or dies.
THEOREM HandlesOwned == Spec => []Owners
  <1>1. Init => IInv /\ Owners /\ Launchers
    BY InitHolds, OwnersStart
  <1>2. IInv /\ Owners /\ Launchers /\ IInv' /\ [Next]_vars => (IInv /\ Owners /\ Launchers)'
    BY OwnersKeep
  <1> QED BY <1>1, <1>2, Inductive, PTL DEF Spec

\* Behind every handle is a run or a launch, if no call is dropped half-way: nothing
\* else locks a session or loses a slot (launch.rs, 443-474).
THEOREM SlotsOwned == ASSUME "drop" \notin Faults PROVE Spec => []SlotHasOwner
  <1>1. Init => IInv /\ Owners /\ Launchers
    BY InitHolds, OwnersStart
  <1>2. IInv /\ Owners /\ Launchers /\ IInv' /\ [Next]_vars => (IInv /\ Owners /\ Launchers)'
    BY OwnersKeep
  <1>3. IInv /\ Owners /\ Launchers => SlotHasOwner
    BY DEF Owners, Launchers, HandlesHaveRuns, ClaimsHaveStarts, SlotHasOwner, TaskOver, Startings
  <1> QED BY <1>1, <1>2, <1>3, Inductive, PTL DEF Spec

(***************************************************************************)
(* By how many the limit is passed                                         *)
(***************************************************************************)
\* Threads that have counted the live runs and may claim a slot.
Counted == {t \in Thread : pc[t] \in {"create", "launch", "claim", "pop", "popped"}}

Room ==
  /\ IsFiniteSet(Live(handles))
  /\ Cardinality(Live(handles)) + Cardinality(Counted) <= MaxLive + Cardinality(Caller)

\* A step that takes no slot and lets no thread past the count.
Shrinks == Live(handles') \subseteq Live(handles) /\ Counted' \subseteq Counted

LEMMA CountedFinite ==
  ASSUME IsFiniteSet(Caller)
  PROVE  /\ IsFiniteSet(Thread) /\ Cardinality(Thread) = Cardinality(Caller) + 1
         /\ IsFiniteSet(Counted) /\ Cardinality(Counted) \in Nat /\ Cardinality(Caller) \in Nat
         /\ Cardinality(Counted) <= Cardinality(Thread)
  <1>1. IsFiniteSet(Thread) /\ Cardinality(Thread) = Cardinality(Caller) + 1
    BY FS_AddElement, ThreadAssumption DEF Thread
  <1>2. Counted \subseteq Thread
    BY DEF Counted
  <1> QED BY <1>1, <1>2, FS_Subset, FS_CardinalityType

LEMMA ShrinksKeeps ==
  ASSUME IsFiniteSet(Caller), Room, Shrinks PROVE Room'
  <1>1. /\ IsFiniteSet(Live(handles')) /\ Cardinality(Live(handles')) <= Cardinality(Live(handles))
        /\ Cardinality(Live(handles')) \in Nat /\ Cardinality(Live(handles)) \in Nat
    BY FS_Subset, FS_CardinalityType DEF Room, Shrinks
  <1>2. /\ Cardinality(Counted') <= Cardinality(Counted)
        /\ Cardinality(Counted') \in Nat /\ Cardinality(Counted) \in Nat
    BY CountedFinite, FS_Subset, FS_CardinalityType DEF Shrinks
  <1>3. Cardinality(Caller) \in Nat /\ MaxLive \in Nat
    BY CountedFinite, SettingsAssumption
  <1> QED BY <1>1, <1>2, <1>3 DEF Room

LEMMA CountsKeep ==
  ASSUME IsFiniteSet(Caller), IInv, Room, handles' = Reaped, ~ Full(Reaped), Counted' \subseteq Thread
  PROVE  Room'
  <1>1. Live(Reaped) \subseteq Live(handles)
    BY DEF Live, Reaped, IInv, TypeOK, SlotTypes
  <1>2. IsFiniteSet(Live(Reaped)) /\ Cardinality(Live(Reaped)) \in Nat
    BY <1>1, FS_Subset, FS_CardinalityType DEF Room
  <1>3. Cardinality(Live(Reaped)) < MaxLive
    BY <1>2, SettingsAssumption DEF Full
  <1>4. /\ Cardinality(Counted') <= Cardinality(Caller) + 1
        /\ Cardinality(Counted') \in Nat /\ Cardinality(Caller) \in Nat
    BY CountedFinite, FS_Subset, FS_CardinalityType
  <1> QED BY <1>2, <1>3, <1>4, SettingsAssumption DEF Room

LEMMA OneMore ==
  ASSUME NEW S, NEW x, IsFiniteSet(S)
  PROVE  IsFiniteSet(S \cup {x}) /\ Cardinality(S \cup {x}) <= Cardinality(S) + 1
  <1>1. Cardinality(S) \in Nat
    BY FS_CardinalityType
  <1> QED BY <1>1, FS_AddElement

LEMMA ClaimKeepsRoom ==
  ASSUME IsFiniteSet(Caller), IInv, Room, NEW t \in Thread, NEW r \in RunId, Claim(t, r)
  PROVE  Room'
  <1> DEFINE s == job[t].sid
  <1>1. pc[t] = "claim" /\ s \in Session /\ pc' = [pc EXCEPT ![t] = "start"]
    BY DEF Claim, Goto, IInv, ThreadsHaveWork, LaunchPcs, Job
  <1>2. Live(handles') \subseteq Live(handles) \cup {s}
    BY <1>1 DEF Claim, Live, Reaped, IInv, TypeOK, SlotTypes
  <1>3. t \in Counted /\ Counted' = Counted \ {t}
    BY <1>1 DEF Counted, IInv, TypeOK, ThreadTypes
  <1>4. Cardinality(Counted') = Cardinality(Counted) - 1 /\ Cardinality(Counted) \in Nat
    BY <1>3, CountedFinite, FS_RemoveElement
  <1>5. /\ IsFiniteSet(Live(handles) \cup {s})
        /\ Cardinality(Live(handles) \cup {s}) <= Cardinality(Live(handles)) + 1
    BY OneMore DEF Room
  <1>6. /\ IsFiniteSet(Live(handles'))
        /\ Cardinality(Live(handles')) <= Cardinality(Live(handles)) + 1
        /\ Cardinality(Live(handles')) \in Nat /\ Cardinality(Live(handles)) \in Nat
        /\ Cardinality(Live(handles) \cup {s}) \in Nat
    BY <1>2, <1>5, FS_Subset, FS_CardinalityType DEF Room
  <1>7. Cardinality(Caller) \in Nat /\ MaxLive \in Nat
    BY CountedFinite, SettingsAssumption
  <1> QED BY <1>4, <1>6, <1>7 DEF Room

\* A caller's steps other than the counts and the claim.
LEMMA CallsShrink ==
  ASSUME IInv, NEW t \in Thread,
         \/ SendCheck(t) \/ Unstaff(t) \/ EnqueueStep(t)
         \/ LaunchClear(t) \/ LoseClaim(t) \/ LaunchStart(t) \/ LaunchAttach(t)
         \/ LaunchFailed(t) \/ LaunchFails(t) \/ KillStep(t)
         \/ t \in Caller /\ (KillAbort(t) \/ Dropped(t))
         \/ \E s \in Session : Create(t, s)
  PROVE  Shrinks
  <1> USE DEF Shrinks, Live, Counted, IInv, TypeOK, SlotTypes, ThreadTypes, slots, Goto, Finish
  <1>1. CASE SendCheck(t)
    BY <1>1, ThreadAssumption DEF SendCheck, Reaped, local
  <1>2. CASE Unstaff(t) \/ EnqueueStep(t)
    BY <1>2 DEF Unstaff, EnqueueStep, MarkQueued, Persist, Push
  <1>3. CASE LaunchClear(t) \/ LaunchStart(t) \/ LaunchAttach(t) \/ LaunchFailed(t)
    BY <1>3 DEF LaunchClear, LaunchStart, LaunchAttach, LaunchFailed
  <1>4. CASE LoseClaim(t) \/ LaunchFails(t)
    BY <1>4 DEF LoseClaim, Reaped, LaunchFails, Freed
  <1>5. CASE KillStep(t)
    BY <1>5 DEF KillStep, KillWait, KillFree, Freed, KillQueue, KillClear, KillMark
  <1>6. CASE t \in Caller /\ (KillAbort(t) \/ Dropped(t))
    BY <1>6 DEF KillAbort, Dropped
  <1>7. CASE \E s \in Session : Create(t, s)
    BY <1>7 DEF Create
  <1> QED BY <1>1, <1>2, <1>3, <1>4, <1>5, <1>6, <1>7

LEMMA CallsKeepRoom ==
  ASSUME IsFiniteSet(Caller), IInv, Room, NEW t \in Caller, CallBegins(t) \/ CallStep(t)
  PROVE  Room'
  <1> USE DEF IInv, TypeOK, ThreadTypes
  <1>0. t \in Thread
    BY DEF Thread
  <1>1. CASE BeginSpawn(t)
    <2>1. CASE Full(Reaped)
      BY <1>0, <1>1, <2>1, ShrinksKeeps
         DEF BeginSpawn, Shrinks, Live, Reaped, Counted, SlotTypes, Goto
    <2>2. CASE ~ Full(Reaped)
      BY <1>1, <2>2, CountsKeep DEF BeginSpawn, Counted
    <2> QED BY <2>1, <2>2
  <1>2. CASE \E s \in Session : \/ \E op \in Ops : BeginSend(t, s, op)
                                \/ BeginChild(t, s)
                                \/ Deliver(t, s)
                                \/ KillCancel(t, s)
    <2>1. Shrinks
      <3> USE <1>0 DEF Shrinks, Live, Counted, SlotTypes, slots, Goto
      <3>1. CASE \E s \in Session : \E op \in Ops : BeginSend(t, s, op)
        BY <3>1 DEF BeginSend
      <3>2. CASE \E s \in Session : BeginChild(t, s)
        BY <3>2 DEF BeginChild
      <3>3. CASE \E s \in Session : Deliver(t, s)
        BY <3>3 DEF Deliver, Reaped
      <3>4. CASE \E s \in Session : KillCancel(t, s)
        BY <3>4 DEF KillCancel
      <3> QED BY <1>2, <3>1, <3>2, <3>3, <3>4
    <2> QED BY <2>1, ShrinksKeeps
  <1>3. CASE Count(t)
    <2>1. CASE Full(Reaped)
      <3>1. Shrinks
        BY <1>0, <1>3, <2>1, ThreadAssumption
           DEF Count, Shrinks, Live, Reaped, Counted, SlotTypes, Goto, Finish, local
      <3> QED BY <3>1, ShrinksKeeps
    <2>2. CASE ~ Full(Reaped)
      BY <1>3, <2>2, CountsKeep DEF Count, Counted
    <2> QED BY <2>1, <2>2
  <1>4. CASE \E r \in RunId : Claim(t, r)
    BY <1>0, <1>4, ClaimKeepsRoom
  <1>5. CASE CallStep(t) /\ ~ Count(t) /\ ~ \E r \in RunId : Claim(t, r)
    BY <1>0, <1>5, CallsShrink, ShrinksKeeps DEF CallStep, LaunchStep
  <1> QED BY <1>1, <1>2, <1>3, <1>4, <1>5 DEF CallBegins

LEMMA PumpKeepsRoom ==
  ASSUME IsFiniteSet(Caller), IInv, Room, PumpStep
  PROVE  Room'
  <1>0. Pump \in Thread
    BY DEF Thread
  <1>1. CASE PumpScan
    <2>1. CASE Full(Reaped)
      BY <1>1, <2>1, ShrinksKeeps
         DEF PumpScan, Shrinks, Live, Reaped, Counted, Goto, IInv, TypeOK, SlotTypes, ThreadTypes
    <2>2. CASE ~ Full(Reaped)
      BY <1>1, <2>2, CountsKeep DEF PumpScan, Counted
    <2> QED BY <2>1, <2>2
  <1>2. CASE \/ PumpWake \/ PumpFindsNone \/ PumpCheck \/ \E e \in queue : PumpPop(e)
             \/ RecoverList \/ RecoverDone \/ \E s \in Session : RecoverOne(s)
    <2>1. Shrinks
      <3> USE <1>0 DEF Shrinks, Live, Counted, slots, Goto, Finish, IInv, TypeOK, ThreadTypes
      <3>1. CASE PumpWake \/ PumpFindsNone \/ PumpCheck
        BY <3>1 DEF PumpWake, PumpFindsNone, PumpCheck
      <3>2. CASE \E e \in queue : PumpPop(e)
        BY <3>2 DEF PumpPop
      <3>3. CASE RecoverList \/ RecoverDone \/ \E s \in Session : RecoverOne(s)
        BY <3>3 DEF RecoverList, RecoverDone, RecoverOne
      <3> QED BY <1>2, <3>1, <3>2, <3>3
    <2> QED BY <2>1, ShrinksKeeps
  <1>3. CASE EnqueueStep(Pump) \/ LaunchStep(Pump)
    BY <1>0, <1>3, CallsShrink, ShrinksKeeps, ClaimKeepsRoom DEF LaunchStep
  <1> QED BY <1>1, <1>2, <1>3 DEF PumpStep

LEMMA RunsShrink ==
  ASSUME IInv, NEW r \in RunId, RunStep(r) \/ TurnEnds(r) \/ RunDies(r) \/ BudgetHit(r)
  PROVE  Shrinks
  <1>1. UNCHANGED pc /\ \/ UNCHANGED handles
                        \/ handles' = Freed(run[r].sid, r)
    BY DEF RunStep, TurnEnds, Begin, StartTurn, LastLook, Release, EndRelease, EndRead, EndRepair,
           EndNotify, TurnCompleted, TurnStops, RunDies, BudgetHit
  <1> QED BY <1>1 DEF Shrinks, Live, Counted, Freed, IInv, TypeOK, SlotTypes

LEMMA RoomKept == IsFiniteSet(Caller) /\ IInv /\ Room /\ [Next]_vars => Room'
  <1> SUFFICES ASSUME IsFiniteSet(Caller), IInv, Room, [Next]_vars PROVE Room'
    OBVIOUS
  <1>1. CASE \E t \in Caller : CallBegins(t) \/ CallStep(t)
    BY <1>1, CallsKeepRoom
  <1>2. CASE PumpStep
    BY <1>2, PumpKeepsRoom
  <1>3. CASE \E r \in RunId : RunStep(r) \/ TurnEnds(r)
    BY <1>3, RunsShrink, ShrinksKeeps
  <1>4. CASE Fault
    <2>1. CASE Crash
      <3>1. Shrinks
        BY <2>1, ThreadAssumption DEF Crash, Shrinks, Live, Counted
      <3> QED BY <3>1, ShrinksKeeps
    <2>2. CASE \E t \in Thread : LaunchFails(t)
      BY <2>2, CallsShrink, ShrinksKeeps
    <2>3. CASE \E t \in Caller : KillAbort(t) \/ Dropped(t)
      BY <2>3, CallsShrink, ShrinksKeeps DEF Thread
    <2>4. CASE \E r \in RunId : RunDies(r) \/ BudgetHit(r)
      BY <2>4, RunsShrink, ShrinksKeeps
    <2> QED BY <1>4, <2>1, <2>2, <2>3, <2>4 DEF Fault
  <1>5. CASE UNCHANGED vars
    BY <1>5 DEF vars, slots, Room, Live, Counted
  <1> QED BY <1>1, <1>2, <1>3, <1>4, <1>5 DEF Next

LEMMA RoomStart == IsFiniteSet(Caller) /\ Init => Room
  <1> SUFFICES ASSUME IsFiniteSet(Caller), Init PROVE Room
    OBVIOUS
  <1>1. Live(handles) = {} /\ Counted = {}
    BY ThreadAssumption DEF Init, Live, Counted
  <1> QED BY <1>1, FS_EmptySet, FS_CardinalityType, SettingsAssumption DEF Room

\* However many calls count the live runs at the same moment, whatever fails, is dropped or
\* crashes, max_concurrent is passed by at most one run for each caller (launch.rs, 243-262
\* and 404-422; queue.rs, 433-452).
THEOREM OvershootIsBounded ==
  ASSUME IsFiniteSet(Caller) PROVE Spec => []OvershootBounded
  <1>1. Init => Room
    BY RoomStart
  <1>2. IInv /\ Room /\ [Next]_vars => Room'
    BY RoomKept
  <1>3. Room => OvershootBounded
    <2> SUFFICES ASSUME Room PROVE OvershootBounded
      OBVIOUS
    <2>1. /\ Cardinality(Live(handles)) \in Nat /\ Cardinality(Counted) \in Nat
          /\ Cardinality(Caller) \in Nat /\ MaxLive \in Nat
      BY CountedFinite, FS_CardinalityType, SettingsAssumption DEF Room
    <2> QED BY <2>1 DEF Room, OvershootBounded
  <1> QED BY <1>1, <1>2, <1>3, Inductive, PTL DEF Spec

(***************************************************************************)
(* No message left to a live run is missed                                 *)
(***************************************************************************)
\* Runs that die, that are aborted, and that compact, break the promise.
Calm == Faults \cap {"run_dies", "abort"} = {} /\ "compact" \notin Ops

NoCompacts ==
  /\ \A t \in Thread : job[t].cause # "compact"
  /\ \A e \in queue : e.job.cause # "compact"
  /\ \A s \in Session : sidecar[s].cause # "compact"
  /\ \A r \in RunId : run[r].cause # "compact"

\* The messages a run will still see by itself: those beyond what it has seen, and the
\* input of the turn it is about to start.
InView(r, m) ==
  \/ m > run[r].seen
  \/ run[r].phase = "ready" /\ run[r].lo < m /\ m <= run[r].hi

Reading == {"claimed", "spawned", "ready", "turn", "looking"}

\* The run r, which holds the handle of s, has in view what s is owed while it reads.
Attends(r, s) ==
  /\ run[r].phase # "over"
  /\ run[r].phase \in Reading => \A m \in owed[s] : InView(r, m)

Left ==
  /\ \A s \in Session : \A m \in owed[s] : m <= sent[s]
  /\ \A r \in RunId : run[r].phase # "none" => run[r].seen <= sent[run[r].sid]
  /\ \A s \in Session : \A r \in RunId : handles[s] = r => Attends(r, s)
  /\ PromisedIsRead

\* No handle is finished, so reaping takes none away.
LEMMA NothingReaped == ASSUME IInv, Owners, Left PROVE Reaped = handles
  BY NoneAssumption DEF Reaped, Finished, TaskOver, Working, Owners, HandlesHaveRuns, Left, Attends,
                        IInv, TypeOK, SlotTypes

\* What the steps of a thread do to its own job, and to the others'.
LEMMA JobSet ==
  ASSUME IInv, NoCompacts, NEW t \in Thread, NEW j, j.cause # "compact",
         job' = [job EXCEPT ![t] = j], UNCHANGED <<queue, sidecar, run>>
  PROVE  NoCompacts'
  BY DEF NoCompacts, IInv, TypeOK, ThreadTypes

LEMMA JobDropped ==
  ASSUME IInv, NoCompacts, NEW t \in Thread, Finish(t)
  PROVE  \A x \in Thread : job'[x].cause # "compact"
  BY NoneAssumption DEF Finish, NoJob, AllOps, NoCompacts, IInv, TypeOK, ThreadTypes

\* Nothing but jobs dropped.
LEMMA JobsOnly ==
  ASSUME NoCompacts, UNCHANGED <<queue, sidecar, run>>,
         UNCHANGED job \/ \A x \in Thread : job'[x].cause # "compact"
  PROVE  NoCompacts'
  BY DEF NoCompacts

LEMMA CallsNoCompact ==
  ASSUME Calm, IInv, NoCompacts, NEW t \in Caller, CallBegins(t)
  PROVE  NoCompacts'
  <1>0. t \in Thread
    BY DEF Thread
  <1>1. CASE BeginSpawn(t)
    BY <1>1, JobsOnly DEF BeginSpawn, disk, waiting, local
  <1>2. ASSUME NEW s \in Session, NEW op \in Ops, BeginSend(t, s, op) PROVE NoCompacts'
    <2> DEFINE j == [sid |-> s, cause |-> op, from |-> None]
    <2>1. j.cause # "compact" /\ job' = [job EXCEPT ![t] = j] /\ UNCHANGED <<queue, sidecar, run>>
      BY <1>2 DEF BeginSend, Calm, disk, waiting, slots
    <2> HIDE DEF j
    <2> QED BY <1>0, <2>1, JobSet
  <1>3. ASSUME NEW s \in Session, BeginChild(t, s) PROVE NoCompacts'
    <2> DEFINE j == [sid |-> s, cause |-> "message", from |-> None]
    <2>1. j.cause # "compact" /\ job' = [job EXCEPT ![t] = j] /\ UNCHANGED <<queue, sidecar, run>>
      BY <1>3 DEF BeginChild, waiting, slots
    <2> HIDE DEF j
    <2> QED BY <1>0, <2>1, JobSet
  <1>4. ASSUME NEW s \in Session, Deliver(t, s) PROVE NoCompacts'
    <2> DEFINE j == [sid |-> s, cause |-> "message", from |-> sent[s]]
    <2>1. /\ UNCHANGED <<queue, sidecar, run>>
          /\ job' = job \/ (j.cause # "compact" /\ job' = [job EXCEPT ![t] = j])
      BY <1>4 DEF Deliver, waiting
    <2> HIDE DEF j
    <2> QED BY <1>0, <2>1, JobSet, JobsOnly
  <1>5. ASSUME NEW s \in Session, KillCancel(t, s) PROVE NoCompacts'
    <2> DEFINE j == [NoJob EXCEPT !.sid = s]
    <2>1. /\ j.cause # "compact" /\ job' = [job EXCEPT ![t] = j] /\ UNCHANGED <<queue, sidecar>>
      BY <1>5, NoneAssumption DEF KillCancel, NoJob, AllOps, disk, waiting
    <2>2. \A q \in RunId : run'[q].cause = run[q].cause
      <3>1. CASE handles[s] = None
        BY <1>5, <3>1 DEF KillCancel
      <3>2. CASE handles[s] # None
        <4>1. handles[s] \in RunId /\ run \in [RunId -> Runs]
          BY <3>2 DEF IInv, TypeOK, SlotTypes
        <4>2. run' = [run EXCEPT ![handles[s]] =
                        [@ EXCEPT !.cancelled = TRUE, !.attached = FALSE]]
          BY <1>5, <3>2 DEF KillCancel
        <4> QED BY <4>1, <4>2 DEF Runs
      <3> QED BY <3>1, <3>2
    <2> HIDE DEF j
    <2> QED BY <1>0, <2>1, <2>2 DEF NoCompacts, IInv, TypeOK, ThreadTypes
  <1> QED BY <1>1, <1>2, <1>3, <1>4, <1>5 DEF CallBegins

LEMMA StepsNoCompact ==
  ASSUME Calm, IInv, NoCompacts, NEW t \in Thread,
         \/ SendCheck(t) \/ Count(t) \/ Unstaff(t) \/ EnqueueStep(t) \/ LaunchStep(t) \/ KillStep(t)
         \/ LaunchFails(t) \/ \E s \in Session : Create(t, s)
         \/ t \in Caller /\ (KillAbort(t) \/ Dropped(t))
  PROVE  NoCompacts'
  <1>1. CASE SendCheck(t) \/ Count(t)
    BY <1>1, JobDropped, JobsOnly DEF SendCheck, Count, disk, waiting, local
  <1>2. CASE Unstaff(t) \/ (t \in Caller /\ Dropped(t))
    BY <1>2, JobDropped, JobsOnly DEF Unstaff, Dropped, disk, slots, waiting
  <1>3. ASSUME NEW s \in Session, Create(t, s) PROVE NoCompacts'
    <2> DEFINE j == [sid |-> s, cause |-> "send", from |-> None]
    <2>1. /\ UNCHANGED <<queue, sidecar, run>>
          /\ Finish(t) \/ (j.cause # "compact" /\ job' = [job EXCEPT ![t] = j])
      BY <1>3 DEF Create, waiting, slots
    <2> HIDE DEF j
    <2> QED BY <2>1, JobDropped, JobsOnly, JobSet
  <1>4. CASE EnqueueStep(t)
    <2>1. job[t].cause # "compact" /\ UNCHANGED run
      BY <1>4 DEF NoCompacts, EnqueueStep, MarkQueued, Persist, Push, slots
    <2>2. CASE MarkQueued(t)
      BY <2>2, JobsOnly DEF MarkQueued, slots, waiting, local
    <2>3. CASE Persist(t)
      BY <2>1, <2>3 DEF Persist, slots, waiting, local, NoCompacts, IInv, TypeOK, DiskTypes
    <2>4. CASE Push(t)
      <3>1. \A x \in Thread : job'[x].cause # "compact"
        BY <2>4, JobDropped DEF Push
      <3>2. \A e \in queue' : e.job.cause # "compact"
        BY <2>1, <2>4 DEF Push, PushBack, NoCompacts
      <3> QED BY <2>1, <2>4, <3>1, <3>2 DEF Push, disk, NoCompacts
    <2> QED BY <1>4, <2>2, <2>3, <2>4 DEF EnqueueStep
  <1>5. CASE LaunchClear(t)
    BY <1>5, NoneAssumption
       DEF LaunchClear, NoJob, AllOps, slots, waiting, local, NoCompacts, IInv, TypeOK, DiskTypes
  <1>6. CASE \E r \in RunId : Claim(t, r)
    <2> PICK r \in RunId : Claim(t, r)
      BY <1>6
    <2>1. ClaimedRun(job[t], sent[job[t].sid]).cause # "compact"
      BY DEF ClaimedRun, NoRun, NoCompacts
    <2>2. /\ UNCHANGED <<queue, sidecar, job>>
          /\ run' = [run EXCEPT ![r] = ClaimedRun(job[t], sent[job[t].sid])]
      BY DEF Claim, disk, waiting
    <2> HIDE DEF ClaimedRun
    <2> QED BY <2>1, <2>2 DEF NoCompacts, IInv, TypeOK, SlotTypes
  <1>7. CASE LoseClaim(t) \/ LaunchFailed(t)
    BY <1>7, JobDropped, JobsOnly DEF LoseClaim, LaunchFailed, disk, slots, waiting, local
  <1>8. CASE LaunchStart(t) \/ LaunchAttach(t) \/ LaunchFails(t)
    <2>1. held[t] \in RunId /\ UNCHANGED <<queue, sidecar>>
      BY <1>8 DEF LaunchStart, LaunchAttach, LaunchFails, IInv, ThreadsHaveWork, disk, waiting
    <2>2. UNCHANGED job \/ Finish(t)
      BY <1>8 DEF LaunchStart, LaunchAttach, LaunchFails, local
    <2>3. \A q \in RunId : run'[q].cause = run[q].cause \/ run'[q].cause = None
      <3>1. CASE LaunchStart(t)
        BY <2>1, <3>1, MoveSteps DEF LaunchStart, Move, IInv, TypeOK, SlotTypes, Runs
      <3>2. CASE LaunchAttach(t)
        BY <2>1, <3>2 DEF LaunchAttach, IInv, TypeOK, SlotTypes, Runs
      <3>3. CASE LaunchFails(t)
        BY <2>1, <3>3 DEF LaunchFails, NoRun, IInv, TypeOK, SlotTypes
      <3> QED BY <1>8, <3>1, <3>2, <3>3
    <2>4. \A x \in Thread : job'[x].cause # "compact"
      BY <2>2, JobDropped DEF NoCompacts
    <2>5. \A q \in RunId : run'[q].cause # "compact"
      BY <2>3, NoneAssumption DEF AllOps, NoCompacts
    <2> QED BY <2>1, <2>4, <2>5 DEF NoCompacts
  <1>9. CASE KillStep(t)
    <2>1. CASE KillWait(t) \/ KillFree(t)
      BY <2>1, JobsOnly DEF KillWait, KillFree, disk, slots, waiting, local
    <2>2. CASE KillQueue(t)
      BY <2>2 DEF KillQueue, disk, slots, local, NoCompacts
    <2>3. CASE KillClear(t)
      BY <2>3, NoneAssumption
         DEF KillClear, NoJob, AllOps, slots, waiting, local, NoCompacts, IInv, TypeOK, DiskTypes
    <2>4. CASE KillMark(t)
      BY <2>4, JobDropped, JobsOnly DEF KillMark, slots
    <2> QED BY <1>9, <2>1, <2>2, <2>3, <2>4 DEF KillStep
  <1>10. ~ (t \in Caller /\ KillAbort(t))
    BY DEF KillAbort, Calm
  <1> QED BY <1>1, <1>2, <1>3, <1>4, <1>5, <1>6, <1>7, <1>8, <1>9, <1>10 DEF LaunchStep

\* What the steps of a run leave of its record.
LEMMA MoveReads ==
  ASSUME IInv, NEW r \in RunId, NEW p \in Phases, Move(r, p)
  PROVE  /\ Stepped(r, p) /\ run'[r].seen = run[r].seen /\ run'[r].cause = run[r].cause
         /\ run'[r].lo = run[r].lo /\ run'[r].hi = run[r].hi
  BY DEF Move, Stepped, IInv, TypeOK, SlotTypes, Runs

LEMMA SettlesReads ==
  ASSUME IInv, NEW r \in RunId, NEW want, NEW done, Settles(r, want, done)
  PROVE  /\ Stepped(r, "settling")
         /\ run'[r].seen = run[r].seen /\ run'[r].cause = run[r].cause
  BY DEF Settles, Stepped, IInv, TypeOK, SlotTypes, Runs

LEMMA TakesReads ==
  ASSUME IInv, NEW r \in RunId, TakesInput(r)
  PROVE  /\ Stepped(r, "ready")
         /\ run'[r].seen = run[r].seen /\ run'[r].cause = run[r].cause
  BY DEF TakesInput, Stepped, IInv, TypeOK, SlotTypes, Runs

LEMMA OverReads ==
  ASSUME IInv, NEW r \in RunId, run' = [run EXCEPT ![r] = [@ EXCEPT !.phase = "over", !.done = TRUE]]
  PROVE  /\ Stepped(r, "over")
         /\ run'[r].seen = run[r].seen /\ run'[r].cause = run[r].cause
  BY DEF Stepped, IInv, TypeOK, SlotTypes, Runs

LEMMA GoOnReads ==
  ASSUME IInv, NEW r \in RunId, GoOn(r)
  PROVE  /\ run'[r].cause = run[r].cause
         /\ \/ Stepped(r, "settling") /\ run'[r].seen = run[r].seen
            \/ /\ Stepped(r, "ready")
               /\ run'[r].lo = run[r].seen /\ run'[r].hi = sent[run[r].sid]
               /\ run'[r].seen = sent[run[r].sid]
  <1>1. run[r] \in Runs /\ run \in [RunId -> Runs]
    BY DEF IInv, TypeOK, SlotTypes
  <1>2. CASE run[r].turns >= MaxTurns
    BY <1>2, SettlesReads DEF GoOn
  <1>3. CASE ~ run[r].turns >= MaxTurns
    <2> DEFINE R == [run[r] EXCEPT !.phase = "ready", !.turns = run[r].turns + 1,
                                   !.lo = run[r].seen, !.hi = sent[run[r].sid],
                                   !.seen = sent[run[r].sid]]
    <2>1. /\ R.phase = "ready" /\ R.sid = run[r].sid /\ R.cancelled = run[r].cancelled
          /\ R.lo = run[r].seen /\ R.hi = sent[run[r].sid] /\ R.seen = sent[run[r].sid]
          /\ R.cause = run[r].cause
      BY <1>1 DEF Runs
    <2>2. run' = [run EXCEPT ![r] = R]
      BY <1>3 DEF GoOn
    <2> HIDE DEF R
    <2> QED BY <1>1, <2>1, <2>2 DEF Stepped
  <1> QED BY <1>2, <1>3

LEMMA RunsNoCompact ==
  ASSUME IInv, NoCompacts, NEW r \in RunId,
         RunStep(r) \/ TurnEnds(r) \/ RunDies(r) \/ BudgetHit(r)
  PROVE  NoCompacts'
  <1>0. run \in [RunId -> Runs]
    BY DEF IInv, TypeOK, SlotTypes
  <1>1. UNCHANGED <<job, queue, sidecar>>
    <2>1. CASE RunStep(r)
      BY <2>1 DEF RunStep, Begin, StartTurn, LastLook, Release, EndRelease, EndRead, EndRepair,
                  EndNotify, disk, waiting, local
    <2>2. CASE TurnEnds(r) \/ RunDies(r) \/ BudgetHit(r)
      BY <2>2 DEF TurnEnds, TurnCompleted, TurnStops, RunDies, BudgetHit, disk, waiting, local
    <2> QED BY <2>1, <2>2
  <1>2. \A q \in RunId : run'[q].cause = run[q].cause \/ run'[q].cause = None
    <2>1. CASE Begin(r)
      BY <2>1, MoveReads, TakesReads DEF Begin, Stepped, Phases, Working
    <2>2. CASE StartTurn(r) \/ EndRelease(r) \/ EndRead(r) \/ EndRepair(r)
      BY <2>2, MoveReads DEF StartTurn, EndRelease, EndRead, EndRepair, Stepped, Phases, Working, TaskOver
    <2>3. CASE RunDies(r) \/ Release(r)
      BY <2>3, MoveReads DEF RunDies, Release, Stepped, Phases, TaskOver
    <2>4. CASE LastLook(r)
      BY <2>4, GoOnReads, OverReads DEF LastLook, Stepped
    <2>5. CASE TurnCompleted(r)
      BY <2>5, GoOnReads, MoveReads, SettlesReads DEF TurnCompleted, Stepped, Phases, Working
    <2>6. CASE BudgetHit(r) \/ \E o \in AllOutcomes : TurnStops(r, o)
      BY <2>6, SettlesReads DEF BudgetHit, TurnStops, Stepped
    <2>7. CASE EndNotify(r)
      BY <1>0, <2>7 DEF EndNotify, NoRun
    <2> QED BY <2>1, <2>2, <2>3, <2>4, <2>5, <2>6, <2>7 DEF RunStep, TurnEnds
  <1>3. \A q \in RunId : run'[q].cause # "compact"
    BY <1>2, NoneAssumption DEF AllOps, NoCompacts
  <1> QED BY <1>1, <1>3 DEF NoCompacts

LEMMA PumpNoCompact ==
  ASSUME IInv, NoCompacts,
         \/ PumpWake \/ PumpScan \/ PumpFindsNone \/ PumpCheck \/ \E e \in queue : PumpPop(e)
         \/ RecoverList \/ RecoverDone \/ \E s \in Session : RecoverOne(s)
  PROVE  NoCompacts'
  <1>0. Pump \in Thread
    BY DEF Thread
  <1>1. CASE PumpWake \/ PumpScan \/ PumpFindsNone \/ RecoverList \/ RecoverDone
    BY <1>1, JobsOnly DEF PumpWake, PumpScan, PumpFindsNone, RecoverList, RecoverDone,
                          disk, slots, waiting, local
  <1>2. CASE PumpCheck
    BY <1>0, <1>2, JobDropped, JobsOnly DEF PumpCheck, disk, slots, waiting, local
  <1>3. ASSUME NEW e \in queue, PumpPop(e) PROVE NoCompacts'
    <2>1. e.job.cause # "compact" /\ job' = [job EXCEPT ![Pump] = e.job]
      BY <1>3 DEF PumpPop, NoCompacts
    <2>2. \A x \in Thread : job'[x].cause # "compact"
      BY <1>0, <2>1 DEF NoCompacts, IInv, TypeOK, ThreadTypes
    <2> QED BY <1>3, <2>2 DEF PumpPop, disk, slots, NoCompacts
  <1>4. ASSUME NEW s \in Session, RecoverOne(s) PROVE NoCompacts'
    <2>1. \A e \in queue' : e.job.cause # "compact"
      BY <1>4 DEF RecoverOne, PushBack, NoCompacts
    <2> QED BY <1>4, <2>1 DEF RecoverOne, slots, NoCompacts
  <1> QED BY <1>1, <1>2, <1>3, <1>4

LEMMA CompactsKeep ==
  ASSUME Calm, IInv, NoCompacts, Next PROVE NoCompacts'
  <1>0. Caller \subseteq Thread /\ Pump \in Thread
    BY DEF Thread
  <1>1. CASE \E t \in Caller : CallBegins(t) \/ CallStep(t)
    BY <1>0, <1>1, CallsNoCompact, StepsNoCompact DEF CallStep
  <1>2. CASE PumpStep
    BY <1>0, <1>2, PumpNoCompact, StepsNoCompact DEF PumpStep
  <1>3. CASE \E r \in RunId : RunStep(r) \/ TurnEnds(r)
    BY <1>3, RunsNoCompact
  <1>4. CASE Fault
    <2>1. CASE Crash
      <3>1. \A t \in Thread : job'[t].cause # "compact"
        BY <2>1, NoneAssumption DEF Crash, NoJob, AllOps
      <3>2. \A r \in RunId : run'[r].cause # "compact"
        BY <2>1, NoneAssumption DEF Crash, NoRun, AllOps
      <3> QED BY <2>1, <3>1, <3>2 DEF Crash, NoCompacts
    <2>2. CASE (\E t \in Thread : LaunchFails(t)) \/ \E t \in Caller : KillAbort(t) \/ Dropped(t)
      BY <1>0, <2>2, StepsNoCompact
    <2>3. CASE \E r \in RunId : RunDies(r) \/ BudgetHit(r)
      BY <2>3, RunsNoCompact
    <2> QED BY <1>4, <2>1, <2>2, <2>3 DEF Fault
  <1> QED BY <1>1, <1>2, <1>3, <1>4 DEF Next

\* A step of a thread that leaves the runs and the promises as they are.
LEMMA LeftStays ==
  ASSUME Left, UNCHANGED <<handles, run, sent, owed>> PROVE Left'
  BY DEF Left, Attends, InView, PromisedIsRead

\* A run that goes on keeps in view what it had in view.
LEMMA RunReads ==
  ASSUME IInv, Owners, Left, NEW r \in RunId, NEW p \in Working, Stepped(r, p),
         UNCHANGED <<handles, sent, owed>>,
         run'[r].seen <= sent[run[r].sid],
         run[r].phase # "none",
         p \in Reading /\ handles[run[r].sid] = r =>
           \A m \in owed[run[r].sid] : InView(r, m)'
  PROVE  Left'
  <1> USE DEF IInv, TypeOK, SlotTypes, Stepped
  <1>1. \A q \in RunId : run'[q].phase # "none" => run'[q].seen <= sent'[run'[q].sid]
    BY DEF Left
  <1>2. ASSUME NEW s \in Session, NEW q \in RunId, handles'[s] = q
        PROVE  Attends(q, s)'
    <2>1. handles[s] = q /\ run[q].sid = s
      BY <1>2, NoneAssumption DEF Owners, HandlesHaveRuns
    <2>2. CASE q = r
      BY <2>1, <2>2 DEF Working, Attends
    <2>3. CASE q # r
      BY <2>1, <2>3 DEF Left, Attends, InView
    <2> QED BY <2>2, <2>3
  <1> QED BY <1>1, <1>2 DEF Left, PromisedIsRead

\* A run that gives up its slot is owed nothing by then.
LEMMA RunLeaves ==
  ASSUME IInv, Owners, Left, NEW r \in RunId, NEW p \in Phases, Stepped(r, p),
         run'[r].seen = run[r].seen, run[r].phase # "none",
         handles' = Freed(run[r].sid, r), UNCHANGED sent,
         \/ Forgive(run[r].sid, r)
         \/ UNCHANGED owed /\ (handles[run[r].sid] = r => owed[run[r].sid] = {})
  PROVE  Left'
  <1> USE DEF IInv, TypeOK, SlotTypes, OtherTypes, Stepped, RunsHaveSessions
  <1>1. run[r].sid \in Session /\ (handles[run[r].sid] = r => handles'[run[r].sid] = None)
    BY DEF Freed
  <1>2. \A s \in Session : \/ owed'[s] = owed[s] /\ (s = run[r].sid /\ handles[s] = r => owed[s] = {})
                           \/ owed'[s] = {}
    BY <1>1 DEF Forgive
  <1>3. \A s \in Session : handles'[s] # None =>
          handles'[s] = handles[s] /\ handles[s] \in RunId /\ handles[s] # r
    BY <1>1, NoneAssumption DEF Freed, Owners, HandlesHaveRuns
  <1>4. \A s \in Session : handles'[s] = handles[s] \/ (s = run[r].sid /\ handles[s] = r)
    BY <1>1 DEF Freed
  <1>5. \A s \in Session : \A m \in owed'[s] : m <= sent'[s]
    BY <1>2 DEF Left
  <1>6. \A q \in RunId : run'[q].phase # "none" => run'[q].seen <= sent'[run'[q].sid]
    BY DEF Left
  <1>7. ASSUME NEW s \in Session, NEW q \in RunId, handles'[s] = q
        PROVE  Attends(q, s)'
    <2>1. handles[s] = q /\ q # r
      BY <1>3, <1>7, NoneAssumption
    <2>2. Attends(q, s) /\ run'[q] = run[q] /\ (owed'[s] = owed[s] \/ owed'[s] = {})
      BY <1>2, <2>1 DEF Left
    <2> QED BY <2>2 DEF Attends, InView
  <1>8. PromisedIsRead'
    BY <1>2, <1>4 DEF Left, PromisedIsRead
  <1> QED BY <1>5, <1>6, <1>7, <1>8 DEF Left

\* Messages that came are the next turn: they stay in view.
LEMMA GoesOn ==
  ASSUME IInv, Owners, Left, NEW r \in RunId, run[r].phase \in {"turn", "looking"}, GoOn(r),
         UNCHANGED <<handles, sent, owed>>
  PROVE  Left'
  <1> USE DEF IInv, TypeOK, SlotTypes, DiskTypes
  <1>1. run[r] \in Runs /\ run[r].sid \in Session /\ mark \in MarkMaps
    BY DEF RunsHaveSessions, WaitTypes, MarkMaps
  <1>2. CASE Stepped(r, "settling") /\ run'[r].seen = run[r].seen
    BY <1>1, <1>2, RunReads DEF Left, Working, Reading
  <1>3. CASE /\ Stepped(r, "ready")
             /\ run'[r].lo = run[r].seen /\ run'[r].hi = sent[run[r].sid]
             /\ run'[r].seen = sent[run[r].sid]
    <2>1. handles[run[r].sid] = r => \A m \in owed[run[r].sid] : m > run[r].seen /\ m <= sent[run[r].sid]
      BY <1>1 DEF Left, Attends, InView, Reading
    <2>2. handles[run[r].sid] = r => \A m \in owed[run[r].sid] : InView(r, m)'
      BY <1>3, <2>1 DEF InView, Stepped
    <2>3. sent[run[r].sid] \in Nat
      BY <1>1
    <2> QED BY <1>3, <2>2, <2>3, RunReads DEF Working
  <1> QED BY <1>2, <1>3, GoOnReads

LEMMA RunsKeepLeft ==
  ASSUME Calm, IInv, Owners, NoCompacts, Left, NEW r \in RunId,
         RunStep(r) \/ TurnEnds(r) \/ RunDies(r) \/ BudgetHit(r)
  PROVE  Left'
  <1> DEFINE s == run[r].sid
  <1> USE DEF IInv, TypeOK, SlotTypes, DiskTypes
  <1>0. run \in [RunId -> Runs] /\ (run[r].phase # "none" => s \in Session /\ run[r].seen <= sent[s])
    BY DEF RunsHaveSessions, Left
  <1>1. CASE Begin(r)
    <2>1. /\ run[r].phase = "spawned" /\ UNCHANGED <<sent, handles, owed>>
          /\ run'[r].seen = run[r].seen
          /\ Stepped(r, "ready") \/ Stepped(r, "turn")
      BY <1>1, MoveReads, TakesReads DEF Begin, history, Phases, Working
    <2>2. handles[s] = r => \A m \in owed[s] : m > run[r].seen
      BY <1>0, <2>1, NoneAssumption DEF Left, Attends, InView, Reading
    <2> QED BY <1>0, <2>1, <2>2, RunReads DEF InView, Working
  <1>2. CASE StartTurn(r)
    <2>1. /\ run[r].phase = "ready" /\ UNCHANGED <<sent, handles>>
          /\ Stepped(r, "turn") /\ run'[r].seen = run[r].seen
          /\ owed' = [owed EXCEPT ![s] = @ \ (run[r].lo + 1)..run[r].hi]
      BY <1>2, MoveReads DEF StartTurn, disk, Phases, Working
    <2>2. s \in Session /\ run[r].lo \in Nat /\ run[r].hi \in Nat /\ run[r].phase # "none"
      BY <1>0, <2>1 DEF Runs
    <2>3. \A z \in Session : owed'[z] \subseteq owed[z]
      BY <2>1, <2>2 DEF OtherTypes
    <2>4. owed'[s] = owed[s] \ (run[r].lo + 1)..run[r].hi /\ owed[s] \subseteq Nat
      BY <2>1, <2>2 DEF OtherTypes
    <2>5. handles[s] = r => \A m \in owed'[s] : m > run[r].seen
      BY <2>1, <2>2, <2>4, NoneAssumption DEF Left, Attends, InView, Reading
    <2>6. ASSUME NEW z \in Session, NEW q \in RunId, handles'[z] = q
          PROVE  Attends(q, z)'
      <3>1. handles[z] = q /\ run[q].sid = z
        BY <2>1, <2>6, NoneAssumption DEF Owners, HandlesHaveRuns
      <3>2. CASE q = r
        BY <2>1, <2>5, <3>1, <3>2 DEF Attends, InView, Stepped
      <3>3. CASE q # r
        BY <2>1, <2>3, <3>1, <3>3 DEF Attends, InView, Stepped, Left
      <3> QED BY <3>2, <3>3
    <2>7. \A q \in RunId : run'[q].phase # "none" => run'[q].seen <= sent'[run'[q].sid]
      BY <1>0, <2>1, <2>2 DEF Left, Stepped
    <2> QED BY <2>1, <2>3, <2>6, <2>7 DEF Left, PromisedIsRead
  <1>3. CASE TurnCompleted(r)
    <2>1. run[r].phase = "turn" /\ UNCHANGED <<sent, handles, owed>>
      BY <1>3 DEF TurnCompleted, disk, history
    <2>2. CASE Fresh(r)
      BY <1>3, <2>1, <2>2, GoesOn DEF TurnCompleted, NoCompacts
    <2>3. CASE ~ Fresh(r)
      <3>1. Stepped(r, "looking") /\ run'[r].seen = run[r].seen
        BY <1>3, <2>3, MoveReads DEF TurnCompleted, NoCompacts, Phases, Working
      <3>2. handles[s] = r => \A m \in owed[s] : m > run[r].seen
        BY <1>0, <2>1, NoneAssumption DEF Left, Attends, InView, Reading
      <3> QED BY <1>0, <2>1, <3>1, <3>2, RunReads DEF InView, Working
    <2> QED BY <2>2, <2>3
  <1>4. CASE LastLook(r)
    <2>1. run[r].phase = "looking" /\ UNCHANGED <<sent, owed>>
      BY <1>4 DEF LastLook, history
    <2>2. CASE Fresh(r)
      BY <1>4, <2>1, <2>2, GoesOn DEF LastLook
    <2>3. CASE ~ Fresh(r)
      <3>1. handles' = Freed(s, r) /\ run' = [run EXCEPT ![r] = [@ EXCEPT !.phase = "over", !.done = TRUE]]
        BY <1>4, <2>3 DEF LastLook
      <3>2. Stepped(r, "over") /\ run'[r].seen = run[r].seen
        BY <1>0, <3>1 DEF Stepped, Runs
      <3>3. run[r].seen \in Nat /\ sent[s] \in Nat /\ sent[s] <= run[r].seen
        BY <1>0, <2>1, <2>3 DEF Fresh, Runs
      <3>4. handles[s] = r => \A m \in owed[s] : m \in Nat /\ m > run[r].seen /\ m <= sent[s]
        BY <1>0, <2>1, NoneAssumption DEF Left, Attends, InView, Reading, OtherTypes
      <3>5. handles[s] = r => owed[s] = {}
        BY <3>3, <3>4
      <3> QED BY <2>1, <3>1, <3>2, <3>5, RunLeaves DEF Phases, TaskOver
    <2> QED BY <2>2, <2>3
  <1>5. CASE BudgetHit(r) \/ \E o \in AllOutcomes : TurnStops(r, o)
    <2>1. /\ run[r].phase # "none" /\ UNCHANGED <<sent, handles, owed>>
          /\ Stepped(r, "settling") /\ run'[r].seen = run[r].seen
      BY <1>5, SettlesReads DEF BudgetHit, TurnStops, disk, history
    <2> QED BY <1>0, <2>1, RunReads DEF Working, Reading
  <1>6. CASE Release(r)
    <2>1. /\ run[r].phase = "settling" /\ handles' = Freed(s, r) /\ Forgive(s, r) /\ UNCHANGED sent
          /\ Stepped(r, "over") /\ run'[r].seen = run[r].seen
      BY <1>6, MoveReads DEF Release, NoCompacts, Phases, TaskOver
    <2> QED BY <2>1, RunLeaves DEF Phases, TaskOver
  <1>7. CASE EndRelease(r)
    <2>1. /\ run[r].phase = "over" /\ handles' = Freed(s, r) /\ UNCHANGED <<sent, owed>>
          /\ Stepped(r, "repair") \/ Stepped(r, "notify")
          /\ run'[r].seen = run[r].seen
      BY <1>7, MoveReads DEF EndRelease, disk, history, Phases, TaskOver
    <2>2. handles[s] # r
      BY <1>0, <2>1 DEF Left, Attends
    <2> QED BY <2>1, <2>2, RunLeaves DEF Phases, TaskOver
  <1>8. CASE EndRead(r) \/ EndRepair(r) \/ EndNotify(r)
    <2>1. /\ run[r].phase \in {"repair", "repairing", "notify"} /\ UNCHANGED <<sent, handles, owed>>
          /\ \A q \in RunId \ {r} : run'[q] = run[q]
          /\ run'[r].phase = "none" \/ (run'[r].seen = run[r].seen /\ run'[r].sid = s)
      BY <1>0, <1>8, MoveReads
         DEF EndRead, EndRepair, EndNotify, NoRun, disk, history, Phases, TaskOver, Stepped
    <2>2. \A z \in Session : handles[z] # None => handles[z] \in RunId \ {r}
      BY <2>1 DEF Owners, HandlesHaveRuns, Working
    <2>3. \A q \in RunId : run'[q].phase # "none" => run'[q].seen <= sent'[run'[q].sid]
      BY <1>0, <2>1 DEF Left
    <2>4. ASSUME NEW z \in Session, NEW q \in RunId, handles'[z] = q PROVE Attends(q, z)'
      <3>1. handles[z] = q /\ q # r
        BY <2>1, <2>2, <2>4, NoneAssumption
      <3>2. Attends(q, z) /\ run'[q] = run[q]
        BY <2>1, <3>1 DEF Left
      <3> QED BY <2>1, <3>2 DEF Attends, InView
    <2> QED BY <2>1, <2>3, <2>4 DEF Left, PromisedIsRead
  <1>9. CASE RunDies(r)
    BY <1>9 DEF RunDies, Calm
  <1> QED BY <1>1, <1>2, <1>3, <1>4, <1>5, <1>6, <1>7, <1>8, <1>9 DEF RunStep, TurnEnds

LEMMA CallsKeepLeft ==
  ASSUME IInv, Owners, Left, NEW t \in Thread,
         \/ SendCheck(t) \/ Count(t) \/ Unstaff(t) \/ \E s \in Session : Create(t, s)
         \/ EnqueueStep(t) \/ LaunchClear(t) \/ LoseClaim(t) \/ LaunchFailed(t)
         \/ KillWait(t) \/ KillQueue(t) \/ KillClear(t) \/ KillMark(t)
         \/ t \in Caller /\ Dropped(t)
         \/ t \in Caller /\ BeginSpawn(t)
         \/ t \in Caller /\ \E s \in Session : BeginChild(t, s) \/ \E op \in Ops : BeginSend(t, s, op)
  PROVE  Left'
  <1> USE NothingReaped DEF disk, slots, history
  <1>1. CASE SendCheck(t) \/ Count(t) \/ LoseClaim(t) \/ (t \in Caller /\ BeginSpawn(t))
    BY <1>1, LeftStays DEF SendCheck, Count, LoseClaim, BeginSpawn
  <1>2. CASE Unstaff(t) \/ LaunchClear(t) \/ LaunchFailed(t) \/ (t \in Caller /\ Dropped(t))
    BY <1>2, LeftStays DEF Unstaff, LaunchClear, LaunchFailed, Dropped
  <1>3. CASE EnqueueStep(t)
    BY <1>3, LeftStays DEF EnqueueStep, MarkQueued, Persist, Push
  <1>4. CASE KillWait(t) \/ KillQueue(t) \/ KillClear(t) \/ KillMark(t)
    BY <1>4, LeftStays DEF KillWait, KillQueue, KillClear, KillMark
  <1>5. CASE \E s \in Session : Create(t, s)
    BY <1>5, LeftStays DEF Create
  <1>6. CASE t \in Caller /\ (\E s \in Session : BeginChild(t, s) \/ \E op \in Ops : BeginSend(t, s, op))
    BY <1>6, LeftStays DEF BeginChild, BeginSend, Awake
  <1> QED BY <1>1, <1>2, <1>3, <1>4, <1>5, <1>6

LEMMA DeliverKeepsLeft ==
  ASSUME IInv, Owners, Left, NEW t \in Caller, NEW s \in Session, Deliver(t, s)
  PROVE  Left'
  <1> USE DEF IInv, TypeOK, SlotTypes, DiskTypes, OtherTypes
  <1>1. handles' = handles /\ run' = run /\ sent' = [sent EXCEPT ![s] = sent[s] + 1]
    BY NothingReaped DEF Deliver
  <1>2. owed' = [owed EXCEPT ![s] = @ \cup {sent[s] + 1}] \/ owed' = owed
    BY DEF Deliver
  <1>3. owed' # owed => handles[s] # None
    BY NothingReaped DEF Deliver
  <1>4. /\ sent[s] \in Nat /\ sent'[s] = sent[s] + 1 /\ owed[s] \subseteq Nat
        /\ \A z \in Session \ {s} : sent'[z] = sent[z] /\ owed'[z] = owed[z]
        /\ \A m \in owed'[s] : m \in owed[s] \/ m = sent[s] + 1
    BY <1>1, <1>2
  <1>5. ASSUME NEW z \in Session, NEW m \in owed'[z] PROVE m <= sent'[z]
    <2>1. CASE z = s
      <3>1. CASE m \in owed[s]
        <4>1. m \in Nat /\ m <= sent[s]
          BY <1>4, <3>1 DEF Left
        <4> QED BY <1>4, <2>1, <4>1
      <3>2. CASE m = sent[s] + 1
        BY <1>4, <2>1, <3>2
      <3> QED BY <1>4, <1>5, <2>1, <3>1, <3>2
    <2>2. CASE z # s
      BY <1>4, <1>5, <2>2 DEF Left
    <2> QED BY <2>1, <2>2
  <1>6. \A q \in RunId : run'[q].phase # "none" => run'[q].seen <= sent'[run'[q].sid]
    <2> SUFFICES ASSUME NEW q \in RunId, run[q].phase # "none" PROVE run[q].seen <= sent'[run[q].sid]
      BY <1>1
    <2>1. run[q].sid \in Session /\ run[q].seen \in Nat /\ run[q].seen <= sent[run[q].sid]
      BY DEF Left, RunsHaveSessions, Runs
    <2>2. CASE run[q].sid = s
      BY <1>4, <2>1, <2>2
    <2>3. CASE run[q].sid # s
      BY <1>4, <2>1, <2>3
    <2> QED BY <2>2, <2>3
  <1>7. ASSUME NEW z \in Session, NEW q \in RunId, handles'[z] = q
        PROVE  Attends(q, z)'
    <2>1. handles[z] = q /\ run[q].sid = z /\ run[q].phase # "none"
      BY <1>1, <1>7, NoneAssumption DEF Owners, HandlesHaveRuns, Working, TaskOver
    <2>2. run[q].seen \in Nat /\ run[q].seen <= sent[z]
      BY <2>1 DEF Left, Runs
    <2>3. Attends(q, z)
      BY <2>1 DEF Left
    <2>4. CASE z = s
      <3>1. ASSUME NEW m \in owed'[z], run[q].phase \in Reading PROVE InView(q, m)
        <4>1. CASE m \in owed[s]
          BY <2>3, <2>4, <3>1, <4>1 DEF Attends
        <4>2. CASE m = sent[s] + 1
          BY <1>4, <2>2, <2>4, <4>2 DEF InView
        <4> QED BY <1>4, <2>4, <3>1, <4>1, <4>2
      <3> QED BY <1>1, <2>3, <3>1 DEF Attends, InView
    <2>5. CASE z # s
      BY <1>1, <1>4, <2>3, <2>5 DEF Attends, InView
    <2> QED BY <2>4, <2>5
  <1>8. PromisedIsRead'
    BY <1>1, <1>2, <1>3 DEF Left, PromisedIsRead
  <1> QED BY <1>5, <1>6, <1>7, <1>8 DEF Left

LEMMA LaunchKeepsLeft ==
  ASSUME IInv, Owners, Left, NEW t \in Thread,
         (\E r \in RunId : Claim(t, r)) \/ LaunchStart(t) \/ LaunchAttach(t) \/ LaunchFails(t)
  PROVE  Left'
  <1> USE DEF IInv, TypeOK, SlotTypes, DiskTypes
  <1>1. CASE \E r \in RunId : Claim(t, r)
    <2> PICK r \in RunId : Claim(t, r)
      BY <1>1
    <2> DEFINE s == job[t].sid
    <2>1. /\ s \in Session /\ handles[s] = None /\ FreshRun(r) /\ UNCHANGED <<sent, owed>>
          /\ handles' = [handles EXCEPT ![s] = r]
          /\ run' = [run EXCEPT ![r] = ClaimedRun(job[t], sent[s])]
      BY NothingReaped DEF Claim, ThreadsHaveWork, LaunchPcs, Job, disk, history
    <2>2. run'[r].sid = s /\ run'[r].phase = "claimed" /\ run'[r].seen = sent[s] /\ sent[s] \in Nat
      BY <2>1 DEF ClaimedRun, NoRun
    <2>3. owed[s] = {}
      BY <2>1 DEF Left, PromisedIsRead
    <2>4. \A q \in RunId : run'[q].phase # "none" => run'[q].seen <= sent'[run'[q].sid]
      BY <2>1, <2>2 DEF Left
    <2>5. ASSUME NEW z \in Session, NEW q \in RunId, handles'[z] = q
          PROVE  Attends(q, z)'
      <3>1. CASE z = s
        BY <2>1, <2>2, <2>3, <2>5, <3>1 DEF Attends
      <3>2. CASE z # s
        <4>1. handles[z] = q /\ q # r
          BY <2>1, <2>5, <3>2 DEF FreshRun
        <4>2. Attends(q, z) /\ run'[q] = run[q] /\ owed'[z] = owed[z]
          BY <2>1, <4>1 DEF Left
        <4> QED BY <4>2 DEF Attends, InView
      <3> QED BY <3>1, <3>2
    <2>6. PromisedIsRead'
      BY <2>1, <2>3 DEF Left, PromisedIsRead
    <2> QED BY <2>1, <2>4, <2>5, <2>6 DEF Left
  <1>2. CASE LaunchStart(t)
    <2>1. /\ held[t] \in RunId /\ run[held[t]].phase = "claimed" /\ UNCHANGED <<sent, handles, owed>>
      BY <1>2 DEF LaunchStart, ThreadsHaveWork, StartsAreClaimed, history
    <2>2. Stepped(held[t], "spawned") /\ run'[held[t]].seen = run[held[t]].seen
      BY <1>2, <2>1, MoveReads DEF LaunchStart, Phases, Working
    <2>3. run[held[t]].sid \in Session /\ run[held[t]].seen <= sent[run[held[t]].sid]
      BY <2>1 DEF Left, RunsHaveSessions
    <2>4. handles[run[held[t]].sid] = held[t] =>
            \A m \in owed[run[held[t]].sid] : m > run[held[t]].seen
      BY <2>1, <2>3, NoneAssumption DEF Left, Attends, InView, Reading
    <2> QED BY <2>1, <2>2, <2>3, <2>4, RunReads DEF InView, Working
  <1>3. CASE LaunchAttach(t)
    <2>1. held[t] \in RunId /\ UNCHANGED <<handles, sent, owed>>
      BY <1>3 DEF LaunchAttach, ThreadsHaveWork, disk, history
    <2>2. \A q \in RunId : /\ run'[q].sid = run[q].sid /\ run'[q].phase = run[q].phase
                           /\ run'[q].seen = run[q].seen /\ run'[q].lo = run[q].lo
                           /\ run'[q].hi = run[q].hi
      BY <1>3, <2>1 DEF LaunchAttach, Runs
    <2> QED BY <2>1, <2>2 DEF Left, Attends, InView, PromisedIsRead
  <1>4. CASE LaunchFails(t)
    <2> DEFINE s == job[t].sid
    <2>1. /\ held[t] \in RunId /\ s \in Session /\ run[held[t]].sid = s
          /\ handles' = Freed(s, held[t]) /\ Forgive(s, held[t]) /\ UNCHANGED sent
          /\ run' = [run EXCEPT ![held[t]] = NoRun]
      BY <1>4 DEF LaunchFails, ThreadsHaveWork, LaunchPcs, Job, Owners, StartsHaveRuns, Startings,
                  disk
    <2>2. \A z \in Session : handles'[z] # None =>
            handles'[z] = handles[z] /\ handles[z] \in RunId \ {held[t]}
      BY <2>1, NoneAssumption DEF Freed, Owners, HandlesHaveRuns
    <2>3. \A z \in Session : \/ owed'[z] = owed[z] /\ handles'[z] = handles[z]
                             \/ owed'[z] = {}
      BY <2>1 DEF Freed, Forgive, OtherTypes
    <2>4. \A q \in RunId : run'[q].phase # "none" => run'[q].seen <= sent'[run'[q].sid]
      BY <2>1 DEF Left, NoRun
    <2>5. \A z \in Session : \A m \in owed'[z] : m <= sent'[z]
      BY <2>1, <2>3 DEF Left
    <2>6. ASSUME NEW z \in Session, NEW q \in RunId, handles'[z] = q
          PROVE  Attends(q, z)'
      <3>1. handles[z] = q /\ q # held[t]
        BY <2>2, <2>6, NoneAssumption
      <3>2. run'[q] = run[q] /\ (owed'[z] = owed[z] \/ owed'[z] = {}) /\ Attends(q, z)
        BY <2>1, <2>3, <3>1 DEF Left
      <3> QED BY <3>2 DEF Attends, InView
    <2>7. PromisedIsRead'
      BY <2>3 DEF Left, PromisedIsRead
    <2> QED BY <2>4, <2>5, <2>6, <2>7 DEF Left
  <1> QED BY <1>1, <1>2, <1>3, <1>4

LEMMA StopKeepsLeft ==
  ASSUME IInv, Owners, Left, NEW t \in Caller, (\E s \in Session : KillCancel(t, s)) \/ KillFree(t)
  PROVE  Left'
  <1> USE DEF IInv, TypeOK, SlotTypes
  <1>0. t \in Thread
    BY DEF Thread
  <1>1. CASE \E s \in Session : KillCancel(t, s)
    <2>1. PICK s \in Session : KillCancel(t, s)
      BY <1>1
    <2>2. UNCHANGED <<handles, sent, owed>>
      BY <2>1 DEF KillCancel, disk, history
    <2>3. \A q \in RunId : /\ run'[q].sid = run[q].sid /\ run'[q].phase = run[q].phase
                           /\ run'[q].seen = run[q].seen /\ run'[q].lo = run[q].lo
                           /\ run'[q].hi = run[q].hi
      <3>1. CASE handles[s] = None
        BY <2>1, <3>1 DEF KillCancel
      <3>2. CASE handles[s] # None
        <4>1. handles[s] \in RunId /\ run \in [RunId -> Runs]
          BY <3>2
        <4>2. run' = [run EXCEPT ![handles[s]] =
                        [@ EXCEPT !.cancelled = TRUE, !.attached = FALSE]]
          BY <2>1, <3>2 DEF KillCancel
        <4> QED BY <4>1, <4>2 DEF Runs
      <3> QED BY <3>1, <3>2
    <2> QED BY <2>2, <2>3 DEF Left, Attends, InView, PromisedIsRead
  <1>2. CASE KillFree(t)
    <2> DEFINE s == job[t].sid
    <2>1. /\ s \in Session /\ handles' = Freed(s, held[t]) /\ Forgive(s, held[t])
          /\ UNCHANGED <<sent, run>>
      BY <1>0, <1>2 DEF KillFree, ThreadsHaveWork, KillPcs, disk
    <2>2. \A z \in Session : \/ owed'[z] = owed[z] /\ handles'[z] = handles[z]
                             \/ owed'[z] = {} /\ handles'[z] = None
      BY <2>1 DEF Freed, Forgive, OtherTypes
    <2>3. ASSUME NEW z \in Session, NEW q \in RunId, handles'[z] = q PROVE Attends(q, z)'
      <3>1. handles[z] = q /\ owed'[z] = owed[z] /\ run'[q] = run[q]
        BY <2>1, <2>2, <2>3, NoneAssumption
      <3>2. Attends(q, z)
        BY <3>1 DEF Left
      <3> QED BY <3>1, <3>2 DEF Attends, InView
    <2>4. \A z \in Session : \A m \in owed'[z] : m <= sent'[z]
      BY <2>1, <2>2 DEF Left
    <2>5. PromisedIsRead'
      BY <2>2 DEF Left, PromisedIsRead
    <2> QED BY <2>1, <2>3, <2>4, <2>5 DEF Left
  <1> QED BY <1>1, <1>2

LEMMA LeftKeeps ==
  Calm /\ IInv /\ Owners /\ NoCompacts /\ Left /\ [Next]_vars => NoCompacts' /\ Left'
  <1> SUFFICES ASSUME Calm, IInv, Owners, NoCompacts, Left, [Next]_vars PROVE NoCompacts' /\ Left'
    OBVIOUS
  <1>0. Caller \subseteq Thread /\ Pump \in Thread
    BY DEF Thread
  <1>1. CASE \E t \in Caller : CallBegins(t) \/ CallStep(t)
    <2>1. PICK t \in Caller : CallBegins(t) \/ CallStep(t)
      BY <1>1
    <2>2. CASE CallBegins(t)
      BY <1>0, <2>2, CallsKeepLeft, DeliverKeepsLeft, StopKeepsLeft, CompactsKeep DEF CallBegins, Next
    <2>3. CASE CallStep(t)
      BY <1>0, <2>3, CallsKeepLeft, LaunchKeepsLeft, StopKeepsLeft, CompactsKeep
         DEF CallStep, LaunchStep, KillStep, Next
    <2> QED BY <2>1, <2>2, <2>3
  <1>2. CASE PumpStep
    <2>1. CASE \/ PumpWake \/ PumpScan \/ PumpFindsNone \/ PumpCheck \/ \E e \in queue : PumpPop(e)
               \/ RecoverList \/ RecoverDone \/ \E s \in Session : RecoverOne(s)
      <3>1. UNCHANGED <<handles, run, sent, owed>>
        BY <2>1, NothingReaped
           DEF PumpWake, PumpScan, PumpFindsNone, PumpCheck, PumpPop, RecoverList, RecoverDone,
               RecoverOne, disk, slots, history
      <3> QED BY <1>2, <3>1, LeftStays, CompactsKeep DEF Next
    <2>2. CASE EnqueueStep(Pump) \/ LaunchStep(Pump)
      BY <1>0, <1>2, <2>2, CallsKeepLeft, LaunchKeepsLeft, CompactsKeep DEF LaunchStep, Next
    <2> QED BY <1>2, <2>1, <2>2 DEF PumpStep
  <1>3. CASE \E r \in RunId : RunStep(r) \/ TurnEnds(r)
    BY <1>3, RunsKeepLeft, CompactsKeep DEF Next
  <1>4. CASE Fault
    <2>1. CASE Crash
      <3>1. Left'
        BY <2>1, NoneAssumption DEF Crash, Left, PromisedIsRead, NoRun
      <3> QED BY <1>4, <3>1, CompactsKeep DEF Next
    <2>2. CASE ~ Crash
      BY <1>0, <1>4, <2>2, LaunchKeepsLeft, CallsKeepLeft, RunsKeepLeft, CompactsKeep
         DEF Fault, Next, KillAbort, Calm
    <2> QED BY <2>1, <2>2
  <1>5. CASE UNCHANGED vars
    BY <1>5, LeftStays DEF vars, disk, slots, waiting, local, history, NoCompacts
  <1> QED BY <1>1, <1>2, <1>3, <1>4, <1>5 DEF Next

\* A message that send_message left to a live run is read before the run gives up its
\* slot, at whatever moment it comes, for any number of callers and kills: runs that die,
\* are aborted or compact are what breaks the promise (mod.rs, 90-105; run.rs, 224-240).
THEOREM PromisesAreRead == ASSUME Calm PROVE Spec => []PromisedIsRead
  <1>1. Init => IInv /\ Owners /\ Launchers /\ NoCompacts /\ Left
    <2>1. Init => NoCompacts /\ Left
      BY NoneAssumption DEF Init, NoCompacts, Left, PromisedIsRead, NoJob, NoRun, AllOps
    <2> QED BY <2>1, InitHolds, OwnersStart
  <1>2. IInv /\ Owners /\ Launchers /\ NoCompacts /\ Left /\ IInv' /\ [Next]_vars
          => (IInv /\ Owners /\ Launchers /\ NoCompacts /\ Left)'
    BY OwnersKeep, LeftKeeps
  <1>3. Left => PromisedIsRead
    BY DEF Left
  <1> QED BY <1>1, <1>2, <1>3, Inductive, PTL DEF Spec

(***************************************************************************)
(* No session is left with a status that nobody will change                *)
(***************************************************************************)
\* A call dropped half-way, and a run that dies after it was stopped, leave a session
\* Active or Queued with nothing behind it.
NothingDies == {"drop", "run_dies"} \cap Faults = {}

\* A session that spawn_as creates with no slot and no queue is left Active.
CreatesStart == QueueWhenBusy \/ "spawn" \notin Ops

\* The thread t will still write the status of its session.
Writing(t) ==
  \/ pc[t] \in KillPcs \cup {"queueing", "unstaff", "launch", "claim", "start", "failed"}
  \/ pc[t] = "count" /\ job[t].cause = "message" /\ job[t].from = None

InCare(s) ==
  \/ \E t \in Thread : job[t].sid = s /\ Writing(t)
  \/ \E r \in RunId : run[r].sid = s /\ run[r].phase \in Working

\* The run of s waits, is on its way to the queue, or has just left it.
InLine(s) ==
  \/ \E t \in Thread : job[t].sid = s /\ pc[t] \in {"persist", "push", "popped"}
  \/ \E e \in queue : e.job.sid = s
  \/ s \in todo \/ pc[Pump] = "recover"

Looked(s) ==
  /\ status[s] = "Queued" => InCare(s) \/ InLine(s)
  /\ CreatesStart /\ status[s] = "Active" => InCare(s)

LookedAfter == \A s \in Session : Looked(s)

\* A kill knows of which session the run is that it waits for.
StopsKnow ==
  \A t \in Thread : pc[t] \in {"killwait", "killfree"} =>
    run[held[t]].phase = "none" \/ run[held[t]].sid = job[t].sid

\* A run that is over and still has its handle was aborted by a kill that is about to
\* free it.
OverIsStopped ==
  \A s \in Session : handles[s] # None /\ run[handles[s]].phase = "over" =>
    \E t \in Thread : pc[t] = "killfree" /\ held[t] = handles[s]

SettlesFor ==
  \A r \in RunId : run[r].phase = "settling" => run[r].want \notin {"Active", "Queued"}

CopiesAreOwn == \A s \in Session : sidecar[s] # NoJob => sidecar[s].sid = s

OnlySpawnCreates ==
  "spawn" \notin Ops => \A t \in Thread : pc[t] \notin {"create", "createFull"}

Minding == StopsKnow /\ OverIsStopped /\ SettlesFor /\ CopiesAreOwn /\ OnlySpawnCreates

\* A step of the thread t alone, which stops no run at work and takes nothing off the
\* queue, leaves no session behind that t does not leave behind itself.
LEMMA LookedKept ==
  ASSUME IInv, NEW t \in Thread, NEW s \in Session, Looked(s),
         \A u \in Thread \ {t} : pc'[u] = pc[u] /\ job'[u] = job[u],
         \A r \in RunId : run[r].phase \in Working =>
           run'[r].phase \in Working /\ run'[r].sid = run[r].sid,
         queue \subseteq queue', todo' = todo, pc[t] # "recover",
         status'[s] \in {"Active", "Queued"} => status'[s] = status[s],
         job[t].sid = s /\ Writing(t) => InCare(s)',
         job[t].sid = s /\ pc[t] \in {"persist", "push", "popped"} => InLine(s)' \/ InCare(s)'
  PROVE  Looked(s)'
  <1>1. InCare(s) => InCare(s)'
    <2>1. ASSUME NEW u \in Thread, u # t, job[u].sid = s, Writing(u) PROVE InCare(s)'
      BY <2>1 DEF InCare, Writing
    <2>2. ASSUME NEW r \in RunId, run[r].sid = s, run[r].phase \in Working PROVE InCare(s)'
      BY <2>2 DEF InCare
    <2> QED BY <2>1, <2>2 DEF InCare
  <1>2. InLine(s) => InLine(s)' \/ InCare(s)'
    <2>1. ASSUME NEW u \in Thread, u # t, job[u].sid = s, pc[u] \in {"persist", "push", "popped"}
          PROVE  InLine(s)'
      BY <2>1 DEF InLine
    <2>2. ASSUME NEW e \in queue, e.job.sid = s PROVE InLine(s)'
      BY <2>2 DEF InLine
    <2>3. s \in todo \/ pc[Pump] = "recover" => InLine(s)'
      BY DEF InLine, Thread
    <2> QED BY <2>1, <2>2, <2>3 DEF InLine
  <1> QED BY <1>1, <1>2, SMT DEF Looked, CreatesStart

\* Minding, where no run but r changes and r stays the run it is: a step of r, or of a
\* thread, which does not begin or end a kill.
LEMMA MindingRuns ==
  ASSUME IInv, Owners, Minding,
         \A q \in RunId :
           \/ run'[q].phase = "none"
           \/ run[q].phase # "none" /\ run'[q].sid = run[q].sid,
         \A t \in Thread : pc'[t] \in {"killwait", "killfree"} =>
           pc[t] \in {"killwait", "killfree"} /\ held'[t] = held[t] /\ job'[t] = job[t]
  PROVE  StopsKnow'
  BY DEF Minding, StopsKnow, IInv, ThreadsHaveWork

LEMMA MindingOver ==
  ASSUME IInv, Owners, Minding,
         \A s \in Session : handles'[s] # None => handles'[s] = handles[s],
         \A s \in Session : handles'[s] # None /\ run'[handles'[s]].phase = "over" =>
           run[handles[s]].phase = "over",
         \A t \in Thread : pc[t] = "killfree" => pc'[t] = "killfree" /\ held'[t] = held[t]
  PROVE  OverIsStopped'
  BY DEF Minding, OverIsStopped

\* A thread that is not the first to create a session.
LEMMA MindingCreates ==
  ASSUME IInv, Minding, \A t \in Thread : pc'[t] \in {"create", "createFull"} => pc[t] = pc'[t]
  PROVE  OnlySpawnCreates'
  BY DEF Minding, OnlySpawnCreates

\* The steps of a thread that move no run and start or end no kill.
LEMMA QuietMinds ==
  ASSUME IInv, Owners, Minding, NEW t \in Thread, UNCHANGED run,
         handles' = handles \/ handles' = Reaped,
         \A u \in Thread \ {t} : pc'[u] = pc[u] /\ job'[u] = job[u] /\ held'[u] = held[u],
         pc[t] # "killfree", pc'[t] = "killfree" => OverIsStopped',
         pc'[t] \in {"killwait", "killfree"} =>
           pc[t] \in {"killwait", "killfree"} /\ held'[t] = held[t] /\ job'[t] = job[t],
         "spawn" \in Ops \/ pc'[t] \notin {"create", "createFull"},
         \A s \in Session : sidecar'[s] = sidecar[s] \/ sidecar'[s] = NoJob \/ sidecar'[s].sid = s
  PROVE  Minding'
  <1>1. StopsKnow'
    <2>1. \A q \in RunId :
           \/ run'[q].phase = "none"
           \/ run[q].phase # "none" /\ run'[q].sid = run[q].sid
      OBVIOUS
    <2> QED BY <2>1, MindingRuns
  <1>2. OverIsStopped'
    BY MindingOver DEF Reaped
  <1>3. SettlesFor' /\ CopiesAreOwn' /\ OnlySpawnCreates'
    BY DEF Minding, SettlesFor, CopiesAreOwn, OnlySpawnCreates
  <1> QED BY <1>1, <1>2, <1>3 DEF Minding

\* The steps that QuietMinds is about.
LEMMA CallsMind ==
  ASSUME IInv, Owners, Minding, NEW t \in Thread,
         \/ SendCheck(t) \/ Count(t) \/ Unstaff(t) \/ EnqueueStep(t)
         \/ LaunchClear(t) \/ LoseClaim(t) \/ LaunchFailed(t)
         \/ KillWait(t) \/ KillQueue(t) \/ KillClear(t) \/ KillMark(t)
         \/ \E s \in Session : Create(t, s)
  PROVE  Minding'
  <1> USE DEF IInv, TypeOK, ThreadTypes, slots, local, Goto, Finish, disk
  <1>1. CASE SendCheck(t) \/ Count(t) \/ Unstaff(t)
    BY <1>1, ThreadAssumption, QuietMinds DEF SendCheck, Count, Unstaff
  <1>2. CASE EnqueueStep(t)
    <2>1. \A s \in Session :
            sidecar'[s] = sidecar[s] \/ sidecar'[s] = NoJob \/ sidecar'[s].sid = s
      BY <1>2 DEF EnqueueStep, MarkQueued, Persist, Push, DiskTypes
    <2> QED BY <1>2, <2>1, QuietMinds DEF EnqueueStep, MarkQueued, Persist, Push
  <1>3. CASE LaunchClear(t) \/ LoseClaim(t) \/ LaunchFailed(t)
    <2>1. \A s \in Session :
            sidecar'[s] = sidecar[s] \/ sidecar'[s] = NoJob \/ sidecar'[s].sid = s
      BY <1>3 DEF LaunchClear, LoseClaim, LaunchFailed, DiskTypes
    <2> QED BY <1>3, <2>1, QuietMinds DEF LaunchClear, LoseClaim, LaunchFailed
  <1>4. CASE KillQueue(t) \/ KillClear(t) \/ KillMark(t)
    <2>1. \A s \in Session :
            sidecar'[s] = sidecar[s] \/ sidecar'[s] = NoJob \/ sidecar'[s].sid = s
      BY <1>4 DEF KillQueue, KillClear, KillMark, DiskTypes
    <2> QED BY <1>4, <2>1, QuietMinds DEF KillQueue, KillClear, KillMark
  <1>5. CASE KillWait(t)
    <2>1. /\ pc[t] = "killwait" /\ pc' = [pc EXCEPT ![t] = "killfree"]
          /\ UNCHANGED <<disk, handles, run, held, job>>
      BY <1>5 DEF KillWait
    <2>2. OverIsStopped'
      BY <2>1 DEF Minding, OverIsStopped
    <2> QED BY <2>1, <2>2, QuietMinds
  <1>6. CASE \E s \in Session : Create(t, s)
    BY <1>6, QuietMinds DEF Create
  <1> QED BY <1>1, <1>2, <1>3, <1>4, <1>5, <1>6

LEMMA BeginsMind ==
  ASSUME IInv, Owners, Minding, NEW t \in Caller,
         \/ BeginSpawn(t)
         \/ \E s \in Session : \/ \E op \in Ops : BeginSend(t, s, op)
                               \/ BeginChild(t, s)
                               \/ Deliver(t, s)
  PROVE  Minding'
  <1> USE DEF IInv, TypeOK, ThreadTypes, slots, local, Goto, disk, Thread
  <1>1. CASE BeginSpawn(t)
    BY <1>1, QuietMinds DEF BeginSpawn, Calls
  <1>2. CASE \E s \in Session : \E op \in Ops : BeginSend(t, s, op)
    BY <1>2, QuietMinds DEF BeginSend
  <1>3. CASE \E s \in Session : BeginChild(t, s)
    BY <1>3, QuietMinds DEF BeginChild
  <1>4. CASE \E s \in Session : Deliver(t, s)
    BY <1>4, QuietMinds DEF Deliver
  <1> QED BY <1>1, <1>2, <1>3, <1>4

LEMMA PumpMinds ==
  ASSUME IInv, Owners, Minding,
         \/ PumpWake \/ PumpScan \/ PumpFindsNone \/ PumpCheck \/ \E e \in queue : PumpPop(e)
         \/ RecoverList \/ RecoverDone \/ \E s \in Session : RecoverOne(s)
  PROVE  Minding'
  <1> USE DEF IInv, TypeOK, ThreadTypes, Thread, slots, local, Goto, Finish, disk
  <1>1. CASE PumpWake \/ PumpScan \/ PumpFindsNone \/ PumpCheck
    BY <1>1, QuietMinds DEF PumpWake, PumpScan, PumpFindsNone, PumpCheck
  <1>2. CASE \E e \in queue : PumpPop(e)
    BY <1>2, QuietMinds DEF PumpPop
  <1>3. CASE RecoverList \/ RecoverDone \/ \E s \in Session : RecoverOne(s)
    BY <1>3, QuietMinds DEF RecoverList, RecoverDone, RecoverOne
  <1> QED BY <1>1, <1>2, <1>3

LEMMA LaunchesMind ==
  ASSUME IInv, Owners, Minding, NEW t \in Thread, NothingDies,
         \/ \E r \in RunId : Claim(t, r)
         \/ LaunchStart(t) \/ LaunchAttach(t) \/ LaunchFails(t)
  PROVE  Minding'
  <1> USE DEF IInv, TypeOK, Goto
  <1>0. pc[t] \in {"claim", "start", "attach"} /\ UNCHANGED sidecar
    BY DEF Claim, LaunchStart, LaunchAttach, LaunchFails, disk
  <1>1. CopiesAreOwn'
    BY <1>0 DEF Minding, CopiesAreOwn
  <1>2. \A u \in Thread \ {t} : pc'[u] = pc[u] /\ held'[u] = held[u] /\ job'[u] = job[u]
    BY DEF Claim, LaunchStart, LaunchAttach, LaunchFails, Finish, local, ThreadTypes
  <1>3. pc'[t] \in {"start", "attach", "failed", "scan", "idle"}
    BY <1>0 DEF Claim, LaunchStart, LaunchAttach, LaunchFails, Finish, ThreadTypes
  <1>4. OnlySpawnCreates'
    BY <1>2, <1>3 DEF Minding, OnlySpawnCreates
  <1>5. CASE \E r \in RunId : Claim(t, r)
    <2> PICK r \in RunId : Claim(t, r)
      BY <1>5
    <2> DEFINE s == job[t].sid
    <2>1. /\ pc[t] = "claim" /\ s \in Session /\ FreshRun(r)
          /\ handles' = [Reaped EXCEPT ![s] = r] /\ Reaped \in HandleMaps
      BY ReapedType DEF Claim, ThreadsHaveWork, LaunchPcs, Job
    <2>2. /\ run' = [run EXCEPT ![r] = ClaimedRun(job[t], sent[s])]
          /\ run'[r].phase = "claimed"
      BY DEF Claim, ClaimedRun, NoRun, SlotTypes
    <2>3. StopsKnow'
      BY <1>2, <1>3, <2>1, <2>2 DEF Minding, StopsKnow, FreshRun, ThreadsHaveWork, SlotTypes
    <2>4. OverIsStopped'
      BY <1>2, <1>0, <2>1, <2>2 DEF Minding, OverIsStopped, FreshRun, Reaped, HandleMaps, SlotTypes
    <2>5. SettlesFor'
      BY <2>2 DEF Minding, SettlesFor, SlotTypes
    <2> QED BY <1>1, <1>4, <2>3, <2>4, <2>5 DEF Minding
  <1>6. CASE LaunchStart(t) \/ LaunchAttach(t) \/ LaunchFails(t)
    <2>1. held[t] \in RunId /\ handles \in HandleMaps
      BY <1>6 DEF LaunchStart, LaunchAttach, LaunchFails, ThreadsHaveWork, SlotTypes, HandleMaps
    <2>2. \A s \in Session : handles'[s] # None => handles'[s] = handles[s]
      BY <1>6 DEF LaunchStart, LaunchAttach, LaunchFails, Freed, SlotTypes
    <2>3. \A q \in RunId :
            /\ \/ run'[q].phase = "none"
               \/ run[q].phase # "none" /\ run'[q].sid = run[q].sid
            /\ run'[q].phase = "over" => run[q].phase = "over"
            /\ run'[q].phase = "settling" => run[q].phase = "settling" /\ run'[q].want = run[q].want
      <3>1. CASE LaunchStart(t)
        <4>1. run[held[t]].phase = "claimed" /\ Stepped(held[t], "spawned")
          BY <2>1, <3>1, MoveSteps DEF LaunchStart, Phases, Working, StartsAreClaimed
        <4> QED BY <4>1 DEF Stepped
      <3>2. CASE LaunchAttach(t)
        BY <2>1, <3>2 DEF LaunchAttach, SlotTypes, Runs
      <3>3. CASE LaunchFails(t)
        BY <2>1, <3>3 DEF LaunchFails, NoRun, SlotTypes
      <3> QED BY <1>6, <3>1, <3>2, <3>3
    <2>4. StopsKnow'
      BY <1>2, <1>3, <2>3, MindingRuns
    <2>5. OverIsStopped'
      <3>1. \A s \in Session : handles'[s] # None /\ run'[handles'[s]].phase = "over" =>
              run[handles[s]].phase = "over"
        BY <2>1, <2>2, <2>3 DEF HandleMaps
      <3> QED BY <1>0, <1>2, <2>2, <3>1, MindingOver
    <2>6. SettlesFor'
      BY <2>3 DEF Minding, SettlesFor
    <2> QED BY <1>1, <1>4, <2>4, <2>5, <2>6 DEF Minding
  <1> QED BY <1>5, <1>6

LEMMA StopsMind ==
  ASSUME IInv, Owners, Minding, NEW t \in Caller,
         \/ \E s \in Session : KillCancel(t, s)
         \/ KillAbort(t) \/ KillFree(t)
  PROVE  Minding'
  <1> USE DEF IInv, TypeOK, Goto
  <1>0. t \in Thread /\ UNCHANGED sidecar /\ CopiesAreOwn'
    BY DEF Thread, KillCancel, KillAbort, KillFree, disk, Minding, CopiesAreOwn
  <1>1. \A u \in Thread \ {t} : pc'[u] = pc[u] /\ held'[u] = held[u] /\ job'[u] = job[u]
    BY <1>0 DEF KillCancel, KillAbort, KillFree, local, ThreadTypes
  <1>2. pc[t] \in {"idle", "killwait", "killfree"} /\ pc'[t] \in KillPcs
    BY <1>0 DEF KillCancel, KillAbort, KillFree, ThreadTypes, KillPcs
  <1>3. OnlySpawnCreates'
    BY <1>1, <1>2 DEF Minding, OnlySpawnCreates, KillPcs
  <1>4. CASE \E s \in Session : KillCancel(t, s)
    <2>1. PICK s \in Session : KillCancel(t, s)
      BY <1>4
    <2>2. /\ UNCHANGED handles
          /\ \A q \in RunId : /\ run'[q].sid = run[q].sid /\ run'[q].phase = run[q].phase
                              /\ run'[q].want = run[q].want
      <3>1. CASE handles[s] = None
        BY <2>1, <3>1 DEF KillCancel
      <3>2. CASE handles[s] # None
        <4>1. handles[s] \in RunId /\ run \in [RunId -> Runs]
          BY <3>2 DEF SlotTypes
        <4>2. run' = [run EXCEPT ![handles[s]] =
                        [@ EXCEPT !.cancelled = TRUE, !.attached = FALSE]]
          BY <2>1, <3>2 DEF KillCancel
        <4> QED BY <2>1, <4>1, <4>2 DEF KillCancel, Runs
      <3> QED BY <3>1, <3>2
    <2>3. pc[t] = "idle"
      BY <2>1 DEF KillCancel
    <2>4. pc'[t] \in {"killwait", "killfree"} =>
            held'[t] = handles[s] /\ handles[s] \in RunId /\ job'[t].sid = s
      BY <1>0, <2>1 DEF KillCancel, ThreadTypes, SlotTypes, NoJob
    <2>5. StopsKnow'
      BY <1>1, <2>2, <2>4, NoneAssumption
         DEF Minding, StopsKnow, ThreadsHaveWork, Owners, HandlesHaveRuns
    <2>6. OverIsStopped'
      BY <1>1, <2>2, <2>3 DEF Minding, OverIsStopped, SlotTypes
    <2>7. SettlesFor'
      BY <2>2 DEF Minding, SettlesFor
    <2> QED BY <1>0, <1>3, <2>5, <2>6, <2>7 DEF Minding
  <1>5. CASE KillAbort(t)
    <2>1. /\ held[t] \in RunId /\ run[held[t]].phase \in Working /\ pc[t] = "killwait"
          /\ pc'[t] = "killfree" /\ Stepped(held[t], "over") /\ UNCHANGED <<handles, held, job>>
      <3>1. handles' \in HandleMaps /\ held[t] \in RunId /\ UNCHANGED handles
        BY <1>5, <1>0 DEF KillAbort, ThreadsHaveWork, SlotTypes, HandleMaps
      <3> QED BY <1>0, <1>5, <3>1, MoveSteps DEF KillAbort, Phases, TaskOver, local, ThreadTypes
    <2>2. StopsKnow'
      <3>1. \A q \in RunId :
              \/ run'[q].phase = "none"
              \/ run[q].phase # "none" /\ run'[q].sid = run[q].sid
        BY <2>1 DEF Stepped, Working
      <3>2. \A u \in Thread : pc'[u] \in {"killwait", "killfree"} =>
              pc[u] \in {"killwait", "killfree"} /\ held'[u] = held[u] /\ job'[u] = job[u]
        BY <1>1, <2>1
      <3> QED BY <3>1, <3>2, MindingRuns
    <2>3. OverIsStopped'
      BY <1>0, <1>1, <2>1 DEF Minding, OverIsStopped, Stepped, SlotTypes
    <2>4. SettlesFor'
      BY <2>1 DEF Minding, SettlesFor, Stepped
    <2> QED BY <1>0, <1>3, <2>2, <2>3, <2>4 DEF Minding
  <1>6. CASE KillFree(t)
    <2>1. /\ pc[t] = "killfree" /\ held[t] \in RunId /\ job[t].sid \in Session
          /\ handles' = Freed(job[t].sid, held[t]) /\ UNCHANGED run /\ pc'[t] = "killqueue"
      BY <1>0, <1>6 DEF KillFree, ThreadsHaveWork, KillPcs, ThreadTypes
    <2>2. StopsKnow'
      <3>1. \A q \in RunId :
              \/ run'[q].phase = "none"
              \/ run[q].phase # "none" /\ run'[q].sid = run[q].sid
        BY <2>1
      <3>2. \A u \in Thread : pc'[u] \in {"killwait", "killfree"} =>
              pc[u] \in {"killwait", "killfree"} /\ held'[u] = held[u] /\ job'[u] = job[u]
        BY <1>1, <2>1
      <3> QED BY <3>1, <3>2, MindingRuns
    <2>3. OverIsStopped'
      <3> SUFFICES ASSUME NEW s \in Session, handles'[s] # None, run'[handles'[s]].phase = "over"
                   PROVE  \E u \in Thread : pc'[u] = "killfree" /\ held'[u] = handles'[s]
        BY DEF OverIsStopped
      <3>1. handles'[s] = handles[s] /\ handles[s] \in RunId
        BY <2>1 DEF Freed, SlotTypes
      <3>2. PICK u \in Thread : pc[u] = "killfree" /\ held[u] = handles[s]
        BY <2>1, <3>1 DEF Minding, OverIsStopped
      <3>3. run[handles[s]].phase = "over" /\ run[handles[s]].sid = s
        BY <2>1, <3>1 DEF Owners, HandlesHaveRuns
      <3>4. u # t
        <4>1. SUFFICES ASSUME u = t PROVE FALSE
          OBVIOUS
        <4>2. job[t].sid = s
          BY <1>0, <3>2, <3>3, <4>1 DEF Minding, StopsKnow
        <4> QED BY <2>1, <3>1, <3>2, <4>1, <4>2, NoneAssumption DEF Freed, SlotTypes
      <3> QED BY <1>1, <3>1, <3>2, <3>4
    <2>4. SettlesFor'
      BY <2>1 DEF Minding, SettlesFor
    <2> QED BY <1>0, <1>3, <2>2, <2>3, <2>4 DEF Minding
  <1> QED BY <1>4, <1>5, <1>6

\* A step of a run that ends it only with its handle given up.
LEMMA RunMinds ==
  ASSUME IInv, Owners, Minding, NEW r \in RunId, NEW p \in Working \cup TaskOver, Stepped(r, p),
         run[r].phase \in Working \cup TaskOver,
         handles' = handles \/ handles' = Freed(run[r].sid, r),
         p = "over" => handles' = Freed(run[r].sid, r),
         p = "settling" => run'[r].want \notin {"Active", "Queued"},
         UNCHANGED <<pc, held, job, sidecar>>
  PROVE  Minding'
  <1>1. \A s \in Session : handles'[s] # None => handles'[s] = handles[s] /\ handles[s] \in RunId
    BY DEF Freed, IInv, TypeOK, SlotTypes
  <1>2. StopsKnow'
    <2>1. \A q \in RunId :
            \/ run'[q].phase = "none"
            \/ run[q].phase # "none" /\ run'[q].sid = run[q].sid
      BY DEF Stepped, Working, TaskOver
    <2> QED BY <2>1, MindingRuns
  <1>3. OverIsStopped'
    <2>1. ASSUME NEW s \in Session, handles'[s] # None, run'[handles'[s]].phase = "over"
          PROVE  run[handles[s]].phase = "over"
      <3>1. CASE handles[s] # r
        BY <1>1, <2>1, <3>1 DEF Stepped
      <3>2. CASE handles[s] = r
        <4>1. run[r].sid = s
          BY <1>1, <2>1, <3>2, NoneAssumption DEF Owners, HandlesHaveRuns, IInv, TypeOK, SlotTypes
        <4>2. p = "over"
          BY <1>1, <2>1, <3>2 DEF Stepped
        <4> QED BY <2>1, <3>2, <4>1, <4>2 DEF Freed, IInv, TypeOK, SlotTypes
      <3> QED BY <3>1, <3>2
    <2> QED BY <1>1, <2>1, MindingOver
  <1>4. SettlesFor'
    BY DEF Minding, SettlesFor, Stepped
  <1> QED BY <1>2, <1>3, <1>4 DEF Minding, CopiesAreOwn, OnlySpawnCreates

LEMMA RunsMind ==
  ASSUME IInv, Owners, Minding, NEW r \in RunId, NothingDies,
         RunStep(r) \/ TurnEnds(r) \/ BudgetHit(r), ~ EndNotify(r)
  PROVE  Minding'
  <1> USE DEF IInv, TypeOK, Working, TaskOver, Phases
  <1>1. run[r].phase # "none" => run[r].sid \in Session
    BY DEF RunsHaveSessions
  <1>2. handles \in HandleMaps /\ Freed(run[r].sid, r) \in HandleMaps
    BY FreedType DEF SlotTypes, HandleMaps
  <1>3. run \in [RunId -> Runs]
    BY DEF SlotTypes
  <1>4. CASE Begin(r)
    <2>1. Stepped(r, "ready") \/ Stepped(r, "turn")
      BY <1>1, <1>2, <1>4, TakesInputSteps, MoveSteps DEF Begin, DiskTypes, WaitTypes, MarkMaps
    <2> QED BY <1>4, <2>1, RunMinds DEF Begin, local
  <1>5. CASE StartTurn(r)
    BY <1>2, <1>5, MoveSteps, RunMinds DEF StartTurn, local, disk
  <1>6. ASSUME NEW want \in {"Idle", "Done", "Killed"}, NEW done, Settles(r, want, done)
        PROVE  Stepped(r, "settling") /\ run'[r].want \notin {"Active", "Queued"}
    BY <1>3, <1>6 DEF Settles, Stepped, Runs
  <1>7. ASSUME GoOn(r) PROVE \/ Stepped(r, "ready")
                             \/ Stepped(r, "settling") /\ run'[r].want \notin {"Active", "Queued"}
    <2>1. CASE run[r].turns >= MaxTurns
      BY <1>6, <1>7, <2>1 DEF GoOn
    <2>2. CASE ~ run[r].turns >= MaxTurns
      <3> DEFINE R == [run[r] EXCEPT !.phase = "ready", !.turns = run[r].turns + 1,
                                     !.lo = run[r].seen, !.hi = sent[run[r].sid],
                                     !.seen = sent[run[r].sid]]
      <3>1. R.phase = "ready"
        BY <1>3 DEF Runs
      <3>2. run' = [run EXCEPT ![r] = R]
        BY <1>7, <2>2 DEF GoOn
      <3> HIDE DEF R
      <3>3. run'[r].phase = "ready"
        BY <1>3, <3>1, <3>2
      <3> QED BY <1>7, <3>3, GoOnReads DEF Stepped
    <2> QED BY <2>1, <2>2
  <1>8. CASE TurnCompleted(r)
    <2>1. \/ Stepped(r, "ready") \/ Stepped(r, "looking")
          \/ Stepped(r, "settling") /\ run'[r].want \notin {"Active", "Queued"}
      BY <1>2, <1>6, <1>7, <1>8, MoveSteps DEF TurnCompleted
    <2> QED BY <1>8, <2>1, RunMinds DEF TurnCompleted, local, disk
  <1>9. CASE LastLook(r)
    <2>1. CASE Fresh(r)
      BY <1>7, <1>9, <2>1, RunMinds DEF LastLook, local
    <2>2. CASE ~ Fresh(r)
      <3>1. Stepped(r, "over")
        BY <1>9, <2>2, OverReads DEF LastLook
      <3> QED BY <1>9, <2>2, <3>1, RunMinds DEF LastLook, local
    <2> QED BY <2>1, <2>2
  <1>10. CASE (\E o \in AllOutcomes : TurnStops(r, o)) \/ BudgetHit(r)
    <2>1. Stepped(r, "settling") /\ run'[r].want \notin {"Active", "Queued"}
      BY <1>6, <1>10 DEF TurnStops, BudgetHit
    <2> QED BY <1>10, <2>1, RunMinds DEF TurnStops, BudgetHit, local, disk
  <1>11. CASE Release(r)
    BY <1>2, <1>11, MoveSteps, RunMinds DEF Release, local
  <1>12. CASE EndRelease(r)
    BY <1>2, <1>12, MoveSteps, RunMinds DEF EndRelease, local, disk
  <1>13. CASE EndRead(r) \/ EndRepair(r)
    BY <1>2, <1>13, MoveSteps, RunMinds DEF EndRead, EndRepair, local, disk
  <1> QED BY <1>4, <1>5, <1>8, <1>9, <1>10, <1>11, <1>12, <1>13 DEF RunStep, TurnEnds

LEMMA MindingKept ==
  ASSUME IInv, Owners, Minding, NothingDies, Next PROVE Minding'
  <1>0. Caller \subseteq Thread /\ Pump \in Thread
    BY DEF Thread
  <1>1. CASE \E t \in Caller : CallBegins(t) \/ CallStep(t)
    BY <1>0, <1>1, BeginsMind, CallsMind, LaunchesMind, StopsMind
       DEF CallBegins, CallStep, LaunchStep, KillStep
  <1>2. CASE PumpStep
    BY <1>0, <1>2, PumpMinds, CallsMind, LaunchesMind DEF PumpStep, LaunchStep
  <1>3. ASSUME NEW r \in RunId, EndNotify(r) PROVE Minding'
    <2>1. /\ run' = [run EXCEPT ![r] = NoRun] /\ UNCHANGED <<handles, pc, held, job, sidecar>>
      BY <1>3 DEF EndNotify, local, disk
    <2>2. \A q \in RunId :
            /\ \/ run'[q].phase = "none"
               \/ run[q].phase # "none" /\ run'[q].sid = run[q].sid
            /\ run'[q].phase = "over" => run[q].phase = "over"
            /\ run'[q].phase = "settling" => run' [q] = run[q]
      BY <2>1 DEF NoRun, IInv, TypeOK, SlotTypes
    <2>3. StopsKnow'
      BY <2>1, <2>2, MindingRuns
    <2>4. OverIsStopped'
      BY <2>1, <2>2 DEF Minding, OverIsStopped, IInv, TypeOK, SlotTypes
    <2>5. SettlesFor'
      BY <2>2 DEF Minding, SettlesFor
    <2> QED BY <2>1, <2>3, <2>4, <2>5 DEF Minding, CopiesAreOwn, OnlySpawnCreates
  <1>4. CASE \E r \in RunId : RunStep(r) \/ TurnEnds(r)
    BY <1>3, <1>4, RunsMind
  <1>5. CASE Fault
    <2>1. CASE Crash
      BY <2>1 DEF Crash, Minding, StopsKnow, OverIsStopped, SettlesFor, CopiesAreOwn,
                  OnlySpawnCreates, NoRun
    <2>2. CASE \E t \in Thread : LaunchFails(t)
      BY <2>2, LaunchesMind
    <2>3. CASE \E t \in Caller : KillAbort(t) \/ Dropped(t)
      BY <1>0, <2>3, StopsMind DEF NothingDies, Dropped
    <2>4. CASE \E r \in RunId : RunDies(r) \/ BudgetHit(r)
      <3>1. PICK r \in RunId : BudgetHit(r)
        BY <2>4 DEF NothingDies, RunDies
      <3>2. ~ EndNotify(r)
        BY <3>1 DEF BudgetHit, EndNotify
      <3> QED BY <3>1, <3>2, RunsMind
    <2> QED BY <1>5, <2>1, <2>2, <2>3, <2>4 DEF Fault
  <1> QED BY <1>1, <1>2, <1>4, <1>5 DEF Next

LEMMA MindingStarts == Init => Minding
  BY ThreadAssumption
     DEF Init, Minding, StopsKnow, OverIsStopped, SettlesFor, CopiesAreOwn, OnlySpawnCreates, NoRun

\* What the calls and the launches leave behind them.
LEMMA CallsLook ==
  ASSUME IInv, Owners, ClaimsHaveStarts, Minding, LookedAfter, NothingDies, NEW t \in Thread,
         \/ SendCheck(t) \/ Count(t) \/ Unstaff(t) \/ EnqueueStep(t)
         \/ \E s \in Session : Create(t, s)
  PROVE  LookedAfter'
  <1> USE DEF IInv, TypeOK
  <1> SUFFICES ASSUME NEW s \in Session PROVE Looked(s)'
    BY DEF LookedAfter
  <1>0. Looked(s)
    BY DEF LookedAfter
  <1>1. \A u \in Thread \ {t} : pc'[u] = pc[u] /\ job'[u] = job[u]
    BY DEF SendCheck, Count, Unstaff, EnqueueStep, MarkQueued, Persist, Push, Create, Finish, Goto,
           local, ThreadTypes
  <1>2. run' = run /\ todo' = todo /\ queue \subseteq queue'
    BY DEF SendCheck, Count, Unstaff, EnqueueStep, MarkQueued, Persist, Push, Create, Finish, local,
           slots, waiting, PushBack
  <1>3. CASE SendCheck(t)
    <2>1. pc[t] \in {"check", "checkActive"}
      BY <1>3 DEF SendCheck
    <2>2. status'[s] \in {"Active", "Queued"} => status'[s] = status[s]
      BY <1>3 DEF SendCheck, SetStatus, DiskTypes
    <2> QED BY <1>0, <1>1, <1>2, <2>1, <2>2, LookedKept DEF Writing, KillPcs
  <1>4. CASE Count(t)
    <2>1. pc[t] = "count" /\ UNCHANGED status
      BY <1>4 DEF Count, disk
    <2>2. job[t].sid = s /\ Writing(t) => InCare(s)'
      <3> SUFFICES ASSUME job[t].sid = s, Writing(t) PROVE InCare(s)'
        OBVIOUS
      <3>1. job' = job /\ pc'[t] \in {"launch", "queueing", "unstaff"}
        BY <1>4, <2>1 DEF Count, Writing, KillPcs, Goto, local, ThreadTypes
      <3> QED BY <3>1 DEF InCare, Writing
    <2> QED BY <1>0, <1>1, <1>2, <2>1, <2>2, LookedKept
  <1>5. CASE Unstaff(t)
    <2>1. pc[t] = "unstaff" /\ status' = [status EXCEPT ![job[t].sid] = "Idle"]
      BY <1>5 DEF Unstaff, SetStatus
    <2>2. CASE s = job[t].sid
      BY <2>1, <2>2 DEF Looked, DiskTypes
    <2>3. CASE s # job[t].sid
      BY <1>0, <1>1, <1>2, <2>1, <2>3, LookedKept DEF DiskTypes
    <2> QED BY <2>2, <2>3
  <1>6. CASE MarkQueued(t)
    <2>1. /\ pc[t] = "queueing" /\ status' = [status EXCEPT ![job[t].sid] = "Queued"]
          /\ job' = job /\ pc'[t] = "persist"
      BY <1>6 DEF MarkQueued, SetStatus, Goto, local, ThreadTypes
    <2>2. CASE s = job[t].sid
      <3>1. InLine(s)'
        BY <2>1, <2>2 DEF InLine
      <3> QED BY <2>1, <2>2, <3>1 DEF Looked, DiskTypes
    <2>3. CASE s # job[t].sid
      BY <1>0, <1>1, <1>2, <2>1, <2>3, LookedKept DEF DiskTypes
    <2> QED BY <2>2, <2>3
  <1>7. CASE Persist(t)
    <2>1. pc[t] = "persist" /\ UNCHANGED status /\ job' = job /\ pc'[t] = "push"
      BY <1>7 DEF Persist, Goto, local, ThreadTypes
    <2>2. job[t].sid = s => InLine(s)'
      BY <2>1 DEF InLine
    <2> QED BY <1>0, <1>1, <1>2, <2>1, <2>2, LookedKept DEF Writing, KillPcs
  <1>8. CASE Push(t)
    <2>1. PICK n : queue' = queue \cup {[place |-> n, job |-> job[t]]}
      BY <1>8 DEF Push, PushBack
    <2>2. pc[t] = "push" /\ UNCHANGED status
      BY <1>8 DEF Push, disk
    <2>3. \E e \in queue' : e.job = job[t]
      <3>1. [place |-> n, job |-> job[t]] \in queue'
        BY <2>1
      <3> QED BY <3>1
    <2>4. job[t].sid = s => InLine(s)'
      BY <2>3 DEF InLine
    <2> QED BY <1>0, <1>1, <1>2, <2>2, <2>4, LookedKept DEF Writing, KillPcs
  <1>9. CASE \E x \in Session : Create(t, x)
    <2>1. PICK x \in Session : Create(t, x)
      BY <1>9
    <2>2. /\ pc[t] \in {"create", "createFull"}
          /\ status' = [status EXCEPT ![x] = "Active"]
      BY <2>1 DEF Create, SetStatus
    <2>3. CASE s = x
      <3>1. CreatesStart => pc'[t] \in {"launch", "queueing"} /\ job'[t].sid = s
        BY <2>1, <2>2, <2>3
           DEF Create, CreatesStart, Minding, OnlySpawnCreates, Goto, ThreadTypes
      <3>2. CreatesStart => InCare(s)'
        BY <3>1 DEF InCare, Writing
      <3> QED BY <2>2, <2>3, <3>2 DEF Looked, CreatesStart, DiskTypes
    <2>4. CASE s # x
      BY <1>0, <1>1, <1>2, <2>2, <2>4, LookedKept DEF DiskTypes, Writing, KillPcs
    <2> QED BY <2>3, <2>4
  <1> QED BY <1>3, <1>4, <1>5, <1>6, <1>7, <1>8, <1>9 DEF EnqueueStep

LEMMA BeginsLook ==
  ASSUME IInv, Minding, LookedAfter, NEW t \in Caller, CallBegins(t)
  PROVE  LookedAfter'
  <1> USE DEF IInv, TypeOK
  <1> SUFFICES ASSUME NEW s \in Session PROVE Looked(s)'
    BY DEF LookedAfter
  <1>0. Looked(s) /\ t \in Thread
    BY DEF LookedAfter, Thread
  <1>1. /\ \A u \in Thread \ {t} : pc'[u] = pc[u] /\ job'[u] = job[u]
        /\ pc[t] = "idle" /\ todo' = todo /\ queue' = queue
    BY <1>0 DEF CallBegins, BeginSpawn, BeginSend, BeginChild, Deliver, KillCancel, Goto, local, waiting,
                ThreadTypes
  <1>2. \A q \in RunId : run'[q].sid = run[q].sid /\ run'[q].phase = run[q].phase
    <2>1. CASE \E x \in Session : KillCancel(t, x)
      <3>1. PICK x \in Session : KillCancel(t, x)
        BY <2>1
      <3>2. CASE handles[x] = None
        BY <3>1, <3>2 DEF KillCancel
      <3>3. CASE handles[x] # None
        <4>1. handles[x] \in RunId /\ run \in [RunId -> Runs]
          BY <3>3 DEF SlotTypes
        <4>2. run' = [run EXCEPT ![handles[x]] =
                        [@ EXCEPT !.cancelled = TRUE, !.attached = FALSE]]
          BY <3>1, <3>3 DEF KillCancel
        <4> QED BY <4>1, <4>2 DEF Runs
      <3> QED BY <3>2, <3>3
    <2>2. CASE UNCHANGED run
      BY <2>2
    <2> QED BY <2>1, <2>2 DEF CallBegins, BeginSpawn, BeginSend, BeginChild, Deliver, slots
  <1>3. CASE UNCHANGED status
    BY <1>0, <1>1, <1>2, <1>3, LookedKept DEF Writing, KillPcs
  <1>4. CASE \E x \in Session : BeginChild(t, x)
    <2>1. PICK x \in Session : BeginChild(t, x)
      BY <1>4
    <2>2. CASE s = x
      <3>1. Writing(t)' /\ job'[t].sid = s
        BY <1>0, <2>1, <2>2 DEF BeginChild, Writing, Goto, ThreadTypes
      <3>2. InCare(s)'
        BY <1>0, <3>1 DEF InCare
      <3> QED BY <3>2 DEF Looked, CreatesStart
    <2>3. CASE s # x
      <3>1. status'[s] = status[s]
        BY <2>1, <2>3 DEF BeginChild, SetStatus, DiskTypes
      <3> QED BY <1>0, <1>1, <1>2, <3>1, LookedKept DEF Writing, KillPcs
    <2> QED BY <2>2, <2>3
  <1> QED BY <1>3, <1>4 DEF CallBegins, BeginSpawn, BeginSend, Deliver, KillCancel, disk

\* Who has a handle is in somebody's care: its run is at work, its launch has still to
\* start it, or a kill has aborted it.
LEMMA HandleInCare ==
  ASSUME IInv, Owners, ClaimsHaveStarts, Minding, NEW s \in Session, handles[s] # None
  PROVE  \/ \E r \in RunId : run[r].sid = s /\ run[r].phase \in Working
         \/ \E t \in Thread : job[t].sid = s /\ pc[t] \in {"start", "killfree"}
  <1> DEFINE r == handles[s]
  <1>1. /\ r \in RunId /\ run[r].sid = s
        /\ run[r].phase \in {"claimed", "over"} \cup Working
    BY DEF IInv, TypeOK, SlotTypes, Owners, HandlesHaveRuns
  <1>2. CASE run[r].phase \in Working
    BY <1>1, <1>2
  <1>3. CASE run[r].phase = "claimed"
    BY <1>1, <1>3 DEF ClaimsHaveStarts, Startings, Owners, StartsHaveRuns
  <1>4. CASE run[r].phase = "over"
    BY <1>1, <1>4 DEF Minding, OverIsStopped, StopsKnow
  <1> QED BY <1>1, <1>2, <1>3, <1>4

LEMMA LaunchesLook ==
  ASSUME IInv, Owners, ClaimsHaveStarts, Minding, LookedAfter, NothingDies, NEW t \in Thread,
         LaunchStep(t) \/ LaunchFails(t)
  PROVE  LookedAfter'
  <1> USE DEF IInv, TypeOK
  <1> SUFFICES ASSUME NEW s \in Session PROVE Looked(s)'
    BY DEF LookedAfter
  <1>0. Looked(s)
    BY DEF LookedAfter
  <1>1. \A u \in Thread \ {t} : pc'[u] = pc[u] /\ job'[u] = job[u]
    BY DEF LaunchStep, LaunchClear, LoseClaim, LaunchStart, LaunchAttach, LaunchFailed, Claim,
           LaunchFails, Finish, Goto, local, ThreadTypes
  <1>2. todo' = todo /\ queue' = queue /\ pc[t] \in LaunchPcs
    BY DEF LaunchStep, LaunchClear, LoseClaim, LaunchStart, LaunchAttach, LaunchFailed, Claim,
           LaunchFails, Finish, local, waiting, LaunchPcs
  <1>3. pc[t] # "recover" /\ pc[t] \notin {"persist", "push", "popped"}
    BY <1>2 DEF LaunchPcs
  <1>4. CASE LaunchClear(t)
    <2>1. /\ job' = job /\ pc'[t] = "claim" /\ UNCHANGED <<run, status>>
      BY <1>4 DEF LaunchClear, Goto, local, slots, ThreadTypes
    <2>2. job[t].sid = s => InCare(s)'
      BY <2>1 DEF InCare, Writing
    <2> QED BY <1>0, <1>1, <1>2, <1>3, <2>1, <2>2, LookedKept
  <1>5. CASE \E r \in RunId : Claim(t, r)
    <2> PICK r \in RunId : Claim(t, r)
      BY <1>5
    <2>1. /\ job' = job /\ pc'[t] = "start" /\ UNCHANGED status
          /\ run[r].phase = "none" /\ \A q \in RunId \ {r} : run'[q] = run[q]
      BY DEF Claim, FreshRun, Goto, disk, ThreadTypes, SlotTypes
    <2>2. job[t].sid = s => InCare(s)'
      BY <2>1 DEF InCare, Writing
    <2>3. \A q \in RunId : run[q].phase \in Working =>
            run'[q].phase \in Working /\ run'[q].sid = run[q].sid
      BY <2>1 DEF Working
    <2> QED BY <1>0, <1>1, <1>2, <1>3, <2>1, <2>2, <2>3, LookedKept
  <1>6. CASE LoseClaim(t)
    <2>1. UNCHANGED <<run, status>> /\ pc[t] = "claim" /\ Reaped[job[t].sid] # None
      BY <1>6 DEF LoseClaim, disk
    <2>2. job[t].sid = s => InCare(s)'
      <3> SUFFICES ASSUME job[t].sid = s PROVE InCare(s)'
        OBVIOUS
      <3>1. handles[s] # None
        BY <2>1 DEF Reaped
      <3>2. CASE \E r \in RunId : run[r].sid = s /\ run[r].phase \in Working
        BY <2>1, <3>2 DEF InCare
      <3>3. CASE \E u \in Thread : job[u].sid = s /\ pc[u] \in {"start", "killfree"}
        <4>1. PICK u \in Thread : job[u].sid = s /\ pc[u] \in {"start", "killfree"}
          BY <3>3
        <4>2. job'[u].sid = s /\ pc'[u] \in {"start", "killfree"}
          BY <1>1, <2>1, <4>1
        <4> QED BY <4>2 DEF InCare, Writing, KillPcs
      <3> QED BY <3>1, <3>2, <3>3, HandleInCare
    <2> QED BY <1>0, <1>1, <1>2, <1>3, <2>1, <2>2, LookedKept
  <1>7. CASE LaunchStart(t)
    <2>1. /\ pc[t] = "start" /\ held[t] \in RunId /\ handles' \in HandleMaps
          /\ run[held[t]].phase = "claimed" /\ run[held[t]].sid = job[t].sid
          /\ status' = [status EXCEPT ![job[t].sid] = "Active"]
      BY <1>7 DEF LaunchStart, SetStatus, ThreadsHaveWork, StartsAreClaimed, SlotTypes, HandleMaps,
                  Owners, StartsHaveRuns, Startings
    <2>2. Stepped(held[t], "spawned")
      BY <1>7, <2>1, MoveSteps DEF LaunchStart, Phases, Working
    <2>3. CASE s = job[t].sid
      <3>1. InCare(s)'
        BY <2>1, <2>2, <2>3 DEF InCare, Stepped, Working
      <3> QED BY <3>1 DEF Looked, CreatesStart
    <2>4. CASE s # job[t].sid
      <3>1. \A q \in RunId : run[q].phase \in Working =>
              run'[q].phase \in Working /\ run'[q].sid = run[q].sid
        BY <2>1, <2>2 DEF Stepped, Working
      <3> QED BY <1>0, <1>1, <1>2, <1>3, <2>1, <2>4, <3>1, LookedKept DEF DiskTypes
    <2> QED BY <2>3, <2>4
  <1>8. CASE LaunchAttach(t)
    <2>1. pc[t] = "attach" /\ held[t] \in RunId /\ UNCHANGED status
      BY <1>8 DEF LaunchAttach, disk, ThreadsHaveWork
    <2>2. \A q \in RunId : run'[q].sid = run[q].sid /\ run'[q].phase = run[q].phase
      BY <1>8, <2>1 DEF LaunchAttach, SlotTypes, Runs
    <2> QED BY <1>0, <1>1, <1>2, <1>3, <2>1, <2>2, LookedKept DEF Writing, KillPcs
  <1>9. CASE LaunchFails(t)
    <2>1. /\ pc[t] = "start" /\ held[t] \in RunId /\ run[held[t]].phase = "claimed"
          /\ UNCHANGED <<status, job>> /\ pc'[t] = "failed"
          /\ \A q \in RunId \ {held[t]} : run'[q] = run[q]
      BY <1>9 DEF LaunchFails, disk, local, Goto, ThreadTypes, ThreadsHaveWork, StartsAreClaimed, SlotTypes
    <2>2. job[t].sid = s => InCare(s)'
      BY <2>1 DEF InCare, Writing
    <2>3. \A q \in RunId : run[q].phase \in Working =>
            run'[q].phase \in Working /\ run'[q].sid = run[q].sid
      BY <2>1 DEF Working
    <2> QED BY <1>0, <1>1, <1>2, <1>3, <2>1, <2>2, <2>3, LookedKept
  <1>10. CASE LaunchFailed(t)
    <2>1. UNCHANGED run /\ status' = [status EXCEPT ![job[t].sid] = "Idle"]
      BY <1>10 DEF LaunchFailed, SetStatus, slots
    <2>2. CASE s = job[t].sid
      BY <2>1, <2>2 DEF Looked, DiskTypes
    <2>3. CASE s # job[t].sid
      BY <1>0, <1>1, <1>2, <1>3, <2>1, <2>3, LookedKept DEF DiskTypes
    <2> QED BY <2>2, <2>3
  <1> QED BY <1>4, <1>5, <1>6, <1>7, <1>8, <1>9, <1>10 DEF LaunchStep

LEMMA StopsLook ==
  ASSUME IInv, Owners, Minding, LookedAfter, NEW t \in Caller,
         KillStep(t) \/ KillAbort(t)
  PROVE  LookedAfter'
  <1> USE DEF IInv, TypeOK
  <1> SUFFICES ASSUME NEW s \in Session PROVE Looked(s)'
    BY DEF LookedAfter
  <1>0. Looked(s) /\ t \in Thread
    BY DEF LookedAfter, Thread
  <1>1. \A u \in Thread \ {t} : pc'[u] = pc[u] /\ job'[u] = job[u]
    BY <1>0 DEF KillStep, KillWait, KillFree, KillQueue, KillClear, KillMark, KillAbort, Finish, Goto,
                local, ThreadTypes
  <1>2. todo' = todo /\ pc[t] \in KillPcs
    BY DEF KillStep, KillWait, KillFree, KillQueue, KillClear, KillMark, KillAbort, Finish, local, KillPcs
  <1>3. pc[t] # "recover" /\ pc[t] \notin {"persist", "push", "popped"}
    BY <1>2 DEF KillPcs
  <1>4. CASE KillMark(t)
    <2>1. /\ UNCHANGED <<run, queue>> /\ status' = [status EXCEPT ![job[t].sid] = "Killed"]
      BY <1>4 DEF KillMark, SetStatus, slots
    <2>2. CASE s = job[t].sid
      BY <2>1, <2>2 DEF Looked, DiskTypes
    <2>3. CASE s # job[t].sid
      BY <1>0, <1>1, <1>2, <1>3, <2>1, <2>3, LookedKept DEF DiskTypes
    <2> QED BY <2>2, <2>3
  <1>5. CASE KillWait(t) \/ KillFree(t) \/ KillQueue(t) \/ KillClear(t) \/ KillAbort(t)
    <2>1. UNCHANGED <<job, status>> /\ pc'[t] \in KillPcs
      BY <1>0, <1>5 DEF KillWait, KillFree, KillQueue, KillClear, KillAbort, Goto, local, disk, KillPcs,
                  ThreadTypes
    <2>2. job[t].sid = s => InCare(s)'
      BY <1>0, <2>1 DEF InCare, Writing
    <2>3. CASE KillAbort(t)
      <3>1. held[t] \in RunId /\ pc[t] = "killwait" /\ run[held[t]].phase \in Working /\ queue' = queue
        BY <1>0, <2>3 DEF KillAbort, ThreadsHaveWork, waiting
      <3>2. run[held[t]].sid = job[t].sid
        BY <1>0, <3>1 DEF Minding, StopsKnow, Working
      <3>3. Stepped(held[t], "over")
        <4>1. handles' \in HandleMaps
          BY <2>3 DEF KillAbort, SlotTypes, HandleMaps
        <4> QED BY <2>3, <3>1, <4>1, MoveSteps DEF KillAbort, Phases, TaskOver
      <3>4. CASE job[t].sid = s
        BY <2>2, <3>4 DEF Looked
      <3>5. CASE job[t].sid # s
        <4>1. InCare(s) => InCare(s)'
          BY <1>0, <1>1, <3>2, <3>3, <3>5 DEF InCare, Writing, Stepped
        <4>2. InLine(s) => InLine(s)'
          BY <1>0, <1>1, <1>2, <1>3, <3>1, <3>5 DEF InLine, Thread
        <4> QED BY <1>0, <2>1, <4>1, <4>2 DEF Looked, CreatesStart
      <3> QED BY <3>4, <3>5
    <2>4. CASE KillQueue(t)
      <3>1. queue' = {e \in queue : e.job.sid # job[t].sid} /\ UNCHANGED run
        BY <2>4 DEF KillQueue, slots
      <3>2. CASE job[t].sid = s
        BY <2>2, <3>2 DEF Looked
      <3>3. CASE job[t].sid # s
        <4>1. InCare(s) => InCare(s)'
          BY <1>0, <1>1, <3>1, <3>3 DEF InCare, Writing
        <4>2. InLine(s) => InLine(s)'
          BY <1>0, <1>1, <1>2, <1>3, <3>1, <3>3 DEF InLine, Thread
        <4> QED BY <1>0, <2>1, <4>1, <4>2 DEF Looked, CreatesStart
      <3> QED BY <3>2, <3>3
    <2>5. CASE KillWait(t) \/ KillFree(t) \/ KillClear(t)
      <3>1. UNCHANGED <<run, queue>>
        BY <2>5 DEF KillWait, KillFree, KillClear, slots, waiting
      <3> QED BY <1>0, <1>1, <1>2, <1>3, <2>1, <2>2, <3>1, LookedKept
    <2> QED BY <1>5, <2>3, <2>4, <2>5
  <1> QED BY <1>4, <1>5 DEF KillStep

LEMMA PumpLooks ==
  ASSUME IInv, Minding, LookedAfter,
         \/ PumpWake \/ PumpScan \/ PumpFindsNone \/ PumpCheck \/ \E e \in queue : PumpPop(e)
         \/ RecoverList \/ RecoverDone \/ \E s \in Session : RecoverOne(s)
  PROVE  LookedAfter'
  <1> USE DEF IInv, TypeOK
  <1> SUFFICES ASSUME NEW s \in Session PROVE Looked(s)'
    BY DEF LookedAfter
  <1>0. Looked(s) /\ Pump \in Thread
    BY DEF LookedAfter, Thread
  <1>1. UNCHANGED run /\ \A u \in Thread \ {Pump} : pc'[u] = pc[u] /\ job'[u] = job[u]
    BY <1>0 DEF PumpWake, PumpScan, PumpFindsNone, PumpCheck, PumpPop, RecoverList, RecoverDone,
                RecoverOne, Finish, Goto, local, slots, ThreadTypes
  <1>2. pc[Pump] \in PumpPcs
    BY DEF PumpWake, PumpScan, PumpFindsNone, PumpCheck, PumpPop, RecoverList, RecoverDone,
           RecoverOne, PumpPcs
  <1>3. ~ Writing(Pump)
    BY <1>2 DEF Writing, KillPcs, PumpPcs
  <1>4. InCare(s) => InCare(s)'
    BY <1>1, <1>3 DEF InCare, Writing
  <1>5. CASE PumpWake \/ PumpScan \/ PumpFindsNone
    <2>1. /\ pc[Pump] \in {"sleep", "scan", "pop"} /\ UNCHANGED <<status, queue, todo>>
      BY <1>5 DEF PumpWake, PumpScan, PumpFindsNone, disk, waiting, local
    <2> QED BY <1>0, <1>1, <1>3, <2>1, LookedKept
  <1>6. CASE PumpCheck
    <2>1. pc[Pump] = "popped" /\ UNCHANGED <<status, queue, todo>>
      BY <1>6 DEF PumpCheck, disk, waiting, local, Finish
    <2>2. CASE job[Pump].sid # s
      BY <1>0, <1>1, <1>3, <2>1, <2>2, LookedKept
    <2>3. CASE job[Pump].sid = s /\ status[s] # "Killed"
      <3>1. pc'[Pump] = "launch" /\ job' = job
        BY <1>0, <1>6, <2>3 DEF PumpCheck, Goto, local, ThreadTypes
      <3>2. InCare(s)'
        BY <1>0, <2>3, <3>1 DEF InCare, Writing
      <3> QED BY <3>2 DEF Looked, CreatesStart
    <2>4. CASE status[s] = "Killed"
      BY <2>1, <2>4 DEF Looked
    <2> QED BY <2>2, <2>3, <2>4
  <1>7. CASE \E e \in queue : PumpPop(e)
    <2>1. PICK e \in queue : PumpPop(e)
      BY <1>7
    <2>2. /\ pc[Pump] = "pop" /\ UNCHANGED <<status, todo>> /\ queue' = queue \ {e}
          /\ pc'[Pump] = "popped" /\ job'[Pump] = e.job
      BY <1>0, <2>1 DEF PumpPop, Goto, disk, ThreadTypes
    <2>3. InLine(s) => InLine(s)'
      <3>1. CASE e.job.sid = s
        BY <1>0, <2>2, <3>1 DEF InLine
      <3>2. CASE e.job.sid # s
        BY <1>1, <2>2, <3>2 DEF InLine
      <3> QED BY <3>1, <3>2
    <2> QED BY <1>0, <1>4, <2>2, <2>3 DEF Looked, CreatesStart
  <1>8. CASE RecoverList
    <2>1. /\ pc[Pump] = "recover" /\ UNCHANGED <<status, queue>>
          /\ todo' = {x \in Session : status[x] = "Queued"}
      BY <1>8 DEF RecoverList, disk, waiting
    <2>2. status'[s] = "Queued" => InLine(s)'
      BY <2>1 DEF InLine
    <2> QED BY <1>0, <1>4, <2>1, <2>2 DEF Looked, CreatesStart
  <1>9. CASE \E x \in Session : RecoverOne(x)
    <2>1. PICK x \in Session : RecoverOne(x)
      BY <1>9
    <2>2. /\ todo' = todo \ {x} /\ UNCHANGED <<pc, job>> /\ pc[Pump] = "recovering"
          /\ queue \subseteq queue'
      BY <2>1 DEF RecoverOne, PushBack
    <2>3. CASE sidecar[x] # NoJob
      <3>1. PICK n : queue' = queue \cup {[place |-> n, job |-> sidecar[x]]}
        BY <2>1, <2>3 DEF RecoverOne, PushBack
      <3>2. [place |-> n, job |-> sidecar[x]] \in queue' /\ sidecar[x].sid = x /\ UNCHANGED status
        BY <2>1, <2>3, <3>1 DEF RecoverOne, Minding, CopiesAreOwn
      <3>3. s = x => InLine(s)'
        <4>1. s = x => [place |-> n, job |-> sidecar[x]].job.sid = s
          BY <3>2
        <4> QED BY <3>2, <4>1 DEF InLine
      <3>4. s # x => (InLine(s) => InLine(s)')
        BY <2>2 DEF InLine
      <3> QED BY <1>0, <1>4, <3>2, <3>3, <3>4 DEF Looked, CreatesStart
    <2>4. CASE sidecar[x] = NoJob
      <3>1. status' = [status EXCEPT ![x] = "Idle"]
        BY <2>1, <2>4 DEF RecoverOne, SetStatus
      <3>2. CASE s = x
        BY <3>1, <3>2 DEF Looked, DiskTypes
      <3>3. CASE s # x
        <4>1. (InLine(s) => InLine(s)') /\ status'[s] = status[s]
          BY <2>2, <3>1, <3>3 DEF InLine, DiskTypes
        <4> QED BY <1>0, <1>4, <4>1 DEF Looked, CreatesStart
      <3> QED BY <3>2, <3>3
    <2> QED BY <2>3, <2>4
  <1>10. CASE RecoverDone
    <2>1. pc[Pump] = "recovering" /\ UNCHANGED <<status, queue, todo>>
      BY <1>10 DEF RecoverDone, disk, local
    <2> QED BY <1>0, <1>1, <1>3, <2>1, LookedKept
  <1> QED BY <1>5, <1>6, <1>7, <1>8, <1>9, <1>10

\* A step of a run that goes on, is past its end, or writes the status it settles for.
LEMMA RunLooks ==
  ASSUME IInv, LookedAfter, NEW r \in RunId, NEW p \in Working \cup TaskOver, Stepped(r, p),
         UNCHANGED <<pc, job, queue, todo>>,
         \/ /\ status' = status \/ status' = [status EXCEPT ![run[r].sid] = "Active"]
            /\ p \in Working
         \/ UNCHANGED status /\ run[r].phase \notin Working
         \/ \E st \in Statuses \ {"Active", "Queued"} :
              status' = [status EXCEPT ![run[r].sid] = st]
  PROVE  LookedAfter'
  <1> USE DEF IInv, TypeOK
  <1> SUFFICES ASSUME NEW s \in Session PROVE Looked(s)'
    BY DEF LookedAfter
  <1>0. Looked(s)
    BY DEF LookedAfter
  <1>1. InLine(s) => InLine(s)'
    BY DEF InLine
  <1>2. run[r].phase \in Working /\ run[r].sid = s => InCare(s)
    BY DEF InCare
  <1>3. p \in Working /\ run[r].sid = s => InCare(s)'
    BY DEF InCare, Stepped
  <1>4. ~ (run[r].phase \in Working /\ run[r].sid = s) => (InCare(s) => InCare(s)')
    BY DEF InCare, Stepped, Writing
  <1>5. CASE /\ status' = status \/ status' = [status EXCEPT ![run[r].sid] = "Active"]
             /\ p \in Working
    <2>1. InCare(s) => InCare(s)'
      BY <1>3, <1>4, <1>5
    <2>2. status'[s] = status[s] \/ run[r].sid = s
      BY <1>5 DEF DiskTypes
    <2> QED BY <1>0, <1>1, <1>3, <1>5, <2>1, <2>2 DEF Looked, CreatesStart
  <1>6. CASE UNCHANGED status /\ run[r].phase \notin Working
    BY <1>0, <1>1, <1>4, <1>6 DEF Looked, CreatesStart
  <1>7. CASE \E st \in Statuses \ {"Active", "Queued"} :
               status' = [status EXCEPT ![run[r].sid] = st]
    <2>1. CASE run[r].sid = s
      BY <1>7, <2>1 DEF Looked, DiskTypes
    <2>2. CASE run[r].sid # s
      BY <1>0, <1>1, <1>4, <1>7, <2>2 DEF Looked, CreatesStart, DiskTypes
    <2> QED BY <2>1, <2>2
  <1> QED BY <1>5, <1>6, <1>7

LEMMA RunsLook ==
  ASSUME IInv, Minding, LookedAfter, NEW r \in RunId,
         RunStep(r) \/ TurnEnds(r) \/ BudgetHit(r), ~ EndNotify(r)
  PROVE  LookedAfter'
  <1> USE DEF IInv, TypeOK
  <1>1. run[r].phase # "none" => run[r].sid \in Session
    BY DEF RunsHaveSessions
  <1>2. handles \in HandleMaps /\ Freed(run[r].sid, r) \in HandleMaps
    BY FreedType DEF SlotTypes, HandleMaps
  <1>3. UNCHANGED <<pc, job, queue, todo>>
    <2>1. CASE RunStep(r)
      BY <2>1 DEF RunStep, Begin, StartTurn, LastLook, Release, EndRelease, EndRead, EndRepair,
                  waiting, local
    <2>2. CASE TurnEnds(r) \/ BudgetHit(r)
      BY <2>2 DEF TurnEnds, TurnCompleted, TurnStops, BudgetHit, waiting, local
    <2> QED BY <2>1, <2>2
  <1>4. CASE Begin(r)
    <2>1. Stepped(r, "ready") \/ Stepped(r, "turn")
      BY <1>1, <1>2, <1>4, TakesInputSteps, MoveSteps
         DEF Begin, DiskTypes, WaitTypes, MarkMaps, Phases, Working
    <2>2. status' = [status EXCEPT ![run[r].sid] = "Active"]
      BY <1>4 DEF Begin, SetStatus
    <2> QED BY <1>3, <2>1, <2>2, RunLooks DEF Working
  <1>5. CASE StartTurn(r)
    BY <1>2, <1>3, <1>5, MoveSteps, RunLooks DEF StartTurn, disk, Phases, Working
  <1>6. CASE TurnCompleted(r)
    <2>1. Stepped(r, "ready") \/ Stepped(r, "settling") \/ Stepped(r, "looking")
      BY <1>1, <1>2, <1>6, GoOnSteps, SettlesSteps, MoveSteps
         DEF TurnCompleted, DiskTypes, WaitTypes, MarkMaps, Statuses, Phases, Working
    <2> QED BY <1>3, <1>6, <2>1, RunLooks DEF TurnCompleted, disk, Working
  <1>7. \A want \in Statuses \ {"Active", "Queued"} :
          Settled(r, want) \in Statuses \ {"Active", "Queued"}
    BY DEF Settled, Statuses
  <1>8. CASE LastLook(r)
    <2>1. CASE Fresh(r)
      <3>1. Stepped(r, "ready") \/ Stepped(r, "settling")
        BY <1>1, <1>2, <1>8, <2>1, GoOnSteps DEF LastLook, DiskTypes, WaitTypes, MarkMaps, Working
      <3> QED BY <1>3, <1>8, <2>1, <3>1, RunLooks DEF LastLook, Working
    <2>2. CASE ~ Fresh(r)
      <3>1. Stepped(r, "over")
        BY <1>8, <2>2, OverReads DEF LastLook
      <3>2. status' = [status EXCEPT ![run[r].sid] = Settled(r, "Done")]
        BY <1>8, <2>2 DEF LastLook, SetStatus
      <3> QED BY <1>3, <1>7, <3>1, <3>2, RunLooks DEF Statuses, TaskOver
    <2> QED BY <2>1, <2>2
  <1>9. CASE (\E o \in AllOutcomes : TurnStops(r, o)) \/ BudgetHit(r)
    <2>1. Stepped(r, "settling") /\ UNCHANGED status
      BY <1>2, <1>9, SettlesSteps DEF TurnStops, BudgetHit, Statuses, disk
    <2> QED BY <1>3, <2>1, RunLooks DEF Working
  <1>10. CASE Release(r)
    <2>1. Stepped(r, "over")
      BY <1>2, <1>10, MoveSteps DEF Release, Phases, TaskOver
    <2>2. run[r].want \in Statuses \ {"Active", "Queued"}
      BY <1>10 DEF Release, Minding, SettlesFor, SlotTypes, Runs
    <2>3. status' = [status EXCEPT ![run[r].sid] = Settled(r, run[r].want)]
      BY <1>10 DEF Release, SetStatus
    <2> QED BY <1>3, <1>7, <2>1, <2>2, <2>3, RunLooks DEF TaskOver
  <1>11. CASE EndRelease(r) \/ EndRead(r)
    <2>1. \E p \in TaskOver : Stepped(r, p)
      BY <1>2, <1>11, MoveSteps DEF EndRelease, EndRead, Phases, TaskOver
    <2> QED BY <1>3, <1>11, <2>1, RunLooks DEF EndRelease, EndRead, disk, Working, TaskOver
  <1>12. CASE EndRepair(r)
    <2>1. Stepped(r, "notify") /\ status' = [status EXCEPT ![run[r].sid] = "Idle"]
      BY <1>2, <1>12, MoveSteps DEF EndRepair, SetStatus, Phases, TaskOver
    <2>2. "Idle" \in Statuses \ {"Active", "Queued"}
      BY DEF Statuses
    <2> QED BY <1>3, <2>1, <2>2, RunLooks DEF TaskOver
  <1> QED BY <1>4, <1>5, <1>6, <1>8, <1>9, <1>10, <1>11, <1>12 DEF RunStep, TurnEnds

LEMMA LookedKeeps ==
  ASSUME IInv, Owners, Launchers, Minding, LookedAfter, NothingDies, Next PROVE LookedAfter'
  <1>0. Caller \subseteq Thread /\ Pump \in Thread /\ ClaimsHaveStarts
    BY DEF Thread, Launchers, NothingDies
  <1>1. CASE \E t \in Caller : CallBegins(t) \/ CallStep(t)
    BY <1>0, <1>1, BeginsLook, CallsLook, LaunchesLook, StopsLook DEF CallStep
  <1>2. CASE PumpStep
    BY <1>0, <1>2, PumpLooks, CallsLook, LaunchesLook DEF PumpStep
  <1>3. ASSUME NEW r \in RunId, EndNotify(r) PROVE LookedAfter'
    <2>1. /\ run[r].phase = "notify" /\ run' = [run EXCEPT ![r] = NoRun]
          /\ UNCHANGED <<status, pc, job, queue, todo>>
      BY <1>3 DEF EndNotify, local, disk
    <2> SUFFICES ASSUME NEW s \in Session PROVE Looked(s)'
      BY DEF LookedAfter
    <2>2. InLine(s) => InLine(s)'
      BY <2>1 DEF InLine
    <2>3. InCare(s) => InCare(s)'
      BY <2>1 DEF InCare, Writing, Working, IInv, TypeOK, SlotTypes
    <2> QED BY <2>1, <2>2, <2>3 DEF LookedAfter, Looked, CreatesStart
  <1>4. CASE \E r \in RunId : RunStep(r) \/ TurnEnds(r)
    BY <1>3, <1>4, RunsLook
  <1>5. CASE Fault
    <2>1. CASE Crash
      <3> SUFFICES ASSUME NEW s \in Session PROVE Looked(s)'
        BY DEF LookedAfter
      <3>1. status'[s] # "Active" /\ pc'[Pump] = "recover"
        BY <1>0, <2>1 DEF Crash
      <3> QED BY <3>1 DEF Looked, InLine
    <2>2. CASE \E t \in Thread : LaunchFails(t)
      BY <1>0, <2>2, LaunchesLook
    <2>3. CASE \E t \in Caller : KillAbort(t) \/ Dropped(t)
      BY <2>3, StopsLook DEF NothingDies, Dropped
    <2>4. CASE \E r \in RunId : RunDies(r) \/ BudgetHit(r)
      <3>1. PICK r \in RunId : BudgetHit(r)
        BY <2>4 DEF NothingDies, RunDies
      <3>2. ~ EndNotify(r)
        BY <3>1 DEF BudgetHit, EndNotify
      <3> QED BY <3>1, <3>2, RunsLook
    <2> QED BY <1>5, <2>1, <2>2, <2>3, <2>4 DEF Fault
  <1> QED BY <1>1, <1>2, <1>4, <1>5 DEF Next

LEMMA LookedStarts == Init => LookedAfter
  BY ExistingAssumption DEF Init, LookedAfter, Looked, Statuses

\* While nothing is dropped and no run dies, every session that waits in line or is
\* reset, started, stopped or settled is in the care of a thread or of a run.
THEOREM SessionsLookedAfter ==
  ASSUME NothingDies PROVE Spec => [](Minding /\ LookedAfter)
  <1> DEFINE Inv == IInv /\ Owners /\ Launchers /\ Minding /\ LookedAfter
  <1>1. Init => Inv
    BY InitHolds, OwnersStart, MindingStarts, LookedStarts
  <1>2. Inv /\ IInv' /\ [Next]_vars => Inv'
    <2> SUFFICES ASSUME Inv, IInv', [Next]_vars PROVE Inv'
      OBVIOUS
    <2>1. CASE Next
      BY <2>1, OwnersKeep, MindingKept, LookedKeeps
    <2>2. CASE UNCHANGED vars
      <3>1. Minding' /\ LookedAfter'
        BY <2>2 DEF vars, disk, slots, waiting, local, bounds, Minding, StopsKnow, OverIsStopped,
             SettlesFor, CopiesAreOwn, OnlySpawnCreates, LookedAfter, Looked, InCare, InLine, Writing,
             CreatesStart
      <3> QED BY <3>1, OwnersKeep
    <2> QED BY <2>1, <2>2
  <1>3. Inv => Minding /\ LookedAfter
    OBVIOUS
  <1> QED BY <1>1, <1>2, <1>3, Inductive, PTL DEF Spec

\* A session that reads Queued is in the queue or in somebody's hands, through a kill,
\* a failed launch, an abort, a crash and the recovery of the queue: send_as and
\* enqueue write the status before the entry is pushed (queue.rs).
THEOREM QueuedMoves == ASSUME NothingDies PROVE Spec => []QueuedIsNotStuck
  <1>1. LookedAfter => QueuedIsNotStuck
    BY DEF LookedAfter, Looked, QueuedIsNotStuck, InHand, InCare, InLine, Working
  <1> QED BY <1>1, SessionsLookedAfter, PTL

\* A session that reads Active has a run, or a thread that will still write its status:
\* "running" is never shown of a session at rest (launch.rs, run.rs).
THEOREM ActiveMoves ==
  ASSUME NothingDies, CreatesStart PROVE Spec => []ActiveIsNotStuck
  <1>1. LookedAfter => ActiveIsNotStuck
    BY DEF LookedAfter, Looked, ActiveIsNotStuck, InHand, InCare, Working
  <1> QED BY <1>1, SessionsLookedAfter, PTL

(***************************************************************************)
(* A session that was stopped stays Killed                                 *)
(***************************************************************************)
\* The calls come one at a time, and what they start does not wait in a queue; no call
\* is dropped, and no run dies or fails on its own.
OneAtATime ==
  /\ \A t, u \in Caller : t = u
  /\ ~ QueueWhenBusy
  /\ NothingDies
  /\ "failed" \notin Outcomes

NoneWaits ==
  /\ queue = {} /\ todo = {}
  /\ pc[Pump] \in {"sleep", "scan", "pop", "recover", "recovering"}
  /\ \A s \in Session : status[s] # "Queued"
  /\ \A t \in Caller : pc[t] \notin {"queueing", "persist", "push", "popped"}

\* Every run that ends has settled, or was aborted by a kill.
NoRepairs ==
  \A r \in RunId :
    /\ run[r].phase \notin {"repair", "repairing"}
    /\ run[r].phase = "settling" => run[r].done
    /\ run[r].phase = "over" => run[r].done \/ run[r].cancelled

\* A run that was stopped and works still is waited for.
StopsWait ==
  \A r \in RunId : AtWork(r) /\ run[r].cancelled =>
    run[r].phase \in Working /\ \E t \in Caller : pc[t] = "killwait" /\ held[t] = r

\* A handle has its task, or is in the hands of a launch or a kill.
HandlesAttached ==
  \A s \in Session : handles[s] # None /\ ~ run[handles[s]].attached =>
    \E t \in Caller : /\ pc[t] \in {"start", "attach", "killwait", "killfree"}
                      /\ held[t] = handles[s]

\* A kill that has freed the slot finds it free to its end.
StopsFree ==
  \A t \in Caller :
    /\ pc[t] \in {"killqueue", "killclear", "killmark"} => handles[job[t].sid] = None
    /\ pc[t] \in {"killwait", "killfree"} => handles[job[t].sid] \in {None, held[t]}

AttachesKnow ==
  \A t \in Caller : pc[t] = "attach" =>
    run[held[t]].phase = "none" \/ run[held[t]].sid = job[t].sid

\* A session at rest reads Killed, only a kill is at it, and no run of it is about to
\* begin.
AtRest ==
  \A s \in Session : halted[s] =>
    /\ status[s] = "Killed"
    /\ \A t \in Caller : job[t].sid = s => pc[t] \in KillPcs
    /\ \A r \in RunId : run[r].sid = s => run[r].phase \notin {"claimed", "spawned"}

Resting ==
  NoneWaits /\ NoRepairs /\ StopsWait /\ HandlesAttached /\ StopsFree /\ AttachesKnow /\ AtRest

\* A step of a run that was there before: it goes on, settles, or ends settled.
LEMMA RunRests ==
  ASSUME IInv, Owners, Resting, NEW r \in RunId, NEW p \in Working \cup {"over", "notify"},
         Stepped(r, p), run'[r].attached = run[r].attached, p # "spawned",
         run[r].phase \in Working \cup {"over"},
         p \in Working => run[r].phase \in Working,
         p \in {"settling", "over"} => run'[r].done,
         handles' = handles \/ handles' = Freed(run[r].sid, r),
         UNCHANGED <<pc, held, job, queue, todo, halted>>,
         \A s \in Session : status'[s] = status[s] \/
           (status'[s] # "Queued" /\ (halted[s] => status'[s] = "Killed"))
  PROVE  Resting'
  <1> USE DEF Resting
  <1>1. \A s \in Session : handles'[s] # None => handles'[s] = handles[s] /\ handles[s] \in RunId
    BY DEF Freed, IInv, TypeOK, SlotTypes
  <1>2. NoneWaits'
    BY DEF NoneWaits
  <1>3. NoRepairs'
    BY DEF NoRepairs, Stepped, Working
  <1>4. StopsWait'
    BY DEF StopsWait, Stepped, AtWork, Working
  <1>5. \A q \in RunId : run'[q].attached = run[q].attached
    BY DEF Stepped
  <1>6. HandlesAttached'
    BY <1>1, <1>5 DEF HandlesAttached
  <1>7. StopsFree'
    BY <1>1, ThreadAssumption DEF StopsFree, IInv, ThreadsHaveWork, Thread, KillPcs
  <1>8. AttachesKnow'
    <2>1. \A t \in Caller : pc[t] = "attach" => held[t] \in RunId
      BY DEF IInv, ThreadsHaveWork, Thread
    <2> QED BY <2>1 DEF AttachesKnow, Stepped, Working
  <1>9. AtRest'
    <2> SUFFICES ASSUME NEW s \in Session, halted[s]
                 PROVE  /\ status'[s] = "Killed"
                        /\ \A t \in Caller : job[t].sid = s => pc[t] \in KillPcs
                        /\ \A q \in RunId : run'[q].sid = s => run'[q].phase \notin {"claimed", "spawned"}
      BY DEF AtRest
    <2>1. status'[s] = "Killed" /\ \A t \in Caller : job[t].sid = s => pc[t] \in KillPcs
      BY DEF AtRest
    <2>2. \A q \in RunId : run'[q].sid = s => run'[q].phase \notin {"claimed", "spawned"}
      BY DEF AtRest, Stepped, Working
    <2> QED BY <2>1, <2>2
  <1> QED BY <1>2, <1>3, <1>4, <1>6, <1>7, <1>8, <1>9

LEMMA RunsRest ==
  ASSUME OneAtATime, IInv, Owners, Minding, Resting, NEW r \in RunId,
         RunStep(r) \/ TurnEnds(r) \/ BudgetHit(r), ~ EndNotify(r)
  PROVE  Resting'
  <1> USE DEF IInv, TypeOK
  <1>1. run[r].phase # "none" => run[r].sid \in Session
    BY DEF RunsHaveSessions
  <1>2. run \in [RunId -> Runs] /\ run[r] \in Runs
    BY DEF SlotTypes
  <1>3. UNCHANGED <<pc, held, job, queue, todo, halted>>
    <2>1. CASE RunStep(r)
      BY <2>1 DEF RunStep, Begin, StartTurn, LastLook, Release, EndRelease, EndRead, EndRepair,
                  waiting, local, history, Forgive
    <2>2. CASE TurnEnds(r) \/ BudgetHit(r)
      BY <2>2 DEF TurnEnds, TurnCompleted, TurnStops, BudgetHit, waiting, local, history
    <2> QED BY <2>1, <2>2
  <1>5. ASSUME NEW p \in Phases, Move(r, p)
        PROVE  /\ Stepped(r, p) /\ run'[r].attached = run[r].attached
               /\ run'[r].done = run[r].done
    BY <1>2, <1>5 DEF Move, Stepped, Runs
  <1>6. ASSUME NEW want, NEW done, Settles(r, want, done)
        PROVE  /\ Stepped(r, "settling") /\ run'[r].attached = run[r].attached
               /\ run'[r].done = done
    BY <1>2, <1>6 DEF Settles, Stepped, Runs
  <1>7. ASSUME TakesInput(r)
        PROVE  Stepped(r, "ready") /\ run'[r].attached = run[r].attached
    BY <1>2, <1>7 DEF TakesInput, Stepped, Runs
  <1>8. ASSUME GoOn(r)
        PROVE  /\ run'[r].attached = run[r].attached
               /\ \/ Stepped(r, "ready")
                  \/ Stepped(r, "settling") /\ run'[r].done
    <2>1. CASE run[r].turns >= MaxTurns
      BY <1>6, <1>8, <2>1 DEF GoOn
    <2>2. CASE ~ run[r].turns >= MaxTurns
      <3> DEFINE R == [run[r] EXCEPT !.phase = "ready", !.turns = run[r].turns + 1,
                                     !.lo = run[r].seen, !.hi = sent[run[r].sid],
                                     !.seen = sent[run[r].sid]]
      <3>1. /\ R.phase = "ready" /\ R.sid = run[r].sid /\ R.cancelled = run[r].cancelled
            /\ R.attached = run[r].attached
        BY <1>2 DEF Runs
      <3>2. run' = [run EXCEPT ![r] = R]
        BY <1>8, <2>2 DEF GoOn
      <3> HIDE DEF R
      <3> QED BY <1>2, <3>1, <3>2 DEF Stepped
    <2> QED BY <2>1, <2>2
  <1>9. CASE Begin(r)
    <2>1. run[r].phase = "spawned" /\ status' = [status EXCEPT ![run[r].sid] = "Active"] /\ UNCHANGED handles
      BY <1>9 DEF Begin, SetStatus
    <2>2. \E p \in {"ready", "turn"} : Stepped(r, p) /\ run'[r].attached = run[r].attached
      BY <1>5, <1>7, <1>9 DEF Begin, Phases, Working
    <2>3. \A s \in Session : status'[s] = status[s] \/ (status'[s] = "Active" /\ ~ halted[s])
      BY <2>1 DEF Resting, AtRest, DiskTypes
    <2> QED BY <1>3, <2>1, <2>2, <2>3, RunRests DEF Working
  <1>10. CASE StartTurn(r)
    <2>1. /\ Stepped(r, "turn") /\ run'[r].attached = run[r].attached /\ run[r].phase = "ready"
          /\ UNCHANGED <<status, handles>>
      BY <1>5, <1>10 DEF StartTurn, disk, Phases, Working
    <2> QED BY <1>3, <2>1, RunRests DEF Working
  <1>11. CASE TurnCompleted(r)
    <2>1. /\ run'[r].attached = run[r].attached
          /\ \/ Stepped(r, "ready")
             \/ Stepped(r, "looking")
             \/ Stepped(r, "settling") /\ run'[r].done
      BY <1>5, <1>6, <1>8, <1>11 DEF TurnCompleted, Phases, Working
    <2>2. run[r].phase = "turn" /\ UNCHANGED <<status, handles>>
      BY <1>11 DEF TurnCompleted, disk
    <2> QED BY <1>3, <2>1, <2>2, RunRests DEF Working
  <1>12. CASE LastLook(r)
    <2>1. CASE Fresh(r)
      <3>0. GoOn(r)
        BY <1>12, <2>1 DEF LastLook
      <3>1. /\ run'[r].attached = run[r].attached
            /\ \/ Stepped(r, "ready")
               \/ Stepped(r, "settling") /\ run'[r].done
        BY <1>8, <3>0
      <3>2. run[r].phase = "looking" /\ UNCHANGED <<status, handles>>
        BY <1>12, <2>1 DEF LastLook
      <3> QED BY <1>3, <3>1, <3>2, RunRests DEF Working
    <2>2. CASE ~ Fresh(r)
      <3>1. Stepped(r, "over") /\ run'[r].attached = run[r].attached /\ run'[r].done
        <4>1. run' = [run EXCEPT ![r] = [@ EXCEPT !.phase = "over", !.done = TRUE]]
          BY <1>12, <2>2 DEF LastLook
        <4> QED BY <1>2, <4>1 DEF Stepped, Runs
      <3>2. /\ run[r].phase = "looking" /\ handles' = Freed(run[r].sid, r)
            /\ status' = [status EXCEPT ![run[r].sid] = Settled(r, "Done")]
        BY <1>12, <2>2 DEF LastLook, SetStatus
      <3>3. \A s \in Session : status'[s] = status[s] \/
              (status'[s] # "Queued" /\ (halted[s] => status'[s] = "Killed"))
        BY <3>2 DEF Settled, Resting, AtRest, DiskTypes
      <3> QED BY <1>3, <3>1, <3>2, <3>3, RunRests DEF Working
    <2> QED BY <2>1, <2>2
  <1>13. CASE (\E o \in AllOutcomes : TurnStops(r, o)) \/ BudgetHit(r)
    <2>1. Stepped(r, "settling") /\ run'[r].attached = run[r].attached /\ run'[r].done
      BY <1>6, <1>13, ChoiceAssumption DEF TurnStops, BudgetHit, OneAtATime, AllOutcomes
    <2>2. run[r].phase \in {"turn", "ready"} /\ UNCHANGED <<status, handles>>
      BY <1>13 DEF TurnStops, BudgetHit, disk
    <2> QED BY <1>3, <2>1, <2>2, RunRests DEF Working
  <1>14. CASE Release(r)
    <2>1. /\ run[r].phase = "settling" /\ handles' = Freed(run[r].sid, r)
          /\ status' = [status EXCEPT ![run[r].sid] = Settled(r, run[r].want)]
      BY <1>14 DEF Release, SetStatus
    <2>2. Stepped(r, "over") /\ run'[r].attached = run[r].attached /\ run'[r].done
      BY <1>5, <1>14, <2>1 DEF Release, Phases, TaskOver, Resting, NoRepairs
    <2>3. \A s \in Session : status'[s] = status[s] \/
            (status'[s] # "Queued" /\ (halted[s] => status'[s] = "Killed"))
      BY <2>1 DEF Settled, Resting, AtRest, DiskTypes, Minding, SettlesFor
    <2> QED BY <1>3, <2>1, <2>2, <2>3, RunRests DEF Working
  <1>15. CASE EndRelease(r)
    <2>1. /\ run[r].phase = "over" /\ handles' = Freed(run[r].sid, r) /\ UNCHANGED status
      BY <1>15 DEF EndRelease, disk
    <2>2. Stepped(r, "notify") /\ run'[r].attached = run[r].attached
      BY <1>5, <1>15, <2>1 DEF EndRelease, Phases, TaskOver, Resting, NoRepairs
    <2> QED BY <1>3, <2>1, <2>2, RunRests DEF Working
  <1>16. ~ EndRead(r) /\ ~ EndRepair(r)
    BY DEF EndRead, EndRepair, Resting, NoRepairs
  <1> QED BY <1>9, <1>10, <1>11, <1>12, <1>13, <1>14, <1>15, <1>16 DEF RunStep, TurnEnds

\* A step of the one caller: no other thread moves but the pump, which launches nothing.
LEMMA CallerAlone ==
  ASSUME OneAtATime, IInv, Owners, Launchers, Resting, NEW t \in Caller
  PROVE  /\ t \in Thread /\ \A u \in Caller : u = t
         /\ pc[t] # "start" => \A s \in Session :
              handles[s] # None => run[handles[s]].phase # "claimed"
         /\ pc[t] \notin {"start", "attach", "killwait", "killfree"} =>
              \A s \in Session : handles[s] # None => run[handles[s]].attached
         /\ pc[t] # "killwait" =>
              \A r \in RunId : ~ (AtWork(r) /\ run[r].cancelled)
  <1>1. t \in Thread /\ \A u \in Caller : u = t
    BY DEF Thread, OneAtATime
  <1>2. ASSUME pc[t] # "start", NEW s \in Session, handles[s] # None
        PROVE  run[handles[s]].phase # "claimed"
    <2>1. pc[Pump] # "start"
      BY DEF Resting, NoneWaits
    <2> QED BY <1>1, <1>2, <2>1
           DEF Launchers, ClaimsHaveStarts, Startings, Thread, OneAtATime, NothingDies
  <1> QED BY <1>1, <1>2 DEF Resting, HandlesAttached, StopsWait

\* The steps of the caller that move no run, and are none of a kill.
LEMMA QuietRests ==
  ASSUME OneAtATime, IInv, Owners, Launchers, Resting, NEW t \in Caller, UNCHANGED run,
         handles' = handles \/ handles' = Reaped,
         \A u \in Thread \ {t} : pc'[u] = pc[u] /\ job'[u] = job[u] /\ held'[u] = held[u],
         pc[t] \notin {"start", "attach", "killwait", "killfree"},
         pc'[t] \notin KillPcs \cup {"queueing", "persist", "push", "popped", "attach"},
         UNCHANGED <<queue, todo>>,
         \A s \in Session : halted'[s] => halted[s] /\ job'[t].sid # s /\ status'[s] = status[s],
         \A s \in Session : status'[s] = status[s] \/ status'[s] # "Queued"
  PROVE  Resting'
  <1> USE DEF Resting
  <1>0. /\ t \in Thread /\ \A u \in Caller : u = t
        /\ \A s \in Session : handles[s] # None => run[handles[s]].attached
        /\ \A r \in RunId : ~ (AtWork(r) /\ run[r].cancelled)
    BY CallerAlone DEF KillPcs
  <1>1. NoneWaits'
    BY <1>0, ThreadAssumption DEF NoneWaits, Thread
  <1>2. NoRepairs' /\ StopsWait'
    BY <1>0 DEF NoRepairs, StopsWait, AtWork
  <1>3. HandlesAttached'
    BY <1>0 DEF HandlesAttached, Reaped
  <1>4. StopsFree' /\ AttachesKnow'
    BY <1>0 DEF StopsFree, AttachesKnow, KillPcs
  <1>5. AtRest'
    BY <1>0 DEF AtRest
  <1> QED BY <1>1, <1>2, <1>3, <1>4, <1>5

LEMMA CallsRest ==
  ASSUME OneAtATime, IInv, Owners, Launchers, Resting, NEW t \in Caller,
         \/ SendCheck(t) \/ Count(t) \/ Unstaff(t) \/ EnqueueStep(t)
         \/ LaunchClear(t) \/ LoseClaim(t) \/ LaunchFailed(t)
         \/ \E s \in Session : Create(t, s)
  PROVE  Resting'
  <1> USE DEF IInv, TypeOK, ThreadTypes
  <1>0. t \in Thread /\ t # Pump
    BY ThreadAssumption DEF Thread
  <1>1. ~ EnqueueStep(t)
    BY DEF EnqueueStep, MarkQueued, Persist, Push, Resting, NoneWaits
  <1>2. /\ pc[t] \in {"check", "checkActive", "count", "unstaff", "launch", "claim", "failed",
                      "create", "createFull"}
        /\ UNCHANGED <<run, queue, todo, halted>>
    BY <1>1 DEF SendCheck, Count, Unstaff, LaunchClear, LoseClaim, LaunchFailed, Create, slots, waiting,
           history, local, Finish
  <1>3. /\ handles' = handles \/ handles' = Reaped
        /\ \A u \in Thread \ {t} : pc'[u] = pc[u] /\ job'[u] = job[u] /\ held'[u] = held[u]
    BY <1>0, <1>1 DEF SendCheck, Count, Unstaff, LaunchClear, LoseClaim, LaunchFailed, Create, slots,
                Goto, Finish, local
  <1>4. pc'[t] \in {"idle", "count", "launch", "unstaff", "claim"}
    BY <1>0, <1>1 DEF SendCheck, Count, Unstaff, LaunchClear, LoseClaim, LaunchFailed, Create,
                Goto, Finish, local, OneAtATime
  <1>5. \A s \in Session : halted[s] => job[t].sid # s /\ status[s] = "Killed"
    BY <1>2 DEF Resting, AtRest, KillPcs
  <1>6. CASE SendCheck(t) \/ Count(t) \/ Unstaff(t) \/ LaunchClear(t) \/ LoseClaim(t) \/ LaunchFailed(t)
    <2>1. job'[t] = job[t] \/ job'[t] = NoJob
      BY <1>0, <1>6 DEF SendCheck, Count, Unstaff, LaunchClear, LoseClaim, LaunchFailed, Finish, local
    <2>2. status' = status \/ status' = [status EXCEPT ![job[t].sid] = "Idle"]
      BY <1>6 DEF SendCheck, Count, Unstaff, LaunchClear, LoseClaim, LaunchFailed, SetStatus, disk
    <2>3. \A s \in Session : halted'[s] => halted[s] /\ job'[t].sid # s /\ status'[s] = status[s]
      BY <1>2, <1>5, <2>1, <2>2, NoneAssumption DEF NoJob, DiskTypes
    <2>4. \A s \in Session : status'[s] = status[s] \/ status'[s] # "Queued"
      BY <2>2 DEF DiskTypes
    <2> QED BY <1>2, <1>3, <1>4, <2>3, <2>4, QuietRests DEF KillPcs
  <1>7. CASE \E s \in Session : Create(t, s)
    <2>1. PICK x \in Session : Create(t, x)
      BY <1>7
    <2>2. /\ status[x] = "Absent" /\ status' = [status EXCEPT ![x] = "Active"]
          /\ job'[t] = NoJob \/ job'[t].sid = x
      BY <1>0, <2>1 DEF Create, SetStatus, Finish
    <2>3. \A s \in Session : halted'[s] => halted[s] /\ job'[t].sid # s /\ status'[s] = status[s]
      BY <1>2, <1>5, <2>2, NoneAssumption DEF NoJob, DiskTypes
    <2>4. \A s \in Session : status'[s] = status[s] \/ status'[s] # "Queued"
      BY <2>2 DEF DiskTypes
    <2> QED BY <1>2, <1>3, <1>4, <2>3, <2>4, QuietRests DEF KillPcs
  <1> QED BY <1>1, <1>6, <1>7

LEMMA BeginsRest ==
  ASSUME OneAtATime, IInv, Owners, Launchers, Resting, NEW t \in Caller,
         \/ BeginSpawn(t)
         \/ \E s \in Session : \/ \E op \in Ops : BeginSend(t, s, op)
                               \/ BeginChild(t, s)
                               \/ Deliver(t, s)
  PROVE  Resting'
  <1> USE DEF IInv, TypeOK, ThreadTypes, OtherTypes
  <1>0. t \in Thread /\ t # Pump
    BY ThreadAssumption DEF Thread
  <1>1. pc[t] = "idle" /\ UNCHANGED <<run, queue, todo>>
    BY DEF BeginSpawn, BeginSend, BeginChild, Deliver, slots, waiting, local
  <1>2. /\ handles' = handles \/ handles' = Reaped
        /\ \A u \in Thread \ {t} : pc'[u] = pc[u] /\ job'[u] = job[u] /\ held'[u] = held[u]
    BY <1>0 DEF BeginSpawn, BeginSend, BeginChild, Deliver, slots, Goto, local
  <1>3. pc'[t] \in {"idle", "check", "checkActive", "create", "createFull", "count"}
    BY <1>0, <1>1 DEF BeginSpawn, BeginSend, BeginChild, Deliver, Goto
  <1>4. \A s \in Session : halted[s] => job[t].sid # s /\ status[s] = "Killed"
    BY <1>1 DEF Resting, AtRest, KillPcs
  <1>5. /\ \A s \in Session : halted'[s] => halted[s] /\ job'[t].sid # s /\ status'[s] = status[s]
        /\ \A s \in Session : status'[s] = status[s] \/ status'[s] # "Queued"
    <2>1. CASE BeginSpawn(t)
      BY <1>4, <2>1 DEF BeginSpawn, disk, local, history
    <2>2. CASE \E s \in Session : \E op \in Ops : BeginSend(t, s, op)
      <3> PICK s \in Session, op \in Ops : BeginSend(t, s, op)
        BY <2>2
      <3>1. halted' = [halted EXCEPT ![s] = FALSE] /\ UNCHANGED status
        BY DEF BeginSend, Awake, disk
      <3>2. job'[t].sid = s
        BY <1>0 DEF BeginSend
      <3> QED BY <1>4, <3>1, <3>2
    <2>3. CASE \E s \in Session : BeginChild(t, s)
      <3> PICK s \in Session : BeginChild(t, s)
        BY <2>3
      <3>1. status[s] = "Absent" /\ status' = [status EXCEPT ![s] = "Active"] /\ UNCHANGED halted
        BY DEF BeginChild, SetStatus, history
      <3>2. job'[t].sid = s
        BY <1>0 DEF BeginChild
      <3> QED BY <1>4, <3>1, <3>2 DEF DiskTypes
    <2>4. CASE \E s \in Session : Deliver(t, s)
      <3> PICK s \in Session : Deliver(t, s)
        BY <2>4
      <3>1. halted' = [halted EXCEPT ![s] = FALSE] /\ UNCHANGED status
        BY DEF Deliver
      <3>2. job'[t] = job[t] \/ job'[t].sid = s
        BY <1>0 DEF Deliver
      <3> QED BY <1>4, <3>1, <3>2
    <2> QED BY <2>1, <2>2, <2>3, <2>4
  <1> QED BY <1>1, <1>2, <1>3, <1>5, QuietRests DEF KillPcs

LEMMA LaunchesRest ==
  ASSUME OneAtATime, IInv, Owners, Launchers, Resting, NEW t \in Caller,
         \/ \E r \in RunId : Claim(t, r)
         \/ LaunchStart(t) \/ LaunchAttach(t) \/ LaunchFails(t)
  PROVE  Resting'
  <1> USE DEF IInv, TypeOK, ThreadTypes, Resting
  <1>0. t \in Thread /\ t # Pump /\ \A u \in Caller : u = t
    BY ThreadAssumption DEF Thread, OneAtATime
  <1>1. pc[t] \in {"claim", "start", "attach"} /\ UNCHANGED <<queue, todo, halted>>
    BY DEF Claim, LaunchStart, LaunchAttach, LaunchFails, waiting, local, history, Finish, Forgive
  <1>2. /\ \A u \in Thread \ {t} : pc'[u] = pc[u] /\ job'[u] = job[u] /\ held'[u] = held[u]
        /\ job'[t] = job[t] \/ job'[t] = NoJob
    BY <1>0 DEF Claim, LaunchStart, LaunchAttach, LaunchFails, Finish, Goto, local
  <1>3. pc'[t] \in {"start", "attach", "failed", "idle"}
    BY <1>0, <1>1 DEF Claim, LaunchStart, LaunchAttach, LaunchFails, Finish, Goto
  <1>4. /\ job[t].sid \in Session /\ ~ halted[job[t].sid]
        /\ \A s \in Session : halted[s] => job[t].sid # s /\ status[s] = "Killed"
    BY <1>0, <1>1 DEF AtRest, KillPcs, ThreadsHaveWork, LaunchPcs, Job
  <1>5. UNCHANGED status \/ status' = [status EXCEPT ![job[t].sid] = "Active"]
    BY DEF Claim, LaunchStart, LaunchAttach, LaunchFails, SetStatus, disk
  <1>6. NoneWaits'
    BY <1>0, <1>1, <1>2, <1>3, <1>5 DEF NoneWaits, Thread, DiskTypes
  <1>7. StopsFree'
    BY <1>0, <1>3 DEF StopsFree
  <1>8. \A r \in RunId : ~ (AtWork(r) /\ run[r].cancelled)
    BY <1>1, CallerAlone
  <1>9. /\ \A s \in Session : halted[s] => status'[s] = "Killed"
        /\ \A s \in Session : halted[s] => job'[t].sid # s
    BY <1>2, <1>4, <1>5, NoneAssumption DEF NoJob, DiskTypes
  <1>10. ASSUME \A s \in Session : halted[s] =>
                  \A r \in RunId : run'[r].sid = s => run'[r].phase \notin {"claimed", "spawned"}
         PROVE  AtRest'
    BY <1>0, <1>1, <1>9, <1>10 DEF AtRest
  <1>11. CASE \E r \in RunId : Claim(t, r)
    <2> PICK r \in RunId : Claim(t, r)
      BY <1>11
    <2> DEFINE s == job[t].sid
               R == ClaimedRun(job[t], sent[s])
    <2>1. /\ pc[t] = "claim" /\ Reaped[s] = None /\ FreshRun(r) /\ UNCHANGED <<status, job>>
          /\ handles' = [Reaped EXCEPT ![s] = r] /\ Reaped \in HandleMaps
          /\ held'[t] = r /\ pc'[t] = "start"
      BY <1>0, ReapedType DEF Claim, disk, Goto
    <2>2. R.sid = s /\ R.phase = "claimed" /\ ~ R.cancelled /\ ~ R.attached
      BY DEF ClaimedRun, NoRun
    <2>3. run' = [run EXCEPT ![r] = R]
      BY DEF Claim
    <2> HIDE DEF R
    <2>4. run'[r] = R /\ \A q \in RunId \ {r} : run'[q] = run[q]
      BY <2>3 DEF SlotTypes
    <2>5. NoRepairs'
      BY <2>2, <2>4 DEF NoRepairs
    <2>6. StopsWait'
      BY <1>8, <2>2, <2>4 DEF StopsWait, AtWork
    <2>7. HandlesAttached'
      <3>1. \A x \in Session \ {s} : handles'[x] # None => handles'[x] = handles[x] /\ handles[x] # r
        BY <2>1 DEF Reaped, HandleMaps, FreshRun
      <3>2. \A x \in Session \ {s} : handles'[x] # None => run'[handles'[x]].attached
        BY <2>1, <2>4, <3>1, CallerAlone DEF SlotTypes
      <3>3. handles'[s] = r
        BY <1>4, <2>1 DEF HandleMaps
      <3> QED BY <2>1, <3>2, <3>3 DEF HandlesAttached
    <2>8. AttachesKnow'
      BY <1>0, <2>1 DEF AttachesKnow
    <2>9. AtRest'
      BY <1>4, <1>10, <2>2, <2>4 DEF AtRest
    <2> QED BY <1>6, <1>7, <2>5, <2>6, <2>7, <2>8, <2>9
  <1>12. CASE LaunchStart(t)
    <2> DEFINE r == held[t]
    <2>1. /\ pc[t] = "start" /\ r \in RunId /\ UNCHANGED <<handles, held, job>>
          /\ pc'[t] = "attach" /\ run[r].phase = "claimed" /\ run[r].sid = job[t].sid
      BY <1>0, <1>12 DEF LaunchStart, ThreadsHaveWork, local, Goto, StartsAreClaimed, Owners,
                         StartsHaveRuns, Startings
    <2>2. /\ run'[r].phase = "spawned" /\ run'[r].sid = run[r].sid
          /\ run'[r].attached = run[r].attached /\ run'[r].cancelled = run[r].cancelled
          /\ \A q \in RunId \ {r} : run'[q] = run[q]
      BY <1>12, <2>1 DEF LaunchStart, Move, SlotTypes, Runs
    <2>3. NoRepairs'
      BY <2>2 DEF NoRepairs
    <2>4. StopsWait'
      BY <1>8, <2>1, <2>2 DEF StopsWait, AtWork
    <2>5. HandlesAttached'
      <3> SUFFICES ASSUME NEW s \in Session, handles'[s] # None, ~ run'[handles'[s]].attached
                   PROVE  pc'[t] = "attach" /\ held'[t] = handles'[s]
        BY DEF HandlesAttached
      <3>1. handles[s] # None /\ ~ run[handles[s]].attached
        BY <2>1, <2>2 DEF SlotTypes
      <3> QED BY <1>0, <2>1, <3>1 DEF HandlesAttached
    <2>6. AttachesKnow'
      BY <1>0, <2>1, <2>2 DEF AttachesKnow
    <2>7. AtRest'
      BY <1>4, <1>10, <2>1, <2>2 DEF AtRest
    <2> QED BY <1>6, <1>7, <2>3, <2>4, <2>5, <2>6, <2>7
  <1>13. CASE LaunchAttach(t)
    <2> DEFINE r == held[t]
               s == job[t].sid
    <2>1. /\ pc[t] = "attach" /\ r \in RunId /\ UNCHANGED handles /\ pc'[t] = "idle"
          /\ run[r].phase = "none" \/ run[r].sid = s
      BY <1>0, <1>13 DEF LaunchAttach, ThreadsHaveWork, Finish, Goto, AttachesKnow
    <2>2. /\ \A q \in RunId : /\ run'[q].sid = run[q].sid /\ run'[q].phase = run[q].phase
                              /\ run'[q].cancelled = run[q].cancelled /\ run'[q].done = run[q].done
          /\ \A q \in RunId \ {r} : run'[q] = run[q]
          /\ handles[s] = r => run'[r].attached
      BY <1>13, <2>1 DEF LaunchAttach, SlotTypes, Runs
    <2>3. NoRepairs'
      BY <2>2 DEF NoRepairs
    <2>4. StopsWait'
      BY <1>8, <2>2 DEF StopsWait, AtWork
    <2>5. HandlesAttached'
      <3> SUFFICES ASSUME NEW x \in Session, handles'[x] # None, ~ run'[handles'[x]].attached
                   PROVE  FALSE
        BY DEF HandlesAttached
      <3>1. handles[x] = r \/ run[handles[x]].attached
        BY <1>0, <2>1 DEF HandlesAttached
      <3>2. handles[x] # r
        <4>1. ASSUME handles[x] = r PROVE FALSE
          <5>1. run[r].sid = x /\ run[r].phase # "none"
            BY <2>1, <4>1, NoneAssumption DEF Owners, HandlesHaveRuns, Working
          <5> QED BY <2>1, <2>2, <4>1, <5>1
        <4> QED BY <4>1
      <3> QED BY <2>1, <2>2, <3>1, <3>2 DEF SlotTypes
    <2>6. AttachesKnow'
      BY <1>0, <2>1 DEF AttachesKnow
    <2>7. AtRest'
      BY <1>10, <2>2 DEF AtRest
    <2> QED BY <1>6, <1>7, <2>3, <2>4, <2>5, <2>6, <2>7
  <1>14. CASE LaunchFails(t)
    <2> DEFINE r == held[t]
    <2>1. /\ pc[t] = "start" /\ r \in RunId /\ handles' = Freed(job[t].sid, r)
          /\ pc'[t] = "failed" /\ run[r].sid = job[t].sid
          /\ run' = [run EXCEPT ![r] = NoRun]
      BY <1>0, <1>14 DEF LaunchFails, ThreadsHaveWork, Goto, Owners, StartsHaveRuns, Startings
    <2>2. run'[r] = NoRun /\ \A q \in RunId \ {r} : run'[q] = run[q]
      BY <2>1 DEF SlotTypes
    <2>3. NoRepairs'
      BY <2>2 DEF NoRepairs, NoRun
    <2>4. StopsWait'
      BY <1>8, <2>2 DEF StopsWait, AtWork, NoRun, Working
    <2>5. HandlesAttached'
      <3> SUFFICES ASSUME NEW x \in Session, handles'[x] # None, ~ run'[handles'[x]].attached
                   PROVE  FALSE
        BY DEF HandlesAttached
      <3>1. handles'[x] = handles[x] /\ handles[x] \in RunId
        BY <2>1 DEF Freed, SlotTypes
      <3>2. handles[x] # r
        <4>1. ASSUME handles[x] = r PROVE FALSE
          <5>1. x = job[t].sid
            BY <2>1, <4>1, NoneAssumption DEF Owners, HandlesHaveRuns
          <5> QED BY <2>1, <3>1, <4>1, <5>1, NoneAssumption DEF Freed, SlotTypes
        <4> QED BY <4>1
      <3>3. run[handles[x]].attached
        BY <1>0, <3>1, <3>2, NoneAssumption DEF HandlesAttached
      <3> QED BY <2>2, <3>1, <3>2, <3>3
    <2>6. AttachesKnow'
      BY <1>0, <2>1 DEF AttachesKnow
    <2>7. AtRest'
      BY <1>10, <2>2 DEF AtRest, NoRun
    <2> QED BY <1>6, <1>7, <2>3, <2>4, <2>5, <2>6, <2>7
  <1> QED BY <1>11, <1>12, <1>13, <1>14

LEMMA StopsRest ==
  ASSUME OneAtATime, IInv, Owners, Launchers, Minding, Resting, NEW t \in Caller,
         KillStep(t) \/ KillAbort(t) \/ \E s \in Session : KillCancel(t, s)
  PROVE  Resting'
  <1> USE DEF IInv, TypeOK, ThreadTypes, Resting
  <1>0. t \in Thread /\ t # Pump /\ \A u \in Caller : u = t
    BY ThreadAssumption DEF Thread, OneAtATime
  <1>1. \A u \in Thread \ {t} : pc'[u] = pc[u] /\ job'[u] = job[u] /\ held'[u] = held[u]
    BY <1>0 DEF KillStep, KillWait, KillFree, KillQueue, KillClear, KillMark, KillCancel, KillAbort,
                Finish, Goto, local
  <1>2. queue' = {} /\ todo' = {}
    BY DEF KillStep, KillWait, KillFree, KillQueue, KillClear, KillMark, KillCancel, KillAbort,
           Finish, local, waiting, NoneWaits
  <1>3. pc'[t] \in KillPcs \cup {"idle"}
    BY <1>0 DEF KillStep, KillWait, KillFree, KillQueue, KillClear, KillMark, KillCancel, KillAbort,
                Finish, Goto, KillPcs
  <1>4. UNCHANGED status \/ status' = [status EXCEPT ![job[t].sid] = "Killed"]
    BY DEF KillStep, KillWait, KillFree, KillQueue, KillClear, KillMark, KillCancel, KillAbort,
           SetStatus, disk
  <1>5. NoneWaits'
    BY <1>0, <1>1, <1>2, <1>3, <1>4 DEF NoneWaits, Thread, DiskTypes, KillPcs
  <1>6. AttachesKnow'
    BY <1>0, <1>3 DEF AttachesKnow, KillPcs
  <1>7. CASE \E s \in Session : KillCancel(t, s)
    <2> PICK s \in Session : KillCancel(t, s)
      BY <1>7
    <2> DEFINE r == handles[s]
    <2>1. /\ pc[t] = "idle" /\ UNCHANGED <<handles, status, halted>> /\ job'[t].sid = s
          /\ pc'[t] \in KillPcs
      BY <1>0 DEF KillCancel, NoJob, disk, history, Goto, KillPcs
    <2>2. CASE r = None
      <3>1. UNCHANGED run /\ pc'[t] = "killqueue"
        BY <1>0, <2>2 DEF KillCancel, Goto
      <3>2. NoRepairs' /\ StopsWait'
        BY <2>1, <3>1, CallerAlone DEF NoRepairs, StopsWait, AtWork
      <3>3. HandlesAttached'
        BY <2>1, <3>1, CallerAlone DEF HandlesAttached
      <3>4. StopsFree'
        BY <1>0, <2>1, <2>2, <3>1 DEF StopsFree
      <3>5. AtRest'
        BY <1>0, <2>1, <3>1 DEF AtRest
      <3> QED BY <1>5, <1>6, <3>2, <3>3, <3>4, <3>5
    <2>3. CASE r # None
      <3>1. /\ r \in RunId /\ run[r].attached /\ run[r].phase # "claimed"
            /\ run[r].sid = s
        BY <2>1, <2>3, CallerAlone DEF SlotTypes, Owners, HandlesHaveRuns
      <3>2. held'[t] = r /\ pc'[t] = "killwait"
        BY <1>0, <2>3, <3>1 DEF KillCancel, Goto
      <3>3. run' = [run EXCEPT ![r] = [@ EXCEPT !.cancelled = TRUE, !.attached = FALSE]]
        BY <2>3 DEF KillCancel
      <3>4. /\ \A q \in RunId \ {r} : run'[q] = run[q]
            /\ run'[r].sid = run[r].sid /\ run'[r].phase = run[r].phase
            /\ run'[r].cancelled /\ run'[r].done = run[r].done
        BY <3>1, <3>3 DEF SlotTypes, Runs
      <3>5. NoRepairs'
        BY <3>4 DEF NoRepairs
      <3>6. StopsWait'
        <4> SUFFICES ASSUME NEW q \in RunId, AtWork(q)', run'[q].cancelled
                     PROVE  run'[q].phase \in Working /\ pc'[t] = "killwait" /\ held'[t] = q
          BY DEF StopsWait
        <4>1. q = r
          BY <2>1, <3>4, CallerAlone DEF AtWork
        <4> QED BY <3>1, <3>2, <3>4, <4>1 DEF AtWork
      <3>7. HandlesAttached'
        <4> SUFFICES ASSUME NEW x \in Session, handles'[x] # None, ~ run'[handles'[x]].attached
                     PROVE  pc'[t] = "killwait" /\ held'[t] = handles'[x]
          BY DEF HandlesAttached
        <4>1. handles[x] \in RunId /\ run[handles[x]].attached
          BY <2>1, CallerAlone DEF SlotTypes
        <4> QED BY <2>1, <3>2, <3>4, <4>1
      <3>8. StopsFree'
        BY <1>0, <2>1, <3>2 DEF StopsFree
      <3>9. AtRest'
        BY <1>0, <2>1, <3>4 DEF AtRest
      <3> QED BY <1>5, <1>6, <3>5, <3>6, <3>7, <3>8, <3>9
    <2> QED BY <2>2, <2>3
  <1>8. CASE KillWait(t)
    <2>1. /\ pc[t] = "killwait" /\ pc'[t] = "killfree" /\ run[held[t]].phase \notin Working
          /\ UNCHANGED <<status, handles, run, held, job, halted>>
      BY <1>0, <1>8 DEF KillWait, disk, slots, local, history, Goto
    <2>2. NoRepairs' /\ StopsFree'
      BY <1>0, <2>1 DEF NoRepairs, StopsFree
    <2>3. StopsWait'
      BY <1>0, <2>1 DEF StopsWait, AtWork
    <2>4. HandlesAttached'
      BY <1>0, <2>1 DEF HandlesAttached
    <2>5. AtRest'
      BY <1>0, <2>1 DEF AtRest, KillPcs
    <2> QED BY <1>5, <1>6, <2>2, <2>3, <2>4, <2>5
  <1>9. CASE KillAbort(t)
    <2>1. /\ pc[t] = "killwait" /\ pc'[t] = "killfree" /\ held[t] \in RunId
          /\ run[held[t]].phase \in Working
          /\ UNCHANGED <<status, handles, held, job, halted>>
      BY <1>0, <1>9 DEF KillAbort, disk, local, Forgive, Goto, ThreadsHaveWork
    <2>2. /\ run'[held[t]].phase = "over" /\ run'[held[t]].sid = run[held[t]].sid
          /\ run'[held[t]].attached = run[held[t]].attached
          /\ run'[held[t]].cancelled = run[held[t]].cancelled
          /\ \A q \in RunId \ {held[t]} : run'[q] = run[q]
      BY <1>9, <2>1 DEF KillAbort, Move, SlotTypes, Runs
    <2>3. run[held[t]].cancelled
      BY <1>0, <2>1 DEF KillsAreSafe, AtWork
    <2>4. NoRepairs'
      BY <2>2, <2>3 DEF NoRepairs
    <2>5. StopsWait'
      BY <1>0, <2>1, <2>2 DEF StopsWait, AtWork, Working
    <2>6. HandlesAttached'
      <3> SUFFICES ASSUME NEW x \in Session, handles'[x] # None, ~ run'[handles'[x]].attached
                   PROVE  pc'[t] = "killfree" /\ held'[t] = handles'[x]
        BY DEF HandlesAttached
      <3>1. handles[x] # None /\ ~ run[handles[x]].attached
        BY <2>1, <2>2 DEF SlotTypes
      <3> QED BY <1>0, <2>1, <3>1 DEF HandlesAttached
    <2>7. StopsFree'
      BY <1>0, <2>1 DEF StopsFree
    <2>8. AtRest'
      BY <1>0, <2>1, <2>2 DEF AtRest, KillPcs
    <2> QED BY <1>5, <1>6, <2>4, <2>5, <2>6, <2>7, <2>8
  <1>10. CASE KillFree(t)
    <2> DEFINE s == job[t].sid
    <2>1. /\ pc[t] = "killfree" /\ pc'[t] = "killqueue" /\ held[t] \in RunId /\ s \in Session
          /\ handles' = Freed(s, held[t]) /\ UNCHANGED <<status, run, job, halted>>
      BY <1>0, <1>10 DEF KillFree, disk, Forgive, Goto, ThreadsHaveWork, KillPcs
    <2>2. \A x \in Session : handles'[x] # None => handles'[x] = handles[x] /\ handles[x] \in RunId
      BY <2>1 DEF Freed, SlotTypes
    <2>3. NoRepairs' /\ StopsWait'
      BY <2>1, CallerAlone DEF NoRepairs, StopsWait, AtWork
    <2>4. HandlesAttached'
      <3> SUFFICES ASSUME NEW x \in Session, handles'[x] # None, ~ run'[handles'[x]].attached
                   PROVE  FALSE
        BY DEF HandlesAttached
      <3>1. handles[x] = held[t]
        BY <1>0, <2>1, <2>2 DEF HandlesAttached
      <3>2. s = x
        BY <1>0, <2>1, <2>2, <3>1
           DEF Owners, HandlesHaveRuns, Minding, StopsKnow, Working
      <3> QED BY <2>1, <2>2, <3>1, <3>2, NoneAssumption DEF Freed, SlotTypes
    <2>5. StopsFree'
      BY <1>0, <2>1 DEF StopsFree, Freed, SlotTypes
    <2>6. AtRest'
      BY <1>0, <2>1 DEF AtRest, KillPcs
    <2> QED BY <1>5, <1>6, <2>3, <2>4, <2>5, <2>6
  <1>11. CASE KillQueue(t) \/ KillClear(t)
    <2>1. /\ pc[t] \in {"killqueue", "killclear"} /\ pc'[t] \in {"killclear", "killmark"}
          /\ UNCHANGED <<status, handles, run, job, halted>>
      BY <1>0, <1>11 DEF KillQueue, KillClear, disk, slots, local, history, Goto
    <2>2. NoRepairs' /\ StopsWait'
      BY <2>1, CallerAlone DEF NoRepairs, StopsWait, AtWork
    <2>3. HandlesAttached'
      BY <2>1, CallerAlone DEF HandlesAttached
    <2>4. StopsFree'
      BY <1>0, <2>1 DEF StopsFree
    <2>5. AtRest'
      BY <1>0, <2>1 DEF AtRest, KillPcs
    <2> QED BY <1>5, <1>6, <2>2, <2>3, <2>4, <2>5
  <1>12. CASE KillMark(t)
    <2> DEFINE s == job[t].sid
    <2>1. /\ pc[t] = "killmark" /\ pc'[t] = "idle" /\ s \in Session /\ UNCHANGED <<handles, run>>
          /\ status' = [status EXCEPT ![s] = "Killed"] /\ job'[t].sid = None
      BY <1>0, <1>12 DEF KillMark, SetStatus, slots, Finish, Goto, NoJob, ThreadsHaveWork, KillPcs
    <2>2. \A x \in Session \ {s} : halted'[x] = halted[x]
      BY <1>12 DEF KillMark, OtherTypes
    <2>3. NoRepairs' /\ StopsWait'
      BY <2>1, CallerAlone DEF NoRepairs, StopsWait, AtWork
    <2>4. HandlesAttached'
      BY <2>1, CallerAlone DEF HandlesAttached
    <2>5. StopsFree'
      BY <1>0, <2>1 DEF StopsFree
    <2>6. \A r \in RunId : run[r].sid = s => run[r].phase \notin {"claimed", "spawned"}
      <3> SUFFICES ASSUME NEW r \in RunId, run[r].sid = s, AtWork(r) PROVE FALSE
        BY DEF AtWork, Working
      <3>1. ~ run[r].cancelled
        BY <2>1, CallerAlone
      <3>2. handles[s] = r
        BY <3>1 DEF SlotIsHeld
      <3> QED BY <2>1, <3>2, NoneAssumption DEF StopsFree
    <2>7. AtRest'
      <3> SUFFICES ASSUME NEW x \in Session, halted'[x]
                   PROVE  /\ status'[x] = "Killed"
                          /\ \A u \in Caller : job'[u].sid = x => pc'[u] \in KillPcs
                          /\ \A r \in RunId : run'[r].sid = x => run'[r].phase \notin {"claimed", "spawned"}
        BY DEF AtRest
      <3>1. \A u \in Caller : job'[u].sid # x
        BY <1>0, <2>1, NoneAssumption
      <3>2. CASE x = s
        BY <2>1, <2>6, <3>1, <3>2 DEF DiskTypes
      <3>3. CASE x # s
        BY <2>1, <2>2, <3>1, <3>3 DEF AtRest, DiskTypes
      <3> QED BY <3>2, <3>3
    <2> QED BY <1>5, <1>6, <2>3, <2>4, <2>5, <2>7
  <1> QED BY <1>7, <1>8, <1>9, <1>10, <1>11, <1>12 DEF KillStep

LEMMA PumpRests ==
  ASSUME OneAtATime, IInv, Owners, Resting, PumpStep PROVE Resting'
  <1> USE DEF IInv, TypeOK, ThreadTypes, Resting
  <1>1. \/ PumpWake \/ PumpScan \/ PumpFindsNone \/ RecoverList \/ RecoverDone
    BY DEF PumpStep, NoneWaits, EnqueueStep, MarkQueued, Persist, Push, LaunchStep, LaunchClear,
           LoseClaim, LaunchStart, LaunchAttach, LaunchFailed, Claim, PumpCheck, PumpPop, RecoverOne
  <1>2. Pump \in Thread /\ \A t \in Caller : t \in Thread /\ t # Pump
    BY ThreadAssumption DEF Thread
  <1>3. /\ UNCHANGED <<status, run, queue, job, held, halted>>
        /\ handles' = handles \/ handles' = Reaped
        /\ \A t \in Caller : pc'[t] = pc[t]
    BY <1>1, <1>2 DEF PumpWake, PumpScan, PumpFindsNone, RecoverList, RecoverDone, Goto, disk, slots,
                      waiting, local, history
  <1>4. pc'[Pump] \in {"sleep", "scan", "pop", "recovering"}
    BY <1>1, <1>2 DEF PumpWake, PumpScan, PumpFindsNone, RecoverList, RecoverDone, Goto
  <1>5. todo' = {}
    BY <1>1 DEF PumpWake, PumpScan, PumpFindsNone, RecoverList, RecoverDone, local, NoneWaits
  <1>6. NoneWaits'
    BY <1>3, <1>4, <1>5 DEF NoneWaits
  <1>7. NoRepairs' /\ StopsWait' /\ AttachesKnow' /\ AtRest'
    BY <1>3 DEF NoRepairs, StopsWait, AttachesKnow, AtRest, AtWork
  <1>8. HandlesAttached'
    BY <1>3 DEF HandlesAttached, Reaped
  <1>9. StopsFree'
    <2>1. \A t \in Caller : pc[t] \in KillPcs => job[t].sid \in Session
      BY <1>2 DEF ThreadsHaveWork
    <2>2. \A s \in Session : handles'[s] = handles[s] \/ handles'[s] = None
      BY <1>3 DEF Reaped
    <2> QED BY <1>3, <2>1, <2>2 DEF StopsFree, KillPcs
  <1> QED BY <1>6, <1>7, <1>8, <1>9

LEMMA RestingKept ==
  ASSUME OneAtATime, IInv, Owners, Launchers, Minding, Resting, Next PROVE Resting'
  <1>1. CASE \E t \in Caller : CallBegins(t) \/ CallStep(t)
    <2>1. PICK t \in Caller : CallBegins(t) \/ CallStep(t)
      BY <1>1
    <2>2. CASE CallBegins(t)
      BY <2>2, BeginsRest, StopsRest DEF CallBegins
    <2>3. CASE CallStep(t)
      BY <2>3, CallsRest, LaunchesRest, StopsRest DEF CallStep, LaunchStep
    <2> QED BY <2>1, <2>2, <2>3
  <1>2. CASE PumpStep
    BY <1>2, PumpRests
  <1>3. ASSUME NEW r \in RunId, EndNotify(r) PROVE Resting'
    <2>1. /\ run[r].phase = "notify" /\ run' = [run EXCEPT ![r] = NoRun]
          /\ UNCHANGED <<status, handles, pc, held, job, queue, todo, halted>>
      BY <1>3 DEF EndNotify, local, disk, history
    <2>2. run'[r] = NoRun /\ \A q \in RunId \ {r} : run'[q] = run[q]
      BY <2>1 DEF IInv, TypeOK, SlotTypes
    <2>3. \A s \in Session : handles[s] # None => handles[s] \in RunId \ {r}
      BY <2>1 DEF Owners, HandlesHaveRuns, Working, IInv, TypeOK, SlotTypes
    <2>4. NoRepairs' /\ StopsWait'
      BY <2>1, <2>2 DEF Resting, NoRepairs, StopsWait, AtWork, NoRun, Working
    <2>5. HandlesAttached' /\ StopsFree' /\ NoneWaits'
      BY <2>1, <2>2, <2>3 DEF Resting, HandlesAttached, StopsFree, NoneWaits
    <2>6. AttachesKnow' /\ AtRest'
      <3>1. \A t \in Caller : pc[t] = "attach" => held[t] \in RunId
        BY DEF IInv, ThreadsHaveWork, Thread
      <3> QED BY <2>1, <2>2, <3>1 DEF Resting, AttachesKnow, AtRest, NoRun
    <2> QED BY <2>4, <2>5, <2>6 DEF Resting
  <1>4. CASE \E r \in RunId : RunStep(r) \/ TurnEnds(r)
    BY <1>3, <1>4, RunsRest
  <1>5. CASE Fault
    <2>1. CASE Crash
      <3>1. /\ \A r \in RunId : run'[r] = NoRun
            /\ \A s \in Session : handles'[s] = None
            /\ queue' = {} /\ todo' = {} /\ halted' = halted
            /\ \A s \in Session : status'[s] \in {status[s], "Idle"}
            /\ \A s \in Session : status[s] = "Killed" => status'[s] = "Killed"
            /\ \A t \in Caller : pc'[t] = "idle" /\ job'[t] = NoJob
            /\ pc'[Pump] = "recover"
        BY <2>1, ThreadAssumption DEF Crash, Thread
      <3>2. NoneWaits' /\ NoRepairs' /\ StopsWait' /\ HandlesAttached' /\ StopsFree' /\ AttachesKnow'
        BY <3>1 DEF Resting, NoneWaits, NoRepairs, StopsWait, HandlesAttached, StopsFree,
                    AttachesKnow, NoRun, AtWork, Working
      <3>3. AtRest'
        BY <3>1, NoneAssumption DEF Resting, AtRest, NoRun, NoJob
      <3> QED BY <3>2, <3>3 DEF Resting
    <2>2. ASSUME NEW t \in Thread, LaunchFails(t) PROVE Resting'
      <3>1. t \in Caller
        BY <2>2 DEF LaunchFails, Thread, Resting, NoneWaits
      <3> QED BY <2>2, <3>1, LaunchesRest
    <2>3. CASE \E t \in Caller : KillAbort(t) \/ Dropped(t)
      BY <2>3, StopsRest DEF OneAtATime, NothingDies, Dropped
    <2>4. CASE \E r \in RunId : RunDies(r) \/ BudgetHit(r)
      <3>1. PICK r \in RunId : BudgetHit(r)
        BY <2>4 DEF OneAtATime, NothingDies, RunDies
      <3>2. ~ EndNotify(r)
        BY <3>1 DEF BudgetHit, EndNotify
      <3> QED BY <3>1, <3>2, RunsRest
    <2> QED BY <1>5, <2>1, <2>2, <2>3, <2>4 DEF Fault
  <1> QED BY <1>1, <1>2, <1>4, <1>5 DEF Next

LEMMA RestingStarts == Init => Resting
  BY ThreadAssumption, NoneAssumption, ExistingAssumption
     DEF Init, Resting, NoneWaits, NoRepairs, StopsWait, HandlesAttached, StopsFree, AttachesKnow,
         AtRest, NoRun, NoJob, AtWork, Working, Thread

\* A session that was stopped reads Killed until it is asked for something, through
\* launches that fail, aborts, budgets, crashes and the end of the run that was
\* stopped, while the calls come one at a time: kill waits for the run, frees only its
\* slot and then writes Killed (mod.rs), and settle leaves Killed as it is (run.rs).
THEOREM KilledStays == ASSUME OneAtATime PROVE Spec => []StaysKilled
  <1> DEFINE Inv == IInv /\ Owners /\ Launchers /\ Minding /\ Resting
  <1>1. Init => Inv
    BY InitHolds, OwnersStart, MindingStarts, RestingStarts
  <1>2. Inv /\ IInv' /\ [Next]_vars => Inv'
    <2> SUFFICES ASSUME Inv, IInv', [Next]_vars PROVE Inv'
      OBVIOUS
    <2>1. CASE Next
      BY <2>1, OwnersKeep, MindingKept, RestingKept DEF OneAtATime
    <2>2. CASE UNCHANGED vars
      <3>1. Minding' /\ Resting'
        BY <2>2 DEF vars, disk, slots, waiting, local, bounds, history, Minding, StopsKnow,
             OverIsStopped, SettlesFor, CopiesAreOwn, OnlySpawnCreates, Resting, NoneWaits, NoRepairs,
             StopsWait, HandlesAttached, StopsFree, AttachesKnow, AtRest, AtWork
      <3> QED BY <3>1, <2>2, OwnersKeep
    <2> QED BY <2>1, <2>2
  <1>3. Inv => StaysKilled
    BY DEF Resting, AtRest, StaysKilled
  <1> QED BY <1>1, <1>2, <1>3, Inductive, PTL DEF Spec

(***************************************************************************)
(* The agent is handed the messages in order                               *)
(***************************************************************************)
\* One caller that sends messages, a slot for every session, and no fault.  Without any
\* of these a message can be passed over or handed again.
OneInbox ==
  /\ \A t, u \in Caller : t = u
  /\ Ops \subseteq {"message"} /\ Faults = {}
  /\ IsFiniteSet(Session) /\ Cardinality(Session) <= MaxLive

Upto(s) == Len(handed[s])

Going == {"count", "launch", "claim"}

\* No run is stopped, nothing waits, and the caller is on its way with the message it
\* has just written, for which there is no run.
Plain ==
  /\ queue = {} /\ todo = {} /\ \A s \in Session : status[s] # "Queued"
  /\ pc[Pump] \in {"sleep", "scan", "pop", "recover", "recovering"}
  /\ \A r \in RunId : /\ ~ run[r].cancelled
                      /\ run[r].phase # "none" => run[r].cause = "message"
  /\ \A t \in Caller : pc[t] \in Going \cup {"idle", "start", "attach"}

Asks ==
  \A t \in Caller : pc[t] \in Going =>
    LET j == job[t] IN
    /\ j.cause = "message" /\ j.from \in Nat /\ j.from + 1 = sent[j.sid]
    /\ Upto(j.sid) <= j.from /\ handles[j.sid] = None

\* The mark stands at the messages that were handed over, or nothing was.
AtMark(s) == mark[s] = Upto(s) \/ (mark[s] = None /\ Upto(s) = 0)

\* What a run at work has seen, and where its input begins.
Reads(r) ==
  LET R == run[r]
      s == run[r].sid IN
  /\ R.phase \in {"claimed", "spawned"} =>
       AtMark(s) /\ (mark[s] = None => R.from = 0) /\ Upto(s) < R.seen
  /\ R.phase = "ready" =>
       mark[s] = R.seen /\ R.lo = Upto(s) /\ R.hi = R.seen /\ R.lo <= R.hi
  /\ R.phase \in {"turn", "looking"} => mark[s] = R.seen /\ Upto(s) = R.seen
  /\ R.phase = "settling" => mark[s] = Upto(s)
  /\ AtWork(r) => R.seen <= sent[s]

\* With no run at work, what was handed over is what is marked.
Rests(s) ==
  (\A r \in RunId : run[r].sid = s => ~ AtWork(r)) =>
    /\ AtMark(s)
    /\ mark[s] = None => \/ sent[s] = 0
                         \/ \E t \in Caller : pc[t] \in Going /\ job[t].sid = s /\ job[t].from = 0

Told(s) ==
  /\ \A r \in RunId : run[r].sid = s => Reads(r)
  /\ Rests(s)
  /\ Upto(s) <= sent[s]
  /\ \A k \in DOMAIN handed[s] : handed[s][k] = k

Inbox == Plain /\ Asks /\ \A s \in Session : Told(s)

\* Handing over the next n messages keeps the order.
LEMMA HandedOn ==
  ASSUME NEW q \in Seq(Nat), \A k \in DOMAIN q : q[k] = k, NEW n \in Nat
  PROVE  LET p == q \o [k \in 1..n |-> Len(q) + k]
         IN Len(p) = Len(q) + n /\ \A k \in DOMAIN p : p[k] = k
  <1> DEFINE new == [k \in 1..n |-> Len(q) + k]
             p == q \o new
  <1>1. new \in Seq(Nat) /\ Len(new) = n
    OBVIOUS
  <1>2. p \in Seq(Nat) /\ Len(p) = Len(q) + n
    BY <1>1
  <1>3. ASSUME NEW k \in DOMAIN p PROVE p[k] = k
    <2>1. k \in 1..(Len(q) + n)
      BY <1>2, <1>3
    <2>2. CASE k <= Len(q)
      BY <1>1, <2>1, <2>2
    <2>3. CASE k > Len(q)
      <3>1. p[k] = new[k - Len(q)] /\ k - Len(q) \in 1..n
        BY <1>1, <2>1, <2>3
      <3> QED BY <2>1, <3>1
    <2> QED BY <2>1, <2>2, <2>3
  <1> QED BY <1>2, <1>3

\* r reads what it read before.
Reread(r) ==
  /\ run'[r].sid = run[r].sid /\ run'[r].phase = run[r].phase /\ run'[r].from = run[r].from
  /\ run'[r].seen = run[r].seen /\ run'[r].lo = run[r].lo /\ run'[r].hi = run[r].hi

\* A session whose messages are left alone, and its runs at work.
LEMMA ToldStays ==
  ASSUME NEW s \in Session, Told(s),
         sent'[s] = sent[s], mark'[s] = mark[s], handed'[s] = handed[s],
         \A r \in RunId :
           \/ Reread(r)
           \/ /\ run[r].sid = s => ~ AtWork(r)
              /\ run'[r].sid = s => ~ AtWork(r)',
         \A t \in Caller : job[t].sid = s /\ pc[t] \in Going =>
           pc'[t] \in Going /\ job'[t] = job[t]
  PROVE  Told(s)'
  <1>1. ASSUME NEW r \in RunId, run'[r].sid = s PROVE Reads(r)'
    <2>1. CASE Reread(r)
      BY <1>1, <2>1 DEF Told, Reads, AtMark, Upto, AtWork, Reread
    <2>2. CASE ~ AtWork(r)'
      BY <2>2 DEF Reads, AtWork, Working
    <2> QED BY <1>1, <2>1, <2>2
  <1>2. Rests(s)'
    <2> SUFFICES ASSUME \A r \in RunId : run'[r].sid = s => ~ AtWork(r)'
                 PROVE  /\ AtMark(s)'
                        /\ mark'[s] = None =>
                             \/ sent'[s] = 0
                             \/ \E t \in Caller : pc'[t] \in Going /\ job'[t].sid = s /\ job'[t].from = 0
      BY DEF Rests
    <2>1. \A r \in RunId : run[r].sid = s => ~ AtWork(r)
      BY DEF AtWork, Reread
    <2> QED BY <2>1 DEF Told, Rests, AtMark, Upto
  <1> QED BY <1>1, <1>2 DEF Told, Upto

\* There is one run at work in a session, and it has the handle.
LEMMA OneAtWork ==
  ASSUME IInv, Plain, NEW r \in RunId, AtWork(r)
  PROVE  /\ run[r].sid \in Session /\ handles[run[r].sid] = r /\ run[r].cause = "message"
         /\ \A q \in RunId \ {r} : run[q].sid = run[r].sid => ~ AtWork(q)
  BY DEF IInv, Plain, SlotIsHeld, RunsHaveSessions, AtWork, Working

\* Whoever has a handle is at work.
LEMMA HandleAtWork ==
  ASSUME IInv, Owners, Minding, Plain, NEW s \in Session, handles[s] # None
  PROVE  handles[s] \in RunId /\ run[handles[s]].sid = s /\ AtWork(handles[s])
  <1>1. /\ handles[s] \in RunId /\ run[handles[s]].sid = s
        /\ run[handles[s]].phase \in {"claimed", "over"} \cup Working
    BY DEF IInv, TypeOK, SlotTypes, Owners, HandlesHaveRuns
  <1>2. run[handles[s]].phase # "over"
    BY DEF Minding, OverIsStopped, Plain, Thread, Going
  <1> QED BY <1>1, <1>2 DEF AtWork

\* A step of a run at work on its own session.
LEMMA RunTold ==
  ASSUME IInv, Inbox, NEW r \in RunId, AtWork(r), NEW p \in Phases, Stepped(r, p),
         NEW s \in Session, s = run[r].sid,
         run'[r].cause = run[r].cause, UNCHANGED <<pc, job, queue, todo, sent>>,
         handles' = handles \/ handles' = Freed(s, r),
         \A x \in Session \ {s} : mark'[x] = mark[x] /\ handed'[x] = handed[x],
         \A x \in Session : status'[x] # "Queued",
         Reads(r)', ~ AtWork(r)' => mark'[s] = Len(handed'[s]), mark'[s] # None,
         Len(handed'[s]) <= sent[s],
         \A k \in DOMAIN handed'[s] : handed'[s][k] = k
  PROVE  Inbox'
  <1> USE DEF Inbox
  <1>1. /\ handles[s] = r
        /\ \A q \in RunId \ {r} : run[q].sid = s => ~ AtWork(q)
    BY OneAtWork
  <1>2. Plain'
    BY DEF Plain, Stepped, AtWork, Working
  <1>3. \A t \in Caller : pc[t] \in Going => job[t].sid # s /\ job[t].sid \in Session
    BY <1>1, NoneAssumption
       DEF Asks, IInv, ThreadsHaveWork, Going, CallPcs, LaunchPcs, Thread, Job
  <1>4. Asks'
    <2>1. \A x \in Session \ {s} : Upto(x)' = Upto(x) /\ handles'[x] = handles[x]
      BY <1>1 DEF Upto, Freed, IInv, TypeOK, SlotTypes
    <2> QED BY <1>3, <2>1 DEF Asks
  <1>5. ASSUME NEW x \in Session, x # s PROVE Told(x)'
    <2>1. \A q \in RunId : Reread(q) \/ (run[q].sid # x /\ run'[q].sid # x)
      BY <1>5 DEF Stepped, Reread
    <2> QED BY <1>5, <2>1, ToldStays
  <1>6. Told(s)'
    <2>1. ASSUME NEW q \in RunId, run'[q].sid = s PROVE Reads(q)'
      <3>1. CASE q # r
        BY <1>1, <2>1, <3>1 DEF Stepped, Reads, AtWork, Working
      <3> QED BY <3>1
    <2>2. Rests(s)'
      <3>1. CASE AtWork(r)'
        BY <3>1 DEF Rests, Stepped
      <3>2. CASE ~ AtWork(r)'
        BY <3>2 DEF Rests, AtMark, Upto
      <3> QED BY <3>1, <3>2
    <2>3. Upto(s)' <= sent'[s] /\ \A k \in DOMAIN handed'[s] : handed'[s][k] = k
      BY DEF Upto
    <2> QED BY <2>1, <2>2, <2>3 DEF Told, Upto
  <1> QED BY <1>2, <1>4, <1>5, <1>6

\* So reaping takes no handle away.
LEMMA NoneReaped ==
  ASSUME IInv, Owners, Minding, Plain PROVE Reaped = handles
  <1>1. \A s \in Session : handles[s] # None => run[handles[s]].phase \notin TaskOver
    BY HandleAtWork DEF AtWork, Working, TaskOver
  <1> QED BY <1>1 DEF Reaped, Finished, IInv, TypeOK, SlotTypes

\* A session nobody works on is at rest.
LEMMA AtRestNow ==
  ASSUME IInv, Plain, NEW s \in Session, handles[s] = None
  PROVE  \A r \in RunId : run[r].sid = s => ~ AtWork(r)
  BY OneAtWork, NoneAssumption

\* A session in which no run has the handle leaves room for it.
LEMMA NotFull ==
  ASSUME OneInbox, IInv, NEW s \in Session, handles[s] = None PROVE ~ Full(handles)
  <1>1. Live(handles) \subseteq Session \ {s} /\ IsFiniteSet(Session)
    BY DEF Live, OneInbox
  <1>2. IsFiniteSet(Session \ {s}) /\ Cardinality(Session \ {s}) = Cardinality(Session) - 1
        /\ Cardinality(Session) \in Nat
    BY <1>1, FS_RemoveElement, FS_CardinalityType
  <1>3. Cardinality(Live(handles)) <= Cardinality(Session \ {s}) /\ IsFiniteSet(Live(handles))
    BY <1>1, <1>2, FS_Subset
  <1>4. Cardinality(Live(handles)) \in Nat
    BY <1>3, FS_CardinalityType
  <1> QED BY <1>2, <1>3, <1>4, SettingsAssumption DEF Full, OneInbox

\* A step of one thread that leaves the messages and the reading runs alone.
LEMMA ThreadTold ==
  ASSUME IInv, Inbox, UNCHANGED <<sent, mark, handed, queue, todo, handles>>,
         \A s \in Session : status'[s] # "Queued",
         \A r \in RunId : Reread(r) /\ run'[r].cancelled = run[r].cancelled
                                    /\ run'[r].cause = run[r].cause,
         pc'[Pump] \in {"sleep", "scan", "pop", "recover", "recovering"},
         \A t \in Caller :
           \/ pc[t] \in Going /\ pc'[t] \in Going /\ job'[t] = job[t]
           \/ pc[t] \notin Going /\ pc'[t] \in {"idle", "start", "attach"}
  PROVE  Inbox'
  <1>1. Plain'
    BY DEF Inbox, Plain, Reread
  <1>2. Asks'
    BY DEF Inbox, Asks, Upto, Going
  <1>3. \A s \in Session : Told(s)'
    BY ToldStays DEF Inbox
  <1> QED BY <1>1, <1>2, <1>3 DEF Inbox

LEMMA PumpTells ==
  ASSUME OneInbox, IInv, Owners, Minding, Inbox, PumpStep PROVE Inbox'
  <1> USE DEF IInv, TypeOK, ThreadTypes
  <1>1. \/ PumpWake \/ PumpScan \/ PumpFindsNone \/ RecoverList \/ RecoverDone
    BY DEF Inbox, Plain, PumpStep, EnqueueStep, MarkQueued, Persist, Push, LaunchStep, LaunchClear,
           LoseClaim, LaunchStart, LaunchAttach, LaunchFailed, Claim, PumpCheck, PumpPop, RecoverOne
  <1>2. Reaped = handles
    BY NoneReaped DEF Inbox
  <1>3. Pump \in Thread /\ \A t \in Caller : t \in Thread /\ t # Pump
    BY ThreadAssumption DEF Thread
  <1>4. /\ UNCHANGED <<status, sent, mark, handed, run, queue, job, handles>>
        /\ \A t \in Caller : pc'[t] = pc[t]
    BY <1>1, <1>2, <1>3
       DEF PumpWake, PumpScan, PumpFindsNone, RecoverList, RecoverDone, Goto, disk, slots, waiting,
           local, history
  <1>5. pc'[Pump] \in {"sleep", "scan", "pop", "recover", "recovering"}
    BY <1>1, <1>3 DEF PumpWake, PumpScan, PumpFindsNone, RecoverList, RecoverDone, Goto
  <1>6. todo' = {}
    BY <1>1 DEF PumpWake, PumpScan, PumpFindsNone, RecoverList, RecoverDone, local, Inbox, Plain
  <1>7. todo' = todo /\ \A s \in Session : status'[s] # "Queued"
    BY <1>4, <1>6 DEF Inbox, Plain
  <1>8. \A r \in RunId : Reread(r) /\ run'[r].cancelled = run[r].cancelled
                                   /\ run'[r].cause = run[r].cause
    BY <1>4 DEF Reread
  <1>9. \A t \in Caller :
           \/ pc[t] \in Going /\ pc'[t] \in Going /\ job'[t] = job[t]
           \/ pc[t] \notin Going /\ pc'[t] \in {"idle", "start", "attach"}
    BY <1>4 DEF Inbox, Plain
  <1> HIDE DEF IInv, TypeOK, ThreadTypes
  <1> QED BY <1>4, <1>5, <1>7, <1>8, <1>9, ThreadTold

\* The message is written: a live run is left to read it, or the caller starts one.
LEMMA DeliverTells ==
  ASSUME OneInbox, IInv, Owners, Minding, Inbox, NEW t \in Caller, NEW s \in Session, Deliver(t, s)
  PROVE  Inbox'
  <1>0. /\ t \in Thread /\ t # Pump /\ \A u \in Caller : u = t
        /\ Reaped = handles
    BY ThreadAssumption, NoneReaped DEF Thread, OneInbox, Inbox
  <1>1. /\ pc[t] = "idle" /\ handles' = handles
        /\ UNCHANGED <<status, run, mark, handed, queue, todo>>
        /\ sent' = [sent EXCEPT ![s] = @ + 1]
    BY <1>0 DEF Deliver, waiting
  <1>2. /\ sent'[s] = sent[s] + 1 /\ sent[s] \in Nat
        /\ \A x \in Session \ {s} : sent'[x] = sent[x]
    BY <1>1 DEF IInv, TypeOK, DiskTypes
  <1>3. /\ pc'[Pump] = pc[Pump] /\ pc'[t] \in {"idle", "count"}
        /\ pc'[t] = "count" =>
             /\ handles[s] = None /\ job'[t].cause = "message" /\ job'[t].sid = s
             /\ job'[t].from = sent[s]
        /\ handles[s] = None => pc'[t] = "count"
    <2>0. pc \in [Thread -> Pcs] /\ DOMAIN job = Thread
      BY DEF IInv, TypeOK, ThreadTypes
    <2>1. CASE handles[s] # None
      BY <1>0, <1>1, <2>0, <2>1 DEF Deliver
    <2>2. CASE handles[s] = None
      <3>1. /\ pc' = [pc EXCEPT ![t] = "count"]
            /\ job' = [job EXCEPT ![t] = [sid |-> s, cause |-> "message", from |-> sent[s]]]
        BY <1>0, <2>2 DEF Deliver, Goto
      <3> QED BY <1>0, <2>0, <2>2, <3>1
    <2> QED BY <2>1, <2>2
  <1>4. Plain'
    BY <1>0, <1>1, <1>3 DEF Inbox, Plain, Going
  <1>5. Asks'
    <2> SUFFICES ASSUME pc'[t] = "count"
                 PROVE  LET j == job'[t] IN
                        /\ j.cause = "message" /\ j.from \in Nat /\ j.from + 1 = sent'[j.sid]
                        /\ Len(handed'[j.sid]) <= j.from /\ handles'[j.sid] = None
      BY <1>0, <1>3 DEF Asks, Going, Upto
    <2>1. Upto(s) <= sent[s]
      BY DEF Inbox, Told
    <2> QED BY <1>1, <1>2, <1>3, <2>1 DEF Upto
  <1>6. ASSUME NEW x \in Session, x # s PROVE Told(x)'
    <2>1. sent'[x] = sent[x] /\ mark'[x] = mark[x] /\ handed'[x] = handed[x] /\ Told(x)
      BY <1>1, <1>2, <1>6 DEF Inbox
    <2>2. \A r \in RunId : Reread(r)
      BY <1>1 DEF Reread
    <2>3. \A u \in Caller : pc[u] \notin Going
      BY <1>0, <1>1 DEF Going
    <2> QED BY <2>1, <2>2, <2>3, ToldStays
  <1>7. Told(s)'
    <2>1. Told(s) /\ Upto(s) \in Nat
      BY DEF Inbox, Upto, IInv, TypeOK, OtherTypes
    <2>2. ASSUME NEW r \in RunId, run[r].sid = s PROVE Reads(r)'
      <3>1. Reads(r) /\ run[r].seen \in Nat
        BY <2>1, <2>2 DEF Told, IInv, TypeOK, SlotTypes, Runs
      <3> QED BY <1>1, <1>2, <2>2, <3>1 DEF Reads, AtMark, Upto, AtWork
    <2>3. Rests(s)'
      <3>1. CASE handles[s] = None
        <4>1. AtMark(s) /\ (mark[s] = None => sent[s] = 0)
          BY <1>0, <1>1, <2>1, <3>1, AtRestNow DEF Told, Rests, Going, Inbox
        <4> QED BY <1>1, <1>3, <3>1, <4>1 DEF Rests, AtMark, Upto, Going
      <3>2. CASE handles[s] # None
        BY <1>1, <3>2, HandleAtWork DEF Rests, AtWork, Inbox
      <3> QED BY <3>1, <3>2
    <2>4. Upto(s)' <= sent'[s] /\ \A k \in DOMAIN handed'[s] : handed'[s][k] = k
      BY <1>1, <1>2, <2>1 DEF Told, Upto
    <2> QED BY <1>1, <2>2, <2>3, <2>4 DEF Told
  <1> QED BY <1>4, <1>5, <1>6, <1>7 DEF Inbox

\* The launch claims the session for a run that starts at the message it was asked by.
LEMMA ClaimTells ==
  ASSUME OneInbox, IInv, Owners, Minding, Inbox, NEW t \in Caller, NEW r \in RunId, Claim(t, r)
  PROVE  Inbox'
  <1>0. /\ t \in Thread /\ t # Pump /\ \A u \in Caller : u = t
        /\ Reaped = handles
    BY ThreadAssumption, NoneReaped DEF Thread, OneInbox, Inbox
  <1> PICK s \in Session : s = job[t].sid
    BY <1>0 DEF Claim, IInv, ThreadsHaveWork, CallPcs, LaunchPcs, Job
  <1> DEFINE R == ClaimedRun(job[t], sent[s])
  <1>1. /\ pc[t] = "claim" /\ job[t] \in Job /\ sent[s] \in Nat
        /\ job[t].cause = "message" /\ job[t].from \in Nat /\ job[t].from + 1 = sent[s]
        /\ Upto(s) <= job[t].from /\ handles[s] = None
    BY <1>0 DEF Claim, Inbox, Asks, Going, IInv, TypeOK, DiskTypes, ThreadsHaveWork, CallPcs,
                LaunchPcs, Job
  <1>2. /\ R.sid = s /\ R.phase = "claimed" /\ R.cause = "message" /\ R.from = job[t].from
        /\ R.seen = sent[s] /\ ~ R.cancelled
    BY <1>1 DEF ClaimedRun, NoRun
  <1>3. /\ handles' = [handles EXCEPT ![s] = r] /\ pc' = [pc EXCEPT ![t] = "start"]
        /\ run' = [run EXCEPT ![r] = R] /\ run[r].phase = "none"
        /\ UNCHANGED <<status, sent, queue, todo, mark, job, handed>>
    BY <1>0 DEF Claim, Goto, FreshRun, disk, waiting, history
  <1> HIDE DEF R
  <1>4. /\ run'[r] = R /\ \A q \in RunId \ {r} : run'[q] = run[q]
        /\ pc'[t] = "start" /\ pc'[Pump] = pc[Pump]
    BY <1>0, <1>3 DEF IInv, TypeOK, SlotTypes, ThreadTypes
  <1>5. Plain'
    BY <1>0, <1>2, <1>3, <1>4 DEF Inbox, Plain
  <1>6. Asks'
    BY <1>0, <1>4 DEF Asks, Going
  <1>7. ASSUME NEW x \in Session, x # s PROVE Told(x)'
    <2>1. \A q \in RunId :
           \/ Reread(q)
           \/ /\ run[q].sid = x => ~ AtWork(q)
              /\ run'[q].sid = x => ~ AtWork(q)'
      BY <1>2, <1>3, <1>4, <1>7 DEF Reread, AtWork, Working
    <2>2. \A u \in Caller : job[u].sid # x
      BY <1>0, <1>7
    <2>3. Told(x) /\ sent'[x] = sent[x] /\ mark'[x] = mark[x] /\ handed'[x] = handed[x]
      BY <1>3, <1>7 DEF Inbox
    <2> QED BY <2>1, <2>2, <2>3, ToldStays
  <1>8. Told(s)'
    <2>1. \A q \in RunId : run[q].sid = s => ~ AtWork(q)
      BY <1>1, AtRestNow DEF Inbox
    <2>2. AtMark(s) /\ (mark[s] = None => job[t].from = 0)
      <3>1. Rests(s)
        BY <1>1 DEF Inbox, Told
      <3> QED BY <1>0, <1>1, <2>1, <3>1 DEF Rests
    <2>3. ASSUME NEW q \in RunId, run'[q].sid = s PROVE Reads(q)'
      <3>1. CASE q = r
        <4>1. Upto(s) < R.seen /\ R.seen <= sent[s] /\ Upto(s) \in Nat
          BY <1>1, <1>2 DEF Upto, IInv, TypeOK, OtherTypes
        <4> QED BY <1>1, <1>2, <1>3, <1>4, <2>2, <3>1, <4>1 DEF Reads, AtMark, Upto, Working
      <3>2. CASE q # r
        BY <1>4, <2>1, <2>3, <3>2 DEF Reads, AtWork, Working
      <3> QED BY <3>1, <3>2
    <2>4. Rests(s)'
      BY <1>2, <1>4 DEF Rests, AtWork
    <2>5. Upto(s)' <= sent'[s] /\ \A k \in DOMAIN handed'[s] : handed'[s][k] = k
      BY <1>1, <1>3 DEF Inbox, Told, Upto
    <2> QED BY <2>3, <2>4, <2>5, <1>3 DEF Told
  <1> QED BY <1>5, <1>6, <1>7, <1>8 DEF Inbox

LEMMA CallsTell ==
  ASSUME OneInbox, IInv, Owners, Minding, Inbox, NEW t \in Caller,
         CallBegins(t) \/ CallStep(t)
  PROVE  Inbox'
  <1>0. /\ t \in Thread /\ t # Pump /\ \A u \in Caller : u = t
        /\ Reaped = handles
    BY ThreadAssumption, NoneReaped DEF Thread, OneInbox, Inbox
  <1>1. \/ \E s \in Session : Deliver(t, s)
        \/ Count(t) \/ LaunchClear(t) \/ \E r \in RunId : Claim(t, r)
        \/ LaunchStart(t) \/ LaunchAttach(t)
    <2>1. pc[t] \in {"idle", "count", "launch", "claim", "start", "attach"}
      BY DEF Inbox, Plain, Going
    <2>2. CASE CallBegins(t)
      BY <2>2 DEF CallBegins, BeginSpawn, BeginSend, BeginChild, KillCancel, Calls, OneInbox
    <2>3. CASE CallStep(t)
      <3>1. ~ LoseClaim(t)
        BY <1>0 DEF LoseClaim, Inbox, Asks, Going
      <3>2. ~ EnqueueStep(t) /\ ~ KillStep(t)
        BY <2>1 DEF EnqueueStep, MarkQueued, Persist, Push, KillStep, KillWait, KillFree, KillQueue,
                    KillClear, KillMark
      <3>3. ~ SendCheck(t) /\ ~ Unstaff(t) /\ ~ LaunchFailed(t) /\ \A s \in Session : ~ Create(t, s)
        BY <2>1 DEF SendCheck, Unstaff, LaunchFailed, Create
      <3> QED BY <2>3, <3>1, <3>2, <3>3 DEF CallStep, LaunchStep
    <2> QED BY <2>2, <2>3
  <1>2. CASE Count(t)
    <2>1. pc[t] = "count" /\ job[t].sid \in Session /\ handles[job[t].sid] = None
      BY <1>0, <1>2 DEF Count, Inbox, Asks, Going, IInv, ThreadsHaveWork, CallPcs, Job
    <2>2. ~ Full(handles)
      BY <2>1, NotFull
    <2>3. /\ pc' = [pc EXCEPT ![t] = "launch"]
          /\ UNCHANGED <<status, sent, mark, handed, run, queue, todo, handles, job>>
      BY <1>0, <1>2, <2>2 DEF Count, Goto, disk, waiting, local, history
    <2>4. pc'[t] = "launch" /\ pc'[Pump] = pc[Pump]
      BY <1>0, <2>3 DEF IInv, TypeOK, ThreadTypes
    <2> QED BY <1>0, <2>1, <2>3, <2>4, ThreadTold DEF Inbox, Plain, Reread, Going
  <1>3. CASE LaunchClear(t)
    <2>1. /\ pc[t] = "launch" /\ pc' = [pc EXCEPT ![t] = "claim"]
          /\ UNCHANGED <<status, sent, mark, handed, run, queue, todo, handles, job>>
      BY <1>3 DEF LaunchClear, Goto, slots, waiting, local, history
    <2>2. pc'[t] = "claim" /\ pc'[Pump] = pc[Pump]
      BY <1>0, <2>1 DEF IInv, TypeOK, ThreadTypes
    <2> QED BY <1>0, <2>1, <2>2, ThreadTold DEF Inbox, Plain, Reread, Going
  <1>4. CASE LaunchAttach(t)
    <2>1. /\ pc[t] = "attach" /\ pc' = [pc EXCEPT ![t] = "idle"]
          /\ UNCHANGED <<status, sent, mark, handed, queue, todo, handles>>
          /\ run' = [run EXCEPT ![held[t]] =
                       [@ EXCEPT !.attached = (handles[job[t].sid] = held[t])]]
      BY <1>0, <1>4 DEF LaunchAttach, Goto, Finish, disk, waiting, history
    <2>2. pc'[t] = "idle" /\ pc'[Pump] = pc[Pump]
      BY <1>0, <2>1 DEF IInv, TypeOK, ThreadTypes
    <2>3. \A r \in RunId : Reread(r) /\ run'[r].cancelled = run[r].cancelled
                                     /\ run'[r].cause = run[r].cause
      BY <2>1 DEF Reread, IInv, TypeOK, SlotTypes, Runs
    <2> QED BY <1>0, <2>1, <2>2, <2>3, ThreadTold DEF Inbox, Plain, Going
  <1>5. CASE LaunchStart(t)
    <2> DEFINE r == held[t]
    <2>1. /\ pc[t] = "start" /\ pc' = [pc EXCEPT ![t] = "attach"]
          /\ UNCHANGED <<sent, mark, handed, queue, todo, handles, job>>
          /\ status' = [status EXCEPT ![job[t].sid] = "Active"] /\ Move(r, "spawned")
      BY <1>5 DEF LaunchStart, Goto, SetStatus, waiting, local, history
    <2>2. r \in RunId /\ run[r].phase = "claimed" /\ AtWork(r)
      BY <1>0, <2>1 DEF IInv, ThreadsHaveWork, StartsAreClaimed, AtWork
    <2>3. /\ Stepped(r, "spawned") /\ run'[r].from = run[r].from /\ run'[r].seen = run[r].seen
          /\ run'[r].cause = run[r].cause
      BY <2>1, <2>2 DEF Move, Stepped, IInv, TypeOK, SlotTypes, Runs
    <2>4. pc'[t] = "attach" /\ pc'[Pump] = pc[Pump]
      BY <1>0, <2>1 DEF IInv, TypeOK, ThreadTypes
    <2>5. Plain'
      <3>1. \A s \in Session : status'[s] # "Queued"
        BY <2>1 DEF Inbox, Plain, IInv, TypeOK, DiskTypes
      <3>2. \A q \in RunId : /\ ~ run'[q].cancelled
                             /\ run'[q].phase # "none" => run'[q].cause = "message"
        BY <2>2, <2>3 DEF Inbox, Plain, Stepped
      <3> QED BY <1>0, <2>1, <2>4, <3>1, <3>2 DEF Inbox, Plain
    <2>6. Asks'
      BY <1>0, <2>4 DEF Asks, Going
    <2>7. ASSUME NEW s \in Session PROVE Told(s)'
      <3>1. Told(s)
        BY DEF Inbox
      <3>2. ASSUME NEW q \in RunId, run'[q].sid = s PROVE Reads(q)'
        <4>1. Reads(q) /\ run[q].sid = s
          BY <2>3, <3>1, <3>2 DEF Told, Stepped
        <4>2. CASE q = r
          BY <2>1, <2>2, <2>3, <3>2, <4>1, <4>2 DEF Reads, Stepped, AtMark, Upto, AtWork, Working
        <4>3. CASE q # r
          BY <2>1, <2>2, <2>3, <3>2, <4>1, <4>3 DEF Reads, Stepped, AtMark, Upto, AtWork
        <4> QED BY <4>2, <4>3
      <3>3. Rests(s)'
        <4> SUFFICES ASSUME \A q \in RunId : run'[q].sid = s => ~ AtWork(q)' PROVE Rests(s)'
          BY DEF Rests
        <4>1. \A q \in RunId : run[q].sid = s => ~ AtWork(q)
          BY <2>2, <2>3 DEF Stepped, AtWork, Working
        <4>2. AtMark(s) /\ (mark[s] = None => sent[s] = 0)
          BY <1>0, <2>1, <3>1, <4>1 DEF Told, Rests, Going
        <4> QED BY <2>1, <4>2 DEF Rests, AtMark, Upto
      <3> QED BY <2>1, <3>1, <3>2, <3>3 DEF Told, Upto
    <2> QED BY <2>5, <2>6, <2>7 DEF Inbox
  <1> QED BY <1>1, <1>2, <1>3, <1>4, <1>5, DeliverTells, ClaimTells

\* What it means to read, for a run that is in the phase p.
LEMMA RunTells ==
  ASSUME OneInbox, IInv, Owners, Minding, Inbox, NEW r \in RunId, AtWork(r),
         RunStep(r) \/ TurnEnds(r)
  PROVE  Inbox'
  <1>0. PICK s \in Session : s = run[r].sid
    BY OneAtWork DEF Inbox
  <1>1. /\ Told(s) /\ Reads(r) /\ run[r].seen <= sent[s] /\ run[r].cause = "message"
        /\ ~ run[r].cancelled
    BY <1>0 DEF Inbox, Told, Reads, Plain, AtWork, Working
  <1>2. /\ run[r] \in Runs /\ run \in [RunId -> Runs] /\ sent[s] \in Nat /\ run[r].seen \in Nat
        /\ run[r].lo \in Nat /\ run[r].hi \in Nat
        /\ handed[s] \in Seq(Nat) /\ Upto(s) \in Nat /\ Upto(s) = Len(handed[s])
        /\ mark \in [Session -> Nat \cup {None}] /\ handed \in [Session -> Seq(Nat)]
        /\ status \in [Session -> Statuses]
        /\ \A x \in Session : status[x] # "Queued"
    BY DEF IInv, TypeOK, SlotTypes, Runs, DiskTypes, OtherTypes, WaitTypes, Upto, Inbox, Plain
  <1>3. Len(handed[s]) <= sent[s] /\ \A k \in DOMAIN handed[s] : handed[s][k] = k
    BY <1>1 DEF Told, Upto
  <1>4. /\ RunStep(r) => UNCHANGED <<pc, job, queue, todo, sent>>
        /\ TurnEnds(r) => UNCHANGED <<pc, job, queue, todo, sent, status, handles>>
    BY DEF RunStep, Begin, StartTurn, LastLook, Release, EndRelease, EndRead, EndRepair, EndNotify,
           TurnEnds, TurnCompleted, TurnStops, disk, waiting, local
  <1> DEFINE Still == UNCHANGED <<pc, job, queue, todo, sent>>
  <1>13. {"ready", "turn", "looking", "settling", "over"} \subseteq Phases
    BY DEF Phases, Working, TaskOver
  <1>5. ASSUME GoOn(r), run[r].phase \in {"turn", "looking"}, sent[s] > run[r].seen,
               UNCHANGED <<pc, job, queue, todo, sent, status, handles, handed>>
        PROVE  Inbox'
    <2>1. mark[s] = run[r].seen /\ Upto(s) = run[r].seen
      BY <1>0, <1>1, <1>5 DEF Reads
    <2>2. CASE run[r].turns >= MaxTurns
      <3>1. /\ Stepped(r, "settling") /\ run'[r].seen = run[r].seen /\ run'[r].cause = run[r].cause
            /\ mark' = [mark EXCEPT ![s] = run[r].seen]
        BY <1>0, <1>5, <2>2, SettlesReads DEF GoOn
      <3>2. mark'[s] = run[r].seen /\ \A x \in Session \ {s} : mark'[x] = mark[x]
        BY <1>2, <3>1
      <3>3. Reads(r)'
        BY <1>0, <1>1, <1>2, <1>5, <2>1, <3>1, <3>2 DEF Reads, Stepped, Upto, AtWork, Working
      <3>4. AtWork(r)'
        BY <3>1 DEF Stepped, AtWork, Working
      <3> QED BY <1>0, <1>2, <1>3, <1>5, <3>1, <3>2, <3>3, <3>4, CountAssumption, RunTold
              DEF Phases, Working
    <2>3. CASE ~ run[r].turns >= MaxTurns
      <3>1. /\ Stepped(r, "ready") /\ run'[r].seen = sent[s] /\ run'[r].cause = run[r].cause
            /\ run'[r].lo = run[r].seen /\ run'[r].hi = sent[s]
            /\ mark' = [mark EXCEPT ![s] = sent[s]]
        <4>1. mark' = [mark EXCEPT ![s] = sent[s]]
          BY <1>0, <1>5, <2>3 DEF GoOn
        <4> DEFINE R == [run[r] EXCEPT !.phase = "ready", !.turns = run[r].turns + 1,
                                       !.lo = run[r].seen, !.hi = sent[run[r].sid],
                                       !.seen = sent[run[r].sid]]
        <4>2. R.phase = "ready" /\ run' = [run EXCEPT ![r] = R]
          BY <1>2, <1>5, <2>3 DEF GoOn, Runs
        <4> HIDE DEF R
        <4>3. run'[r].phase # "settling"
          BY <1>2, <4>2
        <4> QED BY <1>0, <1>5, <4>1, <4>3, GoOnReads DEF Stepped
      <3>2. mark'[s] = sent[s] /\ \A x \in Session \ {s} : mark'[x] = mark[x]
        BY <1>2, <3>1
      <3>3. Reads(r)'
        BY <1>0, <1>1, <1>2, <1>5, <2>1, <3>1, <3>2 DEF Reads, Stepped, Upto, AtWork, Working
      <3>4. AtWork(r)'
        BY <3>1 DEF Stepped, AtWork, Working
      <3> QED BY <1>0, <1>2, <1>3, <1>5, <3>1, <3>2, <3>3, <3>4, CountAssumption, RunTold
              DEF Phases, Working
    <2> QED BY <2>2, <2>3
  <1>6. CASE Begin(r)
    <2>0. Still
      BY <1>4, <1>6 DEF RunStep
    <2>1. /\ run[r].phase = "spawned" /\ TakesInput(r) /\ handles' = handles /\ handed' = handed
          /\ status' = [status EXCEPT ![s] = "Active"]
          /\ IF From(run[r]) = None THEN UNCHANGED mark
             ELSE mark' = [mark EXCEPT ![s] = run[r].seen]
      BY <1>0, <1>1, <1>6 DEF Begin, SetStatus, history
    <2>2. /\ AtMark(s) /\ (mark[s] = None => run[r].from = 0) /\ Upto(s) < run[r].seen
      BY <1>0, <1>1, <2>1 DEF Reads
    <2>3. From(run[r]) = Upto(s)
      BY <1>0, <1>2, <2>2, CountAssumption DEF From, AtMark
    <2>4. FirstInput(run[r]).lo = Upto(s) /\ FirstInput(run[r]).hi = run[r].seen
      BY <1>2, <2>2, <2>3, CountAssumption DEF FirstInput
    <2>5. mark' = [mark EXCEPT ![s] = run[r].seen]
      BY <1>2, <2>1, <2>3, CountAssumption
    <2>6. mark'[s] = run[r].seen /\ \A x \in Session \ {s} : mark'[x] = mark[x]
      BY <1>2, <2>5
    <2>7. /\ Stepped(r, "ready") /\ run'[r].seen = run[r].seen /\ run'[r].cause = run[r].cause
          /\ run'[r].lo = Upto(s) /\ run'[r].hi = run[r].seen
      <3>1. run'[r].lo = FirstInput(run[r]).lo /\ run'[r].hi = FirstInput(run[r]).hi
        BY <1>2, <2>1 DEF TakesInput, Runs
      <3> QED BY <2>1, <2>4, <3>1, TakesReads
    <2>8. Reads(r)'
      BY <1>0, <1>1, <1>2, <2>0, <2>1, <2>2, <2>6, <2>7
         DEF Reads, Stepped, Upto, AtWork, Working
    <2>9. AtWork(r)' /\ \A x \in Session : status'[x] # "Queued"
      BY <1>2, <2>1, <2>7 DEF Stepped, AtWork, Working
    <2>10. /\ mark'[s] # None /\ Len(handed'[s]) <= sent[s]
           /\ \A k \in DOMAIN handed'[s] : handed'[s][k] = k
           /\ \A x \in Session \ {s} : mark'[x] = mark[x] /\ handed'[x] = handed[x]
      BY <1>2, <1>3, <2>1, <2>6, CountAssumption
    <2>11. handles' = handles /\ run'[r].cause = run[r].cause /\ Stepped(r, "ready")
      BY <2>1, <2>7
    <2> QED BY <1>0, <1>13, <2>0, <2>8, <2>9, <2>10, <2>11, RunTold
  <1>7. CASE StartTurn(r)
    <2>0. Still
      BY <1>4, <1>7 DEF RunStep
    <2> DEFINE n == run[r].hi - run[r].lo
    <2>1. /\ run[r].phase = "ready" /\ Move(r, "turn") /\ UNCHANGED <<handles, mark, status>>
          /\ handed' = [handed EXCEPT ![s] = @ \o [k \in 1..n |-> run[r].lo + k]]
      BY <1>0, <1>7 DEF StartTurn, disk
    <2>2. /\ mark[s] = run[r].seen /\ run[r].lo = Upto(s) /\ run[r].hi = run[r].seen
          /\ run[r].lo <= run[r].hi
      BY <1>0, <1>1, <2>1 DEF Reads
    <2>3. n \in Nat
      BY <1>2, <2>2
    <2>4. /\ handed'[s] = handed[s] \o [k \in 1..n |-> Len(handed[s]) + k]
          /\ \A x \in Session \ {s} : handed'[x] = handed[x]
      BY <1>2, <2>1, <2>2
    <2> HIDE DEF n
    <2>5. Len(handed'[s]) = Len(handed[s]) + n /\ \A k \in DOMAIN handed'[s] : handed'[s][k] = k
      BY <1>2, <1>3, <2>3, <2>4, HandedOn
    <2>6. Len(handed'[s]) = run[r].seen
      BY <1>2, <2>2, <2>5 DEF n
    <2>7. /\ Stepped(r, "turn") /\ run'[r].seen = run[r].seen /\ run'[r].cause = run[r].cause
      BY <2>1, MoveReads DEF Phases, Working
    <2>8. Reads(r)'
      BY <1>0, <1>1, <2>0, <2>1, <2>2, <2>6, <2>7
         DEF Reads, Stepped, Upto, AtWork, Working
    <2>9. AtWork(r)'
      BY <2>7 DEF Stepped, AtWork, Working
    <2>10. /\ mark'[s] # None /\ Len(handed'[s]) <= sent[s]
           /\ \A x \in Session \ {s} : mark'[x] = mark[x] /\ handed'[x] = handed[x]
           /\ \A x \in Session : status'[x] # "Queued"
      BY <1>1, <1>2, <2>1, <2>2, <2>4, <2>6, CountAssumption
    <2>11. handles' = handles /\ run'[r].cause = run[r].cause /\ Stepped(r, "turn")
      BY <2>1, <2>7
    <2> QED BY <1>0, <1>13, <2>0, <2>5, <2>8, <2>9, <2>10, <2>11, RunTold
  <1>8. CASE LastLook(r)
    <2>0. Still
      BY <1>4, <1>8 DEF RunStep
    <2>1. CASE Fresh(r)
      BY <1>0, <1>4, <1>5, <1>8, <2>1 DEF LastLook, Fresh, RunStep, history
    <2>2. CASE ~ Fresh(r)
      <3>1. /\ run[r].phase = "looking" /\ mark' = [mark EXCEPT ![s] = sent[s]]
            /\ status' = [status EXCEPT ![s] = Settled(r, "Done")]
            /\ handles' = Freed(s, r) /\ handed' = handed
            /\ run' = [run EXCEPT ![r] = [@ EXCEPT !.phase = "over", !.done = TRUE]]
        BY <1>0, <1>8, <2>2 DEF LastLook, SetStatus, history
      <3>2. Upto(s) = run[r].seen /\ run[r].seen = sent[s]
        BY <1>0, <1>1, <1>2, <2>2, <3>1 DEF Reads, Fresh
      <3>3. /\ mark'[s] = Len(handed[s]) /\ \A x \in Session \ {s} : mark'[x] = mark[x]
        BY <1>2, <3>1, <3>2
      <3>4. Stepped(r, "over") /\ run'[r].cause = run[r].cause
        BY <3>1, OverReads
      <3>5. Reads(r)' /\ ~ AtWork(r)'
        BY <3>4 DEF Stepped, Reads, AtWork, Working
      <3>6. \A x \in Session : status'[x] # "Queued"
        BY <1>2, <3>1 DEF Settled
      <3> QED BY <1>0, <1>2, <1>3, <1>13, <2>0, <3>1, <3>3, <3>4, <3>5, <3>6, CountAssumption,
                 RunTold
    <2> QED BY <2>1, <2>2
  <1>9. CASE Release(r)
    <2>0. Still
      BY <1>4, <1>9 DEF RunStep
    <2>1. /\ run[r].phase = "settling" /\ Move(r, "over") /\ handles' = Freed(s, r)
          /\ status' = [status EXCEPT ![s] = Settled(r, run[r].want)]
          /\ UNCHANGED <<mark, handed>>
      BY <1>0, <1>9 DEF Release, SetStatus, history, Forgive
    <2>2. mark[s] = Len(handed[s])
      BY <1>0, <1>1, <1>2, <2>1 DEF Reads
    <2>3. Stepped(r, "over") /\ run'[r].cause = run[r].cause
      BY <2>1, MoveReads DEF Phases, TaskOver
    <2>4. Reads(r)' /\ ~ AtWork(r)'
      BY <2>3 DEF Stepped, Reads, AtWork, Working
    <2>5. \A x \in Session : status'[x] # "Queued"
      BY <1>2, <2>1 DEF Settled, Minding, SettlesFor
    <2> QED BY <1>0, <1>2, <1>3, <1>13, <2>0, <2>1, <2>2, <2>3, <2>4, <2>5, CountAssumption, RunTold
  <1>10. CASE TurnCompleted(r)
    <2>0. Still
      BY <1>4, <1>10 DEF TurnEnds
    <2>1. CASE Fresh(r)
      BY <1>0, <1>1, <1>4, <1>5, <1>10, <2>1 DEF TurnCompleted, Fresh, TurnEnds, history
    <2>2. CASE ~ Fresh(r)
      <3>1. run[r].phase = "turn" /\ Move(r, "looking") /\ UNCHANGED <<mark, handed>>
        BY <1>1, <1>10, <2>2 DEF TurnCompleted, history
      <3>2. mark[s] = run[r].seen /\ Upto(s) = run[r].seen
        BY <1>0, <1>1, <3>1 DEF Reads
      <3>3. Stepped(r, "looking") /\ run'[r].seen = run[r].seen /\ run'[r].cause = run[r].cause
        BY <3>1, MoveReads DEF Phases, Working
      <3>4. Reads(r)' /\ AtWork(r)'
        BY <1>0, <1>1, <2>0, <3>1, <3>2, <3>3
           DEF Reads, Stepped, Upto, AtWork, Working
      <3>5. /\ mark'[s] # None /\ Len(handed'[s]) <= sent[s]
            /\ \A k \in DOMAIN handed'[s] : handed'[s][k] = k
            /\ \A x \in Session \ {s} : mark'[x] = mark[x] /\ handed'[x] = handed[x]
            /\ \A x \in Session : status'[x] # "Queued"
            /\ handles' = handles
        BY <1>2, <1>3, <1>4, <1>10, <3>1, <3>2, CountAssumption DEF TurnEnds
      <3> QED BY <1>0, <1>13, <2>0, <3>3, <3>4, <3>5, RunTold
    <2> QED BY <2>1, <2>2
  <1>11. CASE \E o \in AllOutcomes : TurnStops(r, o)
    <2>0. Still
      BY <1>4, <1>11 DEF TurnEnds
    <2>1. PICK o \in AllOutcomes : TurnStops(r, o)
      BY <1>11
    <2>2. /\ run[r].phase = "turn" /\ UNCHANGED <<mark, handed>>
          /\ Stepped(r, "settling") /\ run'[r].seen = run[r].seen /\ run'[r].cause = run[r].cause
      BY <2>1, SettlesReads DEF TurnStops, history
    <2>3. mark[s] = run[r].seen /\ Upto(s) = run[r].seen
      BY <1>0, <1>1, <2>2 DEF Reads
    <2>4. Reads(r)' /\ AtWork(r)'
      BY <1>0, <1>1, <2>0, <2>2, <2>3
         DEF Reads, Stepped, Upto, AtWork, Working
    <2>5. /\ mark'[s] # None /\ Len(handed'[s]) <= sent[s]
          /\ \A k \in DOMAIN handed'[s] : handed'[s][k] = k
          /\ \A x \in Session \ {s} : mark'[x] = mark[x] /\ handed'[x] = handed[x]
          /\ \A x \in Session : status'[x] # "Queued"
          /\ handles' = handles
      BY <1>2, <1>3, <1>4, <1>11, <2>2, <2>3, CountAssumption DEF TurnEnds
    <2> QED BY <1>0, <1>13, <2>0, <2>2, <2>4, <2>5, RunTold
  <1>12. \/ Begin(r) \/ StartTurn(r) \/ LastLook(r) \/ Release(r) \/ TurnCompleted(r)
         \/ \E o \in AllOutcomes : TurnStops(r, o)
    BY DEF RunStep, TurnEnds, EndRelease, EndRead, EndRepair, EndNotify, AtWork, Working
  <1> QED BY <1>6, <1>7, <1>8, <1>9, <1>10, <1>11, <1>12

\* A run that is over ends: nothing that is read changes.
LEMMA EndsTell ==
  ASSUME OneInbox, IInv, Owners, Minding, Inbox, NEW r \in RunId, ~ AtWork(r),
         RunStep(r) \/ TurnEnds(r)
  PROVE  Inbox'
  <1>1. EndRelease(r) \/ EndRead(r) \/ EndRepair(r) \/ EndNotify(r)
    BY DEF RunStep, TurnEnds, Begin, StartTurn, LastLook, Release, TurnCompleted, TurnStops, AtWork,
           Working
  <1>2. /\ UNCHANGED <<pc, job, queue, todo, sent, mark, handed>>
        /\ handles' = handles \/ handles' = Freed(run[r].sid, r)
        /\ \A s \in Session : status'[s] = status[s] \/ status'[s] = "Idle"
    BY <1>1 DEF EndRelease, EndRead, EndRepair, EndNotify, SetStatus, disk, waiting, local, history,
                IInv, TypeOK, DiskTypes
  <1>3. /\ \A q \in RunId \ {r} : run'[q] = run[q]
        /\ run'[r].phase \in {"none", "repair", "repairing", "notify"}
        /\ ~ run'[r].cancelled
        /\ run'[r].phase # "none" => run'[r].cause = "message"
    <2>1. run[r] \in Runs /\ run \in [RunId -> Runs] /\ ~ run[r].cancelled
      BY DEF IInv, TypeOK, SlotTypes, Inbox, Plain
    <2>2. CASE EndNotify(r)
      BY <2>1, <2>2 DEF EndNotify, NoRun
    <2>3. CASE EndRelease(r) \/ EndRead(r) \/ EndRepair(r)
      <3>1. PICK p \in {"repair", "repairing", "notify"} : Move(r, p)
        BY <2>3 DEF EndRelease, EndRead, EndRepair
      <3>2. p \in Phases
        BY DEF Phases, TaskOver
      <3>3. Stepped(r, p) /\ run'[r].cause = run[r].cause
        BY <3>1, <3>2, MoveReads
      <3>4. run[r].phase # "none"
        BY <2>3 DEF EndRelease, EndRead, EndRepair
      <3> QED BY <2>1, <3>3, <3>4 DEF Stepped, Inbox, Plain
    <2> QED BY <1>1, <2>2, <2>3
  <1>4. \A s \in Session : handles[s] = None => handles'[s] = None
    BY <1>2 DEF Freed, IInv, TypeOK, SlotTypes
  <1>5. Plain'
    BY <1>2, <1>3 DEF Inbox, Plain
  <1>6. Asks'
    <2>1. ASSUME NEW t \in Caller, pc[t] \in Going PROVE handles'[job[t].sid] = None
      <3>1. job[t].sid \in Session
        BY <2>1 DEF Going, IInv, ThreadsHaveWork, CallPcs, LaunchPcs, Thread, Job
      <3> QED BY <1>4, <2>1, <3>1 DEF Inbox, Asks
    <2> QED BY <1>2, <2>1 DEF Inbox, Asks, Upto
  <1>7. ASSUME NEW s \in Session PROVE Told(s)'
    <2>1. \A q \in RunId :
           \/ Reread(q)
           \/ /\ run[q].sid = s => ~ AtWork(q)
              /\ run'[q].sid = s => ~ AtWork(q)'
      BY <1>3 DEF Reread, AtWork, Working
    <2> QED BY <1>2, <2>1, ToldStays DEF Inbox
  <1> QED BY <1>5, <1>6, <1>7 DEF Inbox

LEMMA InboxKept ==
  ASSUME OneInbox, IInv, Owners, Minding, Inbox, Next PROVE Inbox'
  <1>1. ~ Fault
    <2>1. \A t \in Caller : pc[t] # "killwait"
      BY DEF Inbox, Plain, Going
    <2> QED BY <2>1 DEF Fault, Crash, LaunchFails, KillAbort, Dropped, RunDies, BudgetHit, OneInbox
  <1> QED BY <1>1, CallsTell, PumpTells, RunTells, EndsTell DEF Next

LEMMA InboxStarts == Init => Inbox
  <1> SUFFICES ASSUME Init PROVE Inbox
    OBVIOUS
  <1>1. /\ \A r \in RunId : run[r] = NoRun
        /\ \A s \in Session : status[s] \in {"Idle", "Absent"} /\ sent[s] = 0 /\ mark[s] = None
                              /\ handed[s] = << >>
        /\ queue = {} /\ todo = {} /\ pc[Pump] = "recover"
        /\ \A t \in Caller : pc[t] = "idle"
    BY ThreadAssumption DEF Init, Thread
  <1>2. Plain /\ Asks
    BY <1>1 DEF Plain, Asks, Going, NoRun
  <1>3. \A s \in Session : Told(s)
    BY <1>1 DEF Told, Reads, Rests, AtMark, Upto, AtWork, Working, NoRun
  <1> QED BY <1>2, <1>3 DEF Inbox

\* The agent is handed the messages in the order they were sent, each once and none left
\* out, however its turns end, while one caller sends them and there is a slot for every
\* session: the launch reads from the message it was asked by, a run marks what it takes
\* before it hands it over, and the next one goes on from the mark (run.rs).
THEOREM HandedInOrder == ASSUME OneInbox PROVE Spec => []InOrder
  <1> DEFINE Inv == IInv /\ Owners /\ Launchers /\ Minding /\ Inbox
  <1>0. NothingDies
    BY DEF OneInbox, NothingDies
  <1>1. Init => Inv
    BY InitHolds, OwnersStart, MindingStarts, InboxStarts
  <1>2. Inv /\ IInv' /\ [Next]_vars => Inv'
    <2> SUFFICES ASSUME Inv, IInv', [Next]_vars PROVE Inv'
      OBVIOUS
    <2>1. CASE Next
      BY <1>0, <2>1, OwnersKeep, MindingKept, InboxKept
    <2>2. CASE UNCHANGED vars
      <3>1. Minding'
        BY <2>2 DEF vars, disk, slots, waiting, local, bounds, history, Minding, StopsKnow,
             OverIsStopped, SettlesFor, CopiesAreOwn, OnlySpawnCreates
      <3>2. Plain' /\ Asks'
        BY <2>2 DEF vars, disk, slots, waiting, local, bounds, history, Inbox, Plain, Asks, Upto
      <3>3. \A s \in Session : Told(s)'
        BY <2>2, ToldStays DEF vars, disk, slots, waiting, local, bounds, history, Inbox, Reread
      <3> QED BY <3>1, <3>2, <3>3, <2>2, OwnersKeep DEF Inbox
    <2> QED BY <2>1, <2>2
  <1>3. Inv => InOrder
    BY DEF Inbox, Told, InOrder
  <1> QED BY <1>1, <1>2, <1>3, Inductive, PTL DEF Spec

(***************************************************************************)
(* The slots keep their contract                                           *)
(***************************************************************************)
\* A run that is not at work, or was told to stop, has no right to its slot.
LEMMA NoRight ==
  ASSUME NEW s \in Session, IInv,
         handles[s] = None \/ ~ AtWork(handles[s]) \/ run[handles[s]].cancelled
  PROVE  Contract!Unheld(s)
  <1>1. handles[s] \in RunId \cup {None}
    BY DEF IInv, TypeOK, SlotTypes
  <1>2. CASE handles[s] = None
    BY <1>2 DEF Contract!Unheld
  <1>3. CASE handles[s] \in RunId /\ ~ AtWork(handles[s])
    BY <1>3, NoneAssumption DEF Contract!Unheld, WorkOf
  <1>4. CASE handles[s] \in RunId /\ AtWork(handles[s]) /\ run[handles[s]].cancelled
    BY <1>4 DEF Contract!Unheld, ToldToStop
  <1> QED BY <1>1, <1>2, <1>3, <1>4

\* A step in which nobody comes to work, leaves it or is told to stop.
SameWork ==
  \A r \in RunId :
    /\ run'[r].cancelled = run[r].cancelled /\ run'[r].sid = run[r].sid
    /\ AtWork(r)' <=> AtWork(r)

LEMMA WorkStays ==
  ASSUME SameWork PROVE WorkOf' = WorkOf /\ ToldToStop' = ToldToStop
  BY DEF SameWork, WorkOf, ToldToStop

\* Such a step may free slots that nobody has a right to.
LEMMA FreesRefine ==
  ASSUME IInv, SameWork, handles' \in HandleMaps,
         \A s \in Session : handles'[s] # handles[s] =>
           handles'[s] = None /\ (~ AtWork(handles[s]) \/ run[handles[s]].cancelled)
  PROVE  [Contract!Next]_(Contract!vars)
  <1>1. Contract!Frees(Session)
    BY NoRight DEF Contract!Frees, HandleMaps
  <1> QED BY <1>1, WorkStays DEF Contract!GiveUp, Contract!Next

\* So does one that reaps the handles of the runs that are over.
LEMMA ReapedRefines ==
  ASSUME IInv, SameWork, handles' = handles \/ handles' = Reaped
  PROVE  [Contract!Next]_(Contract!vars)
  <1>1. handles \in HandleMaps /\ Reaped \in HandleMaps
    BY ReapedType DEF IInv, TypeOK, SlotTypes, HandleMaps
  <1>2. \A s \in Session : Reaped[s] # handles[s] => Reaped[s] = None /\ ~ AtWork(handles[s])
    BY DEF Reaped, Finished, AtWork, Working, TaskOver
  <1> QED BY <1>1, <1>2, FreesRefine

\* And one that gives up the slot of a run that is over or was stopped.
LEMMA FreedRefines ==
  ASSUME IInv, SameWork, NEW s \in Session, NEW r \in RunId,
         ~ AtWork(r) \/ run[r].cancelled,
         handles' = handles \/ handles' = Freed(s, r)
  PROVE  [Contract!Next]_(Contract!vars)
  <1>1. handles \in HandleMaps /\ Freed(s, r) \in HandleMaps
    BY FreedType DEF IInv, TypeOK, SlotTypes, HandleMaps
  <1>2. \A c \in Session : handles'[c] # handles[c] => handles'[c] = None /\ handles[c] = r
    BY <1>1 DEF Freed, HandleMaps
  <1> QED BY <1>1, <1>2, FreesRefine

LEMMA QuietRefines ==
  ASSUME IInv, Quiet PROVE [Contract!Next]_(Contract!vars)
  <1>1. SameWork
    BY DEF Quiet, SameWork, AtWork
  <1> QED BY <1>1, ReapedRefines DEF Quiet

\* A run that leaves its work, with its own slot or without.
LEMMA LeaveRefines ==
  ASSUME IInv, NEW r \in RunId, AtWork(r), ~ AtWork(r)',
         \A q \in RunId \ {r} : run'[q] = run[q],
         handles' = handles \/ handles' = Freed(run[r].sid, r)
  PROVE  Contract!Next
  <1>1. run[r].sid \in Session
    BY DEF IInv, RunsHaveSessions, AtWork, Working
  <1>2. WorkOf[r] = run[r].sid /\ WorkOf[r] # None
    BY <1>1, NoneAssumption DEF WorkOf
  <1>3. WorkOf' = [WorkOf EXCEPT ![r] = None] /\ ToldToStop' = ToldToStop \ {r}
    <2>1. \A q \in RunId \ {r} : (AtWork(q)' <=> AtWork(q)) /\ run'[q] = run[q]
      BY DEF AtWork
    <2>2. WorkOf' = [WorkOf EXCEPT ![r] = None]
      BY <2>1 DEF WorkOf
    <2>3. ToldToStop' = ToldToStop \ {r}
      BY <2>1 DEF ToldToStop
    <2> QED BY <2>2, <2>3
  <1>4. \/ UNCHANGED handles
        \/ handles[WorkOf[r]] = r /\ handles' = [handles EXCEPT ![WorkOf[r]] = None]
    BY <1>2 DEF Freed
  <1> QED BY <1>2, <1>3, <1>4 DEF Contract!Leave, Contract!Next

\* Every step of a run goes on with its work, leaves it, or comes after it.
LEMMA SteppedRefines ==
  ASSUME IInv, NEW r \in RunId, NEW p \in Working \cup TaskOver, Stepped(r, p),
         run[r].phase \in Working \cup TaskOver,
         p \in Working => run[r].phase \in Working /\ handles' = handles,
         handles' = handles \/ handles' = Freed(run[r].sid, r)
  PROVE  [Contract!Next]_(Contract!vars)
  <1>1. \A q \in RunId \ {r} : run'[q] = run[q]
    BY DEF Stepped
  <1>2. CASE run[r].phase \in Working /\ p \in TaskOver
    <2>1. AtWork(r) /\ ~ AtWork(r)'
      BY <1>2 DEF AtWork, Stepped, Working, TaskOver
    <2> QED BY <1>1, <2>1, LeaveRefines
  <1>3. CASE ~ (run[r].phase \in Working /\ p \in TaskOver)
    <2>1. SameWork
      BY <1>1, <1>3 DEF SameWork, Stepped, AtWork, Working, TaskOver
    <2>2. handles' = handles \/ ~ AtWork(r)
      BY <1>3 DEF AtWork, Working, TaskOver
    <2>3. CASE handles' = handles
      BY <2>1, <2>3, ReapedRefines
    <2>4. CASE ~ AtWork(r)
      <3>1. run[r].sid \in Session
        BY DEF IInv, RunsHaveSessions, Working, TaskOver
      <3> QED BY <2>1, <2>4, <3>1, FreedRefines
    <2> QED BY <2>2, <2>3, <2>4
  <1> QED BY <1>2, <1>3

LEMMA RunsRefine ==
  ASSUME IInv, NEW r \in RunId, RunStep(r) \/ TurnEnds(r) \/ RunDies(r) \/ BudgetHit(r)
  PROVE  [Contract!Next]_(Contract!vars)
  <1> USE DEF IInv, TypeOK, Working, TaskOver, Phases
  <1>1. run[r].phase # "none" => run[r].sid \in Session
    BY DEF RunsHaveSessions
  <1>2. handles \in HandleMaps /\ Freed(run[r].sid, r) \in HandleMaps
    BY FreedType DEF SlotTypes, HandleMaps
  <1>3. CASE Begin(r)
    <2>1. Stepped(r, "ready") \/ Stepped(r, "turn")
      BY <1>1, <1>2, <1>3, TakesInputSteps, MoveSteps DEF Begin, DiskTypes, WaitTypes, MarkMaps
    <2> QED BY <1>3, <2>1, SteppedRefines DEF Begin
  <1>4. CASE StartTurn(r)
    BY <1>2, <1>4, MoveSteps, SteppedRefines DEF StartTurn
  <1>5. CASE TurnCompleted(r)
    <2>1. Stepped(r, "ready") \/ Stepped(r, "settling") \/ Stepped(r, "looking")
      BY <1>1, <1>2, <1>5, GoOnSteps, SettlesSteps, MoveSteps
         DEF TurnCompleted, DiskTypes, WaitTypes, MarkMaps, Statuses
    <2> QED BY <1>5, <2>1, SteppedRefines DEF TurnCompleted
  <1>6. CASE LastLook(r)
    <2>1. CASE Fresh(r)
      <3>1. Stepped(r, "ready") \/ Stepped(r, "settling")
        BY <1>1, <1>2, <1>6, <2>1, GoOnSteps DEF LastLook, DiskTypes, WaitTypes, MarkMaps
      <3> QED BY <1>6, <2>1, <3>1, SteppedRefines DEF LastLook
    <2>2. CASE ~ Fresh(r)
      <3>1. Stepped(r, "over")
        <4> DEFINE R == [run[r] EXCEPT !.phase = "over", !.done = TRUE]
        <4>1. run[r] \in Runs
          BY DEF SlotTypes
        <4>2. R.phase = "over" /\ R.sid = run[r].sid /\ R.cancelled = run[r].cancelled
          BY <4>1 DEF Runs
        <4>3. run' = [run EXCEPT ![r] = R] /\ run \in [RunId -> Runs]
          BY <1>6, <2>2 DEF LastLook, SlotTypes
        <4> HIDE DEF R
        <4> QED BY <4>2, <4>3 DEF Stepped
      <3> QED BY <1>6, <2>2, <3>1, SteppedRefines DEF LastLook
    <2> QED BY <2>1, <2>2
  <1>7. CASE \E o \in AllOutcomes : TurnStops(r, o)
    <2>1. Stepped(r, "settling")
      BY <1>2, <1>7, SettlesSteps DEF TurnStops, Statuses
    <2> QED BY <1>7, <2>1, SteppedRefines DEF TurnStops
  <1>8. CASE BudgetHit(r)
    <2>1. Stepped(r, "settling")
      BY <1>2, <1>8, SettlesSteps DEF BudgetHit, Statuses
    <2> QED BY <1>8, <2>1, SteppedRefines DEF BudgetHit
  <1>9. CASE Release(r)
    BY <1>2, <1>9, MoveSteps, SteppedRefines DEF Release
  <1>10. CASE RunDies(r)
    BY <1>2, <1>10, MoveSteps, SteppedRefines DEF RunDies
  <1>11. CASE EndRelease(r)
    BY <1>2, <1>11, MoveSteps, SteppedRefines DEF EndRelease
  <1>12. CASE EndRead(r) \/ EndRepair(r)
    BY <1>2, <1>12, MoveSteps, SteppedRefines DEF EndRead, EndRepair
  <1>13. CASE EndNotify(r)
    <2>1. run[r].phase = "notify" /\ run' = [run EXCEPT ![r] = NoRun] /\ handles' = handles
      BY <1>13 DEF EndNotify
    <2>2. \A q \in RunId : (AtWork(q)' <=> AtWork(q)) /\ (AtWork(q) => run'[q] = run[q])
      BY <2>1 DEF AtWork, NoRun, SlotTypes
    <2>3. WorkOf' = WorkOf /\ ToldToStop' = ToldToStop
      BY <2>2 DEF WorkOf, ToldToStop
    <2> QED BY <2>1, <2>3 DEF Contract!vars
  <1> QED BY <1>3, <1>4, <1>5, <1>6, <1>7, <1>8, <1>9, <1>10, <1>11, <1>12, <1>13
          DEF RunStep, TurnEnds

\* The claim takes the slot for a run that was nowhere at work.
LEMMA ClaimRefines ==
  ASSUME IInv, NEW t \in Thread, NEW r \in RunId, Claim(t, r)
  PROVE  Contract!Next
  <1> DEFINE s == job[t].sid
  <1>1. /\ s \in Session /\ Reaped[s] = None /\ FreshRun(r) /\ ~ AtWork(r)
        /\ handles' = [Reaped EXCEPT ![s] = r]
    BY DEF Claim, IInv, ThreadsHaveWork, LaunchPcs, Job, FreshRun, AtWork, Working
  <1>2. /\ run' = [run EXCEPT ![r] = ClaimedRun(job[t], sent[s])]
        /\ AtWork(r)' /\ run'[r].sid = s /\ ~ run'[r].cancelled
        /\ \A q \in RunId \ {r} : run'[q] = run[q] /\ (AtWork(q)' <=> AtWork(q))
    BY DEF Claim, ClaimedRun, NoRun, IInv, TypeOK, SlotTypes, AtWork
  <1>3. WorkOf[r] = None /\ WorkOf' = [WorkOf EXCEPT ![r] = s] /\ ToldToStop' = ToldToStop
    <2>1. WorkOf[r] = None
      BY <1>1 DEF WorkOf
    <2> HIDE DEF s
    <2>2. WorkOf' = [WorkOf EXCEPT ![r] = s]
      <3>1. \A q \in RunId : WorkOf'[q] = IF q = r THEN s ELSE WorkOf[q]
        BY <1>2 DEF WorkOf
      <3>2. WorkOf' = [q \in RunId |-> WorkOf'[q]]
        BY DEF WorkOf
      <3>3. [WorkOf EXCEPT ![r] = s] = [q \in RunId |-> IF q = r THEN s ELSE WorkOf[q]]
        BY DEF WorkOf
      <3> QED BY <3>1, <3>2, <3>3
    <2>3. ToldToStop' = ToldToStop
      BY <1>1, <1>2 DEF ToldToStop
    <2> QED BY <2>1, <2>2, <2>3
  <1>4. \A c \in Session : Reaped[c] # handles[c] => Reaped[c] = None /\ ~ AtWork(handles[c])
    BY DEF Reaped, Finished, AtWork, Working, TaskOver
  <1>5. Reaped \in HandleMaps
    BY ReapedType DEF IInv, TypeOK
  <1>6. Contract!Unheld(s)
    BY <1>1, <1>4, NoRight
  <1>7. handles'[s] = r /\ Contract!Frees(Session \ {s})
    BY <1>1, <1>4, <1>5, NoRight DEF Contract!Frees, HandleMaps
  <1>8. Contract!Take(s, r)
    BY <1>1, <1>3, <1>6, <1>7 DEF Contract!Take, FreshRun
  <1> QED BY <1>1, <1>8 DEF Contract!Next

LEMMA LaunchesRefine ==
  ASSUME IInv, Owners, NEW t \in Thread,
         \/ \E r \in RunId : Claim(t, r)
         \/ LaunchStart(t) \/ LaunchAttach(t) \/ LaunchFails(t)
         \/ t \in Caller /\ Dropped(t)
  PROVE  [Contract!Next]_(Contract!vars)
  <1> USE DEF IInv, TypeOK
  <1>1. CASE \E r \in RunId : Claim(t, r)
    BY <1>1, ClaimRefines
  <1>2. CASE LaunchStart(t)
    <2>1. held[t] \in RunId /\ run[held[t]].phase = "claimed" /\ UNCHANGED handles
          /\ handles \in HandleMaps
      BY <1>2 DEF LaunchStart, ThreadsHaveWork, StartsAreClaimed, SlotTypes, HandleMaps
    <2>2. Stepped(held[t], "spawned")
      BY <1>2, <2>1, MoveSteps DEF LaunchStart, Phases, Working
    <2>3. SameWork
      BY <2>1, <2>2 DEF SameWork, Stepped, AtWork, Working
    <2> QED BY <2>1, <2>3, ReapedRefines
  <1>3. CASE LaunchAttach(t)
    <2>1. held[t] \in RunId /\ UNCHANGED handles
      BY <1>3 DEF LaunchAttach, ThreadsHaveWork
    <2>2. \A q \in RunId : /\ run'[q].sid = run[q].sid /\ run'[q].phase = run[q].phase
                           /\ run'[q].cancelled = run[q].cancelled
      BY <1>3, <2>1 DEF LaunchAttach, SlotTypes, Runs
    <2>3. SameWork
      BY <2>2 DEF SameWork, AtWork
    <2> QED BY <2>1, <2>3, ReapedRefines
  <1>4. CASE LaunchFails(t)
    <2>1. PICK r \in RunId : r = held[t]
      BY <1>4 DEF LaunchFails, ThreadsHaveWork
    <2>2. /\ run[r].sid = job[t].sid /\ AtWork(r)
          /\ handles' = Freed(run[r].sid, r)
          /\ run' = [run EXCEPT ![r] = NoRun]
      BY <1>4, <2>1 DEF LaunchFails, StartsAreClaimed, Owners, StartsHaveRuns, Startings, AtWork
    <2>3. ~ AtWork(r)' /\ \A q \in RunId \ {r} : run'[q] = run[q]
      BY <2>2 DEF AtWork, Working, NoRun, SlotTypes
    <2> QED BY <2>2, <2>3, LeaveRefines
  <1>5. CASE t \in Caller /\ Dropped(t)
    <2>1. UNCHANGED <<handles, run>>
      BY <1>5 DEF Dropped, slots
    <2>2. SameWork
      BY <2>1 DEF SameWork, AtWork
    <2> QED BY <2>1, <2>2, ReapedRefines
  <1> QED BY <1>1, <1>2, <1>3, <1>4, <1>5

\* A kill tells the run before it takes its slot.
LEMMA StopsRefine ==
  ASSUME IInv, NEW t \in Caller,
         \/ \E s \in Session : KillCancel(t, s)
         \/ KillAbort(t) \/ KillFree(t)
  PROVE  [Contract!Next]_(Contract!vars)
  <1> USE DEF IInv, TypeOK
  <1>0. t \in Thread
    BY DEF Thread
  <1>1. CASE \E s \in Session : KillCancel(t, s)
    <2>1. PICK s \in Session : KillCancel(t, s)
      BY <1>1
    <2>2. CASE handles[s] = None
      <3>1. UNCHANGED <<handles, run>>
        BY <2>1, <2>2 DEF KillCancel
      <3> QED BY <3>1, ReapedRefines DEF SameWork, AtWork
    <2>3. CASE handles[s] # None
      <3> DEFINE r == handles[s]
      <3>1. r \in RunId /\ run \in [RunId -> Runs] /\ UNCHANGED handles
        BY <2>1, <2>3 DEF KillCancel, SlotTypes
      <3>2. run' = [run EXCEPT ![r] = [@ EXCEPT !.cancelled = TRUE, !.attached = FALSE]]
        BY <2>1, <2>3 DEF KillCancel
      <3>3. /\ run'[r].sid = run[r].sid /\ run'[r].phase = run[r].phase /\ run'[r].cancelled
            /\ \A q \in RunId \ {r} : run'[q] = run[q]
        BY <3>1, <3>2 DEF Runs
      <3> HIDE DEF r
      <3>4. \A q \in RunId : run'[q].sid = run[q].sid /\ (AtWork(q)' <=> AtWork(q))
        BY <3>1, <3>3 DEF AtWork
      <3>5. WorkOf' = WorkOf
        BY <3>4 DEF WorkOf
      <3>6. ToldToStop' = IF AtWork(r) THEN ToldToStop \cup {r} ELSE ToldToStop
        BY <3>1, <3>3, <3>4 DEF ToldToStop
      <3>7. CASE AtWork(r)
        <4>1. WorkOf[r] # None
          BY <3>1, <3>7, NoneAssumption DEF WorkOf, RunsHaveSessions, AtWork, Working
        <4>2. Contract!Stop(r)
          BY <3>1, <3>5, <3>6, <3>7, <4>1 DEF Contract!Stop
        <4> QED BY <3>1, <4>2 DEF Contract!Next
      <3>8. CASE ~ AtWork(r)
        BY <3>1, <3>5, <3>6, <3>8 DEF Contract!vars
      <3> QED BY <3>7, <3>8
    <2> QED BY <2>2, <2>3
  <1>2. CASE KillAbort(t)
    <2>1. held[t] \in RunId /\ run[held[t]].phase \in Working /\ UNCHANGED <<handles, held>>
      BY <1>0, <1>2 DEF KillAbort, ThreadsHaveWork, local
    <2>2. Stepped(held[t], "over")
      <3>1. handles' \in HandleMaps
        BY <2>1 DEF SlotTypes, HandleMaps
      <3> QED BY <1>2, <2>1, <3>1, MoveSteps DEF KillAbort, Phases, TaskOver
    <2> QED BY <2>1, <2>2, SteppedRefines DEF Working, TaskOver
  <1>3. CASE KillFree(t)
    <2>1. /\ held[t] \in RunId /\ job[t].sid \in Session /\ UNCHANGED run
          /\ ~ AtWork(held[t]) \/ run[held[t]].cancelled
          /\ handles' = Freed(job[t].sid, held[t])
      BY <1>0, <1>3 DEF KillFree, ThreadsHaveWork, KillsAreSafe, KillPcs
    <2>2. SameWork
      BY <2>1 DEF SameWork, AtWork
    <2> QED BY <2>1, <2>2, FreedRefines
  <1> QED BY <1>1, <1>2, <1>3

LEMMA CrashRefines == ASSUME Crash PROVE Contract!Next
  <1>1. handles' = [s \in Session |-> None] /\ run' = [r \in RunId |-> NoRun]
    BY DEF Crash
  <1>2. \A r \in RunId : ~ AtWork(r)'
    BY <1>1 DEF AtWork, NoRun, Working
  <1>3. WorkOf' = [r \in RunId |-> None] /\ ToldToStop' = {}
    BY <1>2 DEF WorkOf, ToldToStop
  <1> QED BY <1>1, <1>3 DEF Contract!Crash, Contract!Next

LEMMA StepsRefine == IInv /\ Owners /\ [Next]_vars => [Contract!Next]_(Contract!vars)
  <1> SUFFICES ASSUME IInv, Owners, [Next]_vars PROVE [Contract!Next]_(Contract!vars)
    OBVIOUS
  <1>1. CASE \E t \in Caller : CallBegins(t) \/ CallStep(t)
    <2>1. PICK t \in Caller : CallBegins(t) \/ CallStep(t)
      BY <1>1
    <2>2. t \in Thread
      BY DEF Thread
    <2>3. CASE CallBegins(t) /\ \A s \in Session : ~ KillCancel(t, s)
      BY <2>3, QuietBegins, QuietRefines DEF CallBegins
    <2>4. CASE \E s \in Session : KillCancel(t, s)
      BY <2>4, StopsRefine
    <2>5. CASE CallStep(t)
      BY <2>2, <2>5, QuietCalls, QuietRefines, StopsRefine, LaunchesRefine
         DEF CallStep, LaunchStep, KillStep
    <2> QED BY <2>1, <2>3, <2>4, <2>5
  <1>2. CASE PumpStep
    <2>1. Pump \in Thread
      BY DEF Thread
    <2> QED BY <1>2, <2>1, QuietPump, QuietCalls, QuietRefines, LaunchesRefine
            DEF PumpStep, LaunchStep
  <1>3. CASE \E r \in RunId : RunStep(r) \/ TurnEnds(r)
    BY <1>3, RunsRefine
  <1>4. CASE Fault
    BY <1>4, CrashRefines, LaunchesRefine, StopsRefine, RunsRefine DEF Fault, Thread
  <1>5. CASE UNCHANGED vars
    <2>1. UNCHANGED <<handles, run>>
      BY <1>5 DEF vars, slots
    <2> QED BY <2>1, ReapedRefines DEF SameWork, AtWork
  <1> QED BY <1>1, <1>2, <1>3, <1>4, <1>5 DEF Next

\* The handles map keeps the contract of a lock for any sessions, calls and
\* faults: a slot is taken only by the claim in launch, for a run that is nowhere
\* at work, and neither RunEnd, a kill, a failed launch nor retain frees one whose
\* run is at work and was not told to stop (launch.rs, 404-474, 657-674; mod.rs, 283-309).
THEOREM SlotsRefine == Spec => KeepsSlots
  <1>1. Init => Contract!Init
    <2> SUFFICES ASSUME Init PROVE Contract!Init
      OBVIOUS
    <2>1. handles = [s \in Session |-> None] /\ \A r \in RunId : ~ AtWork(r)
      BY DEF Init, AtWork, NoRun, Working
    <2>2. WorkOf = [r \in RunId |-> None] /\ ToldToStop = {}
      BY <2>1 DEF WorkOf, ToldToStop
    <2> QED BY <2>1, <2>2 DEF Contract!Init
  <1> QED BY <1>1, StepsRefine, Inductive, HandlesOwned, PTL DEF Spec, KeepsSlots, Contract!Spec
=============================================================================
