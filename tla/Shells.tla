-------------------------------- MODULE Shells --------------------------------
(***************************************************************************)
(* The shells of a session, shell.rs, and the map of registries the        *)
(* orchestrator keeps (shells_for, drop_shells).                           *)
(*                                                                         *)
(* A background shell is reserved under the lock of its registry, spawned  *)
(* without it and adopted under it again; a pump of its own reads it and   *)
(* enforces its lifetime.  A foreground command is a future that may be    *)
(* dropped at any await.  Tool calls hold their registry, so they go on    *)
(* with it after the orchestrator has dropped it.                          *)
(***************************************************************************)
EXTENDS Integers, Sequences, FiniteSets

CONSTANTS
  Registry,  \* registries of the session, one after the other
  Shell,     \* background shells: a call of start each
  Command,   \* foreground commands: a call of exec each
  None,      \* no value
  Limit,     \* MAX_BACKGROUND_PER_SESSION
  FgKeep,    \* FG_KEEP
  MaxOut,    \* bound: chunks of output that come after a reader heard "done"
  MaxCalls,  \* bound: calls of start and exec
  Faults     \* "spawn": a spawn fails; "wait": try_wait fails

ASSUME NoneAssumption == None \notin Registry \cup Shell \cup Command \cup Nat \cup {"own", "killed"}
ASSUME LimitAssumption == Limit \in Nat /\ FgKeep \in Nat /\ MaxOut \in Nat /\ MaxCalls \in Nat
ASSUME FiniteAssumption == IsFiniteSet(Shell) /\ IsFiniteSet(Command)

VARIABLES
  mapped,     \* the registry the orchestrator has for the session, or None
  held,       \* the registries tool calls hold
  sweep,      \* the registries drop_shells has taken out and not yet swept
  shell,      \* the background shells
  command,    \* the foreground commands
  foreground, \* Registry::foreground
  told,       \* history: chunks appended since a reader heard "done", None before
  swept       \* history: the shells a sweep found

vars == <<mapped, held, sweep, shell, command, foreground, told, swept>>

(***************************************************************************)
(* Values                                                                  *)
(***************************************************************************)
\* start: where the call of start is.  exit, child: the fields of LiveShell;
\* drained is pump = "done".  os: the process.  reaper: reap() has it.  pump, err:
\* the two tasks that read it.  What they read is not kept.
Shells ==
  [reg : Registry \cup {None}, start : {"unused", "reserved", "spawned", "done", "failed"},
   exit : {None, "own", "killed"}, child : BOOLEAN,
   os : {"none", "runs", "ended"}, reaper : BOOLEAN,
   pump : {"none", "loop", "enforce", "drain", "stderr", "done"},
   err : {"none", "reads", "chunk", "last", "off"}]

Unused ==
  [reg |-> None, start |-> "unused", exit |-> None, child |-> FALSE,
   os |-> "none", reaper |-> FALSE, pump |-> "none", err |-> "none"]

\* The registry has an entry of it.
Listed(r) == r.start \in {"reserved", "spawned", "done"}

\* at: where exec is.
Commands ==
  [at : {"unused", "waits", "kills", "drains", "over"}, os : {"none", "runs", "ended"},
   reaper : BOOLEAN]

Live(g) == {s \in Shell : shell[s].reg = g /\ Listed(shell[s]) /\ shell[s].exit = None}

Calls == Cardinality({s \in Shell : shell[s].start # "unused"})
         + Cardinality({c \in Command : command[c].at # "unused"})

TypeOK ==
  /\ mapped \in Registry \cup {None}
  /\ held \subseteq Registry
  /\ sweep \subseteq Registry
  /\ shell \in [Shell -> Shells]
  /\ command \in [Command -> Commands]
  /\ foreground \in Seq([id : Command, running : BOOLEAN])
  /\ told \in [Shell -> Nat \cup {None}]
  /\ swept \subseteq Shell

Init ==
  /\ mapped = None /\ held = {} /\ sweep = {}
  /\ shell = [s \in Shell |-> Unused]
  /\ command = [c \in Command |-> [at |-> "unused", os |-> "none", reaper |-> FALSE]]
  /\ foreground = << >>
  /\ told = [s \in Shell |-> None]
  /\ swept = {}

(***************************************************************************)
(* LiveShell                                                               *)
(***************************************************************************)
\* kill: the child, if it has come, goes to reap.
Killed(r) == [r EXCEPT !.exit = "killed", !.child = FALSE, !.reaper = @ \/ r.child]

\* What enforce makes of a shell, by what the clock and try_wait say: an error of
\* try_wait counts as an exit.
Enforced(r) ==
  IF r.exit # None THEN {r}
  ELSE {Killed(r)} \cup
       (IF ~r.child \/ r.os = "runs" THEN {r} ELSE {}) \cup
       (IF r.child /\ (r.os = "ended" \/ "wait" \in Faults)
        THEN {[r EXCEPT !.exit = "own"]} ELSE {})

\* A dropped Child is killed by the runtime (kill_on_drop).
Dropped(r) == IF r.child THEN [r EXCEPT !.child = FALSE, !.os = "ended"] ELSE r

Set(s, r) == shell' = [shell EXCEPT ![s] = r]

(***************************************************************************)
(* The orchestrator's map                                                  *)
(***************************************************************************)
ShellsFor ==
  /\ mapped = None
  /\ \E g \in Registry \ held : mapped' = g /\ held' = held \cup {g}
  /\ UNCHANGED <<sweep, shell, command, foreground, told, swept>>

DropShells ==
  /\ mapped # None
  /\ sweep' = sweep \cup {mapped}
  /\ mapped' = None
  /\ UNCHANGED <<held, shell, command, foreground, told, swept>>

\* Broken: only the shells whose process has come are stopped.
KillAllAdopted(g) ==
  /\ g \in sweep
  /\ shell' = [s \in Shell |-> IF s \in Live(g) /\ shell[s].child
                               THEN Killed(shell[s]) ELSE shell[s]]
  /\ swept' = swept \cup {s \in Shell : shell[s].reg = g}
  /\ sweep' = sweep \ {g}
  /\ UNCHANGED <<mapped, held, command, foreground, told>>

KillAll(g) ==
  /\ g \in sweep
  /\ shell' = [s \in Shell |-> IF s \in Live(g) THEN Killed(shell[s]) ELSE shell[s]]
  /\ swept' = swept \cup {s \in Shell : shell[s].reg = g}
  /\ sweep' = sweep \ {g}
  /\ UNCHANGED <<mapped, held, command, foreground, told>>

(***************************************************************************)
(* start                                                                   *)
(***************************************************************************)
others == <<mapped, held, sweep, command, foreground, swept>>

\* Broken: the shells with a process count, not the ones about to have one.
ReserveAnyhow(s) ==
  /\ shell[s].start = "unused" /\ Calls < MaxCalls
  /\ \E g \in held :
       /\ Cardinality({t \in Live(g) : shell[t].child}) < Limit
       /\ Set(s, [Unused EXCEPT !.reg = g, !.start = "reserved"])
  /\ UNCHANGED <<others, told>>

Reserve(s) ==
  /\ shell[s].start = "unused" /\ Calls < MaxCalls
  /\ \E g \in held :
       /\ Cardinality(Live(g)) < Limit
       /\ Set(s, [Unused EXCEPT !.reg = g, !.start = "reserved"])
  /\ UNCHANGED <<others, told>>

Spawn(s) ==
  /\ shell[s].start = "reserved"
  /\ Set(s, [shell[s] EXCEPT !.start = "spawned", !.os = "runs"])
  /\ UNCHANGED <<others, told>>

SpawnFails(s) ==
  /\ "spawn" \in Faults
  /\ shell[s].start = "reserved"
  /\ Set(s, [shell[s] EXCEPT !.start = "failed"])
  /\ UNCHANGED <<others, told>>

Adopt(s) ==
  /\ shell[s].start = "spawned" /\ shell[s].exit = None
  /\ Set(s, [shell[s] EXCEPT !.start = "done", !.child = TRUE, !.pump = "loop", !.err = "reads"])
  /\ UNCHANGED <<others, told>>

\* Broken: the process is let go of, not stopped.
AdoptForgets(s) ==
  /\ shell[s].start = "spawned" /\ shell[s].exit # None
  /\ Set(s, [shell[s] EXCEPT !.start = "done"])
  /\ UNCHANGED <<others, told>>

\* The shell was killed or is past its lifetime before its process came.
AdoptLate(s) ==
  /\ shell[s].start = "spawned" /\ shell[s].exit # None
  /\ Set(s, [shell[s] EXCEPT !.start = "done", !.reaper = TRUE])
  /\ UNCHANGED <<others, told>>

(***************************************************************************)
(* logs, jobs and kill; a tool call has the registry                       *)
(***************************************************************************)
\* A shell is reported done when it is drained, or four seconds after its exit,
\* which "told" leaves out.
Logs(s) ==
  /\ Listed(shell[s])
  /\ \E r \in Enforced(shell[s]) : Set(s, r)
  /\ told' = IF shell[s].pump = "done" /\ told[s] = None THEN [told EXCEPT ![s] = 0] ELSE told
  /\ UNCHANGED others

Jobs ==
  \E g \in held :
    /\ shell' \in {f \in [Shell -> UNION {Enforced(shell[s]) : s \in Shell}] :
                     \A s \in Shell : IF shell[s].reg = g /\ Listed(shell[s])
                                      THEN f[s] \in Enforced(shell[s]) ELSE f[s] = shell[s]}
    /\ UNCHANGED <<others, told>>

Kill(s) ==
  /\ Listed(shell[s])
  /\ \E r \in Enforced(shell[s]) : Set(s, IF r.exit = None THEN Killed(r) ELSE r)
  /\ UNCHANGED <<others, told>>

(***************************************************************************)
(* pump, drain_stderr and reap                                             *)
(***************************************************************************)
Appended(s) == told' = IF told[s] = None THEN told ELSE [told EXCEPT ![s] = @ + 1]
Readable(s) == told[s] # None => told[s] < MaxOut

PumpReads(s) ==
  /\ shell[s].pump \in {"loop", "drain"} /\ Readable(s)
  /\ Set(s, [shell[s] EXCEPT !.pump = IF @ = "loop" THEN "enforce" ELSE @])
  /\ Appended(s)
  /\ UNCHANGED others

\* Broken: the pump waits for output, without a sleep beside it.
PumpEnforcesOnOutput(s) ==
  /\ shell[s].pump = "enforce"
  /\ \E r \in Enforced(shell[s]) :
       Set(s, [r EXCEPT !.pump = IF r.exit = None THEN "loop" ELSE "drain"])
  /\ UNCHANGED <<others, told>>

PumpEnforces(s) ==
  /\ shell[s].pump \in {"loop", "enforce"}
  /\ \E r \in Enforced(shell[s]) :
       Set(s, [r EXCEPT !.pump = IF r.exit = None THEN "loop" ELSE "drain"])
  /\ UNCHANGED <<others, told>>

\* The end of the output, or two seconds of it.
DrainEnds(s) ==
  /\ shell[s].pump = "drain"
  /\ Set(s, [shell[s] EXCEPT !.pump = "stderr"])
  /\ UNCHANGED <<others, told>>

\* err_task has ended or is aborted.  If it has a chunk in hand, it appends it
\* still: an abort is seen at the next await.
StderrEnds(s) ==
  /\ shell[s].pump = "stderr"
  /\ Set(s, [Dropped(shell[s]) EXCEPT !.pump = "done",
               !.err = IF @ = "chunk" THEN "last" ELSE "off"])
  /\ UNCHANGED <<others, told>>

ErrReads(s) ==
  /\ shell[s].err = "reads" /\ Readable(s)
  /\ Set(s, [shell[s] EXCEPT !.err = "chunk"])
  /\ UNCHANGED <<others, told>>

ErrAppends(s) ==
  /\ shell[s].err \in {"chunk", "last"}
  /\ Set(s, [shell[s] EXCEPT !.err = IF @ = "chunk" THEN "reads" ELSE "off"])
  /\ Appended(s)
  /\ UNCHANGED others

Reap(s) ==
  /\ shell[s].reaper
  /\ Set(s, [shell[s] EXCEPT !.reaper = FALSE, !.os = "ended"])
  /\ UNCHANGED <<others, told>>

Exits(s) ==
  /\ shell[s].os = "runs"
  /\ Set(s, [shell[s] EXCEPT !.os = "ended"])
  /\ UNCHANGED <<others, told>>

(***************************************************************************)
(* exec.  Its FgMark ends the entry in foreground and trims the list; its  *)
(* Fg reaps the process.                                                   *)
(***************************************************************************)
rest == <<mapped, held, sweep, shell, told, swept>>

Trimmed(f) == IF Len(f) > FgKeep THEN SubSeq(f, Len(f) - FgKeep + 1, Len(f)) ELSE f

Unmarked(c) ==
  Trimmed([i \in DOMAIN foreground |->
             IF foreground[i].id = c THEN [foreground[i] EXCEPT !.running = FALSE] ELSE foreground[i]])

Exec(c) ==
  /\ held # {} /\ command[c].at = "unused" /\ Calls < MaxCalls
  /\ command' = [command EXCEPT ![c] = [at |-> "waits", os |-> "runs", reaper |-> FALSE]]
  /\ foreground' = Append(foreground, [id |-> c, running |-> TRUE])
  /\ UNCHANGED rest

ExecExits(c) ==
  /\ command[c].os = "runs"
  /\ command' = [command EXCEPT ![c].os = "ended"]
  /\ UNCHANGED <<rest, foreground>>

\* The loop ends: on its own, or killed when its time is up.
ExecTimesOut(c) ==
  /\ command[c].at = "waits" /\ command[c].os = "runs"
  /\ command' = [command EXCEPT ![c].at = "kills"]
  /\ UNCHANGED <<rest, foreground>>

ExecKills(c) ==
  /\ command[c].at = "kills"
  /\ command' = [command EXCEPT ![c].at = "drains", ![c].os = "ended"]
  /\ foreground' = Unmarked(c)
  /\ UNCHANGED rest

ExecEnds(c) ==
  /\ command[c].at = "waits" /\ command[c].os = "ended"
  /\ command' = [command EXCEPT ![c].at = "drains"]
  /\ foreground' = Unmarked(c)
  /\ UNCHANGED rest

ExecReturns(c) ==
  /\ command[c].at = "drains"
  /\ command' = [command EXCEPT ![c].at = "over"]
  /\ UNCHANGED <<rest, foreground>>

\* Broken: the entry of a dropped call stays as it is.
ExecDroppedMarked(c) ==
  /\ command[c].at \in {"waits", "kills", "drains"}
  /\ command' = [command EXCEPT ![c].at = "over", ![c].reaper = command[c].os = "runs"]
  /\ UNCHANGED <<rest, foreground>>

\* The call is dropped where it waits.
ExecDropped(c) ==
  /\ command[c].at \in {"waits", "kills", "drains"}
  /\ command' = [command EXCEPT ![c].at = "over", ![c].reaper = command[c].os = "runs"]
  /\ foreground' = IF command[c].at = "drains" THEN foreground ELSE Unmarked(c)
  /\ UNCHANGED rest

ExecReaped(c) ==
  /\ command[c].reaper
  /\ command' = [command EXCEPT ![c].os = "ended", ![c].reaper = FALSE]
  /\ UNCHANGED <<rest, foreground>>

Next ==
  \/ ShellsFor \/ DropShells \/ Jobs
  \/ \E g \in Registry : KillAll(g)
  \/ \E s \in Shell :
       \/ Reserve(s) \/ Spawn(s) \/ SpawnFails(s) \/ Adopt(s) \/ AdoptLate(s)
       \/ Logs(s) \/ Kill(s)
       \/ PumpReads(s) \/ PumpEnforces(s) \/ DrainEnds(s) \/ StderrEnds(s)
       \/ ErrReads(s) \/ ErrAppends(s) \/ Reap(s) \/ Exits(s)
  \/ \E c \in Command :
       \/ Exec(c) \/ ExecExits(c) \/ ExecTimesOut(c) \/ ExecKills(c) \/ ExecEnds(c)
       \/ ExecReturns(c) \/ ExecDropped(c) \/ ExecReaped(c)

Spec == Init /\ [][Next]_vars

PumpStops(s) == PumpEnforces(s) /\ shell'[s].exit # None

\* start does not wait; the pump, its two time limits and the reaper are tasks of
\* their own.  A lifetime passes, so that enforce stops every shell in the end.
\* Nobody need look at a shell or stop it.
LiveSpec ==
  /\ Spec
  /\ \A s \in Shell :
       /\ WF_vars(Spawn(s) \/ SpawnFails(s)) /\ WF_vars(Adopt(s) \/ AdoptLate(s))
       /\ WF_vars(PumpStops(s)) /\ WF_vars(DrainEnds(s)) /\ WF_vars(StderrEnds(s))
       /\ WF_vars(Reap(s))
  /\ \A c \in Command :
       /\ WF_vars(ExecTimesOut(c)) /\ WF_vars(ExecKills(c)) /\ WF_vars(ExecEnds(c))
       /\ WF_vars(ExecReturns(c)) /\ WF_vars(ExecReaped(c))

(***************************************************************************)
(* Properties                                                              *)
(***************************************************************************)
\* A registry never has more than Limit shells that run or are about to, though
\* start counts under the lock, spawns without it and adopts under it again.
LimitKept ==
  \A g \in Registry :
    Cardinality({s \in Shell : /\ shell[s].reg = g /\ shell[s].exit = None
                              /\ (shell[s].start = "reserved" \/ shell[s].os = "runs")}) <= Limit

\* Every process has somebody who will end it: the call that starts it, its pump,
\* which enforces the lifetime, its exec, or reap - whatever was stopped or dropped
\* while it was being started.
NothingUnowned ==
  /\ \A s \in Shell : shell[s].os = "runs" =>
       \/ shell[s].start = "spawned" \/ shell[s].reaper
       \/ shell[s].child /\ shell[s].pump \notin {"none", "done"}
  /\ \A c \in Command : command[c].os = "runs" =>
       command[c].at \in {"waits", "kills"} \/ command[c].reaper

\* What a sweep of a registry found is stopped for good, a shell that was being
\* started included.
SweptStaysDown == \A s \in swept : Listed(shell[s]) =>
                     shell[s].exit = "own" \/ (shell[s].exit = "killed" /\ ~shell[s].child)

\* A reader of the log who is told that a shell is done has its whole output, but
\* for the one chunk its stderr task may have in hand.
DoneIsFinal == \A s \in Shell : told[s] # None => told[s] <= 1

\* The list of foreground commands shows the ones that run, and as running, unless
\* FG_KEEP others are listed; none is shown running that is over, and the list has
\* no more than FG_KEEP entries beside those that run.
ForegroundIsTrue ==
  /\ Len(foreground) <= FgKeep + Cardinality({c \in Command : command[c].at \in {"waits", "kills"}})
  /\ \A c \in Command :
    LET shown == {i \in DOMAIN foreground : foreground[i].id = c /\ foreground[i].running} IN
    IF command[c].at \in {"waits", "kills"}
    THEN shown # {} \/ Len(foreground) >= FgKeep
    ELSE shown = {}

\* Every shell ends, with its process, and is reported so; every command ends.
EverythingEnds ==
  /\ \A s \in Shell : shell[s].start = "reserved" ~>
       ~Listed(shell[s]) \/ (shell[s].exit # None /\ shell[s].os = "ended")
  /\ \A c \in Command : command[c].at = "waits" ~> command[c].os = "ended"
=============================================================================
