------------------------------ MODULE ShellsProofs ------------------------------
(***************************************************************************)
(* The shells of a session, for any number of registries, shells and       *)
(* commands and any limit: none is left without somebody who will end it,  *)
(* the limit holds, what was swept stays down, and the list of foreground  *)
(* commands is true.                                                       *)
(*                                                                         *)
(* Every step but Reserve changes the record of a shell by Onward. The     *)
(* lemmas are about one record; the invariant follows for all of them.     *)
(***************************************************************************)
EXTENDS Shells, FiniteSetTheorems, SequenceTheorems, TLAPS

(***************************************************************************)
(* The inductive invariant                                                 *)
(***************************************************************************)
\* What is true of the record of a shell, whatever the others are.
Fine(r) ==
  /\ r.start = "unused" => r.exit = None /\ r.reg = None
  /\ r.start \in {"unused", "reserved", "failed"} => r.os = "none"
  /\ r.start # "done" => ~r.child /\ r.pump = "none" /\ ~r.reaper
  /\ r.child => r.pump \notin {"none", "done"} /\ r.exit # "killed"
  /\ r.os = "runs" => r.start = "spawned" \/ r.reaper \/ r.child
  /\ r.pump = "done" => r.err \in {"last", "off"}

AllFine == \A s \in Shell : Fine(shell[s])

LiveKept == \A g \in Registry : Cardinality(Live(g)) <= Limit

SweptDown == \A s \in swept : shell[s].start # "unused" /\ (Listed(shell[s]) => shell[s].exit # None)

ToldOnce ==
  \A s \in Shell : told[s] # None =>
    /\ shell[s].pump = "done"
    /\ told[s] <= 1
    /\ shell[s].err = "last" => told[s] = 0

CommandsOwned ==
  \A c \in Command : command[c].os = "runs" => command[c].at \in {"waits", "kills"} \/ command[c].reaper

IInv == TypeOK /\ AllFine /\ LiveKept /\ SweptDown /\ ToldOnce /\ CommandsOwned

\* What a step makes of the record of a shell.
Onward(r, x) ==
  /\ x \in Shells /\ Fine(x)
  /\ x.reg = r.reg
  /\ r.exit # None => x.exit = r.exit
  /\ Listed(x) => Listed(r)
  /\ r.start # "unused" => x.start # "unused"

(***************************************************************************)
(* Records                                                                 *)
(***************************************************************************)
LEMMA OnwardStays ==
  ASSUME NEW r \in Shells, Fine(r)
  PROVE  Onward(r, r)
BY DEF Onward

LEMMA OnwardKilled ==
  ASSUME NEW r \in Shells, Fine(r), Listed(r), r.exit = None
  PROVE  /\ Onward(r, Killed(r))
         /\ Killed(r).exit = "killed" /\ Killed(r).pump = r.pump /\ Killed(r).err = r.err
<1>1. /\ Killed(r).exit = "killed" /\ Killed(r).child = FALSE /\ Killed(r).reaper = (r.reaper \/ r.child)
      /\ Killed(r).reg = r.reg /\ Killed(r).start = r.start /\ Killed(r).os = r.os
      /\ Killed(r).pump = r.pump /\ Killed(r).err = r.err
  BY DEF Shells, Killed
<1>2. Killed(r) \in Shells
  BY DEF Shells, Killed
<1>3. Fine(Killed(r))
  BY <1>1, NoneAssumption DEF Shells, Fine, Listed
<1> QED BY <1>1, <1>2, <1>3 DEF Onward, Listed

LEMMA OnwardEnforced ==
  ASSUME NEW r \in Shells, Fine(r), Listed(r), NEW x \in Enforced(r)
  PROVE  Onward(r, x) /\ x.pump = r.pump /\ x.err = r.err
<1>1. CASE x = r
  BY <1>1, OnwardStays
<1>2. CASE x = Killed(r) /\ r.exit = None
  BY <1>2, OnwardKilled
<1>3. CASE x = [r EXCEPT !.exit = "own"] /\ r.exit = None /\ r.child
  <2>1. /\ x.exit = "own" /\ x.child /\ x.reaper = r.reaper /\ x.reg = r.reg /\ x.start = r.start
        /\ x.os = r.os /\ x.pump = r.pump /\ x.err = r.err /\ x \in Shells
    BY <1>3 DEF Shells
  <2>2. Fine(x)
    BY <1>3, <2>1, NoneAssumption DEF Shells, Fine, Listed
  <2> QED BY <1>3, <2>1, <2>2 DEF Onward, Listed
<1> QED BY <1>1, <1>2, <1>3 DEF Enforced

(***************************************************************************)
(* Steps that change shells                                                *)
(***************************************************************************)
\* What the steps of the shells are for the invariant.
AllOnward == shell' \in [Shell -> Shells] /\ \A s \in Shell : Onward(shell[s], shell'[s])

LEMMA SetOnward ==
  ASSUME TypeOK, AllFine, NEW s \in Shell, NEW r, Onward(shell[s], r), Set(s, r)
  PROVE  AllOnward /\ shell'[s] = r /\ \A t \in Shell \ {s} : shell'[t] = shell[t]
<1>1. r \in Shells
  BY DEF Onward
<1>2. shell' \in [Shell -> Shells] /\ shell'[s] = r /\ \A t \in Shell \ {s} : shell'[t] = shell[t]
  BY <1>1 DEF Set, TypeOK
<1>3. \A t \in Shell \ {s} : Onward(shell[t], shell'[t])
  BY <1>2, OnwardStays DEF TypeOK, AllFine
<1> QED BY <1>2, <1>3 DEF AllOnward

LEMMA KillAllOnward ==
  ASSUME IInv, NEW g \in Registry, KillAll(g)
  PROVE  AllOnward /\ (\A s \in Shell : shell'[s].pump = shell[s].pump /\ shell'[s].err = shell[s].err)
<1>1. \A s \in Shell : shell'[s] = IF s \in Live(g) THEN Killed(shell[s]) ELSE shell[s]
  BY DEF KillAll
<1>2. ASSUME NEW s \in Shell
      PROVE  /\ Onward(shell[s], shell'[s]) /\ shell'[s] \in Shells
             /\ shell'[s].pump = shell[s].pump /\ shell'[s].err = shell[s].err
  <2>1. shell[s] \in Shells /\ Fine(shell[s])
    BY DEF IInv, TypeOK, AllFine
  <2>2. CASE s \in Live(g)
    BY <1>1, <2>1, <2>2, OnwardKilled DEF Live, Onward
  <2>3. CASE s \notin Live(g)
    BY <1>1, <2>1, <2>3, OnwardStays
  <2> QED BY <2>2, <2>3
<1>3. shell' \in [Shell -> Shells]
  BY <1>2 DEF KillAll
<1> QED BY <1>2, <1>3 DEF AllOnward

LEMMA JobsOnward ==
  ASSUME IInv, Jobs
  PROVE  AllOnward /\ (\A s \in Shell : shell'[s].pump = shell[s].pump /\ shell'[s].err = shell[s].err)
<1>1. PICK g \in held : \A s \in Shell :
        IF shell[s].reg = g /\ Listed(shell[s])
        THEN shell'[s] \in Enforced(shell[s]) ELSE shell'[s] = shell[s]
  BY DEF Jobs
<1>2. ASSUME NEW s \in Shell
      PROVE  /\ Onward(shell[s], shell'[s]) /\ shell'[s] \in Shells
             /\ shell'[s].pump = shell[s].pump /\ shell'[s].err = shell[s].err
  <2>1. shell[s] \in Shells /\ Fine(shell[s])
    BY DEF IInv, TypeOK, AllFine
  <2>2. CASE shell[s].reg = g /\ Listed(shell[s])
    BY <1>1, <2>1, <2>2, OnwardEnforced DEF Onward
  <2>3. CASE ~(shell[s].reg = g /\ Listed(shell[s]))
    BY <1>1, <2>1, <2>3, OnwardStays
  <2> QED BY <2>2, <2>3
<1>3. shell' \in [Shell -> Shells]
  BY <1>2 DEF Jobs
<1> QED BY <1>2, <1>3 DEF AllOnward

LEMMA StarterOnward ==
  ASSUME IInv, NEW s \in Shell, Spawn(s) \/ SpawnFails(s) \/ Adopt(s) \/ AdoptLate(s)
  PROVE  AllOnward /\ shell[s].pump # "done" /\ \A t \in Shell \ {s} : shell'[t] = shell[t]
<1>0. shell[s] \in Shells /\ Fine(shell[s]) /\ TypeOK /\ AllFine
  BY DEF IInv, TypeOK, AllFine
<1>1. shell[s].pump # "done"
  BY <1>0 DEF Spawn, SpawnFails, Adopt, AdoptLate, Fine
<1>2. CASE Spawn(s)
  <2> DEFINE r == [shell[s] EXCEPT !.start = "spawned", !.os = "runs"]
  <2>1. r \in Shells /\ Fine(r) /\ Onward(shell[s], r)
    BY <1>0, <1>2 DEF Spawn, Shells, Fine, Onward, Listed
  <2> QED BY <1>0, <1>1, <1>2, <2>1, SetOnward DEF Spawn
<1>3. CASE SpawnFails(s)
  <2> DEFINE r == [shell[s] EXCEPT !.start = "failed"]
  <2>1. r \in Shells /\ Fine(r) /\ Onward(shell[s], r)
    BY <1>0, <1>3 DEF SpawnFails, Shells, Fine, Onward, Listed
  <2> QED BY <1>0, <1>1, <1>3, <2>1, SetOnward DEF SpawnFails
<1>4. CASE Adopt(s)
  <2> DEFINE r == [shell[s] EXCEPT !.start = "done", !.child = TRUE, !.pump = "loop", !.err = "reads"]
  <2>1. r \in Shells /\ Fine(r) /\ Onward(shell[s], r)
    BY <1>0, <1>4, NoneAssumption DEF Adopt, Shells, Fine, Onward, Listed
  <2> QED BY <1>0, <1>1, <1>4, <2>1, SetOnward DEF Adopt
<1>5. CASE AdoptLate(s)
  <2> DEFINE r == [shell[s] EXCEPT !.start = "done", !.reaper = TRUE]
  <2>1. r \in Shells /\ Fine(r) /\ Onward(shell[s], r)
    BY <1>0, <1>5 DEF AdoptLate, Shells, Fine, Onward, Listed
  <2> QED BY <1>0, <1>1, <1>5, <2>1, SetOnward DEF AdoptLate
<1> QED BY <1>2, <1>3, <1>4, <1>5

\* Nothing a reader was told of is undone.
OthersStay(s) ==
  /\ AllOnward
  /\ \A t \in Shell \ {s} : shell'[t] = shell[t]
  /\ shell[s].pump = "done" => shell'[s].pump = "done" /\ shell'[s].err \in {shell[s].err, "off"}

LEMMA PumpOnward ==
  ASSUME IInv, NEW s \in Shell,
         Logs(s) \/ Kill(s) \/ PumpReads(s) \/ PumpEnforces(s) \/ DrainEnds(s) \/ StderrEnds(s)
           \/ ErrReads(s) \/ ErrAppends(s) \/ Reap(s) \/ Exits(s)
  PROVE  OthersStay(s)
<1> USE DEF OthersStay
<1>0. shell[s] \in Shells /\ Fine(shell[s]) /\ TypeOK /\ AllFine
  BY DEF IInv, TypeOK, AllFine
<1>1. CASE Logs(s)
  <2>1. PICK r \in Enforced(shell[s]) : Set(s, r)
    BY <1>1 DEF Logs
  <2>2. Onward(shell[s], r) /\ r.pump = shell[s].pump /\ r.err = shell[s].err
    BY <1>0, <1>1, OnwardEnforced DEF Logs
  <2> QED BY <1>0, <2>1, <2>2, SetOnward
<1>2. CASE Kill(s)
  <2>1. PICK r \in Enforced(shell[s]) : Set(s, IF r.exit = None THEN Killed(r) ELSE r)
    BY <1>2 DEF Kill
  <2>2. Onward(shell[s], r) /\ r.pump = shell[s].pump /\ r.err = shell[s].err
    BY <1>0, <1>2, OnwardEnforced DEF Kill
  <2>3. CASE r.exit # None
    BY <1>0, <2>1, <2>2, <2>3, SetOnward
  <2>4. CASE r.exit = None
    <3>1. r = shell[s]
      BY <1>0, <2>4, NoneAssumption DEF Enforced, Killed, Shells
    <3>2. Onward(shell[s], Killed(r)) /\ Killed(r).pump = r.pump /\ Killed(r).err = r.err
      BY <1>0, <1>2, <2>4, <3>1, OnwardKilled DEF Kill
    <3> QED BY <1>0, <2>1, <2>4, <3>1, <3>2, SetOnward
  <2> QED BY <2>3, <2>4
<1>3. CASE PumpReads(s)
  <2> DEFINE r == [shell[s] EXCEPT !.pump = IF @ = "loop" THEN "enforce" ELSE @]
  <2>1. r \in Shells /\ Fine(r) /\ Onward(shell[s], r)
    BY <1>0, <1>3 DEF PumpReads, Shells, Fine, Onward, Listed
  <2> QED BY <1>0, <1>3, <2>1, SetOnward DEF PumpReads
<1>4. CASE PumpEnforces(s)
  <2>1. PICK r \in Enforced(shell[s]) :
          Set(s, [r EXCEPT !.pump = IF r.exit = None THEN "loop" ELSE "drain"])
    BY <1>4 DEF PumpEnforces
  <2> DEFINE x == [r EXCEPT !.pump = IF r.exit = None THEN "loop" ELSE "drain"]
  <2>2. Listed(shell[s])
    BY <1>0, <1>4 DEF PumpEnforces, Fine, Listed
  <2>3. Onward(shell[s], r) /\ r.pump = shell[s].pump
    BY <1>0, <2>2, OnwardEnforced
  <2>4. x \in Shells /\ Fine(x) /\ Onward(shell[s], x)
    BY <1>0, <1>4, <2>3 DEF PumpEnforces, Shells, Fine, Onward, Listed
  <2> QED BY <1>0, <1>4, <2>1, <2>4, SetOnward DEF PumpEnforces
<1>5. CASE DrainEnds(s)
  <2> DEFINE r == [shell[s] EXCEPT !.pump = "stderr"]
  <2>1. r \in Shells /\ Fine(r) /\ Onward(shell[s], r)
    BY <1>0, <1>5 DEF DrainEnds, Shells, Fine, Onward, Listed
  <2> QED BY <1>0, <1>5, <2>1, SetOnward DEF DrainEnds
<1>6. CASE StderrEnds(s)
  <2> DEFINE r == [Dropped(shell[s]) EXCEPT !.pump = "done",
                     !.err = IF @ = "chunk" THEN "last" ELSE "off"]
  <2>1. /\ r.reg = shell[s].reg /\ r.start = shell[s].start /\ r.exit = shell[s].exit
        /\ r.child = FALSE /\ r.reaper = shell[s].reaper /\ r.pump = "done"
        /\ r.err \in {"last", "off"} /\ r.os = IF shell[s].child THEN "ended" ELSE shell[s].os
    BY <1>0 DEF Dropped, Shells
  <2>2. r \in Shells
    BY <1>0 DEF Dropped, Shells
  <2>3. Fine(r) /\ Onward(shell[s], r)
    BY <1>0, <1>6, <2>1, <2>2 DEF StderrEnds, Fine, Onward, Listed, Shells
  <2> QED BY <1>0, <1>6, <2>3, SetOnward DEF StderrEnds
<1>7. CASE ErrReads(s)
  <2> DEFINE r == [shell[s] EXCEPT !.err = "chunk"]
  <2>1. r \in Shells /\ Fine(r) /\ Onward(shell[s], r)
    BY <1>0, <1>7 DEF ErrReads, Shells, Fine, Onward, Listed
  <2>2. shell[s].pump # "done"
    BY <1>0, <1>7 DEF ErrReads, Fine
  <2> QED BY <1>0, <1>7, <2>1, <2>2, SetOnward DEF ErrReads
<1>8. CASE ErrAppends(s)
  <2> DEFINE r == [shell[s] EXCEPT !.err = IF @ = "chunk" THEN "reads" ELSE "off"]
  <2>1. r \in Shells /\ Fine(r) /\ Onward(shell[s], r)
    BY <1>0, <1>8 DEF ErrAppends, Shells, Fine, Onward, Listed
  <2>2. r.pump = shell[s].pump /\ (shell[s].pump = "done" => r.err = "off")
    BY <1>0, <1>8 DEF ErrAppends, Shells, Fine
  <2> QED BY <1>0, <1>8, <2>1, <2>2, SetOnward DEF ErrAppends
<1>9. CASE Reap(s)
  <2> DEFINE r == [shell[s] EXCEPT !.reaper = FALSE, !.os = "ended"]
  <2>1. /\ r.reg = shell[s].reg /\ r.start = shell[s].start /\ r.exit = shell[s].exit
        /\ r.child = shell[s].child /\ ~r.reaper /\ r.os = "ended"
        /\ r.pump = shell[s].pump /\ r.err = shell[s].err
    BY <1>0 DEF Shells
  <2>2. r \in Shells
    BY <1>0 DEF Shells
  <2>3. shell[s].start = "done"
    BY <1>0, <1>9 DEF Reap, Fine
  <2>4. Fine(r) /\ Onward(shell[s], r)
    BY <1>0, <2>1, <2>2, <2>3 DEF Fine, Onward, Listed
  <2> QED BY <1>0, <1>9, <2>1, <2>4, SetOnward DEF Reap
<1>10. CASE Exits(s)
  <2> DEFINE r == [shell[s] EXCEPT !.os = "ended"]
  <2>1. r \in Shells /\ Fine(r) /\ Onward(shell[s], r)
    BY <1>0, <1>10 DEF Exits, Shells, Fine, Onward, Listed
  <2>2. r.pump = shell[s].pump /\ r.err = shell[s].err
    BY <1>0 DEF Shells
  <2> QED BY <1>0, <1>10, <2>1, <2>2, SetOnward DEF Exits
<1> QED BY <1>1, <1>2, <1>3, <1>4, <1>5, <1>6, <1>7, <1>8, <1>9, <1>10

(***************************************************************************)
(* The conjuncts of the invariant                                          *)
(***************************************************************************)
LEMMA LiveShrinks ==
  ASSUME IInv, AllOnward
  PROVE  AllFine' /\ LiveKept'
<1>1. AllFine'
  BY DEF AllOnward, Onward, AllFine
<1>2. ASSUME NEW g \in Registry
      PROVE  Cardinality(Live(g)') <= Limit
  <2>1. Live(g)' \subseteq Live(g)
    BY DEF Live, AllOnward, Onward
  <2>2. IsFiniteSet(Live(g))
    <3>1. Live(g) \subseteq Shell
      BY DEF Live
    <3> QED BY <3>1, FiniteAssumption, FS_Subset
  <2>3. IsFiniteSet(Live(g)') /\ Cardinality(Live(g)') <= Cardinality(Live(g))
    BY <2>1, <2>2, FS_Subset
  <2>4. Cardinality(Live(g)') \in Nat /\ Cardinality(Live(g)) \in Nat
    BY <2>2, <2>3, FS_CardinalityType
  <2>5. Cardinality(Live(g)) <= Limit
    BY DEF IInv, LiveKept
  <2> QED BY <2>3, <2>4, <2>5, LimitAssumption
<1> QED BY <1>1, <1>2 DEF LiveKept

LEMMA SweptStays ==
  ASSUME IInv, AllOnward, swept' = swept
  PROVE  SweptDown'
BY DEF IInv, TypeOK, SweptDown, AllOnward, Onward

LEMMA ToldStays ==
  ASSUME IInv, told' = told,
         \A s \in Shell : shell[s].pump = "done" =>
           shell'[s].pump = "done" /\ shell'[s].err \in {shell[s].err, "off"}
  PROVE  ToldOnce'
BY DEF IInv, ToldOnce

\* What is told and what is swept are the same but for Logs, the appends and KillAll.
Rest == told' = told /\ swept' = swept /\ UNCHANGED <<mapped, held, sweep, command, foreground>>

LEMMA ShellStep ==
  ASSUME IInv, NEW s \in Shell,
         \/ Spawn(s) \/ SpawnFails(s) \/ Adopt(s) \/ AdoptLate(s)
         \/ Logs(s) \/ Kill(s) \/ PumpReads(s) \/ PumpEnforces(s) \/ DrainEnds(s)
         \/ StderrEnds(s) \/ ErrReads(s) \/ ErrAppends(s) \/ Reap(s) \/ Exits(s)
  PROVE  IInv'
<1>1. AllOnward /\ (\A t \in Shell : shell[t].pump = "done" =>
                      shell'[t].pump = "done" /\ shell'[t].err \in {shell[t].err, "off"})
  <2>1. CASE Spawn(s) \/ SpawnFails(s) \/ Adopt(s) \/ AdoptLate(s)
    BY <2>1, StarterOnward
  <2>2. CASE ~(Spawn(s) \/ SpawnFails(s) \/ Adopt(s) \/ AdoptLate(s))
    BY <2>2, PumpOnward DEF OthersStay
  <2> QED BY <2>1, <2>2
<1>2. UNCHANGED others
  BY DEF Spawn, SpawnFails, Adopt, AdoptLate, Logs, Kill, PumpReads, PumpEnforces, DrainEnds,
         StderrEnds, ErrReads, ErrAppends, Reap, Exits
<1>3. told' \in [Shell -> Nat \cup {None}] /\ ToldOnce'
  <2>0. told \in [Shell -> Nat \cup {None}] /\ ToldOnce /\ shell[s] \in Shells /\ Fine(shell[s])
    BY DEF IInv, TypeOK, AllFine
  <2>1. CASE told' = told
    BY <1>1, <2>0, <2>1, ToldStays
  <2>2. CASE Logs(s) /\ told' # told
    <3>1. told' = [told EXCEPT ![s] = 0] /\ shell[s].pump = "done"
      BY <2>2 DEF Logs
    <3> QED BY <1>1, <2>0, <3>1 DEF ToldOnce
  <2>3. CASE PumpReads(s)
    <3>1. told[s] = None
      BY <2>0, <2>3 DEF PumpReads, ToldOnce
    <3>2. told' = told
      BY <2>3, <3>1 DEF PumpReads, Appended
    <3> QED BY <2>1, <3>2
  <2>4. CASE ErrAppends(s) /\ told' # told
    <3>1. told[s] # None /\ told' = [told EXCEPT ![s] = @ + 1]
      BY <2>4 DEF ErrAppends, Appended
    <3>2. shell[s].pump = "done" /\ shell[s].err = "last" /\ told[s] = 0
      BY <2>0, <2>4, <3>1 DEF ErrAppends, ToldOnce, Fine
    <3>3. shell'[s].err = "off"
      BY <2>0, <2>4, <3>2 DEF ErrAppends, Set, IInv, TypeOK, Shells
    <3>4. told' = [told EXCEPT ![s] = 1]
      BY <2>0, <3>1, <3>2
    <3> QED BY <1>1, <2>0, <3>2, <3>3, <3>4 DEF ToldOnce
  <2>5. told' = told \/ Logs(s) \/ PumpReads(s) \/ ErrAppends(s)
    BY DEF Spawn, SpawnFails, Adopt, AdoptLate, Kill, PumpEnforces, DrainEnds,
           StderrEnds, ErrReads, Reap, Exits
  <2> QED BY <2>1, <2>2, <2>3, <2>4, <2>5
<1>4. TypeOK'
  BY <1>1, <1>2, <1>3 DEF IInv, TypeOK, AllOnward, others
<1>5. AllFine' /\ LiveKept'
  BY <1>1, LiveShrinks
<1>6. SweptDown'
  BY <1>1, <1>2, SweptStays DEF others
<1>7. CommandsOwned'
  BY <1>2 DEF IInv, CommandsOwned, others
<1> QED BY <1>3, <1>4, <1>5, <1>6, <1>7 DEF IInv

LEMMA ReserveStep ==
  ASSUME IInv, NEW s \in Shell, Reserve(s)
  PROVE  IInv'
<1>1. PICK g \in held : /\ Cardinality(Live(g)) < Limit
                        /\ Set(s, [Unused EXCEPT !.reg = g, !.start = "reserved"])
  BY DEF Reserve
<1> DEFINE r == [Unused EXCEPT !.reg = g, !.start = "reserved"]
<1>2. g \in Registry
  BY DEF IInv, TypeOK
<1>3. r \in Shells /\ Fine(r) /\ r.reg = g /\ r.exit = None /\ Listed(r) /\ r.pump = "none"
  BY <1>2, NoneAssumption DEF Unused, Shells, Fine, Listed
<1>4. /\ shell' \in [Shell -> Shells] /\ shell'[s] = r
      /\ \A t \in Shell \ {s} : shell'[t] = shell[t]
  BY <1>1, <1>3 DEF Set, IInv, TypeOK
<1>5. TypeOK'
  BY <1>4 DEF Reserve, others, IInv, TypeOK
<1>6. AllFine'
  BY <1>3, <1>4 DEF AllFine, IInv
<1>7. LiveKept'
  <2> SUFFICES ASSUME NEW h \in Registry PROVE Cardinality(Live(h)') <= Limit
    BY DEF LiveKept
  <2>1. IsFiniteSet(Live(h)) /\ Cardinality(Live(h)) <= Limit
    <3>1. Live(h) \subseteq Shell
      BY DEF Live
    <3> QED BY <3>1, FiniteAssumption, FS_Subset DEF IInv, LiveKept
  <2>2. CASE h = g
    <3>1. Live(h)' = Live(h) \cup {s}
      BY <1>3, <1>4, <2>2 DEF Live
    <3>2. /\ IsFiniteSet(Live(h) \cup {s})
          /\ Cardinality(Live(h) \cup {s}) \in {Cardinality(Live(h)), Cardinality(Live(h)) + 1}
      <4>1. /\ IsFiniteSet(Live(h) \cup {s})
            /\ Cardinality(Live(h) \cup {s})
                 = IF s \in Live(h) THEN Cardinality(Live(h)) ELSE Cardinality(Live(h)) + 1
        BY <2>1, FS_AddElement, Zenon
      <4> QED BY <4>1
    <3>3. Cardinality(Live(h)) \in Nat /\ IsFiniteSet(Live(h) \cup {s})
      BY <2>1, <3>2, FS_CardinalityType
    <3>4. Cardinality(Live(h) \cup {s}) \in Nat
      BY <3>3, FS_CardinalityType
    <3> QED BY <1>1, <2>2, <3>1, <3>2, <3>3, <3>4, LimitAssumption
  <2>3. CASE h # g
    <3>1. shell[s].reg # h
      BY NoneAssumption DEF Reserve, IInv, AllFine, Fine
    <3>2. Live(h)' = Live(h)
      BY <1>3, <1>4, <2>3, <3>1 DEF Live
    <3> QED BY <2>1, <3>2
  <2> QED BY <2>2, <2>3
<1>8. SweptDown'
  <2>1. s \notin swept
    BY DEF Reserve, IInv, SweptDown
  <2> QED BY <1>4, <2>1 DEF Reserve, others, IInv, TypeOK, SweptDown
<1>9. ToldOnce'
  <2>1. told[s] = None
    BY DEF Reserve, IInv, ToldOnce, AllFine, Fine
  <2> QED BY <1>4, <2>1 DEF Reserve, IInv, ToldOnce
<1>10. CommandsOwned'
  BY DEF Reserve, others, IInv, CommandsOwned
<1> QED BY <1>5, <1>6, <1>7, <1>8, <1>9, <1>10 DEF IInv

LEMMA KillAllStep ==
  ASSUME IInv, NEW g \in Registry, KillAll(g)
  PROVE  IInv'
<1>1. AllOnward /\ (\A s \in Shell : shell'[s].pump = shell[s].pump /\ shell'[s].err = shell[s].err)
  BY KillAllOnward
<1>2. TypeOK'
  BY <1>1 DEF KillAll, IInv, TypeOK, AllOnward
<1>3. AllFine' /\ LiveKept'
  BY <1>1, LiveShrinks
<1>4. ToldOnce'
  BY <1>1, ToldStays DEF KillAll
<1>5. SweptDown'
  <2> SUFFICES ASSUME NEW s \in swept'
               PROVE  shell'[s].start # "unused" /\ (Listed(shell'[s]) => shell'[s].exit # None)
    BY DEF SweptDown
  <2>1. CASE s \in swept
    BY <1>1, <2>1 DEF IInv, TypeOK, SweptDown, AllOnward, Onward
  <2>2. CASE s \notin swept
    <3>1. s \in Shell /\ shell[s].reg = g /\ shell[s] \in Shells /\ Fine(shell[s])
      BY <2>2 DEF KillAll, IInv, TypeOK, AllFine
    <3>2. shell[s].start # "unused"
      BY <3>1, NoneAssumption DEF Fine
    <3>3. shell'[s] = IF s \in Live(g) THEN Killed(shell[s]) ELSE shell[s]
      BY <3>1 DEF KillAll
    <3>4. CASE s \in Live(g)
      BY <3>1, <3>2, <3>3, <3>4, OnwardKilled, NoneAssumption DEF Live, Onward
    <3>5. CASE s \notin Live(g)
      BY <3>1, <3>2, <3>3, <3>5 DEF Live
    <3> QED BY <3>4, <3>5
  <2> QED BY <2>1, <2>2
<1>6. CommandsOwned'
  BY DEF KillAll, IInv, CommandsOwned
<1> QED BY <1>2, <1>3, <1>4, <1>5, <1>6 DEF IInv

LEMMA JobsStep ==
  ASSUME IInv, Jobs
  PROVE  IInv'
<1>1. AllOnward /\ (\A s \in Shell : shell'[s].pump = shell[s].pump /\ shell'[s].err = shell[s].err)
  BY JobsOnward
<1>2. UNCHANGED <<others, told>>
  BY DEF Jobs
<1>3. TypeOK'
  BY <1>1, <1>2 DEF IInv, TypeOK, AllOnward, others
<1>4. AllFine' /\ LiveKept'
  BY <1>1, LiveShrinks
<1>5. ToldOnce'
  BY <1>1, <1>2, ToldStays
<1>6. SweptDown'
  BY <1>1, <1>2, SweptStays DEF others
<1>7. CommandsOwned'
  BY <1>2 DEF IInv, CommandsOwned, others
<1> QED BY <1>3, <1>4, <1>5, <1>6, <1>7 DEF IInv

LEMMA MapStep ==
  ASSUME IInv, ShellsFor \/ DropShells
  PROVE  IInv'
<1>1. UNCHANGED <<shell, command, foreground, told, swept>>
  BY DEF ShellsFor, DropShells
<1>2. TypeOK'
  BY <1>1 DEF ShellsFor, DropShells, IInv, TypeOK
<1> QED BY <1>1, <1>2 DEF IInv, AllFine, LiveKept, Live, SweptDown, ToldOnce, CommandsOwned

(***************************************************************************)
(* Foreground commands                                                     *)
(***************************************************************************)
Entry == [id : Command, running : BOOLEAN]

LEMMA UnmarkedType ==
  ASSUME foreground \in Seq(Entry), NEW c \in Command
  PROVE  Unmarked(c) \in Seq(Entry)
<1> DEFINE f == [i \in DOMAIN foreground |->
                   IF foreground[i].id = c THEN [foreground[i] EXCEPT !.running = FALSE]
                   ELSE foreground[i]]
<1>1. f \in Seq(Entry) /\ Len(f) \in Nat /\ \A i \in 1 .. Len(f) : f[i] \in Entry
  <2>1. Len(foreground) \in Nat /\ DOMAIN foreground = 1 .. Len(foreground)
        /\ \A i \in 1 .. Len(foreground) : foreground[i] \in Entry
    OBVIOUS
  <2>2. f \in [1 .. Len(foreground) -> Entry]
    BY <2>1 DEF Entry
  <2>3. f \in Seq(Entry)
    <3> HIDE DEF f
    <3> QED BY <2>1, <2>2
  <2> HIDE DEF f
  <2> QED BY <2>3
<1>2. CASE Len(f) > FgKeep
  <2>1. Len(f) - FgKeep + 1 \in 1 .. Len(f) + 1
    BY <1>1, <1>2, LimitAssumption
  <2>2. SubSeq(f, Len(f) - FgKeep + 1, Len(f)) \in Seq(Entry)
    <3> HIDE DEF f
    <3>1. \A i \in Len(f) - FgKeep + 1 .. Len(f) : f[i] \in Entry
      BY <1>1, <2>1, LimitAssumption
    <3>2. Len(f) - FgKeep + 1 \in Int /\ Len(f) \in Int
      BY <1>1, LimitAssumption
    <3> QED BY <3>1, <3>2, SubSeqProperties, Zenon
  <2>3. Unmarked(c) = SubSeq(f, Len(f) - FgKeep + 1, Len(f))
    BY <1>2 DEF Unmarked, Trimmed
  <2> QED BY <2>2, <2>3
<1>3. CASE ~(Len(f) > FgKeep)
  BY <1>1, <1>3 DEF Unmarked, Trimmed
<1> QED BY <1>2, <1>3

LEMMA CommandStep ==
  ASSUME IInv, NEW c \in Command,
         Exec(c) \/ ExecExits(c) \/ ExecTimesOut(c) \/ ExecKills(c) \/ ExecEnds(c)
           \/ ExecReturns(c) \/ ExecDropped(c) \/ ExecReaped(c)
  PROVE  IInv'
<1>0. command \in [Command -> Commands] /\ command[c] \in Commands
  BY DEF IInv, TypeOK
<1>1. UNCHANGED rest
  BY DEF Exec, ExecExits, ExecTimesOut, ExecKills, ExecEnds, ExecReturns, ExecDropped, ExecReaped
<1>2. foreground' \in Seq(Entry)
  <2>1. foreground \in Seq(Entry)
    BY DEF IInv, TypeOK, Entry
  <2>2. CASE Exec(c)
    BY <2>1, <2>2 DEF Exec, Entry
  <2>3. CASE ~Exec(c)
    <3>1. foreground' \in {foreground, Unmarked(c)}
      BY <2>3 DEF ExecExits, ExecTimesOut, ExecKills, ExecEnds, ExecReturns, ExecDropped, ExecReaped
    <3> QED BY <2>1, <3>1, UnmarkedType
  <2> QED BY <2>2, <2>3
<1>3. command' \in [Command -> Commands] /\ CommandsOwned'
  <2> DEFINE Owned(r) == r.os = "runs" => r.at \in {"waits", "kills"} \/ r.reaper
  <2>0. \A d \in Command : Owned(command[d])
    BY DEF IInv, CommandsOwned
  <2>1. ASSUME NEW r \in Commands, Owned(r), command' = [command EXCEPT ![c] = r]
        PROVE  command' \in [Command -> Commands] /\ CommandsOwned'
    BY <1>0, <2>0, <2>1 DEF CommandsOwned
  <2>2. CASE Exec(c)
    <3> DEFINE r == [at |-> "waits", os |-> "runs", reaper |-> FALSE]
    <3>1. r \in Commands /\ Owned(r) /\ command' = [command EXCEPT ![c] = r]
      BY <2>2 DEF Exec, Commands
    <3> QED BY <2>1, <3>1
  <2>3. CASE ExecExits(c)
    <3> DEFINE r == [command[c] EXCEPT !.os = "ended"]
    <3>1. r \in Commands /\ Owned(r) /\ command' = [command EXCEPT ![c] = r]
      BY <1>0, <2>3 DEF ExecExits, Commands
    <3> QED BY <2>1, <3>1
  <2>4. CASE ExecTimesOut(c)
    <3> DEFINE r == [command[c] EXCEPT !.at = "kills"]
    <3>1. r \in Commands /\ Owned(r) /\ command' = [command EXCEPT ![c] = r]
      BY <1>0, <2>4 DEF ExecTimesOut, Commands
    <3> QED BY <2>1, <3>1
  <2>5. CASE ExecKills(c)
    <3> DEFINE r == [command[c] EXCEPT !.at = "drains", !.os = "ended"]
    <3>1. r \in Commands /\ Owned(r) /\ command' = [command EXCEPT ![c] = r]
      BY <1>0, <2>5 DEF ExecKills, Commands
    <3> QED BY <2>1, <3>1
  <2>6. CASE ExecEnds(c)
    <3> DEFINE r == [command[c] EXCEPT !.at = "drains"]
    <3>1. r \in Commands /\ Owned(r) /\ command' = [command EXCEPT ![c] = r]
      BY <1>0, <2>6 DEF ExecEnds, Commands
    <3> QED BY <2>1, <3>1
  <2>7. CASE ExecReturns(c)
    <3> DEFINE r == [command[c] EXCEPT !.at = "over"]
    <3>1. r \in Commands /\ command' = [command EXCEPT ![c] = r]
      BY <1>0, <2>7 DEF ExecReturns, Commands
    <3>2. Owned(r)
      BY <1>0, <2>0, <2>7 DEF ExecReturns, Commands
    <3> QED BY <2>1, <3>1, <3>2
  <2>8. CASE ExecDropped(c)
    <3> DEFINE r == [command[c] EXCEPT !.at = "over", !.reaper = command[c].os = "runs"]
    <3>1. r \in Commands /\ command' = [command EXCEPT ![c] = r]
      BY <1>0, <2>8 DEF ExecDropped, Commands
    <3>2. Owned(r)
      BY <1>0 DEF Commands
    <3> QED BY <2>1, <3>1, <3>2
  <2>9. CASE ExecReaped(c)
    <3> DEFINE r == [command[c] EXCEPT !.os = "ended", !.reaper = FALSE]
    <3>1. r \in Commands /\ Owned(r) /\ command' = [command EXCEPT ![c] = r]
      BY <1>0, <2>9 DEF ExecReaped, Commands
    <3> QED BY <2>1, <3>1
  <2> QED BY <2>2, <2>3, <2>4, <2>5, <2>6, <2>7, <2>8, <2>9
<1>4. TypeOK'
  BY <1>1, <1>2, <1>3 DEF IInv, TypeOK, rest, Entry
<1> QED BY <1>1, <1>3, <1>4 DEF IInv, rest, AllFine, LiveKept, Live, SweptDown, ToldOnce

(***************************************************************************)
(* Theorems                                                                *)
(***************************************************************************)
LEMMA Start == Init => IInv
<1> SUFFICES ASSUME Init PROVE IInv
  OBVIOUS
<1>1. Unused \in Shells /\ Fine(Unused) /\ ~Listed(Unused)
  BY DEF Unused, Shells, Fine, Listed
<1>2. \A s \in Shell : shell[s] = Unused
  BY DEF Init
<1>3. TypeOK
  BY <1>1 DEF Init, TypeOK, Commands
<1>4. AllFine
  BY <1>1, <1>2 DEF AllFine
<1>5. LiveKept
  <2> SUFFICES ASSUME NEW g \in Registry PROVE Cardinality(Live(g)) <= Limit
    BY DEF LiveKept
  <2>1. Live(g) = {}
    BY <1>1, <1>2 DEF Live
  <2> QED BY <2>1, FS_EmptySet, LimitAssumption
<1>6. SweptDown /\ ToldOnce /\ CommandsOwned
  BY DEF Init, SweptDown, ToldOnce, CommandsOwned
<1> QED BY <1>3, <1>4, <1>5, <1>6 DEF IInv

LEMMA Step == IInv /\ [Next]_vars => IInv'
<1> SUFFICES ASSUME IInv, [Next]_vars PROVE IInv'
  OBVIOUS
<1>1. CASE ShellsFor \/ DropShells
  BY <1>1, MapStep
<1>2. CASE Jobs
  BY <1>2, JobsStep
<1>3. CASE \E g \in Registry : KillAll(g)
  BY <1>3, KillAllStep
<1>4. CASE \E s \in Shell : Reserve(s)
  BY <1>4, ReserveStep
<1>5. CASE \E s \in Shell :
             \/ Spawn(s) \/ SpawnFails(s) \/ Adopt(s) \/ AdoptLate(s)
             \/ Logs(s) \/ Kill(s) \/ PumpReads(s) \/ PumpEnforces(s) \/ DrainEnds(s)
             \/ StderrEnds(s) \/ ErrReads(s) \/ ErrAppends(s) \/ Reap(s) \/ Exits(s)
  BY <1>5, ShellStep
<1>6. CASE \E c \in Command :
             \/ Exec(c) \/ ExecExits(c) \/ ExecTimesOut(c) \/ ExecKills(c) \/ ExecEnds(c)
             \/ ExecReturns(c) \/ ExecDropped(c) \/ ExecReaped(c)
  BY <1>6, CommandStep
<1>7. CASE UNCHANGED vars
  BY <1>7 DEF vars, IInv, TypeOK, AllFine, LiveKept, Live, SweptDown, ToldOnce, CommandsOwned
<1> QED BY <1>1, <1>2, <1>3, <1>4, <1>5, <1>6, <1>7 DEF Next

\* Every record of a shell makes sense, and the limit, the sweep and the readers of the
\* log are respected, together (the other theorems follow).
THEOREM Invariance == Spec => []IInv
BY Start, Step, PTL DEF Spec

\* Every variable keeps its type (the records of LiveShell and of exec).
THEOREM TypeCorrect == Spec => []TypeOK
<1>1. IInv => TypeOK
  BY DEF IInv
<1> QED BY <1>1, Invariance, PTL

\* However many calls of start overlap, a registry has at most Limit shells that run or
\* are about to (start reserves under the lock and spawns without it).
THEOREM LimitHolds == Spec => []LimitKept
<1>1. IInv => LimitKept
  <2> SUFFICES ASSUME IInv, NEW g \in Registry
               PROVE  Cardinality({s \in Shell : /\ shell[s].reg = g /\ shell[s].exit = None
                        /\ (shell[s].start = "reserved" \/ shell[s].os = "runs")}) <= Limit
    BY DEF LimitKept
  <2> DEFINE busy == {s \in Shell : /\ shell[s].reg = g /\ shell[s].exit = None
                        /\ (shell[s].start = "reserved" \/ shell[s].os = "runs")}
  <2>1. busy \subseteq Live(g)
    BY DEF IInv, TypeOK, Shells, AllFine, Fine, Live, Listed
  <2>2. IsFiniteSet(Live(g)) /\ Cardinality(Live(g)) <= Limit
    <3>1. Live(g) \subseteq Shell
      BY DEF Live
    <3> QED BY <3>1, FiniteAssumption, FS_Subset DEF IInv, LiveKept
  <2>3. IsFiniteSet(busy) /\ Cardinality(busy) <= Cardinality(Live(g))
    BY <2>1, <2>2, FS_Subset
  <2>4. Cardinality(busy) \in Nat /\ Cardinality(Live(g)) \in Nat
    BY <2>2, <2>3, FS_CardinalityType
  <2> QED BY <2>2, <2>3, <2>4, LimitAssumption
<1> QED BY <1>1, Invariance, PTL

\* Every process has somebody who will end it, whatever was stopped or dropped while it
\* was being started (kill_on_drop, reap, pump).
THEOREM Owned == Spec => []NothingUnowned
<1>1. IInv => NothingUnowned
  BY DEF IInv, NothingUnowned, TypeOK, Shells, AllFine, Fine, CommandsOwned
<1> QED BY <1>1, Invariance, PTL

\* What a sweep found is stopped for good, a shell whose process had not come yet
\* included (kill_all, adopt).
THEOREM SweptStaysStopped == Spec => []SweptStaysDown
<1>1. IInv => SweptStaysDown
  BY NoneAssumption DEF IInv, SweptStaysDown, SweptDown, TypeOK, Shells, AllFine, Fine
<1> QED BY <1>1, Invariance, PTL

\* A reader who is told that a shell is done misses one chunk of its errors at most
\* (drain_stderr is aborted and seen to stop at its next wait).
THEOREM Told == Spec => []DoneIsFinal
<1>1. IInv => DoneIsFinal
  BY DEF IInv, ToldOnce, DoneIsFinal
<1> QED BY <1>1, Invariance, PTL

(***************************************************************************)
(* The list of foreground commands                                         *)
(***************************************************************************)
Working == {c \in Command : command[c].at \in {"waits", "kills"}}

IsOf(e, c) == e.id = c /\ e.running

ListTrue ==
  /\ Len(foreground) <= FgKeep + Cardinality(Working)
  /\ \A c \in Working : \/ \E i \in 1 .. Len(foreground) : IsOf(foreground[i], c)
                        \/ Len(foreground) >= FgKeep
  /\ \A c \in Command \ Working : \A i \in 1 .. Len(foreground) : ~IsOf(foreground[i], c)

LEMMA ListIsForeground ==
  ASSUME foreground \in Seq(Entry)
  PROVE  ListTrue <=> ForegroundIsTrue
<1>1. DOMAIN foreground = 1 .. Len(foreground)
  OBVIOUS
<1>2. ASSUME NEW c \in Command
      PROVE  {i \in DOMAIN foreground : foreground[i].id = c /\ foreground[i].running} = {} <=>
               \A i \in 1 .. Len(foreground) : ~IsOf(foreground[i], c)
  BY <1>1 DEF IsOf
<1> QED BY <1>2 DEF ListTrue, ForegroundIsTrue, Working, IsOf

\* What unmarking leaves: no entry of c that runs, the others, but the first if there
\* are too many.
LEMMA UnmarkedIs ==
  ASSUME foreground \in Seq(Entry), NEW c \in Command
  PROVE  /\ \A i \in 1 .. Len(Unmarked(c)) : ~IsOf(Unmarked(c)[i], c)
         /\ \A i \in 1 .. Len(Unmarked(c)) : \A d \in Command : IsOf(Unmarked(c)[i], d) =>
              \E j \in 1 .. Len(foreground) : IsOf(foreground[j], d)
         /\ \/ Len(Unmarked(c)) = FgKeep
            \/ /\ Len(Unmarked(c)) = Len(foreground) /\ Len(foreground) <= FgKeep
               /\ \A i \in 1 .. Len(foreground) : \A d \in Command \ {c} :
                    IsOf(foreground[i], d) => IsOf(Unmarked(c)[i], d)
<1> DEFINE f == [i \in DOMAIN foreground |->
                   IF foreground[i].id = c THEN [foreground[i] EXCEPT !.running = FALSE]
                   ELSE foreground[i]]
           n == Len(foreground)
<1>1. n \in Nat /\ DOMAIN foreground = 1 .. n /\ \A i \in 1 .. n : foreground[i] \in Entry
  OBVIOUS
<1>2. \A i \in 1 .. n : /\ f[i] \in Entry /\ ~IsOf(f[i], c)
                        /\ \A d \in Command \ {c} : IsOf(f[i], d) <=> IsOf(foreground[i], d)
  <2> SUFFICES ASSUME NEW i \in 1 .. n
               PROVE  /\ f[i] \in Entry /\ ~IsOf(f[i], c)
                      /\ \A d \in Command \ {c} : IsOf(f[i], d) <=> IsOf(foreground[i], d)
    OBVIOUS
  <2>1. f[i] = IF foreground[i].id = c THEN [foreground[i] EXCEPT !.running = FALSE]
               ELSE foreground[i]
    BY <1>1
  <2>2. foreground[i] \in Entry
    BY <1>1
  <2> HIDE DEF f
  <2>3. CASE foreground[i].id = c
    <3>1. f[i].id = c /\ f[i].running = FALSE /\ f[i] \in Entry
      BY <2>1, <2>2, <2>3 DEF Entry
    <3> QED BY <2>3, <3>1 DEF IsOf
  <2>4. CASE foreground[i].id # c
    BY <2>1, <2>2, <2>4 DEF IsOf
  <2> QED BY <2>3, <2>4
<1>3. f \in Seq(Entry) /\ Len(f) = n
  <2>1. f \in [1 .. n -> Entry]
    BY <1>1, <1>2
  <2> HIDE DEF f
  <2> QED BY <1>1, <2>1
<1>4. Unmarked(c) = IF Len(f) > FgKeep THEN SubSeq(f, Len(f) - FgKeep + 1, Len(f)) ELSE f
  BY DEF Unmarked, Trimmed
<1> HIDE DEF f, n
<1>5. CASE n > FgKeep
  <2> DEFINE g == SubSeq(f, n - FgKeep + 1, n)
  <2>1. n - FgKeep + 1 \in 1 .. n + 1
    BY <1>1, <1>5, LimitAssumption
  <2>2. Len(g) = FgKeep /\ \A i \in 1 .. FgKeep : g[i] = f[(n - FgKeep) + i]
    BY <1>1, <1>3, <1>5, LimitAssumption
  <2>3. Unmarked(c) = g
    BY <1>3, <1>4, <1>5
  <2> HIDE DEF g
  <2>4. \A i \in 1 .. FgKeep : (n - FgKeep) + i \in 1 .. n
    BY <1>1, <1>5, LimitAssumption
  <2>5. \A i \in 1 .. FgKeep : ~IsOf(g[i], c)
    BY <1>2, <2>2, <2>4
  <2>6. \A i \in 1 .. FgKeep : \A d \in Command : IsOf(g[i], d) =>
          \E j \in 1 .. n : IsOf(foreground[j], d)
    BY <1>2, <2>2, <2>4, <2>5
  <2> QED BY <2>2, <2>3, <2>5, <2>6 DEF n
<1>6. CASE ~(n > FgKeep)
  <2>1. Unmarked(c) = f
    BY <1>3, <1>4, <1>6
  <2>2. n <= FgKeep
    BY <1>1, <1>6, LimitAssumption
  <2> QED BY <1>2, <1>3, <2>1, <2>2 DEF n
<1> QED BY <1>5, <1>6

LEMMA WorkingFinite == IsFiniteSet(Working) /\ Cardinality(Working) \in Nat
<1>1. Working \subseteq Command
  BY DEF Working
<1> QED BY <1>1, FiniteAssumption, FS_Subset, FS_CardinalityType

\* The steps of a command: one more works and is listed, one less does and is unmarked,
\* or neither.
LEMMA CommandWorks ==
  ASSUME IInv, NEW c \in Command,
         Exec(c) \/ ExecExits(c) \/ ExecTimesOut(c) \/ ExecKills(c) \/ ExecEnds(c)
           \/ ExecReturns(c) \/ ExecDropped(c) \/ ExecReaped(c)
  PROVE  \/ /\ c \notin Working /\ Working' = Working \cup {c}
            /\ foreground' = Append(foreground, [id |-> c, running |-> TRUE])
         \/ c \in Working /\ Working' = Working \ {c} /\ foreground' = Unmarked(c)
         \/ Working' = Working /\ foreground' = foreground
<1>0. command \in [Command -> Commands]
  BY DEF IInv, TypeOK
<1>1. ASSUME NEW r \in Commands, command' = [command EXCEPT ![c] = r],
             r.at \in {"waits", "kills"}
      PROVE  Working' = Working \cup {c}
  BY <1>0, <1>1 DEF Working
<1>2. ASSUME NEW r \in Commands, command' = [command EXCEPT ![c] = r],
             r.at \notin {"waits", "kills"}
      PROVE  Working' = Working \ {c}
  BY <1>0, <1>2 DEF Working
<1>3. c \in Working <=> command[c].at \in {"waits", "kills"}
  BY DEF Working
<1>4. CASE Exec(c)
  <2> DEFINE r == [at |-> "waits", os |-> "runs", reaper |-> FALSE]
  <2>1. r \in Commands /\ command' = [command EXCEPT ![c] = r] /\ r.at = "waits"
    BY <1>4 DEF Exec, Commands
  <2>2. Working' = Working \cup {c}
    BY <1>1, <2>1
  <2> QED BY <1>3, <1>4, <2>2 DEF Exec
<1>5. CASE ExecExits(c) \/ ExecReaped(c)
  <2>1. PICK r \in Commands : command' = [command EXCEPT ![c] = r] /\ r.at = command[c].at
    <3>1. CASE ExecExits(c)
      <4> DEFINE r == [command[c] EXCEPT !.os = "ended"]
      <4>1. r \in Commands /\ command' = [command EXCEPT ![c] = r] /\ r.at = command[c].at
        BY <1>0, <3>1 DEF ExecExits, Commands
      <4> QED BY <4>1
    <3>2. CASE ExecReaped(c)
      <4> DEFINE r == [command[c] EXCEPT !.os = "ended", !.reaper = FALSE]
      <4>1. r \in Commands /\ command' = [command EXCEPT ![c] = r] /\ r.at = command[c].at
        BY <1>0, <3>2 DEF ExecReaped, Commands
      <4> QED BY <4>1
    <3> QED BY <1>5, <3>1, <3>2
  <2>2. Working' = Working
    BY <1>0, <2>1 DEF Working
  <2> QED BY <1>5, <2>2 DEF ExecExits, ExecReaped
<1>6. CASE ExecTimesOut(c)
  <2> DEFINE r == [command[c] EXCEPT !.at = "kills"]
  <2>1. r \in Commands /\ command' = [command EXCEPT ![c] = r] /\ r.at = "kills"
    BY <1>0, <1>6 DEF ExecTimesOut, Commands
  <2>2. c \in Working /\ Working' = Working \cup {c}
    BY <1>1, <1>3, <1>6, <2>1 DEF ExecTimesOut
  <2> QED BY <1>6, <2>2 DEF ExecTimesOut
<1>7. CASE ExecKills(c) \/ ExecEnds(c)
  <2>1. PICK r \in Commands : command' = [command EXCEPT ![c] = r] /\ r.at = "drains"
    <3>1. CASE ExecKills(c)
      <4> DEFINE r == [command[c] EXCEPT !.at = "drains", !.os = "ended"]
      <4>1. r \in Commands /\ command' = [command EXCEPT ![c] = r] /\ r.at = "drains"
        BY <1>0, <3>1 DEF ExecKills, Commands
      <4> QED BY <4>1
    <3>2. CASE ExecEnds(c)
      <4> DEFINE r == [command[c] EXCEPT !.at = "drains"]
      <4>1. r \in Commands /\ command' = [command EXCEPT ![c] = r] /\ r.at = "drains"
        BY <1>0, <3>2 DEF ExecEnds, Commands
      <4> QED BY <4>1
    <3> QED BY <1>7, <3>1, <3>2
  <2>2. Working' = Working \ {c}
    BY <1>2, <2>1
  <2> QED BY <1>3, <1>7, <2>2 DEF ExecKills, ExecEnds
<1>8. CASE ExecReturns(c)
  <2> DEFINE r == [command[c] EXCEPT !.at = "over"]
  <2>1. r \in Commands /\ command' = [command EXCEPT ![c] = r] /\ r.at = "over"
    BY <1>0, <1>8 DEF ExecReturns, Commands
  <2>2. c \notin Working /\ Working' = Working \ {c}
    BY <1>2, <1>3, <1>8, <2>1 DEF ExecReturns
  <2> QED BY <1>8, <2>2 DEF ExecReturns
<1>9. CASE ExecDropped(c)
  <2> DEFINE r == [command[c] EXCEPT !.at = "over", !.reaper = command[c].os = "runs"]
  <2>1. r \in Commands /\ command' = [command EXCEPT ![c] = r] /\ r.at = "over"
    BY <1>0, <1>9 DEF ExecDropped, Commands
  <2>2. Working' = Working \ {c}
    BY <1>2, <2>1
  <2>3. CASE command[c].at = "drains"
    BY <1>3, <1>9, <2>2, <2>3 DEF ExecDropped
  <2>4. CASE command[c].at \in {"waits", "kills"}
    BY <1>3, <1>9, <2>2, <2>4 DEF ExecDropped
  <2> QED BY <1>9, <2>3, <2>4 DEF ExecDropped
<1> QED BY <1>4, <1>5, <1>6, <1>7, <1>8, <1>9

LEMMA CommandKeepsList ==
  ASSUME IInv, ListTrue, NEW c \in Command,
         Exec(c) \/ ExecExits(c) \/ ExecTimesOut(c) \/ ExecKills(c) \/ ExecEnds(c)
           \/ ExecReturns(c) \/ ExecDropped(c) \/ ExecReaped(c)
  PROVE  ListTrue'
<1>1. foreground \in Seq(Entry) /\ Len(foreground) \in Nat
  BY DEF IInv, TypeOK, Entry
<1>2. IsFiniteSet(Working) /\ Cardinality(Working) \in Nat
  BY WorkingFinite
<1>3. CASE /\ c \notin Working /\ Working' = Working \cup {c}
           /\ foreground' = Append(foreground, [id |-> c, running |-> TRUE])
  <2>1. Cardinality(Working') = Cardinality(Working) + 1
    BY <1>2, <1>3, FS_AddElement
  <2>2. /\ Len(foreground') = Len(foreground) + 1
        /\ foreground'[Len(foreground) + 1] = [id |-> c, running |-> TRUE]
        /\ \A i \in 1 .. Len(foreground) : foreground'[i] = foreground[i]
    BY <1>1, <1>3 DEF Entry
  <2>3. Len(foreground') <= FgKeep + Cardinality(Working')
    BY <1>1, <1>2, <2>1, <2>2, LimitAssumption DEF ListTrue
  <2>4. IsOf(foreground'[Len(foreground')], c) /\ \A d \in Command \ {c} : ~IsOf(foreground'[Len(foreground')], d)
    BY <2>2 DEF IsOf
  <2>5. ASSUME NEW d \in Working'
        PROVE  \/ \E i \in 1 .. Len(foreground') : IsOf(foreground'[i], d)
               \/ Len(foreground') >= FgKeep
    BY <1>1, <1>3, <2>2, <2>4, LimitAssumption DEF ListTrue
  <2>6. ASSUME NEW d \in Command \ Working', NEW i \in 1 .. Len(foreground')
        PROVE  ~IsOf(foreground'[i], d)
    <3>1. d \in Command \ Working /\ d # c
      BY <1>3, <2>6
    <3>2. CASE i = Len(foreground')
      BY <2>4, <3>1, <3>2
    <3>3. CASE i # Len(foreground')
      <4>1. i \in 1 .. Len(foreground) /\ foreground'[i] = foreground[i]
        BY <1>1, <2>2, <3>3
      <4> QED BY <3>1, <4>1 DEF ListTrue
    <3> QED BY <3>2, <3>3
  <2> QED BY <2>3, <2>5, <2>6 DEF ListTrue
<1>4. CASE c \in Working /\ Working' = Working \ {c} /\ foreground' = Unmarked(c)
  <2>1. /\ \A i \in 1 .. Len(foreground') : ~IsOf(foreground'[i], c)
        /\ \A i \in 1 .. Len(foreground') : \A d \in Command : IsOf(foreground'[i], d) =>
             \E j \in 1 .. Len(foreground) : IsOf(foreground[j], d)
        /\ \/ Len(foreground') = FgKeep
           \/ /\ Len(foreground') = Len(foreground) /\ Len(foreground) <= FgKeep
              /\ \A i \in 1 .. Len(foreground) : \A d \in Command \ {c} :
                   IsOf(foreground[i], d) => IsOf(foreground'[i], d)
    BY <1>1, <1>4, UnmarkedIs
  <2>2. Cardinality(Working') \in Nat
    BY <1>2, <1>4, FS_RemoveElement, FS_CardinalityType
  <2>3. Len(foreground') <= FgKeep + Cardinality(Working')
    BY <1>1, <2>1, <2>2, LimitAssumption
  <2>4. ASSUME NEW d \in Working'
        PROVE  \/ \E i \in 1 .. Len(foreground') : IsOf(foreground'[i], d)
               \/ Len(foreground') >= FgKeep
    <3>1. d \in Working /\ d \in Command \ {c}
      BY <1>4 DEF Working
    <3>2. CASE Len(foreground') = FgKeep
      BY <3>2, LimitAssumption
    <3>3. CASE /\ Len(foreground') = Len(foreground)
               /\ \A i \in 1 .. Len(foreground) : \A e \in Command \ {c} :
                    IsOf(foreground[i], e) => IsOf(foreground'[i], e)
      BY <3>1, <3>3 DEF ListTrue
    <3> QED BY <2>1, <3>2, <3>3
  <2>5. ASSUME NEW d \in Command \ Working', NEW i \in 1 .. Len(foreground')
        PROVE  ~IsOf(foreground'[i], d)
    BY <1>4, <2>1 DEF ListTrue
  <2> QED BY <2>3, <2>4, <2>5 DEF ListTrue
<1>5. CASE Working' = Working /\ foreground' = foreground
  BY <1>5 DEF ListTrue
<1> QED BY <1>3, <1>4, <1>5, CommandWorks

LEMMA ListKept == IInv /\ ListTrue /\ [Next]_vars => ListTrue'
<1> SUFFICES ASSUME IInv, ListTrue, [Next]_vars PROVE ListTrue'
  OBVIOUS
<1>1. ASSUME UNCHANGED <<command, foreground>>
      PROVE  ListTrue'
  BY <1>1 DEF ListTrue, Working
<1>2. CASE UNCHANGED vars
  BY <1>1, <1>2 DEF vars
<1>3. CASE ShellsFor \/ DropShells \/ Jobs \/ \E g \in Registry : KillAll(g)
  BY <1>1, <1>3 DEF ShellsFor, DropShells, Jobs, KillAll, others
<1>4. ASSUME NEW s \in Shell,
             \/ Reserve(s) \/ Spawn(s) \/ SpawnFails(s) \/ Adopt(s) \/ AdoptLate(s)
             \/ Logs(s) \/ Kill(s) \/ PumpReads(s) \/ PumpEnforces(s) \/ DrainEnds(s)
             \/ StderrEnds(s) \/ ErrReads(s) \/ ErrAppends(s) \/ Reap(s) \/ Exits(s)
      PROVE  ListTrue'
  BY <1>1, <1>4 DEF Reserve, Spawn, SpawnFails, Adopt, AdoptLate, Logs, Kill, PumpReads,
       PumpEnforces, DrainEnds, StderrEnds, ErrReads, ErrAppends, Reap, Exits, others
<1>5. ASSUME NEW c \in Command,
             \/ Exec(c) \/ ExecExits(c) \/ ExecTimesOut(c) \/ ExecKills(c) \/ ExecEnds(c)
             \/ ExecReturns(c) \/ ExecDropped(c) \/ ExecReaped(c)
      PROVE  ListTrue'
  BY <1>5, CommandKeepsList
<1> QED BY <1>2, <1>3, <1>4, <1>5 DEF Next

\* The list of foreground commands shows those that run and no other as running, but for
\* what FG_KEEP trims, however the calls of exec end or are dropped (FgMark, whose drop
\* ends the entry).
THEOREM ListIsTrue == Spec => []ForegroundIsTrue
<1>1. Init => ListTrue
  <2> SUFFICES ASSUME Init PROVE ListTrue
    OBVIOUS
  <2>1. Len(foreground) = 0 /\ Working = {}
    BY DEF Init, Working
  <2> QED BY <2>1, FS_EmptySet, LimitAssumption DEF ListTrue
<1>2. IInv /\ ListTrue /\ [Next]_vars => ListTrue'
  BY ListKept
<1>3. IInv /\ ListTrue => ForegroundIsTrue
  BY ListIsForeground DEF IInv, TypeOK, Entry
<1> QED BY <1>1, <1>2, <1>3, Invariance, PTL DEF Spec
=================================================================================
