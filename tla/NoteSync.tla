------------------------------- MODULE NoteSync -------------------------------
(***************************************************************************)
(* How the notes of several devices are kept in step through a hub: the    *)
(* three-way plan of sync.rs and its steps, and brain.manifest, brain.read *)
(* and brain.apply of hub.rs, which serve them.                            *)
(*                                                                         *)
(* A device lists its own vault and the hub's, compares both with what the *)
(* two agreed on last (base, brain.json), and carries the differences out. *)
(* People and agents write notes on every side meanwhile.  A call to the   *)
(* hub may fail, and may then still be carried out there; a sync that      *)
(* fails leaves base as it was, and a later sync plans again.              *)
(*                                                                         *)
(* A note is compared, on a device or by the hub, and then written, and    *)
(* nothing keeps others from writing it in between: an edit on a device,   *)
(* an edit or another request on the hub, which serves each connection by  *)
(* itself.  (Plans are locked, other notes are not.)                       *)
(*                                                                         *)
(* A vault is a function from the paths of its notes to their texts.  A    *)
(* text stands for its hash as well.  Texts are UTF-8.                     *)
(***************************************************************************)
EXTENDS Integers, Sequences, FiniteSets, Functions

CONSTANTS
  Device,    \* the devices that sync
  Hub,       \* the server
  Writers,   \* the vaults whose notes people or agents write
  Note,      \* names of notes
  None,      \* no value
  Big,       \* texts longer than MAX_NOTE
  MaxEdits,  \* bound: the edits of one behaviour
  Frail,     \* bound: the devices whose calls fail
  MaxFails   \* bound: the failed syncs of one behaviour

ASSUME HubAssumption == Hub \notin Device
ASSUME WritersAssumption == Writers \subseteq Device \cup {Hub}
ASSUME BoundAssumption == MaxEdits \in Nat /\ MaxFails \in Nat /\ Big \subseteq Nat

Vault == Device \cup {Hub}

VARIABLES
  notes,   \* the vaults
  base,    \* what a device and the hub agreed on: brain.json of the device
  sync,    \* the sync that goes on at a device, or Rest
  wire,    \* requests of brain.apply the hub has yet to carry out
  edits, fails,
  \* history: the texts that nobody replaced or deleted, and of every text
  \* those it was written over
  alive, past,
  \* history: what was written to a note, or None if it was deleted, between
  \* somebody's check of the note and the write that was checked for
  crossed,
  failed   \* history: a sync failed

history == <<alive, past, crossed>>
vars == <<notes, base, sync, wire, edits, fails, history, failed>>

(***************************************************************************)
(* Values                                                                  *)
(***************************************************************************)
\* copies: the conflict copies this path is a copy of, the last one last.
Path == [note : Note, copies : Seq([by : Device, n : Nat \ {0}])]
Original(n) == [note |-> n, copies |-> << >>]
Text == 1..MaxEdits

ASSUME NoneAssumption == None \notin Nat \cup Path

Empty == [p \in {} |-> None]
At(f, p) == IF p \in DOMAIN f THEN f[p] ELSE None
With(f, p, x) == [q \in DOMAIN f \cup {p} |-> IF q = p THEN x ELSE f[q]]
Without(f, p) == Restrict(f, DOMAIN f \ {p})

\* x = None: a deletion.  expect = None: the note must not be there.  live: the
\* device still waits for the answer.  checked: the note was as expected.
Requests == [from : Device, path : Path, text : Text \cup {None},
             expect : Text \cup {None}, live : BOOLEAN, checked : BOOLEAN]

Rest == [pc |-> "rest", here |-> Empty, there |-> Empty, fetched |-> Empty,
         agreed |-> Empty, todo |-> {}, doing |-> None, puts |-> Empty,
         drops |-> {}, stale |-> {}]

IsVault(f) == DOMAIN f \subseteq Path /\ \A p \in DOMAIN f : f[p] \in Text

SyncTypes(d) ==
  LET S == sync[d] IN
  /\ S.pc \in {"rest", "listed", "planned", "steps", "puts", "drops"}
  /\ \A f \in {S.here, S.there, S.fetched, S.agreed, S.puts} : IsVault(f)
  /\ S.todo \subseteq Path /\ S.drops \subseteq Path /\ S.stale \subseteq Path
  /\ S.doing \in S.todo \cup {None}

TypeOK ==
  /\ DOMAIN notes = Vault /\ \A v \in Vault : IsVault(notes[v])
  /\ DOMAIN base = Device /\ \A d \in Device : IsVault(base[d])
  /\ DOMAIN sync = Device /\ \A d \in Device : SyncTypes(d)
  /\ wire \subseteq Requests
  /\ edits \in 0..MaxEdits /\ fails \in 0..MaxFails
  /\ alive \subseteq Text
  /\ past \in [Text -> SUBSET Text]
  /\ crossed \subseteq Text \cup {None}
  /\ failed \in BOOLEAN

Init ==
  /\ notes = [v \in Vault |-> Empty]
  /\ base = [d \in Device |-> Empty]
  /\ sync = [d \in Device |-> Rest]
  /\ wire = {}
  /\ edits = 0 /\ fails = 0
  /\ alive = {}
  /\ past = [x \in Text |-> {}]
  /\ crossed = {}
  /\ failed = FALSE

(***************************************************************************)
(* What is to be done with a note: here h, there t, agreed on last b       *)
(***************************************************************************)
\* Broken: a note deleted there is kept here.
ActKeeping(h, t, b) ==
  CASE h # None /\ t # None /\ h = t                     -> "keep"
    [] h # None /\ t # None /\ h # t /\ b = t            -> "push"
    [] h # None /\ t # None /\ h # t /\ b = h            -> "pull"
    [] h # None /\ t # None /\ h # t /\ b \notin {h, t}  -> "conflict"
    [] h # None /\ t = None /\ b = h                     -> "keep"
    [] h # None /\ t = None /\ b # h                     -> "push"
    [] h = None /\ t # None /\ b = t                     -> "deleteThere"
    [] h = None /\ t # None /\ b # t                     -> "pull"
    [] h = None /\ t = None                              -> "none"

Act(h, t, b) ==
  CASE h # None /\ t # None /\ h = t                     -> "keep"
    [] h # None /\ t # None /\ h # t /\ b = t            -> "push"
    [] h # None /\ t # None /\ h # t /\ b = h            -> "pull"
    [] h # None /\ t # None /\ h # t /\ b \notin {h, t}  -> "conflict"
    [] h # None /\ t = None /\ b = h                     -> "deleteHere"
    [] h # None /\ t = None /\ b # h                     -> "push"
    [] h = None /\ t # None /\ b = t                     -> "deleteThere"
    [] h = None /\ t # None /\ b # t                     -> "pull"
    [] h = None /\ t = None                              -> "none"

ActOf(d, p) == Act(At(sync[d].here, p), At(sync[d].there, p), At(base[d], p))

\* manifest: notes that are too long are not listed.
Listed(f) == RestrictValues(f, LAMBDA x : x \notin Big)

Aside(p, d, n) == [p EXCEPT !.copies = Append(@, [by |-> d, n |-> n])]

\* conflict_path: the first name of a copy that neither listing has.
FreeAside(S, d, p) ==
  LET taken == DOMAIN S.here \cup DOMAIN S.there
      free == {n \in 1..(Cardinality(taken) + 1) : Aside(p, d, n) \notin taken}
  IN Aside(p, d, CHOOSE n \in free : \A m \in free : n <= m)

\* The note reads as it did when it was listed.
Untouched(d, p) == At(notes[d], p) = At(sync[d].here, p)

Set(d, S) == sync' = [sync EXCEPT ![d] = S]

(***************************************************************************)
(* People and agents                                                       *)
(***************************************************************************)
\* A sync of v, or the hub if v is the hub, is between a check of p and the write
\* that was checked for.
InGap(v, p) ==
  IF v = Hub THEN \E m \in wire : m.checked /\ m.path = p ELSE sync[v].doing = p

\* x comes to be in the note, or None if it goes, while others may be in a gap.
Cross(x, gap) == crossed' = IF gap THEN crossed \cup {x} ELSE crossed

\* Somebody writes a note, over the text it has.
Write(v, p) ==
  /\ edits < MaxEdits /\ edits' = edits + 1
  /\ notes' = [notes EXCEPT ![v] = With(@, p, edits + 1)]
  /\ Cross(edits + 1, InGap(v, p))
  /\ LET old == Restrict(notes[v], DOMAIN notes[v] \cap {p})
         over == UNION {{old[q]} \cup past[old[q]] : q \in DOMAIN old} IN
     /\ alive' = (alive \ {At(notes[v], p)}) \cup {edits + 1}
     /\ past' = [past EXCEPT ![edits + 1] = over]
  /\ UNCHANGED <<base, sync, wire, fails, failed>>

Delete(v, p) ==
  /\ p \in DOMAIN notes[v]
  /\ edits < MaxEdits /\ edits' = edits + 1
  /\ notes' = [notes EXCEPT ![v] = Without(@, p)]
  /\ Cross(None, InGap(v, p))
  /\ alive' = alive \ {notes[v][p]}
  /\ UNCHANGED <<base, sync, wire, fails, past, failed>>

(***************************************************************************)
(* A sync                                                                  *)
(***************************************************************************)
ListHere(d) ==
  /\ sync[d].pc = "rest"
  /\ Set(d, [Rest EXCEPT !.pc = "listed", !.here = Listed(notes[d])])
  /\ UNCHANGED <<notes, base, wire, edits, fails, history, failed>>

\* What a plan asks for, by what is to be done.
Asked(S, b, acts) ==
  {p \in DOMAIN S.here \cup DOMAIN S.there :
     Act(At(S.here, p), At(S.there, p), At(b, p)) \in acts}

\* brain.manifest, then the plan.  The steps that only take down what to agree on
\* or what to ask for need no more of anybody: they are taken here.
ListThere(d) ==
  LET S == [sync[d] EXCEPT !.there = Listed(notes[Hub])]
      b == base[d]
      known == DOMAIN b \cap (DOMAIN S.here \cup DOMAIN S.there)
      same == Asked(S, b, {"keep"}) IN
  /\ S.pc = "listed"
  /\ Set(d, [S EXCEPT
       !.pc = IF Asked(S, b, {"pull", "conflict"}) = {} THEN "steps" ELSE "planned",
       !.agreed = [p \in known \cup same |-> IF p \in same THEN S.here[p] ELSE b[p]],
       !.drops = Asked(S, b, {"deleteThere"}),
       !.todo = Asked(S, b, {"pull", "push", "deleteHere", "conflict"})])
  /\ UNCHANGED <<notes, base, wire, edits, fails, history, failed>>

\* brain.read of the notes to pull and of those in conflict.
Fetch(d) ==
  LET S == sync[d]
      wanted == Asked(S, base[d], {"pull", "conflict"}) IN
  /\ S.pc = "planned"
  /\ Set(d, [S EXCEPT !.pc = "steps",
                      !.fetched = Restrict(notes[Hub], DOMAIN notes[Hub] \cap wanted)])
  /\ UNCHANGED <<notes, base, wire, edits, fails, history, failed>>

\* The next step of a sync.  The code takes the paths in their order, which no
\* step depends on; those to keep and to delete there went with the plan.
Stepping(d, p, act) ==
  /\ sync[d].pc = "steps"
  /\ sync[d].doing = None
  /\ p \in sync[d].todo
  /\ ActOf(d, p) = act

\* S, with the step for p behind it.
Done(S, p) == [S EXCEPT !.todo = @ \ {p}, !.doing = None]

\* Broken: the note is not compared with the listing.
CheckHereBlind(d, p) ==
  LET S == sync[d] IN
  /\ Stepping(d, p, "pull") \/ Stepping(d, p, "deleteHere")
  /\ Set(d, IF ActOf(d, p) = "pull" /\ p \notin DOMAIN S.fetched
              THEN Done(S, p) ELSE [S EXCEPT !.doing = p])
  /\ UNCHANGED <<notes, base, wire, edits, fails, history, failed>>

\* A note is written or deleted here only if it is as it was listed, and was
\* fetched if it is to be written; else the next sync plans it again.
CheckHere(d, p) ==
  LET S == sync[d] IN
  /\ Stepping(d, p, "pull") \/ Stepping(d, p, "deleteHere")
  /\ Set(d, IF ~ Untouched(d, p) \/ (ActOf(d, p) = "pull" /\ p \notin DOMAIN S.fetched)
              THEN Done(S, p) ELSE [S EXCEPT !.doing = p])
  /\ UNCHANGED <<notes, base, wire, edits, fails, history, failed>>

Pull(d, p) ==
  LET S == sync[d] IN
  /\ S.doing = p /\ ActOf(d, p) = "pull"
  /\ notes' = [notes EXCEPT ![d] = With(@, p, S.fetched[p])]
  /\ Set(d, [Done(S, p) EXCEPT !.agreed = With(@, p, S.fetched[p])])
  /\ UNCHANGED <<base, wire, edits, fails, history, failed>>

DeleteHere(d, p) ==
  LET S == sync[d] IN
  /\ S.doing = p /\ ActOf(d, p) = "deleteHere"
  /\ notes' = [notes EXCEPT ![d] = Without(@, p)]
  /\ Set(d, [Done(S, p) EXCEPT !.agreed = Without(@, p)])
  /\ UNCHANGED <<base, wire, edits, fails, history, failed>>

\* What is sent is read now, not when it was listed.
Push(d, p) ==
  LET S == sync[d] IN
  /\ Stepping(d, p, "push")
  /\ Set(d, IF p \notin DOMAIN notes[d] THEN Done(S, p)
            ELSE [Done(S, p) EXCEPT !.puts = With(@, p, notes[d][p])])
  /\ UNCHANGED <<notes, base, wire, edits, fails, history, failed>>

\* A conflict: the text here is put aside, under the name of a copy.
SetAside(d, p) ==
  LET S == sync[d]
      aside == FreeAside(S, d, p) IN
  /\ Stepping(d, p, "conflict")
  /\ p \in DOMAIN S.fetched /\ p \in DOMAIN notes[d]
  /\ notes' = [notes EXCEPT ![d] = With(@, aside, notes[d][p])]
  /\ Set(d, [S EXCEPT !.doing = p, !.puts = With(@, aside, notes[d][p])])
  /\ UNCHANGED <<base, wire, edits, fails, history, failed>>

\* Then the text there takes its place.
TakeTheirs(d, p) ==
  LET S == sync[d] IN
  /\ S.doing = p /\ ActOf(d, p) = "conflict"
  /\ notes' = [notes EXCEPT ![d] = With(@, p, S.fetched[p])]
  /\ Set(d, [Done(S, p) EXCEPT !.agreed = With(@, p, S.fetched[p])])
  /\ UNCHANGED <<base, wire, edits, fails, history, failed>>

\* The note is not there any more, on one side: gone there, it is passed over;
\* gone here, the sync fails.
ConflictGone(d, p) ==
  /\ Stepping(d, p, "conflict")
  /\ \/ /\ p \notin DOMAIN sync[d].fetched
        /\ Set(d, Done(sync[d], p)) /\ UNCHANGED failed
     \/ /\ p \in DOMAIN sync[d].fetched /\ p \notin DOMAIN notes[d]
        /\ Set(d, Rest) /\ failed' = TRUE
  /\ UNCHANGED <<notes, base, wire, edits, fails, history>>

Request(d, p, x) ==
  [from |-> d, path |-> p, text |-> x, expect |-> At(sync[d].there, p),
   live |-> TRUE, checked |-> FALSE]

\* push_there: brain.apply with the notes to put, if there are any.
SendPuts(d) ==
  LET S == sync[d] IN
  /\ S.pc = "steps" /\ S.todo = {} /\ DOMAIN S.puts # {}
  /\ Set(d, [S EXCEPT !.pc = "puts"])
  /\ wire' = wire \cup {Request(d, p, S.puts[p]) : p \in DOMAIN S.puts}
  /\ UNCHANGED <<notes, base, edits, fails, history, failed>>

Answered(d) == \A m \in wire : m.from = d => ~ m.live

\* The notes to put, if any, were answered.
PutsAreDone(d) ==
  \/ sync[d].pc = "puts" /\ Answered(d)
  \/ sync[d].pc = "steps" /\ sync[d].todo = {} /\ DOMAIN sync[d].puts = {}

\* Broken: what the hub took is not agreed on.
AgreedForgetting(S) == S.agreed

\* What the hub took is agreed on, too.
Agreed(S) ==
  LET taken == DOMAIN S.puts \ S.stale IN
  [p \in DOMAIN S.agreed \cup taken |-> IF p \in taken THEN S.puts[p] ELSE S.agreed[p]]

\* brain.apply with the notes to delete.
SendDrops(d) ==
  LET S == sync[d] IN
  /\ PutsAreDone(d) /\ S.drops # {}
  /\ Set(d, [S EXCEPT !.pc = "drops", !.agreed = Agreed(S),
                      !.puts = Empty, !.stale = {}])
  /\ wire' = wire \cup {Request(d, p, None) : p \in S.drops}
  /\ UNCHANGED <<notes, base, edits, fails, history, failed>>

\* What is agreed on is saved.
Save(d) ==
  LET S == sync[d] IN
  /\ \/ /\ S.pc = "drops" /\ Answered(d)
        /\ base' = [base EXCEPT ![d] =
             Restrict(S.agreed, DOMAIN S.agreed \ (S.drops \ S.stale))]
     \/ /\ PutsAreDone(d) /\ S.drops = {}
        /\ base' = [base EXCEPT ![d] = Agreed(S)]
  /\ Set(d, Rest)
  /\ UNCHANGED <<notes, wire, edits, fails, history, failed>>

\* A call fails or the device stops; before the steps that would change nothing.
\* What it asked of the hub may still be carried out, any part of it.
Fail(d) ==
  LET mine == {m \in wire : m.from = d /\ m.live} IN
  /\ d \in Frail
  /\ fails < MaxFails /\ fails' = fails + 1 /\ failed' = TRUE
  /\ sync[d].pc \in {"steps", "puts", "drops"}
  /\ Set(d, Rest)
  /\ \E left \in SUBSET mine :
       wire' = (wire \ mine) \cup {[m EXCEPT !.live = FALSE] : m \in left}
  /\ UNCHANGED <<notes, base, edits, history>>

(***************************************************************************)
(* The hub: brain.apply                                                    *)
(***************************************************************************)
Checked(m) == wire' = (wire \ {m}) \cup {[m EXCEPT !.checked = TRUE]}

\* Broken: the hub does not compare the note with what is expected.
CheckThereBlind(m) ==
  /\ m \in wire /\ ~ m.checked
  /\ Checked(m)
  /\ UNCHANGED <<notes, base, sync, edits, fails, history, failed>>

\* The hub looks whether the note is as the device saw it; if not, it names it
\* stale.  To delete what is not there is no error.
CheckThere(m) ==
  LET gone == m.text = None /\ m.path \notin DOMAIN notes[Hub]
      fits == At(notes[Hub], m.path) = m.expect IN
  /\ m \in wire /\ ~ m.checked
  /\ IF ~ gone /\ fits THEN Checked(m) ELSE wire' = wire \ {m}
  /\ sync' = IF gone \/ fits \/ ~ m.live THEN sync
             ELSE [sync EXCEPT ![m.from].stale = @ \cup {m.path}]
  /\ UNCHANGED <<notes, base, edits, fails, history, failed>>

\* Then it puts or deletes the note, whatever it has become.
Apply(m) ==
  /\ m \in wire /\ m.checked
  /\ wire' = wire \ {m}
  /\ notes' = [notes EXCEPT ![Hub] = IF m.text = None THEN Without(@, m.path)
                                     ELSE With(@, m.path, m.text)]
  /\ Cross(m.text, \E o \in wire \ {m} : o.checked /\ o.path = m.path)
  /\ UNCHANGED <<base, sync, edits, fails, alive, past, failed>>

(***************************************************************************)
(* The specification                                                       *)
(***************************************************************************)
Edit ==
  \E v \in Writers :
    \E p \in {Original(n) : n \in Note} \cup DOMAIN notes[v] :
      Write(v, p) \/ Delete(v, p)

Step(d) ==
  \E p \in sync[d].todo :
    \/ CheckHere(d, p) \/ Pull(d, p) \/ DeleteHere(d, p) \/ Push(d, p)
    \/ SetAside(d, p) \/ TakeTheirs(d, p) \/ ConflictGone(d, p)

SyncStep(d) ==
  ListHere(d) \/ ListThere(d) \/ Fetch(d) \/ Step(d)
  \/ SendPuts(d) \/ SendDrops(d) \/ Save(d)

Serve == \E m \in wire : CheckThere(m) \/ Apply(m)

Next ==
  \/ Edit
  \/ \E d \in Device : SyncStep(d) \/ Fail(d)
  \/ Serve

Spec == Init /\ [][Next]_vars

\* A device syncs again and again (SYNC_EVERY of the desktop), and the hub
\* carries out what it was asked.
Fairness == (\A d \in Device : WF_vars(SyncStep(d))) /\ WF_vars(Serve)

LiveSpec == Spec /\ Fairness

(***************************************************************************)
(* Properties                                                              *)
(***************************************************************************)
\* What is not to be lost: what nobody replaced or deleted where it stood, save
\* what was written between the check of another write and that write.
Standing == alive \ crossed

\* No text is lost: what somebody wrote, and nobody since replaced or deleted
\* where it stood, is in some vault under some name, whatever syncs overlap it,
\* fail, or are carried out late (sync.rs: both sides of a conflict are kept, an
\* edit beats a delete, a pull never lands on an edit).  A text that comes between
\* a check and its write is the exception: the code does not lock the note.
NothingLost == \A x \in Standing : \E v \in Vault : \E p \in DOMAIN notes[v] : notes[v][p] = x

\* Once the edits are over, every vault comes to hold the same notes, and no
\* sync moves anything from then on: plans do not chase each other.
InStepAtLast == <>[](\A d \in Device : notes[d] = notes[Hub])

\* A sync deletes a text, here or there, only after somebody deleted or replaced
\* it: being out of a listing is not being given up.  A text that comes between
\* the check and the removal is the exception.
OnlyGivenUpIsDeleted ==
  /\ \A d \in Device : \A p \in sync[d].todo :
       sync[d].doing = p /\ ActOf(d, p) = "deleteHere" => At(notes[d], p) \notin Standing
  /\ \A m \in wire :
       m.text = None /\ (m.checked \/ At(notes[Hub], m.path) = m.expect) =>
         At(notes[Hub], m.path) \notin Standing

\* A note is in conflict only if its two texts were written apart: neither was
\* written over the other.
ConflictsAreReal ==
  \A d \in Device : \A p \in DOMAIN sync[d].fetched \cap DOMAIN notes[d] :
    sync[d].doing = None /\ p \in sync[d].todo /\ ActOf(d, p) = "conflict" =>
      LET mine == notes[d][p]
          theirs == sync[d].fetched[p] IN
      mine \notin past[theirs] /\ theirs \notin past[mine]

\* It is so as long as no sync fails: one that fails forgets what it had already
\* agreed on, and the next takes its own doing for somebody else's.
ConflictsAreRealUnlessFailed == ~ failed => ConflictsAreReal
=============================================================================
