---------------------------- MODULE NoteSyncProofs ----------------------------
(***************************************************************************)
(* No text is lost by the sync of any number of devices, and until a sync  *)
(* fails, what is in conflict was written apart.                           *)
(*                                                                         *)
(* What is alive is followed through a sync: what a device agreed on with  *)
(* the hub is on both sides or was given up, so a plan replaces only what  *)
(* was given up or put aside; and so does every request on its way to the  *)
(* hub.  The edits in between, and the other devices, keep this.  Then     *)
(* what a device has of its own is followed: nobody else has it, or a text *)
(* written over it, before the hub takes it.                               *)
(***************************************************************************)
EXTENDS NoteSync, FiniteSetTheorems, SequenceTheorems, WellFoundedInduction, TLAPS

(***************************************************************************)
(* Values                                                                  *)
(***************************************************************************)
\* f is a vault of texts that were written so far.
VaultTo(f, e) ==
  /\ DOMAIN f \subseteq Path /\ IsFiniteSet(DOMAIN f)
  /\ \A p \in DOMAIN f : f[p] \in 1..e

LEMMA EmptyVault == ASSUME NEW e PROVE VaultTo(Empty, e)
BY FS_EmptySet DEF VaultTo, Empty

LEMMA WithVault ==
  ASSUME NEW f, NEW e, VaultTo(f, e), NEW p \in Path, NEW x \in 1..e
  PROVE  VaultTo(With(f, p, x), e)
<1>1. IsFiniteSet(DOMAIN f \cup {p})
  BY FS_AddElement DEF VaultTo
<1> QED BY <1>1 DEF VaultTo, With

LEMMA RestrictedVault ==
  ASSUME NEW f, NEW e, VaultTo(f, e), NEW D \in SUBSET (DOMAIN f)
  PROVE  VaultTo(Restrict(f, D), e)
<1>1. IsFiniteSet(D)
  BY FS_Subset DEF VaultTo
<1> QED BY <1>1 DEF VaultTo, Restrict

LEMMA WithoutVault ==
  ASSUME NEW f, NEW e, VaultTo(f, e), NEW p
  PROVE  VaultTo(Without(f, p), e)
BY RestrictedVault DEF Without

LEMMA LaterVault ==
  ASSUME NEW f, NEW e \in Nat, VaultTo(f, e)
  PROVE  VaultTo(f, e + 1)
BY DEF VaultTo

(***************************************************************************)
(* The names of copies                                                     *)
(***************************************************************************)
Copies == Seq([by : Device, n : Nat \ {0}])

\* Two copies have one name only if they are copies of one note, of one number.
LEMMA AsideInjective ==
  ASSUME NEW d \in Device, NEW p \in Path, NEW q \in Path,
         NEW m \in Nat \ {0}, NEW n \in Nat \ {0}
  PROVE  /\ Aside(p, d, m) \in Path
         /\ Aside(p, d, m).copies # << >>
         /\ Aside(p, d, m) = Aside(q, d, n) => p = q /\ m = n
<1> DEFINE x == [by |-> d, n |-> m]
           y == [by |-> d, n |-> n]
<1>1. x \in [by : Device, n : Nat \ {0}] /\ y \in [by : Device, n : Nat \ {0}]
  OBVIOUS
<1>2. /\ p.copies \in Copies /\ q.copies \in Copies
      /\ p = [note |-> p.note, copies |-> p.copies] /\ q = [note |-> q.note, copies |-> q.copies]
      /\ p.note \in Note
  BY DEF Path, Copies
<1>3. /\ Append(p.copies, x) \in Copies /\ Append(p.copies, x) # << >>
      /\ Append(p.copies, x) = Append(q.copies, y) => p.copies = q.copies /\ x = y
  <2>1. Append(p.copies, x) \in Copies /\ Append(p.copies, x) # << >>
    BY <1>1, <1>2, AppendProperties DEF Copies
  <2>2. Append(p.copies, x) = Append(q.copies, y) => p.copies = q.copies /\ x = y
    BY <1>1, <1>2, AppendInjective DEF Copies
  <2> QED BY <2>1, <2>2
<1>4. /\ Aside(p, d, m) = [note |-> p.note, copies |-> Append(p.copies, x)]
      /\ Aside(q, d, n) = [note |-> q.note, copies |-> Append(q.copies, y)]
  <2>1. ASSUME NEW a, NEW c, NEW w
        PROVE  [[note |-> a, copies |-> c] EXCEPT !.copies = w] = [note |-> a, copies |-> w]
    OBVIOUS
  <2>2. /\ Aside(p, d, m) = [p EXCEPT !.copies = Append(p.copies, x)]
        /\ Aside(q, d, n) = [q EXCEPT !.copies = Append(q.copies, y)]
    BY DEF Aside
  <2> HIDE DEF x, y
  <2> QED BY <1>2, <2>1, <2>2
<1>5. x = y => m = n
  OBVIOUS
<1> HIDE DEF x, y
<1>6. Aside(p, d, m) \in Path
  BY <1>2, <1>3, <1>4 DEF Path, Copies
<1>7. Aside(p, d, m).copies # << >>
  BY <1>3, <1>4
<1>8. Aside(p, d, m) = Aside(q, d, n) => p.note = q.note /\ Append(p.copies, x) = Append(q.copies, y)
  BY <1>4
<1> QED BY <1>2, <1>3, <1>5, <1>6, <1>7, <1>8

\* conflict_path finds a name, and one that is not taken.
LEMMA AsideIsFree ==
  ASSUME NEW S, NEW d \in Device, NEW p \in Path,
         IsFiniteSet(DOMAIN S.here), IsFiniteSet(DOMAIN S.there)
  PROVE  /\ \E n \in Nat \ {0} : FreeAside(S, d, p) = Aside(p, d, n)
         /\ FreeAside(S, d, p) \notin DOMAIN S.here \cup DOMAIN S.there
<1> DEFINE taken == DOMAIN S.here \cup DOMAIN S.there
           k == Cardinality(taken)
           free == {n \in 1..(k + 1) : Aside(p, d, n) \notin taken}
           f == [n \in 1..(k + 1) |-> Aside(p, d, n)]
<1>1. IsFiniteSet(taken)
  BY FS_Union
<1>2. k \in Nat
  BY <1>1, FS_CardinalityType
<1>3. IsFiniteSet(1..(k + 1)) /\ Cardinality(1..(k + 1)) = k + 1
  <2>1. k + 1 \in Int /\ 1 \in Int /\ ~(1 > k + 1) /\ (k + 1) - 1 + 1 = k + 1
    BY <1>2
  <2> HIDE DEF k
  <2> QED BY <2>1, FS_Interval
<1>4. free # {}
  <2> SUFFICES ASSUME free = {} PROVE FALSE
    OBVIOUS
  <2>1. f \in [1..(k + 1) -> taken]
    OBVIOUS
  <2>2. k < k + 1
    BY <1>2
  <2> HIDE DEF f, taken, k
  <2>3. \E i, j \in 1..(k + 1) : i # j /\ f[i] = f[j]
    <3> DEFINE R == 1..(k + 1)
    <3>1. IsFiniteSet(R) /\ Cardinality(taken) < Cardinality(R) /\ f \in [R -> taken]
      BY <1>3, <2>1, <2>2 DEF k
    <3> HIDE DEF R
    <3>2. \E i, j \in R : i # j /\ f[i] = f[j]
      BY <1>1, <3>1, FS_PigeonHole
    <3> QED BY <3>2 DEF R
  <2> USE DEF f
  <2>4. PICK i, j \in 1..(k + 1) : i # j /\ Aside(p, d, i) = Aside(p, d, j)
    BY <2>3
  <2> HIDE DEF f
  <2>5. i \in Nat \ {0} /\ j \in Nat \ {0}
    BY <1>2
  <2> QED BY <2>4, <2>5, AsideInjective
<1> HIDE DEF f
<1>5. free \subseteq Nat
  BY <1>2
<1>6. PICK n \in free : \A m \in free : ~ (<<m, n>> \in OpToRel(<, Nat))
  BY <1>4, <1>5, NatLessThanWellFounded, WFMin
<1>7. \A m \in free : n <= m
  <2> TAKE m \in free
  <2>1. ~ (<<m, n>> \in OpToRel(<, Nat))
    BY <1>6
  <2>2. m \in Nat /\ n \in Nat
    BY <1>5
  <2> QED BY <2>1, <2>2 DEF OpToRel
<1> DEFINE least == CHOOSE i \in free : \A m \in free : i <= m
<1>8. least \in free
  BY <1>7
<1>9. FreeAside(S, d, p) = Aside(p, d, least)
  BY DEF FreeAside
<1> HIDE DEF least
<1>10. least \in Nat \ {0} /\ Aside(p, d, least) \notin taken
  BY <1>2, <1>8
<1> QED BY <1>9, <1>10

(***************************************************************************)
(* The inductive invariant                                                 *)
(***************************************************************************)
ActIn(S, b, p) == Act(At(S.here, p), At(S.there, p), At(b, p))

Fields == {"pc", "here", "there", "fetched", "agreed", "todo", "doing", "puts", "drops", "stale"}

\* A sync has the fields of one, and is about what was listed.
SyncTo(S, b, e) ==
  /\ DOMAIN S = Fields
  /\ S.pc \in {"rest", "listed", "planned", "steps", "puts", "drops"}
  /\ VaultTo(S.here, e) /\ VaultTo(S.there, e) /\ VaultTo(S.fetched, e)
  /\ VaultTo(S.agreed, e) /\ VaultTo(S.puts, e)
  /\ S.todo \subseteq DOMAIN S.here \cup DOMAIN S.there
  /\ S.drops \subseteq DOMAIN S.here \cup DOMAIN S.there
  /\ S.stale \subseteq Path
  /\ S.doing \in S.todo \cup {None}
  /\ S.pc # "steps" => S.doing = None
  /\ \A p \in S.todo :
       S.doing = p /\ ActIn(S, b, p) \in {"pull", "conflict"} => p \in DOMAIN S.fetched

WireTo(e) ==
  \A m \in wire :
    /\ m \in [from : Device, path : Path, text : 1..e \cup {None},
              expect : 1..e \cup {None}, live : BOOLEAN, checked : BOOLEAN]

Types ==
  /\ DOMAIN notes = Vault /\ \A v \in Vault : VaultTo(notes[v], edits)
  /\ DOMAIN base = Device /\ \A d \in Device : VaultTo(base[d], edits)
  /\ DOMAIN sync = Device /\ \A d \in Device : SyncTo(sync[d], base[d], edits)
  /\ WireTo(edits)
  /\ edits \in 0..MaxEdits /\ fails \in 0..MaxFails
  /\ alive \subseteq 1..edits
  /\ past \in [Text -> SUBSET Text]
  /\ crossed \subseteq 1..edits \cup {None}

LEMMA TypesImply == Types /\ failed \in BOOLEAN => TypeOK
<1> SUFFICES ASSUME Types, failed \in BOOLEAN PROVE TypeOK
  OBVIOUS
<1>1. edits <= MaxEdits /\ edits \in Nat /\ MaxEdits \in Nat
  BY BoundAssumption DEF Types
<1>2. \A f : VaultTo(f, edits) => IsVault(f)
  BY <1>1 DEF VaultTo, IsVault, Text
<1>3. \A v \in Vault : IsVault(notes[v])
  BY <1>2 DEF Types
<1>4. \A d \in Device : IsVault(base[d])
  BY <1>2 DEF Types
<1>5. \A d \in Device : SyncTypes(d)
  <2> TAKE d \in Device
  <2>1. SyncTo(sync[d], base[d], edits)
    BY DEF Types
  <2>2. DOMAIN sync[d].here \cup DOMAIN sync[d].there \subseteq Path
    BY <2>1 DEF SyncTo, VaultTo
  <2> QED BY <1>2, <2>1, <2>2 DEF SyncTo, SyncTypes
<1>6. wire \subseteq Requests
  BY <1>1 DEF Types, WireTo, Requests, Text
<1>7. alive \subseteq Text /\ crossed \subseteq Text \cup {None}
  BY <1>1 DEF Types, Text
<1> QED BY <1>3, <1>4, <1>5, <1>6, <1>7 DEF Types, TypeOK

LEMMA InitTypes == Init => Types
<1> SUFFICES ASSUME Init PROVE Types
  OBVIOUS
<1>1. \A e : VaultTo(Empty, e)
  BY EmptyVault
<1>2. \A d \in Device : SyncTo(sync[d], base[d], edits)
  BY <1>1 DEF Init, SyncTo, Rest, Fields
<1> QED BY <1>1, <1>2, BoundAssumption DEF Init, Types, WireTo, Vault

(***************************************************************************)
(* What a step of a device leaves alone                                    *)
(***************************************************************************)
Moves(d) ==
  /\ DOMAIN notes' = Vault /\ \A v \in Vault \ {d} : notes'[v] = notes[v]
  /\ DOMAIN base' = Device /\ \A c \in Device \ {d} : base'[c] = base[c]
  /\ DOMAIN sync' = Device /\ \A c \in Device \ {d} : sync'[c] = sync[c]
  /\ UNCHANGED <<edits, history>>

LEMMA SetMoves ==
  ASSUME Types, NEW d \in Device, NEW X, Set(d, X)
  PROVE  /\ sync'[d] = X /\ DOMAIN sync' = Device
         /\ \A c \in Device \ {d} : sync'[c] = sync[c]
BY DEF Types, Set

LEMMA TypesTogether ==
  ASSUME Types, NEW d \in Device, Moves(d),
         VaultTo(notes'[d], edits), VaultTo(base'[d], edits),
         SyncTo(sync'[d], base'[d], edits), WireTo(edits)', fails' \in 0..MaxFails
  PROVE  Types'
<1>1. \A v \in Vault : VaultTo(notes'[v], edits)
  BY DEF Types, Moves
<1>2. \A c \in Device : VaultTo(base'[c], edits) /\ SyncTo(sync'[c], base'[c], edits)
  BY DEF Types, Moves
<1> QED BY <1>1, <1>2 DEF Types, Moves, history

LEMMA ActMeans ==
  ASSUME NEW h, NEW t, NEW b
  PROVE  /\ Act(h, t, b) = "keep" => h # None /\ h = t
         /\ Act(h, t, b) = "push" => h # None /\ (t = None \/ (b = t /\ h # t))
         /\ Act(h, t, b) = "pull" => t # None /\ b # t /\ (h = None \/ b = h)
         /\ Act(h, t, b) = "conflict" => h # None /\ t # None /\ b # h /\ b # t
         /\ Act(h, t, b) = "deleteHere" => h # None /\ t = None /\ b = h
         /\ Act(h, t, b) = "deleteThere" => h = None /\ t # None /\ b = t
BY DEF Act

\* None is no path and no text.
LEMMA Nobody == None \notin Path /\ None \notin Nat
BY NoneAssumption

(***************************************************************************)
(* Every step keeps the types                                              *)
(***************************************************************************)
LEMMA RestTypes ==
  ASSUME NEW b, NEW e PROVE SyncTo(Rest, b, e)
BY EmptyVault DEF SyncTo, Fields, Rest

LEMMA WriteTypes ==
  ASSUME Types, NEW v \in Vault, NEW p \in Path, Write(v, p)
  PROVE  Types'
<1>1. /\ edits \in Nat /\ edits' = edits + 1 /\ edits' \in 0..MaxEdits
      /\ UNCHANGED <<base, sync, wire, fails>>
  BY BoundAssumption DEF Types, Write
<1>2. \A f : VaultTo(f, edits) => VaultTo(f, edits')
  BY <1>1, LaterVault
<1>3. DOMAIN notes' = Vault /\ \A u \in Vault : VaultTo(notes'[u], edits')
  <2>1. DOMAIN notes' = Vault
    BY DEF Write, Types
  <2>2. VaultTo(notes'[v], edits')
    <3>1. notes'[v] = With(notes[v], p, edits + 1)
      BY DEF Write, Types
    <3>2. VaultTo(notes[v], edits') /\ edits + 1 \in 1..edits'
      BY <1>1, <1>2 DEF Types
    <3> QED BY <3>1, <3>2, WithVault
  <2>3. \A u \in Vault \ {v} : notes'[u] = notes[u]
    BY DEF Write, Types
  <2> QED BY <1>2, <2>1, <2>2, <2>3 DEF Types
<1>4. \A d \in Device : SyncTo(sync[d], base[d], edits')
  BY <1>2 DEF Types, SyncTo, Fields
<1>5. WireTo(edits)'
  BY <1>1 DEF Types, WireTo
<1>6. alive' \subseteq 1..edits'
  <2>1. alive' \subseteq alive \cup {edits + 1}
    BY DEF Write
  <2>2. alive \subseteq 1..edits
    BY DEF Types
  <2> QED BY <1>1, <2>1, <2>2
<1>7. past' \in [Text -> SUBSET Text]
  <2>1. DOMAIN notes[v] \cap {p} \subseteq DOMAIN notes[v]
    OBVIOUS
  <2>2. \A q \in DOMAIN notes[v] : notes[v][q] \in Text
    <3>1. VaultTo(notes[v], edits)
      BY DEF Types
    <3> QED BY <1>1, <3>1, BoundAssumption DEF VaultTo, Text
  <2>3. edits + 1 \in Text
    BY <1>1 DEF Text
  <2> DEFINE old == Restrict(notes[v], DOMAIN notes[v] \cap {p})
             over == UNION {{old[q]} \cup past[old[q]] : q \in DOMAIN old}
  <2>4. past' = [past EXCEPT ![edits + 1] = over]
    BY DEF Write
  <2>5. \A q \in DOMAIN old : old[q] \in Text
    BY <2>2 DEF Restrict
  <2> HIDE DEF old
  <2>6. over \subseteq Text
    BY <2>5 DEF Types
  <2> HIDE DEF over
  <2> QED BY <2>3, <2>4, <2>6 DEF Types
<1>8. crossed' \subseteq 1..edits' \cup {None}
  <2>1. crossed' \subseteq crossed \cup {edits + 1}
    BY DEF Write, Cross
  <2>2. crossed \subseteq 1..edits \cup {None}
    BY DEF Types
  <2> QED BY <1>1, <2>1, <2>2
<1> QED BY <1>1, <1>2, <1>3, <1>4, <1>5, <1>6, <1>7, <1>8 DEF Types

LEMMA DeleteTypes ==
  ASSUME Types, NEW v \in Vault, NEW p \in Path, Delete(v, p)
  PROVE  Types'
<1>1. /\ edits \in Nat /\ edits' = edits + 1 /\ edits' \in 0..MaxEdits
      /\ UNCHANGED <<base, sync, wire, fails, past>>
  BY BoundAssumption DEF Types, Delete
<1>2. \A f : VaultTo(f, edits) => VaultTo(f, edits')
  BY <1>1, LaterVault
<1>3. DOMAIN notes' = Vault /\ \A u \in Vault : VaultTo(notes'[u], edits')
  <2>1. notes'[v] = Without(notes[v], p) /\ DOMAIN notes' = Vault
    BY DEF Delete, Types
  <2>2. VaultTo(notes'[v], edits')
    BY <1>2, <2>1, WithoutVault DEF Types
  <2>3. \A u \in Vault \ {v} : notes'[u] = notes[u]
    BY DEF Delete, Types
  <2> QED BY <1>2, <2>1, <2>2, <2>3 DEF Types
<1>4. \A d \in Device : SyncTo(sync[d], base[d], edits')
  BY <1>2 DEF Types, SyncTo, Fields
<1>5. WireTo(edits)'
  BY <1>1 DEF Types, WireTo
<1>6. alive' \subseteq 1..edits'
  <2>1. alive' \subseteq alive
    BY DEF Delete
  <2>2. alive \subseteq 1..edits
    BY DEF Types
  <2> QED BY <1>1, <2>1, <2>2
<1>7. crossed' \subseteq 1..edits' \cup {None}
  <2>1. crossed' \subseteq crossed \cup {None}
    BY DEF Delete, Cross
  <2>2. crossed \subseteq 1..edits \cup {None}
    BY DEF Types
  <2> QED BY <1>1, <2>1, <2>2
<1> QED BY <1>1, <1>2, <1>3, <1>4, <1>5, <1>6, <1>7 DEF Types

\* What the hub answers is true of the request it is about, and the rest stays.
LEMMA CheckThereTypes ==
  ASSUME Types, NEW m \in wire, CheckThere(m)
  PROVE  Types'
<1>1. /\ m.from \in Device /\ m.path \in Path
      /\ UNCHANGED <<notes, base, edits, fails, history>>
  BY DEF Types, WireTo, CheckThere
<1>2. DOMAIN sync' = Device /\ \A d \in Device : SyncTo(sync'[d], base[d], edits)
  <2>1. /\ DOMAIN sync' = Device /\ \A d \in Device \ {m.from} : sync'[d] = sync[d]
        /\ \/ sync'[m.from] = sync[m.from]
           \/ sync'[m.from] = [sync[m.from] EXCEPT !.stale = @ \cup {m.path}]
    <3> DEFINE Y == [sync[m.from] EXCEPT !.stale = sync[m.from].stale \cup {m.path}]
    <3>1. sync' = sync \/ sync' = [sync EXCEPT ![m.from] = Y]
      <4> DEFINE c == \/ m.text = None /\ m.path \notin DOMAIN notes[Hub]
                      \/ At(notes[Hub], m.path) = m.expect \/ ~ m.live
      <4>1. sync' = IF c THEN sync ELSE [sync EXCEPT ![m.from] = Y]
        BY DEF CheckThere
      <4> HIDE DEF c, Y
      <4> QED BY <4>1
    <3>2. DOMAIN sync = Device
      BY DEF Types
    <3> HIDE DEF Y
    <3>3. /\ DOMAIN sync' = Device /\ \A d \in Device \ {m.from} : sync'[d] = sync[d]
          /\ sync'[m.from] = sync[m.from] \/ sync'[m.from] = Y
      BY <1>1, <3>1, <3>2
    <3> QED BY <3>3 DEF Y
  <2>2. SyncTo(sync[m.from], base[m.from], edits)
    BY <1>1 DEF Types
  <2>3. SyncTo([sync[m.from] EXCEPT !.stale = @ \cup {m.path}], base[m.from], edits)
    BY <1>1, <2>2 DEF SyncTo, Fields, ActIn
  <2> QED BY <1>1, <2>1, <2>2, <2>3 DEF Types
<1>3. WireTo(edits)'
  <2> DEFINE R == [from : Device, path : Path, text : 1..edits \cup {None},
                   expect : 1..edits \cup {None}, live : BOOLEAN, checked : BOOLEAN]
  <2>1. \A k \in wire : k \in R
    BY DEF Types, WireTo
  <2>2. [m EXCEPT !.checked = TRUE] \in R
    BY <2>1
  <2>3. wire' \subseteq wire \cup {[m EXCEPT !.checked = TRUE]}
    BY DEF CheckThere, Checked
  <2> HIDE DEF R
  <2>4. \A k \in wire' : k \in R
    BY <2>1, <2>2, <2>3
  <2> QED BY <1>1, <2>4 DEF WireTo, R
<1> QED BY <1>1, <1>2, <1>3 DEF Types, history, Vault

LEMMA ApplyTypes ==
  ASSUME Types, NEW m \in wire, Apply(m)
  PROVE  Types'
<1>1. /\ m.from \in Device /\ m.path \in Path /\ m.text \in 1..edits \cup {None}
      /\ UNCHANGED <<base, sync, edits, fails, alive, past>> /\ wire' \subseteq wire
  BY DEF Types, WireTo, Apply
<1>2. /\ DOMAIN notes' = Vault /\ \A v \in Device : notes'[v] = notes[v]
      /\ notes'[Hub] \in {Without(notes[Hub], m.path)}
           \cup {With(notes[Hub], m.path, x) : x \in {m.text} \ {None}}
  BY HubAssumption DEF Types, Apply, Vault
<1>3. VaultTo(notes'[Hub], edits)
  <2>1. VaultTo(notes[Hub], edits)
    BY DEF Types, Vault
  <2>2. VaultTo(Without(notes[Hub], m.path), edits)
    BY <2>1, WithoutVault
  <2>3. m.text # None => VaultTo(With(notes[Hub], m.path, m.text), edits)
    BY <1>1, <2>1, WithVault
  <2> QED BY <1>2, <2>1, <2>2, <2>3
<1>4. WireTo(edits)'
  BY <1>1 DEF Types, WireTo
<1>5. crossed' \subseteq 1..edits \cup {None}
  <2>1. crossed' \subseteq crossed \cup {m.text}
    BY DEF Apply, Cross
  <2> QED BY <1>1, <2>1 DEF Types
<1> QED BY <1>1, <1>2, <1>3, <1>4, <1>5 DEF Types, Vault

\* What the steps of a device have in common.
LEMMA StepMoves ==
  ASSUME Types, NEW d \in Device, NEW X, Set(d, X),
         UNCHANGED <<edits, history>>,
         base' = base \/ (\E b : base' = [base EXCEPT ![d] = b]),
         notes' = notes \/ (\E n : notes' = [notes EXCEPT ![d] = n])
  PROVE  Moves(d) /\ sync'[d] = X
<1>1. /\ sync'[d] = X /\ DOMAIN sync' = Device
      /\ \A c \in Device \ {d} : sync'[c] = sync[c]
  BY SetMoves
<1>2. DOMAIN base' = Device /\ \A c \in Device \ {d} : base'[c] = base[c]
  BY DEF Types
<1>3. DOMAIN notes' = Vault /\ \A v \in Vault \ {d} : notes'[v] = notes[v]
  BY DEF Types, Vault
<1> QED BY <1>1, <1>2, <1>3 DEF Moves

\* A step that ends where the types hold keeps them.
LEMMA StepTypes ==
  ASSUME Types, NEW d \in Device, NEW X, Set(d, X), SyncTo(X, base'[d], edits),
         UNCHANGED <<edits, history>>,
         base' = base \/ (\E b : base' = [base EXCEPT ![d] = b] /\ VaultTo(b, edits)),
         notes' = notes \/ (\E n : notes' = [notes EXCEPT ![d] = n] /\ VaultTo(n, edits)),
         WireTo(edits)', fails' \in 0..MaxFails
  PROVE  Types' /\ Moves(d) /\ sync'[d] = X
<1>1. Moves(d) /\ sync'[d] = X
  BY StepMoves
<1>2. VaultTo(base'[d], edits) /\ VaultTo(notes'[d], edits)
  BY DEF Types, Vault
<1> QED BY <1>1, <1>2, TypesTogether

\* The device's own part of the types.
LEMMA OwnTypes ==
  ASSUME Types, NEW d \in Device
  PROVE  /\ SyncTo(sync[d], base[d], edits)
         /\ VaultTo(base[d], edits) /\ VaultTo(notes[d], edits) /\ VaultTo(notes[Hub], edits)
         /\ WireTo(edits) /\ fails \in 0..MaxFails
BY DEF Types, Vault

LEMMA WireSame ==
  ASSUME Types, UNCHANGED <<wire, edits>> PROVE WireTo(edits)'
BY DEF Types, WireTo

LEMMA ListedIsVault ==
  ASSUME NEW f, NEW e, VaultTo(f, e) PROVE VaultTo(Listed(f), e)
BY RestrictedVault DEF Listed, RestrictValues

LEMMA DoneTypes ==
  ASSUME NEW S, NEW b, NEW e, NEW p, SyncTo(S, b, e)
  PROVE  SyncTo(Done(S, p), b, e)
<1>1. None \notin S.todo
  BY Nobody DEF SyncTo, VaultTo
<1> QED BY <1>1 DEF SyncTo, Fields, Done, ActIn

LEMMA ListHereTypes ==
  ASSUME Types, NEW d \in Device, ListHere(d)
  PROVE  Types' /\ Moves(d)
<1> DEFINE X == [Rest EXCEPT !.pc = "listed", !.here = Listed(notes[d])]
<1>1. VaultTo(Listed(notes[d]), edits) /\ SyncTo(Rest, base[d], edits)
  BY OwnTypes, ListedIsVault, RestTypes
<1>2. SyncTo(X, base[d], edits)
  BY <1>1 DEF SyncTo, Fields, Rest, ActIn
<1>3. Set(d, X) /\ UNCHANGED <<notes, base, wire, edits, fails, history>>
  BY DEF ListHere
<1> HIDE DEF X
<1> QED BY <1>2, <1>3, StepTypes, OwnTypes, WireSame

LEMMA ListThereTypes ==
  ASSUME Types, NEW d \in Device, ListThere(d)
  PROVE  Types' /\ Moves(d)
<1> DEFINE S == [sync[d] EXCEPT !.there = Listed(notes[Hub])]
           b == base[d]
           known == DOMAIN b \cap (DOMAIN S.here \cup DOMAIN S.there)
           same == Asked(S, b, {"keep"})
           agreed == [p \in known \cup same |-> IF p \in same THEN S.here[p] ELSE b[p]]
           X == [S EXCEPT
             !.pc = IF Asked(S, b, {"pull", "conflict"}) = {} THEN "steps" ELSE "planned",
             !.agreed = agreed,
             !.drops = Asked(S, b, {"deleteThere"}),
             !.todo = Asked(S, b, {"pull", "push", "deleteHere", "conflict"})]
<1>1. SyncTo(sync[d], b, edits) /\ sync[d].pc = "listed" /\ VaultTo(b, edits)
  BY OwnTypes DEF ListThere
<1>2. VaultTo(Listed(notes[Hub]), edits)
  BY OwnTypes, ListedIsVault
<1>3. /\ S.here = sync[d].here /\ S.there = Listed(notes[Hub]) /\ S.doing = None
      /\ VaultTo(S.here, edits) /\ VaultTo(S.there, edits)
  BY <1>1, <1>2 DEF SyncTo, Fields
<1>4. \A acts : Asked(S, b, acts) \subseteq DOMAIN S.here \cup DOMAIN S.there
  BY DEF Asked
<1>5. \A p \in same : p \in DOMAIN S.here
  BY ActMeans DEF Asked, At
<1>6. VaultTo(agreed, edits)
  <2>1. DOMAIN agreed \subseteq DOMAIN S.here \cup DOMAIN S.there
    BY <1>4
  <2>2. IsFiniteSet(DOMAIN S.here \cup DOMAIN S.there) /\ DOMAIN S.here \cup DOMAIN S.there \subseteq Path
    BY <1>3, FS_Union DEF VaultTo
  <2>3. IsFiniteSet(DOMAIN agreed)
    BY <2>1, <2>2, FS_Subset
  <2>4. \A p \in DOMAIN agreed : agreed[p] \in 1..edits
    BY <1>1, <1>3, <1>5 DEF VaultTo
  <2> HIDE DEF agreed
  <2> QED BY <2>1, <2>2, <2>3, <2>4 DEF VaultTo
<1>7. None \notin DOMAIN S.here \cup DOMAIN S.there
  BY <1>3, Nobody DEF VaultTo
<1> HIDE DEF agreed
<1>8. SyncTo(X, b, edits)
  BY <1>1, <1>2, <1>4, <1>6, <1>7 DEF SyncTo, Fields, ActIn
<1>9. Set(d, X) /\ UNCHANGED <<notes, base, wire, edits, fails, history>>
  BY DEF ListThere, agreed
<1> HIDE DEF X
<1> QED BY <1>8, <1>9, StepTypes, OwnTypes, WireSame

LEMMA FetchTypes ==
  ASSUME Types, NEW d \in Device, Fetch(d)
  PROVE  Types' /\ Moves(d)
<1> DEFINE S == sync[d]
           fetched == Restrict(notes[Hub], DOMAIN notes[Hub] \cap Asked(S, base[d], {"pull", "conflict"}))
           X == [S EXCEPT !.pc = "steps", !.fetched = fetched]
<1>1. SyncTo(S, base[d], edits) /\ S.pc = "planned"
  BY OwnTypes DEF Fetch
<1>2. VaultTo(fetched, edits)
  <2>1. DOMAIN notes[Hub] \cap Asked(S, base[d], {"pull", "conflict"}) \subseteq DOMAIN notes[Hub]
    OBVIOUS
  <2> QED BY <2>1, OwnTypes, RestrictedVault
<1> HIDE DEF fetched
<1>3. None \notin S.todo
  BY <1>1, Nobody DEF SyncTo, Fields, VaultTo
<1>4. SyncTo(X, base[d], edits)
  BY <1>1, <1>2, <1>3 DEF SyncTo, Fields, ActIn
<1>5. Set(d, X) /\ UNCHANGED <<notes, base, wire, edits, fails, history>>
  BY DEF Fetch, fetched
<1> HIDE DEF X
<1> QED BY <1>4, <1>5, StepTypes, OwnTypes, WireSame

LEMMA CheckHereTypes ==
  ASSUME Types, NEW d \in Device, NEW p \in sync[d].todo, CheckHere(d, p)
  PROVE  Types' /\ Moves(d)
<1> DEFINE S == sync[d]
           X == IF ~ Untouched(d, p) \/ (ActOf(d, p) = "pull" /\ p \notin DOMAIN S.fetched)
                  THEN Done(S, p) ELSE [S EXCEPT !.doing = p]
<1>1. SyncTo(S, base[d], edits) /\ S.pc = "steps" /\ ActOf(d, p) \in {"pull", "deleteHere"}
  BY OwnTypes DEF CheckHere, Stepping
<1>2. SyncTo(X, base[d], edits)
  <2>1. SyncTo(Done(S, p), base[d], edits)
    BY <1>1, DoneTypes
  <2>2. ASSUME ActOf(d, p) = "pull" => p \in DOMAIN S.fetched
        PROVE  SyncTo([S EXCEPT !.doing = p], base[d], edits)
    BY <1>1, <2>2 DEF SyncTo, Fields, ActIn, ActOf
  <2> QED BY <2>1, <2>2
<1>3. Set(d, X) /\ UNCHANGED <<notes, base, wire, edits, fails, history>>
  BY DEF CheckHere
<1> HIDE DEF X
<1> QED BY <1>2, <1>3, StepTypes, OwnTypes, WireSame

\* p is what a sync is at: it is a path, and was fetched if it is written.
LEMMA DoingTypes ==
  ASSUME Types, NEW d \in Device, NEW p \in sync[d].todo
  PROVE  /\ p \in Path /\ p \in DOMAIN sync[d].here \cup DOMAIN sync[d].there
         /\ sync[d].doing = p /\ ActOf(d, p) \in {"pull", "conflict"} =>
              p \in DOMAIN sync[d].fetched /\ sync[d].fetched[p] \in 1..edits
BY OwnTypes DEF SyncTo, Fields, ActOf, ActIn, VaultTo

LEMMA TakeTypes ==
  ASSUME Types, NEW d \in Device, NEW p \in sync[d].todo, Pull(d, p) \/ TakeTheirs(d, p)
  PROVE  Types' /\ Moves(d)
<1> DEFINE S == sync[d]
           x == S.fetched[p]
           X == [Done(S, p) EXCEPT !.agreed = With(@, p, x)]
<1>1. SyncTo(S, base[d], edits) /\ p \in Path /\ x \in 1..edits
  BY OwnTypes, DoingTypes DEF Pull, TakeTheirs
<1>2. VaultTo(With(notes[d], p, x), edits) /\ VaultTo(With(S.agreed, p, x), edits)
  BY <1>1, OwnTypes, WithVault DEF SyncTo, Fields
<1>3. SyncTo(X, base[d], edits)
  <2>1. Done(S, p).agreed = S.agreed /\ SyncTo(Done(S, p), base[d], edits)
    BY <1>1, DoneTypes DEF SyncTo, Fields, Done
  <2>2. ASSUME NEW R, NEW f, SyncTo(R, base[d], edits), VaultTo(f, edits)
        PROVE  SyncTo([R EXCEPT !.agreed = f], base[d], edits)
    BY <2>2 DEF SyncTo, Fields, ActIn
  <2> QED BY <1>2, <2>1, <2>2
<1>4. /\ Set(d, X) /\ notes' = [notes EXCEPT ![d] = With(notes[d], p, x)]
      /\ UNCHANGED <<base, wire, edits, fails, history>>
  BY DEF Pull, TakeTheirs
<1> HIDE DEF X
<1> QED BY <1>2, <1>3, <1>4, StepTypes, OwnTypes, WireSame

LEMMA DeleteHereTypes ==
  ASSUME Types, NEW d \in Device, NEW p \in sync[d].todo, DeleteHere(d, p)
  PROVE  Types' /\ Moves(d)
<1> DEFINE S == sync[d]
           X == [Done(S, p) EXCEPT !.agreed = Without(@, p)]
<1>1. SyncTo(S, base[d], edits)
  BY OwnTypes
<1>2. VaultTo(Without(notes[d], p), edits) /\ VaultTo(Without(S.agreed, p), edits)
  BY <1>1, OwnTypes, WithoutVault DEF SyncTo, Fields
<1>3. SyncTo(X, base[d], edits)
  <2>1. Done(S, p).agreed = S.agreed /\ SyncTo(Done(S, p), base[d], edits)
    BY <1>1, DoneTypes DEF SyncTo, Fields, Done
  <2>2. ASSUME NEW R, NEW f, SyncTo(R, base[d], edits), VaultTo(f, edits)
        PROVE  SyncTo([R EXCEPT !.agreed = f], base[d], edits)
    BY <2>2 DEF SyncTo, Fields, ActIn
  <2> QED BY <1>2, <2>1, <2>2
<1>4. /\ Set(d, X) /\ notes' = [notes EXCEPT ![d] = Without(notes[d], p)]
      /\ UNCHANGED <<base, wire, edits, fails, history>>
  BY DEF DeleteHere
<1> HIDE DEF X
<1> QED BY <1>2, <1>3, <1>4, StepTypes, OwnTypes, WireSame

LEMMA PushTypes ==
  ASSUME Types, NEW d \in Device, NEW p \in sync[d].todo, Push(d, p)
  PROVE  Types' /\ Moves(d)
<1> DEFINE S == sync[d]
           X == IF p \notin DOMAIN notes[d] THEN Done(S, p)
                ELSE [Done(S, p) EXCEPT !.puts = With(@, p, notes[d][p])]
<1>1. SyncTo(S, base[d], edits) /\ SyncTo(Done(S, p), base[d], edits)
  BY OwnTypes, DoneTypes
<1>2. SyncTo(X, base[d], edits)
  <2>1. Done(S, p).puts = S.puts
    BY <1>1 DEF SyncTo, Fields, Done
  <2>2. ASSUME NEW R, NEW f, SyncTo(R, base[d], edits), VaultTo(f, edits)
        PROVE  SyncTo([R EXCEPT !.puts = f], base[d], edits)
    BY <2>2 DEF SyncTo, Fields, ActIn
  <2>3. p \in DOMAIN notes[d] => VaultTo(With(S.puts, p, notes[d][p]), edits)
    <3>1. p \in DOMAIN notes[d] => notes[d][p] \in 1..edits
      BY OwnTypes DEF VaultTo
    <3> QED BY <1>1, <3>1, DoingTypes, WithVault DEF SyncTo, Fields
  <2> QED BY <1>1, <2>1, <2>2, <2>3
<1>3. Set(d, X) /\ UNCHANGED <<notes, base, wire, edits, fails, history>>
  BY DEF Push
<1> HIDE DEF X
<1> QED BY <1>2, <1>3, StepTypes, OwnTypes, WireSame

LEMMA SetAsideTypes ==
  ASSUME Types, NEW d \in Device, NEW p \in sync[d].todo, SetAside(d, p)
  PROVE  Types' /\ Moves(d)
<1> DEFINE S == sync[d]
           aside == FreeAside(S, d, p)
           X == [S EXCEPT !.doing = p, !.puts = With(@, aside, notes[d][p])]
<1>1. /\ SyncTo(S, base[d], edits) /\ S.pc = "steps"
      /\ p \in DOMAIN S.fetched /\ p \in DOMAIN notes[d]
  BY OwnTypes DEF SetAside, Stepping
<1>2. aside \in Path
  <2>1. p \in Path /\ IsFiniteSet(DOMAIN S.here) /\ IsFiniteSet(DOMAIN S.there)
    BY <1>1, DoingTypes DEF SyncTo, Fields, VaultTo
  <2> QED BY <2>1, AsideIsFree, AsideInjective
<1>3. notes[d][p] \in 1..edits
  BY <1>1, OwnTypes DEF VaultTo
<1> HIDE DEF aside
<1>4. VaultTo(With(notes[d], aside, notes[d][p]), edits) /\ VaultTo(With(S.puts, aside, notes[d][p]), edits)
  BY <1>1, <1>2, <1>3, OwnTypes, WithVault DEF SyncTo, Fields
<1>5. SyncTo(X, base[d], edits)
  BY <1>1, <1>4 DEF SyncTo, Fields, ActIn
<1>6. /\ Set(d, X) /\ notes' = [notes EXCEPT ![d] = With(notes[d], aside, notes[d][p])]
      /\ UNCHANGED <<base, wire, edits, fails, history>>
  BY DEF SetAside, aside
<1> HIDE DEF X
<1> QED BY <1>4, <1>5, <1>6, StepTypes, OwnTypes, WireSame

LEMMA ConflictGoneTypes ==
  ASSUME Types, NEW d \in Device, NEW p \in sync[d].todo, ConflictGone(d, p)
  PROVE  Types' /\ Moves(d)
<1>1. PICK X \in {Done(sync[d], p), Rest} : Set(d, X)
  BY DEF ConflictGone
<1>2. SyncTo(X, base[d], edits)
  BY OwnTypes, DoneTypes, RestTypes
<1>3. UNCHANGED <<notes, base, wire, edits, fails, history>>
  BY DEF ConflictGone
<1> QED BY <1>1, <1>2, <1>3, StepTypes, OwnTypes, WireSame

LEMMA AgreedTypes ==
  ASSUME NEW S, NEW b, NEW e, SyncTo(S, b, e)
  PROVE  VaultTo(Agreed(S), e)
<1> DEFINE taken == DOMAIN S.puts \ S.stale
<1>1. VaultTo(S.agreed, e) /\ VaultTo(S.puts, e)
  BY DEF SyncTo
<1>2. IsFiniteSet(DOMAIN S.agreed \cup taken)
  <2>1. IsFiniteSet(DOMAIN S.agreed \cup DOMAIN S.puts)
    BY <1>1, FS_Union DEF VaultTo
  <2>2. DOMAIN S.agreed \cup taken \subseteq DOMAIN S.agreed \cup DOMAIN S.puts
    OBVIOUS
  <2> QED BY <2>1, <2>2, FS_Subset
<1> QED BY <1>1, <1>2 DEF Agreed, VaultTo

LEMMA RequestTypes ==
  ASSUME Types, NEW d \in Device, NEW p \in Path, NEW x \in 1..edits \cup {None}
  PROVE  Request(d, p, x) \in [from : Device, path : Path, text : 1..edits \cup {None},
                               expect : 1..edits \cup {None}, live : BOOLEAN, checked : BOOLEAN]
<1>1. At(sync[d].there, p) \in 1..edits \cup {None}
  BY OwnTypes DEF SyncTo, VaultTo, At
<1> QED BY <1>1 DEF Request

LEMMA SendPutsTypes ==
  ASSUME Types, NEW d \in Device, SendPuts(d)
  PROVE  Types' /\ Moves(d)
<1> DEFINE S == sync[d]
           X == [S EXCEPT !.pc = "puts"]
<1>1. SyncTo(S, base[d], edits) /\ S.todo = {}
  BY OwnTypes DEF SendPuts
<1>2. S.doing = None
  BY <1>1 DEF SyncTo
<1>3. SyncTo(X, base[d], edits)
  BY <1>1, <1>2 DEF SyncTo, Fields, ActIn
<1>4. WireTo(edits)'
  <2>1. \A p \in DOMAIN S.puts : p \in Path /\ S.puts[p] \in 1..edits
    BY <1>1 DEF SyncTo, VaultTo
  <2>2. /\ wire' = wire \cup {Request(d, p, S.puts[p]) : p \in DOMAIN S.puts}
        /\ edits' = edits
    BY DEF SendPuts
  <2> DEFINE R == [from : Device, path : Path, text : 1..edits \cup {None},
                   expect : 1..edits \cup {None}, live : BOOLEAN, checked : BOOLEAN]
             sent == {Request(d, p, S.puts[p]) : p \in DOMAIN S.puts}
  <2>3. sent \subseteq R
    <3>1. ASSUME NEW p \in DOMAIN S.puts PROVE Request(d, p, S.puts[p]) \in R
      <4>1. p \in Path /\ S.puts[p] \in 1..edits \cup {None}
        BY <2>1, <3>1
      <4> HIDE DEF S
      <4> QED BY <4>1, RequestTypes
    <3> QED BY <3>1
  <2>4. \A m \in wire : m \in R
    BY DEF Types, WireTo
  <2> HIDE DEF sent, R
  <2>5. \A m \in wire' : m \in R
    BY <2>2, <2>3, <2>4 DEF sent
  <2> QED BY <2>2, <2>5 DEF WireTo, R
<1>5. Set(d, X) /\ UNCHANGED <<notes, base, edits, fails, history>>
  BY DEF SendPuts
<1> HIDE DEF X
<1> QED BY <1>3, <1>4, <1>5, StepTypes, OwnTypes

LEMMA SendDropsTypes ==
  ASSUME Types, NEW d \in Device, SendDrops(d)
  PROVE  Types' /\ Moves(d)
<1> DEFINE S == sync[d]
           X == [S EXCEPT !.pc = "drops", !.agreed = Agreed(S), !.puts = Empty, !.stale = {}]
<1>1. /\ SyncTo(S, base[d], edits) /\ VaultTo(Agreed(S), edits) /\ VaultTo(Empty, edits)
      /\ S.pc # "steps" \/ S.todo = {}
  BY OwnTypes, AgreedTypes, EmptyVault DEF SendDrops, PutsAreDone
<1>2. S.doing = None
  BY <1>1 DEF SyncTo
<1>3. SyncTo(X, base[d], edits)
  BY <1>1, <1>2 DEF SyncTo, Fields, ActIn
<1>4. WireTo(edits)'
  <2>1. \A p \in S.drops : p \in Path
    BY <1>1 DEF SyncTo, VaultTo
  <2>2. /\ wire' = wire \cup {Request(d, p, None) : p \in S.drops}
        /\ edits' = edits
    BY DEF SendDrops
  <2> DEFINE R == [from : Device, path : Path, text : 1..edits \cup {None},
                   expect : 1..edits \cup {None}, live : BOOLEAN, checked : BOOLEAN]
             sent == {Request(d, p, None) : p \in S.drops}
  <2>3. sent \subseteq R
    <3>1. ASSUME NEW p \in S.drops PROVE Request(d, p, None) \in R
      <4>1. p \in Path /\ None \in 1..edits \cup {None}
        BY <2>1, <3>1
      <4> HIDE DEF S
      <4> QED BY <4>1, RequestTypes
    <3> QED BY <3>1
  <2>4. \A m \in wire : m \in R
    BY DEF Types, WireTo
  <2> HIDE DEF sent, R
  <2>5. \A m \in wire' : m \in R
    BY <2>2, <2>3, <2>4 DEF sent
  <2> QED BY <2>2, <2>5 DEF WireTo, R
<1>5. Set(d, X) /\ UNCHANGED <<notes, base, edits, fails, history>>
  BY DEF SendDrops
<1> HIDE DEF X
<1> QED BY <1>3, <1>4, <1>5, StepTypes, OwnTypes

LEMMA SaveTypes ==
  ASSUME Types, NEW d \in Device, Save(d)
  PROVE  Types' /\ Moves(d)
<1> DEFINE S == sync[d]
           kept == Restrict(S.agreed, DOMAIN S.agreed \ (S.drops \ S.stale))
<1>1. SyncTo(S, base[d], edits) /\ VaultTo(Agreed(S), edits)
  BY OwnTypes, AgreedTypes
<1>2. VaultTo(kept, edits)
  <2>1. DOMAIN S.agreed \ (S.drops \ S.stale) \subseteq DOMAIN S.agreed /\ VaultTo(S.agreed, edits)
    BY <1>1 DEF SyncTo
  <2> QED BY <2>1, RestrictedVault
<1>3. \E b : base' = [base EXCEPT ![d] = b] /\ VaultTo(b, edits)
  BY <1>1, <1>2 DEF Save
<1>4. Set(d, Rest) /\ UNCHANGED <<notes, wire, edits, fails, history>>
  BY DEF Save
<1> QED BY <1>3, <1>4, RestTypes, StepTypes, OwnTypes, WireSame

LEMMA FailTypes ==
  ASSUME Types, NEW d \in Device, Fail(d)
  PROVE  Types' /\ Moves(d)
<1>1. Set(d, Rest) /\ UNCHANGED <<notes, base, edits, history>> /\ fails' \in 0..MaxFails
  <2>1. fails \in 0..MaxFails /\ fails < MaxFails /\ fails' = fails + 1 /\ MaxFails \in Nat
    BY BoundAssumption DEF Types, Fail
  <2> QED BY <2>1 DEF Fail
<1>2. WireTo(edits)'
  <2>1. PICK left \in SUBSET {m \in wire : m.from = d /\ m.live} :
          wire' = (wire \ {m \in wire : m.from = d /\ m.live})
                  \cup {[m EXCEPT !.live = FALSE] : m \in left}
    BY DEF Fail
  <2>2. \A m \in left : m \in [from : Device, path : Path, text : 1..edits \cup {None},
                               expect : 1..edits \cup {None}, live : BOOLEAN, checked : BOOLEAN]
    BY DEF Types, WireTo
  <2>3. \A m \in left : [m EXCEPT !.live = FALSE] \in
          [from : Device, path : Path, text : 1..edits \cup {None},
           expect : 1..edits \cup {None}, live : BOOLEAN, checked : BOOLEAN]
    BY <2>2
  <2> QED BY <1>1, <2>1, <2>3 DEF Types, WireTo
<1> QED BY <1>1, <1>2, RestTypes, StepTypes, OwnTypes

\* Every step keeps the types, and a device leaves the others alone.
LEMMA DeviceTypes ==
  ASSUME Types, NEW d \in Device, SyncStep(d) \/ Fail(d)
  PROVE  Types' /\ Moves(d)
<1>1. ASSUME Step(d) PROVE Types' /\ Moves(d)
  <2>1. PICK p \in sync[d].todo :
          \/ CheckHere(d, p) \/ Pull(d, p) \/ DeleteHere(d, p) \/ Push(d, p)
          \/ SetAside(d, p) \/ TakeTheirs(d, p) \/ ConflictGone(d, p)
    BY <1>1 DEF Step
  <2> QED BY <2>1, CheckHereTypes, TakeTypes, DeleteHereTypes, PushTypes, SetAsideTypes,
             ConflictGoneTypes
<1> QED BY <1>1, ListHereTypes, ListThereTypes, FetchTypes, SendPutsTypes, SendDropsTypes,
           SaveTypes, FailTypes DEF SyncStep

\* An edit is of a path.
LEMMA EditPath ==
  ASSUME Types, Edit
  PROVE  \E v \in Vault : \E p \in Path :
           /\ p.copies = << >> \/ p \in DOMAIN notes[v]
           /\ Write(v, p) \/ Delete(v, p)
<1>1. PICK v \in Writers : \E p \in {Original(n) : n \in Note} \cup DOMAIN notes[v] :
                             Write(v, p) \/ Delete(v, p)
  BY DEF Edit
<1>2. v \in Vault
  BY WritersAssumption DEF Vault
<1>3. DOMAIN notes[v] \subseteq Path
  BY <1>2 DEF Types, VaultTo
<1>4. \A n \in Note : Original(n) \in Path /\ Original(n).copies = << >>
  BY DEF Original, Path
<1> QED BY <1>1, <1>2, <1>3, <1>4

LEMMA NextTypes ==
  ASSUME Types, [Next]_vars
  PROVE  Types'
<1>1. CASE UNCHANGED vars
  BY <1>1 DEF vars, history, Types, WireTo
<1>2. CASE Edit
  BY <1>2, EditPath, WriteTypes, DeleteTypes
<1>3. CASE \E d \in Device : SyncStep(d) \/ Fail(d)
  BY <1>3, DeviceTypes
<1>4. CASE Serve
  BY <1>4, CheckThereTypes, ApplyTypes DEF Serve
<1> QED BY <1>1, <1>2, <1>3, <1>4 DEF Next

\* A sync that failed is remembered.
LEMMA NextFailed ==
  ASSUME [Next]_vars
  PROVE  failed' = failed \/ failed' = TRUE
<1>1. CASE UNCHANGED vars
  BY <1>1 DEF vars
<1>2. CASE Edit
  BY <1>2 DEF Edit, Write, Delete
<1>3. ASSUME NEW d \in Device, SyncStep(d) \/ Fail(d) PROVE failed' = failed \/ failed' = TRUE
  <2>1. CASE Fail(d)
    BY <2>1 DEF Fail
  <2>2. CASE Step(d)
    BY <2>2 DEF Step, CheckHere, Pull, DeleteHere, Push, SetAside, TakeTheirs, ConflictGone
  <2>3. CASE ListHere(d) \/ ListThere(d) \/ Fetch(d) \/ SendPuts(d) \/ SendDrops(d) \/ Save(d)
    BY <2>3 DEF ListHere, ListThere, Fetch, SendPuts, SendDrops, Save
  <2> QED BY <1>3, <2>1, <2>2, <2>3 DEF SyncStep
<1>4. CASE Serve
  BY <1>4 DEF Serve, CheckThere, Apply
<1> QED BY <1>1, <1>2, <1>3, <1>4 DEF Next

\* Devices, vaults, the hub and what was agreed on hold paths and texts, whoever edits
\* whatever, and between whichever steps.
THEOREM TypeCorrect == Spec => []TypeOK
<1>1. Spec => [](Types /\ failed \in BOOLEAN)
  <2>1. Init => Types /\ failed \in BOOLEAN
    BY InitTypes DEF Init
  <2>2. Types /\ failed \in BOOLEAN /\ [Next]_vars => (Types /\ failed \in BOOLEAN)'
    BY NextTypes, NextFailed
  <2> QED BY <2>1, <2>2, PTL DEF Spec
<1> QED BY <1>1, TypesImply, PTL

(***************************************************************************)(* What is Standing where                                                     *)
(***************************************************************************)
\* f agrees with the vaults n and h, but for texts that were given up.
Held(f, n, h, al) ==
  \A p \in DOMAIN f : f[p] \in al => At(n, p) = f[p] /\ At(h, p) = f[p]

Listing(S) == DOMAIN S.here \cup DOMAIN S.there

\* The names of copies that a sync has made so far.
Copied(d, S, b) ==
  {FreeAside(S, d, p) : p \in {q \in Listing(S) : ActIn(S, b, q) = "conflict"
                                                  /\ (q \notin S.todo \/ S.doing = q)}}

\* A listing differs from what was agreed on only where that was given up.
Plans(S, b, al) ==
  /\ S.pc # "rest" => \A p \in DOMAIN b : At(S.here, p) # b[p] => b[p] \notin al
  /\ S.pc \notin {"rest", "listed"} => \A p \in DOMAIN b : At(S.there, p) # b[p] => b[p] \notin al

\* A sync agrees on what both sides hold, and replaces what was given up.
Agrees(S, n, h, al) ==
  /\ S.pc \notin {"rest", "listed"} => Held(S.agreed, n, h, al)
  /\ S.pc = "listed" => \A p \in DOMAIN S.here : S.here[p] \in al => At(n, p) = S.here[p]
  /\ \A p \in DOMAIN S.fetched : S.fetched[p] \in al => At(h, p) = S.fetched[p]

Asks(S, n, al) ==
  /\ S.pc \notin {"steps", "puts"} => DOMAIN S.puts = {}
  /\ \A p \in DOMAIN S.puts :
       p \notin S.todo /\ At(S.there, p) \notin al /\ (S.puts[p] \in al => At(n, p) = S.puts[p])
  /\ \A p \in S.drops : At(S.there, p) \notin al

\* Before a text is written over it was put aside, or given up, or it came after
\* the check.
Works(d, S, b, n, al) ==
  \A p \in S.todo : S.doing = p =>
    /\ ActIn(S, b, p) \in {"pull", "deleteHere", "conflict"}
    /\ ActIn(S, b, p) # "conflict" => At(n, p) = At(S.here, p) \/ At(n, p) \notin al
    /\ ActIn(S, b, p) = "conflict" =>
         (At(n, p) \in al => At(n, FreeAside(S, d, p)) = At(n, p))

\* A copy has no other's name.
Names(d, S, b, n) ==
  /\ S.pc # "rest" => \A q \in DOMAIN n : q.copies = << >> \/ q \in Listing(S) \cup Copied(d, S, b)
  /\ S.pc = "listed" => DOMAIN S.there = {}

Fit(d, S, b, n, h, al) ==
  /\ Held(b, n, h, al) /\ Plans(S, b, al) /\ Agrees(S, n, h, al) /\ Asks(S, n, al)
  /\ Works(d, S, b, n, al) /\ Names(d, S, b, n)

\* No request replaces what somebody still wants, and an answer of the hub is true.
Harmless(m) ==
  /\ m.expect \notin Standing
  /\ m.checked => At(notes[Hub], m.path) \notin Standing

Posted ==
  /\ \A m \in wire : Harmless(m)
  /\ \A m \in wire : m.live =>
       LET S == sync[m.from] IN
       /\ S.pc \in {"puts", "drops"}
       /\ S.pc = "puts" => m.path \in DOMAIN S.puts /\ m.text = S.puts[m.path]
  /\ \A d \in Device : \A p \in DOMAIN sync[d].puts \ sync[d].stale :
       sync[d].pc = "puts" /\ sync[d].puts[p] \in Standing =>
         \/ At(notes[Hub], p) = sync[d].puts[p]
         \/ \E m \in wire : m.live /\ m.from = d /\ m.path = p

Good(d) == Fit(d, sync[d], base[d], notes[d], notes[Hub], Standing)

IInv == Types /\ (\A d \in Device : Good(d)) /\ Posted /\ NothingLost

(***************************************************************************)
(* Vaults that change at a path                                            *)
(***************************************************************************)
LEMMA WithoutAt ==
  ASSUME NEW f, NEW p
  PROVE  /\ DOMAIN Without(f, p) = DOMAIN f \ {p}
         /\ \A q \in DOMAIN f \ {p} : Without(f, p)[q] = f[q]
         /\ At(Without(f, p), p) = None
         /\ \A q : q # p => At(Without(f, p), q) = At(f, q)
BY DEF Without, Restrict, At

\* With no note too long, a listing is the vault.
LEMMA ListedAt ==
  ASSUME Big = {}, NEW f
  PROVE  DOMAIN Listed(f) = DOMAIN f /\ \A q : At(Listed(f), q) = At(f, q)
BY DEF Listed, RestrictValues, Restrict, At

LEMMA NotAlive == Types => None \notin Standing
<1>1. Standing \subseteq 1..edits /\ edits \in Int => Standing \subseteq Nat
  OBVIOUS
<1>2. Types => Standing \subseteq 1..edits /\ edits \in Int
  BY BoundAssumption DEF Types, Standing
<1> QED BY <1>1, <1>2, Nobody

(***************************************************************************)
(* A sync that goes on                                                     *)
(***************************************************************************)
LEMMA SameListing ==
  ASSUME NEW d, NEW S, NEW X, NEW b, X.here = S.here, X.there = S.there
  PROVE  /\ Listing(X) = Listing(S)
         /\ \A p : ActIn(X, b, p) = ActIn(S, b, p) /\ FreeAside(X, d, p) = FreeAside(S, d, p)
BY DEF Listing, ActIn, FreeAside

LEMMA CopiedGrows ==
  ASSUME NEW d, NEW S, NEW X, NEW b, X.here = S.here, X.there = S.there,
         X.todo \subseteq S.todo,
         \A q \in S.todo : S.doing = q => q \notin X.todo \/ X.doing = q
  PROVE  Copied(d, S, b) \subseteq Copied(d, X, b)
<1>1. \A q \in Listing(S) : /\ ActIn(S, b, q) = "conflict"
                            /\ q \notin S.todo \/ S.doing = q
        => /\ q \in Listing(X) /\ ActIn(X, b, q) = "conflict"
           /\ q \notin X.todo \/ X.doing = q
           /\ FreeAside(X, d, q) = FreeAside(S, d, q)
  BY SameListing
<1> QED BY <1>1 DEF Copied

\* What a step has to show, once the plan is made.
LEMMA StepFits ==
  ASSUME NEW d, NEW S, NEW X, NEW b, NEW n, NEW n2, NEW h, NEW al,
         Fit(d, S, b, n, h, al), S.pc = "steps", X.pc = "steps",
         X.here = S.here, X.there = S.there, X.fetched = S.fetched, X.drops = S.drops,
         X.todo \subseteq S.todo,
         \A q \in S.todo : S.doing = q => q \notin X.todo \/ X.doing = q,
         Held(b, n2, h, al), Held(X.agreed, n2, h, al),
         \A q \in DOMAIN X.puts :
           /\ q \notin X.todo /\ At(X.there, q) \notin al
           /\ X.puts[q] \in al => At(n2, q) = X.puts[q],
         Works(d, X, b, n2, al),
         \A q \in DOMAIN n2 : q \in DOMAIN n \cup Listing(S) \cup Copied(d, X, b)
  PROVE  Fit(d, X, b, n2, h, al)
<1>1. Listing(X) = Listing(S) /\ Copied(d, S, b) \subseteq Copied(d, X, b)
  BY SameListing, CopiedGrows
<1>2. Plans(X, b, al)
  BY DEF Fit, Plans
<1>3. Agrees(X, n2, h, al)
  BY DEF Fit, Agrees
<1>4. Asks(X, n2, al)
  BY DEF Fit, Asks
<1>5. Names(d, X, b, n2)
  BY <1>1 DEF Fit, Names
<1> QED BY <1>2, <1>3, <1>4, <1>5 DEF Fit

\* What the edits and the hub do about a sync: they replace no text that is
\* Standing after, and leave alone the note that it is about to write.
LEMMA World ==
  ASSUME NEW d, NEW S, NEW b, NEW n, NEW n2, NEW h, NEW h2, NEW al, NEW al2, NEW e,
         SyncTo(S, b, e), VaultTo(b, e), VaultTo(n, e), VaultTo(h, e),
         Fit(d, S, b, n, h, al),
         \A x \in 1..e : x \in al2 => x \in al,
         None \notin al2,
         \A q : At(n2, q) # At(n, q) => At(n, q) \notin al2,
         \A q : At(h2, q) # At(h, q) => At(h, q) \notin al2,
         \A q \in DOMAIN n2 : q \in DOMAIN n \/ q.copies = << >>,
         \A p \in S.todo : S.doing = p => At(n2, p) = At(n, p) \/ At(n2, p) \notin al2
  PROVE  Fit(d, S, b, n2, h2, al2)
<1>1. \A f, p : VaultTo(f, e) /\ p \in DOMAIN f /\ f[p] \in al2 => f[p] \in al
  BY DEF VaultTo
<1>2. \A f, p : VaultTo(f, e) /\ At(f, p) \in al2 => At(f, p) \in al
  BY DEF VaultTo, At
<1>3. \A f : VaultTo(f, e) /\ Held(f, n, h, al) => Held(f, n2, h2, al2)
  BY <1>1 DEF Held
<1>4. /\ VaultTo(S.here, e) /\ VaultTo(S.there, e) /\ VaultTo(S.fetched, e)
      /\ VaultTo(S.agreed, e) /\ VaultTo(S.puts, e)
  BY DEF SyncTo
<1>5. Plans(S, b, al2)
  BY <1>1 DEF Fit, Plans
<1>6. Agrees(S, n2, h2, al2)
  <2>1. S.pc \notin {"rest", "listed"} => Held(S.agreed, n2, h2, al2)
    BY <1>3, <1>4 DEF Fit, Agrees
  <2>2. S.pc = "listed" => \A p \in DOMAIN S.here : S.here[p] \in al2 => At(n2, p) = S.here[p]
    BY <1>1, <1>4 DEF Fit, Agrees
  <2>3. \A p \in DOMAIN S.fetched : S.fetched[p] \in al2 => At(h2, p) = S.fetched[p]
    BY <1>1, <1>4 DEF Fit, Agrees
  <2> QED BY <2>1, <2>2, <2>3 DEF Agrees
<1>7. Asks(S, n2, al2)
  <2>1. \A p : At(S.there, p) \notin al => At(S.there, p) \notin al2
    BY <1>2, <1>4
  <2>2. \A p \in DOMAIN S.puts : S.puts[p] \in al2 => S.puts[p] \in al
    BY <1>1, <1>4
  <2> QED BY <2>1, <2>2 DEF Fit, Asks
<1>8. Works(d, S, b, n2, al2)
  <2> SUFFICES ASSUME NEW p \in S.todo, S.doing = p
               PROVE  /\ ActIn(S, b, p) \in {"pull", "deleteHere", "conflict"}
                      /\ ActIn(S, b, p) # "conflict" =>
                           At(n2, p) = At(S.here, p) \/ At(n2, p) \notin al2
                      /\ ActIn(S, b, p) = "conflict" =>
                           (At(n2, p) \in al2 => At(n2, FreeAside(S, d, p)) = At(n2, p))
    BY DEF Works
  <2>1. At(n2, p) = At(n, p) \/ At(n2, p) \notin al2
    OBVIOUS
  <2>2. At(n2, p) \in al2 => At(n, p) \in al /\ At(n2, p) = At(n, p)
    BY <1>2, <2>1
  <2>3. /\ ActIn(S, b, p) \in {"pull", "deleteHere", "conflict"}
        /\ ActIn(S, b, p) # "conflict" => At(n, p) = At(S.here, p) \/ At(n, p) \notin al
        /\ ActIn(S, b, p) = "conflict" =>
             (At(n, p) \in al => At(n, FreeAside(S, d, p)) = At(n, p))
    BY DEF Fit, Works
  <2>4. ActIn(S, b, p) = "conflict" =>
          (At(n2, p) \in al2 => At(n2, FreeAside(S, d, p)) = At(n2, p))
    BY <2>2, <2>3
  <2> QED BY <2>2, <2>3, <2>4
<1>9. Names(d, S, b, n2)
  BY DEF Fit, Names
<1> QED BY <1>3, <1>5, <1>6, <1>7, <1>8, <1>9 DEF Fit

(***************************************************************************)
(* Every step of a sync fits                                               *)
(***************************************************************************)
\* The device's own part of the invariant.
LEMMA OwnFit ==
  ASSUME Types, NEW d \in Device, Good(d)
  PROVE  /\ Fit(d, sync[d], base[d], notes[d], notes[Hub], Standing)
         /\ None \notin Standing /\ DOMAIN sync[d] = Fields
         /\ None \notin sync[d].todo /\ DOMAIN sync[d].here \cup DOMAIN sync[d].there \subseteq Path
<1>1. SyncTo(sync[d], base[d], edits)
  BY OwnTypes
<1> QED BY <1>1, NotAlive, Nobody DEF Good, SyncTo, VaultTo

\* A step of d that ends in X, from what it leaves.
LEMMA GoodFrom ==
  ASSUME NEW d \in Device, Types, Moves(d), NEW X, sync'[d] = X,
         Fit(d, X, base'[d], notes'[d], notes[Hub], Standing)
  PROVE  Good(d)'
<1>1. notes'[Hub] = notes[Hub] /\ Standing' = Standing
  BY HubAssumption DEF Moves, Vault, history, Standing
<1>2. Fit(d, sync'[d], base'[d], notes'[d], notes'[Hub], Standing')
  BY <1>1
<1> QED BY <1>2 DEF Good

\* A sync that is over leaves what was agreed on.
LEMMA RestFits ==
  ASSUME NEW d, NEW b, NEW n, NEW h, NEW al, Held(b, n, h, al)
  PROVE  Fit(d, Rest, b, n, h, al)
BY DEF Fit, Rest, Empty, Plans, Agrees, Asks, Works, Names

LEMMA ListHereFits ==
  ASSUME Big = {}, Types, NEW d \in Device, Good(d), ListHere(d)
  PROVE  Good(d)'
<1> DEFINE n == notes[d]
           X == [Rest EXCEPT !.pc = "listed", !.here = Listed(n)]
<1>1. /\ X.pc = "listed" /\ X.here = Listed(n) /\ X.there = Empty /\ X.fetched = Empty
      /\ X.puts = Empty /\ X.drops = {} /\ X.todo = {}
  BY DEF Rest
<1>2. DOMAIN X.here = DOMAIN n /\ \A q : At(X.here, q) = At(n, q)
  BY <1>1, ListedAt
<1>3. Fit(d, sync[d], base[d], n, notes[Hub], Standing)
  BY OwnFit
<1>4. Set(d, X) /\ UNCHANGED <<notes, base, edits, history>>
  BY DEF ListHere
<1> HIDE DEF X
<1>5. Plans(X, base[d], Standing)
  BY <1>1, <1>2, <1>3 DEF Fit, Held, Plans
<1>6. Agrees(X, n, notes[Hub], Standing)
  BY <1>1, <1>2 DEF Agrees, Empty, At
<1>7. Asks(X, n, Standing) /\ Works(d, X, base[d], n, Standing)
  BY <1>1 DEF Asks, Works, Empty
<1>8. Names(d, X, base[d], n)
  BY <1>1, <1>2 DEF Names, Listing, Empty
<1>9. Fit(d, X, base[d], n, notes[Hub], Standing)
  BY <1>3, <1>5, <1>6, <1>7, <1>8 DEF Fit
<1> HIDE DEF n
<1>10. Moves(d) /\ sync'[d] = X
  BY <1>4, StepMoves
<1> QED BY <1>4, <1>9, <1>10, GoodFrom DEF n

LEMMA ListThereFits ==
  ASSUME Big = {}, Types, NEW d \in Device, Good(d), ListThere(d)
  PROVE  Good(d)'
<1> DEFINE n == notes[d]
           h == notes[Hub]
           b == base[d]
           S == [sync[d] EXCEPT !.there = Listed(h)]
           known == DOMAIN b \cap (DOMAIN S.here \cup DOMAIN S.there)
           same == Asked(S, b, {"keep"})
           agreed == [p \in known \cup same |-> IF p \in same THEN S.here[p] ELSE b[p]]
           X == [S EXCEPT
             !.pc = IF Asked(S, b, {"pull", "conflict"}) = {} THEN "steps" ELSE "planned",
             !.agreed = agreed,
             !.drops = Asked(S, b, {"deleteThere"}),
             !.todo = Asked(S, b, {"pull", "push", "deleteHere", "conflict"})]
<1>1. /\ Fit(d, sync[d], b, n, h, Standing) /\ None \notin Standing
      /\ SyncTo(sync[d], b, edits) /\ DOMAIN sync[d] = Fields /\ sync[d].pc = "listed"
  BY OwnFit, OwnTypes DEF ListThere
<1>2. /\ S.here = sync[d].here /\ S.there = Listed(h) /\ S.fetched = sync[d].fetched
      /\ S.puts = sync[d].puts /\ S.doing = sync[d].doing /\ DOMAIN S = Fields
  BY <1>1 DEF Fields
<1>3. /\ Set(d, X) /\ UNCHANGED <<notes, base, edits, history>>
  BY DEF ListThere
<1>4. /\ X.here = S.here /\ X.there = S.there /\ X.fetched = S.fetched /\ X.puts = S.puts
      /\ X.agreed = agreed /\ X.drops = Asked(S, b, {"deleteThere"}) /\ X.doing = S.doing
      /\ X.todo = Asked(S, b, {"pull", "push", "deleteHere", "conflict"})
      /\ X.pc \in {"planned", "steps"}
  BY <1>2 DEF Fields
<1>5. \A q : At(X.there, q) = At(h, q)
  BY <1>2, <1>4, ListedAt
<1>6. \A q : ActIn(S, b, q) = Act(At(S.here, q), At(S.there, q), At(b, q))
  BY DEF ActIn
<1> HIDE DEF S, X
<1>7. Plans(X, b, Standing)
  <2>1. \A p \in DOMAIN b : At(X.here, p) # b[p] => b[p] \notin Standing
    BY <1>1, <1>2, <1>4 DEF Fit, Plans
  <2>2. \A p \in DOMAIN b : At(X.there, p) # b[p] => b[p] \notin Standing
    BY <1>1, <1>5 DEF Fit, Held
  <2> QED BY <2>1, <2>2 DEF Plans
<1>8. Held(agreed, n, h, Standing)
  <2> SUFFICES ASSUME NEW p \in known \cup same, agreed[p] \in Standing
               PROVE  At(n, p) = agreed[p] /\ At(h, p) = agreed[p]
    BY DEF Held
  <2>1. CASE p \in same
    <3>1. agreed[p] = S.here[p]
      BY <2>1
    <3>2. Act(At(S.here, p), At(S.there, p), At(b, p)) = "keep"
      BY <2>1 DEF Asked
    <3>3. At(S.here, p) # None /\ (At(S.there, p) = At(S.here, p) \/ At(S.there, p) = None)
      BY <3>2, ActMeans
    <3>4. p \in DOMAIN S.here /\ At(S.here, p) = S.here[p]
      BY <3>3 DEF At
    <3>5. At(S.here, p) = At(S.there, p)
      BY <3>2, ActMeans
    <3>6. At(n, p) = S.here[p]
      BY <1>1, <1>2, <2>1, <3>1, <3>4 DEF Fit, Agrees
    <3> QED BY <1>4, <1>5, <3>1, <3>4, <3>5, <3>6
  <2>2. CASE p \notin same
    <3>1. agreed[p] = b[p] /\ p \in DOMAIN b
      BY <2>2
    <3> QED BY <1>1, <3>1 DEF Fit, Held
  <2> QED BY <2>1, <2>2
<1> HIDE DEF agreed, known, same
<1>9. Agrees(X, n, h, Standing)
  BY <1>1, <1>2, <1>4, <1>8 DEF Fit, Agrees
<1>10. Asks(X, n, Standing)
  <2>1. DOMAIN X.puts = {}
    BY <1>1, <1>2, <1>4 DEF Fit, Asks
  <2>2. \A p \in X.drops : At(X.there, p) \notin Standing
    <3> SUFFICES ASSUME NEW p \in X.drops PROVE At(S.there, p) \notin Standing
      BY <1>4
    <3>1. At(S.here, p) = None /\ At(S.there, p) # None /\ At(b, p) = At(S.there, p)
      BY <1>4, ActMeans DEF Asked
    <3>2. p \in DOMAIN b /\ b[p] = At(S.there, p) /\ At(X.here, p) # b[p]
      BY <1>4, <3>1 DEF At
    <3> QED BY <1>4, <1>7, <3>2 DEF Plans
  <2> QED BY <2>1, <2>2 DEF Asks
<1>11. Works(d, X, b, n, Standing)
  <2>1. X.doing = None /\ X.todo \subseteq DOMAIN S.here \cup DOMAIN S.there
    BY <1>1, <1>2, <1>4 DEF Asked, SyncTo
  <2>2. None \notin DOMAIN S.here
    BY <1>1, <1>2, Nobody DEF SyncTo, VaultTo
  <2>3. None \notin DOMAIN S.there
    <3>1. VaultTo(h, edits)
      BY OwnTypes
    <3> HIDE DEF h
    <3>2. DOMAIN S.there \subseteq Path
      BY <1>2, <3>1, ListedAt DEF VaultTo
    <3> QED BY <3>2, Nobody
  <2> QED BY <2>1, <2>2, <2>3 DEF Works
<1>12. Names(d, X, b, n)
  <2>1. DOMAIN sync[d].there = {}
    BY <1>1 DEF Fit, Names
  <2>2. Copied(d, sync[d], b) = {}
    <3>1. \A q : At(sync[d].there, q) = None
      BY <2>1 DEF At
    <3>2. \A q : ActIn(sync[d], b, q) # "conflict"
      BY <3>1, ActMeans DEF ActIn
    <3> QED BY <3>2 DEF Copied
  <2>3. Listing(sync[d]) \subseteq Listing(X)
    BY <1>2, <1>4, <2>1 DEF Listing
  <2> QED BY <1>1, <1>4, <2>2, <2>3 DEF Fit, Names
<1>13. Fit(d, X, b, n, h, Standing)
  BY <1>1, <1>7, <1>9, <1>10, <1>11, <1>12 DEF Fit
<1>14. Moves(d) /\ sync'[d] = X
  <2>1. Set(d, X) /\ UNCHANGED <<notes, base, edits, history>>
    BY <1>3 DEF X, S, agreed, known, same
  <2> QED BY <2>1, StepMoves
<1> QED BY <1>3, <1>13, <1>14, GoodFrom

LEMMA FetchFits ==
  ASSUME Types, NEW d \in Device, Good(d), Fetch(d)
  PROVE  Good(d)'
<1> DEFINE S == sync[d]
           h == notes[Hub]
           b == base[d]
           fetched == Restrict(h, DOMAIN h \cap Asked(S, b, {"pull", "conflict"}))
           X == [S EXCEPT !.pc = "steps", !.fetched = fetched]
<1>1. /\ Fit(d, S, b, notes[d], h, Standing) /\ None \notin S.todo
      /\ SyncTo(S, b, edits) /\ DOMAIN S = Fields /\ S.pc = "planned"
  BY OwnFit, OwnTypes DEF Fetch
<1>2. /\ X.pc = "steps" /\ X.here = S.here /\ X.there = S.there /\ X.agreed = S.agreed
      /\ X.todo = S.todo /\ X.doing = S.doing /\ X.puts = S.puts /\ X.drops = S.drops
      /\ X.fetched = fetched
  BY <1>1 DEF Fields
<1>3. \A p \in DOMAIN fetched : At(h, p) = fetched[p]
  BY DEF Restrict, At
<1>4. Set(d, X) /\ UNCHANGED <<notes, base, edits, history>>
  BY DEF Fetch
<1>5. S.doing = None
  BY <1>1 DEF SyncTo
<1> HIDE DEF X, fetched
<1>6. Plans(X, b, Standing) /\ Agrees(X, notes[d], h, Standing) /\ Asks(X, notes[d], Standing)
  BY <1>1, <1>2, <1>3 DEF Fit, Plans, Agrees, Asks
<1>7. Works(d, X, b, notes[d], Standing)
  BY <1>1, <1>2, <1>5 DEF Works
<1>8. Names(d, X, b, notes[d])
  <2>1. Listing(X) = Listing(S) /\ Copied(d, S, b) \subseteq Copied(d, X, b)
    BY <1>2, SameListing, CopiedGrows
  <2> QED BY <1>1, <1>2, <2>1 DEF Fit, Names
<1>9. Fit(d, X, b, notes[d], h, Standing)
  BY <1>1, <1>6, <1>7, <1>8 DEF Fit
<1>10. Moves(d) /\ sync'[d] = X
  BY <1>4, StepMoves
<1> QED BY <1>4, <1>9, <1>10, GoodFrom

(***************************************************************************)
(* The steps of a plan                                                     *)
(***************************************************************************)
\* What a step finds.
LEMMA OwnStep ==
  ASSUME Types, NEW d \in Device, Good(d), NEW p \in sync[d].todo
  PROVE  /\ Fit(d, sync[d], base[d], notes[d], notes[Hub], Standing)
         /\ None \notin Standing /\ DOMAIN sync[d] = Fields /\ None \notin sync[d].todo
         /\ p \in Path /\ p \in Listing(sync[d]) /\ ActOf(d, p) = ActIn(sync[d], base[d], p)
         /\ sync[d].doing = p => sync[d].pc = "steps"
         /\ sync[d].doing \in sync[d].todo \cup {None}
         /\ sync[d].todo \subseteq Listing(sync[d])
BY OwnFit, OwnTypes, DoingTypes DEF SyncTo, ActOf, ActIn, Listing

LEMMA DoneIs ==
  ASSUME NEW S, NEW p, DOMAIN S = Fields
  PROVE  /\ Done(S, p).pc = S.pc /\ Done(S, p).here = S.here /\ Done(S, p).there = S.there
         /\ Done(S, p).fetched = S.fetched /\ Done(S, p).agreed = S.agreed
         /\ Done(S, p).puts = S.puts /\ Done(S, p).drops = S.drops
         /\ Done(S, p).todo = S.todo \ {p} /\ Done(S, p).doing = None
         /\ DOMAIN Done(S, p) = Fields
BY DEF Done, Fields

LEMMA AgreedIs ==
  ASSUME NEW S, NEW p, NEW f, DOMAIN S = Fields
  PROVE  LET X == [Done(S, p) EXCEPT !.agreed = f] IN
         /\ X.pc = S.pc /\ X.here = S.here /\ X.there = S.there /\ X.fetched = S.fetched
         /\ X.agreed = f /\ X.puts = S.puts /\ X.drops = S.drops
         /\ X.todo = S.todo \ {p} /\ X.doing = None
<1> DEFINE R == Done(S, p)
<1>1. DOMAIN R = Fields
  BY DoneIs
<1> HIDE DEF R
<1>2. LET X == [R EXCEPT !.agreed = f] IN
      /\ X.pc = R.pc /\ X.here = R.here /\ X.there = R.there /\ X.fetched = R.fetched
      /\ X.agreed = f /\ X.puts = R.puts /\ X.drops = R.drops
      /\ X.todo = R.todo /\ X.doing = R.doing
  BY <1>1 DEF Fields
<1> QED BY <1>2, DoneIs DEF R

\* To pass over a note is as good as to do what there is to do.
LEMMA DoneFits ==
  ASSUME NEW d, NEW S, NEW b, NEW n, NEW h, NEW al, NEW p,
         Fit(d, S, b, n, h, al), DOMAIN S = Fields, None \notin S.todo,
         S.pc = "steps", S.doing \in {p, None}
  PROVE  Fit(d, Done(S, p), b, n, h, al)
<1> DEFINE X == Done(S, p)
<1>1. /\ X.pc = S.pc /\ X.here = S.here /\ X.there = S.there /\ X.fetched = S.fetched
      /\ X.agreed = S.agreed /\ X.puts = S.puts /\ X.drops = S.drops
      /\ X.todo = S.todo \ {p} /\ X.doing = None
  BY DoneIs
<1> HIDE DEF X
<1>2. Held(b, n, h, al) /\ Held(X.agreed, n, h, al)
  BY <1>1 DEF Fit, Agrees
<1>3. \A q \in DOMAIN X.puts :
        /\ q \notin X.todo /\ At(X.there, q) \notin al
        /\ X.puts[q] \in al => At(n, q) = X.puts[q]
  BY <1>1 DEF Fit, Asks
<1>4. Works(d, X, b, n, al)
  BY <1>1 DEF Works
<1>5. Fit(d, X, b, n, h, al)
  BY <1>1, <1>2, <1>3, <1>4, StepFits
<1> QED BY <1>5 DEF X

LEMMA CheckHereFits ==
  ASSUME Types, NEW d \in Device, Good(d), NEW p \in sync[d].todo, CheckHere(d, p)
  PROVE  Good(d)'
<1> DEFINE S == sync[d]
           b == base[d]
           n == notes[d]
           h == notes[Hub]
           Y == [S EXCEPT !.doing = p]
           X == IF ~ Untouched(d, p) \/ (ActOf(d, p) = "pull" /\ p \notin DOMAIN S.fetched)
                  THEN Done(S, p) ELSE Y
<1>1. /\ Fit(d, S, b, n, h, Standing) /\ DOMAIN S = Fields /\ None \notin S.todo
      /\ S.pc = "steps" /\ S.doing = None /\ ActIn(S, b, p) \in {"pull", "deleteHere"}
  BY OwnStep DEF CheckHere, Stepping
<1>2. Fit(d, Done(S, p), b, n, h, Standing)
  BY <1>1, DoneFits
<1>3. ASSUME At(n, p) = At(S.here, p) PROVE Fit(d, Y, b, n, h, Standing)
  <2>1. /\ Y.pc = S.pc /\ Y.here = S.here /\ Y.there = S.there /\ Y.fetched = S.fetched
        /\ Y.agreed = S.agreed /\ Y.puts = S.puts /\ Y.drops = S.drops
        /\ Y.todo = S.todo /\ Y.doing = p
    BY <1>1 DEF Fields
  <2> HIDE DEF Y
  <2>2. Held(b, n, h, Standing) /\ Held(Y.agreed, n, h, Standing)
    BY <1>1, <2>1 DEF Fit, Agrees
  <2>3. \A q \in DOMAIN Y.puts :
          /\ q \notin Y.todo /\ At(Y.there, q) \notin Standing
          /\ Y.puts[q] \in Standing => At(n, q) = Y.puts[q]
    BY <1>1, <2>1 DEF Fit, Asks
  <2>4. Works(d, Y, b, n, Standing)
    <3>1. ActIn(Y, b, p) = ActIn(S, b, p)
      BY <2>1 DEF ActIn
    <3> QED BY <1>1, <1>3, <2>1, <3>1 DEF Works
  <2> QED BY <1>1, <2>1, <2>2, <2>3, <2>4, StepFits
<1>4. Fit(d, X, b, n, h, Standing)
  BY <1>2, <1>3 DEF Untouched
<1>5. Set(d, X) /\ UNCHANGED <<notes, base, edits, history>>
  BY DEF CheckHere
<1> HIDE DEF X
<1>6. Moves(d) /\ sync'[d] = X
  BY <1>5, StepMoves
<1> QED BY <1>4, <1>5, <1>6, GoodFrom

\* A text that a pull or a deletion takes away was given up.
LEMMA GivenUp ==
  ASSUME NEW d, NEW S, NEW b, NEW n, NEW h, NEW al, NEW p \in S.todo,
         Fit(d, S, b, n, h, al), None \notin al, S.pc = "steps", S.doing = p,
         ActIn(S, b, p) \in {"pull", "deleteHere"}
  PROVE  At(n, p) \notin al
<1>1. At(n, p) = At(S.here, p) \/ At(n, p) \notin al
  BY DEF Fit, Works
<1>2. At(S.here, p) = None \/ (At(b, p) = At(S.here, p) /\ At(b, p) # None /\ At(S.there, p) # At(b, p))
  BY ActMeans DEF ActIn
<1>3. At(b, p) # None => p \in DOMAIN b /\ b[p] = At(b, p)
  BY DEF At
<1> QED BY <1>1, <1>2, <1>3 DEF Fit, Plans

\* The text there is written over a note here that is put aside or given up.
LEMMA TakeFits ==
  ASSUME Types, NEW d \in Device, Good(d), NEW p \in sync[d].todo, Pull(d, p) \/ TakeTheirs(d, p)
  PROVE  Good(d)'
<1> DEFINE S == sync[d]
           b == base[d]
           n == notes[d]
           h == notes[Hub]
           x == S.fetched[p]
           n2 == With(n, p, x)
           X == [Done(S, p) EXCEPT !.agreed = With(@, p, x)]
<1>1. /\ Fit(d, S, b, n, h, Standing) /\ DOMAIN S = Fields /\ None \notin S.todo
      /\ S.pc = "steps" /\ S.doing = p /\ ActIn(S, b, p) \in {"pull", "conflict"}
      /\ p \in Listing(S) /\ None \notin Standing
  BY OwnStep DEF Pull, TakeTheirs
<1>2. p \in DOMAIN S.fetched
  BY <1>1, OwnStep, DoingTypes
<1>3. /\ X.pc = S.pc /\ X.here = S.here /\ X.there = S.there /\ X.fetched = S.fetched
      /\ X.agreed = With(S.agreed, p, x) /\ X.puts = S.puts /\ X.drops = S.drops
      /\ X.todo = S.todo \ {p} /\ X.doing = None
  <2>1. X = [Done(S, p) EXCEPT !.agreed = With(S.agreed, p, x)]
    BY <1>1, DoneIs
  <2> HIDE DEF X, S, x
  <2> QED BY <1>1, <2>1, AgreedIs
<1>4. Set(d, X) /\ notes' = [notes EXCEPT ![d] = n2] /\ UNCHANGED <<base, edits, history>>
  BY DEF Pull, TakeTheirs
<1>5. At(n2, p) = x /\ (\A q : q # p => At(n2, q) = At(n, q)) /\ DOMAIN n2 = DOMAIN n \cup {p}
  <2> HIDE DEF n, x
  <2> QED BY DEF With, At
<1> HIDE DEF X, n2
<1>6. Held(b, n2, h, Standing)
  <2> SUFFICES ASSUME p \in DOMAIN b, b[p] \in Standing PROVE FALSE
    BY <1>1, <1>5 DEF Fit, Held
  <2>1. CASE ActIn(S, b, p) = "pull"
    <3>1. At(n, p) \notin Standing
      BY <1>1, <2>1, GivenUp
    <3> QED BY <1>1, <3>1 DEF Fit, Held
  <2>2. CASE ActIn(S, b, p) = "conflict"
    <3>1. b[p] # At(S.here, p)
      BY <2>2, ActMeans DEF ActIn, At
    <3> QED BY <1>1, <3>1 DEF Fit, Plans
  <2> QED BY <1>1, <2>1, <2>2
<1>7. Held(X.agreed, n2, h, Standing)
  <2>1. Held(S.agreed, n, h, Standing) /\ (x \in Standing => At(h, p) = x)
    BY <1>1, <1>2 DEF Fit, Agrees
  <2>2. /\ DOMAIN X.agreed = DOMAIN S.agreed \cup {p} /\ X.agreed[p] = x
        /\ \A q \in DOMAIN S.agreed \ {p} : X.agreed[q] = S.agreed[q]
    <3> HIDE DEF S, x
    <3> QED BY <1>3 DEF With
  <2> QED BY <1>5, <2>1, <2>2 DEF Held
<1>8. \A q \in DOMAIN X.puts :
        /\ q \notin X.todo /\ At(X.there, q) \notin Standing
        /\ X.puts[q] \in Standing => At(n2, q) = X.puts[q]
  BY <1>1, <1>3, <1>5 DEF Fit, Asks
<1>9. Works(d, X, b, n2, Standing)
  BY <1>1, <1>3 DEF Works
<1>10. Fit(d, X, b, n2, h, Standing)
  BY <1>1, <1>3, <1>5, <1>6, <1>7, <1>8, <1>9, StepFits
<1>11. Moves(d) /\ sync'[d] = X
  BY <1>4, StepMoves
<1>12. base'[d] = b /\ notes'[d] = n2
  BY <1>4 DEF Types, Vault
<1> QED BY <1>10, <1>11, <1>12, GoodFrom

LEMMA DeleteHereFits ==
  ASSUME Types, NEW d \in Device, Good(d), NEW p \in sync[d].todo, DeleteHere(d, p)
  PROVE  Good(d)'
<1> DEFINE S == sync[d]
           b == base[d]
           n == notes[d]
           h == notes[Hub]
           n2 == Without(n, p)
           X == [Done(S, p) EXCEPT !.agreed = Without(@, p)]
<1>1. /\ Fit(d, S, b, n, h, Standing) /\ DOMAIN S = Fields /\ None \notin S.todo
      /\ S.pc = "steps" /\ S.doing = p /\ ActIn(S, b, p) = "deleteHere" /\ None \notin Standing
  BY OwnStep DEF DeleteHere
<1>2. /\ X.pc = S.pc /\ X.here = S.here /\ X.there = S.there /\ X.fetched = S.fetched
      /\ X.agreed = Without(S.agreed, p) /\ X.puts = S.puts /\ X.drops = S.drops
      /\ X.todo = S.todo \ {p} /\ X.doing = None
  <2>1. X = [Done(S, p) EXCEPT !.agreed = Without(S.agreed, p)]
    BY <1>1, DoneIs
  <2> HIDE DEF X, S
  <2> QED BY <1>1, <2>1, AgreedIs
<1>3. Set(d, X) /\ notes' = [notes EXCEPT ![d] = n2] /\ UNCHANGED <<base, edits, history>>
  BY DEF DeleteHere
<1>4. (\A q : q # p => At(n2, q) = At(n, q)) /\ DOMAIN n2 = DOMAIN n \ {p}
  BY WithoutAt
<1> HIDE DEF X, n2
<1>5. At(n, p) \notin Standing
  BY <1>1, GivenUp
<1>6. Held(b, n2, h, Standing)
  BY <1>1, <1>4, <1>5 DEF Fit, Held
<1>7. Held(X.agreed, n2, h, Standing)
  <2>1. /\ DOMAIN X.agreed = DOMAIN S.agreed \ {p}
        /\ \A q \in DOMAIN S.agreed \ {p} : X.agreed[q] = S.agreed[q]
    <3> HIDE DEF S
    <3> QED BY <1>2 DEF Without, Restrict
  <2> QED BY <1>1, <1>4, <2>1 DEF Fit, Agrees, Held
<1>8. \A q \in DOMAIN X.puts :
        /\ q \notin X.todo /\ At(X.there, q) \notin Standing
        /\ X.puts[q] \in Standing => At(n2, q) = X.puts[q]
  BY <1>1, <1>2, <1>4 DEF Fit, Asks
<1>9. Works(d, X, b, n2, Standing)
  BY <1>1, <1>2 DEF Works
<1>10. Fit(d, X, b, n2, h, Standing)
  BY <1>1, <1>2, <1>4, <1>6, <1>7, <1>8, <1>9, StepFits
<1>11. Moves(d) /\ sync'[d] = X
  BY <1>3, StepMoves
<1>12. base'[d] = b /\ notes'[d] = n2
  BY <1>3 DEF Types, Vault
<1> QED BY <1>10, <1>11, <1>12, GoodFrom

LEMMA PushFits ==
  ASSUME Types, NEW d \in Device, Good(d), NEW p \in sync[d].todo, Push(d, p)
  PROVE  Good(d)'
<1> DEFINE S == sync[d]
           b == base[d]
           n == notes[d]
           h == notes[Hub]
           Y == [Done(S, p) EXCEPT !.puts = With(@, p, n[p])]
           X == IF p \notin DOMAIN n THEN Done(S, p) ELSE Y
<1>1. /\ Fit(d, S, b, n, h, Standing) /\ DOMAIN S = Fields /\ None \notin S.todo
      /\ S.pc = "steps" /\ S.doing = None /\ ActIn(S, b, p) = "push" /\ None \notin Standing
  BY OwnStep DEF Push, Stepping
<1>2. Fit(d, Done(S, p), b, n, h, Standing)
  BY <1>1, DoneFits
<1>3. ASSUME p \in DOMAIN n PROVE Fit(d, Y, b, n, h, Standing)
  <2>1. /\ Y.pc = S.pc /\ Y.here = S.here /\ Y.there = S.there /\ Y.fetched = S.fetched
        /\ Y.agreed = S.agreed /\ Y.puts = With(S.puts, p, n[p]) /\ Y.drops = S.drops
        /\ Y.todo = S.todo \ {p} /\ Y.doing = None
    <3> DEFINE R == Done(S, p)
    <3>1. DOMAIN R = Fields
      BY <1>1, DoneIs
    <3>3. Y = [R EXCEPT !.puts = With(R.puts, p, n[p])]
      OBVIOUS
    <3> HIDE DEF R, n, Y
    <3>2. /\ Y.pc = R.pc /\ Y.here = R.here /\ Y.there = R.there /\ Y.fetched = R.fetched
          /\ Y.agreed = R.agreed /\ Y.puts = With(R.puts, p, n[p]) /\ Y.drops = R.drops
          /\ Y.todo = R.todo /\ Y.doing = R.doing
      BY <3>1, <3>3 DEF Fields
    <3> QED BY <1>1, <3>2, DoneIs DEF R
  <2> HIDE DEF Y
  <2>2. At(S.there, p) \notin Standing
    <3>1. At(S.there, p) = None \/ (At(b, p) = At(S.there, p) /\ At(S.here, p) # At(b, p))
      BY <1>1, ActMeans DEF ActIn
    <3>2. At(b, p) # None => p \in DOMAIN b /\ b[p] = At(b, p)
      BY DEF At
    <3> QED BY <1>1, <3>1, <3>2 DEF Fit, Plans
  <2>3. Held(b, n, h, Standing) /\ Held(Y.agreed, n, h, Standing)
    BY <1>1, <2>1 DEF Fit, Agrees
  <2>4. \A q \in DOMAIN Y.puts :
          /\ q \notin Y.todo /\ At(Y.there, q) \notin Standing
          /\ Y.puts[q] \in Standing => At(n, q) = Y.puts[q]
    <3>1. /\ DOMAIN Y.puts = DOMAIN S.puts \cup {p} /\ Y.puts[p] = n[p]
          /\ \A q \in DOMAIN S.puts \ {p} : Y.puts[q] = S.puts[q]
      <4> HIDE DEF S, n
      <4> QED BY <2>1 DEF With
    <3>2. At(n, p) = n[p]
      BY <1>3 DEF At
    <3> QED BY <1>1, <2>1, <2>2, <3>1, <3>2 DEF Fit, Asks
  <2>5. Works(d, Y, b, n, Standing)
    BY <1>1, <2>1 DEF Works
  <2> QED BY <1>1, <2>1, <2>3, <2>4, <2>5, StepFits
<1>4. Fit(d, X, b, n, h, Standing)
  BY <1>2, <1>3
<1>5. Set(d, X) /\ UNCHANGED <<notes, base, edits, history>>
  BY DEF Push
<1> HIDE DEF X
<1>6. Moves(d) /\ sync'[d] = X
  BY <1>5, StepMoves
<1> QED BY <1>4, <1>5, <1>6, GoodFrom

\* A copy is put where there is no note.
LEMMA AsideIsNew ==
  ASSUME Types, NEW d \in Device, Good(d), NEW p \in sync[d].todo, SetAside(d, p)
  PROVE  /\ FreeAside(sync[d], d, p) \notin DOMAIN notes[d]
         /\ FreeAside(sync[d], d, p) \notin Listing(sync[d])
<1> DEFINE S == sync[d]
           b == base[d]
<1>1. /\ Fit(d, S, b, notes[d], notes[Hub], Standing) /\ None \notin S.todo
      /\ S.pc = "steps" /\ S.doing = None /\ Listing(S) \subseteq Path
      /\ p \in Path /\ p \in S.todo
  BY OwnStep, OwnFit DEF SetAside, Stepping, Listing
<1>2. IsFiniteSet(DOMAIN S.here) /\ IsFiniteSet(DOMAIN S.there)
  BY OwnTypes DEF SyncTo, VaultTo
<1> HIDE DEF S, b
<1>3. \A q \in Listing(S) : \E i \in Nat \ {0} : FreeAside(S, d, q) = Aside(q, d, i)
  BY <1>1, <1>2, AsideIsFree
<1>4. FreeAside(S, d, p) \notin Listing(S) /\ \E i \in Nat \ {0} : FreeAside(S, d, p) = Aside(p, d, i)
  BY <1>1, <1>2, AsideIsFree DEF Listing
<1>5. FreeAside(S, d, p).copies # << >>
  BY <1>1, <1>4, AsideInjective
<1>6. FreeAside(S, d, p) \notin Copied(d, S, b)
  <2> SUFFICES ASSUME NEW q \in Listing(S), q \notin S.todo \/ S.doing = q,
                      FreeAside(S, d, p) = FreeAside(S, d, q)
               PROVE  FALSE
    BY DEF Copied
  <2>1. q \in Path /\ q \notin S.todo
    BY <1>1, Nobody
  <2>2. PICK i \in Nat \ {0} : FreeAside(S, d, q) = Aside(q, d, i)
    BY <1>3
  <2>3. PICK j \in Nat \ {0} : FreeAside(S, d, p) = Aside(p, d, j)
    BY <1>4
  <2>4. Aside(p, d, j) = Aside(q, d, i)
    BY <2>2, <2>3
  <2>5. p = q
    BY <1>1, <2>1, <2>4, AsideInjective
  <2> QED BY <1>1, <2>1, <2>5
<1>7. FreeAside(S, d, p) \notin DOMAIN notes[d]
  BY <1>1, <1>4, <1>5, <1>6 DEF Fit, Names
<1> QED BY <1>4, <1>7 DEF S

LEMMA SetAsideFits ==
  ASSUME Types, NEW d \in Device, Good(d), NEW p \in sync[d].todo, SetAside(d, p)
  PROVE  Good(d)'
<1> DEFINE S == sync[d]
           b == base[d]
           n == notes[d]
           h == notes[Hub]
           x == n[p]
           aside == FreeAside(S, d, p)
           n2 == With(n, aside, x)
           X == [S EXCEPT !.doing = p, !.puts = With(@, aside, x)]
<1>1. /\ Fit(d, S, b, n, h, Standing) /\ DOMAIN S = Fields /\ None \notin S.todo
      /\ S.pc = "steps" /\ S.doing = None /\ ActIn(S, b, p) = "conflict" /\ None \notin Standing
      /\ p \in DOMAIN n /\ p \in Listing(S) /\ S.todo \subseteq Listing(S)
  BY OwnStep DEF SetAside, Stepping
<1>2. aside \notin DOMAIN n /\ aside \notin Listing(S)
  BY AsideIsNew
<1>3. /\ X.pc = S.pc /\ X.here = S.here /\ X.there = S.there /\ X.fetched = S.fetched
      /\ X.agreed = S.agreed /\ X.puts = With(S.puts, aside, x) /\ X.drops = S.drops
      /\ X.todo = S.todo /\ X.doing = p
  <2> HIDE DEF aside, n
  <2> QED BY <1>1 DEF Fields
<1>4. Set(d, X) /\ notes' = [notes EXCEPT ![d] = n2] /\ UNCHANGED <<base, edits, history>>
  BY DEF SetAside
<1>5. At(n2, aside) = x /\ (\A q : q # aside => At(n2, q) = At(n, q)) /\ DOMAIN n2 = DOMAIN n \cup {aside}
  <2> HIDE DEF n, x, aside
  <2> QED BY DEF With, At
<1>6. At(n, aside) = None /\ At(S.there, aside) = None /\ At(n, p) = x /\ p # aside
  BY <1>1, <1>2 DEF At, Listing
<1>7. FreeAside(X, d, p) = aside /\ ActIn(X, b, p) = "conflict" /\ p \in Listing(X)
  <2> HIDE DEF X, S
  <2> QED BY <1>1, <1>3, SameListing
<1> HIDE DEF X, n2, x
<1>8. Held(b, n2, h, Standing) /\ Held(X.agreed, n2, h, Standing)
  BY <1>1, <1>3, <1>5, <1>6 DEF Fit, Agrees, Held
<1>9. \A q \in DOMAIN X.puts :
        /\ q \notin X.todo /\ At(X.there, q) \notin Standing
        /\ X.puts[q] \in Standing => At(n2, q) = X.puts[q]
  <2>1. /\ DOMAIN X.puts = DOMAIN S.puts \cup {aside} /\ X.puts[aside] = x
        /\ \A q \in DOMAIN S.puts \ {aside} : X.puts[q] = S.puts[q]
    <3> HIDE DEF S, aside
    <3> QED BY <1>3 DEF With
  <2> HIDE DEF aside
  <2> QED BY <1>1, <1>2, <1>3, <1>5, <1>6, <2>1 DEF Fit, Asks
<1>10. Works(d, X, b, n2, Standing)
  BY <1>3, <1>5, <1>6, <1>7 DEF Works
<1>11. aside \in Copied(d, X, b)
  BY <1>3, <1>7 DEF Copied
<1> HIDE DEF aside
<1>12. Fit(d, X, b, n2, h, Standing)
  BY <1>1, <1>3, <1>5, <1>8, <1>9, <1>10, <1>11, StepFits
<1>13. Moves(d) /\ sync'[d] = X
  BY <1>4, StepMoves
<1>14. base'[d] = b /\ notes'[d] = n2
  BY <1>4 DEF Types, Vault
<1> QED BY <1>12, <1>13, <1>14, GoodFrom

LEMMA ConflictGoneFits ==
  ASSUME Types, NEW d \in Device, Good(d), NEW p \in sync[d].todo, ConflictGone(d, p)
  PROVE  Good(d)'
<1>1. PICK X \in {Done(sync[d], p), Rest} : Set(d, X)
  BY DEF ConflictGone
<1>2. UNCHANGED <<notes, base, edits, history>>
  BY DEF ConflictGone
<1>3. /\ Fit(d, sync[d], base[d], notes[d], notes[Hub], Standing) /\ DOMAIN sync[d] = Fields
      /\ None \notin sync[d].todo /\ sync[d].pc = "steps" /\ sync[d].doing = None
  BY OwnStep DEF ConflictGone, Stepping
<1>4. Fit(d, Done(sync[d], p), base[d], notes[d], notes[Hub], Standing)
  BY <1>3, DoneFits
<1>5. Fit(d, Rest, base[d], notes[d], notes[Hub], Standing)
  BY <1>3, RestFits DEF Fit
<1>6. Moves(d) /\ sync'[d] = X
  BY <1>1, <1>2, StepMoves
<1> QED BY <1>1, <1>2, <1>4, <1>5, <1>6, GoodFrom

(***************************************************************************)
(* What is sent, and what is saved                                         *)
(***************************************************************************)
LEMMA SendPutsFits ==
  ASSUME Types, NEW d \in Device, Good(d), SendPuts(d)
  PROVE  Good(d)'
<1> DEFINE S == sync[d]
           b == base[d]
           n == notes[d]
           h == notes[Hub]
           X == [S EXCEPT !.pc = "puts"]
<1>1. Fit(d, S, b, n, h, Standing) /\ DOMAIN S = Fields /\ S.pc = "steps"
  BY OwnFit DEF SendPuts
<1>2. /\ X.pc = "puts" /\ X.here = S.here /\ X.there = S.there /\ X.agreed = S.agreed
      /\ X.todo = S.todo /\ X.doing = S.doing /\ X.puts = S.puts /\ X.drops = S.drops
      /\ X.fetched = S.fetched
  BY <1>1 DEF Fields
<1>3. Set(d, X) /\ UNCHANGED <<notes, base, edits, history>>
  BY DEF SendPuts
<1> HIDE DEF X
<1>4. Plans(X, b, Standing) /\ Agrees(X, n, h, Standing) /\ Asks(X, n, Standing)
  BY <1>1, <1>2 DEF Fit, Plans, Agrees, Asks
<1>5. Works(d, X, b, n, Standing)
  BY <1>1, <1>2, SameListing DEF Fit, Works
<1>6. Names(d, X, b, n)
  <2>1. Listing(X) = Listing(S) /\ Copied(d, S, b) \subseteq Copied(d, X, b)
    BY <1>2, SameListing, CopiedGrows
  <2> QED BY <1>1, <1>2, <2>1 DEF Fit, Names
<1>7. Fit(d, X, b, n, h, Standing)
  BY <1>1, <1>4, <1>5, <1>6 DEF Fit
<1>8. Moves(d) /\ sync'[d] = X
  BY <1>3, StepMoves
<1> QED BY <1>3, <1>7, <1>8, GoodFrom

\* Once the notes to put are answered, both sides hold what is agreed on.
LEMMA AgreedHeld ==
  ASSUME Types, NEW d \in Device, Good(d), Posted, PutsAreDone(d)
  PROVE  Held(Agreed(sync[d]), notes[d], notes[Hub], Standing)
<1> DEFINE S == sync[d]
           taken == DOMAIN S.puts \ S.stale
<1>1. Fit(d, S, base[d], notes[d], notes[Hub], Standing)
  BY OwnFit
<1>2. Held(S.agreed, notes[d], notes[Hub], Standing)
  BY <1>1 DEF Fit, Agrees, PutsAreDone
<1>3. ASSUME NEW p \in taken, S.puts[p] \in Standing
      PROVE  At(notes[d], p) = S.puts[p] /\ At(notes[Hub], p) = S.puts[p]
  <2>1. S.pc = "puts" /\ Answered(d)
    BY <1>3 DEF PutsAreDone
  <2>2. ~ \E m \in wire : m.live /\ m.from = d /\ m.path = p
    BY <2>1 DEF Answered
  <2>3. At(notes[Hub], p) = S.puts[p]
    BY <1>3, <2>1, <2>2 DEF Posted
  <2> QED BY <1>1, <1>3, <2>3 DEF Fit, Asks
<1> QED BY <1>2, <1>3 DEF Held, Agreed

LEMMA SendDropsFits ==
  ASSUME Types, NEW d \in Device, Good(d), Posted, SendDrops(d)
  PROVE  Good(d)'
<1> DEFINE S == sync[d]
           b == base[d]
           n == notes[d]
           h == notes[Hub]
           X == [S EXCEPT !.pc = "drops", !.agreed = Agreed(S), !.puts = Empty, !.stale = {}]
<1>1. /\ Fit(d, S, b, n, h, Standing) /\ DOMAIN S = Fields /\ S.pc \in {"steps", "puts"}
      /\ PutsAreDone(d)
  BY OwnFit DEF SendDrops, PutsAreDone
<1>2. /\ X.pc = "drops" /\ X.here = S.here /\ X.there = S.there /\ X.agreed = Agreed(S)
      /\ X.todo = S.todo /\ X.doing = S.doing /\ X.puts = Empty /\ X.drops = S.drops
      /\ X.fetched = S.fetched
  BY <1>1 DEF Fields
<1>3. Set(d, X) /\ UNCHANGED <<notes, base, edits, history>>
  BY DEF SendDrops
<1>4. Held(Agreed(S), n, h, Standing)
  BY <1>1, AgreedHeld
<1> HIDE DEF X
<1>5. Plans(X, b, Standing) /\ Agrees(X, n, h, Standing) /\ Asks(X, n, Standing)
  BY <1>1, <1>2, <1>4 DEF Fit, Plans, Agrees, Asks, Empty
<1>6. Works(d, X, b, n, Standing)
  BY <1>1, <1>2, SameListing DEF Fit, Works
<1>7. Names(d, X, b, n)
  <2>1. Listing(X) = Listing(S) /\ Copied(d, S, b) \subseteq Copied(d, X, b)
    BY <1>2, SameListing, CopiedGrows
  <2> QED BY <1>1, <1>2, <2>1 DEF Fit, Names
<1>8. Fit(d, X, b, n, h, Standing)
  BY <1>1, <1>5, <1>6, <1>7 DEF Fit
<1>9. Moves(d) /\ sync'[d] = X
  BY <1>3, StepMoves
<1> QED BY <1>3, <1>8, <1>9, GoodFrom

LEMMA SaveFits ==
  ASSUME Types, NEW d \in Device, Good(d), Posted, Save(d)
  PROVE  Good(d)'
<1> DEFINE S == sync[d]
           n == notes[d]
           h == notes[Hub]
           kept == Restrict(S.agreed, DOMAIN S.agreed \ (S.drops \ S.stale))
<1>1. Fit(d, S, base[d], n, h, Standing)
  BY OwnFit
<1>2. PutsAreDone(d) => Held(Agreed(S), n, h, Standing)
  BY AgreedHeld
<1>3. S.pc = "drops" => Held(kept, n, h, Standing)
  BY <1>1 DEF Fit, Agrees, Held, Restrict
<1>4. base'[d] \in {kept, Agreed(S)} /\ Held(base'[d], n, h, Standing)
  BY <1>2, <1>3 DEF Save, Types
<1>5. Fit(d, Rest, base'[d], n, h, Standing)
  BY <1>4, RestFits
<1>6. Set(d, Rest) /\ UNCHANGED <<notes, edits, history>> /\ \E b : base' = [base EXCEPT ![d] = b]
  BY DEF Save
<1>7. Moves(d) /\ sync'[d] = Rest
  BY <1>6, StepMoves
<1> QED BY <1>5, <1>6, <1>7, GoodFrom

LEMMA FailFits ==
  ASSUME Types, NEW d \in Device, Good(d), Fail(d)
  PROVE  Good(d)'
<1>1. Set(d, Rest) /\ UNCHANGED <<notes, base, edits, history>>
  BY DEF Fail
<1>2. Fit(d, Rest, base[d], notes[d], notes[Hub], Standing)
  BY OwnFit, RestFits DEF Fit
<1>3. Moves(d) /\ sync'[d] = Rest
  BY <1>1, StepMoves
<1> QED BY <1>1, <1>2, <1>3, GoodFrom

LEMMA DeviceFits ==
  ASSUME Big = {}, Types, NEW d \in Device, Good(d), Posted, SyncStep(d) \/ Fail(d)
  PROVE  Good(d)'
<1>1. ASSUME Step(d) PROVE Good(d)'
  <2>1. PICK p \in sync[d].todo :
          \/ CheckHere(d, p) \/ Pull(d, p) \/ DeleteHere(d, p) \/ Push(d, p)
          \/ SetAside(d, p) \/ TakeTheirs(d, p) \/ ConflictGone(d, p)
    BY <1>1 DEF Step
  <2> QED BY <2>1, CheckHereFits, TakeFits, DeleteHereFits, PushFits, SetAsideFits, ConflictGoneFits
<1> QED BY <1>1, ListHereFits, ListThereFits, FetchFits, SendPutsFits, SendDropsFits, SaveFits,
           FailFits DEF SyncStep

\* A step of a device does not reach the others.
LEMMA OthersFit ==
  ASSUME Types, NEW d \in Device, Moves(d), NEW c \in Device \ {d}, Good(c)
  PROVE  Good(c)'
<1>1. /\ sync'[c] = sync[c] /\ base'[c] = base[c] /\ notes'[c] = notes[c]
      /\ notes'[Hub] = notes[Hub] /\ Standing' = Standing
  BY HubAssumption DEF Moves, Vault, history, Standing
<1>2. Fit(c, sync'[c], base'[c], notes'[c], notes'[Hub], Standing')
  BY <1>1 DEF Good
<1> QED BY <1>2 DEF Good

(***************************************************************************)
(* Edits and the hub                                                       *)
(***************************************************************************)
\* What an edit does to what stands.
LEMMA EditIs ==
  ASSUME Types, NEW v \in Vault, NEW p \in Path,
         p.copies = << >> \/ p \in DOMAIN notes[v],
         Write(v, p) \/ Delete(v, p)
  PROVE  /\ UNCHANGED <<base, sync, wire>> /\ edits' = edits + 1 /\ edits \in Nat
         /\ None \notin Standing' /\ \A x \in 1..edits : x \in Standing' => x \in Standing
         /\ \A u \in Vault \ {v} : notes'[u] = notes[u]
         /\ \A q : q # p => At(notes'[v], q) = At(notes[v], q)
         /\ At(notes[v], p) \notin Standing'
         /\ \A q \in DOMAIN notes'[v] : q \in DOMAIN notes[v] \/ q.copies = << >>
         /\ InGap(v, p) => At(notes'[v], p) \notin Standing'
<1>1. edits \in Nat /\ VaultTo(notes[v], edits) /\ alive \subseteq 1..edits /\ None \notin alive
  <2>1. edits \in Nat /\ VaultTo(notes[v], edits) /\ alive \subseteq 1..edits
    BY BoundAssumption DEF Types
  <2>2. alive \subseteq Nat
    BY <2>1
  <2> QED BY <2>1, <2>2, Nobody
<1>2. UNCHANGED <<base, sync, wire>> /\ edits' = edits + 1 /\ crossed \subseteq crossed'
  BY DEF Write, Delete, Cross
<1>3. At(notes[v], p) \in 1..edits \cup {None}
  BY <1>1 DEF VaultTo, At
<1>4. None # edits + 1 /\ edits + 1 \notin 1..edits
  <2>1. edits + 1 \in Nat /\ edits + 1 \notin 1..edits
    BY <1>1
  <2> QED BY <2>1, Nobody
<1>5. ASSUME None \notin alive', At(notes[v], p) \notin alive',
             \A x \in 1..edits : x \in alive' => x \in alive,
             InGap(v, p) => At(notes'[v], p) \in crossed' \/ At(notes'[v], p) = None
      PROVE  /\ None \notin Standing' /\ At(notes[v], p) \notin Standing'
             /\ \A x \in 1..edits : x \in Standing' => x \in Standing
             /\ InGap(v, p) => At(notes'[v], p) \notin Standing'
  BY <1>2, <1>5 DEF Standing
<1>6. CASE Write(v, p)
  <2>1. /\ alive' = (alive \ {At(notes[v], p)}) \cup {edits + 1}
        /\ notes'[v] = With(notes[v], p, edits + 1) /\ \A u \in Vault \ {v} : notes'[u] = notes[u]
        /\ InGap(v, p) => edits + 1 \in crossed'
    BY <1>6 DEF Write, Types, Cross
  <2>2. /\ None \notin alive' /\ At(notes[v], p) \notin alive'
        /\ \A x \in 1..edits : x \in alive' => x \in alive
    BY <1>1, <1>3, <1>4, <2>1
  <2>3. \A q \in DOMAIN notes'[v] : q \in DOMAIN notes[v] \/ q.copies = << >>
    BY <2>1 DEF With
  <2>4. \A q : q # p => At(notes'[v], q) = At(notes[v], q)
    BY <2>1 DEF With, At
  <2>5. At(notes'[v], p) = edits + 1
    BY <2>1 DEF With, At
  <2>6. /\ None \notin Standing' /\ At(notes[v], p) \notin Standing'
        /\ \A x \in 1..edits : x \in Standing' => x \in Standing
        /\ InGap(v, p) => At(notes'[v], p) \notin Standing'
    BY <1>5, <2>1, <2>2, <2>5
  <2> QED BY <1>1, <1>2, <2>1, <2>3, <2>4, <2>6
<1>7. CASE Delete(v, p)
  <2>1. /\ alive' = alive \ {notes[v][p]} /\ p \in DOMAIN notes[v]
        /\ notes'[v] = Without(notes[v], p) /\ \A u \in Vault \ {v} : notes'[u] = notes[u]
    BY <1>7 DEF Delete, Types
  <2>2. /\ None \notin alive' /\ At(notes[v], p) \notin alive'
        /\ \A x \in 1..edits : x \in alive' => x \in alive
    BY <1>1, <2>1 DEF At
  <2>3. \A q \in DOMAIN notes'[v] : q \in DOMAIN notes[v] \/ q.copies = << >>
    BY <2>1 DEF Without, Restrict
  <2>4. \A q : q # p => At(notes'[v], q) = At(notes[v], q)
    BY <2>1 DEF Without, Restrict, At
  <2>5. At(notes'[v], p) = None
    BY <2>1 DEF Without, Restrict, At
  <2>6. /\ None \notin Standing' /\ At(notes[v], p) \notin Standing'
        /\ \A x \in 1..edits : x \in Standing' => x \in Standing
        /\ InGap(v, p) => At(notes'[v], p) \notin Standing'
    BY <1>5, <2>2, <2>5
  <2> QED BY <1>1, <1>2, <2>1, <2>3, <2>4, <2>6
<1> QED BY <1>6, <1>7

LEMMA EditKeeps ==
  ASSUME Types, \A d \in Device : Good(d), Posted,
         NEW v \in Vault, NEW p \in Path, p.copies = << >> \/ p \in DOMAIN notes[v],
         Write(v, p) \/ Delete(v, p)
  PROVE  (\A d \in Device : Good(d)') /\ Posted'
<1>1. /\ UNCHANGED <<base, sync, wire>> /\ edits \in Nat
      /\ None \notin Standing' /\ \A x \in 1..edits : x \in Standing' => x \in Standing
      /\ \A u \in Vault \ {v} : notes'[u] = notes[u]
      /\ \A q : q # p => At(notes'[v], q) = At(notes[v], q)
      /\ At(notes[v], p) \notin Standing'
      /\ \A q \in DOMAIN notes'[v] : q \in DOMAIN notes[v] \/ q.copies = << >>
      /\ InGap(v, p) => At(notes'[v], p) \notin Standing'
  BY EditIs
<1>2. \A u \in Vault : \A q : At(notes'[u], q) # At(notes[u], q) => At(notes[u], q) \notin Standing'
  BY <1>1
<1>3. ASSUME NEW d \in Device PROVE Good(d)'
  <2>1. /\ SyncTo(sync[d], base[d], edits) /\ VaultTo(base[d], edits)
        /\ VaultTo(notes[d], edits) /\ VaultTo(notes[Hub], edits)
        /\ Fit(d, sync[d], base[d], notes[d], notes[Hub], Standing)
    BY OwnTypes DEF Good
  <2>2. d \in Vault /\ Hub \in Vault /\ d # Hub
    BY HubAssumption DEF Vault
  <2>3. \A q \in DOMAIN notes'[d] : q \in DOMAIN notes[d] \/ q.copies = << >>
    BY <1>1, <2>2
  <2>4. \A q \in sync[d].todo : sync[d].doing = q =>
          At(notes'[d], q) = At(notes[d], q) \/ At(notes'[d], q) \notin Standing'
    <3>1. v = d /\ sync[d].doing = p => InGap(v, p)
      BY <2>2 DEF InGap
    <3> QED BY <1>1, <2>2, <3>1
  <2>5. /\ \A q : At(notes'[d], q) # At(notes[d], q) => At(notes[d], q) \notin Standing'
        /\ \A q : At(notes'[Hub], q) # At(notes[Hub], q) => At(notes[Hub], q) \notin Standing'
    BY <1>2, <2>2
  <2>6. Fit(d, sync[d], base[d], notes'[d], notes'[Hub], Standing')
    BY <1>1, <2>1, <2>3, <2>4, <2>5, World
  <2> QED BY <1>1, <2>6 DEF Good
<1>4. Posted'
  <2>1. ASSUME NEW m \in wire PROVE Harmless(m)'
    <3>1. /\ m.expect \in 1..edits \cup {None} /\ m.expect \notin Standing
          /\ m.checked => At(notes[Hub], m.path) \notin Standing
      BY DEF Types, WireTo, Posted, Harmless
    <3>2. m.expect \notin Standing'
      BY <1>1, <3>1
    <3>3. ASSUME m.checked PROVE At(notes'[Hub], m.path) \notin Standing'
      <4>1. Hub \in Vault /\ At(notes[Hub], m.path) \in 1..edits \cup {None}
        BY DEF Types, Vault, VaultTo, At
      <4>2. CASE v = Hub /\ m.path = p
        <5>1. InGap(v, p)
          BY <3>3, <4>2 DEF InGap
        <5> QED BY <1>1, <4>2, <5>1
      <4>3. CASE v # Hub \/ m.path # p
        <5>1. At(notes'[Hub], m.path) = At(notes[Hub], m.path)
          BY <1>1, <4>1, <4>3
        <5> QED BY <1>1, <3>1, <3>3, <4>1, <5>1
      <4> QED BY <4>2, <4>3
    <3> QED BY <3>2, <3>3 DEF Harmless
  <2>2. \A d \in Device : \A q \in DOMAIN sync[d].puts : sync[d].puts[q] \in 1..edits
    BY OwnTypes DEF SyncTo, VaultTo
  <2>3. \A d \in Device : \A q \in DOMAIN sync[d].puts \ sync[d].stale :
          sync[d].pc = "puts" /\ sync[d].puts[q] \in Standing' =>
            \/ At(notes'[Hub], q) = sync[d].puts[q]
            \/ \E m \in wire : m.live /\ m.from = d /\ m.path = q
    <3> SUFFICES ASSUME NEW d \in Device, NEW q \in DOMAIN sync[d].puts \ sync[d].stale,
                        sync[d].pc = "puts", sync[d].puts[q] \in Standing',
                        ~ \E m \in wire : m.live /\ m.from = d /\ m.path = q
                 PROVE  At(notes'[Hub], q) = sync[d].puts[q]
      OBVIOUS
    <3>1. sync[d].puts[q] \in Standing
      BY <1>1, <2>2
    <3>2. At(notes[Hub], q) = sync[d].puts[q]
      BY <3>1 DEF Posted
    <3>3. Hub \in Vault
      BY DEF Vault
    <3> QED BY <1>2, <3>2, <3>3
  <2>4. \A m \in wire' : Harmless(m)'
    BY <1>1, <2>1
  <2> QED BY <1>1, <2>3, <2>4 DEF Posted
<1> QED BY <1>3, <1>4

\* What the answer of the hub adds to a sync does not change how it fits.
LEMMA StaleFits ==
  ASSUME NEW d, NEW S, NEW X, NEW b, NEW n, NEW h, NEW al, Fit(d, S, b, n, h, al),
         X.pc = S.pc, X.here = S.here, X.there = S.there, X.fetched = S.fetched,
         X.agreed = S.agreed, X.todo = S.todo, X.doing = S.doing,
         X.puts = S.puts, X.drops = S.drops
  PROVE  Fit(d, X, b, n, h, al)
<1>1. Plans(X, b, al) /\ Agrees(X, n, h, al) /\ Asks(X, n, al)
  BY DEF Fit, Plans, Agrees, Asks
<1>2. Works(d, X, b, n, al)
  BY SameListing DEF Fit, Works
<1>3. Names(d, X, b, n)
  <2>1. Listing(X) = Listing(S) /\ Copied(d, S, b) \subseteq Copied(d, X, b)
    BY SameListing, CopiedGrows
  <2> QED BY <2>1 DEF Fit, Names
<1> QED BY <1>1, <1>2, <1>3 DEF Fit

\* What a request becomes when it is checked.
LEMMA CheckedIs ==
  ASSUME Types, NEW m \in wire
  PROVE  LET k == [m EXCEPT !.checked = TRUE] IN
         /\ k.from = m.from /\ k.path = m.path /\ k.text = m.text /\ k.expect = m.expect
         /\ k.live = m.live /\ k.checked
<1>1. m \in [from : Device, path : Path, text : 1..edits \cup {None},
             expect : 1..edits \cup {None}, live : BOOLEAN, checked : BOOLEAN]
  BY DEF Types, WireTo
<1> QED BY <1>1

\* What the hub does when it looks at a note.
LEMMA CheckThereIs ==
  ASSUME Types, NEW m \in wire, CheckThere(m)
  PROVE  /\ UNCHANGED <<notes, base, edits, fails, history>> /\ DOMAIN sync' = Device
         /\ \/ /\ At(notes[Hub], m.path) = m.expect
               /\ wire' = (wire \ {m}) \cup {[m EXCEPT !.checked = TRUE]} /\ sync' = sync
            \/ /\ wire' = wire \ {m}
               /\ \A d \in Device :
                    /\ sync'[d] = sync[d] \/ sync'[d] = [sync[d] EXCEPT !.stale = @ \cup {m.path}]
                    /\ m.from = d /\ m.live /\ m.text # None =>
                         sync'[d] = [sync[d] EXCEPT !.stale = @ \cup {m.path}]
<1>1. DOMAIN sync = Device /\ m.from \in Device
  BY DEF Types, WireTo
<1> DEFINE gone == m.text = None /\ m.path \notin DOMAIN notes[Hub]
           fits == At(notes[Hub], m.path) = m.expect
           Y == [sync[m.from] EXCEPT !.stale = @ \cup {m.path}]
<1>2. /\ IF ~ gone /\ fits THEN wire' = (wire \ {m}) \cup {[m EXCEPT !.checked = TRUE]}
                           ELSE wire' = wire \ {m}
      /\ sync' = IF gone \/ fits \/ ~ m.live THEN sync ELSE [sync EXCEPT ![m.from] = Y]
      /\ UNCHANGED <<notes, base, edits, fails, history>>
  BY DEF CheckThere, Checked
<1>3. m.text # None => ~ gone
  OBVIOUS
<1> HIDE DEF gone, Y
<1>4. CASE ~ gone /\ fits
  BY <1>1, <1>2, <1>4
<1>5. CASE gone \/ ~ fits
  <2>1. DOMAIN sync' = Device /\ \A d \in Device : sync'[d] = sync[d] \/ (d = m.from /\ sync'[d] = Y)
    BY <1>1, <1>2
  <2>2. m.live /\ m.text # None => sync'[m.from] = Y
    BY <1>1, <1>2, <1>3, <1>5
  <2>3. wire' = wire \ {m}
    BY <1>2, <1>5
  <2> QED BY <1>2, <2>1, <2>2, <2>3 DEF Y
<1> QED BY <1>4, <1>5

LEMMA CheckThereKeeps ==
  ASSUME Types, \A d \in Device : Good(d), Posted, NothingLost, NEW m \in wire, CheckThere(m)
  PROVE  (\A d \in Device : Good(d)') /\ Posted' /\ NothingLost'
<1>1. /\ UNCHANGED <<notes, base, edits, history>> /\ DOMAIN sync' = Device
      /\ \/ /\ At(notes[Hub], m.path) = m.expect
            /\ wire' = (wire \ {m}) \cup {[m EXCEPT !.checked = TRUE]} /\ sync' = sync
         \/ /\ wire' = wire \ {m}
            /\ \A d \in Device :
                 /\ sync'[d] = sync[d] \/ sync'[d] = [sync[d] EXCEPT !.stale = @ \cup {m.path}]
                 /\ m.from = d /\ m.live /\ m.text # None =>
                      sync'[d] = [sync[d] EXCEPT !.stale = @ \cup {m.path}]
  BY CheckThereIs
<1> DEFINE k == [m EXCEPT !.checked = TRUE]
<1>2. /\ k.from = m.from /\ k.path = m.path /\ k.text = m.text /\ k.expect = m.expect
      /\ k.live = m.live /\ k.checked
  BY CheckedIs
<1> HIDE DEF k
<1>3. Standing' = Standing
  BY <1>1 DEF Standing, history
<1>4. \A d \in Device : DOMAIN sync[d] = Fields
  BY OwnTypes DEF SyncTo
<1>5. \A d \in Device :
        /\ sync'[d].pc = sync[d].pc /\ sync'[d].here = sync[d].here /\ sync'[d].there = sync[d].there
        /\ sync'[d].fetched = sync[d].fetched /\ sync'[d].agreed = sync[d].agreed
        /\ sync'[d].todo = sync[d].todo /\ sync'[d].doing = sync[d].doing
        /\ sync'[d].puts = sync[d].puts /\ sync'[d].drops = sync[d].drops
        /\ sync[d].stale \subseteq sync'[d].stale
  <2> TAKE d \in Device
  <2>1. DOMAIN sync[d] = Fields
    BY <1>4
  <2>2. CASE sync'[d] = sync[d]
    BY <2>2
  <2>3. CASE sync'[d] = [sync[d] EXCEPT !.stale = @ \cup {m.path}]
    BY <2>1, <2>3 DEF Fields
  <2> QED BY <1>1, <2>2, <2>3
<1>6. ASSUME NEW d \in Device PROVE Good(d)'
  <2>1. Fit(d, sync'[d], base[d], notes[d], notes[Hub], Standing)
    BY <1>5, StaleFits DEF Good
  <2> QED BY <1>1, <1>3, <2>1 DEF Good
<1>7. \A r \in wire' : r \in wire \/ (r = k /\ At(notes[Hub], m.path) = m.expect)
  BY <1>1 DEF k
<1>8. Posted'
  <2>1. ASSUME NEW r \in wire' PROVE Harmless(r)'
    <3>1. m.expect \notin Standing
      BY DEF Posted, Harmless
    <3>2. CASE r \in wire
      BY <1>1, <1>3, <3>2 DEF Posted, Harmless
    <3>3. CASE r = k /\ At(notes[Hub], m.path) = m.expect
      BY <1>1, <1>2, <1>3, <3>1, <3>3 DEF Harmless
    <3> QED BY <1>7, <3>2, <3>3
  <2>2. ASSUME NEW r \in wire', r.live
        PROVE  LET S == sync'[r.from] IN
               /\ S.pc \in {"puts", "drops"}
               /\ S.pc = "puts" => r.path \in DOMAIN S.puts /\ r.text = S.puts[r.path]
    <3>1. PICK o \in wire : /\ o.from = r.from /\ o.path = r.path /\ o.text = r.text
                            /\ o.live = r.live
      BY <1>2, <1>7
    <3>2. o.from \in Device
      BY DEF Types, WireTo
    <3>3. /\ sync[o.from].pc \in {"puts", "drops"}
          /\ sync[o.from].pc = "puts" =>
               o.path \in DOMAIN sync[o.from].puts /\ o.text = sync[o.from].puts[o.path]
      BY <2>2, <3>1 DEF Posted
    <3>4. sync'[o.from].pc = sync[o.from].pc /\ sync'[o.from].puts = sync[o.from].puts
      BY <1>5, <3>2
    <3> QED BY <3>1, <3>3, <3>4
  <2>3. \A d \in Device : \A q \in DOMAIN sync'[d].puts \ sync'[d].stale :
          sync'[d].pc = "puts" /\ sync'[d].puts[q] \in Standing' =>
            \/ At(notes'[Hub], q) = sync'[d].puts[q]
            \/ \E r \in wire' : r.live /\ r.from = d /\ r.path = q
    <3> SUFFICES ASSUME NEW d \in Device, NEW q \in DOMAIN sync[d].puts \ sync'[d].stale,
                        sync[d].pc = "puts", sync[d].puts[q] \in Standing,
                        At(notes[Hub], q) # sync[d].puts[q]
                 PROVE  \E r \in wire' : r.live /\ r.from = d /\ r.path = q
      BY <1>1, <1>3, <1>5
    <3>1. PICK o \in wire : o.live /\ o.from = d /\ o.path = q
      BY <1>5 DEF Posted
    <3>2. CASE o # m
      BY <1>1, <3>1, <3>2
    <3>3. CASE o = m /\ wire' = (wire \ {m}) \cup {[m EXCEPT !.checked = TRUE]}
      BY <1>2, <3>1, <3>3 DEF k
    <3>4. CASE o = m /\ \A c \in Device : m.from = c /\ m.live /\ m.text # None =>
                          sync'[c] = [sync[c] EXCEPT !.stale = @ \cup {m.path}]
      <4>1. m.text = sync[d].puts[q] /\ None \notin Standing
        BY <3>1, <3>4, NotAlive DEF Posted
      <4>2. sync'[d] = [sync[d] EXCEPT !.stale = @ \cup {q}]
        BY <3>1, <3>4, <4>1
      <4>3. q \in sync'[d].stale
        BY <1>4, <4>2 DEF Fields
      <4> QED BY <4>3
    <3> QED BY <1>1, <3>2, <3>3, <3>4
  <2> QED BY <2>1, <2>2, <2>3 DEF Posted
<1>9. NothingLost'
  BY <1>1, <1>3 DEF NothingLost
<1> QED BY <1>6, <1>8, <1>9

\* What the hub does with a request that was checked.
LEMMA ApplyIs ==
  ASSUME Types, Posted, NEW m \in wire, Apply(m)
  PROVE  /\ UNCHANGED <<base, sync, edits>> /\ wire' = wire \ {m}
         /\ Standing' \subseteq Standing
         /\ \A d \in Device : notes'[d] = notes[d]
         /\ \A q : q # m.path => At(notes'[Hub], q) = At(notes[Hub], q)
         /\ At(notes'[Hub], m.path) = m.text
         /\ At(notes[Hub], m.path) \notin Standing
         /\ (\E k \in wire' : k.checked /\ k.path = m.path) => m.text \notin Standing'
<1>1. Hub \in Vault /\ Hub \notin Device /\ DOMAIN notes = Vault
  BY HubAssumption DEF Types, Vault
<1>2. /\ UNCHANGED <<base, sync, edits, alive>> /\ wire' = wire \ {m} /\ m.checked
      /\ Cross(m.text, \E k \in wire \ {m} : k.checked /\ k.path = m.path)
  BY DEF Apply
<1>3. Standing' \subseteq Standing
  BY <1>2 DEF Standing, Cross
<1> DEFINE new == IF m.text = None THEN Without(notes[Hub], m.path)
                  ELSE With(notes[Hub], m.path, m.text)
<1>4. notes' = [notes EXCEPT ![Hub] = new]
  BY DEF Apply
<1>5. \A q : q # m.path => At(new, q) = At(notes[Hub], q)
  BY DEF With, Without, Restrict, At
<1>6. At(new, m.path) = m.text
  BY WithoutAt DEF With, At
<1> HIDE DEF new
<1>7. (\A d \in Device : notes'[d] = notes[d]) /\ notes'[Hub] = new
  BY <1>1, <1>4
<1>8. At(notes[Hub], m.path) \notin Standing
  BY <1>2 DEF Posted, Harmless
<1>9. (\E k \in wire' : k.checked /\ k.path = m.path) => m.text \notin Standing'
  BY <1>2 DEF Cross, Standing
<1> QED BY <1>2, <1>3, <1>5, <1>6, <1>7, <1>8, <1>9

LEMMA ApplyKeeps ==
  ASSUME Types, \A d \in Device : Good(d), Posted, NEW m \in wire, Apply(m)
  PROVE  (\A d \in Device : Good(d)') /\ Posted'
<1>1. /\ UNCHANGED <<base, sync, edits>> /\ wire' = wire \ {m} /\ Standing' \subseteq Standing
      /\ \A d \in Device : notes'[d] = notes[d]
      /\ \A q : q # m.path => At(notes'[Hub], q) = At(notes[Hub], q)
      /\ At(notes'[Hub], m.path) = m.text
      /\ At(notes[Hub], m.path) \notin Standing
      /\ (\E k \in wire' : k.checked /\ k.path = m.path) => m.text \notin Standing'
  BY ApplyIs
<1>2. \A q : At(notes'[Hub], q) # At(notes[Hub], q) => At(notes[Hub], q) \notin Standing'
  BY <1>1
<1>3. None \notin Standing'
  BY <1>1, NotAlive
<1>4. ASSUME NEW d \in Device PROVE Good(d)'
  <2>1. /\ SyncTo(sync[d], base[d], edits) /\ VaultTo(base[d], edits)
        /\ VaultTo(notes[d], edits) /\ VaultTo(notes[Hub], edits)
        /\ Fit(d, sync[d], base[d], notes[d], notes[Hub], Standing)
    BY OwnTypes DEF Good
  <2>2. Fit(d, sync[d], base[d], notes[d], notes'[Hub], Standing')
    BY <1>1, <1>2, <1>3, <2>1, World
  <2> QED BY <1>1, <2>2 DEF Good
<1>5. Posted'
  <2>1. ASSUME NEW k \in wire' PROVE Harmless(k)'
    <3>1. /\ k \in wire /\ k.expect \notin Standing
          /\ k.checked => At(notes[Hub], k.path) \notin Standing
      BY <1>1 DEF Posted, Harmless
    <3>2. ASSUME k.checked PROVE At(notes'[Hub], k.path) \notin Standing'
      <4>1. CASE k.path = m.path
        BY <1>1, <3>2, <4>1
      <4>2. CASE k.path # m.path
        BY <1>1, <3>1, <3>2, <4>2
      <4> QED BY <4>1, <4>2
    <3> QED BY <1>1, <3>1, <3>2 DEF Harmless
  <2>2. \A k \in wire' : k.live =>
          LET S == sync'[k.from] IN
          /\ S.pc \in {"puts", "drops"}
          /\ S.pc = "puts" => k.path \in DOMAIN S.puts /\ k.text = S.puts[k.path]
    BY <1>1 DEF Posted
  <2>3. \A d \in Device : \A q \in DOMAIN sync'[d].puts \ sync'[d].stale :
          sync'[d].pc = "puts" /\ sync'[d].puts[q] \in Standing' =>
            \/ At(notes'[Hub], q) = sync'[d].puts[q]
            \/ \E k \in wire' : k.live /\ k.from = d /\ k.path = q
    <3> SUFFICES ASSUME NEW d \in Device, NEW q \in DOMAIN sync[d].puts \ sync[d].stale,
                        sync[d].pc = "puts", sync[d].puts[q] \in Standing',
                        ~ \E k \in wire' : k.live /\ k.from = d /\ k.path = q
                 PROVE  At(notes'[Hub], q) = sync[d].puts[q]
      BY <1>1
    <3>1. CASE At(notes[Hub], q) = sync[d].puts[q]
      BY <1>2, <3>1
    <3>2. CASE At(notes[Hub], q) # sync[d].puts[q]
      <4>1. m.live /\ m.from = d /\ m.path = q
        BY <1>1, <3>2 DEF Posted
      <4>2. m.text = sync[d].puts[q]
        BY <4>1 DEF Posted
      <4> QED BY <1>1, <4>1, <4>2
    <3> QED BY <3>1, <3>2
  <2> QED BY <2>1, <2>2, <2>3 DEF Posted
<1> QED BY <1>4, <1>5

(***************************************************************************)
(* Requests                                                                *)
(***************************************************************************)
\* A step of d, from the requests it leaves.
LEMMA PostedTogether ==
  ASSUME Types, Posted, NEW d \in Device, Moves(d), NEW X, sync'[d] = X,
         \A m \in wire' : m.from # d => m \in wire,
         \A m \in wire : m.from # d => m \in wire',
         \A m \in wire' : m.from = d =>
           /\ Harmless(m)
           /\ m.live => /\ X.pc \in {"puts", "drops"}
                        /\ X.pc = "puts" => m.path \in DOMAIN X.puts /\ m.text = X.puts[m.path],
         X.pc = "puts" =>
           \A p \in DOMAIN X.puts : \E m \in wire' : m.live /\ m.from = d /\ m.path = p,
         \A m \in wire' : m.from \in Device
  PROVE  Posted'
<1>1. /\ notes'[Hub] = notes[Hub] /\ Standing' = Standing
      /\ \A c \in Device \ {d} : sync'[c] = sync[c]
  BY HubAssumption DEF Moves, Vault, history, Standing
<1>2. \A m \in wire' : Harmless(m)'
  BY <1>1 DEF Posted, Harmless
<1>3. ASSUME NEW m \in wire', m.live
      PROVE  LET S == sync'[m.from] IN
             /\ S.pc \in {"puts", "drops"}
             /\ S.pc = "puts" => m.path \in DOMAIN S.puts /\ m.text = S.puts[m.path]
  <2>1. CASE m.from = d
    BY <1>3, <2>1
  <2>2. CASE m.from # d
    <3>1. m \in wire /\ sync'[m.from] = sync[m.from]
      BY <1>1, <2>2
    <3> QED BY <1>3, <3>1 DEF Posted
  <2> QED BY <2>1, <2>2
<1>4. ASSUME NEW c \in Device, NEW p \in DOMAIN sync'[c].puts \ sync'[c].stale,
             sync'[c].pc = "puts", sync'[c].puts[p] \in Standing'
      PROVE  \/ At(notes'[Hub], p) = sync'[c].puts[p]
             \/ \E m \in wire' : m.live /\ m.from = c /\ m.path = p
  <2>1. CASE c = d
    BY <1>4, <2>1
  <2>2. CASE c # d
    <3>1. sync'[c] = sync[c]
      BY <1>1, <2>2
    <3>2. \/ At(notes[Hub], p) = sync[c].puts[p]
          \/ \E m \in wire : m.live /\ m.from = c /\ m.path = p
      BY <1>1, <1>4, <3>1 DEF Posted
    <3> QED BY <1>1, <2>2, <3>1, <3>2
  <2> QED BY <2>1, <2>2
<1> QED BY <1>2, <1>3, <1>4 DEF Posted

\* A step that sends nothing, of a sync with nothing under way.
LEMMA QuietPosted ==
  ASSUME Types, Posted, NEW d \in Device, NEW X, Set(d, X), Moves(d), wire' = wire,
         ~ \E m \in wire : m.from = d /\ m.live, X.pc # "puts"
  PROVE  Posted'
<1>1. sync'[d] = X
  BY SetMoves
<1>2. \A m \in wire : m.from \in Device /\ Harmless(m)
  BY DEF Types, WireTo, Posted
<1> QED BY <1>1, <1>2, PostedTogether

\* Nothing of d is under way before it sends.
LEMMA NoneUnderWay ==
  ASSUME Posted, NEW d \in Device, sync[d].pc \notin {"puts", "drops"}
  PROVE  ~ \E m \in wire : m.from = d /\ m.live
BY DEF Posted

LEMMA StepPosted ==
  ASSUME Types, Posted, NEW d \in Device, Step(d)
  PROVE  Posted'
<1>1. PICK p \in sync[d].todo :
        \/ CheckHere(d, p) \/ Pull(d, p) \/ DeleteHere(d, p) \/ Push(d, p)
        \/ SetAside(d, p) \/ TakeTheirs(d, p) \/ ConflictGone(d, p)
  BY DEF Step
<1>2. SyncTo(sync[d], base[d], edits) /\ DOMAIN sync[d] = Fields /\ p \in Path
  BY OwnTypes, DoingTypes DEF SyncTo
<1>3. sync[d].pc = "steps"
  BY <1>1, <1>2, Nobody DEF CheckHere, Pull, DeleteHere, Push, SetAside, TakeTheirs, ConflictGone,
     Stepping, SyncTo
<1>4. ~ \E m \in wire : m.from = d /\ m.live
  BY <1>3, NoneUnderWay
<1>5. wire' = wire
  BY <1>1 DEF CheckHere, Pull, DeleteHere, Push, SetAside, TakeTheirs, ConflictGone
<1>6. \E X : Set(d, X) /\ X.pc # "puts"
  <2> DEFINE S == sync[d]
  <2>1. Rest.pc = "rest" /\ Done(S, p).pc = "steps" /\ [S EXCEPT !.doing = p].pc = "steps"
    BY <1>2, <1>3, DoneIs DEF Rest, Fields
  <2>2. \A f : [S EXCEPT !.doing = p, !.puts = f].pc = "steps"
    BY <1>2, <1>3 DEF Fields
  <2>3. \A f : [Done(S, p) EXCEPT !.puts = f].pc = "steps" /\ [Done(S, p) EXCEPT !.agreed = f].pc = "steps"
    <3> DEFINE R == Done(S, p)
    <3>1. R.pc = "steps" /\ DOMAIN R = Fields
      BY <1>2, <1>3, DoneIs
    <3> HIDE DEF R
    <3>2. \A f : [R EXCEPT !.puts = f].pc = "steps" /\ [R EXCEPT !.agreed = f].pc = "steps"
      BY <3>1 DEF Fields
    <3> QED BY <3>2 DEF R
  <2>4. CASE CheckHere(d, p)
    BY <2>1, <2>4 DEF CheckHere
  <2>5. CASE Pull(d, p) \/ TakeTheirs(d, p)
    BY <2>3, <2>5 DEF Pull, TakeTheirs
  <2>6. CASE DeleteHere(d, p)
    BY <2>3, <2>6 DEF DeleteHere
  <2>7. CASE Push(d, p)
    BY <2>1, <2>3, <2>7 DEF Push
  <2>8. CASE SetAside(d, p)
    BY <2>2, <2>8 DEF SetAside
  <2>9. CASE ConflictGone(d, p)
    BY <2>1, <2>9 DEF ConflictGone
  <2> QED BY <1>1, <2>4, <2>5, <2>6, <2>7, <2>8, <2>9
<1>7. Moves(d)
  BY DeviceTypes DEF SyncStep
<1> QED BY <1>4, <1>5, <1>6, <1>7, QuietPosted

LEMMA PlanPosted ==
  ASSUME Types, Posted, NEW d \in Device, ListHere(d) \/ ListThere(d) \/ Fetch(d)
  PROVE  Posted'
<1>1. DOMAIN sync[d] = Fields /\ wire' = wire /\ Moves(d)
  BY OwnTypes, DeviceTypes DEF SyncTo, SyncStep, ListHere, ListThere, Fetch
<1>2. ~ \E m \in wire : m.from = d /\ m.live
  BY NoneUnderWay DEF ListHere, ListThere, Fetch
<1>3. \E X : Set(d, X) /\ X.pc # "puts"
  <2>1. CASE ListHere(d)
    <3>1. \A f : [Rest EXCEPT !.pc = "listed", !.here = f].pc = "listed"
      BY DEF Rest
    <3> QED BY <2>1, <3>1 DEF ListHere
  <2>2. CASE Fetch(d)
    <3>1. \A f : [sync[d] EXCEPT !.pc = "steps", !.fetched = f].pc = "steps"
      BY <1>1 DEF Fields
    <3> QED BY <2>2, <3>1 DEF Fetch
  <2>3. CASE ListThere(d)
    <3> DEFINE S == [sync[d] EXCEPT !.there = Listed(notes[Hub])]
    <3>1. DOMAIN S = Fields
      BY <1>1
    <3> HIDE DEF S
    <3>2. \A c, a, b, t : c \in {"steps", "planned"} =>
            [S EXCEPT !.pc = c, !.agreed = a, !.drops = b, !.todo = t].pc # "puts"
      BY <3>1 DEF Fields
    <3> DEFINE b == base[d]
               c == IF Asked(S, b, {"pull", "conflict"}) = {} THEN "steps" ELSE "planned"
               known == DOMAIN b \cap (DOMAIN S.here \cup DOMAIN S.there)
               same == Asked(S, b, {"keep"})
               agreed == [p \in known \cup same |-> IF p \in same THEN S.here[p] ELSE b[p]]
               drops == Asked(S, b, {"deleteThere"})
               todo == Asked(S, b, {"pull", "push", "deleteHere", "conflict"})
               X == [S EXCEPT !.pc = c, !.agreed = agreed, !.drops = drops, !.todo = todo]
    <3>3. Set(d, X)
      BY <2>3 DEF ListThere, S
    <3>4. c \in {"steps", "planned"}
      OBVIOUS
    <3> HIDE DEF c, agreed, drops, todo
    <3>5. X.pc # "puts"
      BY <3>2, <3>4
    <3> QED BY <3>3, <3>5
  <2> QED BY <2>1, <2>2, <2>3
<1> QED BY <1>1, <1>2, <1>3, QuietPosted

LEMMA SendPutsPosted ==
  ASSUME Types, Posted, NEW d \in Device, Good(d), SendPuts(d)
  PROVE  Posted'
<1> DEFINE S == sync[d]
           X == [S EXCEPT !.pc = "puts"]
           sent == {Request(d, p, S.puts[p]) : p \in DOMAIN S.puts}
<1>1. /\ Fit(d, S, base[d], notes[d], notes[Hub], Standing) /\ DOMAIN S = Fields /\ S.pc = "steps"
      /\ Set(d, X) /\ wire' = wire \cup sent /\ Moves(d)
  BY OwnFit, SendPutsTypes DEF SendPuts
<1>2. X.pc = "puts" /\ X.puts = S.puts /\ sync'[d] = X
  BY <1>1, SetMoves DEF Fields
<1>3. \A p \in DOMAIN S.puts :
        LET m == Request(d, p, S.puts[p]) IN
        m.from = d /\ m.path = p /\ m.text = S.puts[p] /\ Harmless(m) /\ m.live
  BY <1>1 DEF Request, Fit, Asks, Harmless
<1>4. /\ \A m \in sent : m.from = d /\ Harmless(m) /\ m.path \in DOMAIN S.puts
                         /\ m.text = S.puts[m.path]
      /\ \A p \in DOMAIN S.puts : \E m \in sent : m.live /\ m.from = d /\ m.path = p
  BY <1>3
<1>5. ~ \E m \in wire : m.from = d /\ m.live
  BY <1>1, NoneUnderWay
<1>6. \A m \in wire : m.from \in Device /\ Harmless(m)
  BY DEF Types, WireTo, Posted
<1> HIDE DEF X, S, sent
<1> QED BY <1>1, <1>2, <1>4, <1>5, <1>6, PostedTogether

LEMMA SendDropsPosted ==
  ASSUME Types, Posted, NEW d \in Device, Good(d), SendDrops(d)
  PROVE  Posted'
<1> DEFINE S == sync[d]
           X == [S EXCEPT !.pc = "drops", !.agreed = Agreed(S), !.puts = Empty, !.stale = {}]
           sent == {Request(d, p, None) : p \in S.drops}
<1>1. /\ Fit(d, S, base[d], notes[d], notes[Hub], Standing) /\ DOMAIN S = Fields
      /\ Set(d, X) /\ wire' = wire \cup sent /\ Moves(d)
  BY OwnFit, SendDropsTypes DEF SendDrops
<1>2. X.pc = "drops" /\ sync'[d] = X
  BY <1>1, SetMoves DEF Fields
<1>3. \A p \in S.drops : Request(d, p, None).from = d /\ Harmless(Request(d, p, None))
  BY <1>1 DEF Request, Fit, Asks, Harmless
<1>4. \A m \in sent : m.from = d /\ Harmless(m)
  BY <1>3
<1>5. \A m \in wire : m.from \in Device /\ Harmless(m)
  BY DEF Types, WireTo, Posted
<1> HIDE DEF X, S, sent
<1> QED BY <1>1, <1>2, <1>4, <1>5, PostedTogether

LEMMA SavePosted ==
  ASSUME Types, Posted, NEW d \in Device, Save(d)
  PROVE  Posted'
<1>1. ~ \E m \in wire : m.from = d /\ m.live
  BY NoneUnderWay DEF Save, PutsAreDone, Answered
<1>2. Set(d, Rest) /\ wire' = wire /\ Moves(d) /\ Rest.pc # "puts"
  BY SaveTypes DEF Save, Rest
<1> QED BY <1>1, <1>2, QuietPosted

LEMMA FailPosted ==
  ASSUME Types, Posted, NEW d \in Device, Fail(d)
  PROVE  Posted'
<1> DEFINE mine == {m \in wire : m.from = d /\ m.live}
<1>1. PICK left \in SUBSET mine :
        wire' = (wire \ mine) \cup {[m EXCEPT !.live = FALSE] : m \in left}
  BY DEF Fail
<1>2. sync'[d] = Rest /\ Rest.pc = "rest" /\ Moves(d)
  BY FailTypes, SetMoves DEF Fail, Rest
<1>3. \A m \in wire : m \in [from : Device, path : Path, text : 1..edits \cup {None},
                             expect : 1..edits \cup {None}, live : BOOLEAN, checked : BOOLEAN]
                      /\ Harmless(m)
  BY DEF Types, WireTo, Posted
<1>4. \A m \in left : LET k == [m EXCEPT !.live = FALSE] IN
        k.from = d /\ Harmless(k) /\ k.live = FALSE
  BY <1>3 DEF Harmless
<1>5. \A k \in wire' :
        \/ k \in wire /\ ~ (k.from = d /\ k.live)
        \/ k.from = d /\ Harmless(k) /\ k.live = FALSE
  BY <1>1, <1>4
<1>6. \A m \in wire : m.from # d => m \in wire'
  BY <1>1
<1> HIDE DEF mine
<1>7. /\ \A m \in wire' : m.from # d => m \in wire
      /\ \A m \in wire' : m.from = d => Harmless(m) /\ ~ m.live
      /\ \A m \in wire' : m.from \in Device
  BY <1>3, <1>5
<1> QED BY <1>2, <1>6, <1>7, PostedTogether

LEMMA DevicePosted ==
  ASSUME Types, Posted, NEW d \in Device, Good(d), SyncStep(d) \/ Fail(d)
  PROVE  Posted'
BY StepPosted, PlanPosted, SendPutsPosted, SendDropsPosted, SavePosted, FailPosted DEF SyncStep

(***************************************************************************)
(* Nothing is lost                                                         *)
(***************************************************************************)
\* A note in f reads x.
Holds(f, x) == \E p \in DOMAIN f : f[p] = x

LEMMA HoldsAt ==
  ASSUME NEW f, NEW x, x # None
  PROVE  Holds(f, x) <=> \E p : At(f, p) = x
BY DEF Holds, At

\* A sync takes no text out of its vault that is Standing and has no other note there.
LEMMA StepHolds ==
  ASSUME Types, NEW d \in Device, Good(d), Step(d), NEW x \in Standing, Holds(notes[d], x)
  PROVE  Holds(notes'[d], x)
<1>1. PICK p \in sync[d].todo :
        \/ CheckHere(d, p) \/ Pull(d, p) \/ DeleteHere(d, p) \/ Push(d, p)
        \/ SetAside(d, p) \/ TakeTheirs(d, p) \/ ConflictGone(d, p)
  BY DEF Step
<1> DEFINE S == sync[d]
           b == base[d]
           n == notes[d]
<1>2. /\ Fit(d, S, b, n, notes[Hub], Standing) /\ None \notin Standing /\ p \in Path /\ p \in Listing(S)
      /\ S.doing = p => S.pc = "steps"
      /\ ActOf(d, p) = ActIn(S, b, p)
      /\ IsFiniteSet(DOMAIN S.here) /\ IsFiniteSet(DOMAIN S.there)
  BY OwnStep, OwnTypes DEF SyncTo, VaultTo
<1>3. PICK q : At(n, q) = x
  BY <1>2, HoldsAt
<1>4. x # None
  BY <1>2
<1>5. CASE CheckHere(d, p) \/ Push(d, p) \/ ConflictGone(d, p)
  BY <1>5 DEF CheckHere, Push, ConflictGone
<1>6. CASE Pull(d, p)
  <2>1. S.doing = p /\ ActIn(S, b, p) = "pull" /\ notes'[d] = With(n, p, S.fetched[p])
    BY <1>2, <1>6 DEF Pull, Types, Vault
  <2>2. At(n, p) # x
    BY <1>2, <2>1, GivenUp
  <2>3. At(notes'[d], q) = x
    <3> HIDE DEF n, S
    <3> QED BY <1>3, <2>1, <2>2 DEF With, At
  <2> QED BY <1>4, <2>3, HoldsAt
<1>7. CASE DeleteHere(d, p)
  <2>1. S.doing = p /\ ActIn(S, b, p) = "deleteHere" /\ notes'[d] = Without(n, p)
    BY <1>2, <1>7 DEF DeleteHere, Types, Vault
  <2>2. At(n, p) # x
    BY <1>2, <2>1, GivenUp
  <2>3. At(notes'[d], q) = x
    <3> HIDE DEF n, S
    <3> QED BY <1>3, <2>1, <2>2 DEF Without, Restrict, At
  <2> QED BY <1>4, <2>3, HoldsAt
<1>8. CASE SetAside(d, p)
  <2> DEFINE aside == FreeAside(S, d, p)
  <2>1. notes'[d] = With(n, aside, n[p])
    BY <1>8 DEF SetAside, Types, Vault
  <2>2. aside \notin DOMAIN n
    BY <1>8, AsideIsNew
  <2>3. At(notes'[d], q) = x
    <3> HIDE DEF n, aside
    <3> QED BY <1>3, <1>4, <2>1, <2>2 DEF With, At
  <2> QED BY <1>4, <2>3, HoldsAt
<1>9. CASE TakeTheirs(d, p)
  <2> DEFINE aside == FreeAside(S, d, p)
  <2>1. S.doing = p /\ ActIn(S, b, p) = "conflict" /\ notes'[d] = With(n, p, S.fetched[p])
    BY <1>2, <1>9 DEF TakeTheirs, Types, Vault
  <2>2. aside # p
    BY <1>2, AsideIsFree DEF Listing
  <2>3. At(n, p) = x => At(n, aside) = x
    BY <1>2, <2>1 DEF Fit, Works
  <2>4. At(notes'[d], q) = x \/ At(notes'[d], aside) = x
    <3> HIDE DEF n, S, aside
    <3> QED BY <1>3, <2>1, <2>2, <2>3 DEF With, At
  <2> QED BY <1>4, <2>4, HoldsAt
<1> QED BY <1>1, <1>5, <1>6, <1>7, <1>8, <1>9

LEMMA DeviceHolds ==
  ASSUME Types, NEW d \in Device, Good(d), SyncStep(d) \/ Fail(d), NEW x \in Standing, Holds(notes[d], x)
  PROVE  Holds(notes'[d], x)
BY StepHolds DEF SyncStep, ListHere, ListThere, Fetch, SendPuts, SendDrops, Save, Fail

LEMMA DeviceLosesNothing ==
  ASSUME Types, NEW d \in Device, Good(d), SyncStep(d) \/ Fail(d), NothingLost
  PROVE  NothingLost'
<1>1. Moves(d)
  BY DeviceTypes
<1> SUFFICES ASSUME NEW x \in Standing' PROVE \E v \in Vault : Holds(notes'[v], x)
  BY DEF NothingLost, Holds
<1>2. x \in Standing
  BY <1>1 DEF Moves, history, Standing
<1>3. PICK v \in Vault : Holds(notes[v], x)
  BY <1>2 DEF NothingLost, Holds
<1>4. CASE v = d
  BY <1>2, <1>3, <1>4, DeviceHolds
<1>5. CASE v # d
  BY <1>1, <1>3, <1>5 DEF Moves
<1> QED BY <1>4, <1>5

LEMMA EditLosesNothing ==
  ASSUME Types, NEW v \in Vault, NEW p \in Path, Write(v, p) \/ Delete(v, p), NothingLost
  PROVE  NothingLost'
<1> SUFFICES ASSUME NEW x \in Standing' PROVE \E u \in Vault : Holds(notes'[u], x)
  BY DEF NothingLost, Holds
<1>1. DOMAIN notes = Vault /\ x \in alive' /\ x \notin crossed' /\ crossed \subseteq crossed'
  BY DEF Types, Standing, Write, Delete, Cross
<1>2. CASE Write(v, p)
  <2>1. /\ alive' = (alive \ {At(notes[v], p)}) \cup {edits + 1}
        /\ notes'[v] = With(notes[v], p, edits + 1) /\ \A u \in Vault \ {v} : notes'[u] = notes[u]
    BY <1>1, <1>2 DEF Write
  <2>2. CASE x = edits + 1
    BY <2>1, <2>2 DEF With, Holds
  <2>3. CASE x # edits + 1
    <3>1. x \in Standing /\ x # At(notes[v], p)
      BY <1>1, <2>1, <2>3 DEF Standing
    <3>2. PICK u \in Vault : \E q \in DOMAIN notes[u] : notes[u][q] = x
      BY <3>1 DEF NothingLost
    <3>3. PICK q \in DOMAIN notes[u] : notes[u][q] = x
      BY <3>2
    <3>4. CASE u = v
      <4>1. q # p
        BY <3>1, <3>3, <3>4 DEF At
      <4> QED BY <2>1, <3>3, <3>4, <4>1 DEF With, Holds
    <3>5. CASE u # v
      BY <2>1, <3>3, <3>5 DEF Holds
    <3> QED BY <3>4, <3>5
  <2> QED BY <2>2, <2>3
<1>3. CASE Delete(v, p)
  <2>1. /\ alive' = alive \ {notes[v][p]}
        /\ notes'[v] = Without(notes[v], p) /\ \A u \in Vault \ {v} : notes'[u] = notes[u]
    BY <1>1, <1>3 DEF Delete
  <2>2. PICK u \in Vault : \E q \in DOMAIN notes[u] : notes[u][q] = x
    BY <1>1, <2>1 DEF NothingLost, Standing
  <2>3. PICK q \in DOMAIN notes[u] : notes[u][q] = x
    BY <2>2
  <2>4. CASE u = v
    <3>1. q # p
      BY <1>1, <2>1, <2>3, <2>4
    <3> QED BY <2>1, <2>3, <2>4, <3>1 DEF Without, Restrict, Holds
  <2>5. CASE u # v
    BY <2>1, <2>3, <2>5 DEF Holds
  <2> QED BY <2>4, <2>5
<1> QED BY <1>2, <1>3

LEMMA ApplyLosesNothing ==
  ASSUME Types, Posted, NEW m \in wire, Apply(m), NothingLost
  PROVE  NothingLost'
<1> SUFFICES ASSUME NEW x \in Standing' PROVE \E v \in Vault : Holds(notes'[v], x)
  BY DEF NothingLost, Holds
<1>1. x \in Standing /\ x # None
  BY ApplyIs, NotAlive
<1>2. PICK v \in Vault : Holds(notes[v], x)
  BY <1>1 DEF NothingLost, Holds
<1>3. CASE v \in Device
  BY <1>2, <1>3, ApplyIs
<1>4. CASE v = Hub
  <2>1. PICK q : At(notes[Hub], q) = x
    BY <1>1, <1>2, <1>4, HoldsAt
  <2>2. At(notes'[Hub], q) = x
    BY <1>1, <2>1, ApplyIs
  <2> QED BY <1>1, <1>4, <2>2, HoldsAt
<1> QED BY <1>3, <1>4 DEF Vault

(***************************************************************************)
(* The theorems                                                            *)
(***************************************************************************)
LEMMA InitInv == Init => IInv
<1> SUFFICES ASSUME Init PROVE IInv
  OBVIOUS
<1>1. Types
  BY InitTypes
<1>2. ASSUME NEW d \in Device PROVE Good(d)
  <2>1. base[d] = Empty /\ sync[d] = Rest
    BY DEF Init
  <2>2. Held(base[d], notes[d], notes[Hub], Standing)
    BY <2>1 DEF Held, Empty
  <2> QED BY <2>1, <2>2, RestFits DEF Good
<1>3. Posted
  <2>1. \A d \in Device : sync[d].pc = "rest"
    BY DEF Init, Rest
  <2> QED BY <2>1 DEF Init, Posted
<1>4. NothingLost
  BY DEF Init, NothingLost, Standing
<1> QED BY <1>1, <1>2, <1>3, <1>4 DEF IInv

LEMMA NextInv ==
  ASSUME Big = {}, IInv, [Next]_vars
  PROVE  IInv'
<1>1. Types'
  BY NextTypes DEF IInv
<1>2. CASE UNCHANGED vars
  <2>1. \A d \in Device : Good(d)'
    BY <1>2 DEF IInv, vars, history, Good, Standing
  <2>2. Posted' /\ NothingLost'
    BY <1>2 DEF IInv, vars, history, Posted, NothingLost, Harmless, Standing
  <2> QED BY <1>1, <2>1, <2>2 DEF IInv
<1>3. CASE Edit
  <2>1. PICK v \in Vault : \E p \in Path :
          /\ p.copies = << >> \/ p \in DOMAIN notes[v]
          /\ Write(v, p) \/ Delete(v, p)
    BY <1>3, EditPath DEF IInv
  <2>2. PICK p \in Path : /\ p.copies = << >> \/ p \in DOMAIN notes[v]
                          /\ Write(v, p) \/ Delete(v, p)
    BY <2>1
  <2>3. (\A d \in Device : Good(d)') /\ Posted'
    BY <2>2, EditKeeps DEF IInv
  <2>4. NothingLost'
    BY <2>2, EditLosesNothing DEF IInv
  <2> QED BY <1>1, <2>3, <2>4 DEF IInv
<1>4. CASE \E d \in Device : SyncStep(d) \/ Fail(d)
  <2>1. PICK d \in Device : SyncStep(d) \/ Fail(d)
    BY <1>4
  <2>2. Good(d)' /\ Posted' /\ NothingLost' /\ Moves(d)
    BY <2>1, DeviceFits, DevicePosted, DeviceLosesNothing, DeviceTypes DEF IInv
  <2>3. \A c \in Device \ {d} : Good(c)'
    BY <2>2, OthersFit DEF IInv
  <2> QED BY <1>1, <2>2, <2>3 DEF IInv
<1>5. CASE Serve
  <2>1. PICK m \in wire : CheckThere(m) \/ Apply(m)
    BY <1>5 DEF Serve
  <2>2. (\A d \in Device : Good(d)') /\ Posted' /\ NothingLost'
    BY <2>1, CheckThereKeeps, ApplyKeeps, ApplyLosesNothing DEF IInv
  <2> QED BY <1>1, <2>2 DEF IInv
<1> QED BY <1>2, <1>3, <1>4, <1>5 DEF Next

LEMMA InvGivesUp == IInv => OnlyGivenUpIsDeleted
<1> SUFFICES ASSUME IInv PROVE OnlyGivenUpIsDeleted
  OBVIOUS
<1>1. ASSUME NEW d \in Device, NEW p \in sync[d].todo, sync[d].doing = p, ActOf(d, p) = "deleteHere"
      PROVE  At(notes[d], p) \notin Standing
  BY <1>1, OwnStep, GivenUp DEF IInv
<1>2. \A m \in wire : m.checked \/ At(notes[Hub], m.path) = m.expect =>
                        At(notes[Hub], m.path) \notin Standing
  BY DEF IInv, Posted, Harmless
<1> QED BY <1>1, <1>2 DEF OnlyGivenUpIsDeleted

LEMMA Always == ASSUME Big = {} PROVE Spec => []IInv
<1>1. Init => IInv
  BY InitInv
<1>2. IInv /\ [Next]_vars => IInv'
  BY NextInv
<1> QED BY <1>1, <1>2, PTL DEF Spec

\* As long as no note is too long to be listed: no text that stands is lost, of any
\* number of devices and notes, whatever the syncs that overlap, fail or are carried
\* out late.  What comes between the check of a note and its write is the exception.
THEOREM KeepsEverything == ASSUME Big = {} PROVE Spec => []NothingLost
<1>1. IInv => NothingLost
  BY DEF IInv
<1> QED BY <1>1, Always, PTL

\* Then a sync deletes only what somebody deleted or replaced, or what came between
\* the check of a note and its removal.
THEOREM DeletesGivenUp == ASSUME Big = {} PROVE Spec => []OnlyGivenUpIsDeleted
BY InvGivesUp, Always, PTL

(***************************************************************************)
(* Conflicts are real                                                      *)
(*                                                                         *)
(* A text that a device has, and that is not what it agreed on with the    *)
(* hub, was written at that device: nobody else has it, or a text written  *)
(* over it.  What the hub has is older than the text of a device only if   *)
(* the two agreed on it.  This holds until a sync fails: then what it had  *)
(* taken from the hub looks like the device's own.                         *)
(***************************************************************************)
\* A text and those it was written over.
Line(x) == IF x = None THEN {} ELSE {x} \cup past[x]

\* The note of d, unless it was put aside and is about to be written over.
Mine(d, p) ==
  IF sync[d].doing = p /\ ActIn(sync[d], base[d], p) = "conflict" THEN None ELSE At(notes[d], p)

Hubs(p) == At(notes[Hub], p)

Asking(d, p) == \E m \in wire : m.from = d /\ m.path = p

\* d puts p, or is about to.
Pending(d, p) ==
  p \in DOMAIN sync[d].puts /\ (sync[d].pc = "steps" \/ Asking(d, p))

\* The hub took what d put.
Taken(d, p) ==
  sync[d].pc = "puts" /\ p \in DOMAIN sync[d].puts \ sync[d].stale /\ ~ Asking(d, p)

\* What d and the hub agree on, as far as the sync of d has come.
Known(d, p) ==
  IF sync[d].pc \in {"rest", "listed"} THEN At(base[d], p)
  ELSE IF Taken(d, p) THEN sync[d].puts[p] ELSE At(sync[d].agreed, p)

\* What d has from the hub, and what it has of its own.
Learnt(d, p) == {At(base[d], p), At(sync[d].agreed, p), At(sync[d].fetched, p)}
Own(d, p) == {Mine(d, p), At(sync[d].puts, p)}

\* y is somewhere else than where d has its own of p.
Elsewhere(y, d, p) ==
  \/ \E q \in Path : y = Hubs(q)
  \/ \E e \in Device, q \in Path :
       y \in Learnt(e, q) \/ (y \in Own(e, q) /\ ~ (e = d /\ q = p))

Fresh(x, d, p) == \A y : Elsewhere(y, d, p) => x \notin Line(y)

Has(y, p) == y = Hubs(p) \/ \E e \in Device : y \in Learnt(e, p) \cup Own(e, p)

Newer == \A x \in Text : past[x] \subseteq 1..(x - 1)

OwnIsNew(d) ==
  \A p \in Path :
    /\ \A x : x = Mine(d, p) /\ x # None /\ x # Known(d, p) => Fresh(x, d, p)
    /\ \A x : x = sync[d].puts[p] /\ Pending(d, p) => Fresh(x, d, p)

\* A text that was put aside is not that of the note any more, nor one before it.
CopiesApart ==
  \A p \in Path, q \in Path : Len(q.copies) > Len(p.copies) =>
    \A y : Has(y, p) => Hubs(q) \notin Line(y)

\* The request of a device that waits for it.
Tells(m) ==
  LET S == sync[m.from] IN
  /\ m.live /\ S.pc \in {"puts", "drops"} /\ m.expect = At(S.there, m.path)
  /\ S.pc = "puts" => m.path \in DOMAIN S.puts \ S.stale /\ m.text = S.puts[m.path]
  /\ S.pc = "drops" => m.path \in S.drops /\ m.text = None

Told == \A m \in wire : Tells(m)

\* A device asks once for a note.
Once == \A m \in wire, k \in wire : k.from = m.from /\ k.path = m.path => k = m

Shape(d) ==
  LET S == sync[d] IN
  /\ S.pc \in {"rest", "listed", "puts", "drops"} => S.todo = {}
  /\ S.pc \in {"rest", "listed"} => S.drops = {}
  /\ S.pc \in {"listed", "planned"} => DOMAIN S.fetched = {}
  /\ S.pc \notin {"puts", "drops"} => S.stale = {}
  /\ \A p \in S.drops : ActIn(S, base[d], p) = "deleteThere"
  /\ \A p \in S.todo \cup S.drops : At(S.agreed, p) = At(base[d], p) /\ p \notin DOMAIN S.puts
  /\ S.pc \in {"planned", "steps"} => DOMAIN S.agreed \subseteq Listing(S)

\* What a device finds changed was changed, and what it finds older is agreed on.
Knows(d, p) ==
  LET S == sync[d]
      b == At(base[d], p)
      n == At(notes[d], p) IN
  /\ S.pc = "listed" \/ p \in S.todo => (At(S.here, p) # b /\ n # None => n # b)
  /\ (S.pc = "listed" /\ At(S.here, p) = None) \/ p \in S.drops => b \notin Line(n)
  /\ p \in S.todo /\ At(S.there, p) # b =>
       (Hubs(p) # None => Hubs(p) # b) /\ (p \in DOMAIN S.fetched => S.fetched[p] # b)
  /\ Hubs(p) \in Line(Mine(d, p)) => Hubs(p) = Known(d, p)
  /\ p \in S.todo /\ At(S.fetched, p) \in Line(Mine(d, p)) => At(S.fetched, p) = b
  /\ Hubs(p) \in Line(At(S.fetched, p)) => Hubs(p) = At(S.fetched, p)
  /\ p \in DOMAIN S.puts => (n # None => n # At(S.agreed, p)) /\ n \notin past[S.puts[p]]

Apart ==
  /\ Newer /\ CopiesApart /\ Told /\ Once
  /\ \A d \in Device : OwnIsNew(d) /\ Shape(d) /\ \A p \in Path : Knows(d, p)

AInv == IInv /\ (failed \/ Apart)

\* A conflict is between two texts of which neither was written over the other.
LEMMA ApartConflicts == ASSUME Types, Apart PROVE ConflictsAreReal
<1> SUFFICES ASSUME NEW d \in Device, NEW p \in DOMAIN sync[d].fetched \cap DOMAIN notes[d],
                    sync[d].doing = None, p \in sync[d].todo, ActOf(d, p) = "conflict"
             PROVE  /\ notes[d][p] \notin past[sync[d].fetched[p]]
                    /\ sync[d].fetched[p] \notin past[notes[d][p]]
  BY DEF ConflictsAreReal
<1> DEFINE S == sync[d]
           b == At(base[d], p)
           x == notes[d][p]
           y == S.fetched[p]
<1>1. /\ p \in Path /\ x \in Nat /\ y \in Nat /\ x # None /\ y # None /\ None # p
      /\ S.pc = "planned" \/ S.pc = "steps"
  <2>1. /\ SyncTo(S, base[d], edits) /\ VaultTo(notes[d], edits) /\ edits \in Nat
    BY OwnTypes DEF Types
  <2>2. VaultTo(S.fetched, edits)
    BY <2>1 DEF SyncTo
  <2>3. S.pc \in {"rest", "listed", "planned", "steps", "puts", "drops"}
    BY <2>1 DEF SyncTo
  <2>4. S.pc \in {"rest", "listed", "puts", "drops"} => S.todo = {}
    BY DEF Apart, Shape
  <2> QED BY <2>1, <2>2, <2>3, <2>4, Nobody DEF VaultTo
<1>2. At(S.here, p) # b /\ At(S.there, p) # b
  <2>1. ActIn(S, base[d], p) = "conflict"
    BY DEF ActOf, ActIn
  <2> QED BY <2>1, ActMeans DEF ActIn
<1>3. At(notes[d], p) = x /\ At(S.fetched, p) = y /\ Mine(d, p) = x
  BY <1>1 DEF At, Mine
<1>4. Knows(d, p) /\ OwnIsNew(d) /\ At(S.agreed, p) = b
  BY <1>1 DEF Apart, Shape
<1>5. x # b /\ y # b
  BY <1>1, <1>2, <1>3, <1>4 DEF Knows
<1>6. Known(d, p) = b
  BY <1>1, <1>4 DEF Known, Taken
<1>7. Fresh(x, d, p)
  BY <1>1, <1>3, <1>4, <1>5, <1>6 DEF OwnIsNew
<1>8. Elsewhere(y, d, p)
  BY <1>1, <1>3 DEF Elsewhere, Learnt
<1>9. x \notin past[y]
  BY <1>1, <1>7, <1>8 DEF Fresh, Line
<1>10. y \notin Line(x)
  BY <1>3, <1>4, <1>5 DEF Knows
<1> QED BY <1>1, <1>9, <1>10 DEF Line

(***************************************************************************)
(* What a step of a device leaves apart                                    *)
(***************************************************************************)
\* The requests of the others stay.
Quiet(d) == \A m : m.from # d => (m \in wire' <=> m \in wire)

LEMMA Unmoved ==
  ASSUME Types, NEW d \in Device, Moves(d)
  PROVE  /\ \A x : Line(x)' = Line(x)
         /\ \A p : Hubs(p)' = Hubs(p)
         /\ \A e \in Device \ {d}, p \in Path :
              /\ Learnt(e, p)' = Learnt(e, p) /\ Own(e, p)' = Own(e, p)
              /\ Mine(e, p)' = Mine(e, p)
<1>1. notes'[Hub] = notes[Hub] /\ past' = past
  BY HubAssumption DEF Moves, Vault, history
<1>2. \A e \in Device \ {d} : notes'[e] = notes[e] /\ base'[e] = base[e] /\ sync'[e] = sync[e]
  BY DEF Moves, Vault
<1>3. \A e \in Device \ {d}, p \in Path : Mine(e, p)' = Mine(e, p)
  BY <1>2 DEF Mine
<1>4. \A x : Line(x)' = Line(x)
  BY <1>1 DEF Line
<1>5. \A p : Hubs(p)' = Hubs(p)
  BY <1>1 DEF Hubs
<1>6. \A e \in Device \ {d}, p \in Path : Learnt(e, p)' = Learnt(e, p)
  BY <1>2 DEF Learnt
<1>7. \A e \in Device \ {d}, p \in Path : Own(e, p)' = Own(e, p)
  BY <1>2, <1>3 DEF Own
<1> QED BY <1>3, <1>4, <1>5, <1>6, <1>7

\* What d has after it was somewhere at that note before, or at a note it is a copy of.
Handed(d) ==
  \A r \in Path : \A y \in Learnt(d, r)' \cup Own(d, r)' :
    \/ y = None
    \/ \E q \in Path : /\ Len(q.copies) <= Len(r.copies)
                       /\ y = Hubs(q) \/ y \in Learnt(d, q) \cup Own(d, q)

\* d's own of p stays its own, or becomes its own of q.
LEMMA FreshMoves ==
  ASSUME Types, NEW d \in Device, Moves(d), NEW p \in Path, NEW q \in Path,
         NEW x, Fresh(x, d, p),
         \A r \in Path : \A y \in Learnt(d, r)' :
           y = None \/ Elsewhere(y, d, p) \/ x \notin Line(y),
         \A r \in Path \ {q} : \A y \in Own(d, r)' :
           y = None \/ Elsewhere(y, d, p) \/ x \notin Line(y)
  PROVE  Fresh(x, d, q)'
<1> SUFFICES ASSUME NEW y, Elsewhere(y, d, q)' PROVE x \notin Line(y)'
  BY DEF Fresh
<1>1. /\ Line(y)' = Line(y)
      /\ \A r : Hubs(r)' = Hubs(r)
      /\ \A e \in Device \ {d}, r \in Path :
           Learnt(e, r)' = Learnt(e, r) /\ Own(e, r)' = Own(e, r)
  BY Unmoved
<1>2. y = None => x \notin Line(y)
  BY DEF Line
<1>3. Elsewhere(y, d, p) => x \notin Line(y)
  BY DEF Fresh
<1>4. CASE \E r \in Path : y = Hubs(r)'
  BY <1>1, <1>3, <1>4 DEF Elsewhere
<1>5. CASE \E e \in Device, r \in Path :
             y \in Learnt(e, r)' \/ (y \in Own(e, r)' /\ ~ (e = d /\ r = q))
  <2>1. PICK e \in Device, r \in Path :
          y \in Learnt(e, r)' \/ (y \in Own(e, r)' /\ ~ (e = d /\ r = q))
    BY <1>5
  <2>2. CASE e = d
    BY <1>1, <1>2, <1>3, <2>1, <2>2
  <2>3. CASE e # d
    <3>1. Elsewhere(y, d, p)
      BY <1>1, <2>1, <2>3 DEF Elsewhere
    <3> QED BY <1>1, <1>3, <3>1
  <2> QED BY <2>2, <2>3
<1> QED BY <1>4, <1>5 DEF Elsewhere

LEMMA FreshStays ==
  ASSUME Types, NEW d \in Device, Moves(d), NEW p \in Path, NEW x, Fresh(x, d, p),
         \A r \in Path : \A y \in Learnt(d, r)' :
           y = None \/ Elsewhere(y, d, p) \/ x \notin Line(y),
         \A r \in Path \ {p} : \A y \in Own(d, r)' :
           y = None \/ Elsewhere(y, d, p) \/ x \notin Line(y)
  PROVE  Fresh(x, d, p)'
BY FreshMoves

\* So does what the others have of their own.
LEMMA OthersFresh ==
  ASSUME Types, NEW d \in Device, Moves(d), Handed(d), NEW e \in Device \ {d}, NEW p \in Path,
         NEW x, Fresh(x, e, p)
  PROVE  Fresh(x, e, p)'
<1> SUFFICES ASSUME NEW y, Elsewhere(y, e, p)' PROVE x \notin Line(y)'
  BY DEF Fresh
<1>1. /\ Line(y)' = Line(y)
      /\ \A q : Hubs(q)' = Hubs(q)
      /\ \A c \in Device \ {d}, q \in Path :
           Learnt(c, q)' = Learnt(c, q) /\ Own(c, q)' = Own(c, q)
  BY Unmoved
<1>2. y = None => x \notin Line(y)
  BY DEF Line
<1>3. Elsewhere(y, e, p) => x \notin Line(y)
  BY DEF Fresh
<1>4. CASE \E q \in Path : y = Hubs(q)'
  BY <1>1, <1>3, <1>4 DEF Elsewhere
<1>5. CASE \E c \in Device, q \in Path :
             y \in Learnt(c, q)' \/ (y \in Own(c, q)' /\ ~ (c = e /\ q = p))
  <2>1. PICK c \in Device, q \in Path :
          y \in Learnt(c, q)' \/ (y \in Own(c, q)' /\ ~ (c = e /\ q = p))
    BY <1>5
  <2>2. CASE c = d
    <3>1. y = None \/ \E r \in Path : y = Hubs(r) \/ y \in Learnt(d, r) \cup Own(d, r)
      BY <2>1, <2>2 DEF Handed
    <3>2. y = None \/ Elsewhere(y, e, p)
      BY <3>1 DEF Elsewhere
    <3> QED BY <1>1, <1>2, <1>3, <3>2
  <2>3. CASE c # d
    <3>1. Elsewhere(y, e, p)
      BY <1>1, <2>1, <2>3 DEF Elsewhere
    <3> QED BY <1>1, <1>3, <3>1
  <2> QED BY <2>2, <2>3
<1> QED BY <1>4, <1>5 DEF Elsewhere

LEMMA CopiesStay ==
  ASSUME Types, NEW d \in Device, Moves(d), Handed(d), CopiesApart
  PROVE  CopiesApart'
<1> SUFFICES ASSUME NEW p \in Path, NEW q \in Path, Len(q.copies) > Len(p.copies),
                    NEW y, Has(y, p)'
             PROVE  Hubs(q)' \notin Line(y)'
  BY DEF CopiesApart
<1>1. /\ Line(y)' = Line(y) /\ Hubs(q)' = Hubs(q) /\ Hubs(p)' = Hubs(p)
      /\ \A c \in Device \ {d} : Learnt(c, p)' = Learnt(c, p) /\ Own(c, p)' = Own(c, p)
  BY Unmoved
<1>2. y = None => Hubs(q) \notin Line(y)
  BY DEF Line
<1>3. \A r \in Path : Len(r.copies) <= Len(p.copies) /\ Has(y, r) => Hubs(q) \notin Line(y)
  <2>1. \A r \in Path : Len(r.copies) \in Nat
    BY LenProperties DEF Path
  <2>2. \A r \in Path : Len(r.copies) <= Len(p.copies) => Len(q.copies) > Len(r.copies)
    BY <2>1
  <2> QED BY <2>2 DEF CopiesApart
<1>4. Len(p.copies) <= Len(p.copies)
  BY LenProperties DEF Path
<1>5. CASE y = Hubs(p)'
  BY <1>1, <1>3, <1>4, <1>5 DEF Has
<1>6. ASSUME NEW c \in Device, y \in Learnt(c, p)' \cup Own(c, p)' PROVE Hubs(q) \notin Line(y)
  <2>1. CASE c = d
    <3>1. \/ y = None
          \/ \E r \in Path : /\ Len(r.copies) <= Len(p.copies)
                             /\ y = Hubs(r) \/ y \in Learnt(d, r) \cup Own(d, r)
      BY <1>6, <2>1 DEF Handed
    <3> QED BY <1>2, <1>3, <3>1 DEF Has
  <2>2. CASE c # d
    BY <1>1, <1>3, <1>4, <1>6, <2>2 DEF Has
  <2> QED BY <2>1, <2>2
<1> QED BY <1>1, <1>5, <1>6 DEF Has

\* What a step of d has to show.
LEMMA ApartTogether ==
  ASSUME Types, Apart, NEW d \in Device, Moves(d), Quiet(d), Handed(d),
         OwnIsNew(d)', Shape(d)', \A p \in Path : Knows(d, p)',
         \A m \in wire' : m.from = d => Tells(m)',
         wire' = wire \/ \A m \in wire', k \in wire' :
                          m.from = d /\ k.from = d /\ k.path = m.path => k = m
  PROVE  Apart'
<1>1. Newer'
  BY DEF Apart, Newer, Moves, history
<1>2. CopiesApart'
  BY CopiesStay DEF Apart
<1>3. \A e \in Device \ {d} : notes'[e] = notes[e] /\ base'[e] = base[e] /\ sync'[e] = sync[e]
  BY DEF Moves, Vault
<1>4. Told'
  <2> SUFFICES ASSUME NEW m \in wire', m.from # d PROVE Tells(m)'
    BY DEF Told
  <2>1. m \in wire /\ m.from \in Device
    BY DEF Quiet, Types, WireTo
  <2>2. sync'[m.from] = sync[m.from]
    BY <1>3, <2>1
  <2> QED BY <2>1, <2>2 DEF Told, Tells, Apart
<1>6. Once'
  <2> SUFFICES ASSUME NEW m \in wire', NEW k \in wire', k.from = m.from, k.path = m.path
               PROVE  k = m
    BY DEF Once
  <2>1. CASE m.from # d
    <3>1. m \in wire /\ k \in wire
      BY <2>1 DEF Quiet
    <3> QED BY <3>1 DEF Apart, Once
  <2>2. CASE m.from = d
    BY <2>2 DEF Apart, Once
  <2> QED BY <2>1, <2>2
<1>5. ASSUME NEW e \in Device \ {d} PROVE OwnIsNew(e)' /\ Shape(e)' /\ \A p \in Path : Knows(e, p)'
  <2>1. \A p \in Path : Asking(e, p)' <=> Asking(e, p)
    BY DEF Asking, Quiet
  <2>2. \A p \in Path : (Pending(e, p)' <=> Pending(e, p)) /\ (Taken(e, p)' <=> Taken(e, p))
    BY <1>3, <2>1 DEF Pending, Taken
  <2>3. \A p \in Path : Known(e, p)' = Known(e, p)
    BY <1>3, <2>2 DEF Known
  <2>4. \A p \in Path : Mine(e, p)' = Mine(e, p)
    BY Unmoved
  <2>5. \A x, p : p \in Path /\ Fresh(x, e, p) => Fresh(x, e, p)'
    BY OthersFresh
  <2>6. OwnIsNew(e)'
    <3>1. OwnIsNew(e)
      BY DEF Apart
    <3>2. sync'[e] = sync[e]
      BY <1>3
    <3> QED BY <2>2, <2>3, <2>4, <2>5, <3>1, <3>2 DEF OwnIsNew
  <2>7. Shape(e)'
    BY <1>3 DEF Apart, Shape
  <2>8. past' = past /\ \A p : Hubs(p)' = Hubs(p) /\ Line(p)' = Line(p)
    BY Unmoved DEF Moves, history
  <2>9. ASSUME NEW p \in Path PROVE Knows(e, p)'
    <3>1. Knows(e, p)
      BY DEF Apart
    <3> QED BY <1>3, <2>3, <2>4, <2>8, <3>1 DEF Knows
  <2> QED BY <2>6, <2>7, <2>9
<1> QED BY <1>1, <1>2, <1>4, <1>5, <1>6 DEF Apart

LEMMA IsElsewhere ==
  ASSUME NEW d \in Device, NEW p, NEW r \in Path, NEW y
  PROVE  /\ y = Hubs(r) => Elsewhere(y, d, p)
         /\ y \in Learnt(d, r) => Elsewhere(y, d, p)
         /\ r # p /\ y \in Own(d, r) => Elsewhere(y, d, p)
BY DEF Elsewhere

\* d has nothing at r that it had not.
LEMMA HandedAt ==
  ASSUME NEW r \in Path, NEW y, NEW d \in Device,
         y = None \/ y = Hubs(r) \/ y \in Learnt(d, r) \cup Own(d, r)
  PROVE  \/ y = None
         \/ \E q \in Path : /\ Len(q.copies) <= Len(r.copies)
                            /\ y = Hubs(q) \/ y \in Learnt(d, q) \cup Own(d, q)
<1>1. Len(r.copies) \in Nat
  BY LenProperties DEF Path
<1> QED BY <1>1

(***************************************************************************)
(* The steps of a plan keep apart                                          *)
(***************************************************************************)
\* A step of a plan: it ends what it does to a note, here or in what will be sent.
Goes(d) ==
  LET S == sync[d]
      X == sync'[d] IN
  /\ Moves(d) /\ wire' = wire /\ base' = base
  /\ S.pc = "steps" /\ X.pc = "steps"
  /\ X.here = S.here /\ X.there = S.there /\ X.fetched = S.fetched
  /\ X.drops = S.drops /\ X.stale = S.stale
  /\ X.todo \subseteq S.todo

LEMMA KnownSteps ==
  ASSUME NEW d, NEW p, sync[d].pc = "steps"
  PROVE  Known(d, p) = At(sync[d].agreed, p)
BY DEF Known, Taken

LEMMA Going ==
  ASSUME Types, Apart, NEW d \in Device, Goes(d), Handed(d),
         DOMAIN sync'[d].agreed \subseteq Listing(sync[d]),
         \A q \in sync'[d].todo \cup sync[d].drops :
           /\ At(notes'[d], q) = At(notes[d], q)
           /\ At(sync'[d].agreed, q) = At(sync[d].agreed, q) /\ q \notin DOMAIN sync'[d].puts,
         \A q \in sync'[d].todo : Mine(d, q)' \in {Mine(d, q), None},
         \A q \in Path : \A x : x = Mine(d, q)' =>
           /\ Hubs(q) \in Line(x) => Hubs(q) = At(sync'[d].agreed, q)
           /\ x # None /\ x # At(sync'[d].agreed, q) => Fresh(x, d, q)',
         \A q \in DOMAIN sync'[d].puts :
           /\ At(notes'[d], q) # None => At(notes'[d], q) # At(sync'[d].agreed, q)
           /\ At(notes'[d], q) \notin past[sync'[d].puts[q]]
           /\ \A x : x = sync'[d].puts[q] => Fresh(x, d, q)'
  PROVE  Apart'
<1> DEFINE S == sync[d]
           X == sync'[d]
<1>1. /\ Moves(d) /\ wire' = wire /\ base' = base /\ base'[d] = base[d] /\ past' = past
      /\ S.pc = "steps" /\ X.pc = "steps"
      /\ X.here = S.here /\ X.there = S.there /\ X.fetched = S.fetched
      /\ X.drops = S.drops /\ X.stale = S.stale /\ X.todo \subseteq S.todo
  BY DEF Goes, Moves, history
<1>2. (\A x : Line(x)' = Line(x)) /\ \A q : Hubs(q)' = Hubs(q)
  BY <1>1, Unmoved
<1>3. Shape(d) /\ Told
  BY DEF Apart
<1>4. \A m \in wire : m.from # d
  BY <1>1, <1>3 DEF Told, Tells
<1>5. \A q : Known(d, q)' = At(X.agreed, q)
  BY <1>1 DEF Known, Taken
<1>6. Shape(d)'
  <2>1. \A q : ActIn(X, base'[d], q) = ActIn(S, base[d], q)
    BY <1>1 DEF ActIn
  <2>2. Listing(X) = Listing(S)
    BY <1>1 DEF Listing
  <2>3. \A q \in X.todo \cup X.drops : At(X.agreed, q) = At(base'[d], q) /\ q \notin DOMAIN X.puts
    BY <1>1, <1>3 DEF Shape
  <2>4. S.stale = {} /\ \A q \in S.drops : ActIn(S, base[d], q) = "deleteThere"
    BY <1>1, <1>3 DEF Shape
  <2> HIDE DEF S
  <2>5. X.stale = {} /\ \A q \in X.drops : ActIn(X, base'[d], q) = "deleteThere"
    BY <1>1, <2>1, <2>4
  <2>6. DOMAIN X.agreed \subseteq Listing(X)
    BY <2>2 DEF S
  <2> QED BY <1>1, <2>3, <2>5, <2>6 DEF Shape
<1>7. OwnIsNew(d)'
  BY <1>5 DEF OwnIsNew, Pending
<1>8. ASSUME NEW q \in Path PROVE Knows(d, q)'
  <2> DEFINE b == At(base[d], q)
  <2>1. Knows(d, q)
    BY DEF Apart
  <2>2. PICK n : n = At(notes'[d], q)
    OBVIOUS
  <2>3. PICK x : x = Mine(d, q)'
    OBVIOUS
  <2>4. q \in X.todo \/ q \in X.drops => n = At(notes[d], q)
    BY <1>1, <2>2
  <2>5. q \in X.todo => q \in S.todo /\ x \in {Mine(d, q), None}
    BY <1>1, <2>3
  <2>6. q \in X.todo => (At(X.here, q) # b /\ n # None => n # b)
    BY <1>1, <2>1, <2>4, <2>5 DEF Knows
  <2>7. q \in X.drops => b \notin Line(n)
    BY <1>1, <2>1, <2>4 DEF Knows
  <2>8. q \in X.todo /\ At(X.there, q) # b =>
          (Hubs(q) # None => Hubs(q) # b) /\ (q \in DOMAIN X.fetched => X.fetched[q] # b)
    BY <1>1, <2>1, <2>5 DEF Knows
  <2>9. Hubs(q) \in Line(x) => Hubs(q) = At(X.agreed, q)
    BY <2>3
  <2>10. q \in X.todo /\ At(X.fetched, q) \in Line(x) => At(X.fetched, q) = b
    <3>1. Line(None) = {}
      BY DEF Line
    <3> QED BY <1>1, <2>1, <2>5, <3>1 DEF Knows
  <2>11. Hubs(q) \in Line(At(S.fetched, q)) => Hubs(q) = At(S.fetched, q)
    BY <2>1 DEF Knows
  <2>12. q \in DOMAIN X.puts => (n # None => n # At(X.agreed, q)) /\ n \notin past[X.puts[q]]
    BY <2>2
  <2>13. PICK f : f = At(X.fetched, q)
    OBVIOUS
  <2>14. Hubs(q) \in Line(f) => Hubs(q) = f
    BY <1>1, <2>11, <2>13
  <2>15. base'[d] = base[d] /\ past' = past /\ X.pc = "steps"
    BY <1>1
  <2> QED BY <1>2, <1>5, <2>2, <2>3, <2>6, <2>7, <2>8, <2>9, <2>10, <2>12, <2>13, <2>14, <2>15
          DEF Knows
<1> QED BY <1>1, <1>4, <1>6, <1>7, <1>8, ApartTogether DEF Quiet

\* What a step of a plan starts from.
LEMMA StartsApart ==
  ASSUME Types, Apart, NEW d \in Device, sync[d].pc = "steps"
  PROVE  /\ DOMAIN sync[d].agreed \subseteq Listing(sync[d])
         /\ Listing(sync[d]) \subseteq Path
         /\ sync[d].todo \subseteq Path /\ sync[d].drops \subseteq Path
         /\ DOMAIN sync[d].puts \subseteq Path /\ DOMAIN sync[d] = Fields
         /\ \A q \in sync[d].todo \cup sync[d].drops :
              At(sync[d].agreed, q) = At(base[d], q) /\ q \notin DOMAIN sync[d].puts
         /\ \A q \in sync[d].drops : ActIn(sync[d], base[d], q) = "deleteThere"
         /\ \A q \in Path : \A x : x = Mine(d, q) =>
              /\ Hubs(q) \in Line(x) => Hubs(q) = At(sync[d].agreed, q)
              /\ x # None /\ x # At(sync[d].agreed, q) => Fresh(x, d, q)
         /\ \A q \in DOMAIN sync[d].puts :
              /\ At(notes[d], q) # None => At(notes[d], q) # At(sync[d].agreed, q)
              /\ At(notes[d], q) \notin past[sync[d].puts[q]]
              /\ \A x : x = sync[d].puts[q] => Fresh(x, d, q)
<1> DEFINE S == sync[d]
<1>1. /\ SyncTo(S, base[d], edits) /\ Shape(d) /\ OwnIsNew(d) /\ \A q \in Path : Knows(d, q)
  BY OwnTypes DEF Apart
<1>2. /\ Listing(S) \subseteq Path /\ DOMAIN S.puts \subseteq Path
      /\ S.todo \subseteq Path /\ S.drops \subseteq Path /\ DOMAIN S = Fields
  BY <1>1 DEF SyncTo, VaultTo, Listing
<1>3. \A q : Known(d, q) = At(S.agreed, q)
  BY KnownSteps
<1>4. \A q \in DOMAIN S.puts : Pending(d, q)
  BY DEF Pending
<1>5. \A q \in Path : \A x : x = Mine(d, q) =>
        /\ Hubs(q) \in Line(x) => Hubs(q) = At(S.agreed, q)
        /\ x # None /\ x # At(S.agreed, q) => Fresh(x, d, q)
  BY <1>1, <1>3 DEF Knows, OwnIsNew
<1>6. \A q \in DOMAIN S.puts :
        /\ At(notes[d], q) # None => At(notes[d], q) # At(S.agreed, q)
        /\ At(notes[d], q) \notin past[S.puts[q]]
        /\ \A x : x = S.puts[q] => Fresh(x, d, q)
  BY <1>1, <1>2, <1>4 DEF Knows, OwnIsNew
<1> QED BY <1>1, <1>2, <1>5, <1>6 DEF Shape

\* To pass over a note, or to set about it, changes nothing.
LEMMA IdleApart ==
  ASSUME Types, Apart, NEW d \in Device, Goes(d), notes' = notes,
         sync'[d].agreed = sync[d].agreed, sync'[d].puts = sync[d].puts, sync[d].doing = None,
         sync'[d].doing # None => ActIn(sync[d], base[d], sync'[d].doing) # "conflict"
  PROVE  Apart'
<1> DEFINE S == sync[d]
           X == sync'[d]
<1>1. /\ Moves(d) /\ base'[d] = base[d] /\ S.pc = "steps" /\ X.todo \subseteq S.todo
      /\ X.here = S.here /\ X.there = S.there /\ X.fetched = S.fetched
  BY DEF Goes
<1>2. \A q \in Path : Mine(d, q)' = Mine(d, q)
  <2>1. \A q : ActIn(X, base'[d], q) = ActIn(S, base[d], q)
    BY <1>1 DEF ActIn
  <2>2. None \notin Path
    BY Nobody
  <2> QED BY <2>1, <2>2 DEF Mine
<1>3. \A q \in Path : Learnt(d, q)' = Learnt(d, q) /\ Own(d, q)' = Own(d, q)
  BY <1>1, <1>2 DEF Learnt, Own
<1>4. Handed(d)
  <2> SUFFICES ASSUME NEW r \in Path, NEW y \in Learnt(d, r) \cup Own(d, r)
               PROVE  \E q \in Path : /\ Len(q.copies) <= Len(r.copies)
                                      /\ y = Hubs(q) \/ y \in Learnt(d, q) \cup Own(d, q)
    BY <1>3 DEF Handed
  <2>1. Len(r.copies) \in Nat
    BY LenProperties DEF Path
  <2> QED BY <2>1
<1>5. ASSUME NEW q \in Path, NEW x, Fresh(x, d, q) PROVE Fresh(x, d, q)'
  BY <1>1, <1>3, <1>5, FreshStays, IsElsewhere
<1>6. ASSUME NEW q \in Path, NEW x, x = Mine(d, q)'
      PROVE  /\ Hubs(q) \in Line(x) => Hubs(q) = At(X.agreed, q)
             /\ x # None /\ x # At(X.agreed, q) => Fresh(x, d, q)'
  BY <1>1, <1>2, <1>5, <1>6, StartsApart
<1>7. ASSUME NEW q \in DOMAIN X.puts
      PROVE  /\ At(notes'[d], q) # None => At(notes'[d], q) # At(X.agreed, q)
             /\ At(notes'[d], q) \notin past[X.puts[q]]
             /\ \A x : x = X.puts[q] => Fresh(x, d, q)'
  <2>1. q \in DOMAIN S.puts /\ q \in Path
    BY <1>1, StartsApart
  <2> QED BY <1>1, <1>5, <2>1, StartsApart
<1>8. \A q \in X.todo \cup S.drops :
        At(X.agreed, q) = At(S.agreed, q) /\ q \notin DOMAIN X.puts
  BY <1>1, StartsApart
<1>9. \A q \in X.todo : Mine(d, q)' \in {Mine(d, q), None}
  BY <1>1, <1>2, StartsApart
<1>10. DOMAIN X.agreed \subseteq Listing(S)
  BY <1>1, StartsApart
<1> QED BY <1>4, <1>6, <1>7, <1>8, <1>9, <1>10, Going

\* What comes of S in a step for p.
LEMMA StepGoes ==
  ASSUME Types, NEW d \in Device, NEW X, Set(d, X), wire' = wire, base' = base,
         UNCHANGED <<edits, history>>, notes' = notes \/ (\E n : notes' = [notes EXCEPT ![d] = n]),
         sync[d].pc = "steps", X.pc = "steps",
         X.here = sync[d].here, X.there = sync[d].there, X.fetched = sync[d].fetched,
         X.drops = sync[d].drops, X.stale = sync[d].stale, X.todo \subseteq sync[d].todo
  PROVE  Goes(d) /\ sync'[d] = X
<1>1. Moves(d) /\ sync'[d] = X
  BY StepMoves
<1> QED BY <1>1 DEF Goes

LEMMA DoneStale == ASSUME NEW S, NEW p, DOMAIN S = Fields PROVE Done(S, p).stale = S.stale
BY DEF Done, Fields

LEMMA PassApart ==
  ASSUME Types, Apart, NEW d \in Device, NEW p \in sync[d].todo, ~ failed',
         CheckHere(d, p) \/ ConflictGone(d, p) \/ (Push(d, p) /\ p \notin DOMAIN notes[d])
  PROVE  Apart'
<1> DEFINE S == sync[d]
           Y == [S EXCEPT !.doing = p]
<1>1. /\ S.pc = "steps" /\ S.doing = None /\ UNCHANGED <<notes, base, wire, edits, history>>
      /\ Set(d, Done(S, p)) \/ (Set(d, Y) /\ ActIn(S, base[d], p) # "conflict")
  BY DEF CheckHere, ConflictGone, Push, Stepping, ActOf, ActIn
<1>2. DOMAIN S = Fields
  BY OwnTypes DEF SyncTo
<1>3. /\ Y.pc = S.pc /\ Y.here = S.here /\ Y.there = S.there /\ Y.fetched = S.fetched
      /\ Y.agreed = S.agreed /\ Y.puts = S.puts /\ Y.drops = S.drops /\ Y.stale = S.stale
      /\ Y.todo = S.todo /\ Y.doing = p
  BY <1>2 DEF Fields
<1> HIDE DEF Y
<1>4. PICK X \in {Done(S, p), Y} : Set(d, X) /\ (X = Y => ActIn(S, base[d], p) # "conflict" \/ Y = Done(S, p))
  BY <1>1
<1>5. /\ X.pc = S.pc /\ X.here = S.here /\ X.there = S.there /\ X.fetched = S.fetched
      /\ X.agreed = S.agreed /\ X.puts = S.puts /\ X.drops = S.drops /\ X.stale = S.stale
      /\ X.todo \subseteq S.todo
      /\ X.doing = None \/ (X.doing = p /\ ActIn(S, base[d], p) # "conflict")
  BY <1>2, <1>3, <1>4, DoneIs, DoneStale
<1>6. Goes(d) /\ sync'[d] = X
  BY <1>1, <1>4, <1>5, StepGoes
<1> QED BY <1>1, <1>5, <1>6, IdleApart

\* The fields of a step that is done with p and agrees on f.
LEMMA AgreedHere ==
  ASSUME Types, NEW d \in Device, NEW p, NEW f, NEW n,
         Set(d, [Done(sync[d], p) EXCEPT !.agreed = f]), notes' = [notes EXCEPT ![d] = n],
         UNCHANGED <<base, wire, edits, history>>, sync[d].pc = "steps"
  PROVE  /\ Goes(d) /\ notes'[d] = n /\ base'[d] = base[d]
         /\ sync'[d].agreed = f /\ sync'[d].puts = sync[d].puts
         /\ sync'[d].todo = sync[d].todo \ {p} /\ sync'[d].doing = None
<1> DEFINE S == sync[d]
           R == Done(S, p)
           X == [R EXCEPT !.agreed = f]
<1>1. DOMAIN S = Fields /\ DOMAIN R = Fields
  BY OwnTypes, DoneIs DEF SyncTo
<1>2. /\ X.pc = S.pc /\ X.here = S.here /\ X.there = S.there /\ X.fetched = S.fetched
      /\ X.agreed = f /\ X.puts = S.puts /\ X.drops = S.drops
      /\ X.todo = S.todo \ {p} /\ X.doing = None
  BY <1>1, AgreedIs
<1>3. R.stale = S.stale
  BY <1>1, DoneStale
<1> HIDE DEF R
<1>4. X.stale = R.stale
  BY <1>1 DEF Fields
<1>5. Set(d, X)
  BY DEF R
<1> HIDE DEF X
<1>6. Goes(d) /\ sync'[d] = X
  BY <1>2, <1>3, <1>4, <1>5, StepGoes
<1>7. notes'[d] = n /\ base'[d] = base[d]
  BY DEF Types, Vault
<1> QED BY <1>2, <1>6, <1>7

\* A text of the hub, or none, takes the place of the note, and is agreed on.
LEMMA LandApart ==
  ASSUME Types, Apart, NEW d \in Device, NEW p \in sync[d].todo, NEW f, NEW n, NEW x,
         sync[d].pc = "steps", sync[d].doing = p,
         ActIn(sync[d], base[d], p) # "deleteThere",
         x = None \/ x = At(sync[d].fetched, p),
         Set(d, [Done(sync[d], p) EXCEPT !.agreed = f]), notes' = [notes EXCEPT ![d] = n],
         UNCHANGED <<base, wire, edits, history>>,
         At(n, p) = x, \A q : q # p => At(n, q) = At(notes[d], q),
         At(f, p) = x, \A q : q # p => At(f, q) = At(sync[d].agreed, q),
         DOMAIN f \subseteq DOMAIN sync[d].agreed \cup {p}
  PROVE  Apart'
<1> DEFINE S == sync[d]
<1>1. p \in Path /\ p \in Listing(S) /\ DOMAIN S = Fields
  BY OwnTypes, StartsApart DEF SyncTo, Listing
<1>4. /\ Goes(d) /\ notes'[d] = n /\ base'[d] = base[d]
      /\ sync'[d].agreed = f /\ sync'[d].puts = S.puts
      /\ sync'[d].todo = S.todo \ {p} /\ sync'[d].doing = None
  BY AgreedHere
<1>6. sync'[d].fetched = S.fetched
  BY <1>4 DEF Goes
<1>7. \A q \in Path : q # p => Mine(d, q) = At(notes[d], q)
  BY <1>1 DEF Mine
<1>8. \A q \in Path : Mine(d, q)' = At(n, q)
  BY <1>4, Nobody DEF Mine
<1>9. \A q \in Path \ {p} : Learnt(d, q)' = Learnt(d, q) /\ Own(d, q)' = Own(d, q)
  BY <1>4, <1>6, <1>7, <1>8 DEF Learnt, Own
<1>10. /\ Learnt(d, p)' \subseteq Learnt(d, p) \cup {None}
       /\ Own(d, p)' \subseteq Learnt(d, p) \cup Own(d, p) \cup {None}
  BY <1>1, <1>4, <1>6, <1>8 DEF Learnt, Own
<1>11. Handed(d)
  <2> SUFFICES ASSUME NEW r \in Path, NEW y \in Learnt(d, r)' \cup Own(d, r)'
               PROVE  \/ y = None
                      \/ \E q \in Path : /\ Len(q.copies) <= Len(r.copies)
                                         /\ y = Hubs(q) \/ y \in Learnt(d, q) \cup Own(d, q)
    BY DEF Handed
  <2>1. y = None \/ y \in Learnt(d, r) \cup Own(d, r)
    BY <1>9, <1>10
  <2> QED BY <2>1, HandedAt
<1>12. ASSUME NEW q \in Path, NEW z, Fresh(z, d, q) PROVE Fresh(z, d, q)'
  <2>1. \A r \in Path : \A y \in Learnt(d, r)' : y = None \/ Elsewhere(y, d, q)
    BY <1>9, <1>10, IsElsewhere
  <2>2. \A r \in Path \ {q} : \A y \in Own(d, r)' : y = None \/ Elsewhere(y, d, q)
    BY <1>9, <1>10, IsElsewhere
  <2> QED BY <1>4, <1>12, <2>1, <2>2, FreshStays DEF Goes
<1>13. ASSUME NEW q \in Path, NEW z, z = Mine(d, q)'
       PROVE  /\ Hubs(q) \in Line(z) => Hubs(q) = At(f, q)
              /\ z # None /\ z # At(f, q) => Fresh(z, d, q)'
  <2>1. CASE q = p
    <3>1. z = x /\ At(f, q) = x
      BY <1>8, <1>13, <2>1
    <3>2. Knows(d, p)
      BY <1>1 DEF Apart
    <3>3. Hubs(p) \in Line(x) => Hubs(p) = x
      <4>1. Hubs(p) \in Line(At(S.fetched, p)) => Hubs(p) = At(S.fetched, p)
        BY <3>2 DEF Knows
      <4> QED BY <4>1 DEF Line
    <3> QED BY <2>1, <3>1, <3>3
  <2>2. CASE q # p
    <3>1. z = Mine(d, q) /\ At(f, q) = At(S.agreed, q)
      BY <1>7, <1>8, <1>13, <2>2
    <3> QED BY <1>1, <1>12, <3>1, StartsApart
  <2> QED BY <2>1, <2>2
<1>14. p \notin DOMAIN S.puts /\ p \notin S.drops
  BY <1>1, StartsApart
<1>15. ASSUME NEW q \in DOMAIN S.puts
       PROVE  /\ At(n, q) # None => At(n, q) # At(f, q)
              /\ At(n, q) \notin past[S.puts[q]]
              /\ \A z : z = S.puts[q] => Fresh(z, d, q)'
  <2>1. q \in Path /\ q # p
    BY <1>1, <1>14, StartsApart
  <2>2. At(n, q) = At(notes[d], q) /\ At(f, q) = At(S.agreed, q)
    BY <2>1
  <2> QED BY <1>1, <1>12, <2>1, <2>2, StartsApart
<1>16. \A q \in (S.todo \ {p}) \cup S.drops :
         /\ At(n, q) = At(notes[d], q) /\ At(f, q) = At(S.agreed, q) /\ q \notin DOMAIN S.puts
  BY <1>1, <1>14, StartsApart
<1>17. \A q \in S.todo \ {p} : Mine(d, q)' \in {Mine(d, q), None}
  BY <1>1, <1>7, <1>8, StartsApart
<1>18. DOMAIN f \subseteq Listing(S)
  BY <1>1, StartsApart
<1> QED BY <1>4, <1>11, <1>13, <1>15, <1>16, <1>17, <1>18, Going

LEMMA TakeApart ==
  ASSUME Types, Apart, NEW d \in Device, NEW p \in sync[d].todo, Good(d),
         Pull(d, p) \/ TakeTheirs(d, p)
  PROVE  Apart'
<1> DEFINE S == sync[d]
<1>1. /\ S.pc = "steps" /\ S.doing = p /\ ActIn(S, base[d], p) \in {"pull", "conflict"}
      /\ DOMAIN S = Fields /\ p \in DOMAIN S.fetched
  BY OwnStep, DoingTypes DEF Pull, TakeTheirs
<1>2. PICK x : x = S.fetched[p]
  OBVIOUS
<1>3. PICK f : f = With(S.agreed, p, x)
  OBVIOUS
<1>4. PICK n : n = With(notes[d], p, x)
  OBVIOUS
<1>5. PICK R : R = Done(S, p)
  OBVIOUS
<1>6. R.agreed = S.agreed
  BY <1>1, <1>5, DoneIs
<1>7. /\ Set(d, [R EXCEPT !.agreed = With(@, p, x)]) /\ notes' = [notes EXCEPT ![d] = n]
      /\ UNCHANGED <<base, wire, edits, history>>
  BY <1>2, <1>4, <1>5 DEF Pull, TakeTheirs
<1>8. Set(d, [R EXCEPT !.agreed = f])
  BY <1>3, <1>6, <1>7
<1>9. /\ At(n, p) = x /\ \A q : q # p => At(n, q) = At(notes[d], q)
      /\ At(f, p) = x /\ \A q : q # p => At(f, q) = At(S.agreed, q)
      /\ DOMAIN f = DOMAIN S.agreed \cup {p}
  <2> HIDE DEF S
  <2> QED BY <1>3, <1>4 DEF With, At
<1>10. x = At(S.fetched, p)
  BY <1>1, <1>2 DEF At
<1> QED BY <1>1, <1>5, <1>7, <1>8, <1>9, <1>10, LandApart

LEMMA DeleteHereApart ==
  ASSUME Types, Apart, NEW d \in Device, NEW p \in sync[d].todo, Good(d), DeleteHere(d, p)
  PROVE  Apart'
<1> DEFINE S == sync[d]
<1>1. S.pc = "steps" /\ S.doing = p /\ ActIn(S, base[d], p) = "deleteHere" /\ DOMAIN S = Fields
  BY OwnStep DEF DeleteHere
<1>2. PICK x : x = None
  OBVIOUS
<1>3. PICK f : f = Without(S.agreed, p)
  OBVIOUS
<1>4. PICK n : n = Without(notes[d], p)
  OBVIOUS
<1>5. PICK R : R = Done(S, p)
  OBVIOUS
<1>6. R.agreed = S.agreed
  BY <1>1, <1>5, DoneIs
<1>7. /\ Set(d, [R EXCEPT !.agreed = Without(@, p)]) /\ notes' = [notes EXCEPT ![d] = n]
      /\ UNCHANGED <<base, wire, edits, history>>
  BY <1>4, <1>5 DEF DeleteHere
<1>8. Set(d, [R EXCEPT !.agreed = f])
  BY <1>3, <1>6, <1>7
<1>9. /\ At(n, p) = x /\ \A q : q # p => At(n, q) = At(notes[d], q)
      /\ At(f, p) = x /\ \A q : q # p => At(f, q) = At(S.agreed, q)
      /\ DOMAIN f \subseteq DOMAIN S.agreed
  <2> HIDE DEF S
  <2> QED BY <1>2, <1>3, <1>4 DEF Without, Restrict, At
<1> QED BY <1>1, <1>2, <1>5, <1>7, <1>8, <1>9, LandApart

\* A text was not written over itself.
LEMMA NotBefore ==
  ASSUME Types, Apart, NEW x \in 1..edits PROVE x \notin past[x]
<1>1. edits \in Nat /\ x \in Text
  BY BoundAssumption DEF Types, Text
<1>2. past[x] \subseteq 1..(x - 1)
  BY <1>1 DEF Apart, Newer
<1> QED BY <1>1, <1>2

\* To send a note changes nothing here.
LEMMA PushApart ==
  ASSUME Types, Apart, NEW d \in Device, NEW p \in sync[d].todo, Push(d, p),
         p \in DOMAIN notes[d]
  PROVE  Apart'
<1> DEFINE S == sync[d]
           n == notes[d]
<1>1. /\ S.pc = "steps" /\ S.doing = None /\ ActIn(S, base[d], p) = "push"
      /\ UNCHANGED <<notes, base, wire, edits, history>>
  BY DEF Push, Stepping, ActOf, ActIn
<1>2. DOMAIN S = Fields /\ VaultTo(n, edits)
  BY OwnTypes DEF SyncTo
<1>3. PICK x : x = n[p]
  OBVIOUS
<1>4. PICK f : f = With(S.puts, p, x)
  OBVIOUS
<1>5. /\ Goes(d) /\ sync'[d].agreed = S.agreed /\ sync'[d].puts = f
      /\ sync'[d].todo = S.todo \ {p} /\ sync'[d].doing = None /\ sync'[d].fetched = S.fetched
  <2>1. PICK R : R = Done(S, p)
    OBVIOUS
  <2>2. /\ R.pc = S.pc /\ R.here = S.here /\ R.there = S.there /\ R.fetched = S.fetched
        /\ R.agreed = S.agreed /\ R.puts = S.puts /\ R.drops = S.drops /\ R.stale = S.stale
        /\ R.todo = S.todo \ {p} /\ R.doing = None /\ DOMAIN R = Fields
    BY <1>2, <2>1, DoneIs, DoneStale
  <2>3. Set(d, [R EXCEPT !.puts = With(@, p, x)])
    BY <1>3, <2>1 DEF Push
  <2>4. PICK X : X = [R EXCEPT !.puts = f]
    OBVIOUS
  <2>5. Set(d, X)
    BY <1>4, <2>2, <2>3, <2>4
  <2>6. /\ X.pc = R.pc /\ X.here = R.here /\ X.there = R.there /\ X.fetched = R.fetched
        /\ X.agreed = R.agreed /\ X.puts = f /\ X.drops = R.drops /\ X.stale = R.stale
        /\ X.todo = R.todo /\ X.doing = R.doing
    BY <2>2, <2>4 DEF Fields
  <2>7. Goes(d) /\ sync'[d] = X
    BY <1>1, <2>2, <2>5, <2>6, StepGoes
  <2> QED BY <2>2, <2>6, <2>7
<1>6. At(f, p) = x /\ f[p] = x /\ DOMAIN f = DOMAIN S.puts \cup {p}
      /\ \A q : q # p => At(f, q) = At(S.puts, q) /\ (q \in DOMAIN f => f[q] = S.puts[q])
  <2> HIDE DEF S
  <2> QED BY <1>4 DEF With, At
<1>7. At(n, p) = x /\ p \in Path /\ x \in 1..edits
  BY <1>1, <1>2, <1>3, StartsApart DEF At, VaultTo
<1>8. \A q \in Path : Mine(d, q)' = Mine(d, q) /\ Mine(d, q) = At(n, q)
  BY <1>1, <1>5, Nobody DEF Mine
<1>9. \A q \in Path : Learnt(d, q)' = Learnt(d, q)
  BY <1>1, <1>5 DEF Learnt
<1>10. \A q \in Path : Own(d, q)' \subseteq Own(d, q)
  <2> TAKE q \in Path
  <2>1. Own(d, q) = {At(n, q), At(S.puts, q)} /\ Own(d, q)' = {At(n, q), At(f, q)}
    BY <1>5, <1>8 DEF Own
  <2> QED BY <1>6, <1>7, <2>1
<1>11. Handed(d)
  <2> SUFFICES ASSUME NEW r \in Path, NEW y \in Learnt(d, r)' \cup Own(d, r)'
               PROVE  \/ y = None
                      \/ \E q \in Path : /\ Len(q.copies) <= Len(r.copies)
                                         /\ y = Hubs(q) \/ y \in Learnt(d, q) \cup Own(d, q)
    BY DEF Handed
  <2> QED BY <1>9, <1>10, HandedAt
<1>12. ASSUME NEW q \in Path, NEW z, Fresh(z, d, q) PROVE Fresh(z, d, q)'
  <2>1. \A r \in Path : \A y \in Learnt(d, r)' : Elsewhere(y, d, q)
    BY <1>9, IsElsewhere
  <2>2. \A r \in Path \ {q} : \A y \in Own(d, r)' : Elsewhere(y, d, q)
    BY <1>10, IsElsewhere
  <2> QED BY <1>5, <1>12, <2>1, <2>2, FreshStays DEF Goes
<1>13. \A q \in Path : \A z : z = Mine(d, q)' =>
         /\ Hubs(q) \in Line(z) => Hubs(q) = At(S.agreed, q)
         /\ z # None /\ z # At(S.agreed, q) => Fresh(z, d, q)'
  BY <1>1, <1>8, <1>12, StartsApart
<1>14. p \notin S.drops /\ At(S.agreed, p) = At(base[d], p)
  BY <1>1, StartsApart
<1>15. x # At(S.agreed, p)
  <2>1. \A h, t, b : Act(h, t, b) = "push" => h # b
    BY DEF Act
  <2>2. At(S.here, p) # At(base[d], p)
    BY <1>1, <2>1 DEF ActIn
  <2>3. Knows(d, p) /\ x # None
    BY <1>7, Nobody DEF Apart, Types
  <2> QED BY <1>7, <1>14, <2>2, <2>3 DEF Knows
<1>16. ASSUME NEW q \in DOMAIN f
       PROVE  /\ At(n, q) # None => At(n, q) # At(S.agreed, q)
              /\ At(n, q) \notin past[f[q]]
              /\ \A z : z = f[q] => Fresh(z, d, q)'
  <2>1. CASE q = p
    <3>1. x \notin past[x]
      BY <1>7, NotBefore
    <3>2. Fresh(x, d, p)
      <4>1. x # None /\ x = Mine(d, p)
        BY <1>7, <1>8, Nobody DEF Types
      <4> QED BY <1>1, <1>7, <1>15, <4>1, StartsApart
    <3> QED BY <1>6, <1>7, <1>12, <1>15, <2>1, <3>1, <3>2
  <2>2. CASE q # p
    <3>1. q \in DOMAIN S.puts /\ f[q] = S.puts[q] /\ q \in Path
      BY <1>1, <1>6, <2>2, StartsApart
    <3> QED BY <1>1, <1>12, <3>1, StartsApart
  <2> QED BY <2>1, <2>2
<1>17. \A q \in (S.todo \ {p}) \cup S.drops : q \notin DOMAIN f
  BY <1>1, <1>6, <1>14, StartsApart
<1>18. \A q \in S.todo \ {p} : Mine(d, q)' \in {Mine(d, q), None}
  BY <1>1, <1>8, StartsApart
<1>19. DOMAIN S.agreed \subseteq Listing(S)
  BY <1>1, StartsApart
<1>20. notes'[d] = n
  BY <1>1
<1> QED BY <1>5, <1>11, <1>13, <1>16, <1>17, <1>18, <1>19, <1>20, Going

\* A text that is put aside is d's own under the name of the copy, and of that only.
LEMMA SetAsideApart ==
  ASSUME Types, Apart, NEW d \in Device, NEW p \in sync[d].todo, Good(d), SetAside(d, p)
  PROVE  Apart'
<1> DEFINE S == sync[d]
           n == notes[d]
<1>1. /\ S.pc = "steps" /\ S.doing = None /\ ActIn(S, base[d], p) = "conflict"
      /\ UNCHANGED <<base, wire, edits, history>> /\ p \in DOMAIN n
  BY DEF SetAside, Stepping, ActOf, ActIn
<1>2. /\ DOMAIN S = Fields /\ VaultTo(n, edits) /\ IsFiniteSet(DOMAIN S.here)
      /\ IsFiniteSet(DOMAIN S.there) /\ S.drops \subseteq Listing(S) /\ S.todo \subseteq Listing(S)
  BY OwnTypes DEF SyncTo, VaultTo, Listing
<1>3. PICK x : x = n[p]
  OBVIOUS
<1>4. PICK a : a = FreeAside(S, d, p)
  OBVIOUS
<1>5. a \notin DOMAIN n /\ a \notin Listing(S)
  BY <1>4, AsideIsNew
<1>6. At(n, p) = x /\ p \in Path /\ x \in 1..edits /\ x # None
  <2>1. At(n, p) = x /\ p \in Path /\ x \in 1..edits
    BY <1>1, <1>2, <1>3, StartsApart DEF At, VaultTo
  <2> QED BY <2>1, Nobody DEF Types
<1>7. a \in Path /\ Len(a.copies) > Len(p.copies) /\ Len(p.copies) \in Nat /\ a # p
  <2>1. PICK i \in Nat \ {0} : a = Aside(p, d, i)
    BY <1>2, <1>4, <1>6, AsideIsFree
  <2>2. PICK e : e = [by |-> d, n |-> i]
    OBVIOUS
  <2>3. a = [p EXCEPT !.copies = Append(p.copies, e)]
    BY <2>1, <2>2 DEF Aside
  <2>4. p.copies \in Copies /\ e \in [by : Device, n : Nat \ {0}] /\ p = [note |-> p.note, copies |-> p.copies]
    BY <1>6, <2>2 DEF Path, Copies
  <2>5. \A w : [p EXCEPT !.copies = w].copies = w
    BY <2>4
  <2>6. a.copies = Append(p.copies, e)
    BY <2>3, <2>5
  <2>7. Len(a.copies) = Len(p.copies) + 1 /\ Len(p.copies) \in Nat
    BY <2>4, <2>6, AppendProperties, LenProperties DEF Copies
  <2>8. a \in Path
    BY <1>6, <2>1, AsideInjective
  <2> QED BY <2>7, <2>8
<1>8. PICK f : f = With(S.puts, a, x)
  OBVIOUS
<1>9. PICK n2 : n2 = With(n, a, x)
  OBVIOUS
<1>10. /\ Goes(d) /\ sync'[d].agreed = S.agreed /\ sync'[d].puts = f /\ notes'[d] = n2
       /\ sync'[d].todo = S.todo /\ sync'[d].doing = p /\ sync'[d].fetched = S.fetched
       /\ base'[d] = base[d]
  <2>1. /\ Set(d, [S EXCEPT !.doing = p, !.puts = With(@, a, x)])
        /\ notes' = [notes EXCEPT ![d] = n2]
    BY <1>3, <1>4, <1>9 DEF SetAside
  <2>2. PICK X : X = [S EXCEPT !.doing = p, !.puts = f]
    OBVIOUS
  <2>3. Set(d, X)
    BY <1>8, <2>1, <2>2
  <2>4. /\ X.pc = S.pc /\ X.here = S.here /\ X.there = S.there /\ X.fetched = S.fetched
        /\ X.agreed = S.agreed /\ X.puts = f /\ X.drops = S.drops /\ X.stale = S.stale
        /\ X.todo = S.todo /\ X.doing = p
    <3> HIDE DEF S
    <3> QED BY <1>2, <2>2 DEF Fields
  <2>5. Goes(d) /\ sync'[d] = X
    BY <1>1, <2>1, <2>3, <2>4, StepGoes
  <2>6. notes'[d] = n2 /\ base'[d] = base[d]
    BY <1>1, <2>1 DEF Types, Vault
  <2> QED BY <2>4, <2>5, <2>6
<1>11. /\ At(f, a) = x /\ f[a] = x /\ DOMAIN f = DOMAIN S.puts \cup {a}
       /\ \A q : q # a => At(f, q) = At(S.puts, q) /\ (q \in DOMAIN f => f[q] = S.puts[q])
       /\ At(n2, a) = x /\ \A q : q # a => At(n2, q) = At(n, q)
  <2> HIDE DEF S, n
  <2> QED BY <1>8, <1>9 DEF With, At
<1>12. \A q \in Path : Mine(d, q) = At(n, q)
  BY <1>1, Nobody DEF Mine
<1>13. Mine(d, p)' = None /\ \A q \in Path \ {p} : Mine(d, q)' = At(n2, q)
  <2>1. ActIn(sync'[d], base'[d], p) = "conflict"
    BY <1>1, <1>10 DEF Goes, ActIn
  <2> QED BY <1>10, <2>1 DEF Mine
<1>14. \A q \in Path : Learnt(d, q)' = Learnt(d, q)
  BY <1>10 DEF Learnt
<1>15. At(S.puts, p) = None /\ p \notin S.drops /\ At(S.agreed, p) = At(base[d], p)
       /\ At(S.agreed, a) = None
  BY <1>1, <1>5, StartsApart DEF At
<1>16. /\ \A q \in Path \ {p, a} : Own(d, q)' = Own(d, q)
       /\ Own(d, p)' = {None} /\ Own(d, a)' = {x} /\ x \in Own(d, p)
  <2>1. \A q \in Path \ {p, a} : Own(d, q)' = Own(d, q)
    BY <1>10, <1>11, <1>12, <1>13 DEF Own
  <2>2. Own(d, p)' = {None}
    BY <1>6, <1>7, <1>10, <1>11, <1>13, <1>15 DEF Own
  <2>3. Own(d, a)' = {x}
    BY <1>7, <1>10, <1>11, <1>13 DEF Own
  <2>4. x \in Own(d, p)
    BY <1>6, <1>12 DEF Own
  <2> QED BY <2>1, <2>2, <2>3, <2>4
<1>17. Handed(d)
  <2> SUFFICES ASSUME NEW r \in Path, NEW y \in Learnt(d, r)' \cup Own(d, r)'
               PROVE  \/ y = None
                      \/ \E q \in Path : /\ Len(q.copies) <= Len(r.copies)
                                         /\ y = Hubs(q) \/ y \in Learnt(d, q) \cup Own(d, q)
    BY DEF Handed
  <2>1. CASE y = None \/ y \in Learnt(d, r) \cup Own(d, r)
    BY <2>1, HandedAt
  <2>2. CASE r = a /\ y = x
    <3>1. Len(a.copies) \in Nat
      BY <1>7, LenProperties DEF Path
    <3>2. Len(p.copies) <= Len(r.copies) /\ y \in Own(d, p)
      BY <1>7, <1>16, <2>2, <3>1
    <3> QED BY <1>6, <3>2
  <2> QED BY <1>14, <1>16, <2>1, <2>2
<1>18. Fresh(x, d, p)
  <2>1. At(S.here, p) # At(base[d], p)
    BY <1>1, ActMeans DEF ActIn
  <2>2. Knows(d, p)
    BY <1>6 DEF Apart
  <2>3. x # At(S.agreed, p)
    BY <1>6, <1>15, <2>1, <2>2 DEF Knows
  <2> QED BY <1>1, <1>6, <1>12, <2>3, StartsApart
<1>19. Fresh(x, d, a)'
  <2>1. \A r \in Path : \A y \in Learnt(d, r)' : Elsewhere(y, d, p)
    BY <1>14, IsElsewhere
  <2>2. \A r \in Path \ {a} : \A y \in Own(d, r)' : y = None \/ Elsewhere(y, d, p)
    BY <1>16, IsElsewhere
  <2> QED BY <1>6, <1>7, <1>10, <1>18, <2>1, <2>2, FreshMoves DEF Goes
<1>20. ASSUME NEW q \in Path \ {p}, NEW z, Fresh(z, d, q) PROVE Fresh(z, d, q)'
  <2>1. \A r \in Path : \A y \in Learnt(d, r)' : Elsewhere(y, d, q)
    BY <1>14, IsElsewhere
  <2>2. \A r \in Path \ {q} : \A y \in Own(d, r)' : y = None \/ Elsewhere(y, d, q)
    <3> TAKE r \in Path \ {q}
    <3>1. x \in Own(d, p) /\ Elsewhere(x, d, q)
      BY <1>6, <1>16, <1>20, IsElsewhere
    <3> QED BY <1>16, <3>1, IsElsewhere
  <2> QED BY <1>10, <1>20, <2>1, <2>2, FreshStays DEF Goes
<1>21. ASSUME NEW q \in Path, NEW z, z = Mine(d, q)'
       PROVE  /\ Hubs(q) \in Line(z) => Hubs(q) = At(S.agreed, q)
              /\ z # None /\ z # At(S.agreed, q) => Fresh(z, d, q)'
  <2>1. CASE q = p
    BY <1>13, <1>21, <2>1 DEF Line
  <2>2. CASE q = a
    <3>1. z = x
      BY <1>7, <1>11, <1>13, <1>21, <2>2
    <3>2. Has(x, p)
      BY <1>16 DEF Has
    <3>3. Hubs(a) \notin Line(x)
      BY <1>6, <1>7, <3>2 DEF Apart, CopiesApart
    <3> QED BY <1>19, <2>2, <3>1, <3>3
  <2>3. CASE q # p /\ q # a
    <3>1. z = Mine(d, q)
      BY <1>11, <1>12, <1>13, <1>21, <2>3
    <3> QED BY <1>1, <1>20, <2>3, <3>1, StartsApart
  <2> QED BY <2>1, <2>2, <2>3
<1>22. ASSUME NEW q \in DOMAIN f
       PROVE  /\ At(n2, q) # None => At(n2, q) # At(S.agreed, q)
              /\ At(n2, q) \notin past[f[q]]
              /\ \A z : z = f[q] => Fresh(z, d, q)'
  <2>1. CASE q = a
    <3>1. x \notin past[x]
      BY <1>6, NotBefore
    <3> QED BY <1>6, <1>11, <1>15, <1>19, <2>1, <3>1
  <2>2. CASE q # a
    <3>1. q \in DOMAIN S.puts /\ f[q] = S.puts[q] /\ q \in Path /\ q # p
      BY <1>1, <1>11, <2>2, StartsApart
    <3>2. At(n2, q) = At(n, q)
      BY <1>11, <2>2
    <3> QED BY <1>1, <1>20, <3>1, <3>2, StartsApart
  <2> QED BY <2>1, <2>2
<1>23. \A q \in S.todo \cup S.drops : q \notin DOMAIN f /\ At(n2, q) = At(n, q)
  BY <1>1, <1>2, <1>5, <1>11, StartsApart
<1>24. \A q \in S.todo : Mine(d, q)' \in {Mine(d, q), None}
  BY <1>1, <1>2, <1>5, <1>11, <1>12, <1>13, StartsApart
<1>25. DOMAIN S.agreed \subseteq Listing(S)
  BY <1>1, StartsApart
<1> QED BY <1>10, <1>17, <1>21, <1>22, <1>23, <1>24, <1>25, Going

LEMMA StepApart ==
  ASSUME Types, Apart, NEW d \in Device, Good(d), Step(d), ~ failed'
  PROVE  Apart'
<1>1. PICK p \in sync[d].todo :
        \/ CheckHere(d, p) \/ Pull(d, p) \/ DeleteHere(d, p) \/ Push(d, p)
        \/ SetAside(d, p) \/ TakeTheirs(d, p) \/ ConflictGone(d, p)
  BY DEF Step
<1> QED BY <1>1, PassApart, TakeApart, DeleteHereApart, PushApart, SetAsideApart

(***************************************************************************)
(* To list, to fetch, to send and to save keeps apart                      *)
(***************************************************************************)
\* No text was written over None.
LEMMA NoneInLine ==
  ASSUME Types, NEW f, VaultTo(f, edits), NEW q
  PROVE  None \notin Line(At(f, q))
<1>1. At(f, q) # None => At(f, q) \in Text /\ At(f, q) \in Nat
  BY BoundAssumption DEF VaultTo, At, Types, Text
<1>2. None \notin Text
  BY Nobody, BoundAssumption DEF Text
<1> QED BY <1>1, <1>2 DEF Line, Types

\* A sync that only talks to the hub leaves the notes, and learns what the hub has or took.
LEMMA Talking ==
  ASSUME Types, Apart, NEW d \in Device, Moves(d), notes' = notes,
         sync[d].doing = None, sync'[d].doing = None,
         \A q \in Path : At(sync'[d].puts, q) \in {At(sync[d].puts, q), None},
         \A q \in Path : Learnt(d, q)' \subseteq Learnt(d, q) \cup {None, Hubs(q), At(sync[d].puts, q)}
  PROVE  /\ Handed(d)
         /\ \A q \in Path : Mine(d, q) = At(notes[d], q) /\ Mine(d, q)' = At(notes[d], q)
         /\ \A q \in Path : \A z :
              /\ Fresh(z, d, q)
              /\ z \notin Line(At(sync[d].puts, q)) \/ Learnt(d, q)' \subseteq Learnt(d, q) \cup {None, Hubs(q)}
              => Fresh(z, d, q)'
<1>1. \A q \in Path : Mine(d, q) = At(notes[d], q) /\ Mine(d, q)' = At(notes[d], q)
  BY Nobody DEF Mine
<1>2. \A q \in Path : Own(d, q)' \subseteq Own(d, q) \cup {None} /\ At(sync[d].puts, q) \in Own(d, q)
  BY <1>1 DEF Own
<1>3. Handed(d)
  <2> SUFFICES ASSUME NEW r \in Path, NEW y \in Learnt(d, r)' \cup Own(d, r)'
               PROVE  \/ y = None
                      \/ \E q \in Path : /\ Len(q.copies) <= Len(r.copies)
                                         /\ y = Hubs(q) \/ y \in Learnt(d, q) \cup Own(d, q)
    BY DEF Handed
  <2>1. y = None \/ y = Hubs(r) \/ y \in Learnt(d, r) \cup Own(d, r)
    BY <1>2
  <2> QED BY <2>1, HandedAt
<1>4. ASSUME NEW q \in Path, NEW z, Fresh(z, d, q),
             z \notin Line(At(sync[d].puts, q)) \/ Learnt(d, q)' \subseteq Learnt(d, q) \cup {None, Hubs(q)}
      PROVE  Fresh(z, d, q)'
  <2>1. \A r \in Path : \A y \in Learnt(d, r)' :
          y = None \/ Elsewhere(y, d, q) \/ z \notin Line(y)
    <3> TAKE r \in Path
    <3>1. CASE r = q
      BY <1>4, <3>1, IsElsewhere
    <3>2. CASE r # q
      <4>1. \A y \in Learnt(d, r) : Elsewhere(y, d, q)
        BY IsElsewhere
      <4>2. \A y : y = Hubs(r) => Elsewhere(y, d, q)
        BY IsElsewhere
      <4>3. ASSUME NEW y, y = At(sync[d].puts, r) PROVE Elsewhere(y, d, q)
        <5>1. y \in Own(d, r)
          BY <1>2, <4>3
        <5> QED BY <3>2, <5>1, IsElsewhere
      <4>4. Learnt(d, r)' \subseteq Learnt(d, r) \cup {None, Hubs(r), At(sync[d].puts, r)}
        OBVIOUS
      <4> QED BY <4>1, <4>2, <4>3, <4>4
    <3> QED BY <3>1, <3>2
  <2>2. \A r \in Path \ {q} : \A y \in Own(d, r)' : y = None \/ Elsewhere(y, d, q)
    BY <1>2, IsElsewhere
  <2> QED BY <1>4, <2>1, <2>2, FreshStays
<1> QED BY <1>1, <1>3, <1>4

\* Before the hub is asked for anything, it is not asked.
LEMMA NotAsking ==
  ASSUME Types, Apart, NEW d \in Device, sync[d].pc \notin {"puts", "drops"} \/ Answered(d)
  PROVE  \A m \in wire : m.from # d
BY DEF Apart, Told, Tells, Answered

LEMMA ListHereApart ==
  ASSUME Types, Apart, Big = {}, NEW d \in Device, ListHere(d)
  PROVE  Apart'
<1> DEFINE S == sync[d]
<1>1. PICK f : f = Listed(notes[d])
  OBVIOUS
<1>2. PICK X : X = [Rest EXCEPT !.pc = "listed", !.here = f]
  OBVIOUS
<1>3. /\ X.pc = "listed" /\ X.here = f /\ X.there = Empty /\ X.fetched = Empty
      /\ X.agreed = Empty /\ X.puts = Empty /\ X.drops = {} /\ X.todo = {} /\ X.stale = {}
      /\ X.doing = None
  BY <1>2 DEF Rest
<1>4. /\ Set(d, X) /\ UNCHANGED <<notes, base, wire, edits, history>> /\ S.pc = "rest"
  BY <1>1, <1>2 DEF ListHere
<1>5. Moves(d) /\ sync'[d] = X
  BY <1>4, StepMoves
<1>6. \A q : At(f, q) = At(notes[d], q)
  BY <1>1, ListedAt
<1>7. \A q : At(Empty, q) = None
  BY DEF Empty, At
<1>8. S.doing = None
  BY <1>4, OwnTypes DEF SyncTo
<1>9. \A q \in Path : Learnt(d, q)' \subseteq Learnt(d, q) \cup {None}
  BY <1>3, <1>4, <1>5, <1>7 DEF Learnt
<1>10. /\ Handed(d)
       /\ \A q \in Path : Mine(d, q) = At(notes[d], q) /\ Mine(d, q)' = At(notes[d], q)
       /\ \A q \in Path : \A z : Fresh(z, d, q) => Fresh(z, d, q)'
  <2>1. \A q \in Path : At(sync'[d].puts, q) \in {At(S.puts, q), None}
    BY <1>3, <1>5, <1>7
  <2>2. sync'[d].doing = None
    BY <1>3, <1>5
  <2> QED BY <1>4, <1>5, <1>8, <1>9, <2>1, <2>2, Talking
<1>11. \A q : Known(d, q) = At(base[d], q) /\ Known(d, q)' = At(base[d], q)
  BY <1>3, <1>4, <1>5 DEF Known
<1>12. OwnIsNew(d)'
  <2>1. OwnIsNew(d)
    BY DEF Apart
  <2>2. \A q : ~ Pending(d, q)'
    BY <1>3, <1>5 DEF Pending, Empty
  <2> QED BY <1>10, <1>11, <2>1, <2>2 DEF OwnIsNew
<1>13. Shape(d)'
  BY <1>3, <1>5 DEF Shape, Empty
<1>14. ASSUME NEW q \in Path PROVE Knows(d, q)'
  <2>1. Knows(d, q)
    BY DEF Apart
  <2>2. PICK n : n = At(notes[d], q)
    OBVIOUS
  <2>3. (\A x : Line(x)' = Line(x)) /\ Hubs(q)' = Hubs(q) /\ Line(None) = {}
    BY <1>5, Unmoved DEF Line
  <2>4. Hubs(q) \in Line(n) => Hubs(q) = At(base[d], q)
    BY <1>10, <1>11, <2>1, <2>2 DEF Knows
  <2>5. /\ Mine(d, q)' = n /\ At(X.here, q) = n /\ At(X.fetched, q) = None
        /\ notes'[d] = notes[d] /\ base'[d] = base[d]
    BY <1>3, <1>4, <1>6, <1>7, <1>10, <2>2
  <2>6. DOMAIN X.puts = {}
    BY <1>3 DEF Empty
  <2> HIDE DEF S
  <2> QED BY <1>3, <1>5, <1>11, <2>2, <2>3, <2>4, <2>5, <2>6 DEF Knows
<1>15. \A m \in wire : m.from # d
  BY <1>4, NotAsking
<1> QED BY <1>4, <1>5, <1>10, <1>12, <1>13, <1>14, <1>15, ApartTogether DEF Quiet

\* What a device finds once it has both listings.
LEMMA PlanIs ==
  ASSUME Types, Apart, Big = {}, NEW d \in Device, Good(d), ListThere(d)
  PROVE  LET X == sync'[d] IN
         /\ Moves(d) /\ UNCHANGED <<notes, base, wire>> /\ sync[d].pc = "listed"
         /\ sync[d].doing = None /\ sync[d].puts = X.puts /\ DOMAIN X.puts = {}
         /\ X.pc \in {"planned", "steps"} /\ X.doing = None /\ X.here = sync[d].here
         /\ DOMAIN X.fetched = {} /\ X.stale = {}
         /\ \A q : At(X.there, q) = Hubs(q)
         /\ DOMAIN X.agreed \subseteq Listing(X)
         /\ \A q \in X.todo \cup X.drops :
              q \in Listing(X) /\ ActIn(X, base[d], q) # "keep" /\ ActIn(X, base[d], q) # "none"
         /\ \A q \in X.drops : ActIn(X, base[d], q) = "deleteThere"
         /\ \A q : /\ ActIn(X, base[d], q) = "keep" => At(X.agreed, q) = Hubs(q)
                   /\ q \in Listing(X) /\ ActIn(X, base[d], q) # "keep" =>
                        At(X.agreed, q) = At(base[d], q)
                   /\ q \notin Listing(X) => At(X.agreed, q) = None
<1> DEFINE h == notes[Hub]
           b == base[d]
           S == [sync[d] EXCEPT !.there = Listed(h)]
           known == DOMAIN b \cap (DOMAIN S.here \cup DOMAIN S.there)
           same == Asked(S, b, {"keep"})
           agreed == [p \in known \cup same |-> IF p \in same THEN S.here[p] ELSE b[p]]
           X == [S EXCEPT
             !.pc = IF Asked(S, b, {"pull", "conflict"}) = {} THEN "steps" ELSE "planned",
             !.agreed = agreed,
             !.drops = Asked(S, b, {"deleteThere"}),
             !.todo = Asked(S, b, {"pull", "push", "deleteHere", "conflict"})]
<1>1. /\ SyncTo(sync[d], b, edits) /\ DOMAIN sync[d] = Fields /\ sync[d].pc = "listed"
      /\ Shape(d)
  BY OwnTypes DEF ListThere, SyncTo, Apart
<1>2. /\ S.here = sync[d].here /\ S.there = Listed(h) /\ S.fetched = sync[d].fetched
      /\ S.puts = sync[d].puts /\ S.doing = sync[d].doing /\ S.stale = sync[d].stale
      /\ DOMAIN S = Fields
  BY <1>1 DEF Fields
<1>3. Set(d, X) /\ UNCHANGED <<notes, base, wire, edits, history>>
  BY DEF ListThere
<1>4. /\ X.here = S.here /\ X.there = S.there /\ X.fetched = S.fetched /\ X.puts = S.puts
      /\ X.agreed = agreed /\ X.drops = Asked(S, b, {"deleteThere"}) /\ X.doing = S.doing
      /\ X.todo = Asked(S, b, {"pull", "push", "deleteHere", "conflict"})
      /\ X.pc \in {"planned", "steps"} /\ X.stale = S.stale
  BY <1>2 DEF Fields
<1>5. Moves(d) /\ sync'[d] = X
  <2> HIDE DEF X
  <2> QED BY <1>3, StepMoves
<1>6. /\ DOMAIN S.puts = {} /\ DOMAIN S.fetched = {} /\ S.stale = {} /\ S.doing = None
  <2>1. DOMAIN sync[d].puts = {}
    BY <1>1 DEF Good, Fit, Asks
  <2> HIDE DEF S
  <2> QED BY <1>1, <1>2, <2>1 DEF SyncTo, Shape
<1>7. \A q : At(S.there, q) = Hubs(q)
  BY <1>2, ListedAt DEF Hubs
<1>8. /\ \A q : ActIn(X, b, q) = ActIn(S, b, q)
      /\ Listing(X) = Listing(S) /\ Listing(S) = DOMAIN S.here \cup DOMAIN S.there
  <2> HIDE DEF S, X
  <2> QED BY <1>4, SameListing DEF Listing
<1>9. \A q : q \in same <=> q \in Listing(S) /\ ActIn(S, b, q) = "keep"
  <2> HIDE DEF S
  <2> QED BY DEF Asked, ActIn, Listing
<1> HIDE DEF S, X
<1>10. \A q : ActIn(S, b, q) = "keep" =>
         q \in DOMAIN S.here /\ At(S.here, q) = S.here[q] /\ At(S.here, q) = At(S.there, q)
  <2> TAKE q
  <2>1. ActIn(S, b, q) = "keep" => At(S.here, q) # None /\ At(S.here, q) = At(S.there, q)
    BY ActMeans DEF ActIn
  <2>2. At(S.here, q) # None => q \in DOMAIN S.here /\ At(S.here, q) = S.here[q]
    BY DEF At
  <2> QED BY <2>1, <2>2
<1>11. DOMAIN agreed \subseteq Listing(S)
  BY <1>8, <1>9
<1>12. ASSUME NEW q
       PROVE  /\ ActIn(S, b, q) = "keep" => At(agreed, q) = Hubs(q)
              /\ q \in Listing(S) /\ ActIn(S, b, q) # "keep" => At(agreed, q) = At(b, q)
              /\ q \notin Listing(S) => At(agreed, q) = None
  <2>1. CASE ActIn(S, b, q) = "keep"
    <3>1. q \in same /\ q \in Listing(S)
      BY <1>8, <1>9, <1>10, <2>1
    <3>2. At(agreed, q) = S.here[q]
      BY <3>1 DEF At
    <3> QED BY <1>7, <1>10, <2>1, <3>1, <3>2
  <2>2. CASE q \in Listing(S) /\ ActIn(S, b, q) # "keep"
    <3>1. q \notin same
      BY <1>9, <2>2
    <3>2. q \in DOMAIN b => q \in known
      BY <1>8, <2>2
    <3> HIDE DEF same
    <3> QED BY <2>2, <3>1, <3>2 DEF At
  <2>3. CASE q \notin Listing(S)
    <3>1. ActIn(S, b, q) # "keep"
      BY <1>8, <1>10, <2>3
    <3> QED BY <1>11, <2>3, <3>1 DEF At
  <2> QED BY <2>1, <2>2, <2>3
<1>13. /\ \A q \in X.drops : q \in Listing(S) /\ ActIn(S, b, q) = "deleteThere"
       /\ \A q \in X.todo : q \in Listing(S) /\ ActIn(S, b, q) \in {"pull", "push", "deleteHere", "conflict"}
  BY <1>4 DEF Asked, ActIn, Listing
<1> HIDE DEF agreed, known, same
<1>14. \A q \in X.todo \cup X.drops :
         q \in Listing(S) /\ ActIn(S, b, q) # "keep" /\ ActIn(S, b, q) # "none"
  BY <1>13
<1> QED BY <1>1, <1>2, <1>3, <1>4, <1>5, <1>6, <1>7, <1>8, <1>11, <1>12, <1>13, <1>14

LEMMA ListThereApart ==
  ASSUME Types, Apart, Big = {}, NEW d \in Device, Good(d), ListThere(d)
  PROVE  Apart'
<1> DEFINE S == sync[d]
           X == sync'[d]
<1>1. /\ Moves(d) /\ UNCHANGED <<notes, base, wire>> /\ S.pc = "listed"
      /\ S.doing = None /\ S.puts = X.puts /\ DOMAIN X.puts = {}
      /\ X.pc \in {"planned", "steps"} /\ X.doing = None /\ X.here = S.here
      /\ DOMAIN X.fetched = {} /\ X.stale = {}
      /\ \A q : At(X.there, q) = Hubs(q)
      /\ DOMAIN X.agreed \subseteq Listing(X)
      /\ \A q \in X.todo \cup X.drops :
           q \in Listing(X) /\ ActIn(X, base[d], q) # "keep" /\ ActIn(X, base[d], q) # "none"
      /\ \A q \in X.drops : ActIn(X, base[d], q) = "deleteThere"
  BY PlanIs
<1>2. \A q : /\ ActIn(X, base[d], q) = "keep" => At(X.agreed, q) = Hubs(q)
             /\ q \in Listing(X) /\ ActIn(X, base[d], q) # "keep" =>
                  At(X.agreed, q) = At(base[d], q)
             /\ q \notin Listing(X) => At(X.agreed, q) = None
  BY PlanIs
<1>3. \A q : At(X.fetched, q) = None /\ At(X.puts, q) = None /\ At(S.puts, q) = None
  BY <1>1 DEF At
<1>4. \A q : At(X.agreed, q) \in {At(base[d], q), Hubs(q), None}
  BY <1>2
<1>5. \A q \in Path : Learnt(d, q)' \subseteq Learnt(d, q) \cup {None, Hubs(q)}
  BY <1>1, <1>3, <1>4 DEF Learnt
<1>6. /\ Handed(d)
      /\ \A q \in Path : Mine(d, q) = At(notes[d], q) /\ Mine(d, q)' = At(notes[d], q)
      /\ \A q \in Path : \A z : Fresh(z, d, q) => Fresh(z, d, q)'
  <2>1. \A q \in Path : At(X.puts, q) \in {At(S.puts, q), None}
    BY <1>3
  <2> QED BY <1>1, <1>5, <2>1, Talking
<1>7. \A q : Known(d, q) = At(base[d], q) /\ Known(d, q)' = At(X.agreed, q)
  BY <1>1 DEF Known, Taken
<1>8. \A q : q \notin Listing(X) => Hubs(q) = None /\ At(S.here, q) = None
  <2>1. \A q : q \notin Listing(X) => At(X.there, q) = None /\ At(X.here, q) = None
    BY DEF Listing, At
  <2> QED BY <1>1, <2>1
<1>9. \A q : ActIn(X, base[d], q) = "keep" => At(S.here, q) = Hubs(q)
  BY <1>1, ActMeans DEF ActIn
<1>10. \A q \in X.drops : At(S.here, q) = None
  BY <1>1, ActMeans DEF ActIn
<1>11. OwnIsNew(d)'
  <2> SUFFICES ASSUME NEW q \in Path, NEW z, z = At(notes[d], q), z # None, z # At(X.agreed, q)
               PROVE  Fresh(z, d, q)'
    <3>1. \A q : ~ Pending(d, q)'
      BY <1>1 DEF Pending
    <3> QED BY <1>6, <1>7, <3>1 DEF OwnIsNew
  <2>1. Knows(d, q) /\ OwnIsNew(d)
    BY DEF Apart
  <2>2. z # At(base[d], q)
    <3>1. At(S.here, q) # At(base[d], q) => z # At(base[d], q)
      BY <1>1, <2>1 DEF Knows
    <3>2. At(S.here, q) = None => z # At(base[d], q)
      <4>1. At(S.here, q) = None => At(base[d], q) \notin Line(z)
        BY <1>1, <2>1 DEF Knows
      <4> QED BY <4>1 DEF Line
    <3>3. CASE q \notin Listing(X)
      BY <1>8, <3>2, <3>3
    <3>4. CASE q \in Listing(X) /\ ActIn(X, base[d], q) # "keep"
      BY <1>2, <3>4
    <3>5. CASE ActIn(X, base[d], q) = "keep"
      BY <1>2, <1>9, <3>1, <3>5
    <3> QED BY <3>3, <3>4, <3>5
  <2>3. Fresh(z, d, q)
    BY <1>6, <1>7, <2>1, <2>2 DEF OwnIsNew
  <2> QED BY <1>6, <2>3
<1>12. Shape(d)'
  <2>1. \A q \in X.todo \cup X.drops : At(X.agreed, q) = At(base[d], q) /\ q \notin DOMAIN X.puts
    BY <1>1, <1>2
  <2> QED BY <1>1, <2>1 DEF Shape
<1>13. ASSUME NEW q \in Path PROVE Knows(d, q)'
  <2>1. Knows(d, q)
    BY DEF Apart
  <2>2. PICK n : n = At(notes[d], q)
    OBVIOUS
  <2>3. PICK a : a = At(X.agreed, q)
    OBVIOUS
  <2>4. (\A x : Line(x)' = Line(x)) /\ Hubs(q)' = Hubs(q) /\ Line(None) = {}
    BY <1>1, Unmoved DEF Line
  <2>5. Hubs(q) \in Line(n) => Hubs(q) = a
    <3>1. Hubs(q) \in Line(n) => Hubs(q) = At(base[d], q)
      BY <1>6, <1>7, <2>1, <2>2 DEF Knows
    <3>2. CASE q \notin Listing(X)
      BY <1>2, <1>8, <2>3, <3>2
    <3>3. CASE q \in Listing(X) /\ ActIn(X, base[d], q) # "keep"
      BY <1>2, <2>3, <3>1, <3>3
    <3>4. CASE ActIn(X, base[d], q) = "keep"
      BY <1>2, <2>3, <3>4
    <3> QED BY <3>2, <3>3, <3>4
  <2>6. None \notin Line(n)
    BY <2>2, OwnTypes, NoneInLine
  <2>7. q \in X.todo => (At(X.here, q) # At(base[d], q) /\ n # None => n # At(base[d], q))
    BY <1>1, <2>1, <2>2 DEF Knows
  <2>8. q \in X.drops => At(base[d], q) \notin Line(n)
    BY <1>1, <1>10, <2>1, <2>2 DEF Knows
  <2>9. /\ Mine(d, q)' = n /\ Known(d, q)' = a /\ At(X.fetched, q) = None
        /\ At(X.there, q) = Hubs(q) /\ q \notin DOMAIN X.puts /\ q \notin DOMAIN X.fetched
        /\ X.pc # "listed"
    BY <1>1, <1>3, <1>6, <1>7, <2>2, <2>3
  <2>10. notes'[d] = notes[d] /\ base'[d] = base[d]
    BY <1>1
  <2> QED BY <2>2, <2>4, <2>5, <2>6, <2>7, <2>8, <2>9, <2>10 DEF Knows
<1>14. \A m \in wire : m.from # d
  BY <1>1, NotAsking
<1> QED BY <1>1, <1>6, <1>11, <1>12, <1>13, <1>14, ApartTogether DEF Quiet

LEMMA FetchApart ==
  ASSUME Types, Apart, NEW d \in Device, Good(d), Fetch(d)
  PROVE  Apart'
<1> DEFINE S == sync[d]
           b == base[d]
           h == notes[Hub]
<1>1. /\ SyncTo(S, b, edits) /\ DOMAIN S = Fields /\ S.pc = "planned" /\ Shape(d)
      /\ VaultTo(h, edits) /\ DOMAIN S.puts = {}
  <2>1. Fit(d, S, b, notes[d], h, Standing) /\ S.pc = "planned"
    BY OwnFit DEF Fetch
  <2> QED BY <2>1, OwnTypes DEF SyncTo, Apart, Fit, Asks
<1>2. PICK f : f = Restrict(h, DOMAIN h \cap Asked(S, b, {"pull", "conflict"}))
  OBVIOUS
<1>3. PICK X : X = [S EXCEPT !.pc = "steps", !.fetched = f]
  OBVIOUS
<1>4. /\ X.pc = "steps" /\ X.here = S.here /\ X.there = S.there /\ X.agreed = S.agreed
      /\ X.todo = S.todo /\ X.doing = S.doing /\ X.puts = S.puts /\ X.drops = S.drops
      /\ X.fetched = f /\ X.stale = S.stale
  <2> HIDE DEF S
  <2> QED BY <1>1, <1>3 DEF Fields
<1>5. Set(d, X) /\ UNCHANGED <<notes, base, wire, edits, history>>
  BY <1>2, <1>3 DEF Fetch
<1>6. Moves(d) /\ sync'[d] = X
  BY <1>5, StepMoves
<1>7. S.doing = None
  BY <1>1 DEF SyncTo
<1>8. /\ \A q : At(f, q) \in {Hubs(q), None}
      /\ \A q \in DOMAIN f : f[q] = Hubs(q) /\ f[q] # None
  <2>1. \A q \in DOMAIN f : q \in DOMAIN h /\ f[q] = h[q]
    BY <1>2 DEF Restrict
  <2>2. \A q \in DOMAIN h : h[q] # None
    BY <1>1, Nobody DEF VaultTo, Types
  <2>3. \A q \in DOMAIN f : f[q] = Hubs(q) /\ f[q] # None
    BY <2>1, <2>2 DEF Hubs, At
  <2> QED BY <2>3 DEF At
<1>9. \A q \in Path : Learnt(d, q)' \subseteq Learnt(d, q) \cup {None, Hubs(q)}
  BY <1>4, <1>5, <1>6, <1>8 DEF Learnt
<1>10. /\ Handed(d)
       /\ \A q \in Path : Mine(d, q) = At(notes[d], q) /\ Mine(d, q)' = At(notes[d], q)
       /\ \A q \in Path : \A z : Fresh(z, d, q) => Fresh(z, d, q)'
  <2>1. \A q \in Path : At(X.puts, q) \in {At(S.puts, q), None}
    BY <1>4
  <2> QED BY <1>4, <1>5, <1>6, <1>7, <1>9, <2>1, Talking
<1>11. \A q : Known(d, q) = At(S.agreed, q) /\ Known(d, q)' = At(S.agreed, q)
  BY <1>1, <1>4, <1>6 DEF Known, Taken
<1>12. OwnIsNew(d)'
  <2>1. OwnIsNew(d)
    BY DEF Apart
  <2>2. \A q : ~ Pending(d, q)'
    BY <1>1, <1>4, <1>6 DEF Pending
  <2> QED BY <1>10, <1>11, <2>1, <2>2 DEF OwnIsNew
<1>13. Shape(d)'
  <2>1. /\ \A q : ActIn(X, b, q) = ActIn(S, b, q)
        /\ Listing(X) = Listing(S)
    BY <1>4, SameListing
  <2>2. /\ \A q \in X.drops : ActIn(X, b, q) = "deleteThere"
        /\ \A q \in X.todo \cup X.drops : At(X.agreed, q) = At(b, q) /\ q \notin DOMAIN X.puts
        /\ DOMAIN X.agreed \subseteq Listing(X) /\ X.stale = {}
    <3> HIDE DEF S
    <3> QED BY <1>1, <1>4, <2>1 DEF Shape, S
  <2> QED BY <1>4, <1>5, <1>6, <2>2 DEF Shape
<1>14. ASSUME NEW q \in Path PROVE Knows(d, q)'
  <2>1. Knows(d, q) /\ Shape(d)
    BY DEF Apart
  <2>2. PICK n : n = At(notes[d], q)
    OBVIOUS
  <2>3. PICK x : x = At(f, q)
    OBVIOUS
  <2>4. (\A y : Line(y)' = Line(y)) /\ Hubs(q)' = Hubs(q) /\ Line(None) = {}
    BY <1>6, Unmoved DEF Line
  <2>5. Hubs(q) \in Line(n) => Hubs(q) = At(S.agreed, q)
    BY <1>10, <1>11, <2>1, <2>2 DEF Knows
  <2>6. None \notin Line(n)
    BY <2>2, OwnTypes, NoneInLine
  <2>7. q \in X.todo => (At(X.here, q) # At(b, q) /\ n # None => n # At(b, q))
    BY <1>4, <2>1, <2>2 DEF Knows
  <2>8. q \in X.drops => At(b, q) \notin Line(n)
    BY <1>4, <2>1, <2>2 DEF Knows
  <2>9. q \in X.todo /\ At(X.there, q) # At(b, q) => (Hubs(q) # None => Hubs(q) # At(b, q))
    BY <1>4, <2>1 DEF Knows
  <2>10. q \in DOMAIN f => f[q] = Hubs(q) /\ Hubs(q) # None
    BY <1>8
  <2>11. q \in X.todo => At(S.agreed, q) = At(b, q)
    BY <1>4, <2>1 DEF Shape
  <2>12. x = None \/ x = Hubs(q)
    BY <1>8, <2>3
  <2>13. q \in X.todo /\ x \in Line(n) => x = At(b, q)
    BY <2>5, <2>6, <2>11, <2>12
  <2>14. Hubs(q) \in Line(x) => Hubs(q) = x
    BY <2>4, <2>12
  <2>15. q \notin DOMAIN X.puts /\ X.pc # "listed"
    BY <1>1, <1>4
  <2>16. /\ Mine(d, q)' = n /\ Known(d, q)' = At(S.agreed, q) /\ At(X.fetched, q) = x
         /\ X.fetched = f
    BY <1>4, <1>10, <1>11, <2>2, <2>3
  <2>17. notes'[d] = notes[d] /\ base'[d] = b
    BY <1>5
  <2> HIDE DEF S, b
  <2> QED BY <1>6, <2>2, <2>4, <2>5, <2>7, <2>8, <2>9, <2>10, <2>13, <2>14, <2>15, <2>16, <2>17
          DEF Knows
<1>15. \A m \in wire : m.from # d
  BY <1>1, NotAsking
<1> QED BY <1>5, <1>6, <1>10, <1>12, <1>13, <1>14, <1>15, ApartTogether DEF Quiet

LEMMA SendPutsApart ==
  ASSUME Types, Apart, NEW d \in Device, SendPuts(d)
  PROVE  Apart'
<1> DEFINE S == sync[d]
           b == base[d]
<1>1. /\ SyncTo(S, b, edits) /\ DOMAIN S = Fields /\ S.pc = "steps" /\ S.todo = {} /\ S.doing = None
      /\ Shape(d) /\ S.stale = {}
  BY OwnTypes DEF SyncTo, Apart, SendPuts, Shape
<1>2. PICK X : X = [S EXCEPT !.pc = "puts"]
  OBVIOUS
<1>3. /\ X.pc = "puts" /\ X.here = S.here /\ X.there = S.there /\ X.agreed = S.agreed
      /\ X.todo = S.todo /\ X.doing = S.doing /\ X.puts = S.puts /\ X.drops = S.drops
      /\ X.fetched = S.fetched /\ X.stale = S.stale
  <2> HIDE DEF S
  <2> QED BY <1>1, <1>2 DEF Fields
<1>4. PICK sent : sent = {Request(d, p, S.puts[p]) : p \in DOMAIN S.puts}
  OBVIOUS
<1>5. Set(d, X) /\ UNCHANGED <<notes, base, edits, history>> /\ wire' = wire \cup sent
  BY <1>2, <1>4 DEF SendPuts
<1>6. Moves(d) /\ sync'[d] = X
  BY <1>5, StepMoves
<1>7. \A q \in Path : Learnt(d, q)' = Learnt(d, q)
  BY <1>3, <1>5, <1>6 DEF Learnt
<1>8. /\ Handed(d)
      /\ \A q \in Path : Mine(d, q) = At(notes[d], q) /\ Mine(d, q)' = At(notes[d], q)
      /\ \A q \in Path : \A z : Fresh(z, d, q) => Fresh(z, d, q)'
  <2>1. \A q \in Path : At(X.puts, q) \in {At(S.puts, q), None}
    BY <1>3
  <2> QED BY <1>1, <1>3, <1>5, <1>6, <1>7, <2>1, Talking
<1>9. \A m \in wire : m.from # d
  BY <1>1, NotAsking
<1>10. \A m \in sent : /\ m.from = d /\ m.live /\ m.expect = At(S.there, m.path)
                       /\ m.path \in DOMAIN S.puts /\ m.text = S.puts[m.path]
  BY <1>4 DEF Request
<1>11. \A q \in DOMAIN S.puts : Asking(d, q)'
  <2> TAKE q \in DOMAIN S.puts
  <2>1. Request(d, q, S.puts[q]) \in wire'
    BY <1>4, <1>5
  <2>2. Request(d, q, S.puts[q]).from = d /\ Request(d, q, S.puts[q]).path = q
    BY DEF Request
  <2> QED BY <2>1, <2>2 DEF Asking
<1>12. \A q : Known(d, q) = At(S.agreed, q) /\ Known(d, q)' = At(S.agreed, q)
  BY <1>1, <1>3, <1>6, <1>11 DEF Known, Taken
<1>13. OwnIsNew(d)'
  <2>1. OwnIsNew(d)
    BY DEF Apart
  <2>2. \A q \in DOMAIN S.puts : Pending(d, q)
    BY <1>1 DEF Pending
  <2>3. \A q : Pending(d, q)' => q \in DOMAIN S.puts
    BY <1>3, <1>6 DEF Pending
  <2> QED BY <1>3, <1>6, <1>8, <1>12, <2>1, <2>2, <2>3 DEF OwnIsNew
<1>14. Shape(d)'
  <2>1. \A q : ActIn(X, b, q) = ActIn(S, b, q)
    BY <1>3, SameListing
  <2>2. /\ \A q \in X.drops : ActIn(X, b, q) = "deleteThere"
        /\ \A q \in X.todo \cup X.drops : At(X.agreed, q) = At(b, q) /\ q \notin DOMAIN X.puts
        /\ X.stale = {} /\ X.todo = {}
    <3> HIDE DEF S
    <3> QED BY <1>1, <1>3, <2>1 DEF Shape, S
  <2> QED BY <1>3, <1>5, <1>6, <2>2 DEF Shape
<1>15. ASSUME NEW q \in Path PROVE Knows(d, q)'
  <2>1. Knows(d, q)
    BY DEF Apart
  <2>2. PICK n : n = At(notes[d], q)
    OBVIOUS
  <2>3. (\A y : Line(y)' = Line(y)) /\ Hubs(q)' = Hubs(q) /\ past' = past
    BY <1>5, <1>6, Unmoved DEF history
  <2>4. Hubs(q) \in Line(n) => Hubs(q) = At(S.agreed, q)
    BY <1>8, <1>12, <2>1, <2>2 DEF Knows
  <2>5. q \in X.drops => At(b, q) \notin Line(n)
    BY <1>3, <2>1, <2>2 DEF Knows
  <2>6. Hubs(q) \in Line(At(X.fetched, q)) => Hubs(q) = At(X.fetched, q)
    BY <1>3, <2>1 DEF Knows
  <2>7. q \in DOMAIN X.puts => (n # None => n # At(X.agreed, q)) /\ n \notin past[X.puts[q]]
    BY <1>3, <2>1, <2>2 DEF Knows
  <2>8. Mine(d, q)' = n /\ Known(d, q)' = At(S.agreed, q) /\ X.todo = {} /\ X.pc # "listed"
    BY <1>1, <1>3, <1>8, <1>12, <2>2
  <2>9. notes'[d] = notes[d] /\ base'[d] = b
    BY <1>5
  <2> HIDE DEF S, b
  <2> QED BY <1>6, <2>2, <2>3, <2>4, <2>5, <2>6, <2>7, <2>8, <2>9 DEF Knows
<1>16. \A m \in wire' : m.from = d => Tells(m)'
  <2> SUFFICES ASSUME NEW m \in sent PROVE Tells(m)'
    BY <1>5, <1>9
  <2>1. sync'[m.from] = X
    BY <1>6, <1>10
  <2>2. /\ m.live /\ m.expect = At(X.there, m.path) /\ m.path \in DOMAIN X.puts \ X.stale
        /\ m.text = X.puts[m.path] /\ X.pc = "puts"
    <3> HIDE DEF S
    <3> QED BY <1>1, <1>3, <1>10
  <2> QED BY <2>1, <2>2 DEF Tells
<1>17. Quiet(d)
  BY <1>5, <1>10 DEF Quiet
<1>18. \A m \in wire', k \in wire' : m.from = d /\ k.from = d /\ k.path = m.path => k = m
  <2>1. \A p \in DOMAIN S.puts : Request(d, p, S.puts[p]).path = p
    BY DEF Request
  <2> HIDE DEF S
  <2>2. \A m \in sent, k \in sent : k.path = m.path => k = m
    BY <1>4, <2>1
  <2> QED BY <1>5, <1>9, <2>2
<1> QED BY <1>6, <1>8, <1>13, <1>14, <1>15, <1>16, <1>17, <1>18, ApartTogether

\* What is agreed on once the notes to put are answered is known already.
LEMMA PutsDone ==
  ASSUME Types, Apart, NEW d \in Device, PutsAreDone(d)
  PROVE  /\ sync[d].pc \in {"steps", "puts"} /\ sync[d].todo = {} /\ sync[d].doing = None
         /\ \A m \in wire : m.from # d
         /\ \A q : At(Agreed(sync[d]), q) = Known(d, q)
         /\ \A q \in Path : \A z : z = At(notes[d], q) /\ z # None /\ z # Known(d, q) =>
              z \notin Line(At(sync[d].puts, q)) \/ Known(d, q) = At(sync[d].agreed, q)
         /\ \A q : Known(d, q) \in {At(sync[d].agreed, q), At(sync[d].puts, q)}
         /\ \A q : q \notin DOMAIN sync[d].puts => Known(d, q) = At(sync[d].agreed, q)
<1> DEFINE S == sync[d]
<1>1. S.pc = "puts" \/ (S.pc = "steps" /\ S.todo = {} /\ DOMAIN S.puts = {})
  BY DEF PutsAreDone
<1>2. S.todo = {} /\ S.doing = None /\ Shape(d)
  <2>1. Shape(d) /\ S.doing \in S.todo \cup {None}
    BY OwnTypes DEF Apart, SyncTo
  <2> QED BY <1>1, <2>1 DEF Shape
<1>3. \A m \in wire : m.from # d
  BY NotAsking DEF PutsAreDone
<1>4. \A q : Taken(d, q) <=> q \in DOMAIN S.puts \ S.stale
  BY <1>1, <1>3 DEF Taken, Asking
<1>5. \A q : Known(d, q) = IF q \in DOMAIN S.puts \ S.stale THEN S.puts[q] ELSE At(S.agreed, q)
  BY <1>1, <1>4 DEF Known
<1>6. \A q : At(Agreed(S), q) = Known(d, q)
  <2> HIDE DEF S
  <2> QED BY <1>5 DEF Agreed, At
<1>7. \A q \in DOMAIN S.puts : At(S.puts, q) = S.puts[q] /\ S.puts[q] # None
  <2>1. VaultTo(S.puts, edits) /\ edits \in Nat
    BY OwnTypes DEF SyncTo, Types
  <2> HIDE DEF S
  <2> QED BY <2>1, Nobody DEF VaultTo, At
<1>8. \A q \in Path : \A z : z = At(notes[d], q) /\ z # None /\ z # Known(d, q) =>
        z \notin Line(At(S.puts, q)) \/ Known(d, q) = At(S.agreed, q)
  <2> TAKE q \in Path
  <2> SUFFICES ASSUME q \in DOMAIN S.puts \ S.stale, NEW z, z = At(notes[d], q), z # S.puts[q]
               PROVE  z \notin Line(At(S.puts, q))
    BY <1>5
  <2>1. z \notin past[S.puts[q]]
    BY DEF Apart, Knows
  <2> QED BY <1>7, <2>1 DEF Line
<1> QED BY <1>1, <1>2, <1>3, <1>5, <1>6, <1>7, <1>8

LEMMA SendDropsApart ==
  ASSUME Types, Apart, NEW d \in Device, SendDrops(d)
  PROVE  Apart'
<1> DEFINE S == sync[d]
           b == base[d]
<1>1. /\ SyncTo(S, b, edits) /\ DOMAIN S = Fields /\ Shape(d) /\ PutsAreDone(d)
  BY OwnTypes DEF SyncTo, Apart, SendDrops
<1>2. PICK f : f = Agreed(S)
  OBVIOUS
<1>3. /\ S.pc \in {"steps", "puts"} /\ S.todo = {} /\ S.doing = None
      /\ \A m \in wire : m.from # d
      /\ \A q : At(f, q) = Known(d, q)
      /\ \A q \in Path : \A z : z = At(notes[d], q) /\ z # None /\ z # Known(d, q) =>
           z \notin Line(At(S.puts, q)) \/ Known(d, q) = At(S.agreed, q)
      /\ \A q : Known(d, q) \in {At(S.agreed, q), At(S.puts, q)}
      /\ \A q : q \notin DOMAIN S.puts => Known(d, q) = At(S.agreed, q)
  BY <1>1, <1>2, PutsDone
<1>4. PICK X : X = [S EXCEPT !.pc = "drops", !.agreed = f, !.puts = Empty, !.stale = {}]
  OBVIOUS
<1>5. /\ X.pc = "drops" /\ X.here = S.here /\ X.there = S.there /\ X.agreed = f
      /\ X.todo = S.todo /\ X.doing = S.doing /\ X.puts = Empty /\ X.drops = S.drops
      /\ X.fetched = S.fetched /\ X.stale = {}
  <2> HIDE DEF S
  <2> QED BY <1>1, <1>4 DEF Fields
<1>6. PICK sent : sent = {Request(d, p, None) : p \in S.drops}
  OBVIOUS
<1>7. Set(d, X) /\ UNCHANGED <<notes, base, edits, history>> /\ wire' = wire \cup sent
  BY <1>2, <1>4, <1>6 DEF SendDrops
<1>8. Moves(d) /\ sync'[d] = X
  BY <1>7, StepMoves
<1>9. \A q : At(X.puts, q) = None /\ q \notin DOMAIN X.puts
  BY <1>5 DEF Empty, At
<1>10. \A q \in Path : /\ Learnt(d, q)' \subseteq Learnt(d, q) \cup {None, At(S.puts, q)}
                       /\ Known(d, q) = At(S.agreed, q) => Learnt(d, q)' = Learnt(d, q)
  BY <1>3, <1>5, <1>7, <1>8 DEF Learnt
<1>11. /\ Handed(d)
       /\ \A q \in Path : Mine(d, q) = At(notes[d], q) /\ Mine(d, q)' = At(notes[d], q)
       /\ \A q \in Path : \A z :
            /\ Fresh(z, d, q)
            /\ z \notin Line(At(S.puts, q)) \/ Learnt(d, q)' \subseteq Learnt(d, q) \cup {None, Hubs(q)}
            => Fresh(z, d, q)'
  <2>1. \A q \in Path : At(X.puts, q) \in {At(S.puts, q), None}
    BY <1>9
  <2>2. \A q \in Path : Learnt(d, q)' \subseteq Learnt(d, q) \cup {None, Hubs(q), At(S.puts, q)}
    BY <1>10
  <2> QED BY <1>3, <1>5, <1>7, <1>8, <2>1, <2>2, Talking
<1>12. \A q : Known(d, q)' = Known(d, q)
  BY <1>3, <1>5, <1>8 DEF Known, Taken
<1>13. OwnIsNew(d)'
  <2> SUFFICES ASSUME NEW q \in Path, NEW z, z = At(notes[d], q), z # None, z # Known(d, q)
               PROVE  Fresh(z, d, q)'
    <3>1. \A q : ~ Pending(d, q)'
      BY <1>8, <1>9 DEF Pending
    <3> QED BY <1>11, <1>12, <3>1 DEF OwnIsNew
  <2>1. Fresh(z, d, q)
    BY <1>11 DEF Apart, OwnIsNew
  <2>2. z \notin Line(At(S.puts, q)) \/ Learnt(d, q)' = Learnt(d, q)
    BY <1>3, <1>10
  <2> QED BY <1>11, <2>1, <2>2
<1>14. Shape(d)'
  <2>1. \A q : ActIn(X, b, q) = ActIn(S, b, q)
    BY <1>5, SameListing
  <2>2. \A q \in X.drops : ActIn(X, b, q) = "deleteThere"
    <3> HIDE DEF S
    <3> QED BY <1>1, <1>5, <2>1 DEF Shape, S
  <2>3. \A q \in X.drops : At(f, q) = At(b, q)
    BY <1>1, <1>3, <1>5 DEF Shape
  <2>4. X.todo = {}
    BY <1>3, <1>5
  <2> QED BY <1>5, <1>7, <1>8, <1>9, <2>2, <2>3, <2>4 DEF Shape
<1>15. ASSUME NEW q \in Path PROVE Knows(d, q)'
  <2>1. Knows(d, q)
    BY DEF Apart
  <2>2. PICK n : n = At(notes[d], q)
    OBVIOUS
  <2>3. (\A y : Line(y)' = Line(y)) /\ Hubs(q)' = Hubs(q)
    BY <1>8, Unmoved
  <2>4. Hubs(q) \in Line(n) => Hubs(q) = Known(d, q)
    BY <1>11, <2>1, <2>2 DEF Knows
  <2>5. q \in X.drops => At(b, q) \notin Line(n)
    BY <1>5, <2>1, <2>2 DEF Knows
  <2>6. Hubs(q) \in Line(At(X.fetched, q)) => Hubs(q) = At(X.fetched, q)
    BY <1>5, <2>1 DEF Knows
  <2>7. /\ Mine(d, q)' = n /\ Known(d, q)' = Known(d, q) /\ X.todo = {} /\ X.pc # "listed"
        /\ q \notin DOMAIN X.puts
    BY <1>3, <1>5, <1>9, <1>11, <1>12, <2>2
  <2>8. notes'[d] = notes[d] /\ base'[d] = b
    BY <1>7
  <2> HIDE DEF S, b
  <2> QED BY <1>8, <2>2, <2>3, <2>4, <2>5, <2>6, <2>7, <2>8 DEF Knows
<1>16. \A m \in sent : /\ m.from = d /\ m.live /\ m.expect = At(S.there, m.path)
                       /\ m.path \in S.drops /\ m.text = None
  BY <1>6 DEF Request
<1>17. \A m \in wire' : m.from = d => Tells(m)'
  <2> SUFFICES ASSUME NEW m \in sent PROVE Tells(m)'
    BY <1>3, <1>7
  <2>1. sync'[m.from] = X
    BY <1>8, <1>16
  <2>2. /\ m.live /\ m.expect = At(X.there, m.path) /\ m.path \in X.drops
        /\ m.text = None /\ X.pc = "drops"
    <3> HIDE DEF S
    <3> QED BY <1>5, <1>16
  <2> QED BY <2>1, <2>2 DEF Tells
<1>18. Quiet(d)
  BY <1>7, <1>16 DEF Quiet
<1>19. \A m \in wire', k \in wire' : m.from = d /\ k.from = d /\ k.path = m.path => k = m
  <2>1. \A p \in S.drops : Request(d, p, None).path = p
    BY DEF Request
  <2> HIDE DEF S
  <2>2. \A m \in sent, k \in sent : k.path = m.path => k = m
    BY <1>6, <2>1
  <2> QED BY <1>3, <1>7, <2>2
<1> QED BY <1>8, <1>11, <1>13, <1>14, <1>15, <1>17, <1>18, <1>19, ApartTogether

\* What is saved is what was known, but for what the hub deleted: that is not here either.
LEMMA SaveApart ==
  ASSUME Types, Apart, NEW d \in Device, Good(d), Save(d)
  PROVE  Apart'
<1> DEFINE S == sync[d]
           b == base[d]
           X == sync'[d]
<1>1. /\ SyncTo(S, b, edits) /\ DOMAIN S = Fields /\ Shape(d)
      /\ Fit(d, S, b, notes[d], notes[Hub], Standing)
  BY OwnTypes, OwnFit DEF SyncTo, Apart
<1>2. Set(d, Rest) /\ UNCHANGED <<notes, wire, edits, history>> /\ \E c : base' = [base EXCEPT ![d] = c]
  BY DEF Save
<1>3. Moves(d) /\ X = Rest
  BY <1>2, StepMoves
<1>4. PICK f : f = base'[d]
  OBVIOUS
<1>5. /\ S.todo = {} /\ S.doing = None /\ \A m \in wire : m.from # d
      /\ \A q : At(f, q) = Known(d, q) \/ (At(f, q) = None /\ q \in S.drops /\ Known(d, q) = At(b, q))
      /\ \A q \in Path : \A z : z = At(notes[d], q) /\ z # None /\ z # Known(d, q) =>
           z \notin Line(At(S.puts, q)) \/ Known(d, q) = At(S.agreed, q)
      /\ \A q : Known(d, q) \in {At(S.agreed, q), At(S.puts, q)}
  <2>1. CASE PutsAreDone(d) /\ S.drops = {}
    <3>1. f = Agreed(S)
      <4>1. S.pc # "drops"
        BY <2>1 DEF PutsAreDone
      <4> QED BY <1>4, <2>1, <4>1 DEF Save, Types
    <3> QED BY <2>1, <3>1, PutsDone
  <2>2. CASE S.pc = "drops" /\ Answered(d)
    <3>1. f = Restrict(S.agreed, DOMAIN S.agreed \ (S.drops \ S.stale))
      <4>1. ~ PutsAreDone(d)
        BY <2>2 DEF PutsAreDone
      <4> QED BY <1>4, <4>1 DEF Save, Types
    <3>2. S.todo = {} /\ S.doing = None
      BY <1>1, <2>2 DEF Shape, SyncTo
    <3>3. \A q : Known(d, q) = At(S.agreed, q)
      BY <2>2 DEF Known, Taken
    <3>4. \A q \in S.drops : At(S.agreed, q) = At(b, q)
      BY <1>1 DEF Shape
    <3>5. \A q : At(f, q) = IF q \in S.drops \ S.stale THEN None ELSE At(S.agreed, q)
      <4> HIDE DEF S
      <4> QED BY <3>1 DEF Restrict, At
    <3>6. \A m \in wire : m.from # d
      BY <2>2, NotAsking
    <3> HIDE DEF S, b
    <3> QED BY <3>2, <3>3, <3>4, <3>5, <3>6
  <2> QED BY <2>1, <2>2 DEF Save
<1>6. /\ X.pc = "rest" /\ X.todo = {} /\ X.drops = {} /\ X.doing = None /\ X.stale = {}
      /\ DOMAIN X.puts = {} /\ \A q : At(X.puts, q) = None /\ At(X.agreed, q) = None /\ At(X.fetched, q) = None
  BY <1>3 DEF Rest, Empty, At
<1>7. \A q \in Path : /\ Learnt(d, q)' \subseteq Learnt(d, q) \cup {None, At(S.puts, q)}
                      /\ Known(d, q) = At(S.agreed, q) => Learnt(d, q)' \subseteq Learnt(d, q) \cup {None}
  <2> TAKE q \in Path
  <2>1. Learnt(d, q)' = {At(f, q), None}
    BY <1>4, <1>6 DEF Learnt
  <2> QED BY <1>5, <2>1 DEF Learnt
<1>8. /\ Handed(d)
      /\ \A q \in Path : Mine(d, q) = At(notes[d], q) /\ Mine(d, q)' = At(notes[d], q)
      /\ \A q \in Path : \A z :
           /\ Fresh(z, d, q)
           /\ z \notin Line(At(S.puts, q)) \/ Learnt(d, q)' \subseteq Learnt(d, q) \cup {None, Hubs(q)}
           => Fresh(z, d, q)'
  <2>1. \A q \in Path : At(X.puts, q) \in {At(S.puts, q), None}
    BY <1>6
  <2>2. \A q \in Path : Learnt(d, q)' \subseteq Learnt(d, q) \cup {None, Hubs(q), At(S.puts, q)}
    BY <1>7
  <2> QED BY <1>2, <1>3, <1>5, <1>6, <2>1, <2>2, Talking
<1>9. \A q : Known(d, q)' = At(f, q)
  BY <1>4, <1>6 DEF Known
<1>10. \A q \in Path : At(f, q) = Known(d, q) \/
         (At(f, q) = None /\ Known(d, q) = At(b, q) /\ Known(d, q) \notin Line(At(notes[d], q)))
  <2> TAKE q \in Path
  <2>1. q \in S.drops => At(b, q) \notin Line(At(notes[d], q))
    BY DEF Apart, Knows
  <2> QED BY <1>5, <2>1
<1>11. OwnIsNew(d)'
  <2> SUFFICES ASSUME NEW q \in Path, NEW z, z = At(notes[d], q), z # None, z # At(f, q)
               PROVE  Fresh(z, d, q)'
    <3>1. \A q : ~ Pending(d, q)'
      BY <1>6 DEF Pending
    <3> QED BY <1>8, <1>9, <3>1 DEF OwnIsNew
  <2>1. z # Known(d, q)
    <3>1. z \in Line(z)
      BY DEF Line
    <3> QED BY <1>10, <3>1
  <2>2. Fresh(z, d, q)
    BY <1>8, <2>1 DEF Apart, OwnIsNew
  <2>3. z \notin Line(At(S.puts, q)) \/ Learnt(d, q)' \subseteq Learnt(d, q) \cup {None}
    BY <1>5, <1>7, <2>1
  <2> QED BY <1>8, <2>2, <2>3
<1>12. Shape(d)'
  BY <1>6 DEF Shape
<1>13. ASSUME NEW q \in Path PROVE Knows(d, q)'
  <2>1. Knows(d, q)
    BY DEF Apart
  <2>2. PICK n : n = At(notes[d], q)
    OBVIOUS
  <2>3. (\A y : Line(y)' = Line(y)) /\ Hubs(q)' = Hubs(q) /\ Line(None) = {}
    BY <1>3, Unmoved DEF Line
  <2>4. Hubs(q) \in Line(n) => Hubs(q) = Known(d, q)
    BY <1>8, <2>1, <2>2 DEF Knows
  <2>5. Hubs(q) \in Line(n) => Hubs(q) = At(f, q)
    BY <1>10, <2>2, <2>4
  <2>6. Mine(d, q)' = n /\ Known(d, q)' = At(f, q) /\ At(X.fetched, q) = None
    BY <1>6, <1>8, <1>9, <2>2
  <2>7. notes'[d] = notes[d] /\ base'[d] = f
    BY <1>2, <1>4
  <2> QED BY <1>6, <2>2, <2>3, <2>5, <2>6, <2>7 DEF Knows
<1> QED BY <1>2, <1>3, <1>5, <1>8, <1>11, <1>12, <1>13, ApartTogether DEF Quiet

(***************************************************************************)
(* The edits keep apart                                                    *)
(***************************************************************************)
\* Somebody puts x, or None, in the place of the note p of v.
Puts(v, p, x) ==
  /\ UNCHANGED <<base, sync, wire>> /\ x = At(notes'[v], p) /\ x \notin 1..edits
  /\ \A u \in Vault \ {v} : notes'[u] = notes[u]
  /\ \A q : q # p => At(notes'[v], q) = At(notes[v], q)
  /\ \A y \in 1..edits : past'[y] = past[y] /\ past[y] \subseteq 1..edits
  /\ \A y \in 1..edits \cup {None} :
       /\ Line(y)' = Line(y) /\ Line(y) \subseteq 1..edits
       /\ y \in Line(x)' => y \in Line(At(notes[v], p))

\* The note p of d is not about to be written over in a conflict.
Shown(d, p) == ~ (sync[d].doing = p /\ ActIn(sync[d], base[d], p) = "conflict")

\* What is anywhere was written so far.
LEMMA AllTexts ==
  ASSUME Types, NEW d \in Device, NEW p
  PROVE  /\ Learnt(d, p) \subseteq 1..edits \cup {None} /\ Own(d, p) \subseteq 1..edits \cup {None}
         /\ Hubs(p) \in 1..edits \cup {None} /\ At(notes[d], p) \in 1..edits \cup {None}
<1>1. \A f : VaultTo(f, edits) => At(f, p) \in 1..edits \cup {None}
  BY DEF VaultTo, At
<1>2. /\ VaultTo(base[d], edits) /\ VaultTo(notes[d], edits) /\ VaultTo(notes[Hub], edits)
      /\ VaultTo(sync[d].agreed, edits) /\ VaultTo(sync[d].fetched, edits)
      /\ VaultTo(sync[d].puts, edits)
  BY OwnTypes DEF SyncTo
<1>3. At(notes[d], p) \in 1..edits \cup {None}
  BY <1>1, <1>2
<1>4. Mine(d, p) \in 1..edits \cup {None}
  BY <1>3 DEF Mine
<1>5. Hubs(p) \in 1..edits \cup {None}
  BY <1>1, <1>2 DEF Hubs
<1>6. Learnt(d, p) \subseteq 1..edits \cup {None}
  BY <1>1, <1>2 DEF Learnt
<1>7. Own(d, p) \subseteq 1..edits \cup {None}
  BY <1>1, <1>2, <1>4 DEF Own
<1> QED BY <1>3, <1>5, <1>6, <1>7

LEMMA Lines ==
  ASSUME Types, Newer
  PROVE  /\ \A y \in 1..edits : past[y] \subseteq 1..edits
         /\ \A y \in 1..edits \cup {None} : Line(y) \subseteq 1..edits
         /\ edits \in Nat /\ None \notin 1..edits /\ edits + 1 # None
<1>1. edits \in Nat /\ \A y \in 1..edits : y \in Text
  BY BoundAssumption DEF Types, Text
<1>2. \A y \in 1..edits : past[y] \subseteq 1..edits
  <2> TAKE y \in 1..edits
  <2>1. past[y] \subseteq 1..(y - 1)
    BY <1>1 DEF Newer
  <2>2. \A i \in 1..(y - 1) : i \in 1..edits
    BY <1>1
  <2> QED BY <2>1, <2>2
<1>3. \A y \in 1..edits \cup {None} : Line(y) \subseteq 1..edits
  BY <1>2 DEF Line
<1>4. None \notin 1..edits /\ edits + 1 # None
  <2>1. \A i \in 1..edits : i \in Nat
    BY <1>1
  <2>2. edits + 1 \in Nat
    BY <1>1
  <2> QED BY <2>1, <2>2, Nobody
<1> QED BY <1>1, <1>2, <1>3, <1>4

LEMMA EditPuts ==
  ASSUME Types, Newer, NEW v \in Vault, NEW p \in Path,
         p.copies = << >> \/ p \in DOMAIN notes[v], Write(v, p) \/ Delete(v, p)
  PROVE  Newer' /\ \E x : Puts(v, p, x)
<1>1. /\ UNCHANGED <<base, sync, wire>> /\ edits' = edits + 1 /\ edits \in Nat
      /\ \A u \in Vault \ {v} : notes'[u] = notes[u]
      /\ \A q : q # p => At(notes'[v], q) = At(notes[v], q)
  BY EditIs
<1>2. /\ \A y \in 1..edits : past[y] \subseteq 1..edits
      /\ \A y \in 1..edits \cup {None} : Line(y) \subseteq 1..edits
      /\ None \notin 1..edits /\ edits + 1 # None
  BY Lines
<1>3. PICK o : o = At(notes[v], p)
  OBVIOUS
<1>4. VaultTo(notes[v], edits) /\ edits + 1 \in Text
  <2>1. edits' \in 0..MaxEdits
    BY WriteTypes, DeleteTypes DEF Types
  <2> QED BY <1>1, <2>1, BoundAssumption DEF Types, Text
<1>5. o \in 1..edits \cup {None}
  BY <1>3, <1>4 DEF VaultTo, At
<1>6. CASE Write(v, p)
  <2>1. past' = [past EXCEPT ![edits + 1] = Line(o)]
    <3> DEFINE old == Restrict(notes[v], DOMAIN notes[v] \cap {p})
               over == UNION {{old[q]} \cup past[old[q]] : q \in DOMAIN old}
    <3>1. past' = [past EXCEPT ![edits + 1] = over]
      BY <1>6 DEF Write
    <3>2. CASE p \in DOMAIN notes[v]
      <4>1. DOMAIN old = {p} /\ old[p] = notes[v][p]
        BY <3>2 DEF Restrict
      <4>2. o = notes[v][p] /\ o # None
        BY <1>2, <1>3, <1>4, <3>2 DEF At, VaultTo
      <4> HIDE DEF old
      <4>3. over = {o} \cup past[o]
        BY <4>1, <4>2
      <4> QED BY <3>1, <4>2, <4>3 DEF Line
    <3>3. CASE p \notin DOMAIN notes[v]
      <4>1. DOMAIN old = {}
        BY <3>3 DEF Restrict
      <4>2. o = None
        BY <1>3, <3>3 DEF At
      <4> HIDE DEF old
      <4>3. over = {}
        BY <4>1
      <4> QED BY <3>1, <4>2, <4>3 DEF Line
    <3> QED BY <3>2, <3>3
  <2>2. DOMAIN past = Text /\ \A y \in 1..edits : y # edits + 1
    BY <1>1 DEF Types
  <2>3. /\ past'[edits + 1] = Line(o) /\ \A y \in 1..edits : past'[y] = past[y]
    BY <1>4, <2>1, <2>2
  <2>4. At(notes'[v], p) = edits + 1
    <3>1. notes'[v] = With(notes[v], p, edits + 1)
      BY <1>6 DEF Write, Types
    <3> QED BY <3>1 DEF With, At
  <2>5. \A y \in 1..edits \cup {None} : Line(y)' = Line(y)
    BY <1>2, <2>3 DEF Line
  <2>6. PICK x : x = edits + 1
    OBVIOUS
  <2>7. Line(x)' = {x} \cup Line(o)
    BY <1>2, <2>3, <2>6 DEF Line
  <2>8. x \notin 1..edits /\ x # None
    BY <1>1, <1>2, <2>6
  <2>9. Puts(v, p, x)
    BY <1>1, <1>2, <1>3, <2>3, <2>4, <2>5, <2>6, <2>7, <2>8 DEF Puts
  <2>10. Newer'
    <3> SUFFICES ASSUME NEW y \in Text PROVE past'[y] \subseteq 1..(y - 1)
      BY DEF Newer
    <3>1. CASE y = edits + 1
      <4>1. y - 1 = edits
        BY <1>1, <3>1
      <4> QED BY <1>2, <1>5, <2>3, <3>1, <4>1
    <3>2. CASE y # edits + 1
      <4>1. past'[y] = past[y]
        BY <2>1, <2>2, <3>2
      <4> QED BY <4>1 DEF Newer
    <3> QED BY <3>1, <3>2
  <2> QED BY <2>9, <2>10
<1>7. CASE Delete(v, p)
  <2>1. At(notes'[v], p) = None /\ past' = past
    <3>1. notes'[v] = Without(notes[v], p)
      BY <1>7 DEF Delete, Types
    <3>2. past' = past
      BY <1>7 DEF Delete
    <3>3. At(notes'[v], p) = None
      <4>1. At(Without(notes[v], p), p) = None
        BY WithoutAt
      <4> QED BY <3>1, <4>1
    <3> QED BY <3>2, <3>3
  <2>2. (\A y : Line(y)' = Line(y)) /\ Line(None) = {}
    BY <2>1 DEF Line
  <2>3. PICK x : x = None
    OBVIOUS
  <2>4. Puts(v, p, x)
    BY <1>1, <1>2, <1>3, <2>1, <2>2, <2>3 DEF Puts
  <2>5. Newer'
    BY <2>1 DEF Newer
  <2> QED BY <2>4, <2>5
<1> QED BY <1>6, <1>7

\* What an edit leaves where it was.
LEMMA PutsLeaves ==
  ASSUME Types, NEW v \in Vault, NEW p \in Path, NEW x, Puts(v, p, x)
  PROVE  /\ \A d \in Device : \A q : /\ Learnt(d, q)' = Learnt(d, q) /\ Known(d, q)' = Known(d, q)
                                     /\ Pending(d, q)' <=> Pending(d, q)
         /\ \A q : Hubs(q)' = IF v = Hub /\ q = p THEN x ELSE Hubs(q)
         /\ \A d \in Device : \A q :
              /\ At(notes'[d], q) = IF v = d /\ q = p THEN x ELSE At(notes[d], q)
              /\ Mine(d, q)' = IF v = d /\ q = p /\ Shown(d, p) THEN x ELSE Mine(d, q)
              /\ v = d /\ q = p /\ Shown(d, p) => At(notes[d], q) = Mine(d, q)
         /\ \A d \in Device : \A q : \A y \in Own(d, q)' :
              y \in Own(d, q) \/ (y = x /\ v = d /\ q = p /\ Shown(d, p))
         /\ v = Hub => At(notes[v], p) = Hubs(p)
         /\ v # Hub => v \in Device /\ (Shown(v, p) => At(notes[v], p) \in Own(v, p))
<1>1. /\ UNCHANGED <<base, sync, wire>> /\ x = At(notes'[v], p)
      /\ \A u \in Vault \ {v} : notes'[u] = notes[u]
      /\ \A q : q # p => At(notes'[v], q) = At(notes[v], q)
  BY DEF Puts
<1>2. \A u \in Vault : \A q : At(notes'[u], q) = IF v = u /\ q = p THEN x ELSE At(notes[u], q)
  BY <1>1
<1>3. \A d \in Device : \A q : Learnt(d, q)' = Learnt(d, q)
  BY <1>1 DEF Learnt
<1>4. \A d \in Device : \A q : /\ Taken(d, q)' <=> Taken(d, q)
                               /\ Pending(d, q)' <=> Pending(d, q)
  BY <1>1 DEF Taken, Pending, Asking
<1>5. \A d \in Device : \A q : Known(d, q)' = Known(d, q)
  BY <1>1, <1>4 DEF Known
<1>6. \A q : Hubs(q)' = IF v = Hub /\ q = p THEN x ELSE Hubs(q)
  BY <1>2 DEF Hubs, Vault
<1>7. \A d \in Device : \A q : At(notes'[d], q) = IF v = d /\ q = p THEN x ELSE At(notes[d], q)
  BY <1>2 DEF Vault
<1>8. \A d \in Device : \A q : Mine(d, q)' = IF v = d /\ q = p /\ Shown(d, p) THEN x ELSE Mine(d, q)
  <2> TAKE d \in Device
  <2> TAKE q
  <2>1. ActIn(sync'[d], base'[d], q) = ActIn(sync[d], base[d], q) /\ sync'[d].doing = sync[d].doing
    BY <1>1
  <2> QED BY <1>7, <2>1 DEF Mine, Shown
<1>9. \A d \in Device : \A q : v = d /\ q = p /\ Shown(d, p) => At(notes[d], q) = Mine(d, q)
  BY DEF Mine, Shown
<1>10. \A d \in Device : \A q : \A y \in Own(d, q)' :
         y \in Own(d, q) \/ (y = x /\ v = d /\ q = p /\ Shown(d, p))
  <2> TAKE d \in Device
  <2> TAKE q
  <2>1. Own(d, q)' = {Mine(d, q)', At(sync[d].puts, q)}
    BY <1>1 DEF Own
  <2> QED BY <1>8, <2>1 DEF Own
<1>11. v # Hub => v \in Device /\ (Shown(v, p) => At(notes[v], p) \in Own(v, p))
  BY <1>9 DEF Vault, Own
<1> QED BY <1>3, <1>4, <1>5, <1>6, <1>7, <1>8, <1>9, <1>10, <1>11 DEF Hubs

\* What was somewhere else, or is the edit itself.
LEMMA PutsElsewhere ==
  ASSUME Types, NEW v \in Vault, NEW p \in Path, NEW x, Puts(v, p, x),
         NEW d \in Device, NEW q \in Path, NEW y, Elsewhere(y, d, q)'
  PROVE  \/ Elsewhere(y, d, q) /\ y \in 1..edits \cup {None}
         \/ /\ y = x /\ ~ (v = d /\ q = p)
            /\ \A o : o = At(notes[v], p) => Elsewhere(o, d, q)
<1>1. /\ \A e \in Device : \A r : Learnt(e, r)' = Learnt(e, r)
      /\ \A r : Hubs(r)' = IF v = Hub /\ r = p THEN x ELSE Hubs(r)
      /\ \A e \in Device : \A r : \A z \in Own(e, r)' :
           z \in Own(e, r) \/ (z = x /\ v = e /\ r = p /\ Shown(e, p))
      /\ v = Hub => At(notes[v], p) = Hubs(p)
      /\ v # Hub => v \in Device /\ (Shown(v, p) => At(notes[v], p) \in Own(v, p))
  BY PutsLeaves
<1>2. Elsewhere(y, d, q) => y \in 1..edits \cup {None}
  BY AllTexts DEF Elsewhere
<1>3. Hub \notin Device
  BY HubAssumption
<1>4. CASE \E r \in Path : y = Hubs(r)'
  <2>1. PICK r \in Path : y = Hubs(r)'
    BY <1>4
  <2>2. y = Hubs(r) \/ (y = x /\ v = Hub)
    BY <1>1, <2>1
  <2> QED BY <1>1, <1>2, <1>3, <2>2 DEF Elsewhere
<1>5. CASE \E e \in Device, r \in Path :
             y \in Learnt(e, r)' \/ (y \in Own(e, r)' /\ ~ (e = d /\ r = q))
  <2>1. PICK e \in Device, r \in Path :
          y \in Learnt(e, r)' \/ (y \in Own(e, r)' /\ ~ (e = d /\ r = q))
    BY <1>5
  <2>2. CASE y \in Learnt(e, r) \/ (y \in Own(e, r) /\ ~ (e = d /\ r = q))
    <3>1. Elsewhere(y, d, q)
      BY <2>2 DEF Elsewhere
    <3> QED BY <1>2, <3>1
  <2>3. CASE y = x /\ v = e /\ r = p /\ Shown(e, p) /\ ~ (e = d /\ r = q)
    <3>1. v \in Device /\ v # Hub /\ At(notes[v], p) \in Own(v, p) /\ ~ (v = d /\ q = p)
      BY <1>1, <1>3, <2>3
    <3>2. \A o : o = At(notes[v], p) => Elsewhere(o, d, q)
      BY <3>1 DEF Elsewhere
    <3> QED BY <2>3, <3>1, <3>2
  <2> QED BY <1>1, <2>1, <2>2, <2>3
<1> QED BY <1>4, <1>5 DEF Elsewhere

LEMMA PutsFresh ==
  ASSUME Types, NEW v \in Vault, NEW p \in Path, NEW x, Puts(v, p, x),
         NEW d \in Device, NEW q \in Path, NEW z \in 1..edits, Fresh(z, d, q)
  PROVE  Fresh(z, d, q)'
<1> SUFFICES ASSUME NEW y, Elsewhere(y, d, q)' PROVE z \notin Line(y)'
  BY DEF Fresh
<1>1. \A w \in 1..edits \cup {None} :
        Line(w)' = Line(w) /\ (w \in Line(x)' => w \in Line(At(notes[v], p)))
  BY DEF Puts
<1>2. CASE Elsewhere(y, d, q) /\ y \in 1..edits \cup {None}
  BY <1>1, <1>2 DEF Fresh
<1>3. CASE y = x /\ \A o : o = At(notes[v], p) => Elsewhere(o, d, q)
  <2>1. PICK o : o = At(notes[v], p)
    OBVIOUS
  <2>2. z \notin Line(o)
    BY <1>3, <2>1 DEF Fresh
  <2> QED BY <1>1, <1>3, <2>1, <2>2
<1> QED BY <1>2, <1>3, PutsElsewhere

LEMMA EditFresh ==
  ASSUME Types, NEW v \in Vault, NEW p \in Path, NEW x, Puts(v, p, x),
         NEW d \in Device, v = d
  PROVE  Fresh(x, d, p)'
<1> SUFFICES ASSUME NEW y, Elsewhere(y, d, p)' PROVE x \notin Line(y)'
  BY DEF Fresh
<1>1. y \in 1..edits \cup {None}
  BY PutsElsewhere
<1> QED BY <1>1 DEF Puts

LEMMA PutsCopies ==
  ASSUME Types, CopiesApart, NEW v \in Vault, NEW p \in Path, NEW x, Puts(v, p, x)
  PROVE  CopiesApart'
<1> SUFFICES ASSUME NEW r \in Path, NEW q \in Path, Len(q.copies) > Len(r.copies),
                    NEW y, Has(y, r)'
             PROVE  Hubs(q)' \notin Line(y)'
  BY DEF CopiesApart
<1>1. /\ \A e \in Device : \A c : Learnt(e, c)' = Learnt(e, c)
      /\ \A c : Hubs(c)' = IF v = Hub /\ c = p THEN x ELSE Hubs(c)
      /\ \A e \in Device : \A c : \A z \in Own(e, c)' :
           z \in Own(e, c) \/ (z = x /\ v = e /\ c = p /\ Shown(e, p))
      /\ v = Hub => At(notes[v], p) = Hubs(p)
      /\ v # Hub => v \in Device /\ (Shown(v, p) => At(notes[v], p) \in Own(v, p))
  BY PutsLeaves
<1>2. x \notin 1..edits /\ \A w \in 1..edits \cup {None} :
        /\ Line(w)' = Line(w) /\ Line(w) \subseteq 1..edits
        /\ w \in Line(x)' => w \in Line(At(notes[v], p))
  BY DEF Puts
<1>3. r # q
  BY LenProperties DEF Path
<1>4. Hubs(q) \in 1..edits \cup {None}
  <2>1. VaultTo(notes[Hub], edits)
    BY DEF Types, Vault
  <2> QED BY <2>1 DEF VaultTo, Hubs, At
<1>5. Has(y, r) \/ (y = x /\ r = p /\ (v = Hub \/ Shown(v, p)))
  <2>1. CASE y = Hubs(r)'
    BY <1>1, <2>1 DEF Has
  <2>2. CASE \E e \in Device : y \in Learnt(e, r)' \cup Own(e, r)'
    BY <1>1, <2>2 DEF Has
  <2> QED BY <2>1, <2>2 DEF Has
<1>6. CASE y = x /\ r = p /\ (v = Hub \/ Shown(v, p))
  <2>1. PICK o : o = At(notes[v], p)
    OBVIOUS
  <2>2. Has(o, p)
    <3>1. CASE v = Hub
      BY <1>1, <2>1, <3>1 DEF Has
    <3>2. CASE v # Hub
      <4>1. v \in Device /\ o \in Own(v, p)
        BY <1>1, <1>6, <2>1, <3>2
      <4> QED BY <4>1 DEF Has
    <3> QED BY <3>1, <3>2
  <2>3. Hubs(q) \notin Line(o)
    BY <1>6, <2>2 DEF CopiesApart
  <2>4. Hubs(q)' = Hubs(q)
    BY <1>1, <1>3, <1>6
  <2> QED BY <1>2, <1>4, <1>6, <2>1, <2>3, <2>4
<1>7. CASE Has(y, r)
  <2>1. y \in 1..edits \cup {None}
    <3>1. VaultTo(notes[Hub], edits)
      BY DEF Types, Vault
    <3>2. Hubs(r) \in 1..edits \cup {None}
      BY <3>1 DEF VaultTo, Hubs, At
    <3> QED BY <1>7, <3>2, AllTexts DEF Has
  <2>2. Hubs(q) \notin Line(y)
    BY <1>7 DEF CopiesApart
  <2> QED BY <1>1, <1>2, <2>1, <2>2
<1> QED BY <1>5, <1>6, <1>7

LEMMA PutsApart ==
  ASSUME Types, Apart, NEW v \in Vault, NEW p \in Path, NEW x, Puts(v, p, x), Newer'
  PROVE  Apart'
<1>1. UNCHANGED <<base, sync, wire>> /\ x \notin 1..edits
  BY DEF Puts
<1>2. \A y \in 1..edits \cup {None} :
        /\ Line(y)' = Line(y) /\ Line(y) \subseteq 1..edits
        /\ y \in Line(x)' => y \in Line(At(notes[v], p))
  BY DEF Puts
<1>3. /\ \A d \in Device : \A q : Known(d, q)' = Known(d, q) /\ (Pending(d, q)' <=> Pending(d, q))
      /\ \A q : Hubs(q)' = IF v = Hub /\ q = p THEN x ELSE Hubs(q)
      /\ \A d \in Device : \A q :
           /\ At(notes'[d], q) = IF v = d /\ q = p THEN x ELSE At(notes[d], q)
           /\ Mine(d, q)' = IF v = d /\ q = p /\ Shown(d, p) THEN x ELSE Mine(d, q)
           /\ v = d /\ q = p /\ Shown(d, p) => At(notes[d], q) = Mine(d, q)
  BY PutsLeaves
<1>4. CopiesApart'
  BY PutsCopies DEF Apart
<1>5. Told' /\ Once'
  BY <1>1 DEF Apart, Told, Tells, Once
<1>6. ASSUME NEW d \in Device PROVE Shape(d)'
  <2>1. Shape(d)
    BY DEF Apart
  <2> QED BY <1>1, <2>1 DEF Shape
<1>7. ASSUME NEW d \in Device PROVE OwnIsNew(d)'
  <2>1. OwnIsNew(d)
    BY DEF Apart
  <2>2. ASSUME NEW q \in Path, NEW z, z = Mine(d, q)', z # None, z # Known(d, q)
        PROVE  Fresh(z, d, q)'
    <3>1. CASE v = d /\ q = p /\ Shown(d, p)
      <4>1. z = x
        BY <1>3, <2>2, <3>1
      <4> QED BY <3>1, <4>1, EditFresh
    <3>2. CASE ~ (v = d /\ q = p /\ Shown(d, p))
      <4>1. z = Mine(d, q)
        BY <1>3, <2>2, <3>2
      <4>2. z \in 1..edits
        <5>1. z \in Own(d, q)
          BY <4>1 DEF Own
        <5> QED BY <2>2, <5>1, AllTexts
      <4>3. Fresh(z, d, q)
        BY <2>1, <2>2, <4>1 DEF OwnIsNew
      <4> QED BY <4>2, <4>3, PutsFresh
    <3> QED BY <3>1, <3>2
  <2>3. ASSUME NEW q \in Path, NEW z, z = sync[d].puts[q], Pending(d, q)
        PROVE  Fresh(z, d, q)'
    <3>1. z \in 1..edits
      <4>1. VaultTo(sync[d].puts, edits) /\ q \in DOMAIN sync[d].puts
        BY <2>3, OwnTypes DEF SyncTo, Pending
      <4> QED BY <2>3, <4>1 DEF VaultTo
    <3>2. Fresh(z, d, q)
      BY <2>1, <2>3 DEF OwnIsNew
    <3> QED BY <3>1, <3>2, PutsFresh
  <2> QED BY <1>1, <1>3, <2>2, <2>3 DEF OwnIsNew
<1>8. ASSUME NEW d \in Device, NEW q \in Path PROVE Knows(d, q)'
  <2> DEFINE S == sync[d]
  <2>1. Knows(d, q)
    BY DEF Apart
  <2>2. PICK b : b = At(base[d], q)
    OBVIOUS
  <2>3. PICK n : n = At(notes[d], q)
    OBVIOUS
  <2>4. PICK n2 : n2 = At(notes'[d], q)
    OBVIOUS
  <2>5. PICK h : h = Hubs(q)
    OBVIOUS
  <2>6. PICK h2 : h2 = Hubs(q)'
    OBVIOUS
  <2>7. PICK m : m = Mine(d, q)
    OBVIOUS
  <2>8. PICK m2 : m2 = Mine(d, q)'
    OBVIOUS
  <2>9. PICK f : f = At(S.fetched, q)
    OBVIOUS
  <2>10. PICK k : k = Known(d, q)
    OBVIOUS
  <2>11. {b, n, h, m, f} \subseteq 1..edits \cup {None} /\ At(S.agreed, q) \in 1..edits \cup {None}
    <3>1. Learnt(d, q) \subseteq 1..edits \cup {None} /\ Own(d, q) \subseteq 1..edits \cup {None}
          /\ h \in 1..edits \cup {None} /\ n \in 1..edits \cup {None}
      BY <2>3, <2>5, AllTexts
    <3>2. b \in Learnt(d, q) /\ f \in Learnt(d, q) /\ At(S.agreed, q) \in Learnt(d, q)
      BY <2>2, <2>9 DEF Learnt
    <3>3. m \in Own(d, q)
      BY <2>7 DEF Own
    <3> QED BY <3>1, <3>2, <3>3
  <2>12. \/ n2 = n /\ m2 = m /\ h2 = h
         \/ n2 = x /\ m2 = x /\ h2 = h /\ n = m /\ n = At(notes[v], p)
         \/ n2 = x /\ m2 = m /\ h2 = h /\ n = At(notes[v], p)
         \/ n2 = n /\ m2 = m /\ h2 = x
    <3>1. v = d => v # Hub
      BY HubAssumption
    <3> QED BY <1>3, <2>3, <2>4, <2>5, <2>6, <2>7, <2>8, <3>1
  <2>13. \A y \in 1..edits \cup {None} : y \in Line(n2)' => y \in Line(n)
    BY <1>2, <2>11, <2>12
  <2>14. \A y \in 1..edits \cup {None} : y \in Line(m2)' => y \in Line(m)
    BY <1>2, <2>11, <2>12
  <2>16. S.pc = "listed" \/ q \in S.todo => (At(S.here, q) # b /\ n2 # None => n2 # b)
    BY <1>1, <2>1, <2>2, <2>3, <2>11, <2>12 DEF Knows
  <2>17. (S.pc = "listed" /\ At(S.here, q) = None) \/ q \in S.drops => b \notin Line(n2)'
    BY <2>1, <2>2, <2>3, <2>11, <2>13 DEF Knows
  <2>18. q \in S.todo /\ At(S.there, q) # b =>
           (h2 # None => h2 # b) /\ (q \in DOMAIN S.fetched => S.fetched[q] # b)
    BY <1>1, <2>1, <2>2, <2>5, <2>11, <2>12 DEF Knows
  <2>19. h2 \in Line(m2)' => h2 = k
    <3>1. h \in Line(m) => h = k
      BY <2>1, <2>5, <2>7, <2>10 DEF Knows
    <3>2. h2 = h => (h2 \in Line(m2)' => h2 = k)
      BY <2>11, <2>14, <3>1
    <3>3. h2 = x /\ m2 = m => h2 \notin Line(m2)'
      BY <1>1, <1>2, <2>11
    <3> QED BY <2>12, <3>2, <3>3
  <2>20. q \in S.todo /\ f \in Line(m2)' => f = b
    BY <2>1, <2>2, <2>7, <2>9, <2>11, <2>14 DEF Knows
  <2>21. h2 \in Line(f)' => h2 = f
    <3>1. h \in Line(f) => h = f
      BY <2>1, <2>5, <2>9 DEF Knows
    <3>2. Line(f)' = Line(f) /\ Line(f) \subseteq 1..edits
      BY <1>2, <2>11
    <3> QED BY <1>1, <2>12, <3>1, <3>2
  <2>22. q \in DOMAIN S.puts => (n2 # None => n2 # At(S.agreed, q)) /\ n2 \notin past'[S.puts[q]]
    <3> SUFFICES ASSUME q \in DOMAIN S.puts
                 PROVE  (n2 # None => n2 # At(S.agreed, q)) /\ n2 \notin past'[S.puts[q]]
      OBVIOUS
    <3>1. VaultTo(S.puts, edits)
      BY OwnTypes DEF SyncTo
    <3>2. S.puts[q] \in 1..edits
      BY <3>1 DEF VaultTo
    <3>3. past'[S.puts[q]] = past[S.puts[q]] /\ past[S.puts[q]] \subseteq 1..edits
      BY <3>2 DEF Puts
    <3>4. (n # None => n # At(S.agreed, q)) /\ n \notin past[S.puts[q]]
      BY <2>1, <2>3 DEF Knows
    <3> HIDE DEF S
    <3> QED BY <1>1, <2>11, <2>12, <3>3, <3>4
  <2>23. sync'[d] = S /\ At(base'[d], q) = b /\ Known(d, q)' = k
    BY <1>1, <1>3, <2>2, <2>10
  <2> HIDE DEF S
  <2> QED BY <2>4, <2>6, <2>8, <2>9, <2>16, <2>17, <2>18, <2>19, <2>20, <2>21, <2>22, <2>23 DEF Knows
<1> QED BY <1>4, <1>5, <1>6, <1>7, <1>8 DEF Apart

(***************************************************************************)
(* The hub keeps apart                                                     *)
(***************************************************************************)
\* What the hub does with the request of c for p: it takes what c put, refuses it, or
\* deletes the note.
Serves(c, p) ==
  LET S == sync[c]
      X == sync'[c] IN
  /\ c \in Device /\ p \in Path
  /\ UNCHANGED <<base, edits, past>>
  /\ \A d \in Device : notes'[d] = notes[d]
  /\ \A d \in Device \ {c} : sync'[d] = sync[d]
  /\ X.pc = S.pc /\ X.here = S.here /\ X.there = S.there /\ X.fetched = S.fetched
  /\ X.agreed = S.agreed /\ X.todo = S.todo /\ X.doing = S.doing
  /\ X.puts = S.puts /\ X.drops = S.drops
  /\ \A q : q # p => Hubs(q)' = Hubs(q)
  /\ S.pc = "puts" => p \in DOMAIN S.puts \ S.stale
  /\ \/ S.pc = "puts" /\ X.stale = S.stale /\ Hubs(p)' = S.puts[p]
     \/ S.pc \in {"puts", "drops"} /\ X.stale = S.stale \cup {p} /\ Hubs(p)' = Hubs(p)
     \/ S.pc = "drops" /\ X.stale = S.stale /\ Hubs(p)' \in {None, Hubs(p)}
  /\ Asking(c, p)
  /\ \A e \in Device, q \in Path : Asking(e, q)' <=> Asking(e, q) /\ ~ (e = c /\ q = p)

LEMMA CheckThereServes ==
  ASSUME Types, Apart, NEW m \in wire, CheckThere(m)
  PROVE  \/ /\ wire' = (wire \ {m}) \cup {[m EXCEPT !.checked = TRUE]}
            /\ UNCHANGED <<notes, base, sync, edits, history>>
         \/ wire' = wire \ {m} /\ Serves(m.from, m.path)
<1>1. PICK c : c = m.from
  OBVIOUS
<1>2. PICK p : p = m.path
  OBVIOUS
<1> DEFINE S == sync[c]
           X == sync'[c]
           Y == [S EXCEPT !.stale = @ \cup {p}]
           gone == m.text = None /\ p \notin DOMAIN notes[Hub]
           fits == At(notes[Hub], p) = m.expect
<1>3. c \in Device /\ p \in Path /\ DOMAIN sync = Device
  BY <1>1, <1>2 DEF Types, WireTo
<1>4. Tells(m) /\ Once
  BY DEF Apart, Told
<1>5. /\ m.live /\ S.pc \in {"puts", "drops"}
      /\ S.pc = "puts" => p \in DOMAIN S.puts \ S.stale /\ m.text = S.puts[p]
      /\ S.pc = "drops" => m.text = None
  BY <1>1, <1>2, <1>4 DEF Tells
<1>6. /\ wire' = IF ~ gone /\ fits THEN (wire \ {m}) \cup {[m EXCEPT !.checked = TRUE]}
                                   ELSE wire \ {m}
      /\ UNCHANGED <<notes, base, edits, history>>
      /\ sync' = IF gone \/ fits THEN sync ELSE [sync EXCEPT ![c] = Y]
  BY <1>1, <1>2, <1>5 DEF CheckThere, Checked
<1>8. DOMAIN S = Fields /\ VaultTo(S.puts, edits)
  BY <1>3, OwnTypes DEF SyncTo
<1>9. /\ Y.pc = S.pc /\ Y.here = S.here /\ Y.there = S.there /\ Y.fetched = S.fetched
      /\ Y.agreed = S.agreed /\ Y.todo = S.todo /\ Y.doing = S.doing
      /\ Y.puts = S.puts /\ Y.drops = S.drops /\ Y.stale = S.stale \cup {p}
  <2> HIDE DEF S
  <2> QED BY <1>8 DEF Fields
<1>10. S.pc = "puts" => m.text # None
  <2>1. edits \in Nat
    BY DEF Types
  <2> QED BY <1>5, <1>8, <2>1, Nobody DEF VaultTo
<1> HIDE DEF Y
<1>11. CASE ~ gone /\ fits
  BY <1>6, <1>11
<1>12. CASE gone \/ ~ fits
  <2>1. wire' = wire \ {m}
    BY <1>6, <1>12
  <2>2. \A d \in Device \ {c} : sync'[d] = sync[d]
    BY <1>3, <1>6
  <2>3. X = IF gone \/ fits THEN S ELSE Y
    BY <1>3, <1>6
  <2>4. \A q : Hubs(q)' = Hubs(q)
    BY <1>6 DEF Hubs
  <2>5. \/ S.pc \in {"puts", "drops"} /\ X.stale = S.stale \cup {p} /\ Hubs(p)' = Hubs(p)
        \/ S.pc = "drops" /\ X.stale = S.stale /\ Hubs(p)' = Hubs(p)
    <3>1. CASE gone
      BY <1>5, <1>10, <2>3, <2>4, <3>1
    <3>2. CASE ~ gone
      BY <1>5, <1>9, <1>12, <2>3, <2>4, <3>2
    <3> QED BY <3>1, <3>2
  <2>6. /\ X.pc = S.pc /\ X.here = S.here /\ X.there = S.there /\ X.fetched = S.fetched
        /\ X.agreed = S.agreed /\ X.todo = S.todo /\ X.doing = S.doing
        /\ X.puts = S.puts /\ X.drops = S.drops
    BY <1>9, <2>3
  <2>7. Asking(c, p)
    BY <1>1, <1>2 DEF Asking
  <2>8. \A e \in Device, q \in Path : Asking(e, q)' <=> Asking(e, q) /\ ~ (e = c /\ q = p)
    BY <1>1, <1>2, <1>4, <2>1 DEF Asking, Once
  <2>9. UNCHANGED <<base, edits, past>> /\ \A d \in Device : notes'[d] = notes[d]
    BY <1>6 DEF history
  <2>10. Serves(c, p)
    BY <1>3, <1>5, <2>2, <2>4, <2>5, <2>6, <2>7, <2>8, <2>9 DEF Serves
  <2> QED BY <1>1, <1>2, <2>1, <2>10
<1> QED BY <1>11, <1>12

LEMMA ApplyServes ==
  ASSUME Types, Apart, NEW m \in wire, Apply(m)
  PROVE  wire' = wire \ {m} /\ Serves(m.from, m.path)
<1>1. PICK c : c = m.from
  OBVIOUS
<1>2. PICK p : p = m.path
  OBVIOUS
<1> DEFINE S == sync[c]
           new == IF m.text = None THEN Without(notes[Hub], p) ELSE With(notes[Hub], p, m.text)
<1>3. /\ c \in Device /\ p \in Path /\ Hub \notin Device /\ Hub \in Vault
      /\ DOMAIN notes = Vault /\ Device \subseteq Vault
  BY <1>1, <1>2, HubAssumption DEF Types, WireTo, Vault
<1>4. Tells(m) /\ Once
  BY DEF Apart, Told
<1>5. /\ m.live /\ S.pc \in {"puts", "drops"}
      /\ S.pc = "puts" => p \in DOMAIN S.puts \ S.stale /\ m.text = S.puts[p]
      /\ S.pc = "drops" => m.text = None
  BY <1>1, <1>2, <1>4 DEF Tells
<1>6. /\ wire' = wire \ {m} /\ UNCHANGED <<base, sync, edits, past>>
      /\ notes' = [notes EXCEPT ![Hub] = new]
  BY <1>2 DEF Apply
<1>7. (\A q : q # p => At(new, q) = At(notes[Hub], q)) /\ At(new, p) = m.text
  BY WithoutAt DEF With, Without, Restrict, At
<1> HIDE DEF new
<1>8. (\A d \in Device : notes'[d] = notes[d]) /\ notes'[Hub] = new
  BY <1>3, <1>6
<1>9. (\A q : q # p => Hubs(q)' = Hubs(q)) /\ Hubs(p)' = m.text
  BY <1>7, <1>8 DEF Hubs
<1>10. \/ S.pc = "puts" /\ Hubs(p)' = S.puts[p]
       \/ S.pc = "drops" /\ Hubs(p)' = None
  BY <1>5, <1>9
<1>11. Asking(c, p)
  BY <1>1, <1>2 DEF Asking
<1>12. \A e \in Device, q \in Path : Asking(e, q)' <=> Asking(e, q) /\ ~ (e = c /\ q = p)
  BY <1>1, <1>2, <1>4, <1>6 DEF Asking, Once
<1>13. Serves(c, p)
  BY <1>3, <1>5, <1>6, <1>8, <1>9, <1>10, <1>11, <1>12 DEF Serves
<1> QED BY <1>1, <1>2, <1>6, <1>13

LEMMA ServesLeaves ==
  ASSUME Types, NEW c \in Device, NEW p \in Path, Serves(c, p), NEW x, x = sync[c].puts[p]
  PROVE  /\ \A y : Line(y)' = Line(y)
         /\ \A e \in Device, q \in Path :
              /\ Learnt(e, q)' = Learnt(e, q) /\ Own(e, q)' = Own(e, q) /\ Mine(e, q)' = Mine(e, q)
              /\ ~ (e = c /\ q = p) => Known(e, q)' = Known(e, q)
              /\ Pending(e, q)' => Pending(e, q) /\ ~ (e = c /\ q = p)
         /\ \/ /\ Hubs(p)' = x /\ Known(c, p)' = x /\ x \in Own(c, p) /\ Pending(c, p)
               /\ p \in DOMAIN sync[c].puts
            \/ Hubs(p)' \in {None, Hubs(p)} /\ Known(c, p)' = Known(c, p)
         /\ Known(c, p) = At(sync[c].agreed, p)
<1> DEFINE S == sync[c]
           X == sync'[c]
<1>1. /\ UNCHANGED <<base, edits, past>>
      /\ \A d \in Device : notes'[d] = notes[d]
      /\ \A d \in Device \ {c} : sync'[d] = sync[d]
      /\ X.pc = S.pc /\ X.here = S.here /\ X.there = S.there /\ X.fetched = S.fetched
      /\ X.agreed = S.agreed /\ X.todo = S.todo /\ X.doing = S.doing
      /\ X.puts = S.puts /\ X.drops = S.drops
      /\ S.pc = "puts" => p \in DOMAIN S.puts \ S.stale
      /\ S.pc \in {"puts", "drops"} /\ X.stale \in {S.stale, S.stale \cup {p}}
      /\ Asking(c, p)
      /\ \A e \in Device, q \in Path : Asking(e, q)' <=> Asking(e, q) /\ ~ (e = c /\ q = p)
  BY DEF Serves
<1>2. \/ S.pc = "puts" /\ X.stale = S.stale /\ Hubs(p)' = S.puts[p]
      \/ S.pc \in {"puts", "drops"} /\ X.stale = S.stale \cup {p} /\ Hubs(p)' = Hubs(p)
      \/ S.pc = "drops" /\ X.stale = S.stale /\ Hubs(p)' \in {None, Hubs(p)}
  BY DEF Serves
<1>3. \A y : Line(y)' = Line(y)
  BY <1>1 DEF Line
<1>4. \A e \in Device : /\ sync'[e].fetched = sync[e].fetched /\ sync'[e].agreed = sync[e].agreed
                        /\ sync'[e].puts = sync[e].puts /\ sync'[e].doing = sync[e].doing
                        /\ sync'[e].pc = sync[e].pc
                        /\ sync'[e].here = sync[e].here /\ sync'[e].there = sync[e].there
  BY <1>1
<1>5. \A e \in Device, q \in Path : Learnt(e, q)' = Learnt(e, q)
  BY <1>1, <1>4 DEF Learnt
<1>6. \A e \in Device, q \in Path : Mine(e, q)' = Mine(e, q)
  BY <1>1, <1>4 DEF Mine, ActIn
<1>7. \A e \in Device, q \in Path : Own(e, q)' = Own(e, q)
  BY <1>4, <1>6 DEF Own
<1>8. \A e \in Device, q \in Path : ~ (e = c /\ q = p) => (Taken(e, q)' <=> Taken(e, q))
  <2> TAKE e \in Device, q \in Path
  <2>1. ~ (e = c /\ q = p) => (Asking(e, q)' <=> Asking(e, q))
    BY <1>1
  <2>2. ~ (e = c /\ q = p) => (q \in sync'[e].stale <=> q \in sync[e].stale)
    BY <1>1
  <2> QED BY <1>4, <2>1, <2>2 DEF Taken
<1>9. \A e \in Device, q \in Path : ~ (e = c /\ q = p) => Known(e, q)' = Known(e, q)
  BY <1>1, <1>4, <1>8 DEF Known
<1>10. \A e \in Device, q \in Path : Pending(e, q)' => Pending(e, q) /\ ~ (e = c /\ q = p)
  BY <1>1, <1>4 DEF Pending
<1>11. Known(c, p) = At(S.agreed, p)
  BY <1>1 DEF Known, Taken
<1>12. ~ Asking(c, p)'
  BY <1>1
<1>13. CASE S.pc = "puts" /\ X.stale = S.stale /\ Hubs(p)' = S.puts[p]
  <2>1. p \in DOMAIN S.puts \ S.stale /\ Taken(c, p)'
    BY <1>1, <1>12, <1>13 DEF Taken
  <2>2. Known(c, p)' = x
    BY <1>1, <1>13, <2>1 DEF Known
  <2>3. x \in Own(c, p)
    BY <2>1 DEF Own, At
  <2>4. Pending(c, p)
    BY <1>1, <2>1 DEF Pending
  <2> QED BY <1>3, <1>5, <1>6, <1>7, <1>9, <1>10, <1>11, <1>13, <2>1, <2>2, <2>3, <2>4
<1>14. CASE \/ S.pc \in {"puts", "drops"} /\ X.stale = S.stale \cup {p} /\ Hubs(p)' = Hubs(p)
            \/ S.pc = "drops" /\ X.stale = S.stale /\ Hubs(p)' \in {None, Hubs(p)}
  <2>1. ~ Taken(c, p)'
    BY <1>1, <1>14 DEF Taken
  <2>2. Known(c, p)' = Known(c, p)
    BY <1>1, <1>11, <2>1 DEF Known
  <2> QED BY <1>3, <1>5, <1>6, <1>7, <1>9, <1>10, <1>11, <1>14, <2>2
<1> QED BY <1>2, <1>13, <1>14

LEMMA ServesFresh ==
  ASSUME Types, NEW c \in Device, NEW p \in Path, Serves(c, p), NEW x, x = sync[c].puts[p],
         NEW e \in Device, NEW q \in Path, NEW z, Fresh(z, e, q),
         ~ (e = c /\ q = p) \/ Hubs(p)' \in {None, Hubs(p)} \/ z \notin Line(x)
  PROVE  Fresh(z, e, q)'
<1> SUFFICES ASSUME NEW y, Elsewhere(y, e, q)' PROVE z \notin Line(y)
  BY ServesLeaves DEF Fresh
<1>1. /\ \A d \in Device, r \in Path : Learnt(d, r)' = Learnt(d, r) /\ Own(d, r)' = Own(d, r)
      /\ Hubs(p)' \in {None, Hubs(p)} \/ (Hubs(p)' = x /\ x \in Own(c, p))
  BY ServesLeaves
<1>2. \A r : r # p => Hubs(r)' = Hubs(r)
  BY DEF Serves
<1>3. y = None => z \notin Line(y)
  BY DEF Line
<1>4. Elsewhere(y, e, q) => z \notin Line(y)
  BY DEF Fresh
<1>5. CASE \E r \in Path : y = Hubs(r)'
  <2>1. PICK r \in Path : y = Hubs(r)'
    BY <1>5
  <2>2. CASE y = None \/ y = Hubs(r)
    <3>1. y = Hubs(r) => Elsewhere(y, e, q)
      BY DEF Elsewhere
    <3> QED BY <1>3, <1>4, <2>2, <3>1
  <2>3. CASE r = p /\ y = x /\ x \in Own(c, p) /\ Hubs(p)' \notin {None, Hubs(p)}
    <3>1. ~ (e = c /\ q = p) => Elsewhere(y, e, q)
      BY <2>3 DEF Elsewhere
    <3> QED BY <1>4, <2>3, <3>1
  <2> QED BY <1>1, <1>2, <2>1, <2>2, <2>3
<1>6. CASE \E d \in Device, r \in Path :
             y \in Learnt(d, r)' \/ (y \in Own(d, r)' /\ ~ (d = e /\ r = q))
  <2>1. Elsewhere(y, e, q)
    BY <1>1, <1>6 DEF Elsewhere
  <2> QED BY <1>4, <2>1
<1> QED BY <1>5, <1>6 DEF Elsewhere

\* What the hub takes is new to everybody else.
LEMMA ServesNew ==
  ASSUME Types, Apart, NEW c \in Device, NEW p \in Path, Pending(c, p),
         NEW x, x = sync[c].puts[p]
  PROVE  /\ Fresh(x, c, p) /\ x \in 1..edits /\ x # None
         /\ \A n : n = At(notes[c], p) => (n # None => n # At(sync[c].agreed, p)) /\ n \notin past[x]
         /\ \A e \in Device : \A y \in Learnt(e, p) : x \notin Line(y) /\ x # y
         /\ \A e \in Device \ {c} : x \notin Line(Mine(e, p))
<1>1. OwnIsNew(c) /\ Knows(c, p)
  BY DEF Apart
<1>2. Fresh(x, c, p)
  BY <1>1 DEF OwnIsNew
<1>3. x \in 1..edits /\ x # None
  <2>1. VaultTo(sync[c].puts, edits) /\ p \in DOMAIN sync[c].puts
    BY OwnTypes DEF SyncTo, Pending
  <2>2. x \in 1..edits /\ edits \in Nat
    BY <2>1 DEF VaultTo, Types
  <2> QED BY <2>2, Nobody
<1>4. \A n : n = At(notes[c], p) => (n # None => n # At(sync[c].agreed, p)) /\ n \notin past[x]
  BY <1>1 DEF Knows, Pending
<1>5. ASSUME NEW e \in Device, NEW y \in Learnt(e, p) PROVE x \notin Line(y) /\ x # y
  <2>1. x \notin Line(y)
    <3>1. Elsewhere(y, c, p)
      BY <1>5 DEF Elsewhere
    <3> QED BY <1>2, <3>1 DEF Fresh
  <2> QED BY <1>3, <2>1 DEF Line
<1>6. ASSUME NEW e \in Device \ {c} PROVE x \notin Line(Mine(e, p))
  <2>1. PICK y : y = Mine(e, p)
    OBVIOUS
  <2>2. Elsewhere(y, c, p)
    BY <1>6, <2>1 DEF Elsewhere, Own
  <2> QED BY <1>2, <2>1, <2>2 DEF Fresh
<1> QED BY <1>2, <1>3, <1>4, <1>5, <1>6

LEMMA ServesCopies ==
  ASSUME Types, Apart, NEW c \in Device, NEW p \in Path, Serves(c, p)
  PROVE  CopiesApart'
<1> SUFFICES ASSUME NEW r \in Path, NEW q \in Path, Len(q.copies) > Len(r.copies),
                    NEW y, Has(y, r)'
             PROVE  Hubs(q)' \notin Line(y)'
  BY DEF CopiesApart
<1>1. PICK x : x = sync[c].puts[p]
  OBVIOUS
<1>2. /\ Line(y)' = Line(y)
      /\ \A e \in Device, s \in Path : Learnt(e, s)' = Learnt(e, s) /\ Own(e, s)' = Own(e, s)
      /\ \/ Hubs(p)' = x /\ x \in Own(c, p) /\ Pending(c, p)
         \/ Hubs(p)' \in {None, Hubs(p)}
  BY <1>1, ServesLeaves
<1>3. \A s : s # p => Hubs(s)' = Hubs(s)
  BY DEF Serves
<1>4. r # q
  BY LenProperties DEF Path
<1>5. y = None \/ Has(y, r)
  <2>1. CASE y = Hubs(r)'
    BY <1>2, <1>3, <2>1 DEF Has
  <2>2. CASE \E e \in Device : y \in Learnt(e, r)' \cup Own(e, r)'
    BY <1>2, <2>2 DEF Has
  <2> QED BY <2>1, <2>2 DEF Has
<1>6. CASE y = None
  BY <1>2, <1>6 DEF Line
<1>7. CASE Has(y, r)
  <2>1. Hubs(q) \notin Line(y)
    BY <1>7 DEF Apart, CopiesApart
  <2>2. None \notin Line(y)
    <3>1. Hubs(r) \in 1..edits \cup {None}
      BY AllTexts
    <3>2. y \in 1..edits \cup {None}
      BY <1>7, <3>1, AllTexts DEF Has
    <3> QED BY <3>2, Lines DEF Apart
  <2>3. CASE q = p /\ Hubs(p)' = x /\ Pending(c, p)
    <3>1. Fresh(x, c, p)
      BY <1>1, <2>3, ServesNew
    <3>2. Elsewhere(y, c, p)
      BY <1>4, <1>7, <2>3 DEF Has, Elsewhere
    <3> QED BY <1>2, <2>3, <3>1, <3>2 DEF Fresh
  <2>4. CASE Hubs(q)' \in {None, Hubs(q)}
    BY <1>2, <2>1, <2>2, <2>4
  <2> QED BY <1>2, <1>3, <2>3, <2>4
<1> QED BY <1>5, <1>6, <1>7

LEMMA ServesKnows ==
  ASSUME Types, Apart, NEW c \in Device, NEW p \in Path, Serves(c, p),
         NEW e \in Device, NEW q \in Path
  PROVE  Knows(e, q)'
<1> DEFINE S == sync[e]
           X == sync'[e]
<1>1. PICK x : x = sync[c].puts[p]
  OBVIOUS
<1>2. Knows(e, q)
  BY DEF Apart
<1>3. PICK b : b = At(base[e], q)
  OBVIOUS
<1>4. PICK n : n = At(notes[e], q)
  OBVIOUS
<1>5. PICK h : h = Hubs(q)
  OBVIOUS
<1>6. PICK h2 : h2 = Hubs(q)'
  OBVIOUS
<1>7. PICK m : m = Mine(e, q)
  OBVIOUS
<1>8. PICK f : f = At(S.fetched, q)
  OBVIOUS
<1>9. PICK k : k = Known(e, q)
  OBVIOUS
<1>10. PICK k2 : k2 = Known(e, q)'
  OBVIOUS
<1>11. /\ UNCHANGED <<base, past>> /\ notes'[e] = notes[e]
       /\ X.pc = S.pc /\ X.here = S.here /\ X.there = S.there /\ X.fetched = S.fetched
       /\ X.agreed = S.agreed /\ X.todo = S.todo /\ X.puts = S.puts /\ X.drops = S.drops
  BY DEF Serves
<1>12. Mine(e, q)' = m /\ \A y : Line(y)' = Line(y)
  BY <1>1, <1>7, ServesLeaves
<1>13. b \in Learnt(e, q) /\ f \in Learnt(e, q)
  BY <1>3, <1>8 DEF Learnt
<1>14. None \notin Line(m) /\ None \notin Line(f)
  <2>1. m \in 1..edits \cup {None} /\ f \in 1..edits \cup {None}
    <3>1. m \in Own(e, q)
      BY <1>7 DEF Own
    <3> QED BY <1>13, <3>1, AllTexts
  <2> QED BY <2>1, Lines DEF Apart
<1>15. \/ h2 = h /\ k2 = k
       \/ h2 = None /\ k2 = k
       \/ /\ q = p /\ h2 = x /\ (e = c => k2 = x)
          /\ x # b /\ x \notin Line(f) /\ x \notin Line(b) /\ (e # c => x \notin Line(m))
  <2>1. CASE q # p
    <3>1. h2 = h
      BY <1>5, <1>6, <2>1 DEF Serves
    <3> QED BY <1>1, <1>9, <1>10, <2>1, <3>1, ServesLeaves
  <2>2. CASE q = p
    <3>1. \/ h2 = x /\ Known(c, p)' = x /\ Pending(c, p)
          \/ h2 \in {None, h} /\ Known(c, p)' = Known(c, p)
      BY <1>1, <1>5, <1>6, <2>2, ServesLeaves
    <3>2. e # c => k2 = k
      BY <1>1, <1>9, <1>10, ServesLeaves
    <3>3. CASE h2 = x /\ Known(c, p)' = x /\ Pending(c, p)
      <4>1. x # b /\ x \notin Line(f) /\ x \notin Line(b)
        BY <1>1, <1>13, <2>2, <3>3, ServesNew
      <4>2. e # c => x \notin Line(m)
        BY <1>1, <1>7, <2>2, <3>3, ServesNew
      <4> QED BY <1>10, <2>2, <3>3, <4>1, <4>2
    <3>4. CASE h2 \in {None, h} /\ Known(c, p)' = Known(c, p)
      BY <1>9, <1>10, <2>2, <3>2, <3>4
    <3> QED BY <3>1, <3>3, <3>4
  <2> QED BY <2>1, <2>2
<1>16. /\ S.pc = "listed" \/ q \in S.todo => (At(S.here, q) # b /\ n # None => n # b)
       /\ (S.pc = "listed" /\ At(S.here, q) = None) \/ q \in S.drops => b \notin Line(n)
       /\ q \in S.todo /\ At(S.there, q) # b =>
            (h # None => h # b) /\ (q \in DOMAIN S.fetched => S.fetched[q] # b)
       /\ h \in Line(m) => h = k
       /\ q \in S.todo /\ f \in Line(m) => f = b
       /\ h \in Line(f) => h = f
       /\ q \in DOMAIN S.puts => (n # None => n # At(S.agreed, q)) /\ n \notin past[S.puts[q]]
  BY <1>2, <1>3, <1>4, <1>5, <1>7, <1>8, <1>9 DEF Knows
<1>17. q \in S.todo /\ At(S.there, q) # b => (h2 # None => h2 # b)
  BY <1>15, <1>16
<1>18. h2 \in Line(m) => h2 = k2
  BY <1>14, <1>15, <1>16
<1>19. h2 \in Line(f) => h2 = f
  BY <1>14, <1>15, <1>16
<1>20. At(notes'[e], q) = n /\ At(base'[e], q) = b /\ At(X.fetched, q) = f /\ past' = past
  BY <1>3, <1>4, <1>8, <1>11
<1> HIDE DEF S, X
<1> QED BY <1>6, <1>10, <1>11, <1>12, <1>16, <1>17, <1>18, <1>19, <1>20 DEF Knows, S, X

LEMMA ServesApart ==
  ASSUME Types, Apart, NEW m \in wire, wire' = wire \ {m}, Serves(m.from, m.path)
  PROVE  Apart'
<1>1. PICK c \in Device, p \in Path : c = m.from /\ p = m.path /\ Serves(c, p)
  BY DEF Serves
<1>2. wire' = wire \ {m} /\ Once'
  BY DEF Apart, Once
<1>3. PICK x : x = sync[c].puts[p]
  OBVIOUS
<1>4. /\ \A e \in Device, q \in Path :
           /\ Mine(e, q)' = Mine(e, q)
           /\ ~ (e = c /\ q = p) => Known(e, q)' = Known(e, q)
           /\ Pending(e, q)' => Pending(e, q) /\ ~ (e = c /\ q = p)
      /\ \/ Hubs(p)' = x /\ Known(c, p)' = x /\ Pending(c, p)
         \/ Hubs(p)' \in {None, Hubs(p)} /\ Known(c, p)' = Known(c, p)
      /\ Known(c, p) = At(sync[c].agreed, p)
  BY <1>1, <1>3, ServesLeaves
<1>5. Newer'
  BY <1>1 DEF Apart, Newer, Serves
<1>6. CopiesApart'
  BY <1>1, ServesCopies
<1>7. \A e \in Device \ {c} : sync'[e] = sync[e]
  BY <1>1 DEF Serves
<1>8. Told'
  <2> SUFFICES ASSUME NEW k \in wire, k # m PROVE Tells(k)'
    BY <1>2 DEF Told
  <2>1. Tells(k) /\ Told /\ k.from \in Device
    BY DEF Apart, Told, Types, WireTo
  <2>2. CASE k.from # c
    BY <1>7, <2>1, <2>2 DEF Tells
  <2>3. CASE k.from = c
    <3>1. k.path # p
      BY <1>1, <2>3 DEF Apart, Once
    <3>2. /\ sync'[c].pc = sync[c].pc /\ sync'[c].there = sync[c].there
          /\ sync'[c].puts = sync[c].puts /\ sync'[c].drops = sync[c].drops
          /\ sync'[c].stale \subseteq sync[c].stale \cup {p}
      BY <1>1 DEF Serves
    <3> QED BY <2>1, <2>3, <3>1, <3>2 DEF Tells
  <2> QED BY <2>2, <2>3
<1>9. ASSUME NEW e \in Device PROVE Shape(e)'
  <2>1. Shape(e)
    BY DEF Apart
  <2>2. CASE e # c
    <3>1. sync'[e] = sync[e] /\ base' = base
      BY <1>1, <1>7, <2>2 DEF Serves
    <3> QED BY <2>1, <3>1 DEF Shape
  <2>3. CASE e = c
    <3> DEFINE S == sync[e]
               X == sync'[e]
    <3>1. /\ base' = base /\ X.pc = S.pc /\ X.here = S.here /\ X.there = S.there
          /\ X.fetched = S.fetched /\ X.agreed = S.agreed /\ X.todo = S.todo
          /\ X.puts = S.puts /\ X.drops = S.drops /\ S.pc \in {"puts", "drops"}
      BY <1>1, <2>3 DEF Serves
    <3>2. \A q : ActIn(X, base[e], q) = ActIn(S, base[e], q)
      BY <3>1 DEF ActIn
    <3>3. X.todo = {} /\ \A q \in X.drops : /\ ActIn(X, base[e], q) = "deleteThere"
                                            /\ At(X.agreed, q) = At(base[e], q)
                                            /\ q \notin DOMAIN X.puts
      BY <2>1, <3>1, <3>2 DEF Shape
    <3> HIDE DEF S
    <3> QED BY <3>1, <3>3 DEF Shape
  <2> QED BY <2>2, <2>3
<1>10. ASSUME NEW e \in Device PROVE OwnIsNew(e)'
  <2>1. OwnIsNew(e)
    BY DEF Apart
  <2>2. ASSUME NEW q \in Path, NEW z, z = Mine(e, q), z # None, z # Known(e, q)'
        PROVE  Fresh(z, e, q)'
    <3>1. CASE ~ (e = c /\ q = p)
      <4>1. Fresh(z, e, q)
        BY <1>4, <2>1, <2>2, <3>1 DEF OwnIsNew
      <4> QED BY <1>1, <1>3, <3>1, <4>1, ServesFresh
    <3>2. CASE e = c /\ q = p /\ Hubs(p)' \in {None, Hubs(p)} /\ Known(c, p)' = Known(c, p)
      <4>1. Fresh(z, e, q)
        BY <2>1, <2>2, <3>2 DEF OwnIsNew
      <4> QED BY <1>1, <1>3, <3>2, <4>1, ServesFresh
    <3>3. CASE e = c /\ q = p /\ Known(c, p)' = x /\ Pending(c, p)
      <4>1. z = At(notes[c], p)
        BY <2>2, <3>3 DEF Mine
      <4>2. z # At(sync[c].agreed, p) /\ z \notin past[x]
        BY <1>3, <2>2, <3>3, <4>1, ServesNew
      <4>3. z \notin Line(x)
        BY <2>2, <3>3, <4>2 DEF Line
      <4>4. Fresh(z, e, q)
        BY <1>4, <2>1, <2>2, <3>3, <4>2 DEF OwnIsNew
      <4> QED BY <1>1, <1>3, <4>3, <4>4, ServesFresh
    <3> QED BY <1>4, <3>1, <3>2, <3>3
  <2>3. ASSUME NEW q \in Path, NEW z, z = sync[e].puts[q], Pending(e, q)'
        PROVE  Fresh(z, e, q)'
    <3>1. Pending(e, q) /\ ~ (e = c /\ q = p)
      BY <1>4, <2>3
    <3>2. Fresh(z, e, q)
      BY <2>1, <2>3, <3>1 DEF OwnIsNew
    <3> QED BY <1>1, <1>3, <3>1, <3>2, ServesFresh
  <2>4. sync'[e].puts = sync[e].puts
    BY <1>1 DEF Serves
  <2> QED BY <1>4, <2>2, <2>3, <2>4 DEF OwnIsNew
<1>11. ASSUME NEW e \in Device PROVE \A q \in Path : Knows(e, q)'
  BY <1>1, ServesKnows
<1> QED BY <1>2, <1>5, <1>6, <1>8, <1>9, <1>10, <1>11 DEF Apart

\* That a request is checked changes nothing for the devices.
LEMMA FlagApart ==
  ASSUME Types, Apart, NEW m \in wire, wire' = (wire \ {m}) \cup {[m EXCEPT !.checked = TRUE]},
         UNCHANGED <<notes, base, sync, edits, history>>
  PROVE  Apart'
<1>1. PICK k : k = [m EXCEPT !.checked = TRUE]
  OBVIOUS
<1>2. k.from = m.from /\ k.path = m.path /\ k.text = m.text /\ k.expect = m.expect /\ k.live = m.live
  BY <1>1, CheckedIs
<1>3. wire' = (wire \ {m}) \cup {k}
  BY <1>1
<1>4. notes' = notes /\ base' = base /\ sync' = sync /\ edits' = edits /\ past' = past
  BY DEF history
<1>5. Told'
  BY <1>2, <1>3, <1>4 DEF Apart, Told, Tells
<1>6. Once'
  BY <1>2, <1>3 DEF Apart, Once
<1>7. \A d, q : Asking(d, q)' <=> Asking(d, q)
  BY <1>2, <1>3 DEF Asking
<1>8. Newer'
  BY <1>4 DEF Apart, Newer
<1>9. /\ \A x : Line(x)' = Line(x)
      /\ \A q : Hubs(q)' = Hubs(q)
      /\ \A d, q : /\ Mine(d, q)' = Mine(d, q) /\ Learnt(d, q)' = Learnt(d, q)
                   /\ Pending(d, q)' <=> Pending(d, q)
                   /\ Known(d, q)' = Known(d, q)
  BY <1>4, <1>7 DEF Line, Hubs, Mine, Learnt, Pending, Known, Taken
<1>10. \A d, q : Own(d, q)' = Own(d, q)
  BY <1>4, <1>9 DEF Own
<1>11. \A x, d, q : Fresh(x, d, q)' <=> Fresh(x, d, q)
  BY <1>9, <1>10 DEF Fresh, Elsewhere
<1>12. CopiesApart'
  BY <1>9, <1>10 DEF Apart, CopiesApart, Has
<1>13. \A d \in Device : OwnIsNew(d)'
  BY <1>4, <1>9, <1>11 DEF Apart, OwnIsNew
<1>14. \A d \in Device : Shape(d)'
  BY <1>4 DEF Apart, Shape
<1>15. \A d \in Device : \A q \in Path : Knows(d, q)'
  BY <1>4, <1>9 DEF Apart, Knows
<1> QED BY <1>5, <1>6, <1>8, <1>12, <1>13, <1>14, <1>15 DEF Apart


(***************************************************************************)
(* Conflicts are real until a sync fails                                   *)
(***************************************************************************)
LEMMA InitApart == Init => Apart
<1> SUFFICES ASSUME Init PROVE Apart
  OBVIOUS
<1>1. /\ \A q : At(Empty, q) = None /\ Line(None) = {} /\ DOMAIN Empty = {}
  BY DEF At, Empty, Line
<1>2. /\ wire = {} /\ \A d \in Device : base[d] = Empty /\ sync[d] = Rest /\ notes[d] = Empty
      /\ notes[Hub] = Empty
  BY DEF Init, Vault
<1>3. /\ Rest.pc = "rest" /\ Rest.here = Empty /\ Rest.there = Empty /\ Rest.fetched = Empty
      /\ Rest.agreed = Empty /\ Rest.puts = Empty /\ Rest.drops = {} /\ Rest.todo = {}
      /\ Rest.stale = {}
  BY DEF Rest
<1>4. \A q : Hubs(q) = None
  BY <1>1, <1>2 DEF Hubs
<1>5. \A d \in Device : \A q : Mine(d, q) = None /\ ~ Pending(d, q)
  BY <1>1, <1>2, <1>3 DEF Mine, Pending
<1>6. \A d \in Device : \A q : Learnt(d, q) = {None} /\ Own(d, q) = {None}
  BY <1>1, <1>2, <1>3, <1>5 DEF Learnt, Own
<1>7. Newer
  BY DEF Init, Newer
<1>8. CopiesApart
  BY <1>1, <1>4, <1>6 DEF CopiesApart, Has
<1>9. Told /\ Once
  BY <1>2 DEF Told, Once
<1>10. ASSUME NEW d \in Device PROVE OwnIsNew(d) /\ Shape(d) /\ \A q \in Path : Knows(d, q)
  <2>1. OwnIsNew(d)
    BY <1>5 DEF OwnIsNew
  <2>2. Shape(d)
    BY <1>2, <1>3 DEF Shape
  <2>3. \A q \in Path : Knows(d, q)
    BY <1>1, <1>2, <1>3, <1>4, <1>5 DEF Knows
  <2> QED BY <2>1, <2>2, <2>3
<1> QED BY <1>7, <1>8, <1>9, <1>10 DEF Apart

LEMMA NextApart ==
  ASSUME Big = {}, IInv, Apart, [Next]_vars, ~ failed'
  PROVE  Apart'
<1>1. Types /\ \A d \in Device : Good(d)
  BY DEF IInv
<1>2. CASE UNCHANGED vars
  <2>1. /\ notes' = notes /\ base' = base /\ sync' = sync /\ wire' = wire /\ edits' = edits
        /\ past' = past
    BY <1>2 DEF vars, history
  <2>2. Newer' /\ Told' /\ Once'
    BY <2>1 DEF Apart, Newer, Told, Tells, Once
  <2>3. /\ \A x : Line(x)' = Line(x)
        /\ \A q : Hubs(q)' = Hubs(q)
        /\ \A d, q : /\ Mine(d, q)' = Mine(d, q) /\ Learnt(d, q)' = Learnt(d, q)
                     /\ Pending(d, q)' <=> Pending(d, q)
                     /\ Known(d, q)' = Known(d, q)
    BY <2>1 DEF Line, Hubs, Mine, Learnt, Pending, Known, Taken, Asking
  <2>4. \A d, q : Own(d, q)' = Own(d, q)
    BY <2>1, <2>3 DEF Own
  <2>5. \A x, d, q : Fresh(x, d, q)' <=> Fresh(x, d, q)
    BY <2>3, <2>4 DEF Fresh, Elsewhere
  <2>6. CopiesApart'
    BY <2>3, <2>4 DEF Apart, CopiesApart, Has
  <2>7. \A d \in Device : OwnIsNew(d)'
    BY <2>1, <2>3, <2>5 DEF Apart, OwnIsNew
  <2>8. \A d \in Device : Shape(d)'
    BY <2>1 DEF Apart, Shape
  <2>9. \A d \in Device : \A q \in Path : Knows(d, q)'
    BY <2>1, <2>3 DEF Apart, Knows
  <2> QED BY <2>2, <2>6, <2>7, <2>8, <2>9 DEF Apart
<1>3. CASE Edit
  <2>1. PICK v \in Vault : \E p \in Path :
          /\ p.copies = << >> \/ p \in DOMAIN notes[v]
          /\ Write(v, p) \/ Delete(v, p)
    BY <1>1, <1>3, EditPath
  <2>2. PICK p \in Path : /\ p.copies = << >> \/ p \in DOMAIN notes[v]
                          /\ Write(v, p) \/ Delete(v, p)
    BY <2>1
  <2>3. Newer' /\ \E x : Puts(v, p, x)
    BY <1>1, <2>2, EditPuts DEF Apart
  <2> QED BY <1>1, <2>3, PutsApart
<1>4. ASSUME NEW d \in Device, SyncStep(d) \/ Fail(d) PROVE Apart'
  <2>1. ~ Fail(d)
    BY DEF Fail
  <2> QED BY <1>1, <1>4, <2>1, ListHereApart, ListThereApart, FetchApart, StepApart,
             SendPutsApart, SendDropsApart, SaveApart DEF SyncStep
<1>5. CASE Serve
  BY <1>1, <1>5, FlagApart, CheckThereServes, ApplyServes, ServesApart DEF Serve
<1> QED BY <1>2, <1>3, <1>4, <1>5 DEF Next

\* As long as no sync fails and no note is too long to be listed, a note is in conflict only if its two texts were written apart, whatever the edits in between and
\* however many devices sync: none takes what it agreed on for somebody else's doing.
THEOREM ConflictsReal == ASSUME Big = {} PROVE Spec => []ConflictsAreRealUnlessFailed
<1>1. Init => AInv
  BY InitInv, InitApart DEF AInv
<1>2. AInv /\ [Next]_vars => AInv'
  <2> SUFFICES ASSUME AInv, [Next]_vars PROVE AInv'
    OBVIOUS
  <2>1. IInv'
    BY NextInv DEF AInv
  <2>2. ~ failed' => Apart
    BY NextFailed DEF AInv
  <2>3. ~ failed' => Apart'
    BY <2>2, NextApart DEF AInv
  <2> QED BY <2>1, <2>3 DEF AInv
<1>3. AInv => ConflictsAreRealUnlessFailed
  BY ApartConflicts DEF AInv, IInv, ConflictsAreRealUnlessFailed
<1> QED BY <1>1, <1>2, <1>3, PTL DEF Spec
===============================================================================
