----------------------------- MODULE StoreProofs -----------------------------
(***************************************************************************)
(* What the stores of any number of processes remember of one session is   *)
(* what its files say, for any number of calls, crashes and failed writes. *)
(***************************************************************************)
EXTENDS Store, FiniteSetTheorems, SequenceTheorems, WellFoundedInduction, TLAPS

(***************************************************************************)
(* Induction over the naturals                                             *)
(***************************************************************************)
LEMMA Least ==
  ASSUME NEW S \in SUBSET Nat, S # {}
  PROVE  \E n \in S : \A m \in S : n <= m
<1> DEFINE R == {ss \in Nat \X Nat : ss[1] < ss[2]}
<1>1. IsWellFoundedOn(R, Nat)
  BY NatLessThanWellFounded, Zenon DEF OpToRel
<1> HIDE DEF R
<1>2. PICK n \in S : \A m \in S : <<m, n>> \notin R
  BY <1>1, WFMin, Zenon
<1>3. \A m \in S : <<m, n>> \in R <=> m < n
  BY DEF R
<1>4. \A m \in S : n <= m
  <2> TAKE m \in S
  <2>1. ~(m < n)
    BY <1>2, <1>3
  <2> QED BY <2>1
<1> QED BY <1>4

\* What holds of 0 and passes from each number to the next holds of all.
LEMMA Climbs ==
  ASSUME NEW S \in SUBSET Nat, 0 \in S, \A n \in S : n + 1 \in S
  PROVE  S = Nat
<1> SUFFICES ASSUME Nat \ S # {}
             PROVE  FALSE
  OBVIOUS
<1>1. PICK n \in Nat \ S : \A m \in Nat \ S : n <= m
  BY Least
<1>2. n # 0 /\ n - 1 \in Nat
  OBVIOUS
<1>3. n - 1 \in S
  BY <1>1, <1>2
<1> QED BY <1>2, <1>3

(***************************************************************************)
(* Lines                                                                   *)
(***************************************************************************)
Text == Seq((Event \X {1, 2}) \cup {NL})

LEMMA CutIs ==
  ASSUME NEW b \in Text
  PROVE  /\ Cut(b) \in 0..Len(b)
         /\ Cut(b) = 0 \/ b[Cut(b)] = NL
         /\ \A j \in (Cut(b) + 1)..Len(b) : b[j] # NL
<1> DEFINE IsCut(k) == /\ k = 0 \/ b[k] = NL
                       /\ \A j \in (k + 1)..Len(b) : b[j] # NL
           S == {m \in 0..Len(b) : Len(b) - m = 0 \/ b[Len(b) - m] = NL}
<1>1. Len(b) \in Nat
  BY DEF Text
<1>2. Len(b) \in S
  BY <1>1
<1>3. S \in SUBSET Nat
  BY <1>1
<1> HIDE DEF S
<1>4. PICK m \in S : \A n \in S : m <= n
  BY <1>2, <1>3, Least
<1>5. Len(b) - m \in 0..Len(b) /\ IsCut(Len(b) - m)
  <2>1. m \in 0..Len(b) /\ (Len(b) - m = 0 \/ b[Len(b) - m] = NL)
    BY DEF S
  <2>2. ASSUME NEW j \in (Len(b) - m + 1)..Len(b)
        PROVE  b[j] # NL
    <3>1. Len(b) - j \in 0..Len(b) /\ Len(b) - j < m /\ Len(b) - (Len(b) - j) = j
      BY <1>1, <2>1
    <3> QED BY <1>4, <3>1 DEF S
  <2> QED BY <1>1, <2>1, <2>2
<1>6. \E k \in 0..Len(b) : IsCut(k)
  BY <1>5
<1>7. Cut(b) = CHOOSE k \in 0..Len(b) : IsCut(k)
  BY DEF Cut
<1> QED BY <1>6, <1>7, Zenon

LEMMA CutsAtEnd ==
  ASSUME NEW b \in Text
  PROVE  Cut(b) = Len(b) <=> (Len(b) = 0 \/ b[Len(b)] = NL)
<1>1. Len(b) \in Nat
  BY DEF Text
<1> QED BY <1>1, CutIs

LEMMA EventOfLine ==
  ASSUME NEW b, NEW k \in Nat, EndsEvent(b, k)
  PROVE  b[k - 1][1] \in Event /\ k > 2 /\ b[k] = NL /\ b[k - 1] = <<b[k - 1][1], 2>>
BY DEF EndsEvent

\* What was read up to each byte.
IsUpTo(g, n, b, skip) ==
  g = [k \in 0..n |->
        IF k = 0 THEN <<>>
        ELSE IF k > skip /\ EndsEvent(b, k) THEN Append(g[k - 1], b[k - 1][1])
        ELSE g[k - 1]]

LEMMA UpToExists ==
  ASSUME NEW b, NEW skip
  PROVE  \A n \in Nat : \E g : IsUpTo(g, n, b, skip)
<1> DEFINE S == {n \in Nat : \E g : IsUpTo(g, n, b, skip)}
<1>1. 0 \in S
  <2>1. IsUpTo([k \in 0..0 |-> <<>>], 0, b, skip)
    BY DEF IsUpTo
  <2> QED BY <2>1
<1>2. ASSUME NEW n \in S
      PROVE  n + 1 \in S
  <2>1. PICK g : IsUpTo(g, n, b, skip)
    OBVIOUS
  <2> DEFINE next == IF n + 1 > skip /\ EndsEvent(b, n + 1) THEN Append(g[n], b[n][1]) ELSE g[n]
             h == [k \in 0..(n + 1) |-> IF k = n + 1 THEN next ELSE g[k]]
             f(x) == [k \in 0..(n + 1) |->
                        IF k = 0 THEN <<>>
                        ELSE IF k > skip /\ EndsEvent(b, k) THEN Append(x[k - 1], b[k - 1][1])
                        ELSE x[k - 1]]
  <2>2. ASSUME NEW k \in 0..(n + 1)
        PROVE  h[k] = f(h)[k]
    <3>1. CASE k = n + 1
      BY <3>1
    <3>2. CASE k # n + 1
      <4>1. k \in 0..n /\ (k # 0 => k - 1 \in 0..(n + 1) /\ k - 1 # n + 1)
        BY <3>2
      <4>2. g[k] = IF k = 0 THEN <<>>
                   ELSE IF k > skip /\ EndsEvent(b, k) THEN Append(g[k - 1], b[k - 1][1])
                   ELSE g[k - 1]
        BY <2>1, <4>1, Zenon DEF IsUpTo
      <4> QED BY <3>2, <4>1, <4>2
    <3> QED BY <3>1, <3>2
  <2>3. IsUpTo(h, n + 1, b, skip)
    BY <2>2 DEF IsUpTo
  <2> QED BY <2>3
<1> HIDE DEF S
<1>3. S = Nat
  BY <1>1, <1>2, Climbs DEF S
<1> QED BY <1>3 DEF S

LEMMA EventsIs ==
  ASSUME NEW b \in Text, NEW skip
  PROVE  \E g : IsUpTo(g, Len(b), b, skip) /\ Events(b, skip) = g[Len(b)]
<1>1. Len(b) \in Nat
  BY DEF Text
<1>2. \E g : IsUpTo(g, Len(b), b, skip)
  BY <1>1, UpToExists
<1> QED BY <1>2, Zenon DEF IsUpTo, Events

LEMMA UpToStep ==
  ASSUME NEW g, NEW n \in Nat, NEW b, NEW skip, IsUpTo(g, n, b, skip)
  PROVE  /\ g[0] = <<>>
         /\ \A k \in 1..n :
              g[k] = IF k > skip /\ EndsEvent(b, k) THEN Append(g[k - 1], b[k - 1][1])
                     ELSE g[k - 1]
<1>1. \A k \in 0..n : g[k] = IF k = 0 THEN <<>>
                   ELSE IF k > skip /\ EndsEvent(b, k) THEN Append(g[k - 1], b[k - 1][1])
                   ELSE g[k - 1]
  BY Zenon DEF IsUpTo
<1> QED BY <1>1

LEMMA UpToType ==
  ASSUME NEW g, NEW n \in Nat, NEW b, NEW skip, IsUpTo(g, n, b, skip)
  PROVE  \A k \in 0..n : g[k] \in Seq(Event)
<1> DEFINE S == {k \in Nat : k <= n => g[k] \in Seq(Event)}
<1>a. /\ g[0] = <<>>
      /\ \A k \in 1..n :
           g[k] = IF k > skip /\ EndsEvent(b, k) THEN Append(g[k - 1], b[k - 1][1])
                  ELSE g[k - 1]
  BY UpToStep
<1>b. <<>> \in Seq(Event)
  OBVIOUS
<1>1. 0 \in S
  BY <1>a, <1>b
<1>2. ASSUME NEW k \in S
      PROVE  k + 1 \in S
  <2>1. SUFFICES ASSUME k + 1 <= n
                 PROVE  g[k + 1] \in Seq(Event)
    OBVIOUS
  <2>2. g[k] \in Seq(Event)
    BY <2>1
  <2>3. g[k + 1] = IF k + 1 > skip /\ EndsEvent(b, k + 1) THEN Append(g[k], b[k][1]) ELSE g[k]
    <3>1. k + 1 \in 1..n /\ (k + 1) - 1 = k
      BY <2>1
    <3> QED BY <1>a, <3>1
  <2>4. EndsEvent(b, k + 1) => b[k][1] \in Event
    BY EventOfLine
  <2> QED BY <2>2, <2>3, <2>4
<1> HIDE DEF S
<1>3. S = Nat
  BY <1>1, <1>2, Climbs DEF S
<1> QED BY <1>3 DEF S

LEMMA EventsType ==
  ASSUME NEW b \in Text, NEW skip
  PROVE  Events(b, skip) \in Seq(Event)
<1>1. Len(b) \in Nat
  BY DEF Text
<1> QED BY <1>1, EventsIs, UpToType

\* Whether a newline ends an event can be told from its own part of the file, if that
\* begins where a line begins.
EndsWith(b, n, a) ==
  /\ Len(b) = n + Len(a) /\ \A j \in 1..Len(a) : b[n + j] = a[j]
  /\ n = 0 \/ b[n] = NL

LEMMA EndsShift ==
  ASSUME NEW a \in Text, NEW b \in Text, NEW n \in Nat, EndsWith(b, n, a)
  PROVE  \A j \in 1..Len(a) : EndsEvent(b, n + j) <=> EndsEvent(a, j)
<1> SUFFICES ASSUME NEW j \in 1..Len(a)
             PROVE  EndsEvent(b, n + j) <=> EndsEvent(a, j)
  OBVIOUS
<1>1. Len(a) \in Nat /\ j \in Nat /\ n + j \in Nat
  BY DEF Text
<1>2. \A e, i : NL # <<e, i>>
  BY DEF NL
<1>3. (\A i \in 1..Len(a) : b[n + i] = a[i]) /\ (n = 0 \/ b[n] = NL)
  BY DEF EndsWith
<1>4. CASE j <= 2
  <2>1. ~EndsEvent(a, j)
    BY <1>4, <1>1 DEF EndsEvent
  <2>2. ASSUME EndsEvent(b, n + j)
        PROVE  FALSE
    <3>1. PICK e \in Event : n + j > 2 /\ b[n + j - 2] = <<e, 1>> /\ b[n + j - 1] = <<e, 2>>
      BY <2>2 DEF EndsEvent
    <3>2. j = 1 \/ j = 2
      BY <1>1, <1>4
    <3>3. b[n] = <<e, 1>> \/ b[n] = <<e, 2>>
      BY <3>1, <3>2, <1>1
    <3>4. n # 0
      BY <3>1, <3>2
    <3> QED BY <3>3, <3>4, <1>2, <1>3
  <2> QED BY <2>1, <2>2
<1>5. CASE j > 2
  <2>1. b[n + j - 2] = a[j - 2] /\ b[n + j - 1] = a[j - 1]
    <3>1. j - 2 \in 1..Len(a) /\ j - 1 \in 1..Len(a)
      BY <1>1, <1>5
    <3>2. n + (j - 2) = n + j - 2 /\ n + (j - 1) = n + j - 1
      BY <1>1
    <3> QED BY <3>1, <3>2, <1>3
  <2>2. (n + j = 3 \/ b[n + j - 3] = NL) <=> (j = 3 \/ a[j - 3] = NL)
    <3>1. CASE j = 3
      <4>1. n + j - 3 = n
        BY <3>1
      <4> QED BY <3>1, <4>1, <1>3
    <3>2. CASE j # 3
      <4>1. j - 3 \in 1..Len(a) /\ n + (j - 3) = n + j - 3
        BY <3>2, <1>1, <1>5
      <4>2. b[n + j - 3] = a[j - 3] /\ n + j # 3
        BY <4>1, <1>1, <1>3, <1>5
      <4> QED BY <3>2, <4>2
    <3> QED BY <3>1, <3>2
  <2>3. n + j > 2
    BY <1>1, <1>5
  <2>4. b[n + j] = a[j] /\ j > 2
    BY <1>1, <1>3, <1>5
  <2> QED BY <2>1, <2>2, <2>3, <2>4 DEF EndsEvent
<1>6. j <= 2 \/ j > 2
  BY <1>1
<1> QED BY <1>4, <1>5, <1>6

LEMMA AppendLast ==
  ASSUME NEW x \in Seq(Event), NEW y \in Seq(Event), NEW e \in Event
  PROVE  Append(x \o y, e) = x \o Append(y, e)
<1>1. x \o y \in Seq(Event) /\ <<e>> \in Seq(Event)
  OBVIOUS
<1>2. Append(x \o y, e) = (x \o y) \o <<e>> /\ Append(y, e) = y \o <<e>>
  BY <1>1, AppendIsConcat
<1>3. (x \o y) \o <<e>> = x \o (y \o <<e>>)
  BY <1>1, ConcatAssociative
<1> QED BY <1>2, <1>3

Joined(x, y) == x \o y

LEMMA UpToExtends ==
  ASSUME NEW a \in Text, NEW b \in Text, NEW n \in Nat, EndsWith(b, n, a),
         NEW s \in Nat, s <= n,
         NEW g, NEW h, IsUpTo(g, Len(b), b, s), IsUpTo(h, Len(a), a, 0)
  PROVE  g[Len(b)] = Joined(g[n], h[Len(a)])
<1> USE DEF EndsWith
<1>1. Len(a) \in Nat /\ Len(b) \in Nat
  BY DEF Text
<1> DEFINE Same(j) == g[n + j] = g[n] \o h[j]
           S == {j \in Nat : j <= Len(a) => Same(j)}
<1> HIDE DEF Same
<1>2. /\ \A k \in 1..Len(b) :
           g[k] = IF k > s /\ EndsEvent(b, k) THEN Append(g[k - 1], b[k - 1][1]) ELSE g[k - 1]
      /\ \A k \in 0..Len(b) : g[k] \in Seq(Event)
  BY <1>1, UpToStep, UpToType
<1>3. /\ h[0] = <<>>
      /\ \A k \in 1..Len(a) :
           h[k] = IF k > 0 /\ EndsEvent(a, k) THEN Append(h[k - 1], a[k - 1][1]) ELSE h[k - 1]
      /\ \A k \in 0..Len(a) : h[k] \in Seq(Event)
  BY <1>1, UpToStep, UpToType
<1>4. \A j \in 1..Len(a) : EndsEvent(b, n + j) <=> EndsEvent(a, j)
  BY EndsShift
<1>5. n \in 0..Len(b) /\ g[n] \in Seq(Event)
  BY <1>1, <1>2
<1>6. 0 \in S
  <2>1. g[n + 0] = g[n] /\ g[n] \o <<>> = g[n]
    BY <1>5, ConcatEmptySeq
  <2>2. Same(0)
    BY <2>1, <1>3 DEF Same
  <2> QED BY <2>2
<1>7. ASSUME NEW j \in S
      PROVE  j + 1 \in S
  <2>1. SUFFICES ASSUME j + 1 <= Len(a)
                 PROVE  Same(j + 1)
    OBVIOUS
  <2>a. Same(j)
    BY <2>1, <1>1
  <2>2. g[n + j] = g[n] \o h[j]
    BY <2>a DEF Same
  <2>3. /\ n + (j + 1) \in 1..Len(b) /\ (n + (j + 1)) - 1 = n + j
        /\ j + 1 \in 1..Len(a) /\ (j + 1) - 1 = j /\ j \in 0..Len(a)
    BY <2>1, <1>1
  <2>4. n + (j + 1) > s /\ j + 1 > 0
    OBVIOUS
  <2>5. EndsEvent(b, n + (j + 1)) <=> EndsEvent(a, j + 1)
    BY <2>3, <1>4
  <2>6. g[n + (j + 1)] = IF n + (j + 1) > s /\ EndsEvent(b, n + (j + 1))
                         THEN Append(g[n + j], b[n + j][1]) ELSE g[n + j]
    BY <2>3, <1>2
  <2>7. h[j + 1] = IF j + 1 > 0 /\ EndsEvent(a, j + 1) THEN Append(h[j], a[j][1]) ELSE h[j]
    BY <2>3, <1>3
  <2>8. CASE j + 1 > 0 /\ EndsEvent(a, j + 1)
    <3>1. j + 1 > 2 /\ a[j][1] \in Event
      <4>1. j + 1 > 2 /\ a[(j + 1) - 1][1] \in Event
        BY <2>8, <2>3, EventOfLine
      <4> QED BY <4>1, <2>3
    <3>2. b[n + j] = a[j]
      <4>1. j \in 1..Len(a)
        BY <3>1, <2>3, <1>1
      <4> QED BY <4>1
    <3>3. h[j] \in Seq(Event)
      BY <2>3, <1>3
    <3>4. Append(g[n] \o h[j], a[j][1]) = g[n] \o Append(h[j], a[j][1])
      BY <3>1, <3>3, <1>5, AppendLast
    <3>5. g[n + (j + 1)] = Append(g[n] \o h[j], a[j][1]) /\ h[j + 1] = Append(h[j], a[j][1])
      BY <2>2, <2>4, <2>5, <2>6, <2>7, <2>8, <3>2
    <3> QED BY <3>4, <3>5 DEF Same
  <2>9. CASE ~(j + 1 > 0 /\ EndsEvent(a, j + 1))
    <3>1. g[n + (j + 1)] = g[n + j] /\ h[j + 1] = h[j]
      BY <2>4, <2>5, <2>6, <2>7, <2>9
    <3> QED BY <2>2, <3>1 DEF Same
  <2> QED BY <2>8, <2>9
<1>8. S \in SUBSET Nat
  OBVIOUS
<1>9. \A j \in S : j + 1 \in S
  BY <1>7
<1> HIDE DEF S
<1>10. S = Nat
  BY <1>6, <1>8, <1>9, Climbs
<1>11. ASSUME NEW j \in 0..Len(a)
       PROVE  Same(j)
  <2>1. j \in Nat /\ j <= Len(a)
    BY <1>1
  <2>2. j \in S
    BY <2>1, <1>10
  <2> QED BY <2>1, <2>2, Zenon DEF S
<1>12. g[n + Len(a)] = g[n] \o h[Len(a)]
  <2>1. Len(a) \in 0..Len(a)
    BY <1>1
  <2> QED BY <2>1, <1>11, Zenon DEF Same
<1> QED BY <1>12 DEF Joined

StartsWith(b, a) == Len(a) <= Len(b) /\ \A j \in 1..Len(a) : b[j] = a[j]

LEMMA UpToPrefix ==
  ASSUME NEW a \in Text, NEW b \in Text, StartsWith(b, a),
         NEW s, NEW g, NEW h, IsUpTo(g, Len(b), b, s), IsUpTo(h, Len(a), a, s)
  PROVE  \A k \in 0..Len(a) : g[k] = h[k]
<1> USE DEF StartsWith
<1>1. Len(a) \in Nat /\ Len(b) \in Nat
  BY DEF Text
<1> DEFINE S == {k \in Nat : k <= Len(a) => g[k] = h[k]}
<1>2. /\ g[0] = <<>>
      /\ \A k \in 1..Len(b) :
           g[k] = IF k > s /\ EndsEvent(b, k) THEN Append(g[k - 1], b[k - 1][1]) ELSE g[k - 1]
  BY <1>1, UpToStep
<1>3. /\ h[0] = <<>>
      /\ \A k \in 1..Len(a) :
           h[k] = IF k > s /\ EndsEvent(a, k) THEN Append(h[k - 1], a[k - 1][1]) ELSE h[k - 1]
  BY <1>1, UpToStep
<1>4. 0 \in S
  BY <1>2, <1>3
<1>5. ASSUME NEW k \in S
      PROVE  k + 1 \in S
  <2>1. SUFFICES ASSUME k + 1 <= Len(a)
                 PROVE  g[k + 1] = h[k + 1]
    OBVIOUS
  <2>2. g[k] = h[k]
    BY <2>1, <1>1
  <2>3. k + 1 \in 1..Len(a) /\ k + 1 \in 1..Len(b) /\ (k + 1) - 1 = k
    BY <2>1, <1>1
  <2>4. EndsEvent(b, k + 1) <=> EndsEvent(a, k + 1)
    <3>1. \A i \in 1..(k + 1) : b[i] = a[i]
      BY <2>3, <1>1
    <3>2. k + 1 > 2 => k + 1 - 2 \in 1..(k + 1) /\ k + 1 - 1 \in 1..(k + 1) /\ k + 1 \in 1..(k + 1)
      OBVIOUS
    <3>3. k + 1 > 2 /\ k + 1 # 3 => k + 1 - 3 \in 1..(k + 1)
      OBVIOUS
    <3> QED BY <3>1, <3>2, <3>3 DEF EndsEvent
  <2>5. k + 1 > 2 => b[k] = a[k]
    <3>1. k + 1 > 2 => k \in 1..Len(a)
      BY <2>1, <1>1
    <3> QED BY <3>1
  <2>6. g[k + 1] = IF k + 1 > s /\ EndsEvent(b, k + 1) THEN Append(g[k], b[k][1]) ELSE g[k]
    BY <2>3, <1>2
  <2>7. h[k + 1] = IF k + 1 > s /\ EndsEvent(a, k + 1) THEN Append(h[k], a[k][1]) ELSE h[k]
    BY <2>3, <1>3
  <2>8. EndsEvent(a, k + 1) => k + 1 > 2
    BY DEF EndsEvent
  <2> QED BY <2>2, <2>4, <2>5, <2>6, <2>7, <2>8
<1> HIDE DEF S
<1>6. S = Nat
  BY <1>4, <1>5, Climbs DEF S
<1> QED BY <1>6, <1>1 DEF S

LEMMA UpToSkips ==
  ASSUME NEW g, NEW n \in Nat, NEW b, NEW s \in Nat, IsUpTo(g, n, b, s)
  PROVE  \A k \in 0..n : k <= s => g[k] = <<>>
<1> DEFINE S == {k \in Nat : k <= n /\ k <= s => g[k] = <<>>}
<1>1. /\ g[0] = <<>>
      /\ \A k \in 1..n :
           g[k] = IF k > s /\ EndsEvent(b, k) THEN Append(g[k - 1], b[k - 1][1]) ELSE g[k - 1]
  BY UpToStep
<1>2. 0 \in S
  BY <1>1
<1>3. ASSUME NEW k \in S
      PROVE  k + 1 \in S
  <2>1. SUFFICES ASSUME k + 1 <= n, k + 1 <= s
                 PROVE  g[k + 1] = <<>>
    OBVIOUS
  <2>2. g[k] = <<>> /\ k + 1 \in 1..n /\ (k + 1) - 1 = k /\ ~(k + 1 > s)
    BY <2>1
  <2> QED BY <2>2, <1>1
<1> HIDE DEF S
<1>4. S = Nat
  BY <1>2, <1>3, Climbs DEF S
<1> QED BY <1>4 DEF S

LEMMA PieceOf ==
  ASSUME NEW Cell, NEW b \in Seq(Cell), NEW m \in Nat, NEW n \in Nat, m <= n, n <= Len(b)
  PROVE  /\ SubSeq(b, m + 1, n) \in Seq(Cell)
         /\ Len(SubSeq(b, m + 1, n)) = n - m
         /\ \A i \in 1..(n - m) : SubSeq(b, m + 1, n)[i] = b[m + i]
OBVIOUS

LEMMA PieceIs ==
  ASSUME NEW b \in Text, NEW m \in Nat, NEW n \in Nat, m <= n, n <= Len(b)
  PROVE  /\ SubSeq(b, m + 1, n) \in Text
         /\ Len(SubSeq(b, m + 1, n)) = n - m
         /\ \A i \in 1..(n - m) : SubSeq(b, m + 1, n)[i] = b[m + i]
BY PieceOf DEF Text

LEMMA HeadOf ==
  ASSUME NEW Cell, NEW b \in Seq(Cell), NEW n \in Nat, n <= Len(b)
  PROVE  /\ SubSeq(b, 1, n) \in Seq(Cell) /\ Len(SubSeq(b, 1, n)) = n
         /\ \A i \in 1..n : SubSeq(b, 1, n)[i] = b[i]
OBVIOUS

LEMMA HeadIs ==
  ASSUME NEW b \in Text, NEW n \in Nat, n <= Len(b)
  PROVE  /\ SubSeq(b, 1, n) \in Text /\ Len(SubSeq(b, 1, n)) = n
         /\ \A i \in 1..n : SubSeq(b, 1, n)[i] = b[i]
BY HeadOf DEF Text

LEMMA EventsSplit ==
  ASSUME NEW b \in Text, NEW n \in Nat, NEW m \in Nat, n <= m, m <= Len(b), n = 0 \/ b[n] = NL
  PROVE  Events(SubSeq(b, 1, m), 0) = Events(SubSeq(b, 1, n), 0) \o Events(SubSeq(b, n + 1, m), 0)
<1> DEFINE x == SubSeq(b, 1, m)
           y == SubSeq(b, 1, n)
           z == SubSeq(b, n + 1, m)
<1>1. /\ x \in Text /\ Len(x) = m /\ \A i \in 1..m : x[i] = b[i]
      /\ y \in Text /\ Len(y) = n /\ \A i \in 1..n : y[i] = b[i]
      /\ z \in Text /\ Len(z) = m - n /\ \A i \in 1..(m - n) : z[i] = b[n + i]
  <2>1. m \in Nat /\ n \in Nat /\ n <= Len(b)
    BY DEF Text
  <2> QED BY <2>1, HeadIs, PieceIs
<1> HIDE DEF x, y, z
<1>2. PICK gx : IsUpTo(gx, Len(x), x, 0) /\ Events(x, 0) = gx[Len(x)]
  BY <1>1, EventsIs
<1>3. PICK gy : IsUpTo(gy, Len(y), y, 0) /\ Events(y, 0) = gy[Len(y)]
  BY <1>1, EventsIs
<1>4. PICK gz : IsUpTo(gz, Len(z), z, 0) /\ Events(z, 0) = gz[Len(z)]
  BY <1>1, EventsIs
<1>5. EndsWith(x, n, z) /\ StartsWith(x, y) /\ 0 <= n
  BY <1>1 DEF EndsWith, StartsWith
<1>6. gx[Len(x)] = Joined(gx[n], gz[Len(z)])
  BY <1>1, <1>2, <1>4, <1>5, UpToExtends
<1>7. gx[n] = gy[Len(y)]
  <2>1. \A k \in 0..Len(y) : gx[k] = gy[k]
    BY <1>1, <1>2, <1>3, <1>5, UpToPrefix
  <2>2. n \in 0..Len(y) /\ Len(y) = n
    BY <1>1
  <2> QED BY <2>1, <2>2
<1>8. Events(x, 0) = Events(y, 0) \o Events(z, 0)
  BY <1>2, <1>3, <1>4, <1>6, <1>7 DEF Joined
<1> QED BY <1>8 DEF x, y, z

LEMMA EventsFrom ==
  ASSUME NEW b \in Text, NEW from \in Nat, NEW n \in Nat, NEW m \in Nat,
         from <= n, n <= m, m <= Len(b), n = 0 \/ b[n] = NL
  PROVE  Events(SubSeq(b, from + 1, m), n - from) = Events(SubSeq(b, n + 1, m), 0)
<1> DEFINE x == SubSeq(b, from + 1, m)
           z == SubSeq(b, n + 1, m)
<1>1. /\ x \in Text /\ Len(x) = m - from /\ \A i \in 1..(m - from) : x[i] = b[from + i]
      /\ z \in Text /\ Len(z) = m - n /\ \A i \in 1..(m - n) : z[i] = b[n + i]
  BY PieceIs
<1> HIDE DEF x, z
<1>2. PICK gx : IsUpTo(gx, Len(x), x, n - from) /\ Events(x, n - from) = gx[Len(x)]
  BY <1>1, EventsIs
<1>3. PICK gz : IsUpTo(gz, Len(z), z, 0) /\ Events(z, 0) = gz[Len(z)]
  BY <1>1, EventsIs
<1>4. /\ n - from \in Nat /\ Len(x) \in Nat /\ Len(z) \in Nat
      /\ Len(x) = (n - from) + Len(z)
      /\ n - from = 0 \/ x[n - from] = NL
  <2>1. n - from # 0 => x[n - from] = b[from + (n - from)] /\ from + (n - from) = n
    BY <1>1
  <2> QED BY <1>1, <2>1
<1>5. \A j \in 1..Len(z) : x[(n - from) + j] = z[j]
  <2>1. ASSUME NEW j \in 1..Len(z)
        PROVE  x[(n - from) + j] = z[j]
    <3>1. (n - from) + j \in 1..(m - from) /\ from + ((n - from) + j) = n + j
      BY <1>1
    <3> QED BY <1>1, <3>1
  <2> QED BY <2>1
<1>6. gx[Len(x)] = Joined(gx[n - from], gz[Len(z)])
  <2> DEFINE k == n - from
  <2>1. EndsWith(x, k, z) /\ k \in Nat /\ k <= k /\ IsUpTo(gx, Len(x), x, k)
    BY <1>1, <1>2, <1>4, <1>5 DEF EndsWith
  <2> HIDE DEF k
  <2>2. x \in Text /\ z \in Text /\ IsUpTo(gz, Len(z), z, 0)
    BY <1>1, <1>3
  <2>3. gx[Len(x)] = Joined(gx[k], gz[Len(z)])
    BY <2>1, <2>2, UpToExtends
  <2> QED BY <2>3 DEF k
<1>7. gx[n - from] = <<>>
  <2>1. n - from \in 0..Len(x) /\ n - from <= n - from
    BY <1>4
  <2> QED BY <1>2, <1>4, <2>1, UpToSkips
<1>8. gz[Len(z)] \in Seq(Event)
  BY <1>3, <1>4, UpToType
<1>9. gx[Len(x)] = <<>> \o gz[Len(z)]
  BY <1>6, <1>7 DEF Joined
<1>10. <<>> \o gz[Len(z)] = gz[Len(z)]
  BY <1>8, ConcatEmptySeq
<1> QED BY <1>2, <1>3, <1>9, <1>10 DEF x, z

LEMMA LineIs ==
  ASSUME NEW e \in Event
  PROVE  /\ Line(e) \in Text /\ <<NL>> \o Line(e) \in Text
         /\ Len(Line(e)) = 3 /\ Len(<<NL>> \o Line(e)) = 4
         /\ Line(e)[1] = <<e, 1>> /\ Line(e)[2] = <<e, 2>> /\ Line(e)[3] = NL
         /\ \A i \in 1..3 : (<<NL>> \o Line(e))[i + 1] = Line(e)[i]
         /\ (<<NL>> \o Line(e))[1] = NL
<1> DEFINE Cell == (Event \X {1, 2}) \cup {NL}
<1>1. <<e, 1>> \in Cell /\ <<e, 2>> \in Cell /\ NL \in Cell
  OBVIOUS
<1> HIDE DEF Cell
<1>2. Line(e) \in Seq(Cell) /\ <<NL>> \in Seq(Cell)
  BY <1>1 DEF Line
<1>3. <<NL>> \o Line(e) \in Seq(Cell)
  BY <1>2, ConcatProperties
<1>4. /\ Len(Line(e)) = 3 /\ Len(<<NL>>) = 1
      /\ Line(e)[1] = <<e, 1>> /\ Line(e)[2] = <<e, 2>> /\ Line(e)[3] = NL
      /\ <<NL>>[1] = NL
  BY DEF Line
<1>5. /\ Len(<<NL>> \o Line(e)) = 4
      /\ \A i \in 1..4 : (<<NL>> \o Line(e))[i] = IF i <= 1 THEN <<NL>>[i] ELSE Line(e)[i - 1]
  <2>1. /\ Len(<<NL>> \o Line(e)) = Len(<<NL>>) + Len(Line(e))
        /\ \A i \in 1..(Len(<<NL>>) + Len(Line(e))) :
             (<<NL>> \o Line(e))[i] = IF i <= Len(<<NL>>) THEN <<NL>>[i]
                                      ELSE Line(e)[i - Len(<<NL>>)]
    BY <1>2, ConcatProperties, Zenon
  <2>2. Len(<<NL>>) + Len(Line(e)) = 4 /\ Len(<<NL>>) = 1
    BY <1>4
  <2> QED BY <2>1, <2>2
<1>6. \A i \in 1..3 : (<<NL>> \o Line(e))[i + 1] = Line(e)[i]
  <2>1. ASSUME NEW i \in 1..3
        PROVE  (<<NL>> \o Line(e))[i + 1] = Line(e)[i]
    <3>1. i + 1 \in 1..4 /\ ~(i + 1 <= 1) /\ (i + 1) - 1 = i
      OBVIOUS
    <3> QED BY <1>5, <3>1
  <2> QED BY <2>1
<1> QED BY <1>2, <1>3, <1>4, <1>5, <1>6 DEF Text, Cell

LEMMA EventsOfLine ==
  ASSUME NEW e \in Event
  PROVE  Events(Line(e), 0) = <<e>> /\ Events(<<NL>> \o Line(e), 0) = <<e>>
<1>1. \A x, i : NL # <<x, i>>
  BY DEF NL
<1>2. Events(Line(e), 0) = <<e>>
  <2>1. PICK g : IsUpTo(g, 3, Line(e), 0) /\ Events(Line(e), 0) = g[3]
    BY LineIs, EventsIs
  <2>2. /\ ~EndsEvent(Line(e), 1) /\ ~EndsEvent(Line(e), 2) /\ EndsEvent(Line(e), 3)
    BY LineIs DEF EndsEvent
  <2>3. /\ g[0] = <<>>
        /\ \A k \in 1..3 :
             g[k] = IF k > 0 /\ EndsEvent(Line(e), k) THEN Append(g[k - 1], Line(e)[k - 1][1])
                    ELSE g[k - 1]
    BY <2>1, UpToStep
  <2>4. g[1] = <<>> /\ g[2] = <<>>
    BY <2>2, <2>3
  <2>5. g[3] = Append(g[2], Line(e)[2][1]) /\ Line(e)[2][1] = e
    BY <2>2, <2>3, LineIs
  <2> QED BY <2>1, <2>4, <2>5
<1>3. Events(<<NL>> \o Line(e), 0) = <<e>>
  <2> DEFINE b == <<NL>> \o Line(e)
  <2>1. /\ b \in Text /\ Len(b) = 4 /\ b[1] = NL /\ b[2] = <<e, 1>> /\ b[3] = <<e, 2>> /\ b[4] = NL
    <3>1. b[1 + 1] = Line(e)[1] /\ b[2 + 1] = Line(e)[2] /\ b[3 + 1] = Line(e)[3]
      BY LineIs
    <3> QED BY <3>1, LineIs
  <2> HIDE DEF b
  <2>2. PICK g : IsUpTo(g, 4, b, 0) /\ Events(b, 0) = g[4]
    BY <2>1, EventsIs
  <2>3. ~EndsEvent(b, 1) /\ ~EndsEvent(b, 2) /\ ~EndsEvent(b, 3) /\ EndsEvent(b, 4)
    BY <2>1, <1>1 DEF EndsEvent
  <2>4. /\ g[0] = <<>>
        /\ \A k \in 1..4 :
             g[k] = IF k > 0 /\ EndsEvent(b, k) THEN Append(g[k - 1], b[k - 1][1])
                    ELSE g[k - 1]
    BY <2>2, UpToStep
  <2>5. g[1] = <<>> /\ g[2] = <<>> /\ g[3] = <<>>
    BY <2>3, <2>4
  <2>6. g[4] = Append(g[3], b[3][1]) /\ b[3][1] = e
    <3>1. 4 \in 1..4 /\ 4 > 0 /\ 4 - 1 = 3
      OBVIOUS
    <3>2. g[4] = Append(g[4 - 1], b[4 - 1][1])
      BY <2>3, <2>4, <3>1
    <3>3. b[3][1] = e
      BY <2>1
    <3>4. g[4] = Append(g[3], b[3][1])
      BY <3>1, <3>2, Zenon
    <3> QED BY <3>3, <3>4
  <2>7. g[4] = <<e>>
    BY <2>5, <2>6
  <2> QED BY <2>2, <2>7 DEF b
<1> QED BY <1>2, <1>3

\* An event whose line is in a text once is read once.
LEMMA EventsOnce ==
  ASSUME NEW b \in Text, NEW d \in Event, NEW k \in 1..Len(b), EndsEvent(b, k),
         b[k - 1] = <<d, 2>>, \A i \in 1..Len(b) : b[i] = <<d, 2>> => i = k - 1
  PROVE  Cardinality({i \in DOMAIN Events(b, 0) : Events(b, 0)[i] = d}) = 1
<1>1. Len(b) \in Nat /\ k \in Nat
  BY DEF Text
<1>2. PICK g : IsUpTo(g, Len(b), b, 0) /\ Events(b, 0) = g[Len(b)]
  BY EventsIs
<1>3. /\ g[0] = <<>>
      /\ \A j \in 1..Len(b) :
           g[j] = IF j > 0 /\ EndsEvent(b, j) THEN Append(g[j - 1], b[j - 1][1]) ELSE g[j - 1]
      /\ \A j \in 0..Len(b) : g[j] \in Seq(Event)
  <2>1. IsUpTo(g, Len(b), b, 0)
    BY <1>2
  <2>2. \A j \in 0..Len(b) : g[j] \in Seq(Event)
    BY <1>1, <2>1, UpToType
  <2>3. /\ g[0] = <<>>
        /\ \A j \in 1..Len(b) :
             g[j] = IF j > 0 /\ EndsEvent(b, j) THEN Append(g[j - 1], b[j - 1][1]) ELSE g[j - 1]
    BY <1>1, <2>1, UpToStep
  <2> QED BY <2>2, <2>3
<1> DEFINE Never(s) == \A i \in 1..Len(s) : s[i] # d
           Once(s) == \E i \in 1..Len(s) : \A j \in 1..Len(s) : s[j] = d <=> j = i
           S == {m \in Nat : m <= Len(b) => (m < k => Never(g[m])) /\ (m >= k => Once(g[m]))}
<1>4. ASSUME NEW s \in Seq(Event), NEW e \in Event
      PROVE  /\ Never(s) /\ e # d => Never(Append(s, e))
             /\ Never(s) /\ e = d => Once(Append(s, e))
             /\ Once(s) /\ e # d => Once(Append(s, e))
  <2>1. /\ Len(s) \in Nat /\ Len(Append(s, e)) = Len(s) + 1
        /\ \A i \in 1..Len(s) : Append(s, e)[i] = s[i]
        /\ Append(s, e)[Len(s) + 1] = e
    BY AppendProperties, LenProperties
  <2>2. \A i \in 1..(Len(s) + 1) : i \in 1..Len(s) \/ i = Len(s) + 1
    BY <2>1
  <2>3. Never(s) /\ e # d => Never(Append(s, e))
    BY <2>1, <2>2
  <2>4. Never(s) /\ e = d => Once(Append(s, e))
    <3>1. Len(s) + 1 \in 1..(Len(s) + 1) /\ Len(s) + 1 \notin 1..Len(s)
      BY <2>1
    <3> QED BY <2>1, <2>2, <3>1
  <2>5. Once(s) /\ e # d => Once(Append(s, e))
    <3>1. SUFFICES ASSUME e # d, NEW i \in 1..Len(s), \A j \in 1..Len(s) : s[j] = d <=> j = i
                   PROVE  Once(Append(s, e))
      OBVIOUS
    <3>2. i \in 1..(Len(s) + 1) /\ Len(s) + 1 # i
      BY <2>1
    <3>3. \A j \in 1..(Len(s) + 1) : Append(s, e)[j] = d <=> j = i
      BY <2>1, <2>2, <3>1, <3>2
    <3>4. \A j \in 1..Len(Append(s, e)) : Append(s, e)[j] = d <=> j = i
      BY <2>1, <3>3
    <3>5. i \in 1..Len(Append(s, e))
      BY <2>1, <3>2
    <3> QED BY <3>4, <3>5
  <2> QED BY <2>3, <2>4, <2>5
<1>5. ASSUME NEW j \in 1..Len(b), EndsEvent(b, j)
      PROVE  b[j - 1][1] \in Event /\ (b[j - 1][1] = d <=> j = k)
  <2>1. j > 2 /\ b[j - 1][1] \in Event /\ b[j - 1] = <<b[j - 1][1], 2>>
    BY <1>1, <1>5, EventOfLine
  <2>2. j - 1 \in 1..Len(b)
    BY <1>1, <2>1
  <2>3. b[j - 1][1] = d => j = k
    <3>1. SUFFICES ASSUME b[j - 1][1] = d
                   PROVE  j = k
      OBVIOUS
    <3>2. j - 1 = k - 1
      BY <2>1, <2>2, <3>1
    <3> QED BY <3>2, <1>1
  <2> QED BY <2>1, <2>3
<1>6. 0 \in S
  BY <1>1, <1>3
<1>7. ASSUME NEW m \in S
      PROVE  m + 1 \in S
  <2>1. SUFFICES ASSUME m + 1 <= Len(b)
                 PROVE  (m + 1 < k => Never(g[m + 1])) /\ (m + 1 >= k => Once(g[m + 1]))
    OBVIOUS
  <2>2. /\ (m < k => Never(g[m])) /\ (m >= k => Once(g[m]))
    BY <1>1, <2>1
  <2>3. m + 1 \in 1..Len(b) /\ (m + 1) - 1 = m /\ m \in 0..Len(b) /\ m + 1 > 0
    BY <1>1, <2>1
  <2>4. g[m + 1] = IF EndsEvent(b, m + 1) THEN Append(g[m], b[m][1]) ELSE g[m]
    BY <1>3, <2>3
  <2>5. g[m] \in Seq(Event)
    BY <1>3, <2>3
  <2>6. EndsEvent(b, m + 1) => b[m][1] \in Event /\ (b[m][1] = d <=> m + 1 = k)
    BY <1>5, <2>3
  <2>7. CASE EndsEvent(b, m + 1)
    <3> HIDE DEF Never, Once
    <3>1. CASE m + 1 = k
      <4>1. Never(g[m]) /\ b[m][1] = d /\ ~(m + 1 < k)
        BY <1>1, <2>2, <2>6, <2>7, <3>1
      <4> QED BY <1>4, <2>4, <2>5, <2>6, <2>7, <4>1
    <3>2. CASE m + 1 < k
      <4>1. Never(g[m]) /\ b[m][1] # d /\ ~(m + 1 >= k)
        BY <1>1, <2>2, <2>6, <2>7, <3>2
      <4> QED BY <1>4, <2>4, <2>5, <2>6, <2>7, <4>1
    <3>3. CASE m + 1 > k
      <4>1. Once(g[m]) /\ b[m][1] # d /\ ~(m + 1 < k)
        BY <1>1, <2>2, <2>6, <2>7, <3>3
      <4> QED BY <1>4, <2>4, <2>5, <2>6, <2>7, <4>1
    <3> QED BY <1>1, <3>1, <3>2, <3>3
  <2>8. CASE ~EndsEvent(b, m + 1)
    <3>1. g[m + 1] = g[m] /\ m + 1 # k
      BY <2>4, <2>8
    <3>2. (m + 1 < k => m < k) /\ (m + 1 >= k => m >= k)
      BY <1>1, <3>1
    <3> QED BY <2>2, <3>1, <3>2
  <2> QED BY <2>7, <2>8
<1>8. S \in SUBSET Nat
  OBVIOUS
<1>9. \A m \in S : m + 1 \in S
  BY <1>7
<1> HIDE DEF S
<1>10. S = Nat
  BY <1>6, <1>8, <1>9, Climbs
<1>11. Once(g[Len(b)])
  <2>1. Len(b) \in S /\ Len(b) <= Len(b) /\ Len(b) >= k
    BY <1>1, <1>10
  <2> QED BY <2>1 DEF S
<1>12. PICK i \in 1..Len(g[Len(b)]) : \A j \in 1..Len(g[Len(b)]) : g[Len(b)][j] = d <=> j = i
  BY <1>11
<1>13. DOMAIN g[Len(b)] = 1..Len(g[Len(b)])
  <2>1. g[Len(b)] \in Seq(Event)
    BY <1>1, <1>3
  <2> QED BY <2>1, LenProperties
<1>14. {j \in DOMAIN g[Len(b)] : g[Len(b)][j] = d} = {i}
  BY <1>12, <1>13
<1>15. Cardinality({i}) = 1
  BY FS_Singleton
<1> QED BY <1>2, <1>14, <1>15

(***************************************************************************)
(* Types                                                                   *)
(***************************************************************************)
Stage == {"unused", "looks", "writes", "writing", "remembers",
          "stats", "takes", "reads", "merges", "last", "holds",
          "saves", "settles", "scans", "fetches", "keeps", "overlays",
          "done", "failed", "dead"}

Entry == [len : Nat, events : Seq(Event), pending : Nat]

Variables == [len : Nat, upto : Nat, lead : BOOLEAN, try : Nat, time : Nat,
              writes : Nat, meta : Meta \cup {None}, got : Seq(Event)]

\* TypeOK by its parts, the sets of records by their names.
CallsTyped ==
  /\ at \in [Call -> Stage]
  /\ does \in [Call -> Kind \cup {None}]
  /\ on \in [Call -> Process \cup {None}]
  /\ local \in [Call -> Variables]
  /\ before \in [Call -> SUBSET Call]

FilesTyped == file \in Text /\ disk \in Meta /\ changed \in Nat /\ writing \in Call \cup {None}

StoresTyped ==
  /\ cache \in [Process -> Entry]
  /\ index \in [Process -> [time : Nat, meta : Meta] \cup {None}]
  /\ writes \in [Process -> Nat] /\ lock \in [Process -> Call \cup {None}]

RestTyped == now \in Nat /\ failures \in Nat /\ glued \subseteq Call /\ grew \in [Process -> Nat]

LEMMA TypeIs ==
  TypeOK <=> CallsTyped /\ FilesTyped /\ StoresTyped /\ RestTyped
BY DEF TypeOK, CallsTyped, FilesTyped, StoresTyped, RestTyped, Stage, Entry, Variables, Text

LEMMA TypeIsNext ==
  TypeOK' <=> CallsTyped' /\ FilesTyped' /\ StoresTyped' /\ RestTyped'
BY DEF TypeOK, CallsTyped, FilesTyped, StoresTyped, RestTyped, Stage, Entry, Variables, Text

LEMMA BlankIs ==
  /\ Blank \in Variables
  /\ Blank.len = 0 /\ Blank.upto = 0 /\ Blank.lead = FALSE /\ Blank.meta = None /\ Blank.got = <<>>
  /\ \A x \in BOOLEAN : [Blank EXCEPT !.lead = x] \in Variables
  /\ \A x \in Nat : [Blank EXCEPT !.try = x] \in Variables
  /\ \A x \in Seq(Event) : [Blank EXCEPT !.got = x] \in Variables
  /\ \A x \in Meta : [Blank EXCEPT !.meta = x] \in Variables
<1> HIDE DEF Meta
<1>1. <<>> \in Seq(Event)
  OBVIOUS
<1> QED BY <1>1 DEF Blank, Variables

LEMMA VariablesIs ==
  ASSUME NEW v \in Variables
  PROVE  /\ v.len \in Nat /\ v.upto \in Nat /\ v.lead \in BOOLEAN /\ v.try \in Nat
         /\ v.time \in Nat /\ v.writes \in Nat /\ v.got \in Seq(Event)
         /\ \A x \in Nat : [v EXCEPT !.len = x] \in Variables
         /\ \A x : /\ [v EXCEPT !.len = x].len = x /\ [v EXCEPT !.len = x].lead = v.lead
                   /\ [v EXCEPT !.upto = x].upto = x /\ [v EXCEPT !.upto = x].len = v.len
         /\ \A x \in Nat : [v EXCEPT !.upto = x] \in Variables
         /\ \A x \in Nat : [v EXCEPT !.time = x] \in Variables
         /\ \A x \in Nat : [v EXCEPT !.writes = x] \in Variables
         /\ \A x \in Meta : [v EXCEPT !.meta = x] \in Variables
<1> HIDE DEF Meta
<1> QED BY DEF Variables

(***************************************************************************)
(* What a step does, by action                                             *)
(***************************************************************************)
\* Only c moves.
Only(c) ==
  \A d \in Call \ {c} :
    /\ at'[d] = at[d] /\ does'[d] = does[d] /\ on'[d] = on[d]
    /\ local'[d] = local[d] /\ before'[d] = before[d]

LEMMA GoesTo ==
  ASSUME CallsTyped, NEW c \in Call, NEW to \in Stage, NEW values \in Variables,
         Goes(c, to, values), before' = before
  PROVE  /\ CallsTyped' /\ Only(c)
         /\ at'[c] = to /\ local'[c] = values
         /\ does'[c] = does[c] /\ on'[c] = on[c] /\ before'[c] = before[c]
<1> HIDE DEF Meta
<1> QED BY DEF CallsTyped, Goes, Only

LEMMA CallsOn ==
  ASSUME CallsTyped, NEW c \in Call, NEW p \in Process, NEW kind \in Kind, NEW to \in Stage,
         NEW values \in Variables, Calls(c, p, kind, to), local' = [local EXCEPT ![c] = values]
  PROVE  /\ CallsTyped' /\ Only(c)
         /\ at[c] = "unused" /\ at'[c] = to /\ local'[c] = values
         /\ does'[c] = kind /\ on'[c] = p /\ before'[c] = {d \in Call : at[d] = "done"}
         /\ glued' = glued /\ grew' = grew
BY DEF CallsTyped, Calls, Only
LEMMA Joins ==
  ASSUME NEW x \in Text, NEW y \in Text
  PROVE  /\ x \o y \in Text
         /\ Len(x) \in Nat /\ Len(y) \in Nat /\ Len(x \o y) = Len(x) + Len(y)
         /\ \A i \in 1..Len(x) : (x \o y)[i] = x[i]
         /\ \A i \in 1..Len(y) : (x \o y)[Len(x) + i] = y[i]
<1> DEFINE Cell == (Event \X {1, 2}) \cup {NL}
<1> HIDE DEF Cell
<1>1. x \in Seq(Cell) /\ y \in Seq(Cell)
  BY DEF Text, Cell
<1> QED BY <1>1 DEF Text, Cell

LEMMA BytesIs ==
  ASSUME CallsTyped, NEW c \in Call
  PROVE  /\ Bytes(c) \in Text /\ Len(Bytes(c)) \in Nat
         /\ Len(Bytes(c)) = IF local[c].lead THEN 4 ELSE 3
         /\ local[c].lead \in BOOLEAN
<1>1. c \in Event
  BY DEF Event
<1>2. local[c].lead \in BOOLEAN
  BY VariablesIs DEF CallsTyped
<1> QED BY <1>1, <1>2, LineIs DEF Bytes

Typed == CallsTyped /\ FilesTyped /\ StoresTyped /\ RestTyped

\* Call c goes from one place to another.
Moves(c, from, to) ==
  /\ Only(c)
  /\ at[c] = from /\ at'[c] = to
  /\ does'[c] = does[c] /\ on'[c] = on[c] /\ before'[c] = before[c]

\* Call c is made.
Begins(c, p, kind, to) ==
  /\ Only(c)
  /\ at[c] = "unused" /\ at'[c] = to
  /\ does'[c] = kind /\ on'[c] = p /\ before'[c] = {d \in Call : at[d] = "done"}

LEMMA AppendOpensDoes ==
  ASSUME Typed, NEW c \in Call, NEW p \in Process, AppendOpens(c, p)
  PROVE  /\ Typed' /\ Begins(c, p, "append", "looks") /\ local'[c] = [local[c] EXCEPT !.len = cache[p].len]
         /\ UNCHANGED <<files, stores, clock, glued, grew>>
<1> DEFINE values == [local[c] EXCEPT !.len = cache[p].len]
<1>1. values \in Variables
  BY VariablesIs DEF Typed, CallsTyped, StoresTyped, Entry
<1>2. local' = [local EXCEPT ![c] = values] /\ Calls(c, p, "append", "looks")
      /\ UNCHANGED <<files, stores, clock, glued, grew>>
  BY DEF AppendOpens, Typed, CallsTyped, Calls
<1> HIDE DEF values
<1>3. "append" \in Kind /\ "looks" \in Stage
  BY DEF Kind, Stage
<1>4. CallsTyped' /\ Begins(c, p, "append", "looks") /\ local'[c] = values
  BY <1>1, <1>2, <1>3, CallsOn DEF Typed, Begins
<1>5. Typed'
  BY <1>2, <1>4 DEF Typed, FilesTyped, StoresTyped, RestTyped, files, stores, clock
<1> QED BY <1>2, <1>4, <1>5 DEF values

LEMMA AppendLooksDoes ==
  ASSUME Typed, NEW c \in Call, AppendLooks(c)
  PROVE  /\ Typed' /\ Moves(c, "looks", "writes")
         /\ local'[c] \in Variables
         /\ local'[c].lead <=> Len(file) > 0 /\ local[c].len # Len(file) /\ file[Len(file)] # NL
         /\ UNCHANGED <<files, stores, clock, past>>
<1> DEFINE lead == Len(file) > 0 /\ local[c].len # Len(file) /\ file[Len(file)] # NL
           values == [Blank EXCEPT !.lead = lead]
<1>1. at[c] = "looks" /\ Goes(c, "writes", values) /\ UNCHANGED <<files, stores, clock, past>>
  BY DEF AppendLooks
<1>2. lead \in BOOLEAN
  OBVIOUS
<1>3. values \in Variables /\ values.lead = lead
  BY <1>2, BlankIs, Zenon DEF Blank
<1> HIDE DEF values, lead
<1>4. "writes" \in Stage /\ before' = before
  BY <1>1 DEF Stage, past
<1>5. CallsTyped' /\ Moves(c, "looks", "writes") /\ local'[c] = values
  BY <1>1, <1>3, <1>4, GoesTo DEF Typed, Moves
<1>6. Typed'
  BY <1>1, <1>5 DEF Typed, FilesTyped, StoresTyped, RestTyped, files, stores, clock, past
<1> QED BY <1>1, <1>3, <1>5, <1>6 DEF lead
LEMMA WriteStartsDoes ==
  ASSUME Typed, NEW c \in Call, NEW part \in 1..(Len(Bytes(c)) - 1), WriteStarts(c, part)
  PROVE  /\ Typed' /\ Moves(c, "writes", "writing")
         /\ writing = None /\ writing' = c
         /\ file' = file \o SubSeq(Bytes(c), 1, part)
         /\ local'[c] = [local[c] EXCEPT !.len = part]
         /\ UNCHANGED <<disk, changed, stores, clock, past>>
<1> DEFINE values == [local[c] EXCEPT !.len = part]
<1>1. /\ at[c] = "writes" /\ writing = None /\ Goes(c, "writing", values)
      /\ writing' = c /\ file' = file \o SubSeq(Bytes(c), 1, part)
      /\ UNCHANGED <<disk, changed, stores, clock, past>>
  BY DEF WriteStarts
<1>2. local[c] \in Variables /\ part \in Nat
  BY DEF Typed, CallsTyped
<1>3. values \in Variables
  BY <1>2, VariablesIs
<1> HIDE DEF values
<1>4. "writing" \in Stage /\ before' = before
  BY <1>1 DEF Stage, past
<1>5. CallsTyped' /\ Moves(c, "writes", "writing") /\ local'[c] = values
  BY <1>1, <1>3, <1>4, GoesTo DEF Typed, Moves
<1>6. file' \in Text
  <2>1. Bytes(c) \in Text /\ Len(Bytes(c)) \in Nat
    BY BytesIs DEF Typed
  <2>2. SubSeq(Bytes(c), 0 + 1, part) \in Text
    BY <1>2, <2>1, PieceIs
  <2> QED BY <1>1, <2>2, Joins DEF Typed, FilesTyped
<1>7. Typed'
  BY <1>1, <1>5, <1>6 DEF Typed, FilesTyped, StoresTyped, RestTyped, files, stores, clock, past
<1> QED BY <1>1, <1>5, <1>7 DEF values

LEMMA WriteEndsDoes ==
  ASSUME Typed, NEW c \in Call, WriteEnds(c), local[c].len <= Len(Bytes(c))
  PROVE  /\ Typed' /\ Moves(c, "writing", "remembers")
         /\ writing' = None
         /\ file' = file \o SubSeq(Bytes(c), local[c].len + 1, Len(Bytes(c)))
         /\ local'[c] = [local[c] EXCEPT !.len = Len(file')]
         /\ UNCHANGED <<disk, changed, stores, clock, past>>
<1> DEFINE values == [local[c] EXCEPT !.len = Len(file')]
<1>1. /\ at[c] = "writing" /\ Goes(c, "remembers", values)
      /\ writing' = None /\ file' = file \o SubSeq(Bytes(c), local[c].len + 1, Len(Bytes(c)))
      /\ UNCHANGED <<disk, changed, stores, clock, past>>
  BY DEF WriteEnds
<1>2. local[c] \in Variables /\ local[c].len \in Nat
  BY VariablesIs DEF Typed, CallsTyped
<1>3. file' \in Text /\ Len(file') \in Nat
  <2>1. Bytes(c) \in Text /\ Len(Bytes(c)) \in Nat
    BY BytesIs DEF Typed
  <2>2. SubSeq(Bytes(c), local[c].len + 1, Len(Bytes(c))) \in Text
    BY <1>2, <2>1, PieceIs
  <2>3. file' \in Text
    BY <1>1, <2>2, Joins DEF Typed, FilesTyped
  <2> QED BY <2>3 DEF Text
<1>4. values \in Variables
  BY <1>2, <1>3, VariablesIs
<1> HIDE DEF values
<1>5. "remembers" \in Stage /\ before' = before
  BY <1>1 DEF Stage, past
<1>6. CallsTyped' /\ Moves(c, "writing", "remembers") /\ local'[c] = values
  BY <1>1, <1>4, <1>5, GoesTo DEF Typed, Moves
<1>7. Typed'
  BY <1>1, <1>3, <1>6 DEF Typed, FilesTyped, StoresTyped, RestTyped, files, stores, clock, past
<1> QED BY <1>1, <1>6, <1>7 DEF values

LEMMA WriteFailsDoes ==
  ASSUME Typed, NEW c \in Call, WriteFails(c)
  PROVE  /\ Typed' /\ Moves(c, "writing", "failed")
         /\ writing' = None /\ CutShort /\ local'[c] = Blank
         /\ UNCHANGED <<file, disk, changed, stores, now, before, grew>>
<1>1. /\ at[c] = "writing" /\ Goes(c, "failed", Blank)
      /\ writing' = None /\ CutShort /\ failures' = failures + 1
      /\ UNCHANGED <<file, disk, changed, stores, now, before, grew>>
  BY DEF WriteFails
<1>2. "failed" \in Stage
  BY DEF Stage
<1>3. CallsTyped' /\ Moves(c, "writing", "failed") /\ local'[c] = Blank
  BY <1>1, <1>2, BlankIs, GoesTo DEF Typed, Moves
<1>4. Typed'
  BY <1>1, <1>3 DEF Typed, FilesTyped, StoresTyped, RestTyped, stores, CutShort
<1> QED BY <1>1, <1>3, <1>4

\* The store of p now remembers this.
Has(p, entry) ==
  /\ cache' \in [Process -> Entry]
  /\ cache'[p] = entry
  /\ \A q \in Process \ {p} : cache'[q] = cache[q]

LEMMA EntryPut ==
  ASSUME StoresTyped, NEW p \in Process, NEW entry \in Entry,
         cache' = [cache EXCEPT ![p] = entry]
  PROVE  Has(p, entry)
BY DEF StoresTyped, Has

LEMMA EntryIs ==
  ASSUME NEW x \in Entry
  PROVE  /\ x.len \in Nat /\ x.pending \in Nat /\ x.events \in Seq(Event)
         /\ \A e \in Event : Append(x.events, e) \in Seq(Event)
         /\ \A n \in Nat, s \in Seq(Event) : [x EXCEPT !.events = s, !.len = n] \in Entry
         /\ \A n \in Nat : [x EXCEPT !.pending = n] \in Entry
         /\ \A n \in Nat : [Unread EXCEPT !.pending = n] \in Entry
         /\ Unread \in Entry
<1>1. <<>> \in Seq(Event)
  OBVIOUS
<1>2. x.len \in Nat /\ x.pending \in Nat /\ x.events \in Seq(Event)
  BY DEF Entry
<1>3. \A e \in Event : Append(x.events, e) \in Seq(Event)
  BY <1>2
<1>4. \A n \in Nat, s \in Seq(Event) : [x EXCEPT !.events = s, !.len = n] \in Entry
  BY DEF Entry
<1>5. \A n \in Nat : [x EXCEPT !.pending = n] \in Entry
  BY DEF Entry
<1>6. Unread \in Entry /\ \A n \in Nat : [Unread EXCEPT !.pending = n] \in Entry
  BY <1>1 DEF Entry, Unread
<1> QED BY <1>2, <1>3, <1>4, <1>5, <1>6

LEMMA AppendRemembersDoes ==
  ASSUME Typed, NEW c \in Call, on[c] \in Process, AppendRemembers(c)
  PROVE  LET old == cache[on[c]]
             follows == old.len + Len(Bytes(c)) = local[c].len
         IN  /\ Typed' /\ Moves(c, "remembers", "done") /\ local'[c] = Blank
             /\ \E entry \in Entry :
                  /\ Has(on[c], entry) /\ entry.pending = now
                  /\ follows => entry.len = local[c].len /\ entry.events = Append(old.events, c)
                  /\ ~follows => entry.len = old.len /\ entry.events = old.events
             /\ grew' = [grew EXCEPT ![on[c]] = now]
             /\ UNCHANGED <<files, index, writes, lock, clock, before, glued>>
<1> DEFINE old == cache[on[c]]
           follows == old.len + Len(Bytes(c)) = local[c].len
           len == IF follows THEN local[c].len ELSE old.len
           events == IF follows THEN Append(old.events, c) ELSE old.events
           entry == [len |-> len, events |-> events, pending |-> now]
<1>1. /\ at[c] = "remembers" /\ Goes(c, "done", Blank)
      /\ cache' = [cache EXCEPT ![on[c]] = entry]
      /\ grew' = [grew EXCEPT ![on[c]] = now]
      /\ UNCHANGED <<files, index, writes, lock, clock, before, glued>>
  BY DEF AppendRemembers
<1>2. local[c].len \in Nat /\ old \in Entry /\ now \in Nat /\ c \in Event
  BY VariablesIs DEF Typed, CallsTyped, StoresTyped, RestTyped, Event
<1>3. len \in Nat /\ events \in Seq(Event)
  BY <1>2, EntryIs
<1>4. entry \in Entry /\ entry.len = len /\ entry.events = events /\ entry.pending = now
  BY <1>2, <1>3 DEF Entry
<1> HIDE DEF entry
<1>5. Has(on[c], entry)
  BY <1>1, <1>4, EntryPut DEF Typed
<1>6. "done" \in Stage
  BY DEF Stage
<1>7. CallsTyped' /\ Moves(c, "remembers", "done") /\ local'[c] = Blank
  BY <1>1, <1>6, BlankIs, GoesTo DEF Typed, Moves
<1>8. Typed'
  BY <1>1, <1>2, <1>5, <1>7 DEF Typed, FilesTyped, StoresTyped, RestTyped, files, clock, Has
<1> QED BY <1>1, <1>4, <1>5, <1>7, <1>8

LEMMA KnownIs ==
  ASSUME Typed, NEW p \in Process, NEW n \in Nat
  PROVE  /\ Known(p, n) \in Entry
         /\ Known(p, n).len <= n /\ Known(p, n).len <= cache[p].len
         /\ Known(p, n).pending = cache[p].pending
         /\ \/ Known(p, n) = cache[p]
            \/ Known(p, n).len = 0 /\ Known(p, n).events = <<>>
<1>1. cache[p] \in Entry /\ cache[p].len \in Nat /\ cache[p].pending \in Nat
  BY EntryIs DEF Typed, StoresTyped
<1>2. CASE n < cache[p].len
  <2>1. Known(p, n) = [Unread EXCEPT !.pending = cache[p].pending]
    BY <1>2 DEF Known
  <2>2. /\ [Unread EXCEPT !.pending = cache[p].pending].len = 0
        /\ [Unread EXCEPT !.pending = cache[p].pending].events = <<>>
        /\ [Unread EXCEPT !.pending = cache[p].pending].pending = cache[p].pending
    BY Zenon DEF Unread
  <2>3. [Unread EXCEPT !.pending = cache[p].pending] \in Entry
    BY <1>1, EntryIs
  <2>4. 0 <= n /\ 0 <= cache[p].len
    BY <1>1
  <2> QED BY <2>1, <2>2, <2>3, <2>4, Zenon
<1>3. CASE ~(n < cache[p].len)
  <2>1. Known(p, n) = cache[p]
    BY <1>3 DEF Known
  <2> QED BY <1>1, <1>3, <2>1
<1> QED BY <1>2, <1>3

LEMMA LongerIs ==
  ASSUME NEW x \in Entry, NEW from \in Nat, NEW bytes \in Text, NEW skip
  PROVE  /\ Longer(x, from, bytes, skip) \in Entry
         /\ Longer(x, from, bytes, skip).len = from + Cut(bytes)
         /\ Longer(x, from, bytes, skip).events = x.events \o Events(SubSeq(bytes, 1, Cut(bytes)), skip)
         /\ Longer(x, from, bytes, skip).pending = x.pending
<1>1. Events(SubSeq(bytes, 1, Cut(bytes)), skip) \in Seq(Event) /\ x.events \in Seq(Event)
  <2>1. Cut(bytes) \in 0..Len(bytes) /\ Len(bytes) \in Nat
    BY CutIs DEF Text
  <2>2. SubSeq(bytes, 0 + 1, Cut(bytes)) \in Text
    BY <2>1, PieceIs
  <2>3. SubSeq(bytes, 1, Cut(bytes)) \in Text
    BY <2>2
  <2>4. Events(SubSeq(bytes, 1, Cut(bytes)), skip) \in Seq(Event)
    BY <2>3, EventsType, Zenon
  <2> QED BY <2>4, EntryIs
<1>2. x.events \o Events(SubSeq(bytes, 1, Cut(bytes)), skip) \in Seq(Event)
  BY <1>1, ConcatProperties
<1>3. Cut(bytes) \in 0..Len(bytes) /\ Len(bytes) \in Nat
  BY CutIs DEF Text
<1>4. from + Cut(bytes) \in Nat
  BY <1>3
<1> DEFINE events == x.events \o Events(SubSeq(bytes, 1, Cut(bytes)), skip)
           len == from + Cut(bytes)
<1>5. Longer(x, from, bytes, skip) = [x EXCEPT !.events = events, !.len = len]
  BY DEF Longer
<1> HIDE DEF events, len
<1>6. events \in Seq(Event) /\ len \in Nat
  BY <1>2, <1>4 DEF events, len
<1>7. [x EXCEPT !.events = events, !.len = len] \in Entry
  BY <1>6, EntryIs
<1>8. /\ [x EXCEPT !.events = events, !.len = len].len = len
      /\ [x EXCEPT !.events = events, !.len = len].events = events
      /\ [x EXCEPT !.events = events, !.len = len].pending = x.pending
  BY DEF Entry
<1> QED BY <1>5, <1>7, <1>8 DEF events, len

LEMMA LongerSizes ==
  ASSUME NEW x \in Entry, NEW from \in Nat, NEW bytes \in Text, NEW skip
  PROVE  /\ Longer(x, from, bytes, skip).len = from + Cut(bytes)
         /\ Longer(x, from, bytes, skip).pending = x.pending
BY LongerIs

LEMMA ReadCallsDoes ==
  ASSUME Typed, NEW c \in Call, NEW p \in Process, ReadCalls(c, p)
  PROVE  /\ Typed' /\ Begins(c, p, "read", "stats") /\ local'[c] = local[c]
         /\ UNCHANGED <<files, stores, clock, glued, grew>>
<1> DEFINE values == local[c]
<1>1. values \in Variables /\ local' = [local EXCEPT ![c] = values]
  BY DEF ReadCalls, Typed, CallsTyped
<1> HIDE DEF values
<1>2. Calls(c, p, "read", "stats") /\ UNCHANGED <<files, stores, clock>>
  BY DEF ReadCalls
<1>3. "read" \in Kind /\ "stats" \in Stage
  BY DEF Kind, Stage
<1>4. /\ CallsTyped' /\ Begins(c, p, "read", "stats") /\ local'[c] = values
      /\ glued' = glued /\ grew' = grew
  BY <1>1, <1>2, <1>3, CallsOn DEF Typed, Begins
<1>5. Typed'
  BY <1>2, <1>4 DEF Typed, FilesTyped, StoresTyped, RestTyped, files, stores, clock
<1> QED BY <1>2, <1>4, <1>5 DEF values

LEMMA ReadStatsDoes ==
  ASSUME Typed, NEW c \in Call, ReadStats(c)
  PROVE  /\ Typed' /\ (Moves(c, "stats", "takes") \/ Moves(c, "last", "holds"))
         /\ local'[c] = [local[c] EXCEPT !.len = Len(file)]
         /\ UNCHANGED <<files, stores, clock, past>>
<1> DEFINE values == [local[c] EXCEPT !.len = Len(file)]
<1>1. local[c] \in Variables /\ Len(file) \in Nat
  BY DEF Typed, CallsTyped, FilesTyped, Text
<1>2. values \in Variables
  BY <1>1, VariablesIs
<1> HIDE DEF values
<1>3. \E from, to \in Stage :
        /\ (from = "stats" /\ to = "takes") \/ (from = "last" /\ to = "holds")
        /\ at[c] = from /\ Goes(c, to, values)
        /\ UNCHANGED <<files, stores, clock, past>>
  <2>1. at[c] = "stats" \/ at[c] = "last"
    BY DEF ReadStats
  <2>2. CASE at[c] = "stats"
    <3>1. Goes(c, "takes", values) /\ UNCHANGED <<files, stores, clock, past>>
      BY <2>2 DEF ReadStats, values, Goes
    <3> QED BY <2>2, <3>1 DEF Stage
  <2>3. CASE at[c] = "last"
    <3>1. Goes(c, "holds", values) /\ UNCHANGED <<files, stores, clock, past>>
      BY <2>3 DEF ReadStats, values, Goes
    <3> QED BY <2>3, <3>1 DEF Stage
  <2> QED BY <2>1, <2>2, <2>3
<1>4. PICK from \in Stage, to \in Stage :
        /\ (from = "stats" /\ to = "takes") \/ (from = "last" /\ to = "holds")
        /\ at[c] = from /\ Goes(c, to, values)
        /\ UNCHANGED <<files, stores, clock, past>>
  BY <1>3
<1>5. CallsTyped' /\ Moves(c, from, to) /\ local'[c] = values
  BY <1>2, <1>4, GoesTo DEF Typed, Moves, past
<1>6. Typed'
  BY <1>4, <1>5 DEF Typed, FilesTyped, StoresTyped, RestTyped, files, stores, clock, past
<1> QED BY <1>4, <1>5, <1>6 DEF values

\* A read returns these events.
Returns(c, from, events) ==
  Moves(c, from, "done") /\ local'[c] \in Variables /\ local'[c].got = events

LEMMA AnswersDoes ==
  ASSUME CallsTyped, NEW c \in Call, NEW events \in Seq(Event), NEW from, at[c] = from,
         Answers(c, events), before' = before
  PROVE  CallsTyped' /\ Returns(c, from, events)
<1> DEFINE values == [Blank EXCEPT !.got = events]
<1>1. values \in Variables /\ values.got = events
  BY BlankIs, Zenon DEF Blank
<1>2. Goes(c, "done", values) /\ "done" \in Stage
  BY DEF Answers, Stage
<1> HIDE DEF values
<1> QED BY <1>1, <1>2, GoesTo DEF Returns, Moves

LEMMA ReadTakesDoes ==
  ASSUME Typed, NEW c \in Call, on[c] \in Process, ReadTakes(c)
  PROVE  LET entry == Known(on[c], local[c].len)
         IN  /\ Typed' /\ Has(on[c], entry)
             /\ \/ entry.len = local[c].len /\ Returns(c, "takes", entry.events)
                \/ Moves(c, "takes", "reads") /\ local'[c] = [local[c] EXCEPT !.len = entry.len]
             /\ UNCHANGED <<files, index, writes, lock, clock, past>>
<1> DEFINE entry == Known(on[c], local[c].len)
           values == [local[c] EXCEPT !.len = entry.len]
<1>1. /\ at[c] = "takes" /\ cache' = [cache EXCEPT ![on[c]] = entry]
      /\ \/ entry.len = local[c].len /\ Answers(c, entry.events)
         \/ Goes(c, "reads", values)
      /\ UNCHANGED <<files, index, writes, lock, clock, past>>
  BY DEF ReadTakes
<1>2. local[c] \in Variables /\ local[c].len \in Nat
  BY VariablesIs DEF Typed, CallsTyped
<1>3. entry \in Entry
  BY <1>2, KnownIs
<1> HIDE DEF entry
<1>4. entry.len \in Nat /\ entry.events \in Seq(Event) /\ Has(on[c], entry)
  BY <1>1, <1>3, EntryIs, EntryPut DEF Typed
<1>5. values \in Variables /\ "reads" \in Stage /\ before' = before
  BY <1>1, <1>2, <1>4, VariablesIs DEF Stage, past
<1> HIDE DEF values
<1>6. /\ CallsTyped'
      /\ \/ entry.len = local[c].len /\ Returns(c, "takes", entry.events)
         \/ Moves(c, "takes", "reads") /\ local'[c] = values
  <2>1. CASE entry.len = local[c].len /\ Answers(c, entry.events)
    BY <1>1, <1>4, <1>5, <2>1, AnswersDoes DEF Typed
  <2>2. CASE Goes(c, "reads", values)
    BY <1>1, <1>5, <2>2, GoesTo DEF Typed, Moves
  <2> QED BY <1>1, <2>1, <2>2
<1>7. Typed'
  BY <1>1, <1>4, <1>6 DEF Typed, FilesTyped, StoresTyped, RestTyped, files, clock, past, Has
<1> QED BY <1>1, <1>4, <1>6, <1>7 DEF values, entry

LEMMA ReadReadsDoes ==
  ASSUME Typed, NEW c \in Call, ReadReads(c)
  PROVE  /\ Typed' /\ Moves(c, "reads", "merges")
         /\ local'[c] = [local[c] EXCEPT !.upto = Len(file)]
         /\ UNCHANGED <<files, stores, clock, past>>
<1> DEFINE values == [local[c] EXCEPT !.upto = Len(file)]
<1>1. at[c] = "reads" /\ Goes(c, "merges", values) /\ UNCHANGED <<files, stores, clock, past>>
  BY DEF ReadReads
<1>2. local[c] \in Variables /\ Len(file) \in Nat
  BY DEF Typed, CallsTyped, FilesTyped, Text
<1>3. values \in Variables
  BY <1>2, VariablesIs
<1> HIDE DEF values
<1>4. "merges" \in Stage /\ before' = before
  BY <1>1 DEF Stage, past
<1>5. CallsTyped' /\ Moves(c, "reads", "merges") /\ local'[c] = values
  BY <1>1, <1>3, <1>4, GoesTo DEF Typed, Moves
<1>6. Typed'
  BY <1>1, <1>5 DEF Typed, FilesTyped, StoresTyped, RestTyped, files, stores, clock, past
<1> QED BY <1>1, <1>5, <1>6 DEF values

LEMMA ReadMergesDoes ==
  ASSUME Typed, NEW c \in Call, on[c] \in Process, ReadMerges(c),
         local[c].len <= local[c].upto, local[c].upto <= Len(file)
  PROVE  LET old == cache[on[c]]
             from == local[c].len
             bytes == SubSeq(file, from + 1, local[c].upto)
             longer == Longer(old, from, bytes, old.len - from)
         IN  /\ Typed' /\ bytes \in Text
             /\ \/ /\ old.len > from + Cut(bytes) /\ Returns(c, "merges", old.events)
                   /\ UNCHANGED cache
                \/ /\ old.len <= from + Cut(bytes) /\ old.len >= from
                   /\ old.len > from => bytes[old.len - from] = NL
                   /\ Has(on[c], longer) /\ Returns(c, "merges", longer.events)
                \/ /\ Moves(c, "merges", "last") \/ Moves(c, "merges", "stats")
                   /\ local'[c] \in Variables
                   /\ UNCHANGED cache
             /\ UNCHANGED <<files, index, writes, lock, clock, past>>
<1> DEFINE old == cache[on[c]]
           from == local[c].len
           bytes == SubSeq(file, from + 1, local[c].upto)
           skip == old.len - from
           longer == Longer(old, from, bytes, skip)
           fits == old.len >= from /\ (skip > 0 => bytes[skip] = NL)
           values == [Blank EXCEPT !.try = local[c].try + 1]
           to == IF local[c].try + 1 = Tries THEN "last" ELSE "stats"
<1>1. /\ at[c] = "merges"
      /\ \/ /\ old.len > from + Cut(bytes) /\ Answers(c, old.events) /\ UNCHANGED cache
         \/ /\ old.len <= from + Cut(bytes) /\ fits
            /\ cache' = [cache EXCEPT ![on[c]] = longer]
            /\ Answers(c, cache'[on[c]].events)
         \/ Goes(c, to, values) /\ UNCHANGED cache
      /\ UNCHANGED <<files, index, writes, lock, clock, past>>
  BY DEF ReadMerges
<1>2. /\ local[c] \in Variables /\ from \in Nat /\ local[c].upto \in Nat /\ local[c].try \in Nat
      /\ old \in Entry /\ old.len \in Nat /\ old.events \in Seq(Event)
  BY VariablesIs, EntryIs DEF Typed, CallsTyped, StoresTyped
<1>3. bytes \in Text
  BY <1>2, PieceIs DEF Typed, FilesTyped
<1>4. values \in Variables /\ to \in {"last", "stats"} /\ to \in Stage /\ before' = before
  <2>1. local[c].try + 1 \in Nat
    BY <1>2
  <2>2. values \in Variables
    BY <2>1, BlankIs
  <2>3. to \in {"last", "stats"} /\ "last" \in Stage /\ "stats" \in Stage
    BY DEF Stage
  <2> QED BY <1>1, <2>2, <2>3 DEF past
<1> HIDE DEF bytes, values, to
<1>5. longer \in Entry
  BY <1>2, <1>3, LongerIs
<1> HIDE DEF longer
<1>6. longer.events \in Seq(Event)
  BY <1>5, EntryIs
<1>7. CASE old.len > from + Cut(bytes) /\ Answers(c, old.events) /\ UNCHANGED cache
  <2>1. CallsTyped' /\ Returns(c, "merges", old.events)
    BY <1>1, <1>2, <1>4, <1>7, AnswersDoes DEF Typed
  <2>2. Typed'
    BY <1>1, <1>7, <2>1 DEF Typed, FilesTyped, StoresTyped, RestTyped, files, clock, past
  <2> QED BY <1>1, <1>3, <1>7, <2>1, <2>2 DEF bytes
<1>8. CASE /\ old.len <= from + Cut(bytes) /\ fits
           /\ cache' = [cache EXCEPT ![on[c]] = longer]
           /\ Answers(c, cache'[on[c]].events)
  <2>1. Has(on[c], longer)
    BY <1>5, <1>8, EntryPut DEF Typed
  <2>2. Answers(c, longer.events)
    BY <1>8, <2>1 DEF Has
  <2>3. CallsTyped' /\ Returns(c, "merges", longer.events)
    BY <1>1, <1>4, <1>6, <2>2, AnswersDoes DEF Typed
  <2>4. Typed'
    BY <1>1, <2>1, <2>3 DEF Typed, FilesTyped, StoresTyped, RestTyped, files, clock, past, Has
  <2>5. old.len >= from /\ (old.len > from => bytes[old.len - from] = NL)
    BY <1>2, <1>8
  <2> QED BY <1>1, <1>3, <1>8, <2>1, <2>3, <2>4, <2>5 DEF bytes, longer
<1>9. CASE Goes(c, to, values) /\ UNCHANGED cache
  <2>1. CallsTyped' /\ Moves(c, "merges", to) /\ local'[c] = values
    BY <1>1, <1>4, <1>9, GoesTo DEF Typed, Moves
  <2>2. Typed'
    BY <1>1, <1>9, <2>1 DEF Typed, FilesTyped, StoresTyped, RestTyped, files, clock, past
  <2> QED BY <1>1, <1>3, <1>4, <1>9, <2>1, <2>2 DEF bytes
<1> QED BY <1>1, <1>7, <1>8, <1>9

LEMMA ReadHoldsDoes ==
  ASSUME Typed, NEW c \in Call, on[c] \in Process, ReadHolds(c), local[c].len <= Len(file)
  PROVE  LET entry == Known(on[c], local[c].len)
             bytes == SubSeq(file, entry.len + 1, Len(file))
             longer == Longer(entry, entry.len, bytes, 0)
         IN  /\ Typed' /\ bytes \in Text
             /\ Has(on[c], longer) /\ Returns(c, "holds", longer.events)
             /\ UNCHANGED <<files, index, writes, lock, clock, past>>
<1> DEFINE entry == Known(on[c], local[c].len)
           bytes == SubSeq(file, entry.len + 1, Len(file))
           longer == Longer(entry, entry.len, bytes, 0)
<1>1. /\ at[c] = "holds"
      /\ cache' = [cache EXCEPT ![on[c]] = longer]
      /\ Answers(c, cache'[on[c]].events)
      /\ UNCHANGED <<files, index, writes, lock, clock, past>>
  BY DEF ReadHolds
<1>2. local[c].len \in Nat /\ Len(file) \in Nat
  BY VariablesIs DEF Typed, CallsTyped, FilesTyped, Text
<1>3. entry \in Entry /\ entry.len \in Nat /\ entry.len <= Len(file)
  <2>1. entry \in Entry /\ entry.len <= local[c].len
    BY <1>2, KnownIs
  <2>2. entry.len \in Nat
    BY <2>1, EntryIs
  <2> QED BY <1>2, <2>1, <2>2
<1> HIDE DEF entry
<1>4. bytes \in Text
  BY <1>2, <1>3, PieceIs DEF Typed, FilesTyped
<1> HIDE DEF bytes
<1>5. longer \in Entry
  BY <1>3, <1>4, LongerIs
<1> HIDE DEF longer
<1>6. longer.events \in Seq(Event) /\ Has(on[c], longer)
  BY <1>1, <1>5, EntryIs, EntryPut DEF Typed
<1>7. Answers(c, longer.events) /\ before' = before
  BY <1>1, <1>6 DEF Has, past
<1>8. CallsTyped' /\ Returns(c, "holds", longer.events)
  BY <1>1, <1>6, <1>7, AnswersDoes DEF Typed
<1>9. Typed'
  BY <1>1, <1>6, <1>8 DEF Typed, FilesTyped, StoresTyped, RestTyped, files, clock, past, Has
<1> QED BY <1>1, <1>4, <1>6, <1>8, <1>9 DEF longer, bytes, entry

LEMMA MetaIs ==
  ASSUME NEW m \in Meta
  PROVE  /\ m.edits \subseteq Call /\ m.updated \in Nat /\ m.version \in Nat
         /\ \A n \in Nat : [m EXCEPT !.updated = n] \in Meta
         /\ \A n \in Nat : [m EXCEPT !.version = n] \in Meta
         /\ \A s \in SUBSET Call, n \in Nat : [m EXCEPT !.edits = s, !.updated = n] \in Meta
BY DEF Meta

LEMMA LatestIs ==
  ASSUME NEW x \in Nat, NEW y \in Nat
  PROVE  /\ Latest(x, y) \in {x, y} /\ Latest(x, y) \in Nat
         /\ x <= Latest(x, y) /\ y <= Latest(x, y)
BY DEF Latest

LEMMA OverlayIs ==
  ASSUME Typed, NEW p \in Process, NEW m \in Meta
  PROVE  /\ Overlay(p, m) \in Meta
         /\ Overlay(p, m).edits = m.edits /\ Overlay(p, m).version = m.version
         /\ Overlay(p, m).updated = Latest(m.updated, cache[p].pending)
<1> DEFINE updated == Latest(m.updated, cache[p].pending)
<1>1. m.updated \in Nat /\ cache[p].pending \in Nat
  BY MetaIs, EntryIs DEF Typed, StoresTyped
<1>2. updated \in Nat
  BY <1>1, LatestIs
<1> HIDE DEF updated
<1>3. Overlay(p, m) = [m EXCEPT !.updated = updated]
  BY DEF Overlay, updated
<1>4. /\ [m EXCEPT !.updated = updated].edits = m.edits
      /\ [m EXCEPT !.updated = updated].version = m.version
      /\ [m EXCEPT !.updated = updated].updated = updated
  BY DEF Meta
<1> QED BY <1>2, <1>3, <1>4, MetaIs DEF updated

LEMMA EditReadsDoes ==
  ASSUME Typed, NEW c \in Call, NEW p \in Process, NEW touch \in BOOLEAN, EditReads(c, p, touch)
  PROVE  /\ Typed' /\ Begins(c, p, "edit", "saves")
         /\ lock[p] = None /\ lock' = [lock EXCEPT ![p] = c]
         /\ local'[c].meta \in Meta /\ local'[c].meta.edits = disk.edits \cup {c}
         /\ local'[c].meta.updated \in {now, Latest(disk.updated, cache[p].pending)}
         /\ UNCHANGED <<files, cache, index, writes, clock, glued, grew>>
<1> DEFINE meta == Overlay(p, disk)
           updated == IF touch THEN now ELSE meta.updated
           new == [meta EXCEPT !.edits = @ \cup {c}, !.updated = updated]
           values == [local[c] EXCEPT !.meta = new]
<1>1. /\ lock[p] = None /\ lock' = [lock EXCEPT ![p] = c]
      /\ Calls(c, p, "edit", "saves") /\ UNCHANGED <<files, cache, index, writes, clock>>
  BY DEF EditReads
<1>2. local' = [local EXCEPT ![c].meta = new]
  BY DEF EditReads
<1>3. /\ meta \in Meta /\ meta.edits = disk.edits
      /\ meta.updated = Latest(disk.updated, cache[p].pending)
  BY OverlayIs DEF Typed, FilesTyped
<1>4. now \in Nat
  BY DEF Typed, RestTyped
<1> HIDE DEF meta
<1>5. updated \in Nat /\ updated \in {now, Latest(disk.updated, cache[p].pending)}
  BY <1>3, <1>4, MetaIs
<1> HIDE DEF updated
<1>6. new \in Meta /\ new.edits = disk.edits \cup {c} /\ new.updated = updated
  BY <1>3, <1>5 DEF Meta
<1> HIDE DEF new
<1>7. values \in Variables /\ values.meta = new /\ local' = [local EXCEPT ![c] = values]
  <2>1. local[c] \in Variables
    BY DEF Typed, CallsTyped
  <2>2. values \in Variables
    BY <1>6, <2>1, VariablesIs
  <2>3. values.meta = new
    BY <2>1 DEF Variables
  <2>4. local' = [local EXCEPT ![c] = values]
    BY <1>2
  <2> QED BY <2>2, <2>3, <2>4
<1> HIDE DEF values
<1>8. "edit" \in Kind /\ "saves" \in Stage
  BY DEF Kind, Stage
<1>9. /\ CallsTyped' /\ Begins(c, p, "edit", "saves") /\ local'[c] = values
      /\ glued' = glued /\ grew' = grew
  BY <1>1, <1>7, <1>8, CallsOn DEF Typed, Begins
<1>10. Typed'
  BY <1>1, <1>9 DEF Typed, FilesTyped, StoresTyped, RestTyped, files, clock
<1> QED BY <1>1, <1>5, <1>6, <1>7, <1>9, <1>10

LEMMA EditSavesDoes ==
  ASSUME Typed, NEW c \in Call, EditSaves(c), local[c].meta \in Meta
  PROVE  /\ Typed' /\ Moves(c, "saves", "settles")
         /\ disk'.edits = local[c].meta.edits /\ disk'.updated = local[c].meta.updated
         /\ disk'.version = disk.version + 1 /\ local'[c].meta = disk'
         /\ UNCHANGED <<file, writing, stores, clock, past>>
<1> DEFINE values == [Blank EXCEPT !.meta = disk']
           new == [local[c].meta EXCEPT !.version = disk.version + 1]
<1>1. /\ at[c] = "saves" /\ disk' = new /\ changed' = now
      /\ Goes(c, "settles", values)
      /\ UNCHANGED <<file, writing, stores, clock, past>>
  BY DEF EditSaves
<1>2. disk.version + 1 \in Nat
  <2>1. disk.version \in Nat
    BY MetaIs DEF Typed, FilesTyped
  <2> QED BY <2>1
<1>3. /\ new \in Meta /\ new.edits = local[c].meta.edits
      /\ new.updated = local[c].meta.updated /\ new.version = disk.version + 1
  BY <1>2 DEF Meta
<1> HIDE DEF new
<1>4. disk' \in Meta
  BY <1>1, <1>3
<1>5. values \in Variables /\ values.meta = disk'
  BY <1>4, BlankIs, Zenon DEF Blank
<1> HIDE DEF values
<1>6. "settles" \in Stage /\ before' = before
  BY <1>1 DEF Stage, past
<1>7. CallsTyped' /\ Moves(c, "saves", "settles") /\ local'[c] = values
  BY <1>1, <1>5, <1>6, GoesTo DEF Typed, Moves
<1>8. Typed'
  BY <1>1, <1>4, <1>7 DEF Typed, FilesTyped, StoresTyped, RestTyped, stores, clock, past
<1> QED BY <1>1, <1>3, <1>5, <1>7, <1>8

LEMMA EditSettlesDoes ==
  ASSUME Typed, NEW c \in Call, on[c] \in Process, EditSettles(c), local[c].meta \in Meta
  PROVE  LET old == cache[on[c]]
         IN  /\ Typed' /\ Moves(c, "settles", "done") /\ local'[c] = local[c]
             /\ \E entry \in Entry :
                  /\ Has(on[c], entry) /\ entry.len = old.len /\ entry.events = old.events
                  /\ entry.pending = IF old.pending <= local[c].meta.updated THEN 0 ELSE old.pending
             /\ index' = [index EXCEPT ![on[c]] = None]
             /\ writes' = [writes EXCEPT ![on[c]] = @ + 1]
             /\ lock' = [lock EXCEPT ![on[c]] = None]
             /\ UNCHANGED <<files, clock, past>>
<1> DEFINE old == cache[on[c]]
           pending == IF old.pending <= local[c].meta.updated THEN 0 ELSE old.pending
           entry == [old EXCEPT !.pending = pending]
           values == local[c]
<1>1. /\ at[c] = "settles" /\ Goes(c, "done", values)
      /\ index' = [index EXCEPT ![on[c]] = None]
      /\ writes' = [writes EXCEPT ![on[c]] = @ + 1]
      /\ lock' = [lock EXCEPT ![on[c]] = None]
      /\ UNCHANGED <<files, clock, past>>
  BY DEF EditSettles
<1>2. cache' = [cache EXCEPT ![on[c]].pending = pending]
  BY DEF EditSettles
<1>3. old \in Entry /\ old.pending \in Nat
  BY EntryIs DEF Typed, StoresTyped
<1>4. pending \in Nat
  BY <1>3
<1> HIDE DEF pending
<1>5. /\ entry \in Entry /\ entry.len = old.len /\ entry.events = old.events
      /\ entry.pending = pending
  BY <1>3, <1>4 DEF Entry
<1>6. cache' = [cache EXCEPT ![on[c]] = entry]
  BY <1>2
<1> HIDE DEF entry
<1>7. Has(on[c], entry)
  BY <1>5, <1>6, EntryPut DEF Typed
<1>8. values \in Variables /\ "done" \in Stage /\ before' = before
  BY <1>1 DEF Stage, past, Typed, CallsTyped
<1> HIDE DEF values
<1>9. CallsTyped' /\ Moves(c, "settles", "done") /\ local'[c] = values
  BY <1>1, <1>8, GoesTo DEF Typed, Moves
<1>10. StoresTyped'
  <2> DEFINE Record == [time : Nat, meta : Meta]
  <2> HIDE DEF Record
  <2>1. index \in [Process -> Record \cup {None}]
    BY DEF Typed, StoresTyped, Record
  <2>2. index' \in [Process -> Record \cup {None}]
    BY <1>1, <2>1
  <2>3. writes' \in [Process -> Nat] /\ lock' \in [Process -> Call \cup {None}]
    BY <1>1 DEF Typed, StoresTyped
  <2>4. cache' \in [Process -> Entry]
    BY <1>7 DEF Has
  <2> QED BY <2>2, <2>3, <2>4 DEF StoresTyped, Record
<1>11. Typed'
  BY <1>1, <1>9, <1>10 DEF Typed, FilesTyped, RestTyped, files, clock, past
<1> QED BY <1>1, <1>5, <1>7, <1>9, <1>11 DEF values, pending

LEMMA ListScansDoes ==
  ASSUME Typed, NEW c \in Call, NEW p \in Process, ListScans(c, p)
  PROVE  /\ Typed' /\ Begins(c, p, "list", "scans")
         /\ UNCHANGED <<files, stores, clock, glued, grew>>
<1> DEFINE values == [local[c] EXCEPT !.time = changed]
<1>1. values \in Variables
  BY VariablesIs DEF Typed, CallsTyped, FilesTyped
<1>2. local' = [local EXCEPT ![c] = values] /\ Calls(c, p, "list", "scans")
      /\ UNCHANGED <<files, stores, clock, glued, grew>>
  BY DEF ListScans, Typed, CallsTyped, Calls
<1> HIDE DEF values
<1>3. "list" \in Kind /\ "scans" \in Stage
  BY DEF Kind, Stage
<1>4. CallsTyped' /\ Begins(c, p, "list", "scans")
  BY <1>1, <1>2, <1>3, CallsOn DEF Typed, Begins
<1>5. Typed'
  BY <1>2, <1>4 DEF Typed, FilesTyped, StoresTyped, RestTyped, files, stores, clock
<1> QED BY <1>2, <1>4, <1>5

LEMMA ListLooksDoes ==
  ASSUME Typed, NEW c \in Call, on[c] \in Process, ListLooks(c)
  PROVE  /\ Typed'
         /\ \/ /\ Moves(c, "scans", "overlays")
               /\ index[on[c]] # None /\ local'[c].meta = index[on[c]].meta
               /\ index[on[c]].meta \in Meta
            \/ Moves(c, "scans", "fetches") /\ local'[c].writes = writes[on[c]]
         /\ UNCHANGED <<files, stores, clock, past>>
<1> DEFINE hit == index[on[c]] # None /\ index[on[c]].time = local[c].time
           found == [Blank EXCEPT !.meta = index[on[c]].meta]
           missed == [local[c] EXCEPT !.writes = writes[on[c]]]
<1>1. /\ at[c] = "scans" /\ UNCHANGED <<files, stores, clock, past>>
      /\ (hit /\ Goes(c, "overlays", found)) \/ (~hit /\ Goes(c, "fetches", missed))
  BY DEF ListLooks, Goes
<1>2. "overlays" \in Stage /\ "fetches" \in Stage /\ before' = before
  BY <1>1 DEF Stage, past
<1>3. CASE hit /\ Goes(c, "overlays", found)
  <2>1. index[on[c]] # None /\ index[on[c]].meta \in Meta
    BY <1>3 DEF Typed, StoresTyped
  <2>2. found \in Variables /\ found.meta = index[on[c]].meta
    BY <2>1, BlankIs, Zenon DEF Blank
  <2> HIDE DEF found
  <2>3. CallsTyped' /\ Moves(c, "scans", "overlays") /\ local'[c] = found
    BY <1>1, <1>2, <1>3, <2>2, GoesTo DEF Typed, Moves
  <2>4. Typed'
    BY <1>1, <2>3 DEF Typed, FilesTyped, StoresTyped, RestTyped, files, stores, clock, past
  <2> QED BY <1>1, <2>1, <2>2, <2>3, <2>4
<1>4. CASE ~hit /\ Goes(c, "fetches", missed)
  <2>1. local[c] \in Variables /\ writes[on[c]] \in Nat
    BY DEF Typed, CallsTyped, StoresTyped
  <2>2. missed \in Variables /\ missed.writes = writes[on[c]]
    <3>1. missed \in Variables
      BY <2>1, VariablesIs
    <3>2. missed.writes = writes[on[c]]
      BY <2>1 DEF Variables
    <3> QED BY <3>1, <3>2
  <2> HIDE DEF missed
  <2>3. CallsTyped' /\ Moves(c, "scans", "fetches") /\ local'[c] = missed
    BY <1>1, <1>2, <1>4, <2>2, GoesTo DEF Typed, Moves
  <2>4. Typed'
    BY <1>1, <2>3 DEF Typed, FilesTyped, StoresTyped, RestTyped, files, stores, clock, past
  <2> QED BY <1>1, <2>2, <2>3, <2>4
<1> QED BY <1>1, <1>3, <1>4

LEMMA ListFetchesDoes ==
  ASSUME Typed, NEW c \in Call, ListFetches(c)
  PROVE  /\ Typed' /\ Moves(c, "fetches", "keeps")
         /\ local'[c].meta = disk /\ local'[c].writes = local[c].writes
         /\ UNCHANGED <<files, stores, clock, past>>
<1> DEFINE values == [local[c] EXCEPT !.meta = disk]
<1>1. at[c] = "fetches" /\ Goes(c, "keeps", values) /\ UNCHANGED <<files, stores, clock, past>>
  BY DEF ListFetches
<1>2. local[c] \in Variables /\ disk \in Meta
  BY DEF Typed, CallsTyped, FilesTyped
<1>3. values \in Variables /\ values.meta = disk /\ values.writes = local[c].writes
  <2>1. values \in Variables
    BY <1>2, VariablesIs
  <2>2. values.meta = disk /\ values.writes = local[c].writes
    BY <1>2 DEF Variables
  <2> QED BY <2>1, <2>2
<1> HIDE DEF values
<1>4. "keeps" \in Stage /\ before' = before
  BY <1>1 DEF Stage, past
<1>5. CallsTyped' /\ Moves(c, "fetches", "keeps") /\ local'[c] = values
  BY <1>1, <1>3, <1>4, GoesTo DEF Typed, Moves
<1>6. Typed'
  BY <1>1, <1>5 DEF Typed, FilesTyped, StoresTyped, RestTyped, files, stores, clock, past
<1> QED BY <1>1, <1>3, <1>5, <1>6

LEMMA ListKeepsDoes ==
  ASSUME Typed, NEW c \in Call, on[c] \in Process, ListKeeps(c), local[c].meta \in Meta
  PROVE  /\ Typed' /\ Moves(c, "keeps", "done")
         /\ local'[c].meta \in Meta /\ local'[c].meta.version = local[c].meta.version
         /\ \/ UNCHANGED index
            \/ /\ writes[on[c]] = local[c].writes
               /\ index'[on[c]].meta = local[c].meta
               /\ \A q \in Process \ {on[c]} : index'[q] = index[q]
         /\ UNCHANGED <<files, cache, writes, lock, clock, past>>
<1> DEFINE m == Overlay(on[c], local[c].meta)
           values == [Blank EXCEPT !.meta = m]
           entry == [time |-> local[c].time, meta |-> local[c].meta]
<1>1. /\ at[c] = "keeps" /\ Goes(c, "done", values)
      /\ \/ UNCHANGED index
         \/ writes[on[c]] = local[c].writes /\ index' = [index EXCEPT ![on[c]] = entry]
      /\ UNCHANGED <<files, cache, writes, lock, clock, past>>
  BY DEF ListKeeps
<1>2. m \in Meta /\ m.version = local[c].meta.version
  BY OverlayIs
<1> HIDE DEF m
<1>3. values \in Variables /\ values.meta = m
  BY <1>2, BlankIs, Zenon DEF Blank
<1> HIDE DEF values
<1>4. "done" \in Stage /\ before' = before
  BY <1>1 DEF Stage, past
<1>5. CallsTyped' /\ Moves(c, "keeps", "done") /\ local'[c] = values
  BY <1>1, <1>3, <1>4, GoesTo DEF Typed, Moves
<1>6. entry \in [time : Nat, meta : Meta] /\ entry.meta = local[c].meta
  BY VariablesIs DEF Typed, CallsTyped
<1> HIDE DEF entry
<1>7. /\ index' \in [Process -> [time : Nat, meta : Meta] \cup {None}]
      /\ \/ UNCHANGED index
         \/ /\ writes[on[c]] = local[c].writes
            /\ index'[on[c]].meta = local[c].meta
            /\ \A q \in Process \ {on[c]} : index'[q] = index[q]
  BY <1>1, <1>6 DEF Typed, StoresTyped
<1>8. Typed'
  BY <1>1, <1>5, <1>7 DEF Typed, FilesTyped, StoresTyped, RestTyped, files, clock, past
<1> QED BY <1>1, <1>2, <1>3, <1>5, <1>7, <1>8

LEMMA ListOverlaysDoes ==
  ASSUME Typed, NEW c \in Call, on[c] \in Process, ListOverlays(c), local[c].meta \in Meta
  PROVE  /\ Typed' /\ Moves(c, "overlays", "done")
         /\ local'[c].meta \in Meta /\ local'[c].meta.version = local[c].meta.version
         /\ UNCHANGED <<files, stores, clock, past>>
<1> DEFINE m == Overlay(on[c], local[c].meta)
           values == [Blank EXCEPT !.meta = m]
<1>1. /\ at[c] = "overlays" /\ Goes(c, "done", values)
      /\ UNCHANGED <<files, stores, clock, past>>
  BY DEF ListOverlays
<1>2. m \in Meta /\ m.version = local[c].meta.version
  BY OverlayIs
<1> HIDE DEF m
<1>3. values \in Variables /\ values.meta = m
  BY <1>2, BlankIs, Zenon DEF Blank
<1> HIDE DEF values
<1>4. "done" \in Stage /\ before' = before
  BY <1>1 DEF Stage, past
<1>5. CallsTyped' /\ Moves(c, "overlays", "done") /\ local'[c] = values
  BY <1>1, <1>3, <1>4, GoesTo DEF Typed, Moves
<1>6. Typed'
  BY <1>1, <1>5 DEF Typed, FilesTyped, StoresTyped, RestTyped, files, stores, clock, past
<1> QED BY <1>1, <1>2, <1>3, <1>5, <1>6

LEMMA EvictDoes ==
  ASSUME Typed, NEW p \in Process, Evict(p)
  PROVE  /\ Typed' /\ cache[p].pending = 0 /\ Has(p, Unread)
         /\ UNCHANGED <<files, index, writes, lock, clock, at, does, on, local, past>>
<1>1. /\ cache[p].pending = 0 /\ cache' = [cache EXCEPT ![p] = Unread]
      /\ UNCHANGED <<files, index, writes, lock, clock, at, does, on, local, past>>
  BY DEF Evict
<1>2. cache[p] \in Entry /\ Unread \in Entry
  BY EntryIs DEF Typed, StoresTyped
<1>3. Has(p, Unread)
  BY <1>1, <1>2, EntryPut DEF Typed
<1>4. Typed'
  BY <1>1, <1>3 DEF Typed, CallsTyped, FilesTyped, StoresTyped, RestTyped, files, clock, past, Has
<1> QED BY <1>1, <1>3, <1>4

LEMMA TickDoes ==
  ASSUME Typed, Tick
  PROVE  Typed' /\ now' = now + 1 /\ UNCHANGED <<files, stores, failures, at, does, on, local, past>>
BY DEF Tick, Typed, CallsTyped, FilesTyped, StoresTyped, RestTyped, files, stores, past

\* The calls a process dies in.
LostIn(p) == {c \in Call : on[c] = p /\ at[c] \notin Over}

LEMMA CrashDoes ==
  ASSUME Typed, NEW p \in Process, Crash(p)
  PROVE  /\ Typed' /\ Has(p, Unread)
         /\ \A c \in Call :
              /\ c \in LostIn(p) => at'[c] = "dead" /\ local'[c] = Blank
              /\ c \notin LostIn(p) => at'[c] = at[c] /\ local'[c] = local[c]
         /\ \/ writing \in LostIn(p) /\ writing' = None /\ CutShort
            \/ writing \notin LostIn(p) /\ UNCHANGED <<writing, glued>>
         /\ index' = [index EXCEPT ![p] = None] /\ writes' = [writes EXCEPT ![p] = 0]
         /\ lock' = [lock EXCEPT ![p] = None] /\ grew' = [grew EXCEPT ![p] = 0]
         /\ UNCHANGED <<file, disk, changed, now, does, on, before>>
<1>1. /\ failures' = failures + 1
      /\ at' = [c \in Call |-> IF c \in LostIn(p) THEN "dead" ELSE at[c]]
      /\ local' = [c \in Call |-> IF c \in LostIn(p) THEN Blank ELSE local[c]]
      /\ IF writing \in LostIn(p) THEN writing' = None /\ CutShort ELSE UNCHANGED <<writing, glued>>
      /\ cache' = [cache EXCEPT ![p] = Unread]
      /\ index' = [index EXCEPT ![p] = None]
      /\ writes' = [writes EXCEPT ![p] = 0]
      /\ lock' = [lock EXCEPT ![p] = None]
      /\ grew' = [grew EXCEPT ![p] = 0]
      /\ UNCHANGED <<file, disk, changed, now, does, on, before>>
  BY DEF Crash, LostIn
<1>2. Has(p, Unread)
  <2>1. cache[p] \in Entry
    BY DEF Typed, StoresTyped
  <2> QED BY <1>1, <2>1, EntryIs, EntryPut DEF Typed
<1> HIDE DEF LostIn
<1>3. CallsTyped'
  BY <1>1, BlankIs DEF Typed, CallsTyped, Stage
<1>4. FilesTyped'
  BY <1>1 DEF Typed, FilesTyped
<1>5. StoresTyped'
  BY <1>1, <1>2 DEF Typed, StoresTyped, Has
<1>6. RestTyped'
  BY <1>1 DEF Typed, RestTyped, CutShort
<1>7. Typed'
  BY <1>3, <1>4, <1>5, <1>6 DEF Typed
<1> QED BY <1>1, <1>2, <1>7
LEMMA Numbers ==
  ASSUME Typed
  PROVE  /\ Len(file) \in Nat /\ now \in Nat /\ disk \in Meta
         /\ \A p \in Process : /\ cache[p] \in Entry /\ cache[p].len \in Nat
                               /\ cache[p].pending \in Nat /\ grew[p] \in Nat /\ writes[p] \in Nat
         /\ \A c \in Call : /\ local[c] \in Variables /\ local[c].len \in Nat
                            /\ local[c].upto \in Nat /\ local[c].writes \in Nat
<1>1. Len(file) \in Nat /\ now \in Nat /\ disk \in Meta
  BY DEF Typed, FilesTyped, RestTyped, Text
<1>2. ASSUME NEW p \in Process
      PROVE  /\ cache[p] \in Entry /\ cache[p].len \in Nat /\ cache[p].pending \in Nat
             /\ grew[p] \in Nat /\ writes[p] \in Nat
  BY EntryIs DEF Typed, StoresTyped, RestTyped
<1>3. ASSUME NEW c \in Call
      PROVE  /\ local[c] \in Variables /\ local[c].len \in Nat
             /\ local[c].upto \in Nat /\ local[c].writes \in Nat
  BY VariablesIs DEF Typed, CallsTyped
<1> QED BY <1>1, <1>2, <1>3

(***************************************************************************)
(* Where a call can stand and what its variables can be                    *)
(***************************************************************************)
Appending == {"looks", "writes", "writing", "remembers"}
Reading == {"stats", "takes", "reads", "merges", "last", "holds"}
Listing == {"scans", "fetches", "keeps", "overlays"}
Editing(c) == at[c] \in {"saves", "settles"}

KindOf(c) ==
  /\ at[c] # "unused" => on[c] \in Process
  /\ at[c] \in Appending => does[c] = "append"
  /\ at[c] \in Reading => does[c] = "read"
  /\ Editing(c) => does[c] = "edit"
  /\ at[c] \in Listing => does[c] = "list"
  /\ \A d \in before[c] : at[d] = "done"

HasMeta(c) ==
  \/ Editing(c) \/ at[c] \in {"keeps", "overlays"}
  \/ at[c] = "done" /\ does[c] \in {"edit", "list"}

MetaOf(c) == HasMeta(c) => local[c].meta \in Meta

\* No length is more than that of the file.
ReachOf(c) ==
  /\ at[c] \in {"looks", "takes", "reads", "holds", "remembers"} => local[c].len <= Len(file)
  /\ at[c] = "merges" => local[c].len <= local[c].upto /\ local[c].upto <= Len(file)
  /\ at[c] = "writing" => local[c].len \in 1..(Len(Bytes(c)) - 1) /\ local[c].len <= Len(file)

Base ==
  /\ Typed
  /\ \A p \in Process : cache[p].len <= Len(file)
  /\ \A c \in Call : KindOf(c) /\ MetaOf(c) /\ ReachOf(c)

LEMMA BytesStay ==
  ASSUME NEW c \in Call, local'[c].lead = local[c].lead
  PROVE  Bytes(c)' = Bytes(c)
BY DEF Bytes

LEMMA OthersBase ==
  ASSUME Base, Typed', NEW c \in Call, Only(c), at[c] # "done", Len(file) <= Len(file'),
         \A p \in Process : cache'[p].len <= Len(file'),
         KindOf(c)', MetaOf(c)', ReachOf(c)'
  PROVE  Base'
<1>1. Len(file) \in Nat /\ Len(file') \in Nat
  BY DEF Base, Typed, FilesTyped, Text
<1>2. ASSUME NEW d \in Call \ {c}
      PROVE  KindOf(d)' /\ MetaOf(d)' /\ ReachOf(d)'
  <2>1. /\ at'[d] = at[d] /\ does'[d] = does[d] /\ on'[d] = on[d]
        /\ local'[d] = local[d] /\ before'[d] = before[d]
        /\ KindOf(d) /\ MetaOf(d) /\ ReachOf(d)
    BY DEF Only, Base
  <2>2. KindOf(d)'
    <3>1. \A x \in before[d] : x \in Call /\ at[x] = "done"
      BY <2>1 DEF KindOf, Base, Typed, CallsTyped
    <3>2. \A x \in before[d] : at'[x] = "done"
      BY <3>1 DEF Only
    <3> QED BY <2>1, <3>2 DEF KindOf, Editing
  <2>3. MetaOf(d)'
    BY <2>1 DEF MetaOf, HasMeta, Editing
  <2>4. Bytes(d)' = Bytes(d) /\ local[d].len \in Nat /\ local[d].upto \in Nat
    BY <2>1, BytesStay, VariablesIs DEF Base, Typed, CallsTyped
  <2>5. ReachOf(d)'
    BY <1>1, <2>1, <2>4 DEF ReachOf
  <2> QED BY <2>2, <2>3, <2>5
<1> QED BY <1>2 DEF Base

LEMMA MovesKind ==
  ASSUME Base, NEW c \in Call, NEW from, NEW to, Moves(c, from, to),
         \/ from \in Appending /\ to \in Appending \cup {"done", "failed"}
         \/ from \in Reading /\ to \in Reading \cup {"done"}
         \/ from = "saves" /\ to = "settles"
         \/ from = "settles" /\ to = "done"
         \/ from \in Listing /\ to \in Listing \cup {"done"}
  PROVE  KindOf(c)' /\ at[c] # "done"
<1>1. /\ at[c] = from /\ at'[c] = to /\ does'[c] = does[c] /\ on'[c] = on[c]
      /\ before'[c] = before[c] /\ KindOf(c) /\ at[c] # "done" /\ before[c] \subseteq Call
  BY DEF Moves, Base, Typed, CallsTyped, Appending, Reading, Listing
<1>2. \A d \in before[c] : at'[d] = "done"
  BY <1>1 DEF Moves, Only, KindOf
<1>3. KindOf(c)'
  BY <1>1, <1>2 DEF KindOf, Editing, Appending, Reading, Listing
<1> QED BY <1>1, <1>3

LEMMA BeginsKind ==
  ASSUME Base, NEW c \in Call, NEW p \in Process, NEW kind, NEW to, Begins(c, p, kind, to),
         \/ kind = "append" /\ to = "looks"
         \/ kind = "read" /\ to = "stats"
         \/ kind = "edit" /\ to = "saves"
         \/ kind = "list" /\ to = "scans"
  PROVE  KindOf(c)' /\ at[c] # "done"
<1>1. /\ at[c] = "unused" /\ at'[c] = to /\ does'[c] = kind /\ on'[c] = p
      /\ before'[c] = {d \in Call : at[d] = "done"}
  BY DEF Begins
<1>2. \A d \in before'[c] : at'[d] = "done"
  BY <1>1 DEF Begins, Only
<1>3. KindOf(c)'
  BY <1>1, <1>2 DEF KindOf, Editing, Appending, Reading, Listing
<1> QED BY <1>1, <1>3

LEMMA AppendOpensBase ==
  ASSUME Base, NEW c \in Call, NEW p \in Process, AppendOpens(c, p)
  PROVE  Base'
<1>1. /\ Typed' /\ Begins(c, p, "append", "looks") /\ UNCHANGED <<files, stores>>
      /\ local'[c] = [local[c] EXCEPT !.len = cache[p].len]
  BY AppendOpensDoes DEF Base
<1>2. local'[c].len = cache[p].len
  BY <1>1, VariablesIs DEF Base, Typed, CallsTyped
<1>3. KindOf(c)' /\ at[c] # "done"
  BY <1>1, BeginsKind
<1>4. MetaOf(c)'
  BY <1>1 DEF Begins, MetaOf, HasMeta, Editing
<1>5. ReachOf(c)'
  BY <1>1, <1>2 DEF Begins, ReachOf, Base, files
<1> QED BY <1>1, <1>3, <1>4, <1>5, OthersBase DEF Begins, files, stores, Base, Typed, FilesTyped, Text

LEMMA AppendLooksBase ==
  ASSUME Base, NEW c \in Call, AppendLooks(c)
  PROVE  Base'
<1>1. Typed' /\ Moves(c, "looks", "writes") /\ UNCHANGED <<files, stores>>
  BY AppendLooksDoes DEF Base
<1>2. KindOf(c)' /\ at[c] # "done"
  BY <1>1, MovesKind DEF Appending
<1>3. MetaOf(c)' /\ ReachOf(c)'
  BY <1>1 DEF Moves, MetaOf, HasMeta, Editing, ReachOf
<1> QED BY <1>1, <1>2, <1>3, OthersBase DEF Moves, files, stores, Base, Typed, FilesTyped, Text

LEMMA WriteStartsBase ==
  ASSUME Base, NEW c \in Call, NEW part \in 1..(Len(Bytes(c)) - 1), WriteStarts(c, part)
  PROVE  Base' /\ Len(file') = Len(file) + part
<1>1. /\ Typed' /\ Moves(c, "writes", "writing") /\ UNCHANGED stores
      /\ file' = file \o SubSeq(Bytes(c), 1, part)
      /\ local'[c] = [local[c] EXCEPT !.len = part]
  BY WriteStartsDoes DEF Base
<1>2. local'[c].len = part /\ local'[c].lead = local[c].lead
  BY <1>1, VariablesIs DEF Base, Typed, CallsTyped
<1>3. Bytes(c) \in Text /\ Len(Bytes(c)) \in Nat /\ Bytes(c)' = Bytes(c)
  BY <1>2, BytesIs, BytesStay DEF Base, Typed
<1>4. SubSeq(Bytes(c), 0 + 1, part) \in Text /\ Len(SubSeq(Bytes(c), 0 + 1, part)) = part
  BY <1>3, PieceIs
<1>5. Len(file') = Len(file) + part /\ Len(file) \in Nat
  BY <1>1, <1>4, Joins DEF Base, Typed, FilesTyped
<1>6. KindOf(c)' /\ at[c] # "done"
  BY <1>1, MovesKind DEF Appending
<1>7. MetaOf(c)'
  BY <1>1 DEF Moves, MetaOf, HasMeta, Editing
<1>8. ReachOf(c)'
  BY <1>1, <1>2, <1>3, <1>5 DEF Moves, ReachOf
<1>9. \A p \in Process : cache'[p].len <= Len(file')
  <2>1. ASSUME NEW p \in Process
        PROVE  cache'[p].len <= Len(file')
    <3>1. cache'[p].len <= Len(file) /\ cache'[p].len \in Nat /\ part \in Nat
      BY <1>1, Numbers DEF Base, stores
    <3> QED BY <1>5, <3>1
  <2> QED BY <2>1
<1> QED BY <1>1, <1>5, <1>6, <1>7, <1>8, <1>9, OthersBase DEF Moves

LEMMA WriteEndsBase ==
  ASSUME Base, NEW c \in Call, WriteEnds(c)
  PROVE  /\ Base' /\ Len(file') = Len(file) + (Len(Bytes(c)) - local[c].len)
         /\ local[c].len \in 1..(Len(Bytes(c)) - 1)
<1>1. Bytes(c) \in Text /\ Len(Bytes(c)) \in Nat
  BY BytesIs DEF Base, Typed
<1>2. local[c].len \in Nat /\ local[c].len \in 1..(Len(Bytes(c)) - 1) /\ local[c].len <= Len(file)
  BY VariablesIs DEF WriteEnds, Base, Typed, CallsTyped, ReachOf
<1>3. /\ Typed' /\ Moves(c, "writing", "remembers") /\ UNCHANGED stores
      /\ file' = file \o SubSeq(Bytes(c), local[c].len + 1, Len(Bytes(c)))
      /\ local'[c] = [local[c] EXCEPT !.len = Len(file')]
  <2>1. local[c].len <= Len(Bytes(c))
    BY <1>1, <1>2
  <2> QED BY <2>1, WriteEndsDoes DEF Base
<1>4. local'[c].len = Len(file')
  BY <1>3, VariablesIs DEF Base, Typed, CallsTyped
<1>5. /\ SubSeq(Bytes(c), local[c].len + 1, Len(Bytes(c))) \in Text
      /\ Len(SubSeq(Bytes(c), local[c].len + 1, Len(Bytes(c)))) = Len(Bytes(c)) - local[c].len
  BY <1>1, <1>2, PieceIs
<1>6. /\ Len(file') = Len(file) + (Len(Bytes(c)) - local[c].len) /\ Len(file) \in Nat
      /\ Len(file') \in Nat /\ Len(file) <= Len(file')
  <2>1. Len(file') = Len(file) + (Len(Bytes(c)) - local[c].len) /\ Len(file) \in Nat
    <3> DEFINE rest == SubSeq(Bytes(c), local[c].len + 1, Len(Bytes(c)))
    <3>1. rest \in Text /\ file' = file \o rest
      BY <1>3, <1>5
    <3> HIDE DEF rest
    <3>2. Len(file') = Len(file) + Len(rest) /\ Len(file) \in Nat
      BY <3>1, Joins DEF Base, Typed, FilesTyped
    <3> QED BY <1>5, <3>2 DEF rest
  <2> QED BY <1>1, <1>2, <2>1
<1>7. KindOf(c)' /\ at[c] # "done"
  BY <1>3, MovesKind DEF Appending
<1>8. MetaOf(c)'
  BY <1>3 DEF Moves, MetaOf, HasMeta, Editing
<1>9. ReachOf(c)'
  <2>1. at'[c] = "remembers" /\ local'[c].len <= Len(file')
    <3>1. at'[c] = "remembers"
      BY <1>3 DEF Moves
    <3> QED BY <1>4, <1>6, <3>1
  <2> QED BY <2>1 DEF ReachOf
<1>10. \A p \in Process : cache'[p].len <= Len(file')
  <2>1. ASSUME NEW p \in Process
        PROVE  cache'[p].len <= Len(file')
    <3>1. cache'[p].len <= Len(file) /\ cache'[p].len \in Nat
      BY <1>3, Numbers DEF Base, stores
    <3> QED BY <1>6, <3>1
  <2> QED BY <2>1
<1> QED BY <1>2, <1>3, <1>6, <1>7, <1>8, <1>9, <1>10, OthersBase DEF Moves

LEMMA WriteFailsBase ==
  ASSUME Base, NEW c \in Call, WriteFails(c)
  PROVE  Base'
<1>1. Typed' /\ Moves(c, "writing", "failed") /\ UNCHANGED <<file, stores>>
  BY WriteFailsDoes DEF Base
<1>2. KindOf(c)' /\ at[c] # "done"
  BY <1>1, MovesKind DEF Appending
<1>3. MetaOf(c)' /\ ReachOf(c)'
  BY <1>1 DEF Moves, MetaOf, HasMeta, Editing, ReachOf
<1> QED BY <1>1, <1>2, <1>3, OthersBase DEF Moves, files, stores, Base, Typed, FilesTyped, Text

LEMMA AppendRemembersBase ==
  ASSUME Base, NEW c \in Call, AppendRemembers(c)
  PROVE  Base' /\ on[c] \in Process
<1>1. at[c] = "remembers" /\ on[c] \in Process /\ local[c].len <= Len(file) /\ cache[on[c]].len <= Len(file)
  BY DEF AppendRemembers, Base, KindOf, ReachOf
<1>2. PICK entry \in Entry :
        /\ Typed' /\ Moves(c, "remembers", "done")
        /\ Has(on[c], entry) /\ entry.len \in {local[c].len, cache[on[c]].len}
        /\ UNCHANGED files
  BY <1>1, AppendRemembersDoes DEF Base
<1>3. KindOf(c)' /\ at[c] # "done"
  BY <1>2, MovesKind DEF Appending
<1>4. MetaOf(c)' /\ ReachOf(c)'
  BY <1>1, <1>2 DEF Moves, MetaOf, HasMeta, Editing, ReachOf, Base, KindOf, Appending
<1>5. \A p \in Process : cache'[p].len <= Len(file')
  BY <1>1, <1>2 DEF Has, Base, files
<1> QED BY <1>1, <1>2, <1>3, <1>4, <1>5, OthersBase DEF Moves, files, Base, Typed, FilesTyped, Text

LEMMA ReadCallsBase ==
  ASSUME Base, NEW c \in Call, NEW p \in Process, ReadCalls(c, p)
  PROVE  Base'
<1>1. Typed' /\ Begins(c, p, "read", "stats") /\ UNCHANGED <<files, stores>>
  BY ReadCallsDoes DEF Base
<1>2. KindOf(c)' /\ at[c] # "done"
  BY <1>1, BeginsKind
<1>3. MetaOf(c)' /\ ReachOf(c)'
  BY <1>1 DEF Begins, MetaOf, HasMeta, Editing, ReachOf
<1> QED BY <1>1, <1>2, <1>3, OthersBase DEF Begins, files, stores, Base, Typed, FilesTyped, Text

LEMMA ReadStatsBase ==
  ASSUME Base, NEW c \in Call, ReadStats(c)
  PROVE  Base'
<1>1. /\ Typed' /\ (Moves(c, "stats", "takes") \/ Moves(c, "last", "holds"))
      /\ local'[c] = [local[c] EXCEPT !.len = Len(file)] /\ UNCHANGED <<files, stores>>
  BY ReadStatsDoes DEF Base
<1>2. local'[c].len = Len(file)
  BY <1>1, VariablesIs DEF Base, Typed, CallsTyped
<1>3. KindOf(c)' /\ at[c] # "done"
  BY <1>1, MovesKind DEF Reading
<1>4. MetaOf(c)'
  BY <1>1 DEF Moves, MetaOf, HasMeta, Editing
<1>5. ReachOf(c)'
  BY <1>1, <1>2 DEF Moves, ReachOf, files, Base, Typed, FilesTyped, Text
<1> QED BY <1>1, <1>3, <1>4, <1>5, OthersBase DEF Moves, files, stores, Base, Typed, FilesTyped, Text

LEMMA ReturnsBase ==
  ASSUME Base, Typed', NEW c \in Call, NEW from \in {"takes", "merges", "holds"},
         NEW events, Returns(c, from, events), UNCHANGED files,
         \A p \in Process : cache'[p].len <= Len(file)
  PROVE  Base'
<1>1. Moves(c, from, "done")
  BY DEF Returns
<1>2. KindOf(c)' /\ at[c] # "done"
  BY <1>1, MovesKind DEF Reading
<1>3. does[c] = "read"
  BY <1>1 DEF Moves, Base, KindOf, Reading
<1>4. MetaOf(c)' /\ ReachOf(c)'
  BY <1>1, <1>3 DEF Moves, MetaOf, HasMeta, Editing, ReachOf
<1> QED BY <1>1, <1>2, <1>4, OthersBase DEF Moves, files, Base, Typed, FilesTyped, Text

LEMMA ReadTakesBase ==
  ASSUME Base, NEW c \in Call, ReadTakes(c)
  PROVE  Base' /\ on[c] \in Process
<1>1. at[c] = "takes" /\ on[c] \in Process /\ local[c].len <= Len(file) /\ local[c].len \in Nat
  BY VariablesIs DEF ReadTakes, Base, KindOf, ReachOf, Typed, CallsTyped
<1> DEFINE entry == Known(on[c], local[c].len)
<1>2. /\ Typed' /\ Has(on[c], entry) /\ UNCHANGED files
      /\ \/ Returns(c, "takes", entry.events)
         \/ Moves(c, "takes", "reads") /\ local'[c] = [local[c] EXCEPT !.len = entry.len]
  BY <1>1, ReadTakesDoes DEF Base
<1>3. entry \in Entry /\ entry.len <= local[c].len
  BY <1>1, KnownIs DEF Base
<1> HIDE DEF entry
<1>4. entry.len \in Nat /\ entry.len <= Len(file) /\ Len(file) \in Nat
  <2>1. entry.len \in Nat /\ Len(file) \in Nat
    BY <1>3, EntryIs, Numbers DEF Base
  <2> QED BY <1>1, <1>3, <2>1
<1>5. \A p \in Process : cache'[p].len <= Len(file)
  BY <1>2, <1>4 DEF Has, Base
<1>6. CASE Returns(c, "takes", entry.events)
  BY <1>1, <1>2, <1>5, <1>6, ReturnsBase
<1>7. CASE Moves(c, "takes", "reads") /\ local'[c] = [local[c] EXCEPT !.len = entry.len]
  <2>1. local'[c].len = entry.len
    BY <1>7, VariablesIs DEF Base, Typed, CallsTyped
  <2>2. KindOf(c)' /\ at[c] # "done"
    BY <1>7, MovesKind DEF Reading
  <2>3. MetaOf(c)' /\ ReachOf(c)'
    BY <1>2, <1>4, <1>7, <2>1 DEF Moves, MetaOf, HasMeta, Editing, ReachOf, files
  <2> QED BY <1>1, <1>2, <1>4, <1>5, <1>7, <2>2, <2>3, OthersBase DEF Moves, files
<1> QED BY <1>2, <1>6, <1>7

LEMMA ReadReadsBase ==
  ASSUME Base, NEW c \in Call, ReadReads(c)
  PROVE  Base'
<1>1. /\ Typed' /\ Moves(c, "reads", "merges")
      /\ local'[c] = [local[c] EXCEPT !.upto = Len(file)] /\ UNCHANGED <<files, stores>>
  BY ReadReadsDoes DEF Base
<1>2. local'[c].upto = Len(file) /\ local'[c].len = local[c].len
  BY <1>1, VariablesIs DEF Base, Typed, CallsTyped
<1>3. KindOf(c)' /\ at[c] # "done"
  BY <1>1, MovesKind DEF Reading
<1>4. MetaOf(c)'
  BY <1>1 DEF Moves, MetaOf, HasMeta, Editing
<1>5. ReachOf(c)'
  BY <1>1, <1>2 DEF Moves, ReachOf, files, Base, Typed, FilesTyped, Text
<1> QED BY <1>1, <1>3, <1>4, <1>5, OthersBase DEF Moves, files, stores, Base, Typed, FilesTyped, Text

LEMMA ReadMergesBase ==
  ASSUME Base, NEW c \in Call, ReadMerges(c)
  PROVE  Base' /\ on[c] \in Process /\ local[c].len <= local[c].upto /\ local[c].upto <= Len(file)
<1>1. /\ at[c] = "merges" /\ on[c] \in Process
      /\ local[c].len <= local[c].upto /\ local[c].upto <= Len(file)
  BY DEF ReadMerges, Base, KindOf, ReachOf
<1> DEFINE old == cache[on[c]]
           from == local[c].len
           bytes == SubSeq(file, from + 1, local[c].upto)
           longer == Longer(old, from, bytes, old.len - from)
<1>2. /\ Typed' /\ bytes \in Text /\ UNCHANGED files
      /\ \/ Returns(c, "merges", old.events) /\ UNCHANGED cache
         \/ Has(on[c], longer) /\ Returns(c, "merges", longer.events)
         \/ (Moves(c, "merges", "last") \/ Moves(c, "merges", "stats")) /\ UNCHANGED cache
  BY <1>1, ReadMergesDoes DEF Base
<1>3. CASE Returns(c, "merges", old.events) /\ UNCHANGED cache
  BY <1>1, <1>2, <1>3, ReturnsBase DEF Base
<1>4. CASE Has(on[c], longer) /\ Returns(c, "merges", longer.events)
  <2>1. from \in Nat /\ local[c].upto \in Nat /\ old \in Entry
    BY <1>1, VariablesIs DEF Base, Typed, CallsTyped, StoresTyped
  <2>2. Len(bytes) = local[c].upto - from
    BY <1>1, <2>1, PieceIs DEF Base, Typed, FilesTyped
  <2>3. Cut(bytes) \in 0..Len(bytes)
    BY <1>2, CutIs
  <2>4. longer.len = from + Cut(bytes)
    <3> DEFINE skip == old.len - from
    <3>1. bytes \in Text
      BY <1>2
    <3> HIDE DEF bytes, old, from, skip
    <3>2. old \in Entry /\ from \in Nat
      BY <2>1
    <3>3. Longer(old, from, bytes, skip).len = from + Cut(bytes)
      BY <3>1, <3>2, LongerIs
    <3> QED BY <3>3 DEF skip
  <2> HIDE DEF bytes, longer
  <2>5. longer.len <= Len(file)
    <3>1. Len(file) \in Nat
      BY DEF Base, Typed, FilesTyped, Text
    <3> QED BY <1>1, <2>1, <2>2, <2>3, <2>4, <3>1
  <2>6. \A p \in Process : cache'[p].len <= Len(file)
    BY <1>4, <2>5 DEF Has, Base
  <2>7. Base'
    BY <1>2, <1>4, <2>6, ReturnsBase
  <2> QED BY <1>1, <2>7
<1>5. CASE (Moves(c, "merges", "last") \/ Moves(c, "merges", "stats")) /\ UNCHANGED cache
  <2>1. KindOf(c)' /\ at[c] # "done"
    BY <1>5, MovesKind DEF Reading
  <2>2. MetaOf(c)' /\ ReachOf(c)'
    BY <1>5 DEF Moves, MetaOf, HasMeta, Editing, ReachOf
  <2>3. Base'
    BY <1>2, <1>5, <2>1, <2>2, OthersBase DEF Moves, files, Base, Typed, FilesTyped, Text
  <2> QED BY <1>1, <2>3
<1> QED BY <1>2, <1>3, <1>4, <1>5

LEMMA ReadHoldsBase ==
  ASSUME Base, NEW c \in Call, ReadHolds(c)
  PROVE  Base' /\ on[c] \in Process /\ local[c].len <= Len(file)
<1>1. at[c] = "holds" /\ on[c] \in Process /\ local[c].len <= Len(file) /\ local[c].len \in Nat
  BY VariablesIs DEF ReadHolds, Base, KindOf, ReachOf, Typed, CallsTyped
<1> DEFINE entry == Known(on[c], local[c].len)
           bytes == SubSeq(file, entry.len + 1, Len(file))
           longer == Longer(entry, entry.len, bytes, 0)
<1>2. /\ Typed' /\ bytes \in Text /\ UNCHANGED files
      /\ Has(on[c], longer) /\ Returns(c, "holds", longer.events)
  BY <1>1, ReadHoldsDoes DEF Base
<1>3. entry \in Entry /\ entry.len <= local[c].len
  BY <1>1, KnownIs DEF Base
<1> HIDE DEF entry
<1>4. entry.len \in Nat /\ Len(file) \in Nat
  BY <1>3, EntryIs, Numbers DEF Base
<1>5. Len(bytes) = Len(file) - entry.len
  BY <1>1, <1>3, <1>4, PieceIs DEF Base, Typed, FilesTyped
<1>6. Cut(bytes) \in 0..Len(bytes)
  BY <1>2, CutIs
<1>7. longer.len = entry.len + Cut(bytes)
  BY <1>2, <1>3, <1>4, LongerIs
<1> HIDE DEF bytes, longer
<1>8. longer.len <= Len(file)
  BY <1>4, <1>5, <1>6, <1>7, <1>1, <1>3
<1>9. \A p \in Process : cache'[p].len <= Len(file)
  BY <1>2, <1>8 DEF Has, Base
<1> QED BY <1>1, <1>2, <1>9, ReturnsBase

LEMMA EvictBase ==
  ASSUME Base, NEW p \in Process, Evict(p)
  PROVE  Base'
<1>1. /\ Typed' /\ Has(p, Unread)
      /\ UNCHANGED <<files, at, does, on, local, past>>
  BY EvictDoes DEF Base
<1>2. \A q \in Process : cache'[q].len <= Len(file)
  BY <1>1, Numbers DEF Has, Base, Unread
<1>3. UNCHANGED <<file, at, does, on, local, before>>
  BY <1>1 DEF files, past
<1>4. \A c \in Call : KindOf(c)' /\ MetaOf(c)' /\ ReachOf(c)'
  BY <1>3 DEF Base, KindOf, MetaOf, HasMeta, ReachOf, Editing, Bytes
<1> QED BY <1>1, <1>2, <1>3, <1>4 DEF Base

LEMMA EditReadsBase ==
  ASSUME Base, NEW c \in Call, NEW p \in Process, NEW touch \in BOOLEAN, EditReads(c, p, touch)
  PROVE  Base'
<1>1. /\ Typed' /\ Begins(c, p, "edit", "saves") /\ local'[c].meta \in Meta
      /\ UNCHANGED <<files, cache>>
  BY EditReadsDoes DEF Base
<1>2. KindOf(c)' /\ at[c] # "done"
  BY <1>1, BeginsKind
<1>3. MetaOf(c)' /\ ReachOf(c)'
  BY <1>1 DEF Begins, MetaOf, ReachOf
<1> QED BY <1>1, <1>2, <1>3, Numbers, OthersBase DEF Begins, files, Base

LEMMA EditSavesBase ==
  ASSUME Base, NEW c \in Call, EditSaves(c)
  PROVE  Base' /\ local[c].meta \in Meta
<1>1. local[c].meta \in Meta
  BY DEF EditSaves, Base, MetaOf, HasMeta, Editing
<1>2. /\ Typed' /\ Moves(c, "saves", "settles") /\ local'[c].meta = disk'
      /\ UNCHANGED <<file, stores>>
  BY <1>1, EditSavesDoes DEF Base
<1>3. KindOf(c)' /\ at[c] # "done"
  BY <1>2, MovesKind
<1>4. MetaOf(c)' /\ ReachOf(c)'
  BY <1>2 DEF Moves, MetaOf, ReachOf, Typed, FilesTyped
<1> QED BY <1>1, <1>2, <1>3, <1>4, Numbers, OthersBase DEF Moves, stores, Base

LEMMA EditSettlesBase ==
  ASSUME Base, NEW c \in Call, EditSettles(c)
  PROVE  Base' /\ local[c].meta \in Meta /\ on[c] \in Process
<1>1. local[c].meta \in Meta /\ on[c] \in Process
  BY DEF EditSettles, Base, MetaOf, HasMeta, KindOf, Editing
<1>2. PICK entry \in Entry :
        /\ Typed' /\ Moves(c, "settles", "done") /\ local'[c] = local[c]
        /\ Has(on[c], entry) /\ entry.len = cache[on[c]].len /\ UNCHANGED files
  BY <1>1, EditSettlesDoes DEF Base
<1>3. KindOf(c)' /\ at[c] # "done"
  BY <1>2, MovesKind
<1>4. MetaOf(c)'
  BY <1>1, <1>2 DEF MetaOf
<1>5. ReachOf(c)'
  BY <1>2 DEF Moves, ReachOf
<1>6. \A p \in Process : cache'[p].len <= Len(file')
  BY <1>1, <1>2 DEF Has, Base, files
<1> QED BY <1>1, <1>2, <1>3, <1>4, <1>5, <1>6, Numbers, OthersBase DEF Moves, files, Base

LEMMA ListScansBase ==
  ASSUME Base, NEW c \in Call, NEW p \in Process, ListScans(c, p)
  PROVE  Base'
<1>1. Typed' /\ Begins(c, p, "list", "scans") /\ UNCHANGED <<files, stores>>
  BY ListScansDoes DEF Base
<1>2. KindOf(c)' /\ at[c] # "done"
  BY <1>1, BeginsKind
<1>3. MetaOf(c)' /\ ReachOf(c)'
  BY <1>1 DEF Begins, MetaOf, HasMeta, Editing, ReachOf
<1> QED BY <1>1, <1>2, <1>3, Numbers, OthersBase DEF Begins, files, stores, Base

LEMMA ListLooksBase ==
  ASSUME Base, NEW c \in Call, ListLooks(c)
  PROVE  Base' /\ on[c] \in Process
<1>1. on[c] \in Process
  BY DEF ListLooks, Base, KindOf
<1>2. /\ Typed' /\ UNCHANGED <<files, stores>>
      /\ \/ Moves(c, "scans", "overlays") /\ local'[c].meta \in Meta
         \/ Moves(c, "scans", "fetches")
  BY <1>1, ListLooksDoes DEF Base
<1>3. KindOf(c)' /\ at[c] # "done"
  BY <1>2, MovesKind DEF Listing
<1>4. MetaOf(c)' /\ ReachOf(c)'
  BY <1>2 DEF Moves, MetaOf, HasMeta, Editing, ReachOf
<1> QED BY <1>1, <1>2, <1>3, <1>4, Numbers, OthersBase DEF Moves, files, stores, Base

LEMMA ListFetchesBase ==
  ASSUME Base, NEW c \in Call, ListFetches(c)
  PROVE  Base'
<1>1. /\ Typed' /\ UNCHANGED <<files, stores>>
      /\ Moves(c, "fetches", "keeps") /\ local'[c].meta = disk
  BY ListFetchesDoes DEF Base
<1>2. KindOf(c)' /\ at[c] # "done"
  BY <1>1, MovesKind DEF Listing
<1>3. MetaOf(c)' /\ ReachOf(c)'
  BY <1>1, Numbers DEF Moves, MetaOf, HasMeta, Editing, ReachOf, Base
<1> QED BY <1>1, <1>2, <1>3, Numbers, OthersBase DEF Moves, files, stores, Base

LEMMA ListKeepsBase ==
  ASSUME Base, NEW c \in Call, ListKeeps(c)
  PROVE  Base' /\ on[c] \in Process /\ local[c].meta \in Meta
<1>1. on[c] \in Process /\ local[c].meta \in Meta
  BY DEF ListKeeps, Base, KindOf, MetaOf, HasMeta
<1>2. /\ Typed' /\ UNCHANGED <<files, cache>>
      /\ Moves(c, "keeps", "done") /\ local'[c].meta \in Meta
  BY <1>1, ListKeepsDoes DEF Base
<1>3. KindOf(c)' /\ at[c] # "done"
  BY <1>2, MovesKind DEF Listing
<1>4. MetaOf(c)' /\ ReachOf(c)'
  BY <1>2 DEF Moves, MetaOf, ReachOf
<1> QED BY <1>1, <1>2, <1>3, <1>4, Numbers, OthersBase DEF Moves, files, Base

LEMMA ListOverlaysBase ==
  ASSUME Base, NEW c \in Call, ListOverlays(c)
  PROVE  Base' /\ on[c] \in Process /\ local[c].meta \in Meta
<1>1. on[c] \in Process /\ local[c].meta \in Meta
  BY DEF ListOverlays, Base, KindOf, MetaOf, HasMeta
<1>2. /\ Typed' /\ UNCHANGED <<files, stores>>
      /\ Moves(c, "overlays", "done") /\ local'[c].meta \in Meta
  BY <1>1, ListOverlaysDoes DEF Base
<1>3. KindOf(c)' /\ at[c] # "done"
  BY <1>2, MovesKind DEF Listing
<1>4. MetaOf(c)' /\ ReachOf(c)'
  BY <1>2 DEF Moves, MetaOf, ReachOf
<1> QED BY <1>1, <1>2, <1>3, <1>4, Numbers, OthersBase DEF Moves, files, stores, Base

LEMMA TickBase ==
  ASSUME Base, Tick
  PROVE  Base'
<1>1. Typed' /\ UNCHANGED <<files, stores, at, does, on, local, past>>
  BY TickDoes DEF Base
<1>2. UNCHANGED <<file, cache, at, does, on, local, before>>
  BY <1>1 DEF files, stores, past
<1>3. \A c \in Call : KindOf(c)' /\ MetaOf(c)' /\ ReachOf(c)'
  BY <1>2 DEF Base, KindOf, MetaOf, HasMeta, ReachOf, Editing, Bytes
<1> QED BY <1>1, <1>2, <1>3 DEF Base

LEMMA CrashBase ==
  ASSUME Base, NEW p \in Process, Crash(p)
  PROVE  Base'
<1>1. /\ Typed' /\ Has(p, Unread) /\ UNCHANGED <<file, does, on, before>>
      /\ \A c \in Call :
           /\ c \in LostIn(p) => at'[c] = "dead" /\ local'[c] = Blank
           /\ c \notin LostIn(p) => at'[c] = at[c] /\ local'[c] = local[c]
  BY CrashDoes DEF Base
<1>2. \A q \in Process : cache'[q].len <= Len(file')
  BY <1>1, Numbers DEF Has, Base, Unread
<1>3. ASSUME NEW c \in Call
      PROVE  KindOf(c)' /\ MetaOf(c)' /\ ReachOf(c)'
  <2>1. KindOf(c) /\ MetaOf(c) /\ ReachOf(c) /\ before[c] \subseteq Call
    BY DEF Base, Typed, CallsTyped
  <2>2. \A d \in before[c] : at'[d] = "done"
    BY <1>1, <2>1 DEF KindOf, LostIn, Over
  <2>3. CASE c \in LostIn(p)
    <3>1. at'[c] = "dead" /\ at[c] # "unused"
      BY <1>1, <2>3 DEF LostIn, Over
    <3>2. KindOf(c)'
      BY <1>1, <2>1, <2>2, <3>1 DEF KindOf, Editing, Appending, Reading, Listing
    <3>3. MetaOf(c)' /\ ReachOf(c)'
      BY <3>1 DEF MetaOf, HasMeta, Editing, ReachOf
    <3> QED BY <3>2, <3>3
  <2>4. CASE c \notin LostIn(p)
    <3>1. at'[c] = at[c] /\ local'[c] = local[c] /\ Bytes(c)' = Bytes(c)
      BY <1>1, <2>4, BytesStay
    <3>2. KindOf(c)'
      BY <1>1, <2>1, <2>2, <3>1 DEF KindOf, Editing
    <3>3. MetaOf(c)' /\ ReachOf(c)'
      BY <1>1, <2>1, <3>1 DEF MetaOf, HasMeta, Editing, ReachOf
    <3> QED BY <3>2, <3>3
  <2> QED BY <2>3, <2>4
<1> QED BY <1>1, <1>2, <1>3 DEF Base

LEMMA BaseInit ==
  Init => Base
<1> SUFFICES ASSUME Init
             PROVE  Base
  OBVIOUS
<1>1. None \in Event /\ Line(None) \in Text /\ Len(Line(None)) = 3
  BY LineIs DEF Event
<1>2. CallsTyped
  BY BlankIs DEF Init, CallsTyped, Stage
<1>3. FilesTyped
  BY <1>1 DEF Init, FilesTyped, Meta
<1>4. StoresTyped
  <2>1. Unread \in Entry
    BY DEF Unread, Entry
  <2> QED BY <2>1 DEF Init, StoresTyped
<1>5. RestTyped
  BY DEF Init, RestTyped
<1>6. \A p \in Process : cache[p].len <= Len(file)
  BY <1>1 DEF Init, Unread
<1>7. \A c \in Call : KindOf(c) /\ MetaOf(c) /\ ReachOf(c)
  BY DEF Init, KindOf, MetaOf, HasMeta, ReachOf, Editing, Appending, Reading, Listing
<1> QED BY <1>2, <1>3, <1>4, <1>5, <1>6, <1>7 DEF Base, Typed

LEMMA BaseNext ==
  Base /\ [Next]_vars => Base'
<1> SUFFICES ASSUME Base, [Next]_vars
             PROVE  Base'
  OBVIOUS
<1>1. ASSUME NEW c \in Call, NEW p \in Process,
             \/ AppendOpens(c, p) \/ ReadCalls(c, p) \/ ListScans(c, p)
             \/ \E touch \in BOOLEAN : EditReads(c, p, touch)
      PROVE  Base'
  BY <1>1, AppendOpensBase, ReadCallsBase, ListScansBase, EditReadsBase
<1>2. ASSUME NEW c \in Call,
             \/ AppendLooks(c) \/ WriteEnds(c) \/ WriteFails(c) \/ AppendRemembers(c)
             \/ \E part \in 1..(Len(Bytes(c)) - 1) : WriteStarts(c, part)
      PROVE  Base'
  BY <1>2, AppendLooksBase, WriteEndsBase, WriteFailsBase, AppendRemembersBase, WriteStartsBase
<1>3. ASSUME NEW c \in Call,
             \/ ReadStats(c) \/ ReadTakes(c) \/ ReadReads(c) \/ ReadMerges(c) \/ ReadHolds(c)
      PROVE  Base'
  BY <1>3, ReadStatsBase, ReadTakesBase, ReadReadsBase, ReadMergesBase, ReadHoldsBase
<1>4. ASSUME NEW c \in Call,
             \/ EditSaves(c) \/ EditSettles(c)
             \/ ListLooks(c) \/ ListFetches(c) \/ ListKeeps(c) \/ ListOverlays(c)
      PROVE  Base'
  BY <1>4, EditSavesBase, EditSettlesBase, ListLooksBase, ListFetchesBase, ListKeepsBase,
     ListOverlaysBase
<1>5. ASSUME NEW p \in Process, Evict(p) \/ Crash(p)
      PROVE  Base'
  BY <1>5, EvictBase, CrashBase
<1>6. CASE Tick
  BY <1>6, TickBase
<1>7. CASE UNCHANGED vars
  <2>1. UNCHANGED <<files, stores, clock, at, does, on, local, past>>
    BY <1>7 DEF vars, files, stores, clock, past
  <2>2. Typed'
    BY <2>1 DEF Base, Typed, CallsTyped, FilesTyped, StoresTyped, RestTyped, files, stores, clock, past
  <2>3. UNCHANGED <<file, cache, at, does, on, local, before>>
    BY <2>1 DEF files, stores, past
  <2>4. \A c \in Call : KindOf(c)' /\ MetaOf(c)' /\ ReachOf(c)'
    BY <2>3 DEF Base, KindOf, MetaOf, HasMeta, ReachOf, Editing, Bytes
  <2> QED BY <2>2, <2>3, <2>4 DEF Base
<1> QED BY <1>1, <1>2, <1>3, <1>4, <1>5, <1>6, <1>7 DEF Next

\* Every value has its type (of the whole specification).
THEOREM TypeCorrect == Spec => []TypeOK
<1>1. Base => TypeOK
  BY TypeIs DEF Base, Typed
<1> QED BY <1>1, BaseInit, BaseNext, PTL DEF Spec

(***************************************************************************)
(* What a step leaves alone                                                *)
(***************************************************************************)
Same(c) ==
  /\ at'[c] = at[c] /\ does'[c] = does[c] /\ on'[c] = on[c]
  /\ local'[c] = local[c] /\ before'[c] = before[c]

NoEdit(c) == at[c] = "unused" \/ does[c] # "edit"
NoList(c) == at[c] = "unused" \/ does[c] # "list"

EditsQuiet ==
  /\ UNCHANGED <<disk, lock>>
  /\ \A c \in Call : Same(c) \/ (NoEdit(c) /\ NoEdit(c)')

TimesQuiet ==
  /\ grew' = grew /\ now <= now'
  /\ \A p \in Process : cache'[p].pending = cache[p].pending

ListsQuiet ==
  /\ UNCHANGED <<index, writes>>
  /\ \A c \in Call : Same(c) \/ (NoList(c) /\ NoList(c)')

\* What was is over for good.
PastKept ==
  \A c \in Call :
    /\ at[c] # "unused" => /\ at'[c] # "unused" /\ does'[c] = does[c]
                           /\ on'[c] = on[c] /\ before'[c] = before[c]
    /\ at[c] = "done" => at'[c] = "done" /\ local'[c] = local[c]

LEMMA MovesQuiet ==
  ASSUME Base, NEW c \in Call, NEW from, NEW to, Moves(c, from, to),
         from # "done", from # "unused", to # "unused"
  PROVE  /\ PastKept
         /\ does[c] # "edit" => \A d \in Call : Same(d) \/ (NoEdit(d) /\ NoEdit(d)')
         /\ does[c] # "list" => \A d \in Call : Same(d) \/ (NoList(d) /\ NoList(d)')
BY DEF Moves, Only, PastKept, Same, NoEdit, NoList

LEMMA BeginsQuiet ==
  ASSUME Base, NEW c \in Call, NEW p, NEW kind, NEW to, Begins(c, p, kind, to)
  PROVE  /\ PastKept
         /\ kind # "edit" => \A d \in Call : Same(d) \/ (NoEdit(d) /\ NoEdit(d)')
         /\ kind # "list" => \A d \in Call : Same(d) \/ (NoList(d) /\ NoList(d)')
BY DEF Begins, Only, PastKept, Same, NoEdit, NoList

LEMMA HasQuiet ==
  ASSUME Typed, NEW p \in Process, NEW entry, Has(p, entry), entry.pending = cache[p].pending
  PROVE  \A q \in Process : cache'[q].pending = cache[q].pending
BY DEF Has

AppendStep(c) ==
  \/ AppendLooks(c) \/ WriteEnds(c) \/ WriteFails(c)
  \/ \E p \in Process : AppendOpens(c, p)
  \/ \E part \in 1..(Len(Bytes(c)) - 1) : WriteStarts(c, part)

ReadStep(c) ==
  \/ ReadStats(c) \/ ReadTakes(c) \/ ReadReads(c) \/ ReadMerges(c) \/ ReadHolds(c)
  \/ \E p \in Process : ReadCalls(c, p)

ListStep(c) ==
  \/ ListLooks(c) \/ ListFetches(c) \/ ListKeeps(c) \/ ListOverlays(c)
  \/ \E p \in Process : ListScans(c, p)

LEMMA AppendStepQuiet ==
  ASSUME Base, NEW c \in Call, AppendStep(c)
  PROVE  PastKept /\ EditsQuiet /\ ListsQuiet /\ TimesQuiet
<1> USE Numbers DEF Base, EditsQuiet, ListsQuiet, TimesQuiet, files, stores, clock, past
<1>1. ASSUME NEW p \in Process, AppendOpens(c, p)
      PROVE  PastKept /\ EditsQuiet /\ ListsQuiet /\ TimesQuiet
  <2>1. Begins(c, p, "append", "looks") /\ UNCHANGED <<files, stores, clock, grew>>
    BY <1>1, AppendOpensDoes
  <2> QED BY <2>1, BeginsQuiet
<1>2. CASE AppendLooks(c)
  <2>1. Moves(c, "looks", "writes") /\ UNCHANGED <<files, stores, clock, past>>
    BY <1>2, AppendLooksDoes
  <2>2. does[c] = "append"
    BY <2>1 DEF Moves, KindOf, Appending
  <2> QED BY <2>1, <2>2, MovesQuiet
<1>3. ASSUME NEW part \in 1..(Len(Bytes(c)) - 1), WriteStarts(c, part)
      PROVE  PastKept /\ EditsQuiet /\ ListsQuiet /\ TimesQuiet
  <2>1. Moves(c, "writes", "writing") /\ UNCHANGED <<disk, stores, clock, past>>
    BY <1>3, WriteStartsDoes
  <2>2. does[c] = "append"
    BY <2>1 DEF Moves, KindOf, Appending
  <2> QED BY <2>1, <2>2, MovesQuiet
<1>4. CASE WriteEnds(c)
  <2>1. at[c] = "writing" /\ local[c].len <= Len(Bytes(c))
    <3>1. at[c] = "writing" /\ Len(Bytes(c)) \in Nat /\ local[c].len \in 1..(Len(Bytes(c)) - 1)
      BY <1>4, BytesIs DEF WriteEnds, ReachOf, Typed
    <3> QED BY <3>1
  <2>2. Moves(c, "writing", "remembers") /\ UNCHANGED <<disk, stores, clock, past>>
    BY <1>4, <2>1, WriteEndsDoes
  <2>3. does[c] = "append"
    BY <2>2 DEF Moves, KindOf, Appending
  <2> QED BY <2>2, <2>3, MovesQuiet
<1>5. CASE WriteFails(c)
  <2>1. Moves(c, "writing", "failed") /\ UNCHANGED <<disk, stores, now, grew>>
    BY <1>5, WriteFailsDoes
  <2>2. does[c] = "append"
    BY <2>1 DEF Moves, KindOf, Appending
  <2> QED BY <2>1, <2>2, MovesQuiet
<1> QED BY <1>1, <1>2, <1>3, <1>4, <1>5 DEF AppendStep

LEMMA ReadStepQuiet ==
  ASSUME Base, NEW c \in Call, ReadStep(c)
  PROVE  PastKept /\ EditsQuiet /\ ListsQuiet /\ TimesQuiet
<1> USE Numbers DEF Base, EditsQuiet, ListsQuiet, TimesQuiet, files, stores, clock, past
<1>1. ASSUME NEW p \in Process, ReadCalls(c, p)
      PROVE  PastKept /\ EditsQuiet /\ ListsQuiet /\ TimesQuiet
  BY <1>1, ReadCallsDoes, BeginsQuiet
<1>2. CASE ReadStats(c)
  <2>1. /\ Moves(c, "stats", "takes") \/ Moves(c, "last", "holds")
        /\ UNCHANGED <<files, stores, clock, past>>
    BY <1>2, ReadStatsDoes
  <2>2. does[c] = "read"
    BY <2>1 DEF Moves, KindOf, Reading
  <2> QED BY <2>1, <2>2, MovesQuiet
<1>3. CASE ReadTakes(c)
  <2>1. on[c] \in Process /\ local[c].len \in Nat
    BY <1>3, ReadTakesBase
  <2>2. /\ Moves(c, "takes", "done") \/ Moves(c, "takes", "reads")
        /\ Has(on[c], Known(on[c], local[c].len))
        /\ UNCHANGED <<files, index, writes, lock, clock, past>>
    BY <1>3, <2>1, ReadTakesDoes DEF Returns
  <2>3. \A q \in Process : cache'[q].pending = cache[q].pending
    BY <2>1, <2>2, KnownIs, HasQuiet
  <2>4. does[c] = "read"
    BY <2>2 DEF Moves, KindOf, Reading
  <2> QED BY <2>2, <2>3, <2>4, MovesQuiet
<1>4. CASE ReadReads(c)
  <2>1. Moves(c, "reads", "merges") /\ UNCHANGED <<files, stores, clock, past>>
    BY <1>4, ReadReadsDoes
  <2>2. does[c] = "read"
    BY <2>1 DEF Moves, KindOf, Reading
  <2> QED BY <2>1, <2>2, MovesQuiet
<1>5. CASE ReadMerges(c)
  <2> DEFINE old == cache[on[c]]
             bytes == SubSeq(file, local[c].len + 1, local[c].upto)
             skip == old.len - local[c].len
             longer == Longer(old, local[c].len, bytes, skip)
  <2>1. on[c] \in Process /\ local[c].len <= local[c].upto /\ local[c].upto <= Len(file)
    BY <1>5, ReadMergesBase
  <2>2. /\ Moves(c, "merges", "done") \/ Moves(c, "merges", "last") \/ Moves(c, "merges", "stats")
        /\ Has(on[c], longer) \/ UNCHANGED cache
        /\ bytes \in Text
        /\ UNCHANGED <<files, index, writes, lock, clock, past>>
    BY <1>5, <2>1, ReadMergesDoes DEF Returns
  <2> HIDE DEF bytes, skip
  <2>3. longer.pending = old.pending
    <3> HIDE DEF old
    <3>1. old \in Entry /\ local[c].len \in Nat /\ bytes \in Text
      BY <2>1, <2>2 DEF old
    <3> QED BY <3>1, LongerSizes
  <2> HIDE DEF longer
  <2>4. \A q \in Process : cache'[q].pending = cache[q].pending
    BY <2>1, <2>2, <2>3, HasQuiet
  <2>5. does[c] = "read"
    BY <2>2 DEF Moves, KindOf, Reading
  <2> QED BY <2>2, <2>4, <2>5, MovesQuiet
<1>6. CASE ReadHolds(c)
  <2> DEFINE entry == Known(on[c], local[c].len)
             bytes == SubSeq(file, entry.len + 1, Len(file))
             longer == Longer(entry, entry.len, bytes, 0)
  <2>1. on[c] \in Process /\ local[c].len <= Len(file)
    BY <1>6, ReadHoldsBase
  <2>2. /\ Moves(c, "holds", "done") /\ Has(on[c], longer) /\ bytes \in Text
        /\ UNCHANGED <<files, index, writes, lock, clock, past>>
    BY <1>6, <2>1, ReadHoldsDoes DEF Returns
  <2>3. entry \in Entry /\ entry.pending = cache[on[c]].pending /\ entry.len \in Nat
    BY <2>1, KnownIs, EntryIs
  <2> HIDE DEF bytes, entry
  <2>4. longer.pending = cache[on[c]].pending
    BY <2>2, <2>3, LongerSizes
  <2> HIDE DEF longer
  <2>5. \A q \in Process : cache'[q].pending = cache[q].pending
    BY <2>1, <2>2, <2>4, HasQuiet
  <2>6. does[c] = "read"
    BY <2>2 DEF Moves, KindOf, Reading
  <2> QED BY <2>2, <2>5, <2>6, MovesQuiet
<1> QED BY <1>1, <1>2, <1>3, <1>4, <1>5, <1>6 DEF ReadStep

LEMMA AppendRemembersQuiet ==
  ASSUME Base, NEW c \in Call, AppendRemembers(c)
  PROVE  PastKept /\ EditsQuiet /\ ListsQuiet
<1>1. on[c] \in Process
  BY AppendRemembersBase
<1>2. Moves(c, "remembers", "done") /\ UNCHANGED <<files, index, writes, lock>>
  BY <1>1, AppendRemembersDoes DEF Base
<1>3. does[c] = "append"
  BY <1>2 DEF Moves, KindOf, Appending, Base
<1> QED BY <1>2, <1>3, MovesQuiet DEF EditsQuiet, ListsQuiet, files

LEMMA ListStepQuiet ==
  ASSUME Base, NEW c \in Call, ListStep(c)
  PROVE  PastKept /\ EditsQuiet /\ TimesQuiet
<1>1. ASSUME NEW p \in Process, ListScans(c, p)
      PROVE  PastKept /\ EditsQuiet /\ TimesQuiet
  <2>1. Begins(c, p, "list", "scans") /\ UNCHANGED <<files, stores, clock, grew>>
    BY <1>1, ListScansDoes DEF Base
  <2> QED BY <2>1, BeginsQuiet, Numbers DEF EditsQuiet, TimesQuiet, files, stores, clock, Base
<1>2. CASE ListLooks(c) \/ ListFetches(c) \/ ListKeeps(c) \/ ListOverlays(c)
  <2>1. \E from \in Listing, to \in Listing \cup {"done"} :
          Moves(c, from, to) /\ UNCHANGED <<files, cache, lock, clock, past>>
    <3>1. CASE ListLooks(c)
      BY <3>1, ListLooksBase, ListLooksDoes DEF Base, Listing, stores
    <3>2. CASE ListFetches(c)
      BY <3>2, ListFetchesDoes DEF Base, Listing, stores
    <3>3. CASE ListKeeps(c)
      BY <3>3, ListKeepsBase, ListKeepsDoes DEF Base, Listing, stores
    <3>4. CASE ListOverlays(c)
      BY <3>4, ListOverlaysBase, ListOverlaysDoes DEF Base, Listing, stores
    <3> QED BY <1>2, <3>1, <3>2, <3>3, <3>4
  <2>2. PICK from \in Listing, to \in Listing \cup {"done"} :
          Moves(c, from, to) /\ UNCHANGED <<files, cache, lock, clock, past>>
    BY <2>1
  <2>3. does[c] = "list"
    BY <2>2 DEF Moves, KindOf, Base
  <2>4. from # "done" /\ from # "unused" /\ to # "unused"
    BY DEF Listing
  <2> QED BY <2>2, <2>3, <2>4, MovesQuiet, Numbers DEF EditsQuiet, TimesQuiet, files, clock, past, Base
<1> QED BY <1>1, <1>2 DEF ListStep

LEMMA EditStepQuiet ==
  ASSUME Base, NEW c \in Call
  PROVE  /\ \A p \in Process, touch \in BOOLEAN :
              EditReads(c, p, touch) => PastKept /\ ListsQuiet /\ TimesQuiet
         /\ EditSaves(c) => PastKept /\ ListsQuiet /\ TimesQuiet
         /\ EditSettles(c) => PastKept
<1>1. ASSUME NEW p \in Process, NEW touch \in BOOLEAN, EditReads(c, p, touch)
      PROVE  PastKept /\ ListsQuiet /\ TimesQuiet
  <2>1. Begins(c, p, "edit", "saves") /\ UNCHANGED <<cache, index, writes, clock, grew>>
    BY <1>1, EditReadsDoes DEF Base
  <2> QED BY <2>1, BeginsQuiet, Numbers DEF ListsQuiet, TimesQuiet, clock, Base
<1>2. ASSUME EditSaves(c)
      PROVE  PastKept /\ ListsQuiet /\ TimesQuiet
  <2>1. Moves(c, "saves", "settles") /\ UNCHANGED <<stores, clock, past>>
    BY <1>2, EditSavesBase, EditSavesDoes DEF Base
  <2>2. does[c] = "edit"
    BY <2>1 DEF Moves, KindOf, Base, Editing
  <2> QED BY <2>1, <2>2, MovesQuiet, Numbers DEF ListsQuiet, TimesQuiet, stores, clock, past, Base
<1>3. ASSUME EditSettles(c)
      PROVE  PastKept
  <2>1. Moves(c, "settles", "done")
    BY <1>3, EditSettlesBase, EditSettlesDoes DEF Base
  <2> QED BY <2>1, MovesQuiet
<1> QED BY <1>1, <1>2, <1>3

LEMMA CrashPast ==
  ASSUME Base, NEW p \in Process, Crash(p)
  PROVE  PastKept
<1>1. /\ UNCHANGED <<does, on, before>>
      /\ \A c \in Call :
           /\ c \in LostIn(p) => at'[c] = "dead" /\ local'[c] = Blank
           /\ c \notin LostIn(p) => at'[c] = at[c] /\ local'[c] = local[c]
  BY CrashDoes DEF Base
<1> QED BY <1>1 DEF PastKept, LostIn, Over

LEMMA WorldQuiet ==
  ASSUME Base, (\E p \in Process : Evict(p)) \/ Tick \/ UNCHANGED vars
  PROVE  PastKept /\ EditsQuiet /\ ListsQuiet /\ TimesQuiet
<1>1. ASSUME NEW p \in Process, Evict(p)
      PROVE  PastKept /\ EditsQuiet /\ ListsQuiet /\ TimesQuiet
  <2>1. /\ cache[p].pending = 0 /\ Has(p, Unread)
        /\ UNCHANGED <<disk, index, writes, lock, now, at, does, on, local, before, grew>>
    BY <1>1, EvictDoes DEF Base, files, clock, past
  <2>2. \A q \in Process : cache'[q].pending = cache[q].pending
    BY <2>1, HasQuiet DEF Base, Unread
  <2> QED BY <2>1, <2>2, Numbers DEF PastKept, EditsQuiet, ListsQuiet, TimesQuiet, Same, Base
<1>2. ASSUME Tick \/ UNCHANGED vars
      PROVE  PastKept /\ EditsQuiet /\ ListsQuiet /\ TimesQuiet
  <2>1. UNCHANGED <<disk, index, writes, lock, at, does, on, local, before, grew, cache>>
        /\ (now' = now \/ now' = now + 1)
    BY <1>2, TickDoes DEF Base, vars, files, stores, past
  <2> QED BY <2>1, Numbers DEF PastKept, EditsQuiet, ListsQuiet, TimesQuiet, Same, Base
<1> QED BY <1>1, <1>2

\* The steps, by what of meta.json they are about.
LEMMA StepIs ==
  ASSUME Base, [Next]_vars
  PROVE  /\ PastKept
         /\ \/ EditsQuiet /\ TimesQuiet /\ ListsQuiet
            \/ \E c \in Call : AppendRemembers(c) /\ EditsQuiet /\ ListsQuiet
            \/ \E c \in Call : ListStep(c) /\ EditsQuiet /\ TimesQuiet
            \/ \E c \in Call, p \in Process, touch \in BOOLEAN :
                 EditReads(c, p, touch) /\ ListsQuiet /\ TimesQuiet
            \/ \E c \in Call : EditSaves(c) /\ ListsQuiet /\ TimesQuiet
            \/ \E c \in Call : EditSettles(c)
            \/ \E p \in Process : Crash(p)
<1> DEFINE Goal == /\ PastKept
                   /\ \/ EditsQuiet /\ TimesQuiet /\ ListsQuiet
                      \/ \E c \in Call : AppendRemembers(c) /\ EditsQuiet /\ ListsQuiet
                      \/ \E c \in Call : ListStep(c) /\ EditsQuiet /\ TimesQuiet
                      \/ \E c \in Call, p \in Process, touch \in BOOLEAN :
                           EditReads(c, p, touch) /\ ListsQuiet /\ TimesQuiet
                      \/ \E c \in Call : EditSaves(c) /\ ListsQuiet /\ TimesQuiet
                      \/ \E c \in Call : EditSettles(c)
                      \/ \E p \in Process : Crash(p)
<1>1. \/ \E c \in Call : AppendStep(c) \/ ReadStep(c) \/ ListStep(c) \/ AppendRemembers(c)
      \/ \E c \in Call, p \in Process, touch \in BOOLEAN : EditReads(c, p, touch)
      \/ \E c \in Call : EditSaves(c) \/ EditSettles(c)
      \/ \E p \in Process : Crash(p)
      \/ (\E p \in Process : Evict(p)) \/ Tick \/ UNCHANGED vars
  BY Zenon DEF Next, AppendStep, ReadStep, ListStep
<1>2. ASSUME NEW c \in Call, AppendStep(c) \/ ReadStep(c) \/ ListStep(c) \/ AppendRemembers(c)
      PROVE  Goal
  BY <1>2, AppendStepQuiet, ReadStepQuiet, ListStepQuiet, AppendRemembersQuiet, Zenon
<1>3. ASSUME NEW c \in Call, NEW p \in Process, NEW touch \in BOOLEAN, EditReads(c, p, touch)
      PROVE  Goal
  BY <1>3, EditStepQuiet, Zenon
<1>4. ASSUME NEW c \in Call, EditSaves(c) \/ EditSettles(c)
      PROVE  Goal
  BY <1>4, EditStepQuiet, Zenon
<1>5. ASSUME NEW p \in Process, Crash(p)
      PROVE  Goal
  BY <1>5, CrashPast, Zenon
<1>6. ASSUME (\E p \in Process : Evict(p)) \/ Tick \/ UNCHANGED vars
      PROVE  Goal
  BY <1>6, WorldQuiet, Zenon
<1> HIDE DEF Goal
<1>7. Goal
  BY <1>1, <1>2, <1>3, <1>4, <1>5, <1>6, Zenon
<1> QED BY <1>7, Zenon DEF Goal

(***************************************************************************)
(* Changes of meta.json                                                    *)
(***************************************************************************)
\* META_WRITE is held from the reading of meta.json until the change is settled: the
\* other changes of the process returned before this one was made.
Locked ==
  \A c \in Call : Editing(c) =>
    /\ lock[on[c]] = c
    /\ \A d \in Call \ {c} :
         does[d] = "edit" /\ on[d] = on[c] /\ (Editing(d) \/ at[d] = "done") => d \in before[c]

LEMMA RivalsStay ==
  ASSUME PastKept, NEW c \in Call, NEW d \in Call, Rivals(c, d)
  PROVE  Rivals(c, d)'
BY DEF PastKept, Rivals, Ran, Overlap

LEMMA LockedNext ==
  ASSUME Base, Locked, [Next]_vars
  PROVE  Locked'
<1>1. CASE EditsQuiet
  <2>1. ASSUME NEW c \in Call, Editing(c)'
        PROVE  /\ lock'[on'[c]] = c
               /\ \A d \in Call \ {c} :
                    does'[d] = "edit" /\ on'[d] = on'[c] /\ (Editing(d)' \/ at'[d] = "done")
                      => d \in before'[c]
    <3>1. does'[c] = "edit" /\ at'[c] # "unused"
      BY <2>1, BaseNext DEF Base, KindOf, Editing
    <3>2. Same(c)
      BY <1>1, <3>1 DEF EditsQuiet, NoEdit
    <3>3. Editing(c) /\ on'[c] = on[c] /\ before'[c] = before[c]
      BY <2>1, <3>2 DEF Same, Editing
    <3>4. ASSUME NEW d \in Call \ {c}, does'[d] = "edit", on'[d] = on'[c],
                 Editing(d)' \/ at'[d] = "done"
          PROVE  d \in before'[c]
      <4>1. Same(d)
        BY <1>1, <3>4 DEF EditsQuiet, NoEdit, Editing
      <4> QED BY <3>3, <3>4, <4>1 DEF Same, Locked, Editing
    <3> QED BY <1>1, <3>3, <3>4 DEF EditsQuiet, Locked
  <2> QED BY <2>1 DEF Locked
<1>2. ASSUME NEW c \in Call, NEW p \in Process, NEW touch \in BOOLEAN, EditReads(c, p, touch)
      PROVE  Locked'
  <2>1. /\ Begins(c, p, "edit", "saves") /\ lock[p] = None /\ lock' = [lock EXCEPT ![p] = c]
    BY <1>2, EditReadsDoes DEF Base
  <2>2. lock'[p] = c /\ \A q \in Process \ {p} : lock'[q] = lock[q]
    BY <2>1 DEF Base, Typed, StoresTyped
  <2>3. /\ at'[c] = "saves" /\ on'[c] = p /\ before'[c] = {d \in Call : at[d] = "done"}
        /\ \A d \in Call \ {c} : Same(d)
    BY <2>1 DEF Begins, Only, Same
  <2>4. ASSUME NEW d \in Call \ {c}, Editing(d)
        PROVE  on[d] \in Process \ {p} /\ on'[d] # p
    <3>1. on[d] \in Process /\ lock[on[d]] = d
      BY <2>4 DEF Base, KindOf, Locked, Editing
    <3> QED BY <2>1, <2>3, <3>1, NoneAssumption DEF Same
  <2>5. ASSUME NEW d \in Call \ {c}, Editing(d)'
        PROVE  /\ lock'[on'[d]] = d
               /\ \A e \in Call \ {d} :
                    does'[e] = "edit" /\ on'[e] = on'[d] /\ (Editing(e)' \/ at'[e] = "done")
                      => e \in before'[d]
    <3>1. Same(d) /\ Editing(d)
      BY <2>3, <2>5 DEF Same, Editing
    <3>2. lock'[on'[d]] = d
      BY <2>2, <2>4, <3>1 DEF Same, Locked
    <3>3. ASSUME NEW e \in Call \ {d}, does'[e] = "edit", on'[e] = on'[d],
                 Editing(e)' \/ at'[e] = "done"
          PROVE  e \in before'[d]
      <4>1. e # c
        BY <2>3, <2>4, <3>1, <3>3
      <4> QED BY <2>3, <3>1, <3>3, <4>1 DEF Same, Locked, Editing
    <3> QED BY <3>2, <3>3
  <2>6. ASSUME NEW d \in Call \ {c}, does'[d] = "edit", on'[d] = on'[c],
               Editing(d)' \/ at'[d] = "done"
        PROVE  d \in before'[c]
    <3>1. Same(d)
      BY <2>3
    <3>2. ~Editing(d)
      BY <2>3, <2>4, <2>6
    <3> QED BY <2>3, <2>6, <3>1, <3>2 DEF Same, Editing
  <2> QED BY <2>2, <2>3, <2>5, <2>6 DEF Locked
<1>3. ASSUME NEW c \in Call, EditSaves(c)
      PROVE  Locked'
  <2>1. /\ Moves(c, "saves", "settles") /\ UNCHANGED lock
    BY <1>3, EditSavesBase, EditSavesDoes DEF Base, stores
  <2>2. \A d \in Call : /\ Editing(d)' <=> Editing(d)
                        /\ at'[d] = "done" <=> at[d] = "done"
                        /\ does'[d] = does[d] /\ on'[d] = on[d] /\ before'[d] = before[d]
    BY <2>1 DEF Moves, Only, Editing
  <2> QED BY <2>1, <2>2 DEF Locked
<1>4. ASSUME NEW c \in Call, EditSettles(c)
      PROVE  Locked'
  <2>1. /\ Moves(c, "settles", "done") /\ lock' = [lock EXCEPT ![on[c]] = None]
        /\ on[c] \in Process
    BY <1>4, EditSettlesBase, EditSettlesDoes DEF Base
  <2>2. ~Editing(c)' /\ Editing(c) /\ \A d \in Call \ {c} : Same(d)
    BY <2>1 DEF Moves, Only, Same, Editing
  <2>3. ASSUME NEW d \in Call, Editing(d)'
        PROVE  /\ lock'[on'[d]] = d
               /\ \A e \in Call \ {d} :
                    does'[e] = "edit" /\ on'[e] = on'[d] /\ (Editing(e)' \/ at'[e] = "done")
                      => e \in before'[d]
    <3>1. d # c /\ Same(d) /\ Editing(d) /\ on[d] \in Process
      BY <2>2, <2>3 DEF Same, Editing, Base, KindOf
    <3>2. on[d] # on[c]
      BY <2>2, <3>1 DEF Locked
    <3>3. lock'[on'[d]] = d
      BY <2>1, <3>1, <3>2 DEF Same, Locked, Base, Typed, StoresTyped
    <3>4. ASSUME NEW e \in Call \ {d}, does'[e] = "edit", on'[e] = on'[d],
                 Editing(e)' \/ at'[e] = "done"
          PROVE  e \in before'[d]
      <4>1. e # c
        BY <2>1, <3>1, <3>2, <3>4 DEF Moves, Same
      <4> QED BY <2>2, <3>1, <3>4, <4>1 DEF Same, Locked, Editing
    <3> QED BY <3>3, <3>4
  <2> QED BY <2>3 DEF Locked
<1>5. ASSUME NEW p \in Process, Crash(p)
      PROVE  Locked'
  <2>1. /\ \A c \in Call :
             /\ c \in LostIn(p) => at'[c] = "dead"
             /\ c \notin LostIn(p) => at'[c] = at[c]
        /\ lock' = [lock EXCEPT ![p] = None] /\ UNCHANGED <<does, on, before>>
    BY <1>5, CrashDoes DEF Base
  <2>2. ASSUME NEW c \in Call, Editing(c)'
        PROVE  Editing(c) /\ on[c] \in Process \ {p}
    BY <2>1, <2>2 DEF Editing, LostIn, Over, Base, KindOf
  <2>3. \A c \in Call : at'[c] = "done" => at[c] = "done"
    BY <2>1
  <2>4. \A q \in Process \ {p} : lock'[q] = lock[q]
    BY <2>1 DEF Base, Typed, StoresTyped
  <2> QED BY <2>1, <2>2, <2>3, <2>4 DEF Locked
<1> QED BY <1>1, <1>2, <1>3, <1>4, <1>5, StepIs

\* Two changes under way at once are of two processes.
LEMMA EditorsAreRivals ==
  ASSUME Base, Locked, NEW c \in Call, NEW d \in Call, c # d, Editing(c), Editing(d)
  PROVE  Rivals(c, d)
<1>1. does[c] = "edit" /\ does[d] = "edit" /\ Ran(c) /\ Ran(d)
  BY DEF Base, KindOf, Editing, Ran
<1>2. on[c] # on[d]
  BY DEF Locked
<1>3. c \notin before[d] /\ d \notin before[c]
  BY DEF Base, KindOf, Editing
<1> QED BY <1>1, <1>2, <1>3 DEF Rivals, Overlap

Undone(c) == \E d \in Call : Rivals(c, d)

Kept(c) ==
  /\ does[c] = "edit" /\ at[c] \in {"settles", "done"} => c \in disk.edits \/ Undone(c)
  /\ at[c] = "saves" =>
       /\ c \in local[c].meta.edits
       /\ \A d \in before[c] : does[d] = "edit" => d \in local[c].meta.edits \/ Undone(d)

EditsInv == \A c \in Call : Kept(c)

LEMMA EditsNext ==
  ASSUME Base, Locked, EditsInv, [Next]_vars
  PROVE  EditsInv'
<1>1. PastKept /\ Base' /\ \A c \in Call : Undone(c) => Undone(c)'
  BY StepIs, BaseNext, RivalsStay DEF Undone
<1>2. \A c \in Call : before[c] \subseteq Call /\ \A d \in before[c] : at[d] = "done"
  BY DEF Base, KindOf, Typed, CallsTyped
\* A call that does not move, when meta.json stays or keeps what it has to.
<1>3. ASSUME NEW c \in Call, Same(c),
             does[c] = "edit" /\ at[c] \in {"settles", "done"} /\ c \in disk.edits
               => c \in disk'.edits \/ Undone(c)'
      PROVE  Kept(c)'
  <2>1. Kept(c)
    BY DEF EditsInv
  <2>2. ASSUME at[c] = "saves", NEW d \in before[c], does'[d] = "edit"
        PROVE  d \in local[c].meta.edits \/ Undone(d)'
    BY <1>1, <1>2, <2>1, <2>2 DEF Kept, PastKept
  <2> QED BY <1>1, <1>3, <2>1, <2>2 DEF Kept, Same
<1>4. CASE EditsQuiet
  <2>1. ASSUME NEW c \in Call
        PROVE  Kept(c)'
    <3>1. CASE Same(c)
      BY <1>3, <1>4, <3>1 DEF EditsQuiet
    <3>2. CASE NoEdit(c)'
      BY <1>1, <3>2 DEF NoEdit, Kept, Base, KindOf, Editing
    <3> QED BY <1>4, <3>1, <3>2 DEF EditsQuiet
  <2> QED BY <2>1 DEF EditsInv
<1>5. ASSUME NEW c \in Call, NEW p \in Process, NEW touch \in BOOLEAN, EditReads(c, p, touch)
      PROVE  EditsInv'
  <2>1. /\ Begins(c, p, "edit", "saves") /\ local'[c].meta.edits = disk.edits \cup {c}
        /\ disk' = disk
    BY <1>5, EditReadsDoes DEF Base, files
  <2>2. at'[c] = "saves" /\ before'[c] = {d \in Call : at[d] = "done"} /\ \A d \in Call \ {c} : Same(d)
    BY <2>1 DEF Begins, Only, Same
  <2>3. ASSUME NEW d \in before'[c], does'[d] = "edit"
        PROVE  d \in disk.edits \/ Undone(d)'
    <3>1. d \in Call /\ at[d] = "done" /\ does[d] = "edit"
      BY <1>1, <2>2, <2>3 DEF PastKept
    <3> QED BY <1>1, <3>1 DEF EditsInv, Kept
  <2>4. Kept(c)'
    BY <2>1, <2>2, <2>3 DEF Kept
  <2>5. \A d \in Call \ {c} : Kept(d)'
    BY <1>3, <2>1, <2>2
  <2> QED BY <2>4, <2>5 DEF EditsInv
<1>6. ASSUME NEW c \in Call, EditSaves(c)
      PROVE  EditsInv'
  <2>1. /\ Moves(c, "saves", "settles") /\ disk'.edits = local[c].meta.edits
    BY <1>6, EditSavesBase, EditSavesDoes DEF Base
  <2>2. at[c] = "saves" /\ at'[c] = "settles" /\ \A d \in Call \ {c} : Same(d)
    BY <2>1 DEF Moves, Only, Same
  <2>3. Kept(c) /\ Editing(c)
    BY <2>2 DEF EditsInv, Editing
  <2>4. Kept(c)'
    BY <2>1, <2>2, <2>3 DEF Kept
  <2>5. ASSUME NEW d \in Call \ {c}, does[d] = "edit", at[d] \in {"settles", "done"}
        PROVE  d \in disk'.edits \/ Undone(d)'
    <3>1. CASE d \in before[c]
      BY <1>1, <2>1, <2>2, <2>3, <2>5, <3>1 DEF Kept
    <3>2. CASE d \notin before[c]
      <4>1. on[d] # on[c]
        BY <2>3, <2>5, <3>2 DEF Locked, Editing
      <4>2. c \notin before[d] /\ does[c] = "edit" /\ Ran(c) /\ Ran(d)
        BY <1>2, <2>2, <2>5 DEF Ran, Base, KindOf, Editing
      <4>3. Rivals(d, c)
        BY <2>5, <3>2, <4>1, <4>2 DEF Rivals, Overlap
      <4> QED BY <1>1, <4>3 DEF Undone
    <3> QED BY <3>1, <3>2
  <2>6. \A d \in Call \ {c} : Kept(d)'
    BY <1>3, <2>2, <2>5
  <2> QED BY <2>4, <2>6 DEF EditsInv
<1>7. ASSUME NEW c \in Call, EditSettles(c)
      PROVE  EditsInv'
  <2>1. /\ Moves(c, "settles", "done") /\ disk' = disk
    BY <1>7, EditSettlesBase, EditSettlesDoes DEF Base, files
  <2>2. at[c] = "settles" /\ at'[c] = "done" /\ does'[c] = does[c] /\ \A d \in Call \ {c} : Same(d)
    BY <2>1 DEF Moves, Only, Same
  <2>3. Kept(c)'
    BY <1>1, <2>1, <2>2 DEF EditsInv, Kept
  <2>4. \A d \in Call \ {c} : Kept(d)'
    BY <1>3, <2>1, <2>2
  <2> QED BY <2>3, <2>4 DEF EditsInv
<1>8. ASSUME NEW p \in Process, Crash(p)
      PROVE  EditsInv'
  <2>1. /\ \A c \in Call :
             /\ c \in LostIn(p) => at'[c] = "dead"
             /\ c \notin LostIn(p) => at'[c] = at[c] /\ local'[c] = local[c]
        /\ UNCHANGED <<disk, does, on, before>>
    BY <1>8, CrashDoes DEF Base
  <2>2. ASSUME NEW c \in Call
        PROVE  Kept(c)'
    <3>1. CASE c \in LostIn(p)
      BY <2>1, <3>1 DEF Kept
    <3>2. CASE c \notin LostIn(p)
      BY <1>3, <2>1, <3>2 DEF Same
    <3> QED BY <3>1, <3>2
  <2> QED BY <2>2 DEF EditsInv
<1> QED BY <1>4, <1>5, <1>6, <1>7, <1>8, StepIs

(***************************************************************************)
(* The time of the last event                                              *)
(***************************************************************************)
Alone == ~\E c, d \in Call : Rivals(c, d)

\* No time is still to come.
TimesInv ==
  /\ disk.updated <= now
  /\ \A p \in Process : cache[p].pending <= now /\ grew[p] <= now
  /\ \A c \in Call : Editing(c) => local[c].meta.updated <= now

\* A process that finds this time in meta.json knows when it last wrote an event.
Covered(p, time) == grew[p] <= Latest(time, cache[p].pending)

ActivityInv ==
  /\ \A p \in Process : Covered(p, disk.updated)
  /\ \A c \in Call :
       /\ at[c] = "saves" => \A p \in Process : Covered(p, local[c].meta.updated)
       /\ at[c] = "settles" => local[c].meta.updated = disk.updated

LEMMA TimesAre ==
  ASSUME Base
  PROVE  /\ now \in Nat /\ disk.updated \in Nat
         /\ \A p \in Process : cache[p].pending \in Nat /\ grew[p] \in Nat
         /\ \A c \in Call : Editing(c) => local[c].meta.updated \in Nat
<1>1. disk \in Meta /\ now \in Nat /\ \A p \in Process : cache[p].pending \in Nat /\ grew[p] \in Nat
  BY Numbers DEF Base
<1>2. \A c \in Call : Editing(c) => local[c].meta \in Meta
  BY DEF Base, MetaOf, HasMeta
<1> QED BY <1>1, <1>2, MetaIs

LEMMA TimesAreNext ==
  ASSUME Base'
  PROVE  /\ now' \in Nat /\ disk'.updated \in Nat
         /\ \A p \in Process : cache'[p].pending \in Nat /\ grew'[p] \in Nat
         /\ \A c \in Call : Editing(c)' => local'[c].meta.updated \in Nat
<1>1. /\ disk' \in Meta /\ now' \in Nat
      /\ \A p \in Process : cache'[p].pending \in Nat /\ grew'[p] \in Nat
  BY EntryIs DEF Base, Typed, FilesTyped, StoresTyped, RestTyped
<1>2. \A c \in Call : Editing(c)' => local'[c].meta \in Meta
  BY DEF Base, MetaOf, HasMeta
<1> QED BY <1>1, <1>2, MetaIs

LEMMA EditorsStay ==
  ASSUME Base', EditsQuiet, NEW c \in Call, Editing(c)'
  PROVE  Same(c) /\ Editing(c)
<1>1. does'[c] = "edit" /\ at'[c] # "unused"
  BY DEF Base, KindOf, Editing
<1> QED BY <1>1 DEF EditsQuiet, NoEdit, Same, Editing

LEMMA TimesNext ==
  ASSUME Base, TimesInv, [Next]_vars
  PROVE  TimesInv'
<1> USE TimesAre, TimesAreNext
<1>1. Base'
  BY BaseNext
<1>2. ASSUME EditsQuiet, now <= now'
      PROVE  /\ disk'.updated <= now'
             /\ \A c \in Call : Editing(c)' => local'[c].meta.updated <= now'
  <2>1. \A c \in Call : Editing(c)' => Same(c) /\ Editing(c)
    BY <1>1, <1>2, EditorsStay
  <2> QED BY <1>1, <1>2, <2>1 DEF EditsQuiet, TimesInv, Same
<1>3. ASSUME TimesQuiet
      PROVE  \A p \in Process : cache'[p].pending <= now' /\ grew'[p] <= now'
  BY <1>1, <1>3 DEF TimesQuiet, TimesInv
<1>4. ASSUME EditsQuiet, TimesQuiet
      PROVE  TimesInv'
  BY <1>2, <1>3, <1>4 DEF TimesInv, TimesQuiet
<1>5. ASSUME NEW c \in Call, AppendRemembers(c), EditsQuiet
      PROVE  TimesInv'
  <2>1. on[c] \in Process
    BY <1>5, AppendRemembersBase
  <2>2. PICK entry \in Entry :
          /\ Has(on[c], entry) /\ entry.pending = now
          /\ grew' = [grew EXCEPT ![on[c]] = now] /\ UNCHANGED clock
    BY <1>5, <2>1, AppendRemembersDoes DEF Base
  <2>3. now' = now /\ grew \in [Process -> Nat]
    BY <2>2 DEF clock, Base, Typed, RestTyped
  <2>4. ASSUME NEW p \in Process
        PROVE  cache'[p].pending <= now' /\ grew'[p] <= now'
    BY <1>1, <2>1, <2>2, <2>3 DEF Has, TimesInv
  <2> QED BY <1>2, <1>5, <2>3, <2>4 DEF TimesInv
<1>6. ASSUME NEW c \in Call, NEW p \in Process, NEW touch \in BOOLEAN,
             EditReads(c, p, touch), TimesQuiet
      PROVE  TimesInv'
  <2>1. /\ Begins(c, p, "edit", "saves")
        /\ local'[c].meta.updated \in {now, Latest(disk.updated, cache[p].pending)}
        /\ disk' = disk /\ now' = now
    BY <1>6, EditReadsDoes DEF Base, files, clock
  <2>2. local'[c].meta.updated <= now
    BY <2>1, LatestIs DEF TimesInv
  <2>3. \A d \in Call \ {c} : Editing(d)' => Editing(d) /\ local'[d] = local[d]
    BY <2>1 DEF Begins, Only, Editing
  <2> QED BY <1>3, <1>6, <2>1, <2>2, <2>3 DEF TimesInv
<1>7. ASSUME NEW c \in Call, EditSaves(c), TimesQuiet
      PROVE  TimesInv'
  <2>1. /\ Moves(c, "saves", "settles") /\ disk'.updated = local[c].meta.updated
        /\ local'[c].meta = disk' /\ now' = now
    BY <1>7, EditSavesBase, EditSavesDoes DEF Base, clock
  <2>2. Editing(c) /\ \A d \in Call \ {c} : Editing(d)' => Editing(d) /\ local'[d] = local[d]
    BY <2>1 DEF Moves, Only, Editing
  <2> QED BY <1>3, <1>7, <2>1, <2>2 DEF TimesInv
<1>8. ASSUME NEW c \in Call, EditSettles(c)
      PROVE  TimesInv'
  <2>1. on[c] \in Process /\ local[c].meta \in Meta
    BY <1>8, EditSettlesBase
  <2>2. PICK entry \in Entry :
          /\ Moves(c, "settles", "done") /\ local'[c] = local[c] /\ Has(on[c], entry)
          /\ entry.pending \in {0, cache[on[c]].pending}
          /\ UNCHANGED <<disk, now, grew>>
    BY <1>8, <2>1, EditSettlesDoes DEF Base, files, clock, past
  <2>3. \A d \in Call : Editing(d)' => Editing(d) /\ local'[d] = local[d]
    BY <2>2 DEF Moves, Only, Editing
  <2>4. \A p \in Process : cache'[p].pending \in {0, cache[p].pending}
    BY <2>1, <2>2 DEF Has
  <2> QED BY <2>2, <2>3, <2>4 DEF TimesInv
<1>9. ASSUME NEW p \in Process, Crash(p)
      PROVE  TimesInv'
  <2>1. /\ Has(p, Unread) /\ grew' = [grew EXCEPT ![p] = 0] /\ UNCHANGED <<disk, now>>
        /\ \A c \in Call :
             /\ c \in LostIn(p) => at'[c] = "dead"
             /\ c \notin LostIn(p) => at'[c] = at[c] /\ local'[c] = local[c]
    BY <1>9, CrashDoes DEF Base
  <2>2. \A d \in Call : Editing(d)' => Editing(d) /\ local'[d] = local[d]
    BY <2>1 DEF Editing
  <2>3. \A q \in Process : cache'[q].pending \in {0, cache[q].pending} /\ grew'[q] \in {0, grew[q]}
    BY <2>1 DEF Has, Unread, Base, Typed, RestTyped
  <2> QED BY <2>1, <2>2, <2>3 DEF TimesInv
<1> QED BY <1>4, <1>5, <1>6, <1>7, <1>8, <1>9, StepIs

LEMMA LatestGrows ==
  ASSUME NEW x \in Nat, NEW y \in Nat, NEW z \in Nat, NEW g \in Nat, g <= Latest(x, y), x <= z
  PROVE  g <= Latest(z, y)
BY DEF Latest

LEMMA ActivityNext ==
  ASSUME Base, Locked, TimesInv, ActivityInv, Alone, Alone', [Next]_vars
  PROVE  ActivityInv'
<1> USE TimesAre, TimesAreNext
<1>1. Base' /\ PastKept
  BY BaseNext, StepIs
<1>2. ASSUME NEW c \in Call, NEW d \in Call, Editing(c), Editing(d)
      PROVE  c = d
  BY <1>2, EditorsAreRivals DEF Alone
<1>3. ASSUME TimesQuiet, NEW p \in Process, NEW time, Covered(p, time)
      PROVE  Covered(p, time)'
  BY <1>3 DEF TimesQuiet, Covered
<1>4. ASSUME EditsQuiet, \A p \in Process, time \in Nat : Covered(p, time) => Covered(p, time)'
      PROVE  ActivityInv'
  <2>1. \A c \in Call : Editing(c)' => Same(c) /\ Editing(c)
    BY <1>1, <1>4, EditorsStay
  <2>2. disk' = disk
    BY <1>4 DEF EditsQuiet
  <2>3. \A p \in Process : Covered(p, disk.updated)'
    BY <1>4, <2>2 DEF ActivityInv, Covered
  <2>4. ASSUME NEW c \in Call, at'[c] = "saves", NEW p \in Process
        PROVE  Covered(p, local[c].meta.updated)'
    <3>1. Same(c) /\ Editing(c) /\ at[c] = "saves"
      BY <2>1, <2>4 DEF Editing, Same
    <3>2. local[c].meta.updated \in Nat /\ Covered(p, local[c].meta.updated)
      BY <3>1 DEF ActivityInv
    <3>3. Covered(p, local[c].meta.updated)
      BY <3>2
    <3> QED BY <1>4, <3>1, <3>2 DEF Covered, Same
  <2>5. ASSUME NEW c \in Call, at'[c] = "settles"
        PROVE  local'[c].meta.updated = disk'.updated
    BY <2>1, <2>2, <2>5 DEF Editing, Same, ActivityInv
  <2> QED BY <2>3, <2>4, <2>5 DEF ActivityInv
<1>5. ASSUME EditsQuiet, TimesQuiet
      PROVE  ActivityInv'
  BY <1>3, <1>4, <1>5
<1>6. ASSUME NEW c \in Call, AppendRemembers(c), EditsQuiet
      PROVE  ActivityInv'
  <2>1. on[c] \in Process
    BY <1>6, AppendRemembersBase
  <2>2. PICK entry \in Entry :
          /\ Has(on[c], entry) /\ entry.pending = now
          /\ grew' = [grew EXCEPT ![on[c]] = now]
    BY <1>6, <2>1, AppendRemembersDoes DEF Base
  <2>3. grew \in [Process -> Nat]
    BY DEF Base, Typed, RestTyped
  <2>4. ASSUME NEW p \in Process, NEW time \in Nat, Covered(p, time)
        PROVE  Covered(p, time)'
    <3>1. CASE p = on[c]
      <4>1. cache'[p].pending = now /\ grew'[p] = now
        BY <2>1, <2>2, <2>3, <3>1 DEF Has
      <4> QED BY <4>1, LatestIs DEF Covered
    <3>2. CASE p # on[c]
      BY <2>1, <2>2, <2>3, <2>4, <3>2 DEF Has, Covered
    <3> QED BY <3>1, <3>2
  <2> QED BY <1>4, <1>6, <2>4
<1>7. ASSUME NEW c \in Call, NEW p \in Process, NEW touch \in BOOLEAN,
             EditReads(c, p, touch), TimesQuiet
      PROVE  ActivityInv'
  <2>1. /\ Begins(c, p, "edit", "saves")
        /\ local'[c].meta.updated \in {now, Latest(disk.updated, cache[p].pending)}
        /\ disk' = disk
    BY <1>7, EditReadsDoes DEF Base, files
  <2>2. /\ disk.updated <= local'[c].meta.updated /\ local'[c].meta.updated \in Nat
    BY <2>1, LatestIs DEF TimesInv
  <2>3. at'[c] = "saves" /\ \A d \in Call \ {c} : at'[d] = at[d] /\ local'[d] = local[d]
    BY <2>1 DEF Begins, Only
  <2>4. \A q \in Process : Covered(q, disk.updated)
    BY DEF ActivityInv
  <2>5. ASSUME NEW q \in Process
        PROVE  Covered(q, local'[c].meta.updated)
    BY <2>2, <2>4, LatestGrows DEF Covered
  <2>6. \A d \in Call : Editing(d)' => d = c
    <3>1. SUFFICES ASSUME NEW d \in Call, Editing(d)', d # c
                   PROVE  FALSE
      OBVIOUS
    <3>2. Editing(c)' /\ Base' /\ Locked'
      BY <1>1, <2>3, LockedNext DEF Editing
    <3>3. Rivals(c, d)'
      <4>1. does'[c] = "edit" /\ does'[d] = "edit" /\ at'[c] # "unused" /\ at'[d] # "unused"
        BY <3>1, <3>2 DEF Base, KindOf, Editing
      <4>2. on'[c] # on'[d]
        BY <3>1, <3>2 DEF Locked
      <4>3. c \notin before'[d] /\ d \notin before'[c]
        BY <3>1, <3>2 DEF Base, KindOf, Editing
      <4> QED BY <4>1, <4>2, <4>3 DEF Rivals, Ran, Overlap
    <3> QED BY <3>3 DEF Alone
  <2>7. \A q \in Process : Covered(q, disk.updated)'
    BY <1>3, <1>7, <2>1, <2>4 DEF Covered
  <2>8. \A q \in Process : grew'[q] <= Latest(local'[c].meta.updated, cache'[q].pending)
    BY <1>7, <2>5 DEF TimesQuiet, Covered
  <2> QED BY <2>3, <2>6, <2>7, <2>8 DEF ActivityInv, Covered, Editing
<1>8. ASSUME NEW c \in Call, EditSaves(c), TimesQuiet
      PROVE  ActivityInv'
  <2>1. /\ Moves(c, "saves", "settles") /\ disk'.updated = local[c].meta.updated
        /\ local'[c].meta = disk'
    BY <1>8, EditSavesBase, EditSavesDoes DEF Base
  <2>2. Editing(c) /\ \A d \in Call \ {c} : ~Editing(d)'
    <3>1. Editing(c)
      BY <2>1 DEF Moves, Editing
    <3>2. \A d \in Call \ {c} : ~Editing(d)
      BY <1>2, <3>1
    <3> QED BY <2>1, <3>1, <3>2 DEF Moves, Only, Editing
  <2>3. ASSUME NEW p \in Process
        PROVE  grew'[p] <= Latest(disk'.updated, cache'[p].pending)
    <3>1. Covered(p, local[c].meta.updated)
      BY <2>1 DEF Moves, ActivityInv
    <3> QED BY <1>8, <2>1, <3>1 DEF TimesQuiet, Covered
  <2>4. at'[c] = "settles" /\ local'[c].meta.updated = disk'.updated
    BY <2>1 DEF Moves
  <2> QED BY <2>2, <2>3, <2>4 DEF ActivityInv, Covered, Editing
<1>9. ASSUME NEW c \in Call, EditSettles(c)
      PROVE  ActivityInv'
  <2>1. on[c] \in Process /\ local[c].meta \in Meta
    BY <1>9, EditSettlesBase
  <2>2. PICK entry \in Entry :
          /\ Moves(c, "settles", "done") /\ Has(on[c], entry)
          /\ entry.pending = IF cache[on[c]].pending <= local[c].meta.updated THEN 0
                             ELSE cache[on[c]].pending
          /\ UNCHANGED <<disk, grew>>
    BY <1>9, <2>1, EditSettlesDoes DEF Base, files, past
  <2>3. Editing(c) /\ \A d \in Call : ~Editing(d)'
    <3>1. Editing(c)
      BY <2>2 DEF Moves, Editing
    <3>2. \A d \in Call \ {c} : ~Editing(d)
      BY <1>2, <3>1
    <3> QED BY <2>2, <3>1, <3>2 DEF Moves, Only, Editing
  <2>4. local[c].meta.updated = disk.updated
    BY <2>2 DEF Moves, ActivityInv
  <2>5. ASSUME NEW p \in Process
        PROVE  grew'[p] <= Latest(disk'.updated, cache'[p].pending)
    <3>1. grew[p] <= Latest(disk.updated, cache[p].pending)
      BY DEF ActivityInv, Covered
    <3>2. CASE p = on[c]
      <4>1. cache'[p].pending = IF cache[p].pending <= disk.updated THEN 0 ELSE cache[p].pending
        BY <2>1, <2>2, <2>4, <3>2 DEF Has
      <4> QED BY <2>2, <3>1, <4>1 DEF Latest
    <3>3. CASE p # on[c]
      BY <2>1, <2>2, <3>1, <3>3 DEF Has
    <3> QED BY <3>2, <3>3
  <2> QED BY <2>3, <2>5 DEF ActivityInv, Covered, Editing
<1>10. ASSUME NEW p \in Process, Crash(p)
       PROVE  ActivityInv'
  <2>1. /\ Has(p, Unread) /\ grew' = [grew EXCEPT ![p] = 0] /\ UNCHANGED disk
        /\ \A c \in Call :
             /\ c \in LostIn(p) => at'[c] = "dead"
             /\ c \notin LostIn(p) => at'[c] = at[c] /\ local'[c] = local[c]
    BY <1>10, CrashDoes DEF Base
  <2>2. grew \in [Process -> Nat]
    BY DEF Base, Typed, RestTyped
  <2>3. ASSUME NEW q \in Process, NEW time \in Nat, Covered(q, time)
        PROVE  grew'[q] <= Latest(time, cache'[q].pending)
    <3>1. CASE q = p
      <4>1. grew'[q] = 0 /\ cache'[q].pending = 0
        BY <2>1, <2>2, <3>1 DEF Has, Unread
      <4> QED BY <4>1 DEF Latest
    <3>2. CASE q # p
      BY <2>1, <2>2, <2>3, <3>2 DEF Has, Covered
    <3> QED BY <3>1, <3>2
  <2>4. \A d \in Call : Editing(d)' => at'[d] = at[d] /\ local'[d] = local[d] /\ Editing(d)
    BY <2>1 DEF Editing
  <2>5. \A q \in Process : Covered(q, disk.updated)'
    BY <2>1, <2>3 DEF Covered, ActivityInv
  <2>6. ASSUME NEW c \in Call, at'[c] = "saves", NEW q \in Process
        PROVE  Covered(q, local[c].meta.updated)'
    <3>1. /\ at[c] = "saves" /\ local'[c] = local[c] /\ local[c].meta.updated \in Nat
      BY <2>4, <2>6 DEF Editing
    <3>2. Covered(q, local[c].meta.updated)
      BY <3>1 DEF ActivityInv
    <3>3. grew'[q] <= Latest(local[c].meta.updated, cache'[q].pending)
      BY <2>3, <3>1, <3>2
    <3> QED BY <3>1, <3>3 DEF Covered
  <2>7. ASSUME NEW c \in Call, at'[c] = "settles"
        PROVE  local'[c].meta.updated = disk'.updated
    BY <2>1, <2>4, <2>7 DEF Editing, ActivityInv
  <2> QED BY <2>5, <2>6, <2>7 DEF ActivityInv
<1> QED BY <1>5, <1>6, <1>7, <1>8, <1>9, <1>10, StepIs

(***************************************************************************)
(* What the list shows                                                     *)
(***************************************************************************)
\* No change of p that returned is later than this version.
Newest(p, version) ==
  \A d \in Call :
    does[d] = "edit" /\ on[d] = p /\ at[d] = "done" => local[d].meta.version <= version

\* No change of its process that returned before c was made is later than what c found.
Shows(c) ==
  \A d \in before[c] :
    does[d] = "edit" /\ on[d] = on[c] => local[d].meta.version <= local[c].meta.version

ListOf(c) ==
  /\ at[c] \in {"fetches", "keeps"} => local[c].writes <= writes[on[c]]
  /\ at[c] = "keeps" /\ writes[on[c]] = local[c].writes => Newest(on[c], local[c].meta.version)
  /\ does[c] = "list" /\ at[c] \in {"keeps", "overlays", "done"} => Shows(c)

VersionsInv ==
  /\ \A c \in Call :
       does[c] = "edit" /\ at[c] \in {"settles", "done"} => local[c].meta.version <= disk.version
  /\ \A p \in Process : index[p] # None => Newest(p, index[p].meta.version)
  /\ \A c \in Call : ListOf(c)

LEMMA ShowsStays ==
  ASSUME Base, PastKept, NEW c \in Call, at[c] # "unused", local'[c] = local[c], Shows(c)
  PROVE  Shows(c)'
<1>1. on'[c] = on[c] /\ before'[c] = before[c]
  BY DEF PastKept
<1>2. \A d \in before[c] : /\ d \in Call /\ at[d] = "done"
                           /\ does'[d] = does[d] /\ on'[d] = on[d] /\ local'[d] = local[d]
  BY DEF PastKept, Base, KindOf, Typed, CallsTyped
<1> QED BY <1>1, <1>2 DEF Shows

LEMMA NewestShows ==
  ASSUME Base, NEW c \in Call, NEW version, Newest(on[c], version)
  PROVE  \A d \in before[c] : does[d] = "edit" /\ on[d] = on[c] => local[d].meta.version <= version
BY DEF Newest, Base, KindOf, Typed, CallsTyped

LEMMA VersionsNext ==
  ASSUME Base, VersionsInv, [Next]_vars
  PROVE  VersionsInv'
<1>1. Base' /\ PastKept
  BY BaseNext, StepIs
<1>2. /\ disk.version \in Nat /\ disk'.version \in Nat
      /\ \A c \in Call : local[c].writes \in Nat
      /\ \A p \in Process : writes[p] \in Nat
      /\ \A c \in Call : does[c] = "edit" /\ at[c] \in {"settles", "done"} => local[c].meta.version \in Nat
  <2>1. disk \in Meta /\ disk' \in Meta
    BY <1>1 DEF Base, Typed, FilesTyped
  <2>2. \A c \in Call : does[c] = "edit" /\ at[c] \in {"settles", "done"} => local[c].meta \in Meta
    BY DEF Base, MetaOf, HasMeta, Editing
  <2> QED BY <2>1, <2>2, Numbers, MetaIs DEF Base
\* When no change settles, what returned is what had returned.
<1>3. ASSUME \A c \in Call : at'[c] = "done" /\ does'[c] = "edit" =>
               at[c] = "done" /\ does[c] = "edit" /\ on'[c] = on[c] /\ local'[c] = local[c]
      PROVE  \A p, version : Newest(p, version) => Newest(p, version)'
  BY <1>3 DEF Newest
<1>4. ASSUME EditsQuiet
      PROVE  /\ \A p, version : Newest(p, version) => Newest(p, version)'
             /\ \A c \in Call :
                  does'[c] = "edit" /\ at'[c] \in {"settles", "done"}
                    => local'[c].meta.version <= disk'.version
  <2>1. \A c \in Call : does'[c] = "edit" /\ at'[c] # "unused" => Same(c)
    BY <1>4 DEF EditsQuiet, NoEdit
  <2>2. \A p, version : Newest(p, version) => Newest(p, version)'
    BY <1>3, <2>1 DEF Same
  <2> QED BY <1>4, <2>1, <2>2 DEF EditsQuiet, Same, VersionsInv
<1>5. ASSUME ListsQuiet, \A p, version : Newest(p, version) => Newest(p, version)'
      PROVE  /\ \A p \in Process : index'[p] # None => Newest(p, index[p].meta.version)'
             /\ \A c \in Call : ListOf(c)'
  <2>1. ASSUME NEW p \in Process, index'[p] # None
        PROVE  Newest(p, index[p].meta.version)'
    <3>1. index' = index
      BY <1>5 DEF ListsQuiet
    <3>2. Newest(p, index[p].meta.version)
      BY <2>1, <3>1 DEF VersionsInv
    <3> DEFINE version == index[p].meta.version
    <3>3. version = index'[p].meta.version
      BY <3>1
    <3> QED BY <1>5, <3>1, <3>2 DEF Newest
  <2>2. ASSUME NEW c \in Call
        PROVE  ListOf(c)'
    <3>1. CASE Same(c)
      <4>1. ListOf(c) /\ writes' = writes
        BY <1>5 DEF VersionsInv, ListsQuiet
      <4>2. at[c] = "keeps" /\ writes[on[c]] = local[c].writes
              => Newest(on[c], local[c].meta.version)'
        BY <1>5, <3>1, <4>1 DEF ListOf, Newest, Same
      <4>3. does[c] = "list" /\ at[c] \in {"keeps", "overlays", "done"} => Shows(c)'
        BY <1>1, <3>1, <4>1, ShowsStays DEF ListOf, Same
      <4> QED BY <3>1, <4>1, <4>2, <4>3 DEF ListOf, Same, Newest
    <3>2. CASE NoList(c)'
      BY <1>1, <3>2 DEF NoList, ListOf, Base, KindOf, Listing
    <3> QED BY <1>5, <3>1, <3>2 DEF ListsQuiet
  <2> QED BY <2>1, <2>2
<1>6. ASSUME EditsQuiet, ListsQuiet
      PROVE  VersionsInv'
  BY <1>4, <1>5, <1>6 DEF VersionsInv
<1>7. ASSUME NEW c \in Call, AppendRemembers(c), EditsQuiet, ListsQuiet
      PROVE  VersionsInv'
  BY <1>6, <1>7
<1>8. ASSUME NEW c \in Call, ListStep(c), EditsQuiet
      PROVE  VersionsInv'
  <2>1. /\ \A p, version : Newest(p, version) => Newest(p, version)'
        /\ \A d \in Call :
             does'[d] = "edit" /\ at'[d] \in {"settles", "done"}
               => local'[d].meta.version <= disk'.version
    BY <1>4, <1>8
\* A call of a list that does not move, and what it found.
  <2>2. ASSUME NEW d \in Call, Same(d), UNCHANGED writes
        PROVE  ListOf(d)'
    <3>1. ListOf(d)
      BY DEF VersionsInv
    <3>2. at[d] = "keeps" /\ writes[on[d]] = local[d].writes
            => Newest(on[d], local[d].meta.version)'
      BY <2>1, <2>2, <3>1 DEF ListOf, Newest, Same
    <3>3. does[d] = "list" /\ at[d] \in {"keeps", "overlays", "done"} => Shows(d)'
      BY <1>1, <2>2, <3>1, ShowsStays DEF ListOf, Same
    <3> QED BY <2>2, <3>1, <3>2, <3>3 DEF ListOf, Same, Newest
  <2>3. ASSUME NEW p \in Process, index'[p] = index[p], index'[p] # None
        PROVE  Newest(p, index[p].meta.version)'
    <3>1. Newest(p, index[p].meta.version)
      BY <2>3 DEF VersionsInv
    <3> QED BY <2>1, <2>3, <3>1 DEF Newest
  <2>4. ASSUME NEW p \in Process, ListScans(c, p)
        PROVE  VersionsInv'
    <3>1. Begins(c, p, "list", "scans") /\ UNCHANGED <<index, writes>>
      BY <2>4, ListScansDoes DEF Base, stores
    <3>2. at'[c] = "scans" /\ \A d \in Call \ {c} : Same(d)
      BY <3>1 DEF Begins, Only, Same
    <3>3. \A d \in Call : ListOf(d)'
      BY <2>2, <3>1, <3>2 DEF ListOf
    <3> QED BY <2>1, <2>3, <3>1, <3>3 DEF VersionsInv
  <2>5. CASE ListLooks(c)
    <3>1. /\ UNCHANGED <<index, writes>> /\ on[c] \in Process
          /\ \/ /\ Moves(c, "scans", "overlays")
                /\ index[on[c]] # None /\ local'[c].meta = index[on[c]].meta
             \/ Moves(c, "scans", "fetches") /\ local'[c].writes = writes[on[c]]
      BY <2>5, ListLooksBase, ListLooksDoes DEF Base, stores
    <3>2. \A d \in Call \ {c} : Same(d)
      BY <3>1 DEF Moves, Only, Same
    <3>3. CASE /\ Moves(c, "scans", "overlays")
               /\ index[on[c]] # None /\ local'[c].meta = index[on[c]].meta
      <4>1. at'[c] = "overlays" /\ on'[c] = on[c] /\ before'[c] = before[c] /\ at[c] # "unused"
        BY <3>3 DEF Moves
      <4>2. Newest(on[c], index[on[c]].meta.version)
        BY <3>1, <3>3 DEF VersionsInv
      <4>3. \A d \in before[c] :
              does[d] = "edit" /\ on[d] = on[c] => local[d].meta.version <= local'[c].meta.version
        BY <3>3, <4>2, NewestShows
      <4>4. \A d \in before[c] : d \in Call /\ at[d] = "done"
        BY DEF Base, KindOf, Typed, CallsTyped
      <4>5. Shows(c)'
        BY <1>1, <4>1, <4>3, <4>4 DEF Shows, PastKept
      <4>6. ListOf(c)'
        BY <4>1, <4>5 DEF ListOf
      <4>7. \A d \in Call : ListOf(d)'
        BY <2>2, <3>1, <3>2, <4>6
      <4> QED BY <2>1, <2>3, <3>1, <4>7 DEF VersionsInv
    <3>4. CASE Moves(c, "scans", "fetches") /\ local'[c].writes = writes[on[c]]
      <4>1. at'[c] = "fetches" /\ on'[c] = on[c]
        BY <3>4 DEF Moves
      <4>2. ListOf(c)'
        BY <1>2, <3>1, <3>4, <4>1 DEF ListOf
      <4>3. \A d \in Call : ListOf(d)'
        BY <2>2, <3>1, <3>2, <4>2
      <4> QED BY <2>1, <2>3, <3>1, <4>3 DEF VersionsInv
    <3> QED BY <3>1, <3>3, <3>4
  <2>6. CASE ListFetches(c)
    <3>1. /\ Moves(c, "fetches", "keeps") /\ UNCHANGED <<disk, index, writes>>
          /\ local'[c].meta = disk /\ local'[c].writes = local[c].writes
      BY <2>6, ListFetchesDoes DEF Base, files, stores
    <3>2. /\ at[c] = "fetches" /\ at'[c] = "keeps" /\ on'[c] = on[c] /\ before'[c] = before[c]
          /\ \A d \in Call \ {c} : Same(d)
      BY <3>1 DEF Moves, Only, Same
    <3>3. \A p : Newest(p, disk.version)
      BY DEF VersionsInv, Newest
    <3>4. Newest(on[c], local[c].meta.version)'
      BY <2>1, <3>1, <3>2, <3>3 DEF Newest
    <3>5. Shows(c)'
      BY <1>1, <3>4 DEF Shows, Newest, Base, KindOf, Typed, CallsTyped
    <3>6. ListOf(c)'
      BY <3>1, <3>2, <3>4, <3>5 DEF ListOf, VersionsInv
    <3>7. \A d \in Call : ListOf(d)'
      BY <2>2, <3>1, <3>2, <3>6
    <3> QED BY <2>1, <2>3, <3>1, <3>7 DEF VersionsInv
  <2>7. CASE ListKeeps(c)
    <3>1. /\ Moves(c, "keeps", "done") /\ UNCHANGED writes /\ on[c] \in Process
          /\ local'[c].meta.version = local[c].meta.version
          /\ \/ UNCHANGED index
             \/ /\ writes[on[c]] = local[c].writes
                /\ index'[on[c]].meta = local[c].meta
                /\ \A q \in Process \ {on[c]} : index'[q] = index[q]
      BY <2>7, ListKeepsBase, ListKeepsDoes DEF Base
    <3>2. /\ at[c] = "keeps" /\ at'[c] = "done" /\ does'[c] = does[c] /\ on'[c] = on[c]
          /\ before'[c] = before[c] /\ \A d \in Call \ {c} : Same(d)
      BY <3>1 DEF Moves, Only, Same
    <3>3. does[c] = "list" /\ ListOf(c)
      BY <3>2 DEF Base, KindOf, Listing, VersionsInv
    <3>4. \A d \in before[c] : d \in Call /\ at[d] = "done"
      BY DEF Base, KindOf, Typed, CallsTyped
    <3>5. Shows(c)'
      BY <1>1, <3>1, <3>2, <3>3, <3>4 DEF ListOf, Shows, PastKept
    <3>6. \A d \in Call : ListOf(d)'
      BY <2>2, <3>1, <3>2, <3>5 DEF ListOf
    <3>7. ASSUME NEW p \in Process, index'[p] # None
          PROVE  Newest(p, index[p].meta.version)'
      <4>1. CASE index'[p] = index[p]
        BY <2>3, <3>7, <4>1
      <4>2. CASE index'[p] # index[p]
        <5>1. p = on[c] /\ writes[on[c]] = local[c].writes /\ index'[p].meta = local[c].meta
          BY <3>1, <4>2
        <5>2. Newest(p, local[c].meta.version)
          BY <3>2, <3>3, <5>1 DEF ListOf
        <5> QED BY <2>1, <5>1, <5>2 DEF Newest
      <4> QED BY <4>1, <4>2
    <3> QED BY <2>1, <3>6, <3>7 DEF VersionsInv
  <2>8. CASE ListOverlays(c)
    <3>1. /\ Moves(c, "overlays", "done") /\ UNCHANGED <<index, writes>>
          /\ local'[c].meta.version = local[c].meta.version
      BY <2>8, ListOverlaysBase, ListOverlaysDoes DEF Base, stores
    <3>2. /\ at[c] = "overlays" /\ at'[c] = "done" /\ does'[c] = does[c] /\ on'[c] = on[c]
          /\ before'[c] = before[c] /\ \A d \in Call \ {c} : Same(d)
      BY <3>1 DEF Moves, Only, Same
    <3>3. does[c] = "list" /\ ListOf(c)
      BY <3>2 DEF Base, KindOf, Listing, VersionsInv
    <3>4. \A d \in before[c] : d \in Call /\ at[d] = "done"
      BY DEF Base, KindOf, Typed, CallsTyped
    <3>5. Shows(c)'
      BY <1>1, <3>1, <3>2, <3>3, <3>4 DEF ListOf, Shows, PastKept
    <3>6. \A d \in Call : ListOf(d)'
      BY <2>2, <3>1, <3>2, <3>5 DEF ListOf
    <3> QED BY <2>1, <2>3, <3>1, <3>6 DEF VersionsInv
  <2> QED BY <1>8, <2>4, <2>5, <2>6, <2>7, <2>8 DEF ListStep
<1>9. ASSUME NEW c \in Call, NEW p \in Process, NEW touch \in BOOLEAN,
             EditReads(c, p, touch), ListsQuiet
      PROVE  VersionsInv'
  <2>1. Begins(c, p, "edit", "saves") /\ disk' = disk
    BY <1>9, EditReadsDoes DEF Base, files
  <2>2. at'[c] = "saves" /\ \A d \in Call \ {c} : Same(d)
    BY <2>1 DEF Begins, Only, Same
  <2>3. \A q, version : Newest(q, version) => Newest(q, version)'
    BY <1>3, <2>2 DEF Same
  <2>4. \A d \in Call :
          does'[d] = "edit" /\ at'[d] \in {"settles", "done"} => local'[d].meta.version <= disk'.version
    BY <2>1, <2>2 DEF VersionsInv, Same
  <2> QED BY <1>5, <1>9, <2>3, <2>4 DEF VersionsInv
<1>10. ASSUME NEW c \in Call, EditSaves(c), ListsQuiet
       PROVE  VersionsInv'
  <2>1. Moves(c, "saves", "settles") /\ disk'.version = disk.version + 1 /\ local'[c].meta = disk'
    BY <1>10, EditSavesBase, EditSavesDoes DEF Base
  <2>2. at'[c] = "settles" /\ \A d \in Call \ {c} : Same(d)
    BY <2>1 DEF Moves, Only, Same
  <2>3. \A q, version : Newest(q, version) => Newest(q, version)'
    BY <1>3, <2>2 DEF Same
  <2>4. ASSUME NEW d \in Call, does'[d] = "edit", at'[d] \in {"settles", "done"}
        PROVE  local'[d].meta.version <= disk'.version
    <3>1. CASE d = c
      BY <1>2, <2>1, <3>1
    <3>2. CASE d # c
      <4>1. Same(d) /\ does[d] = "edit" /\ at[d] \in {"settles", "done"}
        BY <2>2, <2>4, <3>2 DEF Same
      <4>2. local[d].meta.version <= disk.version /\ local[d].meta.version \in Nat
        BY <1>2, <4>1 DEF VersionsInv
      <4> QED BY <1>2, <2>1, <4>1, <4>2 DEF Same
    <3> QED BY <3>1, <3>2
  <2> QED BY <1>5, <1>10, <2>3, <2>4 DEF VersionsInv
<1>11. ASSUME NEW c \in Call, EditSettles(c)
       PROVE  VersionsInv'
  <2>1. on[c] \in Process
    BY <1>11, EditSettlesBase
  <2>2. /\ Moves(c, "settles", "done") /\ local'[c] = local[c] /\ disk' = disk
        /\ index' = [index EXCEPT ![on[c]] = None]
        /\ writes' = [writes EXCEPT ![on[c]] = @ + 1]
    BY <1>11, <2>1, EditSettlesBase, EditSettlesDoes DEF Base, files
  <2>3. /\ index'[on[c]] = None /\ \A p \in Process \ {on[c]} : index'[p] = index[p]
        /\ writes'[on[c]] = writes[on[c]] + 1
        /\ \A p \in Process \ {on[c]} : writes'[p] = writes[p]
    BY <2>1, <2>2 DEF Base, Typed, StoresTyped
  <2>4. /\ at[c] = "settles" /\ at'[c] = "done" /\ does'[c] = does[c] /\ on'[c] = on[c]
        /\ does[c] = "edit" /\ \A d \in Call \ {c} : Same(d)
    BY <2>2 DEF Moves, Only, Same, Base, KindOf, Editing
  <2>5. \A p \in Process \ {on[c]} : \A version : Newest(p, version) => Newest(p, version)'
    BY <2>4 DEF Newest, Same
  <2>6. ASSUME NEW p \in Process, index'[p] # None
        PROVE  Newest(p, index[p].meta.version)'
    <3>1. p # on[c] /\ index'[p] = index[p]
      BY <2>3, <2>6
    <3>2. Newest(p, index[p].meta.version)
      BY <2>6, <3>1 DEF VersionsInv
    <3> QED BY <2>5, <3>1, <3>2 DEF Newest
  <2>7. ASSUME NEW d \in Call
        PROVE  ListOf(d)'
    <3>1. CASE d = c
      BY <2>4, <3>1 DEF ListOf
    <3>2. CASE d # c /\ at[d] = "unused"
      BY <2>4, <3>2 DEF ListOf, Same
    <3>3. CASE d # c /\ at[d] # "unused"
      <4>1. Same(d) /\ on[d] \in Process /\ ListOf(d)
        BY <2>4, <3>3 DEF Base, KindOf, VersionsInv
      <4>2. does[d] = "list" /\ at[d] \in {"keeps", "overlays", "done"} => Shows(d)'
        BY <1>1, <3>3, <4>1, ShowsStays DEF ListOf, Same
      <4>3. CASE on[d] = on[c]
        <5>1. at[d] \in {"fetches", "keeps"} =>
                local[d].writes <= writes'[on[d]] /\ writes'[on[d]] # local[d].writes
          BY <1>2, <2>1, <2>3, <4>1, <4>3 DEF ListOf
        <5> QED BY <4>1, <4>2, <5>1 DEF ListOf, Same
      <4>4. CASE on[d] # on[c]
        <5>1. writes'[on[d]] = writes[on[d]]
          BY <2>3, <4>1, <4>4
        <5>2. at[d] = "keeps" /\ writes[on[d]] = local[d].writes
                => Newest(on[d], local[d].meta.version)'
          BY <2>5, <4>1, <4>4 DEF ListOf, Newest, Same
        <5> QED BY <4>1, <4>2, <5>1, <5>2 DEF ListOf, Same, Newest
      <4> QED BY <4>3, <4>4
    <3> QED BY <3>1, <3>2, <3>3
  <2>8. \A d \in Call :
          does'[d] = "edit" /\ at'[d] \in {"settles", "done"} => local'[d].meta.version <= disk'.version
    BY <2>2, <2>4 DEF VersionsInv, Same
  <2> QED BY <2>6, <2>7, <2>8 DEF VersionsInv
<1>12. ASSUME NEW p \in Process, Crash(p)
       PROVE  VersionsInv'
  <2>1. /\ index' = [index EXCEPT ![p] = None] /\ writes' = [writes EXCEPT ![p] = 0]
        /\ \A c \in Call :
             /\ c \in LostIn(p) => at'[c] = "dead"
             /\ c \notin LostIn(p) => at'[c] = at[c] /\ local'[c] = local[c]
        /\ UNCHANGED <<disk, does, on, before>>
    BY <1>12, CrashDoes DEF Base
  <2>2. /\ index'[p] = None /\ \A q \in Process \ {p} : index'[q] = index[q]
        /\ \A q \in Process \ {p} : writes'[q] = writes[q]
    BY <2>1 DEF Base, Typed, StoresTyped
  <2>3. \A q, version : Newest(q, version) => Newest(q, version)'
    BY <1>3, <2>1
  <2>4. ASSUME NEW q \in Process, index'[q] # None
        PROVE  Newest(q, index[q].meta.version)'
    <3>1. q # p /\ index'[q] = index[q]
      BY <2>2, <2>4
    <3>2. Newest(q, index[q].meta.version)
      BY <2>4, <3>1 DEF VersionsInv
    <3> QED BY <2>3, <3>1, <3>2 DEF Newest
  <2>5. ASSUME NEW d \in Call
        PROVE  ListOf(d)'
    <3>1. CASE d \in LostIn(p)
      BY <2>1, <3>1 DEF ListOf
    <3>2. CASE d \notin LostIn(p)
      <4>1. Same(d) /\ ListOf(d)
        BY <2>1, <3>2 DEF Same, VersionsInv
      <4>2. at[d] \in {"fetches", "keeps"} => on[d] \in Process \ {p} /\ writes'[on[d]] = writes[on[d]]
        BY <2>2, <3>2 DEF LostIn, Over, Base, KindOf, Listing
      <4>3. does[d] = "list" /\ at[d] \in {"keeps", "overlays", "done"} => Shows(d)'
        BY <1>1, <4>1, ShowsStays DEF ListOf, Same
      <4>4. at[d] = "keeps" /\ writes[on[d]] = local[d].writes
              => Newest(on[d], local[d].meta.version)'
        BY <2>3, <4>1 DEF ListOf, Newest, Same
      <4> QED BY <4>1, <4>2, <4>3, <4>4 DEF ListOf, Same, Newest
    <3> QED BY <3>1, <3>2
  <2>6. \A d \in Call :
          does'[d] = "edit" /\ at'[d] \in {"settles", "done"} => local'[d].meta.version <= disk'.version
    BY <2>1 DEF VersionsInv
  <2> QED BY <2>4, <2>5, <2>6 DEF VersionsInv
<1> QED BY <1>6, <1>7, <1>8, <1>9, <1>10, <1>11, <1>12, StepIs

(***************************************************************************)
(* The file only grows                                                     *)
(***************************************************************************)
Grown == Len(file) <= Len(file') /\ \A i \in 1..Len(file) : file'[i] = file[i]

\* A line, or the file, begins after n.
Clean(n) == n = 0 \/ file[n] = NL

\* The last cell of the event that c writes.
Mark(c) == <<c, 2>>

\* The first n cells of the file have the line of c, whole.
Written(c, n) == \E k \in 1..n : EndsEvent(file, k) /\ file[k - 1] = Mark(c)

\* This is what the first len cells of the file say.
IsRead(len, events) ==
  len <= Len(file) /\ Clean(len) /\ events = Events(SubSeq(file, 1, len), 0)

LEMMA TextEqual ==
  ASSUME NEW x \in Text, NEW y \in Text, Len(x) = Len(y), \A i \in 1..Len(x) : x[i] = y[i]
  PROVE  x = y
<1> DEFINE Cell == (Event \X {1, 2}) \cup {NL}
<1>1. x \in Seq(Cell) /\ y \in Seq(Cell)
  BY DEF Text
<1> HIDE DEF Cell
<1> QED BY <1>1, SeqEqual

LEMMA GrownBy ==
  ASSUME Typed, NEW s \in Text, file' = file \o s
  PROVE  /\ Grown /\ Len(file) \in Nat /\ Len(s) \in Nat /\ Len(file') = Len(file) + Len(s)
         /\ \A i \in 1..Len(s) : file'[Len(file) + i] = s[i]
<1>1. file \in Text
  BY DEF Typed, FilesTyped
<1>2. /\ Len(file) \in Nat /\ Len(s) \in Nat /\ Len(file \o s) = Len(file) + Len(s)
      /\ \A i \in 1..Len(file) : (file \o s)[i] = file[i]
      /\ \A i \in 1..Len(s) : (file \o s)[Len(file) + i] = s[i]
  BY <1>1, Joins, Zenon
<1>3. /\ Len(file') = Len(file) + Len(s)
      /\ \A i \in 1..Len(file) : file'[i] = file[i]
      /\ \A i \in 1..Len(s) : file'[Len(file) + i] = s[i]
  BY <1>2, Zenon
<1>4. Len(file) <= Len(file')
  BY <1>2, <1>3
<1> QED BY <1>2, <1>3, <1>4, Zenon DEF Grown

LEMMA GrownKeeps ==
  ASSUME Typed, Typed', Grown, NEW n \in Nat, n <= Len(file)
  PROVE  /\ Clean(n) => Clean(n)'
         /\ \A c : Written(c, n) => Written(c, n)'
         /\ SubSeq(file', 1, n) = SubSeq(file, 1, n)
         /\ \A events : IsRead(n, events) => IsRead(n, events)'
<1>1. file \in Text /\ file' \in Text /\ Len(file) \in Nat /\ Len(file') \in Nat
  BY DEF Typed, FilesTyped, Text
<1>2. Len(file) <= Len(file') /\ \A i \in 1..Len(file) : file'[i] = file[i]
  BY DEF Grown
<1>3. Clean(n) => Clean(n)'
  BY <1>2 DEF Clean
<1>4. ASSUME NEW k \in 1..n, EndsEvent(file, k)
      PROVE  EndsEvent(file', k)
  <2>1. k > 2 /\ k \in 1..Len(file) /\ k - 1 \in 1..Len(file) /\ k - 2 \in 1..Len(file)
    BY <1>1, <1>4 DEF EndsEvent
  <2>2. k # 3 => k - 3 \in 1..Len(file)
    BY <2>1
  <2>3. /\ file'[k] = file[k] /\ file'[k - 1] = file[k - 1] /\ file'[k - 2] = file[k - 2]
        /\ k # 3 => file'[k - 3] = file[k - 3]
    BY <1>2, <2>1, <2>2
  <2> QED BY <1>4, <2>3 DEF EndsEvent
<1>5. ASSUME NEW c, Written(c, n)
      PROVE  Written(c, n)'
  <2>1. PICK k \in 1..n : EndsEvent(file, k) /\ file[k - 1] = Mark(c)
    BY <1>5 DEF Written
  <2>2. EndsEvent(file', k)
    BY <1>4, <2>1
  <2>3. k > 2
    BY <2>1 DEF EndsEvent
  <2>4. file'[k - 1] = file[k - 1]
    BY <1>1, <1>2, <2>3
  <2> QED BY <2>1, <2>2, <2>4 DEF Written, Mark
<1>6. SubSeq(file', 1, n) = SubSeq(file, 1, n)
  <2> DEFINE x == SubSeq(file', 0 + 1, n)
             y == SubSeq(file, 0 + 1, n)
  <2>1. /\ x \in Text /\ Len(x) = n - 0 /\ \A i \in 1..(n - 0) : x[i] = file'[0 + i]
        /\ y \in Text /\ Len(y) = n - 0 /\ \A i \in 1..(n - 0) : y[i] = file[0 + i]
    BY <1>1, <1>2, PieceIs
  <2> HIDE DEF x, y
  <2>2. \A i \in 1..n : x[i] = y[i]
    BY <1>1, <1>2, <2>1
  <2>3. x = y
    BY <2>1, <2>2, TextEqual
  <2> QED BY <2>3 DEF x, y
<1>7. ASSUME NEW events, IsRead(n, events)
      PROVE  IsRead(n, events)'
  <2>1. n <= Len(file') /\ Clean(n)'
    BY <1>1, <1>2, <1>3, <1>7 DEF IsRead
  <2>2. events = Events(SubSeq(file', 1, n), 0)
    BY <1>6, <1>7, Zenon DEF IsRead
  <2> QED BY <2>1, <2>2, Zenon DEF IsRead
<1> QED BY <1>3, <1>5, <1>6, <1>7

LEMMA WrittenMore ==
  ASSUME NEW c, NEW n \in Nat, NEW m \in Nat, n <= m, Written(c, n)
  PROVE  Written(c, m)
BY DEF Written

LEMMA LongerEvents ==
  ASSUME NEW x \in Entry, NEW from \in Nat, NEW bytes \in Text, NEW skip
  PROVE  /\ Longer(x, from, bytes, skip).len = from + Cut(bytes)
         /\ Longer(x, from, bytes, skip).events
              = x.events \o Events(SubSeq(bytes, 1, Cut(bytes)), skip)
BY LongerIs

\* What is read on from a place that was read up to.
LEMMA LongerReads ==
  ASSUME Typed, NEW x \in Entry, NEW from \in Nat, NEW upto \in Nat,
         from <= upto, upto <= Len(file), Clean(from), IsRead(x.len, x.events),
         NEW bytes \in Text, Len(bytes) = upto - from,
         \A i \in 1..(upto - from) : bytes[i] = file[from + i],
         from <= x.len, x.len <= from + Cut(bytes)
  PROVE  /\ from + Cut(bytes) \in Nat /\ from + Cut(bytes) <= upto
         /\ Longer(x, from, bytes, x.len - from).len = from + Cut(bytes)
         /\ IsRead(from + Cut(bytes), Longer(x, from, bytes, x.len - from).events)
<1> DEFINE n == from + Cut(bytes)
           skip == x.len - from
           cut == SubSeq(bytes, 1, Cut(bytes))
<1>1. /\ file \in Text /\ Len(file) \in Nat /\ x.len \in Nat
  <2>1. file \in Text /\ Len(file) \in Nat
    BY DEF Typed, FilesTyped, Text
  <2>2. x.len \in Nat
    BY EntryIs
  <2> QED BY <2>1, <2>2
<1>2. /\ Cut(bytes) \in 0..(upto - from)
      /\ Cut(bytes) = 0 \/ bytes[Cut(bytes)] = NL
      /\ \A j \in (Cut(bytes) + 1)..(upto - from) : bytes[j] # NL
  BY <1>1, CutIs
<1>3. n \in Nat /\ n <= upto /\ x.len <= n
  BY <1>2
<1>4. Clean(n)
  <2>1. CASE Cut(bytes) = 0
    BY <2>1 DEF Clean
  <2>2. CASE Cut(bytes) # 0
    <3>1. Cut(bytes) \in 1..(upto - from)
      BY <1>2, <2>2
    <3> QED BY <1>1, <1>2, <2>2, <3>1 DEF Clean
  <2> QED BY <2>1, <2>2
<1>6. cut = SubSeq(file, from + 1, n)
  <2> DEFINE y == SubSeq(bytes, 0 + 1, Cut(bytes))
             z == SubSeq(file, from + 1, n)
  <2>8. y = cut
    <3>1. 0 + 1 = 1
      OBVIOUS
    <3> QED BY <3>1, Zenon
  <2>1. Cut(bytes) \in Nat /\ Cut(bytes) <= Len(bytes) /\ 0 \in Nat /\ 0 <= Cut(bytes)
    BY <1>1, <1>2
  <2>2. /\ y \in Text /\ Len(y) = Cut(bytes) - 0 /\ \A i \in 1..(Cut(bytes) - 0) : y[i] = bytes[0 + i]
    BY <1>1, <2>1, PieceIs
  <2>3. from <= n /\ n <= Len(file)
    BY <1>1, <1>3, <2>1
  <2>4. z \in Text /\ Len(z) = n - from /\ \A i \in 1..(n - from) : z[i] = file[from + i]
    BY <1>1, <1>3, <2>3, PieceIs
  <2> HIDE DEF y, z
  <2>5. ASSUME NEW i \in 1..Cut(bytes)
        PROVE  y[i] = z[i]
    <3>1. /\ i \in 1..(Cut(bytes) - 0) /\ 0 + i = i /\ i \in 1..(upto - from)
          /\ i \in 1..(n - from)
      BY <1>1, <1>2, <2>1
    <3>2. y[i] = bytes[i] /\ bytes[i] = file[from + i] /\ z[i] = file[from + i]
      BY <1>1, <2>2, <2>4, <3>1
    <3> QED BY <3>2
  <2>7. Len(y) = Len(z) /\ Len(y) = Cut(bytes)
    BY <2>1, <2>2, <2>4
  <2>6. y = z
    <3>1. \A i \in 1..Len(y) : y[i] = z[i]
      BY <2>5, <2>7
    <3>2. y \in Text /\ z \in Text /\ Len(y) = Len(z)
      BY <2>2, <2>4, <2>7
    <3> HIDE DEF n
    <3> QED BY <3>1, <3>2, TextEqual
  <2> HIDE DEF cut
  <2> QED BY <2>6, <2>8, Zenon DEF z
<1>7. Events(cut, skip) = Events(SubSeq(file, x.len + 1, n), 0)
  <2>1. n <= Len(file) /\ (x.len = 0 \/ file[x.len] = NL)
    BY <1>1, <1>3 DEF IsRead, Clean
  <2> HIDE DEF n, cut
  <2>2. Events(SubSeq(file, from + 1, n), x.len - from) = Events(SubSeq(file, x.len + 1, n), 0)
    BY <1>1, <1>3, <2>1, EventsFrom
  <2> QED BY <1>6, <2>2, Zenon
<1>8. Events(SubSeq(file, 1, n), 0)
        = Events(SubSeq(file, 1, x.len), 0) \o Events(SubSeq(file, x.len + 1, n), 0)
  <2>1. n <= Len(file) /\ (x.len = 0 \/ file[x.len] = NL)
    BY <1>1, <1>3 DEF IsRead, Clean
  <2> HIDE DEF n
  <2> QED BY <1>1, <1>3, <2>1, EventsSplit
<1>9. /\ Longer(x, from, bytes, skip).len = n
      /\ Longer(x, from, bytes, skip).events = x.events \o Events(cut, skip)
  <2> HIDE DEF skip
  <2>1. /\ Longer(x, from, bytes, skip).len = from + Cut(bytes)
        /\ Longer(x, from, bytes, skip).events
             = x.events \o Events(SubSeq(bytes, 1, Cut(bytes)), skip)
    BY LongerEvents
  <2> QED BY <2>1, Zenon
<1>10. Longer(x, from, bytes, skip).events = Events(SubSeq(file, 1, n), 0)
  <2>1. x.events = Events(SubSeq(file, 1, x.len), 0)
    BY DEF IsRead
  <2> HIDE DEF n, skip, cut
  <2> QED BY <1>7, <1>8, <1>9, <2>1, Zenon
<1>11. IsRead(n, Longer(x, from, bytes, skip).events)
  <2>1. n <= Len(file)
    BY <1>1, <1>3
  <2> HIDE DEF n, skip, cut
  <2> QED BY <1>4, <1>10, <2>1 DEF IsRead
<1> QED BY <1>3, <1>9, <1>11

\* No line ends in what is left unread.
LEMMA LinesBefore ==
  ASSUME Typed, NEW from \in Nat, NEW upto \in Nat, from <= upto, upto <= Len(file),
         NEW bytes \in Text, Len(bytes) = upto - from,
         \A i \in 1..(upto - from) : bytes[i] = file[from + i]
  PROVE  /\ from + Cut(bytes) \in Nat /\ from + Cut(bytes) <= upto
         /\ \A c : Written(c, upto) => Written(c, from + Cut(bytes))
<1> DEFINE n == from + Cut(bytes)
<1>1. Len(file) \in Nat /\ Len(bytes) \in Nat
  BY DEF Typed, FilesTyped, Text
<1>2. /\ Cut(bytes) \in 0..(upto - from)
      /\ \A j \in (Cut(bytes) + 1)..(upto - from) : bytes[j] # NL
  BY <1>1, CutIs
<1>3. n \in Nat /\ n <= upto
  BY <1>2
<1>5. ASSUME NEW k \in 1..upto, file[k] = NL
      PROVE  k <= n
  <2>1. SUFFICES ASSUME ~(k <= n)
                 PROVE  FALSE
    OBVIOUS
  <2>2. k - from \in (Cut(bytes) + 1)..(upto - from) /\ from + (k - from) = k
    BY <1>2, <2>1
  <2>3. k - from \in 1..(upto - from)
    BY <1>2, <2>2
  <2>4. bytes[k - from] = NL
    BY <1>5, <2>2, <2>3
  <2> QED BY <1>2, <2>2, <2>4
<1>6. ASSUME NEW c, Written(c, upto)
      PROVE  Written(c, n)
  <2>1. PICK k \in 1..upto : EndsEvent(file, k) /\ file[k - 1] = Mark(c)
    BY <1>6 DEF Written
  <2>2. k <= n
    BY <1>5, <2>1 DEF EndsEvent
  <2>3. k \in 1..n
    BY <1>3, <2>2
  <2> QED BY <2>1, <2>3 DEF Written
<1> QED BY <1>3, <1>6

(***************************************************************************)
(* Appends                                                                 *)
(***************************************************************************)
Unmarked(c) == \A i \in 1..Len(file) : file[i] # Mark(c)

\* Where the line that c is writing starts, and the place of its mark in it.
Start(c) == Len(file) - local[c].len
MarkAt(c) == Len(Bytes(c)) - 1

\* A part of the line is at the end of the file.
Partly(c) ==
  /\ writing = c
  /\ \A i \in 1..local[c].len : file[Start(c) + i] = Bytes(c)[i]
  /\ \A i \in 1..Len(file) : file[i] = Mark(c) => i = Start(c) + MarkAt(c)
  /\ c \in glued \/ local[c].lead \/ Clean(Start(c))

\* The line ends where the append says.
LineEnds(c) ==
  /\ Len(Bytes(c)) <= local[c].len
  /\ \A i \in 1..Len(Bytes(c)) : file[local[c].len - Len(Bytes(c)) + i] = Bytes(c)[i]

AppendAt(c) ==
  /\ at[c] \in {"unused", "looks", "writes"} => Unmarked(c)
  /\ at[c] = "looks" => Clean(local[c].len)
  /\ at[c] = "writes" /\ c \notin glued /\ ~local[c].lead => writing # None \/ Clean(Len(file))
  /\ at[c] = "writing" => Partly(c)
  /\ at[c] = "remembers" => LineEnds(c)
  /\ does[c] = "append" /\ at[c] \in {"remembers", "done"} /\ c \notin glued
       => Written(c, Len(file))

Marks == \A c \in Call : \A i, j \in 1..Len(file) : file[i] = Mark(c) /\ file[j] = Mark(c) => i = j

Writer == writing # None => at[writing] = "writing"

Appends == Marks /\ Writer /\ \A c \in Call : AppendAt(c)

LEMMA CellsOf ==
  ASSUME CallsTyped, NEW c \in Call
  PROVE  /\ Len(Bytes(c)) \in {3, 4} /\ (Len(Bytes(c)) = 4 <=> local[c].lead)
         /\ Bytes(c)[Len(Bytes(c))] = NL
         /\ Bytes(c)[Len(Bytes(c)) - 1] = Mark(c)
         /\ Bytes(c)[Len(Bytes(c)) - 2] = <<c, 1>>
         /\ local[c].lead => Bytes(c)[Len(Bytes(c)) - 3] = NL
         /\ \A d : \A i \in 1..Len(Bytes(c)) :
              Bytes(c)[i] = Mark(d) => d = c /\ i = Len(Bytes(c)) - 1
<1>1. c \in Event /\ local[c].lead \in BOOLEAN
  BY BytesIs DEF Event
<1>2. \A x, i : NL # <<x, i>>
  BY DEF NL
<1>3. /\ Len(Line(c)) = 3 /\ Len(<<NL>> \o Line(c)) = 4
      /\ Line(c)[1] = <<c, 1>> /\ Line(c)[2] = <<c, 2>> /\ Line(c)[3] = NL
      /\ \A i \in 1..3 : (<<NL>> \o Line(c))[i + 1] = Line(c)[i]
      /\ (<<NL>> \o Line(c))[1] = NL
  BY <1>1, LineIs, Zenon
<1>4. CASE local[c].lead
  <2> DEFINE b == <<NL>> \o Line(c)
  <2>1. Bytes(c) = b
    BY <1>4 DEF Bytes
  <2>2. b[1 + 1] = <<c, 1>> /\ b[2 + 1] = <<c, 2>> /\ b[3 + 1] = NL /\ b[1] = NL /\ Len(b) = 4
    <3>1. 1 \in 1..3 /\ 2 \in 1..3 /\ 3 \in 1..3
      OBVIOUS
    <3> QED BY <1>3, <3>1, Zenon
  <2> HIDE DEF b
  <2>3. b[1] = NL /\ b[2] = <<c, 1>> /\ b[3] = <<c, 2>> /\ b[4] = NL /\ Len(b) = 4
    BY <2>2
  <2> QED BY <1>2, <1>4, <2>1, <2>3 DEF Mark
<1>5. CASE ~local[c].lead
  <2>1. Bytes(c) = Line(c)
    BY <1>5 DEF Bytes
  <2> DEFINE b == Line(c)
  <2>2. b[1] = <<c, 1>> /\ b[2] = <<c, 2>> /\ b[3] = NL /\ Len(b) = 3
    BY <1>3
  <2>3. Bytes(c) = b
    BY <2>1
  <2> HIDE DEF b
  <2>4. \A d : \A i \in 1..3 : b[i] = Mark(d) => d = c /\ i = 2
    BY <1>2, <2>2 DEF Mark
  <2>5. Len(Bytes(c)) = 3 /\ Bytes(c)[3] = NL /\ Bytes(c)[2] = Mark(c) /\ Bytes(c)[1] = <<c, 1>>
    BY <2>2, <2>3 DEF Mark
  <2>6. \A d : \A i \in 1..3 : Bytes(c)[i] = Mark(d) => d = c /\ i = 2
    BY <2>3, <2>4
  <2> HIDE DEF b
  <2> QED BY <1>5, <2>5, <2>6
<1> QED BY <1>1, <1>4, <1>5

\* An append that does not move.
LEMMA AppendStays ==
  ASSUME Base, Base', Grown, NEW d \in Call, Same(d), AppendAt(d), glued \subseteq glued',
         Unmarked(d) => Unmarked(d)',
         at[d] = "writes" /\ d \notin glued' /\ ~local[d].lead => writing' # None \/ Clean(Len(file))',
         at[d] = "writing" => file' = file /\ writing' = writing
  PROVE  AppendAt(d)'
<1>1. /\ at'[d] = at[d] /\ does'[d] = does[d] /\ local'[d] = local[d]
      /\ Bytes(d)' = Bytes(d) /\ local[d].len \in Nat /\ Len(Bytes(d)) \in Nat
      /\ Len(file) \in Nat /\ Len(file') \in Nat
  BY BytesStay, BytesIs, VariablesIs DEF Same, Base, Typed, CallsTyped, FilesTyped, Text
<1>2. Len(file) <= Len(file') /\ \A i \in 1..Len(file) : file'[i] = file[i]
  BY DEF Grown
<1>3. at[d] = "looks" => Clean(local[d].len)'
  <2>1. at[d] = "looks" => local[d].len <= Len(file)
    BY DEF Base, ReachOf
  <2>2. at[d] = "looks" => Clean(local[d].len)
    BY DEF AppendAt
  <2> QED BY <1>1, <1>2, <2>1, <2>2 DEF Clean
<1>4. at[d] = "writing" => Partly(d)'
  BY <1>1 DEF AppendAt, Partly, Start, MarkAt, Mark, Clean
<1>5. at[d] = "remembers" => LineEnds(d)'
  <2>1. SUFFICES ASSUME at[d] = "remembers"
                 PROVE  LineEnds(d)'
    OBVIOUS
  <2>2. local[d].len <= Len(file) /\ LineEnds(d)
    BY <2>1 DEF Base, ReachOf, AppendAt
  <2>3. ASSUME NEW i \in 1..Len(Bytes(d))
        PROVE  file'[local[d].len - Len(Bytes(d)) + i] = Bytes(d)[i]
    <3>1. local[d].len - Len(Bytes(d)) + i \in 1..Len(file)
      BY <1>1, <2>2 DEF LineEnds
    <3> QED BY <1>2, <2>2, <3>1 DEF LineEnds
  <2>4. Len(Bytes(d)) <= local[d].len
    BY <2>2 DEF LineEnds
  <2> QED BY <1>1, <2>3, <2>4 DEF LineEnds
<1>6. /\ does[d] = "append" /\ at[d] \in {"remembers", "done"} /\ d \notin glued'
        => Written(d, Len(file))'
  <2>1. SUFFICES ASSUME does[d] = "append", at[d] \in {"remembers", "done"}, d \notin glued'
                 PROVE  Written(d, Len(file))'
    OBVIOUS
  <2>2. Written(d, Len(file))
    BY <2>1 DEF AppendAt
  <2>3. PICK n \in Nat : n = Len(file) /\ Written(d, n)
    BY <1>1, <2>2
  <2>4. Written(d, n)'
    BY <2>3, GrownKeeps DEF Base
  <2>5. n <= Len(file')
    BY <1>2, <2>3
  <2> QED BY <1>1, <2>4, <2>5 DEF Written
<1>7. at[d] \in {"unused", "looks", "writes"} => Unmarked(d)'
  BY DEF AppendAt
<1> QED BY <1>1, <1>3, <1>4, <1>5, <1>6, <1>7 DEF AppendAt

\* A call that appends nothing, or no more.
Aside(c) ==
  /\ at[c] \notin {"unused", "looks", "writes", "writing", "remembers"}
  /\ does[c] = "append" => at[c] # "done"

AppendsQuiet ==
  /\ UNCHANGED <<file, writing, glued>>
  /\ \A c \in Call : Same(c) \/ (at[c] # "writing" /\ Aside(c)')

LEMMA FileSame ==
  ASSUME Base, file' = file
  PROVE  /\ Grown
         /\ \A c : (Unmarked(c) <=> Unmarked(c)')
         /\ Marks => Marks'
         /\ Clean(Len(file)) => Clean(Len(file))'
BY DEF Base, Typed, FilesTyped, Text, Grown, Unmarked, Marks, Mark, Clean

LEMMA AppendStaysAside ==
  ASSUME Base, Base', NEW d \in Call, file' = file, glued \subseteq glued', AppendAt(d), Same(d),
         at[d] = "writes" => d \in glued' \/ writing' = writing,
         at[d] = "writing" => writing' = writing
  PROVE  AppendAt(d)'
BY FileSame, AppendStays DEF AppendAt

LEMMA AppendsStay ==
  ASSUME Base, Base', Appends, AppendsQuiet
  PROVE  Appends'
<1>1. file' = file /\ writing' = writing /\ glued' = glued
  BY DEF AppendsQuiet
<1>2. Marks'
  BY <1>1, FileSame DEF Appends
<1>3. Writer'
  <2>1. SUFFICES ASSUME writing # None
                 PROVE  at'[writing] = "writing"
    BY <1>1 DEF Writer
  <2>2. writing \in Call /\ at[writing] = "writing"
    BY <2>1 DEF Appends, Writer, Base, Typed, FilesTyped
  <2> QED BY <2>2 DEF AppendsQuiet, Same
<1>4. ASSUME NEW d \in Call
      PROVE  AppendAt(d)'
  <2>1. CASE Same(d)
    BY <1>1, <2>1, AppendStaysAside DEF Appends
  <2>2. CASE Aside(d)'
    BY <2>2 DEF Aside, AppendAt
  <2> QED BY <2>1, <2>2 DEF AppendsQuiet
<1> QED BY <1>2, <1>3, <1>4 DEF Appends

\* A step of one append that writes nothing.
LEMMA AppendsStayBut ==
  ASSUME Base, Base', Appends, NEW c \in Call, UNCHANGED <<file, writing, glued>>, Only(c),
         at[c] # "writing", AppendAt(c)'
  PROVE  Appends'
<1>1. Marks'
  BY FileSame DEF Appends
<1>2. Writer'
  <2>1. SUFFICES ASSUME writing # None
                 PROVE  at'[writing] = "writing"
    BY DEF Writer
  <2>2. writing \in Call /\ at[writing] = "writing"
    BY <2>1 DEF Appends, Writer, Base, Typed, FilesTyped
  <2> QED BY <2>2 DEF Only
<1>3. ASSUME NEW d \in Call \ {c}
      PROVE  AppendAt(d)'
  <2>1. Same(d)
    BY DEF Only, Same
  <2> QED BY <2>1, AppendStaysAside DEF Appends
<1> QED BY <1>1, <1>2, <1>3 DEF Appends

LEMMA AppendOpensAppends ==
  ASSUME Base, Base', Appends, NEW c \in Call, NEW p \in Process, AppendOpens(c, p),
         Clean(cache[p].len)
  PROVE  Appends'
<1>1. /\ Begins(c, p, "append", "looks") /\ local'[c] = [local[c] EXCEPT !.len = cache[p].len]
      /\ UNCHANGED <<file, writing, glued>>
  BY AppendOpensDoes DEF Base, files
<1>2. local'[c].len = cache[p].len
  BY <1>1, VariablesIs DEF Base, Typed, CallsTyped
<1>3. Only(c) /\ at[c] = "unused" /\ at'[c] = "looks"
  BY <1>1 DEF Begins
<1>4. Unmarked(c)'
  BY <1>1, <1>3, FileSame DEF Appends, AppendAt
<1>5. Clean(local[c].len)'
  BY <1>1, <1>2 DEF Clean
<1>6. AppendAt(c)'
  BY <1>3, <1>4, <1>5 DEF AppendAt
<1> QED BY <1>1, <1>3, <1>6, AppendsStayBut

LEMMA AppendLooksAppends ==
  ASSUME Base, Base', Appends, NEW c \in Call, AppendLooks(c)
  PROVE  Appends'
<1>1. /\ Moves(c, "looks", "writes") /\ UNCHANGED <<file, writing, glued>>
      /\ local'[c].lead <=> Len(file) > 0 /\ local[c].len # Len(file) /\ file[Len(file)] # NL
      /\ local'[c] \in Variables
  BY AppendLooksDoes DEF Base, files, past
<1>2. Only(c) /\ at[c] = "looks" /\ at'[c] = "writes"
  BY <1>1 DEF Moves
<1>3. Unmarked(c)' /\ Clean(local[c].len)
  BY <1>1, <1>2, FileSame DEF Appends, AppendAt
<1>4. ~local'[c].lead => Clean(Len(file))'
  BY <1>1, <1>3 DEF Clean, Base, Typed, FilesTyped, Text
<1>5. AppendAt(c)'
  BY <1>2, <1>3, <1>4 DEF AppendAt
<1> QED BY <1>1, <1>2, <1>5, AppendsStayBut

LEMMA AppendRemembersAppends ==
  ASSUME Base, Base', Appends, NEW c \in Call, AppendRemembers(c)
  PROVE  Appends'
<1>1. Moves(c, "remembers", "done") /\ UNCHANGED <<file, writing, glued>>
  BY AppendRemembersBase, AppendRemembersDoes DEF Base, files
<1>2. Only(c) /\ at[c] = "remembers" /\ at'[c] = "done" /\ does'[c] = does[c]
  BY <1>1 DEF Moves
<1>3. does[c] = "append"
  BY <1>2 DEF Base, KindOf, Appending
<1>4. c \notin glued => Written(c, Len(file))'
  BY <1>1, <1>2, <1>3 DEF Appends, AppendAt, Written, EndsEvent, Mark
<1>5. AppendAt(c)'
  BY <1>1, <1>2, <1>4 DEF AppendAt
<1> QED BY <1>1, <1>2, <1>5, AppendsStayBut

\* A write that is cut short, by an error or by the end of its process.
LEMMA CutShortAppends ==
  ASSUME Base, Base', Appends, NEW c \in Call, writing = c, writing' = None, file' = file, CutShort,
         \A d \in Call : Same(d) \/ Aside(d)', ~Same(c)
  PROVE  Appends'
<1>1. Marks' /\ Writer'
  BY FileSame DEF Appends, Writer
<1>2. ASSUME NEW d \in Call
      PROVE  AppendAt(d)'
  <2>1. CASE Same(d)
    <3>1. at[d] = "writing" => FALSE
      BY <2>1 DEF Appends, AppendAt, Partly
    <3>2. at[d] = "writes" => d \in glued'
      BY DEF CutShort
    <3>3. glued \subseteq glued'
      BY DEF CutShort
    <3> QED BY <2>1, <3>1, <3>2, <3>3, AppendStaysAside DEF Appends
  <2>2. CASE Aside(d)'
    BY <2>2 DEF Aside, AppendAt
  <2> QED BY <2>1, <2>2
<1> QED BY <1>1, <1>2 DEF Appends

LEMMA WriteFailsAppends ==
  ASSUME Base, Base', Appends, NEW c \in Call, WriteFails(c)
  PROVE  Appends'
<1>1. Moves(c, "writing", "failed") /\ writing' = None /\ CutShort /\ file' = file
  BY WriteFailsDoes DEF Base
<1>2. writing = c /\ ~Same(c)
  BY <1>1 DEF Appends, AppendAt, Partly, Moves, Same
<1>3. \A d \in Call : Same(d) \/ Aside(d)'
  BY <1>1 DEF Moves, Only, Same, Aside
<1> QED BY <1>1, <1>2, <1>3, CutShortAppends

LEMMA CrashAppends ==
  ASSUME Base, Base', Appends, NEW p \in Process, Crash(p)
  PROVE  Appends'
<1>1. /\ UNCHANGED <<file, does, on, before>>
      /\ \A c \in Call :
           /\ c \in LostIn(p) => at'[c] = "dead" /\ local'[c] = Blank
           /\ c \notin LostIn(p) => at'[c] = at[c] /\ local'[c] = local[c]
  BY CrashDoes DEF Base
<1>2. IF writing \in LostIn(p) THEN writing' = None /\ CutShort ELSE UNCHANGED <<writing, glued>>
  BY DEF Crash, LostIn
<1>3. \A d \in Call : Same(d) \/ (d \in LostIn(p) /\ Aside(d)')
  BY <1>1 DEF Same, Aside
<1>4. CASE writing \in LostIn(p)
  <2>1. writing \in Call /\ ~Same(writing)
    BY <1>1, <1>4 DEF LostIn, Same, Over
  <2> QED BY <1>1, <1>2, <1>3, <1>4, <2>1, CutShortAppends
<1>5. CASE writing \notin LostIn(p)
  <2>1. \A d \in LostIn(p) : at[d] # "writing"
    BY <1>5 DEF Appends, AppendAt, Partly, LostIn
  <2>2. AppendsQuiet
    BY <1>1, <1>2, <1>3, <1>5, <2>1 DEF AppendsQuiet
  <2> QED BY <2>2, AppendsStay
<1> QED BY <1>4, <1>5

\* What c adds to the file.
Adds(c, from, to) ==
  /\ Grown /\ Len(file') = Len(file) + (to - from)
  /\ \A i \in 1..(to - from) : file'[Len(file) + i] = Bytes(c)[from + i]

LEMMA AddsPiece ==
  ASSUME Typed, NEW c \in Call, NEW from \in Nat, NEW to \in Nat, from <= to, to <= Len(Bytes(c)),
         file' = file \o SubSeq(Bytes(c), from + 1, to)
  PROVE  Adds(c, from, to)
<1>1. Bytes(c) \in Text
  BY BytesIs DEF Typed
<1> DEFINE s == SubSeq(Bytes(c), from + 1, to)
<1>2. s \in Text /\ Len(s) = to - from /\ \A i \in 1..(to - from) : s[i] = Bytes(c)[from + i]
  BY <1>1, PieceIs
<1> HIDE DEF s
<1>3. file' = file \o s
  BY DEF s
<1>4. /\ Grown /\ Len(file') = Len(file) + Len(s)
      /\ \A i \in 1..Len(s) : file'[Len(file) + i] = s[i]
  BY <1>2, <1>3, GrownBy
<1>5. \A i \in 1..(to - from) : file'[Len(file) + i] = Bytes(c)[from + i]
  BY <1>2, <1>4
<1> QED BY <1>2, <1>4, <1>5 DEF Adds

\* A mark in the file was there or is that of what was added.
LEMMA AddsMarks ==
  ASSUME Base, NEW c \in Call, NEW from \in Nat, NEW to \in Nat, from <= to, to <= Len(Bytes(c)),
         Adds(c, from, to)
  PROVE  \A d : \A i \in 1..Len(file') : file'[i] = Mark(d) =>
           \/ i \in 1..Len(file) /\ file[i] = Mark(d)
           \/ d = c /\ i > Len(file) /\ i = Len(file) - from + (Len(Bytes(c)) - 1)
<1>1. Len(file) \in Nat /\ Len(Bytes(c)) \in Nat
  BY BytesIs, Numbers DEF Base, Typed
<1> SUFFICES ASSUME NEW d, NEW i \in 1..Len(file'), file'[i] = Mark(d)
             PROVE  \/ i \in 1..Len(file) /\ file[i] = Mark(d)
                    \/ d = c /\ i > Len(file) /\ i = Len(file) - from + (Len(Bytes(c)) - 1)
  OBVIOUS
<1>2. CASE i <= Len(file)
  BY <1>1, <1>2 DEF Adds, Grown
<1>3. CASE i > Len(file)
  <2>1. PICK j \in 1..(to - from) : i = Len(file) + j
    <3>1. i - Len(file) \in 1..(to - from) /\ i = Len(file) + (i - Len(file))
      BY <1>1, <1>3 DEF Adds
    <3> QED BY <3>1
  <2>2. Bytes(c)[from + j] = Mark(d) /\ from + j \in 1..Len(Bytes(c))
    BY <1>1, <2>1 DEF Adds
  <2>3. d = c /\ from + j = Len(Bytes(c)) - 1
    BY <2>2, CellsOf DEF Base, Typed
  <2> QED BY <1>1, <1>3, <2>1, <2>3
<1> QED BY <1>1, <1>2, <1>3

\* The appends that do not write.
LEMMA AddsOthers ==
  ASSUME Base, Base', Appends, NEW c \in Call, NEW from \in Nat, NEW to \in Nat, from <= to,
         to <= Len(Bytes(c)), Adds(c, from, to), Only(c), glued' = glued,
         writing = None \/ writing = c, writing' = c \/ Clean(Len(file))'
  PROVE  \A d \in Call \ {c} : AppendAt(d)'
<1> SUFFICES ASSUME NEW d \in Call \ {c}
             PROVE  AppendAt(d)'
  OBVIOUS
<1>1. Same(d) /\ AppendAt(d) /\ Grown
  BY DEF Only, Same, Appends, Adds
<1>2. Unmarked(d) => Unmarked(d)'
  <2>1. \A i \in 1..Len(file') : file'[i] = Mark(d) => i \in 1..Len(file) /\ file[i] = Mark(d)
    BY AddsMarks
  <2> QED BY <2>1 DEF Unmarked, Mark
<1>3. at[d] # "writing"
  BY <1>1, NoneAssumption DEF AppendAt, Partly
<1>4. writing' # None \/ Clean(Len(file))'
  BY NoneAssumption
<1> QED BY <1>1, <1>2, <1>3, <1>4, AppendStays

LEMMA WriteStartsAppends ==
  ASSUME Base, Base', Appends, NEW c \in Call, NEW part \in 1..(Len(Bytes(c)) - 1),
         WriteStarts(c, part)
  PROVE  Appends' /\ Grown
<1>1. /\ Moves(c, "writes", "writing") /\ writing = None /\ writing' = c /\ glued' = glued
      /\ local'[c] = [local[c] EXCEPT !.len = part]
  BY WriteStartsDoes DEF Base, past
<1>2. /\ Len(file) \in Nat /\ Len(Bytes(c)) \in Nat /\ local[c] \in Variables
      /\ part \in Nat /\ 0 <= part /\ part <= Len(Bytes(c)) /\ 0 \in Nat
  BY BytesIs, Numbers DEF Base, Typed
<1>3. Adds(c, 0, part)
  <2>3. file' = file \o SubSeq(Bytes(c), 1, part) /\ 0 + 1 = 1
    BY DEF WriteStarts
  <2>1. file' = file \o SubSeq(Bytes(c), 0 + 1, part)
    BY <2>3, Zenon
  <2> QED BY <1>2, <2>1, AddsPiece DEF Base
<1>4. local'[c].len = part /\ local'[c].lead = local[c].lead /\ Bytes(c)' = Bytes(c)
  <2>1. local[c] \in Variables
    BY <1>2
  <2>2. local'[c].len = part /\ local'[c].lead = local[c].lead
    BY <1>1, <2>1, VariablesIs
  <2> QED BY <2>2, BytesStay
<1>5. Only(c) /\ at[c] = "writes" /\ at'[c] = "writing" /\ Unmarked(c)
  BY <1>1 DEF Moves, Appends, AppendAt
<1>6. Len(file') = Len(file) + part /\ \A i \in 1..part : file'[Len(file) + i] = Bytes(c)[i]
  BY <1>2, <1>3 DEF Adds
<1>7. Start(c)' = Len(file)
  BY <1>2, <1>4, <1>6 DEF Start
<1>8. \A i \in 1..Len(file') : file'[i] = Mark(c) => i = Len(file) + (Len(Bytes(c)) - 1)
  BY <1>2, <1>3, <1>5, AddsMarks DEF Unmarked
<1>9. Partly(c)'
  <2>1. \A i \in 1..local'[c].len : file'[Start(c)' + i] = Bytes(c)'[i]
    BY <1>4, <1>6, <1>7
  <2>2. \A i \in 1..Len(file') : file'[i] = Mark(c) => i = Start(c)' + MarkAt(c)'
    BY <1>4, <1>7, <1>8 DEF MarkAt
  <2>3. c \in glued' \/ local'[c].lead \/ Clean(Start(c))'
    <3>1. c \in glued \/ local[c].lead \/ Clean(Len(file))
      BY <1>1, <1>5 DEF Appends, AppendAt
    <3>2. Clean(Len(file)) => Clean(Start(c))'
      BY <1>2, <1>3, <1>7 DEF Clean, Adds, Grown
    <3> QED BY <1>1, <1>4, <3>1, <3>2
  <2> QED BY <1>1, <2>1, <2>2, <2>3 DEF Partly, Mark
<1>10. AppendAt(c)'
  BY <1>5, <1>9 DEF AppendAt
<1>11. \A d \in Call \ {c} : AppendAt(d)'
  BY <1>1, <1>2, <1>3, <1>5, AddsOthers
<1>12. Marks'
  <2> SUFFICES ASSUME NEW d \in Call, NEW i \in 1..Len(file'), NEW j \in 1..Len(file'),
                      file'[i] = Mark(d), file'[j] = Mark(d)
               PROVE  i = j
    BY DEF Marks, Mark
  <2>1. CASE d = c
    BY <1>8, <2>1
  <2>2. CASE d # c
    <3>1. i \in 1..Len(file) /\ file[i] = Mark(d) /\ j \in 1..Len(file) /\ file[j] = Mark(d)
      BY <1>2, <1>3, <2>2, AddsMarks
    <3> QED BY <3>1 DEF Appends, Marks
  <2> QED BY <2>1, <2>2
<1>13. Writer'
  BY <1>1, <1>5 DEF Writer
<1> QED BY <1>3, <1>10, <1>11, <1>12, <1>13 DEF Appends, Adds

LEMMA WriteEndsAppends ==
  ASSUME Base, Base', Appends, NEW c \in Call, WriteEnds(c)
  PROVE  Appends' /\ Grown
<1>1. at[c] = "writing"
  BY DEF WriteEnds
<1>2. PICK from \in Nat, to \in Nat : from = local[c].len /\ to = Len(Bytes(c))
  BY BytesIs, Numbers DEF Base, Typed
<1>3. from \in 1..(to - 1) /\ from <= Len(file) /\ Partly(c)
  BY <1>1, <1>2 DEF Base, ReachOf, Appends, AppendAt
<1>a. from < to /\ from <= to /\ local[c].len <= Len(Bytes(c))
  BY <1>2, <1>3
<1>4. /\ Moves(c, "writing", "remembers") /\ writing' = None /\ glued' = glued
      /\ local'[c] = [local[c] EXCEPT !.len = Len(file')]
  BY <1>a, WriteEndsDoes DEF Base, past
<1>5. Adds(c, from, to)
  <2>1. file' = file \o SubSeq(Bytes(c), local[c].len + 1, Len(Bytes(c)))
    BY <1>a, WriteEndsDoes DEF Base
  <2>2. file' = file \o SubSeq(Bytes(c), from + 1, to)
    BY <1>2, <2>1, Zenon
  <2>3. to <= Len(Bytes(c))
    BY <1>2
  <2> QED BY <1>2, <1>a, <2>2, <2>3, AddsPiece DEF Base
<1>6. /\ Len(file) \in Nat /\ local[c] \in Variables
      /\ Len(file') = Len(file) + (to - from)
      /\ \A i \in 1..Len(file) : file'[i] = file[i]
      /\ \A i \in 1..(to - from) : file'[Len(file) + i] = Bytes(c)[from + i]
  BY <1>5, Numbers DEF Base, Adds, Grown
<1>7. local'[c].len = Len(file') /\ local'[c].lead = local[c].lead /\ Bytes(c)' = Bytes(c)
  <2>1. local[c] \in Variables
    BY <1>6
  <2>2. local'[c].len = Len(file') /\ local'[c].lead = local[c].lead
    BY <1>4, <2>1, VariablesIs
  <2> QED BY <2>2, BytesStay
<1>8. Only(c) /\ at'[c] = "remembers" /\ does'[c] = "append"
  BY <1>1, <1>4 DEF Moves, Base, KindOf, Appending
<1>9. PICK start \in Nat : start = Len(file) - from /\ start = Start(c) /\ start + to = Len(file')
  <2>1. Len(file) - from \in Nat /\ Start(c) = Len(file) - from
    BY <1>2, <1>3, <1>6 DEF Start
  <2>2. Len(file) - from + to = Len(file')
    BY <1>2, <1>3, <1>6
  <2> QED BY <2>1, <2>2
<1>10. /\ to \in {3, 4} /\ (to = 4 <=> local[c].lead)
       /\ Bytes(c)[to] = NL /\ Bytes(c)[to - 1] = Mark(c) /\ Bytes(c)[to - 2] = <<c, 1>>
       /\ local[c].lead => Bytes(c)[to - 3] = NL
  BY <1>2, CellsOf DEF Base, Typed
<1>11. \A i \in 1..to : file'[start + i] = Bytes(c)[i]
  <2> SUFFICES ASSUME NEW i \in 1..to
               PROVE  file'[start + i] = Bytes(c)[i]
    OBVIOUS
  <2>1. CASE i <= from
    <3>1. i \in 1..from /\ start + i \in 1..Len(file)
      <4>1. /\ from \in Nat /\ to \in Nat /\ i \in 1..to /\ Len(file) \in Nat
            /\ start \in Nat /\ start = Len(file) - from
        BY <1>6, <1>9
      <4> QED BY <2>1, <4>1
    <3>2. file[start + i] = Bytes(c)[i]
      BY <1>2, <1>3, <1>9, <3>1 DEF Partly
    <3> QED BY <1>6, <3>1, <3>2
  <2>2. CASE i > from
    <3>1. i - from \in 1..(to - from) /\ Len(file) + (i - from) = start + i /\ from + (i - from) = i
      <4>1. from \in Nat /\ to \in Nat /\ i \in 1..to /\ Len(file) \in Nat /\ start = Len(file) - from
        BY <1>6, <1>9
      <4> QED BY <2>2, <4>1
    <3>2. file'[Len(file) + (i - from)] = Bytes(c)[from + (i - from)]
      BY <1>6, <3>1
    <3> QED BY <3>1, <3>2
  <2> QED BY <1>2, <2>1, <2>2
<1>12. /\ file'[start + to] = NL /\ file'[start + to - 1] = Mark(c)
       /\ file'[start + to - 2] = <<c, 1>>
       /\ local[c].lead => file'[start + to - 3] = NL
  <2>1. to \in 1..to /\ to - 1 \in 1..to /\ to - 2 \in 1..to /\ (local[c].lead => to - 3 \in 1..to)
    BY <1>10
  <2>2. /\ start + (to - 1) = start + to - 1 /\ start + (to - 2) = start + to - 2
        /\ start + (to - 3) = start + to - 3
    BY <1>2, <1>9
  <2> QED BY <1>10, <1>11, <2>1, <2>2
<1>13. LineEnds(c)'
  <2>1. local'[c].len - Len(Bytes(c)') = start /\ Len(Bytes(c)') <= local'[c].len
    <3>1. /\ local'[c].len = start + to /\ Len(Bytes(c)') = to /\ start \in Nat /\ to \in Nat
      BY <1>2, <1>7, <1>9
    <3> QED BY <3>1
  <2>2. \A i \in 1..Len(Bytes(c)') : file'[local'[c].len - Len(Bytes(c)') + i] = Bytes(c)'[i]
    BY <1>2, <1>7, <1>11, <2>1
  <2> QED BY <2>1, <2>2 DEF LineEnds
<1>14. c \notin glued' => Written(c, Len(file))'
  <2>1. SUFFICES ASSUME c \notin glued'
                 PROVE  \E k \in 1..Len(file') : EndsEvent(file', k) /\ file'[k - 1] = Mark(c)
    BY DEF Written, Mark
  <2>2. PICK k \in Nat : k = start + to
    BY <1>2, <1>9
  <2>3. k > 2 /\ k \in 1..Len(file')
    <3>1. start \in Nat /\ to \in {3, 4} /\ k = start + to /\ k = Len(file')
      BY <1>9, <1>10, <2>2
    <3> QED BY <3>1
  <2>4. k = 3 \/ file'[k - 3] = NL
    <3>1. CASE local[c].lead
      BY <1>12, <2>2, <3>1
    <3>2. CASE ~local[c].lead
      <4>1. Clean(start) /\ to = 3 /\ k - 3 = start
        BY <1>3, <1>4, <1>9, <1>10, <2>1, <2>2, <3>2 DEF Partly
      <4>2. start = 0 \/ (start \in 1..Len(file) /\ file[start] = NL)
        BY <1>3, <1>6, <1>9, <4>1 DEF Clean
      <4> QED BY <1>6, <2>2, <4>1, <4>2
    <3> QED BY <3>1, <3>2
  <2>5. c \in Event /\ Mark(c) = <<c, 2>>
    BY DEF Event, Mark
  <2>6. file'[k] = NL /\ file'[k - 1] = <<c, 2>> /\ file'[k - 2] = <<c, 1>>
    BY <1>12, <2>2, <2>5
  <2>7. EndsEvent(file', k)
    BY <2>3, <2>4, <2>5, <2>6 DEF EndsEvent
  <2> QED BY <2>3, <2>5, <2>6, <2>7
<1>15. AppendAt(c)'
  BY <1>8, <1>13, <1>14 DEF AppendAt
<1>16. Clean(Len(file))'
  BY <1>9, <1>12 DEF Clean
<1>17. \A d \in Call \ {c} : AppendAt(d)'
  <2>1. writing = c
    BY <1>3 DEF Partly
  <2>2. to <= Len(Bytes(c))
    BY <1>2
  <2> QED BY <1>a, <1>4, <1>5, <1>8, <1>16, <2>1, <2>2, AddsOthers
<1>18. Marks'
  <2> SUFFICES ASSUME NEW d \in Call, NEW i \in 1..Len(file'), NEW j \in 1..Len(file'),
                      file'[i] = Mark(d), file'[j] = Mark(d)
               PROVE  i = j
    BY DEF Marks, Mark
  <2>1. \A k \in 1..Len(file') : file'[k] = Mark(d) =>
           \/ k \in 1..Len(file) /\ file[k] = Mark(d)
           \/ d = c /\ k = start + (to - 1)
    <3>1. Len(file) - from + (Len(Bytes(c)) - 1) = start + (to - 1) /\ to <= Len(Bytes(c))
      BY <1>2, <1>9
    <3> QED BY <1>a, <1>5, <3>1, AddsMarks
  <2>2. CASE d = c
    <3>1. \A k \in 1..Len(file) : file[k] = Mark(c) => k = start + (to - 1)
      BY <1>2, <1>3, <1>9 DEF Partly, MarkAt
    <3> QED BY <2>1, <2>2, <3>1
  <2>3. CASE d # c
    <3>1. i \in 1..Len(file) /\ file[i] = Mark(d) /\ j \in 1..Len(file) /\ file[j] = Mark(d)
      BY <2>1, <2>3
    <3> QED BY <3>1 DEF Appends, Marks
  <2> QED BY <2>2, <2>3
<1>19. Writer'
  BY <1>4 DEF Writer
<1> QED BY <1>5, <1>15, <1>17, <1>18, <1>19 DEF Appends, Adds

(***************************************************************************)
(* What the stores remember of the file                                    *)
(***************************************************************************)
Entries == \A p \in Process : IsRead(cache[p].len, cache[p].events)

CacheQuiet ==
  \A p \in Process :
    \/ cache'[p].len = cache[p].len /\ cache'[p].events = cache[p].events
    \/ cache'[p].len = 0 /\ cache'[p].events = <<>>

LEMMA NothingRead ==
  ASSUME Typed
  PROVE  IsRead(0, <<>>)
<1> DEFINE x == SubSeq(file, 0 + 1, 0)
<1>1. x \in Text /\ Len(x) = 0 /\ Len(file) \in Nat
  <2>1. file \in Text /\ Len(file) \in Nat /\ 0 \in Nat /\ 0 <= Len(file) /\ 0 <= 0
    BY DEF Typed, FilesTyped, Text
  <2>2. x \in Text /\ Len(x) = 0 - 0
    BY <2>1, PieceIs
  <2> QED BY <2>1, <2>2
<1>2. x = SubSeq(file, 1, 0)
  <2>1. 0 + 1 = 1
    OBVIOUS
  <2> QED BY <2>1, Zenon
<1> HIDE DEF x
<1>3. PICK g : IsUpTo(g, 0, x, 0) /\ Events(x, 0) = g[0]
  BY <1>1, EventsIs
<1>4. g[0] = <<>>
  BY <1>3, UpToStep
<1>5. Events(SubSeq(file, 1, 0), 0) = <<>>
  BY <1>2, <1>3, <1>4, Zenon
<1> HIDE DEF x
<1> QED BY <1>1, <1>5 DEF IsRead, Clean

LEMMA EntriesStay ==
  ASSUME Base, Base', Grown, Entries, CacheQuiet
  PROVE  Entries'
<1> SUFFICES ASSUME NEW p \in Process
             PROVE  IsRead(cache[p].len, cache[p].events)'
  BY DEF Entries
<1>1. CASE cache'[p].len = cache[p].len /\ cache'[p].events = cache[p].events
  <2>1. PICK n \in Nat, events \in Seq(Event) : n = cache[p].len /\ events = cache[p].events
    BY Numbers, EntryIs DEF Base
  <2>2. IsRead(n, events) /\ n <= Len(file)
    BY <2>1 DEF Entries, Base
  <2>3. IsRead(n, events)'
    BY <2>2, GrownKeeps DEF Base
  <2> QED BY <1>1, <2>1, <2>3
<1>2. CASE cache'[p].len = 0 /\ cache'[p].events = <<>>
  <2>1. Typed'
    BY DEF Base
  <2>2. IsRead(0, <<>>)'
    BY <2>1, NothingRead, PTL
  <2> QED BY <1>2, <2>2
<1> QED BY <1>1, <1>2 DEF CacheQuiet

\* The store of p takes this in.
LEMMA EntriesHave ==
  ASSUME Base, Base', file' = file, Entries, NEW p \in Process, NEW entry, Has(p, entry),
         IsRead(entry.len, entry.events)
  PROVE  Entries'
<1> SUFFICES ASSUME NEW q \in Process
             PROVE  IsRead(cache'[q].len, cache'[q].events)
  BY DEF Entries, IsRead, Clean
<1>1. CASE q = p
  BY <1>1 DEF Has
<1>2. CASE q # p
  BY <1>2 DEF Has, Entries
<1> QED BY <1>1, <1>2

LEMMA AppendRemembersEntries ==
  ASSUME Base, Base', Appends, Entries, NEW c \in Call, AppendRemembers(c)
  PROVE  Entries'
<1>1. on[c] \in Process /\ at[c] = "remembers"
  BY AppendRemembersBase DEF AppendRemembers
<1> DEFINE old == cache[on[c]]
           follows == old.len + Len(Bytes(c)) = local[c].len
<1>2. PICK entry \in Entry :
        /\ Has(on[c], entry)
        /\ follows => entry.len = local[c].len /\ entry.events = Append(old.events, c)
        /\ ~follows => entry.len = old.len /\ entry.events = old.events
  BY <1>1, AppendRemembersDoes DEF Base
<1>3. file' = file
  BY <1>1, AppendRemembersDoes DEF Base, files
<1>4. CASE follows
  <2>1. PICK n \in Nat, m \in Nat : n = old.len /\ m = local[c].len
    BY <1>1, Numbers DEF Base
  <2>2. n <= m /\ m <= Len(file) /\ n + Len(Bytes(c)) = m /\ Len(Bytes(c)) \in {3, 4}
    BY <1>1, <1>4, <2>1, CellsOf DEF Base, Typed, ReachOf
  <2>3. \A i \in 1..Len(Bytes(c)) : file[n + i] = Bytes(c)[i]
    <3>1. \A i \in 1..Len(Bytes(c)) : file[m - Len(Bytes(c)) + i] = Bytes(c)[i]
      BY <1>1, <2>1 DEF Appends, AppendAt, LineEnds
    <3>2. m - Len(Bytes(c)) = n
      BY <2>2
    <3> QED BY <3>1, <3>2
  <2>4. IsRead(n, old.events) /\ old.events \in Seq(Event)
    BY <1>1, <2>1, Numbers, EntryIs DEF Entries, Base
  <2>5. Clean(m)
    <3>1. m = n + Len(Bytes(c)) /\ Len(Bytes(c)) \in 1..Len(Bytes(c))
      BY <2>2
    <3> QED BY <2>3, <3>1, CellsOf DEF Clean, Base, Typed
  <2> DEFINE z == SubSeq(file, n + 1, m)
  <2>6. file \in Text /\ Len(file) \in Nat
    BY DEF Base, Typed, FilesTyped, Text
  <2>7. z \in Text /\ Len(z) = m - n /\ \A i \in 1..(m - n) : z[i] = file[n + i]
    BY <2>2, <2>6, PieceIs
  <2> HIDE DEF z
  <2>8. z = Bytes(c)
    <3>1. Bytes(c) \in Text
      BY BytesIs DEF Base, Typed
    <3>2. Len(z) = Len(Bytes(c)) /\ \A i \in 1..Len(z) : z[i] = Bytes(c)[i]
      <4>1. PICK size \in Nat : size = Len(Bytes(c)) /\ m - n = size
        BY <2>2
      <4>2. \A i \in 1..size : z[i] = Bytes(c)[i]
        BY <2>3, <2>7, <4>1
      <4> QED BY <2>7, <4>1, <4>2
    <3> QED BY <2>7, <3>1, <3>2, TextEqual
  <2>9. Events(z, 0) = <<c>>
    <3>1. c \in Event
      BY DEF Event
    <3>2. Bytes(c) = Line(c) \/ Bytes(c) = <<NL>> \o Line(c)
      BY DEF Bytes
    <3> QED BY <2>8, <3>1, <3>2, EventsOfLine, Zenon
  <2>10. Events(SubSeq(file, 1, m), 0) = Events(SubSeq(file, 1, n), 0) \o Events(z, 0)
    <3>1. n = 0 \/ file[n] = NL
      BY <2>4 DEF IsRead, Clean
    <3> QED BY <2>2, <2>6, <3>1, EventsSplit DEF z
  <2>11. Append(old.events, c) = old.events \o <<c>>
    <3>1. c \in Event
      BY DEF Event
    <3> HIDE DEF old
    <3> QED BY <2>4, <3>1
  <2>12. entry.events = Events(SubSeq(file, 1, m), 0)
    <3>1. old.events = Events(SubSeq(file, 1, n), 0)
      BY <2>4, Zenon DEF IsRead
    <3>2. entry.events = Append(old.events, c)
      BY <1>2, <1>4
    <3> HIDE DEF old
    <3> QED BY <2>9, <2>10, <2>11, <3>1, <3>2, Zenon
  <2>13. entry.len = m
    BY <1>2, <1>4, <2>1
  <2>14. IsRead(entry.len, entry.events)
    BY <2>2, <2>5, <2>12, <2>13, Zenon DEF IsRead
  <2> QED BY <1>1, <1>2, <1>3, <2>14, EntriesHave
<1>5. CASE ~follows
  <2>1. IsRead(entry.len, entry.events)
    BY <1>1, <1>2, <1>5 DEF Entries
  <2> QED BY <1>1, <1>2, <1>3, <2>1, EntriesHave
<1> QED BY <1>4, <1>5

\* An entry that is given up is as good as one that is kept.
LEMMA KnownIsRead ==
  ASSUME Base, Entries, NEW p \in Process, NEW n \in Nat
  PROVE  IsRead(Known(p, n).len, Known(p, n).events)
BY KnownIs, NothingRead DEF Base, Entries

(***************************************************************************)
(* Reads                                                                   *)
(***************************************************************************)
\* The first n cells have every line whose append had returned before the read began.
Covers(c, n) == \A d \in before[c] \ glued : does[d] = "append" => Written(d, n)

\* A read has returned the events of some first part of the file.
Whole(c) == \E n \in 0..Len(file) : local[c].got = Events(SubSeq(file, 1, n), 0) /\ Covers(c, n)

ReadAt(c) ==
  /\ at[c] \in {"takes", "holds"} => Covers(c, local[c].len)
  /\ at[c] \in {"reads", "merges"} => Clean(local[c].len)
  /\ at[c] = "merges" => Covers(c, local[c].upto)
  /\ does[c] = "read" /\ at[c] = "done" => Whole(c)

Reads == \A c \in Call : ReadAt(c)

\* A call that reads nothing.
BesideRead(c) ==
  /\ at[c] \notin {"takes", "holds", "reads", "merges"}
  /\ does[c] = "read" => at[c] # "done"

ReadsQuiet == \A c \in Call : Same(c) \/ BesideRead(c)'

\* Nothing of what a read relies on is taken back.
LEMMA CoversStays ==
  ASSUME Base, Base', Grown, PastKept, glued \subseteq glued', NEW c \in Call,
         before'[c] = before[c], NEW n \in Nat, n <= Len(file), Covers(c, n)
  PROVE  Covers(c, n)'
<1> SUFFICES ASSUME NEW d \in before'[c] \ glued', does'[d] = "append"
             PROVE  Written(d, n)'
  BY DEF Covers
<1>1. d \in Call /\ d \in before[c] \ glued /\ at[d] = "done"
  BY DEF Base, Typed, CallsTyped, KindOf
<1>2. does[d] = "append"
  BY <1>1 DEF PastKept
<1>3. Written(d, n)
  BY <1>1, <1>2 DEF Covers
<1> QED BY <1>3, GrownKeeps DEF Base

\* The whole file has all.
LEMMA FileCovers ==
  ASSUME Base, Appends, NEW c \in Call
  PROVE  Covers(c, Len(file))
<1> SUFFICES ASSUME NEW d \in before[c] \ glued, does[d] = "append"
             PROVE  Written(d, Len(file))
  BY DEF Covers
<1>1. d \in Call /\ at[d] = "done"
  BY DEF Base, Typed, CallsTyped, KindOf
<1> QED BY <1>1 DEF Appends, AppendAt

LEMMA ReadAtStays ==
  ASSUME Base, Base', Grown, PastKept, glued \subseteq glued', NEW c \in Call, Same(c), ReadAt(c)
  PROVE  ReadAt(c)'
<1>1. /\ at'[c] = at[c] /\ does'[c] = does[c] /\ local'[c] = local[c] /\ before'[c] = before[c]
  BY DEF Same
<1>2. PICK len \in Nat, upto \in Nat, size \in Nat :
        len = local[c].len /\ upto = local[c].upto /\ size = Len(file)
  BY Numbers DEF Base
<1>3. size <= Len(file')
  BY <1>2 DEF Grown
<1>4. at[c] \in {"takes", "holds"} => Covers(c, len)'
  BY <1>1, <1>2, CoversStays DEF ReadAt, Base, ReachOf
<1>5. at[c] \in {"reads", "merges"} => Clean(len)'
  <2>1. SUFFICES ASSUME at[c] \in {"reads", "merges"}
                 PROVE  Clean(len)'
    OBVIOUS
  <2>2. len <= Len(file) /\ Clean(len)
    BY <1>2, <2>1 DEF ReadAt, Base, ReachOf
  <2> QED BY <2>2, GrownKeeps DEF Base
<1>6. at[c] = "merges" => Covers(c, upto)'
  BY <1>1, <1>2, CoversStays DEF ReadAt, Base, ReachOf
<1>7. does[c] = "read" /\ at[c] = "done" => Whole(c)'
  <2>1. SUFFICES ASSUME Whole(c)
                 PROVE  Whole(c)'
    BY DEF ReadAt
  <2>2. PICK n \in 0..Len(file) : local[c].got = Events(SubSeq(file, 1, n), 0) /\ Covers(c, n)
    BY <2>1 DEF Whole
  <2>3. n \in Nat /\ n <= Len(file) /\ n \in 0..Len(file')
    BY <1>2, <1>3 DEF Grown
  <2>4. SubSeq(file', 1, n) = SubSeq(file, 1, n)
    BY <2>3, GrownKeeps DEF Base
  <2>5. Covers(c, n)'
    BY <1>1, <2>2, <2>3, CoversStays
  <2>6. local'[c].got = Events(SubSeq(file', 1, n), 0)
    BY <1>1, <2>2, <2>4, Zenon
  <2> QED BY <2>3, <2>5, <2>6, Zenon DEF Whole
<1> QED BY <1>1, <1>2, <1>4, <1>5, <1>6, <1>7 DEF ReadAt

LEMMA ReadsStay ==
  ASSUME Base, Base', Grown, PastKept, glued \subseteq glued', Reads, ReadsQuiet
  PROVE  Reads'
<1> SUFFICES ASSUME NEW c \in Call
             PROVE  ReadAt(c)'
  BY DEF Reads
<1>1. CASE Same(c)
  BY <1>1, ReadAtStays DEF Reads
<1>2. CASE BesideRead(c)'
  BY <1>2 DEF BesideRead, ReadAt
<1> QED BY <1>1, <1>2 DEF ReadsQuiet

\* A step of one read.
LEMMA ReadsStayBut ==
  ASSUME Base, Base', file' = file, PastKept, glued' = glued, Reads, NEW c \in Call, Only(c),
         ReadAt(c)'
  PROVE  Reads'
<1>1. Grown
  BY FileSame
<1>2. ASSUME NEW d \in Call \ {c}
      PROVE  ReadAt(d)'
  <2>1. Same(d)
    BY DEF Only, Same
  <2> QED BY <1>1, <2>1, ReadAtStays DEF Reads
<1> QED BY <1>2 DEF Reads

\* With the file and the calls before as they were, a read covers what it did.
LEMMA CoversSame ==
  ASSUME Base, Base', file' = file, PastKept, glued' = glued, NEW c \in Call,
         before'[c] = before[c], NEW n \in Nat, n <= Len(file), Covers(c, n)
  PROVE  Covers(c, n)'
BY FileSame, CoversStays

\* A read that returns what its store now remembers.
LEMMA ReturnsWhole ==
  ASSUME Base, Base', file' = file, PastKept, glued' = glued, NEW c \in Call, NEW from, NEW n \in Nat,
         NEW events, IsRead(n, events), Returns(c, from, events), Covers(c, n)
  PROVE  ReadAt(c)'
<1>1. /\ at'[c] = "done" /\ local'[c].got = events /\ before'[c] = before[c]
      /\ Len(file) \in Nat
  BY Numbers DEF Returns, Moves, Base
<1>2. n \in 0..Len(file) /\ events = Events(SubSeq(file, 1, n), 0)
  <2>1. n <= Len(file) /\ events = Events(SubSeq(file, 1, n), 0)
    BY Zenon DEF IsRead
  <2> QED BY <1>1, <2>1
<1>3. Covers(c, n)'
  <2>1. n <= Len(file)
    BY DEF IsRead
  <2> QED BY <1>1, <2>1, CoversSame
<1>4. Whole(c)'
  BY <1>1, <1>2, <1>3, Zenon DEF Whole
<1> QED BY <1>1, <1>4 DEF ReadAt

\* What every step of a read is taken to know.
Recall == Base /\ Base' /\ PastKept /\ Appends /\ Entries /\ Reads

LEMMA ReadCallsReads ==
  ASSUME Recall, NEW c \in Call, NEW p \in Process, ReadCalls(c, p)
  PROVE  UNCHANGED <<file, writing, glued>> /\ Only(c) /\ Aside(c)' /\ at[c] # "writing"
         /\ Entries' /\ Reads'
<1> USE DEF Recall
<1>1. Begins(c, p, "read", "stats") /\ UNCHANGED <<file, writing, glued, cache>>
  BY ReadCallsDoes DEF Base, files, stores
<1>2. /\ Only(c) /\ at[c] = "unused" /\ at'[c] = "stats" /\ does'[c] = "read"
  BY <1>1 DEF Begins
<1>3. Entries'
  BY <1>1, FileSame, EntriesStay DEF CacheQuiet
<1>4. Reads'
  BY <1>1, <1>2, ReadsStayBut DEF ReadAt
<1> QED BY <1>1, <1>2, <1>3, <1>4 DEF Aside

LEMMA ReadStatsReads ==
  ASSUME Recall, NEW c \in Call, ReadStats(c)
  PROVE  UNCHANGED <<file, writing, glued>> /\ Only(c) /\ Aside(c)' /\ at[c] # "writing"
         /\ Entries' /\ Reads'
<1> USE DEF Recall
<1>1. /\ Moves(c, "stats", "takes") \/ Moves(c, "last", "holds")
      /\ local'[c] = [local[c] EXCEPT !.len = Len(file)]
      /\ UNCHANGED <<file, writing, glued, cache>>
  BY ReadStatsDoes DEF Base, files, stores, past
<1>2. /\ Only(c) /\ at[c] \in {"stats", "last"} /\ at'[c] \in {"takes", "holds"}
      /\ does'[c] = does[c] /\ before'[c] = before[c]
  BY <1>1 DEF Moves
<1>3. Entries'
  BY <1>1, FileSame, EntriesStay DEF CacheQuiet
<1>4. local'[c].len = Len(file)
  BY <1>1, Numbers, VariablesIs DEF Base
<1>5. PICK n \in Nat : n = Len(file)
  BY Numbers DEF Base
<1>6. Covers(c, n)
  BY <1>5, FileCovers
<1>7. Covers(c, n)'
  BY <1>1, <1>2, <1>5, <1>6, CoversSame
<1>8. ReadAt(c)'
  BY <1>2, <1>4, <1>5, <1>7 DEF ReadAt
<1>9. Reads'
  BY <1>1, <1>2, <1>8, ReadsStayBut
<1>10. does[c] = "read"
  BY <1>2 DEF Base, KindOf, Reading
<1> QED BY <1>1, <1>2, <1>3, <1>9, <1>10 DEF Aside

LEMMA ReadTakesReads ==
  ASSUME Recall, NEW c \in Call, ReadTakes(c)
  PROVE  UNCHANGED <<file, writing, glued>> /\ Only(c) /\ Aside(c)' /\ at[c] # "writing"
         /\ Entries' /\ Reads'
<1> USE DEF Recall
<1>1. on[c] \in Process /\ local[c].len \in Nat /\ at[c] = "takes"
  BY ReadTakesBase, Numbers DEF Base, ReadTakes
<1> DEFINE entry == Known(on[c], local[c].len)
<1>2. /\ Has(on[c], entry)
      /\ \/ entry.len = local[c].len /\ Returns(c, "takes", entry.events)
         \/ Moves(c, "takes", "reads") /\ local'[c] = [local[c] EXCEPT !.len = entry.len]
      /\ UNCHANGED <<file, writing, glued>>
  BY <1>1, ReadTakesDoes DEF Base, files, past
<1>3. /\ entry \in Entry /\ entry.len \in Nat /\ IsRead(entry.len, entry.events)
      /\ Covers(c, local[c].len)
  BY <1>1, KnownIs, KnownIsRead, EntryIs DEF Base, Reads, ReadAt
<1> HIDE DEF entry
<1>4. Only(c) /\ Aside(c)'
  <2>1. does[c] = "read"
    BY <1>1 DEF Base, KindOf, Reading
  <2> QED BY <1>2, <2>1 DEF Returns, Moves, Aside
<1>5. Entries'
  BY <1>1, <1>2, <1>3, EntriesHave
<1>6. ReadAt(c)'
  <2>1. CASE entry.len = local[c].len /\ Returns(c, "takes", entry.events)
    BY <1>2, <1>3, <2>1, ReturnsWhole
  <2>2. CASE Moves(c, "takes", "reads") /\ local'[c] = [local[c] EXCEPT !.len = entry.len]
    <3>1. at'[c] = "reads" /\ local'[c].len = entry.len
      BY <2>2, Numbers, VariablesIs DEF Moves, Base
    <3>2. Clean(entry.len)
      BY <1>3 DEF IsRead
    <3>3. Clean(local[c].len)'
      BY <1>2, <3>1, <3>2 DEF Clean
    <3> QED BY <3>1, <3>3 DEF ReadAt
  <2> QED BY <1>2, <2>1, <2>2
<1>7. Reads'
  BY <1>2, <1>4, <1>6, ReadsStayBut
<1> QED BY <1>1, <1>2, <1>4, <1>5, <1>7

LEMMA ReadReadsReads ==
  ASSUME Recall, NEW c \in Call, ReadReads(c)
  PROVE  UNCHANGED <<file, writing, glued>> /\ Only(c) /\ Aside(c)' /\ at[c] # "writing"
         /\ Entries' /\ Reads'
<1> USE DEF Recall
<1>1. /\ Moves(c, "reads", "merges") /\ local'[c] = [local[c] EXCEPT !.upto = Len(file)]
      /\ UNCHANGED <<file, writing, glued, cache>>
  BY ReadReadsDoes DEF Base, files, stores, past
<1>2. /\ Only(c) /\ at[c] = "reads" /\ at'[c] = "merges"
      /\ does'[c] = does[c] /\ before'[c] = before[c]
  BY <1>1 DEF Moves
<1>3. Entries'
  BY <1>1, FileSame, EntriesStay DEF CacheQuiet
<1>4. local'[c].upto = Len(file) /\ local'[c].len = local[c].len
  BY <1>1, Numbers, VariablesIs DEF Base
<1>5. PICK n \in Nat : n = Len(file)
  BY Numbers DEF Base
<1>6. Covers(c, n)
  BY <1>5, FileCovers
<1>7. Covers(c, n)'
  BY <1>1, <1>2, <1>5, <1>6, CoversSame
<1>8. Clean(local[c].len)'
  BY <1>1, <1>2, <1>4 DEF Reads, ReadAt, Clean
<1>9. ReadAt(c)'
  BY <1>2, <1>4, <1>5, <1>7, <1>8 DEF ReadAt
<1>10. Reads'
  BY <1>1, <1>2, <1>9, ReadsStayBut
<1> QED BY <1>1, <1>2, <1>3, <1>10 DEF Aside

LEMMA ReadMergesReads ==
  ASSUME Recall, NEW c \in Call, ReadMerges(c)
  PROVE  UNCHANGED <<file, writing, glued>> /\ Only(c) /\ Aside(c)' /\ at[c] # "writing"
         /\ Entries' /\ Reads'
<1> USE DEF Recall
<1>1. /\ on[c] \in Process /\ local[c].len <= local[c].upto /\ local[c].upto <= Len(file)
      /\ at[c] = "merges"
  BY ReadMergesBase DEF Base, ReadMerges
<1>a. PICK x \in Entry, from \in Nat, upto \in Nat :
        x = cache[on[c]] /\ from = local[c].len /\ upto = local[c].upto
  BY <1>1, Numbers DEF Base
<1>b. PICK bytes : bytes = SubSeq(file, from + 1, upto)
  OBVIOUS
<1>2. /\ x = cache[on[c]] /\ from = local[c].len /\ upto = local[c].upto
      /\ bytes = SubSeq(file, from + 1, upto)
  BY <1>a, <1>b
<1>3. from <= upto /\ upto <= Len(file)
  BY <1>1, <1>2
<1>4. bytes \in Text /\ Len(bytes) = upto - from /\ \A i \in 1..(upto - from) : bytes[i] = file[from + i]
  <2>1. file \in Text
    BY DEF Base, Typed, FilesTyped
  <2> QED BY <1>2, <1>3, <2>1, PieceIs
<1> DEFINE longer == Longer(x, from, bytes, x.len - from)
           n == from + Cut(bytes)
<1>5. /\ \/ /\ x.len > n /\ Returns(c, "merges", x.events)
            /\ UNCHANGED cache
         \/ /\ x.len <= n /\ x.len >= from
            /\ Has(on[c], longer) /\ Returns(c, "merges", longer.events)
         \/ /\ Moves(c, "merges", "last") \/ Moves(c, "merges", "stats")
            /\ UNCHANGED cache
      /\ UNCHANGED <<file, writing, glued>>
  BY <1>1, <1>2, ReadMergesDoes DEF Base, files, past
<1>6. /\ IsRead(x.len, x.events) /\ x.len \in Nat /\ Clean(from) /\ Covers(c, upto)
      /\ does[c] = "read"
  BY <1>1, <1>2, EntryIs DEF Entries, Reads, ReadAt, Base, KindOf, Reading
<1>7. Only(c) /\ Aside(c)'
  BY <1>5, <1>6 DEF Returns, Moves, Aside
<1>8. n \in Nat /\ Covers(c, n)
  <2>1. n \in Nat /\ \A d : Written(d, upto) => Written(d, n)
    BY <1>3, <1>4, LinesBefore DEF Base
  <2> HIDE DEF n
  <2> QED BY <1>6, <2>1 DEF Covers
<1>9. x.len <= n /\ x.len >= from => longer.len = n /\ IsRead(n, longer.events)
  BY <1>3, <1>4, <1>6, LongerReads DEF Base
<1> HIDE DEF n, longer
<1>10. CASE x.len > n /\ Returns(c, "merges", x.events) /\ UNCHANGED cache
  <2>1. Entries'
    BY <1>5, <1>10, FileSame, EntriesStay DEF CacheQuiet
  <2>2. Covers(c, x.len)
    BY <1>6, <1>8, <1>10, WrittenMore DEF Covers
  <2>3. ReadAt(c)'
    BY <1>5, <1>6, <1>10, <2>2, ReturnsWhole
  <2>4. Reads'
    BY <1>5, <1>7, <2>3, ReadsStayBut
  <2> QED BY <1>1, <1>5, <1>7, <2>1, <2>4
<1>11. CASE /\ x.len <= n /\ x.len >= from
            /\ Has(on[c], longer) /\ Returns(c, "merges", longer.events)
  <2>1. longer.len = n /\ IsRead(n, longer.events)
    BY <1>9, <1>11
  <2>2. Entries'
    BY <1>1, <1>5, <1>11, <2>1, EntriesHave
  <2>3. ReadAt(c)'
    BY <1>5, <1>8, <1>11, <2>1, ReturnsWhole
  <2>4. Reads'
    BY <1>5, <1>7, <2>3, ReadsStayBut
  <2> QED BY <1>1, <1>5, <1>7, <2>2, <2>4
<1>12. CASE (Moves(c, "merges", "last") \/ Moves(c, "merges", "stats")) /\ UNCHANGED cache
  <2>1. Entries'
    BY <1>5, <1>12, FileSame, EntriesStay DEF CacheQuiet
  <2>2. ReadAt(c)'
    BY <1>12 DEF Moves, ReadAt
  <2>3. Reads'
    BY <1>5, <1>7, <2>2, ReadsStayBut
  <2> QED BY <1>1, <1>5, <1>7, <2>1, <2>3
<1> QED BY <1>5, <1>10, <1>11, <1>12

LEMMA ReadHoldsReads ==
  ASSUME Recall, NEW c \in Call, ReadHolds(c)
  PROVE  UNCHANGED <<file, writing, glued>> /\ Only(c) /\ Aside(c)' /\ at[c] # "writing"
         /\ Entries' /\ Reads'
<1> USE DEF Recall
<1>1. /\ on[c] \in Process /\ local[c].len <= Len(file) /\ at[c] = "holds"
      /\ local[c].len \in Nat /\ Len(file) \in Nat
  BY ReadHoldsBase, Numbers DEF Base, ReadHolds
<1>a. PICK x \in Entry, from \in Nat, upto \in Nat :
        x = Known(on[c], local[c].len) /\ from = x.len /\ upto = Len(file)
  <2>1. Known(on[c], local[c].len) \in Entry
    BY <1>1, KnownIs DEF Base
  <2>2. Known(on[c], local[c].len).len \in Nat
    BY <2>1, EntryIs
  <2> QED BY <1>1, <2>1, <2>2
<1>b. PICK bytes : bytes = SubSeq(file, from + 1, upto)
  OBVIOUS
<1>2. /\ x = Known(on[c], local[c].len) /\ from = x.len /\ upto = Len(file)
      /\ bytes = SubSeq(file, from + 1, upto)
  BY <1>a, <1>b
<1>3. /\ from <= upto /\ upto <= Len(file) /\ from <= x.len /\ IsRead(x.len, x.events)
      /\ Clean(from) /\ Covers(c, local[c].len) /\ does[c] = "read"
  <2>1. from <= local[c].len
    BY <1>1, <1>2, KnownIs DEF Base
  <2>2. IsRead(x.len, x.events)
    BY <1>1, <1>2, KnownIsRead
  <2>3. Clean(from)
    BY <1>2, <2>2 DEF IsRead
  <2>4. Covers(c, local[c].len) /\ does[c] = "read"
    BY <1>1 DEF Reads, ReadAt, Base, KindOf, Reading
  <2> QED BY <1>1, <1>2, <2>1, <2>2, <2>3, <2>4
<1>4. bytes \in Text /\ Len(bytes) = upto - from /\ \A i \in 1..(upto - from) : bytes[i] = file[from + i]
  <2>1. file \in Text
    BY DEF Base, Typed, FilesTyped
  <2>2. from <= upto /\ upto <= Len(file)
    BY <1>3
  <2>3. /\ SubSeq(file, from + 1, upto) \in Text
        /\ Len(SubSeq(file, from + 1, upto)) = upto - from
        /\ \A i \in 1..(upto - from) : SubSeq(file, from + 1, upto)[i] = file[from + i]
    BY <2>1, <2>2, PieceIs
  <2> QED BY <1>b, <2>3, Zenon
<1> DEFINE longer == Longer(x, from, bytes, 0)
           n == from + Cut(bytes)
<1>5. /\ Has(on[c], longer) /\ Returns(c, "holds", longer.events)
      /\ UNCHANGED <<file, writing, glued>>
  BY <1>1, <1>2, ReadHoldsDoes DEF Base, files, past
<1>6. Only(c) /\ Aside(c)'
  BY <1>3, <1>5 DEF Returns, Moves, Aside
<1>7. n \in Nat /\ Covers(c, n)
  <2>1. n \in Nat /\ \A d : Written(d, upto) => Written(d, n)
    BY <1>3, <1>4, LinesBefore DEF Base
  <2>2. \A d : Written(d, local[c].len) => Written(d, upto)
    BY <1>1, <1>2, WrittenMore
  <2> HIDE DEF n
  <2> QED BY <1>3, <2>1, <2>2 DEF Covers
<1>8. longer.len = n /\ IsRead(n, longer.events)
  <2>1. x.len - from = 0
    BY <1>2
  <2>2. x.len <= n
    BY <1>2, <1>3, <1>4, CutIs
  <2>3. /\ Longer(x, from, bytes, x.len - from).len = n
        /\ IsRead(n, Longer(x, from, bytes, x.len - from).events)
    BY <1>3, <1>4, <2>2, LongerReads DEF Base
  <2> QED BY <2>1, <2>3
<1> HIDE DEF n, longer
<1>9. Entries'
  BY <1>1, <1>5, <1>8, EntriesHave
<1>10. ReadAt(c)'
  BY <1>5, <1>7, <1>8, ReturnsWhole
<1>11. Reads'
  BY <1>5, <1>6, <1>10, ReadsStayBut
<1> QED BY <1>1, <1>5, <1>6, <1>9, <1>11

(***************************************************************************)
(* Every step                                                              *)
(***************************************************************************)
\* A step that is about meta.json or the clock, or throws away what a store remembers.
Elsewhere ==
  /\ UNCHANGED <<file, writing, glued>>
  /\ \A c \in Call : Same(c) \/ (at[c] # "writing" /\ Aside(c)' /\ BesideRead(c)')
  /\ CacheQuiet

LEMMA SameCache ==
  ASSUME cache' = cache \/ \E p \in Process : Has(p, Unread)
  PROVE  CacheQuiet
BY DEF CacheQuiet, Has, Unread

LEMMA ListStepElsewhere ==
  ASSUME Base, NEW c \in Call, ListStep(c)
  PROVE  Elsewhere
<1>1. ASSUME NEW p \in Process, ListScans(c, p)
      PROVE  Elsewhere
  <2>1. Begins(c, p, "list", "scans") /\ UNCHANGED <<file, writing, cache, glued>>
    BY <1>1, ListScansDoes DEF Base, files, stores
  <2>2. \A d \in Call : Same(d) \/ (at[d] # "writing" /\ Aside(d)' /\ BesideRead(d)')
    BY <2>1 DEF Begins, Only, Same, Aside, BesideRead
  <2> QED BY <2>1, <2>2, SameCache DEF Elsewhere
<1>2. CASE ListLooks(c) \/ ListFetches(c) \/ ListKeeps(c) \/ ListOverlays(c)
  <2>1. \E from \in Listing, to \in Listing \cup {"done"} :
          Moves(c, from, to) /\ UNCHANGED <<files, cache, past>>
    <3>1. CASE ListLooks(c)
      BY <3>1, ListLooksBase, ListLooksDoes DEF Base, Listing, stores
    <3>2. CASE ListFetches(c)
      BY <3>2, ListFetchesDoes DEF Base, Listing, stores
    <3>3. CASE ListKeeps(c)
      BY <3>3, ListKeepsBase, ListKeepsDoes DEF Base, Listing, stores
    <3>4. CASE ListOverlays(c)
      BY <3>4, ListOverlaysBase, ListOverlaysDoes DEF Base, Listing, stores
    <3> QED BY <1>2, <3>1, <3>2, <3>3, <3>4
  <2>2. PICK from \in Listing, to \in Listing \cup {"done"} :
          Moves(c, from, to) /\ UNCHANGED <<files, cache, past>>
    BY <2>1
  <2>3. does[c] = "list"
    BY <2>2 DEF Moves, KindOf, Base
  <2>4. \A d \in Call : Same(d) \/ (at[d] # "writing" /\ Aside(d)' /\ BesideRead(d)')
    BY <2>2, <2>3 DEF Moves, Only, Same, Aside, BesideRead, Listing
  <2> QED BY <2>2, <2>4, SameCache DEF Elsewhere, files, past
<1> QED BY <1>1, <1>2 DEF ListStep

LEMMA EditStepElsewhere ==
  ASSUME Base, NEW c \in Call,
         \/ EditSaves(c) \/ EditSettles(c)
         \/ \E p \in Process, touch \in BOOLEAN : EditReads(c, p, touch)
  PROVE  Elsewhere
<1>1. ASSUME NEW p \in Process, NEW touch \in BOOLEAN, EditReads(c, p, touch)
      PROVE  Elsewhere
  <2>1. Begins(c, p, "edit", "saves") /\ UNCHANGED <<file, writing, cache, glued>>
    BY <1>1, EditReadsDoes DEF Base, files
  <2>2. \A d \in Call : Same(d) \/ (at[d] # "writing" /\ Aside(d)' /\ BesideRead(d)')
    BY <2>1 DEF Begins, Only, Same, Aside, BesideRead
  <2> QED BY <2>1, <2>2, SameCache DEF Elsewhere
<1>2. CASE EditSaves(c)
  <2>1. Moves(c, "saves", "settles") /\ UNCHANGED <<file, writing, cache, glued>>
    BY <1>2, EditSavesBase, EditSavesDoes DEF Base, stores, past
  <2>2. does[c] = "edit"
    BY <2>1 DEF Moves, KindOf, Base, Editing
  <2>3. \A d \in Call : Same(d) \/ (at[d] # "writing" /\ Aside(d)' /\ BesideRead(d)')
    BY <2>1, <2>2 DEF Moves, Only, Same, Aside, BesideRead
  <2> QED BY <2>1, <2>3, SameCache DEF Elsewhere
<1>3. CASE EditSettles(c)
  <2>1. on[c] \in Process /\ local[c].meta \in Meta
    BY <1>3, EditSettlesBase
  <2>2. PICK entry \in Entry :
          /\ Moves(c, "settles", "done")
          /\ Has(on[c], entry) /\ entry.len = cache[on[c]].len /\ entry.events = cache[on[c]].events
          /\ UNCHANGED <<file, writing, glued>>
    BY <1>3, <2>1, EditSettlesDoes DEF Base, files, past
  <2>3. does[c] = "edit"
    BY <2>2 DEF Moves, KindOf, Base, Editing
  <2>4. \A d \in Call : Same(d) \/ (at[d] # "writing" /\ Aside(d)' /\ BesideRead(d)')
    BY <2>2, <2>3 DEF Moves, Only, Same, Aside, BesideRead
  <2>5. CacheQuiet
    BY <2>1, <2>2 DEF CacheQuiet, Has
  <2> QED BY <2>2, <2>4, <2>5 DEF Elsewhere
<1> QED BY <1>1, <1>2, <1>3

LEMMA WorldElsewhere ==
  ASSUME Base, (\E p \in Process : Evict(p)) \/ Tick \/ UNCHANGED vars
  PROVE  Elsewhere
<1>1. ASSUME NEW p \in Process, Evict(p)
      PROVE  Elsewhere
  <2>1. Has(p, Unread) /\ UNCHANGED <<file, writing, glued, at, does, on, local, before>>
    BY <1>1, EvictDoes DEF Base, files, past
  <2> QED BY <2>1, SameCache DEF Elsewhere, Same
<1>2. CASE Tick \/ UNCHANGED vars
  <2>1. UNCHANGED <<file, writing, glued, at, does, on, local, before, cache>>
    BY <1>2, TickDoes DEF Base, vars, files, stores, past
  <2> QED BY <2>1, SameCache DEF Elsewhere, Same
<1> QED BY <1>1, <1>2

LEMMA ElsewhereNext ==
  ASSUME Recall, Elsewhere
  PROVE  Appends' /\ Entries' /\ Reads'
<1> USE DEF Recall
<1>1. Grown /\ glued \subseteq glued'
  BY FileSame DEF Elsewhere
<1>2. Appends'
  BY AppendsStay DEF Elsewhere, AppendsQuiet
<1>3. Entries'
  BY <1>1, EntriesStay DEF Elsewhere
<1>4. Reads'
  BY <1>1, ReadsStay DEF Elsewhere, ReadsQuiet
<1> QED BY <1>2, <1>3, <1>4

LEMMA AppendStepNext ==
  ASSUME Recall, NEW c \in Call, AppendStep(c)
  PROVE  Appends' /\ Entries' /\ Reads'
<1> USE DEF Recall
<1> DEFINE Step == /\ Appends' /\ Grown /\ glued \subseteq glued' /\ cache' = cache
                   /\ \A d \in Call : Same(d) \/ BesideRead(d)'
<1>1. ASSUME NEW p \in Process, AppendOpens(c, p)
      PROVE  Step
  <2>1. Begins(c, p, "append", "looks") /\ UNCHANGED <<file, cache, glued>>
    BY <1>1, AppendOpensDoes DEF Base, files, stores
  <2>2. Clean(cache[p].len)
    BY DEF Entries, IsRead
  <2>3. \A d \in Call : Same(d) \/ BesideRead(d)'
    BY <2>1 DEF Begins, Only, Same, BesideRead
  <2> QED BY <1>1, <2>1, <2>2, <2>3, AppendOpensAppends, FileSame
<1>2. ASSUME AppendLooks(c)
      PROVE  Step
  <2>1. Moves(c, "looks", "writes") /\ UNCHANGED <<file, cache, glued>>
    BY <1>2, AppendLooksDoes DEF Base, files, stores, past
  <2>2. \A d \in Call : Same(d) \/ BesideRead(d)'
    BY <2>1 DEF Moves, Only, Same, BesideRead
  <2> QED BY <1>2, <2>1, <2>2, AppendLooksAppends, FileSame
<1>3. ASSUME NEW part \in 1..(Len(Bytes(c)) - 1), WriteStarts(c, part)
      PROVE  Step
  <2>1. Moves(c, "writes", "writing") /\ UNCHANGED <<cache, glued>>
    BY <1>3, WriteStartsDoes DEF Base, stores, past
  <2>2. \A d \in Call : Same(d) \/ BesideRead(d)'
    BY <2>1 DEF Moves, Only, Same, BesideRead
  <2> QED BY <1>3, <2>1, <2>2, WriteStartsAppends
<1>4. ASSUME WriteEnds(c)
      PROVE  Step
  <2>1. local[c].len <= Len(Bytes(c))
    <3>1. Len(Bytes(c)) \in Nat /\ local[c].len \in 1..(Len(Bytes(c)) - 1)
      BY <1>4, BytesIs DEF WriteEnds, ReachOf, Base, Typed
    <3> QED BY <3>1
  <2>2. Moves(c, "writing", "remembers") /\ UNCHANGED <<cache, glued>>
    BY <1>4, <2>1, WriteEndsDoes DEF Base, stores, past
  <2>3. does[c] = "append"
    BY <2>2 DEF Moves, KindOf, Appending, Base
  <2>4. \A d \in Call : Same(d) \/ BesideRead(d)'
    BY <2>2, <2>3 DEF Moves, Only, Same, BesideRead
  <2> QED BY <1>4, <2>2, <2>4, WriteEndsAppends
<1>5. ASSUME WriteFails(c)
      PROVE  Step
  <2>1. Moves(c, "writing", "failed") /\ UNCHANGED <<file, cache>> /\ CutShort
    BY <1>5, WriteFailsDoes DEF Base, stores
  <2>2. \A d \in Call : Same(d) \/ BesideRead(d)'
    BY <2>1 DEF Moves, Only, Same, BesideRead
  <2>3. glued \subseteq glued'
    BY <2>1 DEF CutShort
  <2> QED BY <1>5, <2>1, <2>2, <2>3, WriteFailsAppends, FileSame
<1> HIDE DEF Step
<1>6. Step
  BY <1>1, <1>2, <1>3, <1>4, <1>5 DEF AppendStep
<1>7. Entries'
  BY <1>6, SameCache, EntriesStay DEF Step
<1>8. Reads'
  BY <1>6, ReadsStay DEF Step, ReadsQuiet
<1> QED BY <1>6, <1>7, <1>8 DEF Step

LEMMA AppendRemembersNext ==
  ASSUME Recall, NEW c \in Call, AppendRemembers(c)
  PROVE  Appends' /\ Entries' /\ Reads'
<1> USE DEF Recall
<1>1. Moves(c, "remembers", "done") /\ UNCHANGED <<file, glued>>
  BY AppendRemembersBase, AppendRemembersDoes DEF Base, files
<1>2. does[c] = "append"
  BY <1>1 DEF Moves, KindOf, Appending, Base
<1>3. ReadsQuiet
  BY <1>1, <1>2 DEF ReadsQuiet, Moves, Only, Same, BesideRead
<1> QED BY <1>1, <1>3, FileSame, ReadsStay, AppendRemembersAppends, AppendRemembersEntries

LEMMA ReadStepNext ==
  ASSUME Recall, NEW c \in Call, ReadStep(c)
  PROVE  Appends' /\ Entries' /\ Reads'
<1>1. /\ UNCHANGED <<file, writing, glued>> /\ Only(c) /\ Aside(c)' /\ at[c] # "writing"
      /\ Entries' /\ Reads'
  BY ReadCallsReads, ReadStatsReads, ReadTakesReads, ReadReadsReads, ReadMergesReads,
     ReadHoldsReads DEF ReadStep
<1>2. AppendsQuiet
  BY <1>1 DEF AppendsQuiet, Only, Same
<1> QED BY <1>1, <1>2, AppendsStay DEF Recall

LEMMA CrashNext ==
  ASSUME Recall, NEW p \in Process, Crash(p)
  PROVE  Appends' /\ Entries' /\ Reads'
<1> USE DEF Recall
<1>1. /\ Has(p, Unread) /\ file' = file /\ UNCHANGED <<does, on, before>>
      /\ \A c \in Call :
           /\ c \in LostIn(p) => at'[c] = "dead" /\ local'[c] = Blank
           /\ c \notin LostIn(p) => at'[c] = at[c] /\ local'[c] = local[c]
  BY CrashDoes DEF Base
<1>2. glued \subseteq glued'
  <2>1. CutShort \/ glued' = glued
    BY CrashDoes DEF Base
  <2> QED BY <2>1 DEF CutShort
<1>3. ReadsQuiet
  BY <1>1 DEF ReadsQuiet, Same, BesideRead
<1>4. Grown
  BY <1>1, FileSame
<1> QED BY <1>1, <1>2, <1>3, <1>4, CrashAppends, SameCache, EntriesStay, ReadsStay

LEMMA FilesNext ==
  ASSUME Base, Appends, Entries, Reads, [Next]_vars
  PROVE  Appends' /\ Entries' /\ Reads'
<1>1. Recall
  BY BaseNext, StepIs DEF Recall
<1>2. \/ \E c \in Call : AppendStep(c) \/ ReadStep(c) \/ ListStep(c) \/ AppendRemembers(c)
      \/ \E c \in Call : \/ EditSaves(c) \/ EditSettles(c)
                         \/ \E p \in Process, touch \in BOOLEAN : EditReads(c, p, touch)
      \/ \E p \in Process : Crash(p)
      \/ (\E p \in Process : Evict(p)) \/ Tick \/ UNCHANGED vars
  BY Zenon DEF Next, AppendStep, ReadStep, ListStep
<1>3. ASSUME Elsewhere
      PROVE  Appends' /\ Entries' /\ Reads'
  BY <1>1, <1>3, ElsewhereNext
<1> QED BY <1>1, <1>2, <1>3, AppendStepNext, AppendRemembersNext, ReadStepNext, ListStepElsewhere,
           EditStepElsewhere, WorldElsewhere, CrashNext, Zenon

(***************************************************************************)
(* What holds of the stores                                                *)
(***************************************************************************)
\* All of it but what two processes that change meta.json at once can undo.
Sound ==
  Base /\ Locked /\ EditsInv /\ TimesInv /\ VersionsInv /\ Appends /\ Entries /\ Reads

LEMMA FilesInit ==
  Init => Appends /\ Entries /\ Reads
<1> SUFFICES ASSUME Init
             PROVE  Appends /\ Entries /\ Reads
  OBVIOUS
<1>1. Base
  BY BaseInit
<1>2. ASSUME NEW c \in Call, NEW i \in 1..Len(file)
      PROVE  file[i] # Mark(c)
  <2>1. None \in Event /\ \A x, n : NL # <<x, n>>
    BY DEF Event, NL
  <2>2. /\ Len(Line(None)) = 3 /\ Line(None)[1] = <<None, 1>> /\ Line(None)[2] = <<None, 2>>
        /\ Line(None)[3] = NL
    BY <2>1, LineIs
  <2>3. file = Line(None)
    BY DEF Init
  <2>4. /\ Len(file) = 3 /\ file[1] = <<None, 1>> /\ file[2] = <<None, 2>>
        /\ file[3] = NL
    BY <2>2, <2>3, Zenon
  <2>5. i \in {1, 2, 3}
    BY <2>4
  <2>6. c # None
    BY NoneAssumption
  <2> QED BY <2>1, <2>4, <2>5, <2>6 DEF Mark
<1>3. Marks /\ \A c \in Call : Unmarked(c)
  BY <1>2 DEF Marks, Unmarked
<1>4. writing = None /\ \A c \in Call : at[c] = "unused"
  BY DEF Init
<1>5. Appends
  BY <1>3, <1>4 DEF Appends, Writer, AppendAt
<1>6. Reads
  BY <1>4 DEF Reads, ReadAt
<1>7. Entries
  <2>1. \A p \in Process : cache[p].len = 0 /\ cache[p].events = <<>>
    BY DEF Init, Unread
  <2> QED BY <1>1, <2>1, NothingRead DEF Entries, Base
<1> QED BY <1>5, <1>6, <1>7

LEMMA SoundInit ==
  Init => Sound /\ ActivityInv
<1> SUFFICES ASSUME Init
             PROVE  Sound /\ ActivityInv
  OBVIOUS
<1>1. Base /\ Appends /\ Entries /\ Reads
  BY BaseInit, FilesInit
<1>2. /\ \A c \in Call : at[c] = "unused" /\ does[c] = None
      /\ disk.updated = 1 /\ now = 1
      /\ \A p \in Process : cache[p].pending = 0 /\ grew[p] = 0 /\ index[p] = None
  BY DEF Init, Unread
<1>3. Locked /\ EditsInv /\ TimesInv
  BY <1>2 DEF Locked, EditsInv, Kept, TimesInv, Editing
<1>4. VersionsInv
  BY <1>2 DEF VersionsInv, ListOf
<1>5. ActivityInv
  BY <1>2 DEF ActivityInv, Covered, Latest
<1> QED BY <1>1, <1>3, <1>4, <1>5 DEF Sound

LEMMA SoundNext ==
  Sound /\ [Next]_vars => Sound'
BY BaseNext, LockedNext, EditsNext, TimesNext, VersionsNext, FilesNext DEF Sound

\* What a store remembers of a session is what its file says, for any number of processes
\* and calls: with appends, reads that overlap them, evictions and lines cut short, no event
\* is taken twice or passed over (with_events, append).
THEOREM CacheIsTrue == Spec => []CacheIsTheFile
<1>1. Sound => CacheIsTheFile
  <2> SUFFICES ASSUME Sound, NEW p \in Process
               PROVE  LET known == SubSeq(file, 1, cache[p].len)
                      IN  Cut(known) = Len(known) /\ cache[p].events = Events(known, 0)
    BY DEF CacheIsTheFile
  <2>1. PICK n \in Nat : n = cache[p].len /\ IsRead(n, cache[p].events)
    BY Numbers DEF Sound, Base, Entries
  <2> DEFINE known == SubSeq(file, 0 + 1, n)
  <2>2. n <= Len(file) /\ Clean(n) /\ file \in Text /\ Len(file) \in Nat
    BY <2>1 DEF IsRead, Sound, Base, Typed, FilesTyped, Text
  <2>3. known \in Text /\ Len(known) = n - 0 /\ \A i \in 1..(n - 0) : known[i] = file[0 + i]
    BY <2>2, PieceIs
  <2>4. known = SubSeq(file, 1, n)
    <3>1. 0 + 1 = 1
      OBVIOUS
    <3> QED BY <3>1, Zenon
  <2> HIDE DEF known
  <2>5. Len(known) = 0 \/ known[Len(known)] = NL
    BY <2>2, <2>3 DEF Clean
  <2>6. Cut(known) = Len(known)
    BY <2>3, <2>5, CutsAtEnd
  <2>7. cache[p].events = Events(known, 0)
    BY <2>1, <2>4, Zenon DEF IsRead
  <2>8. known = SubSeq(file, 1, cache[p].len)
    BY <2>1, <2>4, Zenon
  <2> QED BY <2>6, <2>7, <2>8, Zenon
<1> QED BY <1>1, SoundInit, SoundNext, PTL DEF Spec

\* A read has every event whose append had returned before the read began, whichever
\* process made it, once and in the order of the file, but for an append that another's
\* write was cut short under (with_events, append).
THEOREM ReadsAreTrue == Spec => []ReadsAreWhole
<1>1. Sound => ReadsAreWhole
  <2> SUFFICES ASSUME Sound, NEW c \in Call, does[c] = "read", at[c] = "done"
               PROVE  /\ \E n \in 0..Len(file) : local[c].got = Events(SubSeq(file, 1, n), 0)
                      /\ \A d \in before[c] \ glued : Acknowledged(d) =>
                           Cardinality({i \in DOMAIN local[c].got : local[c].got[i] = d}) = 1
    BY DEF ReadsAreWhole
  <2>1. PICK n \in 0..Len(file) :
          local[c].got = Events(SubSeq(file, 1, n), 0) /\ Covers(c, n)
    BY DEF Sound, Reads, ReadAt, Whole
  <2>2. ASSUME NEW d \in before[c] \ glued, Acknowledged(d)
        PROVE  Cardinality({i \in DOMAIN local[c].got : local[c].got[i] = d}) = 1
    <3>1. d \in Call /\ d \in Event /\ does[d] = "append"
      BY <2>2 DEF Acknowledged, Event, Sound, Base, Typed, CallsTyped
    <3>2. PICK k \in 1..n : EndsEvent(file, k) /\ file[k - 1] = Mark(d)
      BY <2>1, <2>2, <3>1 DEF Covers, Written
    <3> DEFINE b == SubSeq(file, 0 + 1, n)
    <3>3. file \in Text /\ Len(file) \in Nat /\ n \in Nat /\ n <= Len(file) /\ 0 <= n /\ 0 \in Nat
      BY DEF Sound, Base, Typed, FilesTyped, Text
    <3>4. b \in Text /\ Len(b) = n - 0 /\ \A i \in 1..(n - 0) : b[i] = file[0 + i]
      BY <3>3, PieceIs
    <3>5. b = SubSeq(file, 1, n)
      <4>1. 0 + 1 = 1
        OBVIOUS
      <4> QED BY <4>1, Zenon
    <3> HIDE DEF b
    <3>6. Len(b) = n /\ \A i \in 1..n : b[i] = file[i]
      BY <3>3, <3>4
    <3>7. k > 2 /\ k \in 1..n /\ k - 1 \in 1..n /\ k - 2 \in 1..n /\ (k # 3 => k - 3 \in 1..n)
      <4>1. k > 2
        BY <3>2 DEF EndsEvent
      <4> QED BY <3>3, <4>1
    <3>8. /\ b[k] = file[k] /\ b[k - 1] = file[k - 1] /\ b[k - 2] = file[k - 2]
          /\ k # 3 => b[k - 3] = file[k - 3]
      BY <3>6, <3>7
    <3>9. EndsEvent(b, k)
      BY <3>2, <3>8 DEF EndsEvent
    <3>10. b[k - 1] = <<d, 2>>
      BY <3>2, <3>8 DEF Mark
    <3>11. \A i \in 1..Len(b) : b[i] = <<d, 2>> => i = k - 1
      <4> SUFFICES ASSUME NEW i \in 1..Len(b), b[i] = <<d, 2>>
                   PROVE  i = k - 1
        OBVIOUS
      <4>1. i \in 1..Len(file) /\ k - 1 \in 1..Len(file)
        BY <3>3, <3>6, <3>7
      <4>2. file[i] = Mark(d) /\ file[k - 1] = Mark(d)
        BY <3>2, <3>6 DEF Mark
      <4> QED BY <3>1, <4>1, <4>2 DEF Sound, Appends, Marks
    <3>12. Cardinality({i \in DOMAIN Events(b, 0) : Events(b, 0)[i] = d}) = 1
      <4>1. k \in 1..Len(b)
        BY <3>6
      <4> QED BY <3>1, <3>4, <3>9, <3>10, <3>11, <4>1, EventsOnce
    <3>13. local[c].got = Events(b, 0)
      BY <2>1, <3>5, Zenon
    <3> QED BY <3>12, <3>13, Zenon
  <2> QED BY <2>1, <2>2
<1> QED BY <1>1, SoundInit, SoundNext, PTL DEF Spec

\* A change of meta.json that was made stays made, however the threads of a process
\* overlap: only a change that another process makes at the same time can undo it
\* (update_meta, META_WRITE).
THEOREM EditsStay == Spec => []EditsAreKept
<1>1. Sound => EditsAreKept
  BY DEF Sound, EditsInv, Kept, Undone, EditsAreKept
<1> QED BY <1>1, SoundInit, SoundNext, PTL DEF Spec

\* The time of a session's last event is written down or still remembered, unless two
\* processes changed meta.json at once: no eviction, and no change that read meta.json
\* before the event, drops it (append, write_meta, evict_one).
THEOREM ActivityStays == Spec => []ActivityIsKept
<1> DEFINE Inv == Sound /\ (Alone => ActivityInv)
<1>1. Init => Inv
  BY SoundInit
<1>2. Inv /\ [Next]_vars => Inv'
  <2> SUFFICES ASSUME Sound, Alone => ActivityInv, [Next]_vars, Alone'
               PROVE  ActivityInv'
    BY SoundNext
  <2>1. Alone
    BY StepIs, RivalsStay DEF Sound, Alone
  <2> QED BY <2>1, ActivityNext DEF Sound
<1>3. Inv => ActivityIsKept
  BY DEF Alone, ActivityInv, Covered, ActivityIsKept
<1> QED BY <1>1, <1>2, <1>3, PTL DEF Spec

\* The list of a store is never behind its own changes, though the times of the directory
\* cannot tell two changes within a tick apart (list, write_meta).
THEOREM ListIsFresh == Spec => []ListSeesOwnEdits
<1>1. Sound => ListSeesOwnEdits
  BY DEF Sound, VersionsInv, ListOf, Shows, ListSeesOwnEdits
<1> QED BY <1>1, SoundInit, SoundNext, PTL DEF Spec
=============================================================================
