---------------------------- MODULE PairStoreProofs ----------------------------
(***************************************************************************)
(* PairStore for any number of processes, devices, starts and calls: the   *)
(* identity of a device; that no record is invented; and that a call that  *)
(* ran alone leaves exactly what it should.                                *)
(*                                                                         *)
(* Facts about what Kept leaves of a sequence are proved by induction over *)
(* sequences.  Induction takes a set of numbers, or of sequences, for its  *)
(* hypothesis, and rests on the library's theorem that finite sets are     *)
(* well founded by inclusion.                                              *)
(***************************************************************************)
EXTENDS PairStore, FiniteSetTheorems, WellFoundedInduction, TLAPS

(* Induction *)

\* Every set of natural numbers that is not empty has a least element.
LEMMA Least ==
    ASSUME NEW T \in SUBSET Nat, T # {}
    PROVE  \E x \in T : \A y \in T : x <= y
<1> DEFINE Below == {1..n : n \in T}
<1>1. Below \subseteq FiniteSubsetsOf(Nat) /\ Below # {}
  <2>1. \A n \in Nat : IsFiniteSet(1..n) /\ 1..n \subseteq Nat
    BY FS_Interval
  <2> QED
    BY <2>1 DEF FiniteSubsetsOf
<1>2. PICK B \in Below : \A C \in Below : <<C, B>> \notin StrictSubsetOrdering(Nat)
  BY <1>1, FS_StrictSubsetOrderingWellFounded, WFMin
<1>3. PICK x \in T : B = 1..x
  OBVIOUS
<1>4. ASSUME NEW y \in T, ~(x <= y) PROVE FALSE
  <2>1. 1..y \in Below /\ 1..y \subseteq 1..x /\ x \in 1..x /\ x \notin 1..y
    BY <1>4
  <2>2. 1..y \in SUBSET Nat /\ 1..x \in SUBSET Nat
    OBVIOUS
  <2> QED
    BY <1>2, <1>3, <2>1, <2>2 DEF StrictSubsetOrdering
<1> QED
  BY <1>4

\* A set that has 0 and with every number the next one has all numbers.
LEMMA Induction ==
    ASSUME NEW P, 0 \in P, \A n \in Nat : n \in P => n + 1 \in P
    PROVE  Nat \subseteq P
<1> SUFFICES ASSUME Nat \ P # {} PROVE FALSE
  OBVIOUS
<1>1. PICK x \in Nat \ P : \A y \in Nat \ P : x <= y
  BY Least
<1>2. x # 0 /\ x - 1 \in Nat /\ x - 1 \notin Nat \ P
  BY <1>1
<1>3. x - 1 + 1 = x
  OBVIOUS
<1> QED
  BY <1>1, <1>2, <1>3

\* A set that has the empty sequence and with every sequence over S the longer
\* ones has all sequences over S.
LEMMA SeqInduction ==
    ASSUME NEW S, NEW P, <<>> \in P,
           \A s \in Seq(S), x \in S : s \in P => Append(s, x) \in P
    PROVE  Seq(S) \subseteq P
<1> DEFINE N == {n \in Nat : \A s \in Seq(S) : Len(s) = n => s \in P}
<1>1. 0 \in N
  <2>1. \A s \in Seq(S) : Len(s) = 0 => s = <<>>
    OBVIOUS
  <2> QED
    BY <2>1
<1>2. ASSUME NEW n \in Nat, n \in N PROVE n + 1 \in N
  <2>1. ASSUME NEW s \in Seq(S), Len(s) = n + 1 PROVE s \in P
    <3> DEFINE r == SubSeq(s, 1, n)
    <3>1. r \in Seq(S) /\ Len(r) = n /\ s[n + 1] \in S
      BY <2>1
    <3>2. s = Append(r, s[n + 1])
      BY <2>1, <3>1
    <3>3. r \in P
      BY <1>2, <3>1
    <3> QED
      BY <3>1, <3>2, <3>3
  <2> QED
    BY <2>1
<1> HIDE DEF N
<1>3. Nat \subseteq N
  BY <1>1, <1>2, Induction
<1> QED
  BY <1>3 DEF N

-----------------------------------------------------------------------------
(* What Kept leaves of a sequence *)

\* The recursion that defines Kept has a solution.
LEMMA KeptSolution ==
    ASSUME NEW S, NEW s \in Seq(S), NEW T
    PROVE  \E g : /\ g = [i \in 0..Len(s) |->
                            IF i = 0 THEN <<>>
                            ELSE IF s[i] \in T THEN Append(g[i - 1], s[i]) ELSE g[i - 1]]
                  /\ Kept(s, T) = g[Len(s)]
<1> DEFINE Step(g, i) == IF i = 0 THEN <<>>
                         ELSE IF s[i] \in T THEN Append(g[i - 1], s[i]) ELSE g[i - 1]
           P == {n \in Nat : \E g : g = [i \in 0..n |-> Step(g, i)]}
<1>1. 0 \in P
  <2> DEFINE g == [i \in 0..0 |-> <<>>]
  <2>1. g = [i \in 0..0 |-> Step(g, i)]
    OBVIOUS
  <2> QED
    BY <2>1
<1>2. ASSUME NEW n \in Nat, n \in P PROVE n + 1 \in P
  <2>1. PICK g : g = [i \in 0..n |-> Step(g, i)]
    BY <1>2
  <2> DEFINE h == [i \in 0..(n + 1) |-> IF i = n + 1 THEN Step(g, n + 1) ELSE g[i]]
  <2>2. \A i \in 0..n : h[i] = g[i]
    OBVIOUS
  <2>3. \A i \in 0..n : g[i] = Step(g, i)
    BY <2>1, Zenon
  <2>4. \A i \in 0..(n + 1) : Step(h, i) = Step(g, i)
    <3>1. \A i \in 0..(n + 1) : i # 0 => i - 1 \in 0..n
      OBVIOUS
    <3>2. \A i \in 0..(n + 1) : i # 0 => h[i - 1] = g[i - 1]
      BY <2>2, <3>1
    <3> HIDE DEF h
    <3> QED
      BY <3>2, Zenon
  <2>5. \A i \in 0..(n + 1) : h[i] = Step(g, i)
    <3>1. \A i \in 0..(n + 1) : i # n + 1 => i \in 0..n
      OBVIOUS
    <3> HIDE DEF Step
    <3> QED
      BY <2>3, <3>1
  <2>6. h = [i \in 0..(n + 1) |-> Step(h, i)]
    <3> HIDE DEF Step
    <3> QED
      BY <2>4, <2>5
  <2>7. \E f : f = [i \in 0..(n + 1) |-> Step(f, i)]
    <3> HIDE DEF h
    <3> QED
      BY <2>6, Zenon
  <2>8. n + 1 \in Nat
    OBVIOUS
  <2> QED
    BY <2>7, <2>8, Zenon
<1>3. Len(s) \in P
  <2> HIDE DEF P
  <2> QED
    BY <1>1, <1>2, Induction
<1> DEFINE kept == CHOOSE g : g = [i \in 0..Len(s) |-> Step(g, i)]
<1>4. kept = [i \in 0..Len(s) |-> Step(kept, i)]
  BY <1>3, Zenon
<1>5. Kept(s, T) = kept[Len(s)]
  BY DEF Kept
<1> HIDE DEF kept
<1> QED
  BY <1>4, <1>5, Zenon

\* Nothing is left of nothing.
LEMMA KeptEmpty == ASSUME NEW T PROVE Kept(<<>>, T) = <<>>
<1>1. PICK g : /\ g = [i \in 0..Len(<<>>) |->
                         IF i = 0 THEN <<>>
                         ELSE IF <<>>[i] \in T THEN Append(g[i - 1], <<>>[i]) ELSE g[i - 1]]
               /\ Kept(<<>>, T) = g[Len(<<>>)]
  <2>1. <<>> \in Seq({})
    OBVIOUS
  <2> QED
    BY <2>1, KeptSolution, Zenon
<1>2. Len(<<>>) = 0 /\ 0 \in 0..0
  OBVIOUS
<1>3. g[0] = <<>>
  BY <1>1, <1>2, Zenon
<1> QED
  BY <1>1, <1>2, <1>3

\* An element at the end is kept if it is in T.
LEMMA KeptAppend ==
    ASSUME NEW S, NEW s \in Seq(S), NEW x \in S, NEW T
    PROVE  Kept(Append(s, x), T) = IF x \in T THEN Append(Kept(s, T), x) ELSE Kept(s, T)
<1> DEFINE r == Append(s, x)
           n == Len(s)
<1>1. /\ r \in Seq(S) /\ Len(r) = n + 1 /\ n \in Nat /\ r[n + 1] = x
      /\ \A i \in 1..n : r[i] = s[i]
  OBVIOUS
<1>2. PICK g : /\ g = [i \in 0..Len(s) |->
                         IF i = 0 THEN <<>>
                         ELSE IF s[i] \in T THEN Append(g[i - 1], s[i]) ELSE g[i - 1]]
               /\ Kept(s, T) = g[Len(s)]
  BY KeptSolution, Zenon
<1>3. PICK h : /\ h = [i \in 0..Len(r) |->
                         IF i = 0 THEN <<>>
                         ELSE IF r[i] \in T THEN Append(h[i - 1], r[i]) ELSE h[i - 1]]
               /\ Kept(r, T) = h[Len(r)]
  BY <1>1, KeptSolution, Zenon
<1> HIDE DEF r
<1>4. g[0] = <<>> /\ h[0] = <<>>
  <2>1. 0 \in 0..Len(s) /\ 0 \in 0..Len(r)
    BY <1>1
  <2> QED
    BY <2>1, <1>2, <1>3, Zenon
<1>5. ASSUME NEW i \in 1..n
      PROVE  /\ g[i] = IF s[i] \in T THEN Append(g[i - 1], s[i]) ELSE g[i - 1]
             /\ h[i] = IF s[i] \in T THEN Append(h[i - 1], s[i]) ELSE h[i - 1]
  <2>1. i \in 0..Len(s) /\ i \in 0..Len(r) /\ i # 0 /\ r[i] = s[i]
    BY <1>1
  <2> QED
    BY <2>1, <1>2, <1>3, Zenon
<1>6. h[n + 1] = IF x \in T THEN Append(h[n], x) ELSE h[n]
  <2>1. n + 1 \in 0..Len(r) /\ n + 1 # 0 /\ n + 1 - 1 = n
    BY <1>1
  <2>2. ASSUME NEW i \in 0..Len(r), i # 0
        PROVE  h[i] = IF r[i] \in T THEN Append(h[i - 1], r[i]) ELSE h[i - 1]
    BY <2>2, <1>3, Zenon
  <2>3. h[n + 1] = IF r[n + 1] \in T THEN Append(h[n + 1 - 1], r[n + 1]) ELSE h[n + 1 - 1]
    BY <2>1, <2>2
  <2> QED
    BY <2>1, <2>3, <1>1
<1> DEFINE P == {i \in Nat : i <= n => h[i] = g[i]}
<1>7. n \in P
  <2>1. 0 \in P
    BY <1>4
  <2>2. ASSUME NEW i \in Nat, i \in P PROVE i + 1 \in P
    <3> SUFFICES ASSUME i + 1 <= n PROVE h[i + 1] = g[i + 1]
      OBVIOUS
    <3>1. i + 1 \in 1..n /\ i + 1 - 1 = i /\ i <= n
      BY <1>1
    <3>2. h[i] = g[i]
      BY <2>2, <3>1
    <3>3. /\ g[i + 1] = IF s[i + 1] \in T THEN Append(g[i + 1 - 1], s[i + 1]) ELSE g[i + 1 - 1]
          /\ h[i + 1] = IF s[i + 1] \in T THEN Append(h[i + 1 - 1], s[i + 1]) ELSE h[i + 1 - 1]
      BY <1>5, <3>1
    <3> HIDE DEF P
    <3> QED
      BY <3>1, <3>2, <3>3
  <2> HIDE DEF P
  <2> QED
    BY <1>1, <2>1, <2>2, Induction
<1>8. h[n] = g[n]
  BY <1>7, <1>1
<1> QED
  BY <1>1, <1>2, <1>3, <1>6, <1>8, Zenon DEF r

\* What is left are elements of s that are in T.
LEMMA KeptIn ==
    ASSUME NEW S, NEW T PROVE \A s \in Seq(S) : Kept(s, T) \in Seq(S \cap T)
<1> DEFINE P == {s \in Seq(S) : Kept(s, T) \in Seq(S \cap T)}
<1>1. <<>> \in P
  <2>1. Kept(<<>>, T) = <<>>
    BY KeptEmpty
  <2>2. <<>> \in Seq(S) /\ <<>> \in Seq(S \cap T)
    OBVIOUS
  <2> QED
    BY <2>1, <2>2, Zenon
<1>2. ASSUME NEW s \in Seq(S), NEW x \in S, s \in P PROVE Append(s, x) \in P
  <2>1. Kept(s, T) \in Seq(S \cap T)
    BY <1>2
  <2>2. (IF x \in T THEN Append(Kept(s, T), x) ELSE Kept(s, T)) \in Seq(S \cap T)
    BY <2>1
  <2>3. Kept(Append(s, x), T) = IF x \in T THEN Append(Kept(s, T), x) ELSE Kept(s, T)
    BY KeptAppend
  <2>4. Append(s, x) \in Seq(S)
    OBVIOUS
  <2>5. Kept(Append(s, x), T) \in Seq(S \cap T)
    BY <2>2, <2>3
  <2> QED
    BY <2>4, <2>5, Zenon
<1> HIDE DEF P
<1>3. Seq(S) \subseteq P
  BY <1>1, <1>2, SeqInduction
<1> QED
  BY <1>3 DEF P

\* A sequence whose elements are all in T stays as it is.
LEMMA KeptAll ==
    ASSUME NEW T PROVE \A s \in Seq(T) : Kept(s, T) = s
<1> DEFINE P == {s \in Seq(T) : Kept(s, T) = s}
<1>1. <<>> \in P
  BY KeptEmpty
<1>2. ASSUME NEW s \in Seq(T), NEW x \in T, s \in P PROVE Append(s, x) \in P
  BY <1>2, KeptAppend
<1> HIDE DEF P
<1>3. Seq(T) \subseteq P
  BY <1>1, <1>2, SeqInduction
<1> QED
  BY <1>3 DEF P

\* The records of a text are those it was made from.
LEMMA RecordsText == \A recs \in Seq(Record) : Records(Text(recs)) = recs
<1> SUFFICES ASSUME NEW recs \in Seq(Record) PROVE Records(Text(recs)) = recs
  OBVIOUS
<1>1. End \notin Record
  BY PairStoreAssumption DEF End, Record
<1>2. recs \in Seq(Record \cup {End})
  OBVIOUS
<1>3. Kept(Append(recs, End), Record) = Kept(recs, Record)
  BY <1>1, <1>2, KeptAppend
<1> QED
  BY <1>3, KeptAll DEF Records, Text

\* The records found in a file whose records were all asked for were asked for.
LEMMA RecordsGiven ==
    ASSUME NEW G \in SUBSET Record, NEW f \in Seq(G \cup {End, Junk})
    PROVE  Records(f) \in Seq(G)
<1>1. (G \cup {End, Junk}) \cap Record = G
  BY PairStoreAssumption DEF End, Junk, Record
<1> QED
  BY <1>1, KeptIn DEF Records

-----------------------------------------------------------------------------
(* The map of the devices that are known *)

\* What a record at the end does to the devices that are known and to the
\* records of each.
LEMMA AtTheEnd ==
    ASSUME NEW recs \in Seq(Record), NEW c \in Record, NEW d
    PROVE  /\ Known(Append(recs, c)) = Known(recs) \cup {c.dev}
           /\ Of(Append(recs, c), d) = IF c.dev = d THEN Append(Of(recs, d), c) ELSE Of(recs, d)
           /\ Removed(Append(recs, c), d) =
                IF c.dev # d THEN Append(Removed(recs, d), c) ELSE Removed(recs, d)
<1>1. Known(Append(recs, c)) = Known(recs) \cup {c.dev}
  <2> DEFINE r == Append(recs, c)
  <2>1. /\ 1..Len(r) = 1..Len(recs) \cup {Len(recs) + 1}
        /\ r[Len(recs) + 1] = c /\ \A i \in 1..Len(recs) : r[i] = recs[i]
    OBVIOUS
  <2> HIDE DEF r
  <2> QED
    BY <2>1 DEF Known, r
<1>2. Of(Append(recs, c), d) = IF c.dev = d THEN Append(Of(recs, d), c) ELSE Of(recs, d)
  <2> DEFINE T == {e \in Record : e.dev = d}
  <2>1. c \in T <=> c.dev = d
    OBVIOUS
  <2> HIDE DEF T
  <2>2. Kept(Append(recs, c), T) = IF c \in T THEN Append(Kept(recs, T), c) ELSE Kept(recs, T)
    BY KeptAppend
  <2> QED
    BY <2>1, <2>2 DEF Of, T
<1>3. Removed(Append(recs, c), d) =
        IF c.dev # d THEN Append(Removed(recs, d), c) ELSE Removed(recs, d)
  <2> DEFINE T == {e \in Record : e.dev # d}
  <2>1. c \in T <=> c.dev # d
    OBVIOUS
  <2> HIDE DEF T
  <2>2. Kept(Append(recs, c), T) = IF c \in T THEN Append(Kept(recs, T), c) ELSE Kept(recs, T)
    BY KeptAppend
  <2> QED
    BY <2>1, <2>2 DEF Removed, T
<1> QED
  BY <1>1, <1>2, <1>3

\* k is the place of the first record of d.
FirstAt(recs, d, k) ==
    /\ k \in 1..Len(recs) /\ recs[k].dev = d
    /\ \A j \in 1..(k - 1) : recs[j].dev # d

\* The first record of a device is the one that counts.
LEMMA FirstCounts ==
    ASSUME NEW d
    PROVE  \A recs \in Seq(Record) :
             /\ d \notin Known(recs) => Of(recs, d) = <<>>
             /\ \A k \in Nat : FirstAt(recs, d, k) => Len(Of(recs, d)) > 0 /\ Of(recs, d)[1] = recs[k]
<1> DEFINE Good(recs) ==
             /\ Of(recs, d) \in Seq(Record)
             /\ d \notin Known(recs) => Of(recs, d) = <<>>
             /\ \A k \in Nat : FirstAt(recs, d, k) =>
                  Len(Of(recs, d)) > 0 /\ Of(recs, d)[1] = recs[k]
           P == {recs \in Seq(Record) : Good(recs)}
<1>1. <<>> \in P
  <2>1. Of(<<>>, d) = <<>>
    BY KeptEmpty DEF Of
  <2>2. \A k \in Nat : ~FirstAt(<<>>, d, k)
    BY DEF FirstAt
  <2>3. <<>> \in Seq(Record)
    OBVIOUS
  <2>4. Good(<<>>)
    BY <2>1, <2>2, <2>3
  <2> QED
    BY <2>3, <2>4
<1>2. ASSUME NEW recs \in Seq(Record), NEW c \in Record, recs \in P
      PROVE  Append(recs, c) \in P
  <2> DEFINE r == Append(recs, c)
  <2>1. /\ r \in Seq(Record) /\ Len(recs) \in Nat /\ Len(r) = Len(recs) + 1
        /\ r[Len(recs) + 1] = c /\ \A i \in 1..Len(recs) : r[i] = recs[i]
    OBVIOUS
  <2>2. Good(recs)
    BY <1>2
  <2>3. /\ Known(r) = Known(recs) \cup {c.dev}
        /\ Of(r, d) = IF c.dev = d THEN Append(Of(recs, d), c) ELSE Of(recs, d)
    BY AtTheEnd
  <2> HIDE DEF r
  <2>4. Of(r, d) \in Seq(Record)
    BY <2>2, <2>3
  <2>5. d \notin Known(r) => Of(r, d) = <<>>
    BY <2>2, <2>3
  <2>6. ASSUME NEW k \in Nat, FirstAt(r, d, k)
        PROVE  Len(Of(r, d)) > 0 /\ Of(r, d)[1] = r[k]
    <3>1. CASE k \in 1..Len(recs)
      <4>1. FirstAt(recs, d, k)
        BY <2>1, <2>6, <3>1 DEF FirstAt
      <4>2. Len(Of(recs, d)) > 0 /\ Of(recs, d)[1] = recs[k]
        BY <4>1, <2>2
      <4>3. /\ Len(Append(Of(recs, d), c)) > 0
            /\ Append(Of(recs, d), c)[1] = Of(recs, d)[1]
        BY <4>2, <2>2
      <4> QED
        BY <2>1, <2>3, <3>1, <4>2, <4>3
    <3>2. CASE k \notin 1..Len(recs)
      <4>1. k = Len(recs) + 1 /\ c.dev = d
        BY <2>1, <2>6, <3>2 DEF FirstAt
      <4>2. d \notin Known(recs)
        BY <2>1, <2>6, <4>1 DEF FirstAt, Known
      <4>3. Of(r, d) = Append(<<>>, c)
        BY <2>2, <2>3, <4>1, <4>2
      <4> QED
        BY <2>1, <4>1, <4>3
    <3> QED
      BY <3>1, <3>2
  <2>7. Good(r)
    BY <2>4, <2>5, <2>6
  <2> HIDE DEF Good
  <2> QED
    BY <2>1, <2>7 DEF r
<1> HIDE DEF P
<1>3. Seq(Record) \subseteq P
  BY <1>1, <1>2, SeqInduction
<1> QED
  BY <1>3 DEF P

\* A device that is known has a first record.
LEMMA FirstExists ==
    ASSUME NEW recs \in Seq(Record), NEW d \in Known(recs)
    PROVE  \E k \in Nat : FirstAt(recs, d, k)
<1> DEFINE T == {i \in 1..Len(recs) : recs[i].dev = d}
<1>1. T \in SUBSET Nat /\ T # {}
  BY DEF Known
<1>2. PICK k \in T : \A j \in T : k <= j
  BY <1>1, Least
<1>3. k \in 1..Len(recs) /\ recs[k].dev = d
  OBVIOUS
<1>4. \A j \in 1..(k - 1) : recs[j].dev # d
  <2> SUFFICES ASSUME NEW j \in 1..(k - 1), recs[j].dev = d PROVE FALSE
    OBVIOUS
  <2>1. j \in T
    BY <1>3
  <2> QED
    BY <1>2, <1>3, <2>1
<1> QED
  BY <1>3, <1>4 DEF FirstAt

\* What the map has for a device.
LEMMA MapAt ==
    ASSUME NEW recs \in Seq(Record), NEW d \in Peer
    PROVE  /\ d \notin Known(recs) => AsMap(recs)[d] = Absent
           /\ \A k \in Nat : FirstAt(recs, d, k) =>
                d \in Known(recs) /\ AsMap(recs)[d] = recs[k].port
<1>1. d \notin Known(recs) => AsMap(recs)[d] = Absent
  BY DEF AsMap
<1>2. ASSUME NEW k \in Nat, FirstAt(recs, d, k)
      PROVE  d \in Known(recs) /\ AsMap(recs)[d] = recs[k].port
  <2>1. d \in Known(recs)
    BY <1>2 DEF FirstAt, Known
  <2>2. Of(recs, d)[1] = recs[k]
    BY <1>2, FirstCounts
  <2> QED
    BY <2>1, <2>2 DEF AsMap
<1> QED
  BY <1>1, <1>2

\* A record is a device and a port that is no Absent.
LEMMA RecordFields ==
    ASSUME NEW c \in Record
    PROVE  c.dev \in Peer /\ c.port \in Port \cup {0} /\ c.port \in Nat /\ c.port # Absent
<1>1. c.dev \in Peer /\ c.port \in Port \cup {0}
  BY DEF Record
<1>2. Port \subseteq Nat
  BY PairStoreAssumption
<1>3. c.port \in Nat
  <2>1. 0 \in Nat
    OBVIOUS
  <2> QED
    BY <1>1, <1>2, <2>1, Zenon
<1>4. c.port # Absent
  BY <1>3 DEF Absent
<1> QED
  BY <1>1, <1>3, <1>4

\* The map is of devices to ports.
LEMMA MapType ==
    ASSUME NEW recs \in Seq(Record)
    PROVE  AsMap(recs) \in [Peer -> Port \cup {0, Absent}]
<1>1. ASSUME NEW d \in Peer PROVE AsMap(recs)[d] \in Port \cup {0, Absent}
  <2>1. CASE d \notin Known(recs)
    BY <2>1, MapAt
  <2>2. CASE d \in Known(recs)
    <3>1. PICK k \in Nat : FirstAt(recs, d, k)
      BY <2>2, FirstExists
    <3>2. recs[k] \in Record
      BY <3>1 DEF FirstAt
    <3> QED
      BY <3>1, <3>2, MapAt, RecordFields
  <2> QED
    BY <2>1, <2>2
<1>2. AsMap(recs) = [d \in Peer |-> AsMap(recs)[d]]
  BY DEF AsMap
<1> QED
  BY <1>1, <1>2

\* An update changes what is known of its device and of no other.
LEMMA UpsertedMap ==
    ASSUME NEW recs \in Seq(Record), NEW d \in Peer, NEW q \in Port \cup {0}
    PROVE  /\ Upserted(recs, d, q) \in Seq(Record)
           /\ AsMap(Upserted(recs, d, q)) =
                [AsMap(recs) EXCEPT ![d] =
                   IF q = 0 /\ AsMap(recs)[d] # Absent THEN AsMap(recs)[d] ELSE q]
           /\ \A G \in SUBSET Record :
                recs \in Seq(G) => Upserted(recs, d, q) \in Seq(G \cup {[dev |-> d, port |-> q]})
<1> DEFINE c == [dev |-> d, port |-> q]
           old == AsMap(recs)[d]
           map == [AsMap(recs) EXCEPT ![d] = IF q = 0 /\ old # Absent THEN old ELSE q]
           new == Upserted(recs, d, q)
<1>1. c \in Record /\ c.dev = d /\ c.port = q
  BY DEF Record
<1>2. /\ \A e \in Peer : e # d => map[e] = AsMap(recs)[e]
      /\ map[d] = IF q = 0 /\ old # Absent THEN old ELSE q
      /\ map \in [Peer -> {map[e] : e \in Peer}]
      /\ DOMAIN AsMap(recs) = Peer
  BY DEF AsMap
<1>3. CASE d \notin Known(recs)
  <2>1. new = Append(recs, c)
    BY <1>3 DEF Upserted
  <2>2. new \in Seq(Record)
    BY <1>1, <2>1
  <2>3. Known(new) = Known(recs) \cup {d}
    BY <1>1, <2>1, AtTheEnd
  <2>4. ASSUME NEW e \in Peer, e # d PROVE AsMap(new)[e] = AsMap(recs)[e]
    <3>1. Of(new, e) = Of(recs, e)
      BY <1>1, <2>1, <2>4, AtTheEnd
    <3> QED
      BY <2>3, <2>4, <3>1 DEF AsMap
  <2>5. AsMap(new)[d] = q /\ old = Absent
    <3>1. FirstAt(new, d, Len(recs) + 1) /\ new[Len(recs) + 1] = c
      BY <1>1, <1>3, <2>1 DEF FirstAt, Known
    <3>2. AsMap(new)[d] = c.port
      BY <2>2, <3>1, MapAt
    <3> QED
      BY <1>1, <1>3, <3>2, MapAt
  <2>6. AsMap(new) = map
    <3>1. \A e \in Peer : AsMap(new)[e] = map[e]
      BY <1>2, <2>4, <2>5
    <3>2. AsMap(new) = [e \in Peer |-> AsMap(new)[e]] /\ map = [e \in Peer |-> map[e]]
      BY DEF AsMap
    <3> HIDE DEF map
    <3> QED
      BY <3>1, <3>2
  <2>7. \A G \in SUBSET Record : recs \in Seq(G) => new \in Seq(G \cup {c})
    BY <2>1
  <2> QED
    BY <2>2, <2>6, <2>7
<1>4. CASE d \in Known(recs)
  <2> DEFINE Is(i) == recs[i].dev = d /\ \A j \in 1..(i - 1) : recs[j].dev # d
             k == CHOOSE i \in 1..Len(recs) : Is(i)
  <2>1. \E i \in 1..Len(recs) : Is(i)
    BY <1>4, FirstExists DEF FirstAt
  <2>2. k \in 1..Len(recs) /\ Is(k)
    BY <2>1
  <2>3. FirstAt(recs, d, k)
    BY <2>2 DEF FirstAt
  <2>4. new = [recs EXCEPT ![k].port = IF q # 0 THEN q ELSE @]
    BY <1>4 DEF Upserted
  <2> HIDE DEF k, new
  <2> DEFINE x == [recs[k] EXCEPT !.port = IF q # 0 THEN q ELSE @]
  <2>5. recs[k] \in Record
    BY <2>2
  <2>6. x \in Record /\ x.dev = d /\ x.port = IF q # 0 THEN q ELSE recs[k].port
    BY <2>2, <2>5 DEF Record
  <2>7. x = recs[k] \/ x = c
    BY <2>2, <2>5 DEF Record
  <2>8. new = [recs EXCEPT ![k] = x]
    BY <2>4
  <2> HIDE DEF x
  <2>9. /\ new \in Seq(Record) /\ Len(new) = Len(recs) /\ new[k] = x
        /\ \A i \in 1..Len(recs) : i # k => new[i] = recs[i]
    BY <2>2, <2>6, <2>8
  <2>10. \A i \in 1..Len(recs) : new[i].dev = recs[i].dev
    BY <2>2, <2>6, <2>9
  <2>11. Known(new) = Known(recs)
    BY <2>9, <2>10 DEF Known
  <2>12. \A e, j : FirstAt(recs, e, j) => FirstAt(new, e, j)
    BY <2>9, <2>10 DEF FirstAt
  <2>13. ASSUME NEW e \in Peer PROVE AsMap(new)[e] = map[e]
    <3>1. CASE e \notin Known(recs)
      <4>1. e # d
        BY <1>4, <3>1
      <4> QED
        BY <4>1, <1>2, <2>9, <2>11, <3>1, MapAt
    <3>2. CASE e \in Known(recs)
      <4>1. PICK j \in Nat : FirstAt(recs, e, j)
        BY <3>2, FirstExists
      <4>2. AsMap(recs)[e] = recs[j].port /\ AsMap(new)[e] = new[j].port
        BY <4>1, <2>9, <2>12, MapAt
      <4>3. CASE e # d
        <5>1. j \in 1..Len(recs) /\ j # k
          BY <4>1, <4>3, <2>2 DEF FirstAt
        <5> QED
          BY <5>1, <4>2, <4>3, <1>2, <2>9
      <4>4. CASE e = d
        <5>1. j = k
          BY <4>1, <4>4, <2>3 DEF FirstAt
        <5>2. recs[k].port # Absent
          BY <2>5, RecordFields
        <5> QED
          BY <5>1, <5>2, <4>2, <4>4, <1>2, <2>6, <2>9
      <4> QED
        BY <4>3, <4>4
    <3> QED
      BY <3>1, <3>2
  <2>14. AsMap(new) = map
    <3>1. AsMap(new) = [e \in Peer |-> AsMap(new)[e]] /\ map = [e \in Peer |-> map[e]]
      BY DEF AsMap
    <3> HIDE DEF map
    <3> QED
      BY <3>1, <2>13
  <2>15. \A G \in SUBSET Record : recs \in Seq(G) => new \in Seq(G \cup {c})
    <3> SUFFICES ASSUME NEW G \in SUBSET Record, recs \in Seq(G)
                 PROVE  new \in Seq(G \cup {c})
      OBVIOUS
    <3>1. x \in G \cup {c}
      BY <2>2, <2>7
    <3> HIDE DEF c
    <3> QED
      BY <3>1, <2>2, <2>8
  <2> QED
    BY <2>9, <2>14, <2>15 DEF new
<1> QED
  BY <1>3, <1>4

\* A removal makes its device unknown and changes no other.
LEMMA RemovedMap ==
    ASSUME NEW d \in Peer
    PROVE  \A recs \in Seq(Record) :
             /\ Removed(recs, d) \in Seq(Record)
             /\ AsMap(Removed(recs, d)) = [AsMap(recs) EXCEPT ![d] = Absent]
<1> DEFINE Good(recs) ==
             /\ Removed(recs, d) \in Seq(Record)
             /\ Known(Removed(recs, d)) = Known(recs) \ {d}
             /\ \A e \in Peer : e # d => Of(Removed(recs, d), e) = Of(recs, e)
           P == {recs \in Seq(Record) : Good(recs)}
<1>1. <<>> \in P
  <2>1. Removed(<<>>, d) = <<>>
    BY KeptEmpty DEF Removed
  <2>2. <<>> \in Seq(Record) /\ Known(<<>>) = {}
    BY DEF Known
  <2> QED
    BY <2>1, <2>2
<1>2. ASSUME NEW recs \in Seq(Record), NEW c \in Record, recs \in P
      PROVE  Append(recs, c) \in P
  <2> DEFINE r == Append(recs, c)
             left == Removed(recs, d)
  <2>1. left \in Seq(Record) /\ Known(left) = Known(recs) \ {d}
    BY <1>2
  <2>2. \A e \in Peer : e # d => Of(left, e) = Of(recs, e)
    BY <1>2
  <2>3. Removed(r, d) = IF c.dev # d THEN Append(left, c) ELSE left
    BY AtTheEnd
  <2>4. Known(r) = Known(recs) \cup {c.dev}
    BY AtTheEnd
  <2>5. Known(Append(left, c)) = Known(left) \cup {c.dev}
    BY <2>1, AtTheEnd
  <2>6. \A e \in Peer :
          /\ Of(r, e) = IF c.dev = e THEN Append(Of(recs, e), c) ELSE Of(recs, e)
          /\ Of(Append(left, c), e) = IF c.dev = e THEN Append(Of(left, e), c) ELSE Of(left, e)
    BY <2>1, AtTheEnd
  <2>7. r \in Seq(Record) /\ Append(left, c) \in Seq(Record)
    BY <2>1
  <2> HIDE DEF r, left
  <2>8. Removed(r, d) \in Seq(Record) /\ Known(Removed(r, d)) = Known(r) \ {d}
    BY <2>1, <2>3, <2>4, <2>5, <2>7
  <2>9. \A e \in Peer : e # d => Of(Removed(r, d), e) = Of(r, e)
    BY <2>2, <2>3, <2>6
  <2> QED
    BY <2>7, <2>8, <2>9 DEF r
<1> HIDE DEF P
<1>3. Seq(Record) \subseteq P
  BY <1>1, <1>2, SeqInduction
<1> SUFFICES ASSUME NEW recs \in Seq(Record)
             PROVE  /\ Removed(recs, d) \in Seq(Record)
                    /\ AsMap(Removed(recs, d)) = [AsMap(recs) EXCEPT ![d] = Absent]
  OBVIOUS
<1>4. Good(recs)
  BY <1>3 DEF P
<1>5. \A e \in Peer : AsMap(Removed(recs, d))[e] = [AsMap(recs) EXCEPT ![d] = Absent][e]
  BY <1>4 DEF AsMap
<1>6. /\ AsMap(Removed(recs, d)) = [e \in Peer |-> AsMap(Removed(recs, d))[e]]
      /\ [AsMap(recs) EXCEPT ![d] = Absent] =
           [e \in Peer |-> [AsMap(recs) EXCEPT ![d] = Absent][e]]
  BY DEF AsMap
<1> QED
  BY <1>4, <1>5, <1>6

-----------------------------------------------------------------------------
(* The identity *)

Working == {"ready", "loaded", "write"}

\* The types of what the identity depends on.
IdTypes ==
    /\ prefs \in BOOLEAN /\ raced \in BOOLEAN
    /\ pc \in [Process -> {"off", "look", "create", "flush"} \cup Working]
    /\ idFile \in Identity \cup {NoFile, Cut}
    /\ self \in [Process -> Identity \cup {NoFile}]
    /\ starts \in 0..MaxStarts
    /\ \A p \in Process : pc[p] # "off" => self[p] \in Identity

\* Unless identities were made at once, the file holds none exactly while its
\* maker has it open, and there is one maker.
MakerInv ==
    ~raced =>
        /\ \A p \in Process \ Form : pc[p] \in Working => self[p] = idFile
        /\ \A p \in Process : pc[p] = "flush" => idFile = Cut
        /\ \A p, q \in Process : pc[p] = "flush" /\ pc[q] = "flush" => p = q
        /\ idFile = Cut => \E p \in Process : pc[p] = "flush"

IInv == IdTypes /\ MakerInv

\* The identities are numbers above those that stand for none.
LEMMA IdentityFacts == NoFile \notin Identity /\ Cut \notin Identity /\ NoFile # Cut
  BY PairStoreAssumption DEF NoFile, Cut, Identity

\* A step that concerns the pairings: the process was working, and goes on.
LEMMA PairingsApart ==
    ASSUME IInv, NEW p \in Process, Upsert(p) \/ Remove(p) \/ Save(p)
    PROVE  /\ UNCHANGED <<prefs, idFile, self, starts, raced>>
           /\ pc[p] \in Working /\ pc'[p] \in Working
           /\ \A q \in Process : q # p => pc'[q] = pc[q]
           /\ pc' \in [Process -> {"off", "look", "create", "flush"} \cup Working]
<1>1. /\ UNCHANGED <<prefs, idFile, self, starts, raced>>
      /\ pc[p] \in Working
      /\ \/ pc' = [pc EXCEPT ![p] = "loaded"]
         \/ pc' = [pc EXCEPT ![p] = "write"]
         \/ pc' = [pc EXCEPT ![p] = "ready"]
  BY DEF Upsert, Remove, Loads, Save, Open, Flush, FlushFails, Apply, Ends, Goes, Writing,
     Working, idVars
<1> QED
  BY <1>1 DEF IInv, IdTypes, Working

\* Every step keeps the invariant.
LEMMA StepInv ==
    ASSUME IInv, [Next]_vars
    PROVE  IInv'
<1> USE IdentityFacts DEF Working
<1>1. CASE UNCHANGED vars
  BY <1>1 DEF vars, idVars, IInv, IdTypes, MakerInv
<1>2. ASSUME NEW p \in Process, Start(p) PROVE IInv'
  <2>1. /\ pc[p] = "off" /\ starts < MaxStarts /\ starts' = starts + 1
        /\ \E s \in {"ready", "look"} : pc' = [pc EXCEPT ![p] = s] /\ (s = "ready" => p \in Form)
        /\ self' = [self EXCEPT ![p] = starts + 1]
        /\ UNCHANGED <<prefs, idFile, raced>>
    BY <1>2 DEF Start, Goes, Generated
  <2>2. starts + 1 \in Identity /\ starts' \in 0..MaxStarts
    BY <2>1, PairStoreAssumption DEF IInv, IdTypes, Identity
  <2>3. /\ pc'[p] \in {"ready", "look"} /\ (pc'[p] = "ready" => p \in Form)
        /\ self'[p] = starts + 1
        /\ \A q \in Process : q # p => pc'[q] = pc[q] /\ self'[q] = self[q]
    BY <2>1 DEF IInv, IdTypes
  <2>4. /\ pc' \in [Process -> {"off", "look", "create", "flush"} \cup Working]
        /\ self' \in [Process -> Identity \cup {NoFile}]
    BY <2>1, <2>2 DEF IInv, IdTypes
  <2>5. IdTypes'
    BY <2>1, <2>2, <2>3, <2>4 DEF IInv, IdTypes
  <2>6. MakerInv'
    BY <2>1, <2>3 DEF IInv, MakerInv
  <2> QED
    BY <2>5, <2>6 DEF IInv
<1>3. ASSUME NEW p \in Process, Look(p) PROVE IInv'
  <2>1. /\ pc[p] = "look" /\ UNCHANGED <<prefs, idFile, starts, raced>>
        /\ \/ pc' = [pc EXCEPT ![p] = "create"] /\ self' = self
           \/ /\ idFile \in Identity
              /\ pc' = [pc EXCEPT ![p] = "ready"] /\ self' = [self EXCEPT ![p] = idFile]
           \/ pc' = [pc EXCEPT ![p] = "off"] /\ self' = [self EXCEPT ![p] = NoFile]
    BY <1>3 DEF Look, Goes
  <2>2. /\ \/ pc'[p] = "create" /\ self'[p] = self[p]
           \/ pc'[p] = "ready" /\ self'[p] = idFile /\ idFile \in Identity
           \/ pc'[p] = "off"
        /\ \A q \in Process : q # p => pc'[q] = pc[q] /\ self'[q] = self[q]
        /\ pc' \in [Process -> {"off", "look", "create", "flush"} \cup Working]
        /\ self' \in [Process -> Identity \cup {NoFile}]
    BY <2>1 DEF IInv, IdTypes
  <2>3. IdTypes'
    BY <2>1, <2>2 DEF IInv, IdTypes
  <2>4. MakerInv'
    BY <2>1, <2>2 DEF IInv, MakerInv
  <2> QED
    BY <2>3, <2>4 DEF IInv
<1>4. ASSUME NEW p \in Process, CreateId(p) PROVE IInv'
  <2>1. /\ pc[p] = "create" /\ UNCHANGED <<prefs, self, starts>>
        /\ raced' = (raced \/ idFile # NoFile)
        /\ \/ idFile' = self[p] /\ pc' = [pc EXCEPT ![p] = "ready"]
           \/ idFile' = Cut /\ pc' = [pc EXCEPT ![p] = "flush"]
    BY <1>4 DEF CreateId, Goes
  <2>2. /\ \/ idFile' = self[p] /\ pc'[p] = "ready"
           \/ idFile' = Cut /\ pc'[p] = "flush"
        /\ self[p] \in Identity
        /\ \A q \in Process : q # p => pc'[q] = pc[q]
        /\ pc' \in [Process -> {"off", "look", "create", "flush"} \cup Working]
    BY <2>1 DEF IInv, IdTypes
  <2>3. raced' \in BOOLEAN
    BY <2>1 DEF IInv, IdTypes
  <2>4. IdTypes'
    BY <2>1, <2>2, <2>3 DEF IInv, IdTypes
  <2>5. ASSUME ~raced'
        PROVE  /\ \A q \in Process \ Form : pc[q] \notin Working
               /\ \A q \in Process : pc[q] # "flush"
    <3>1. ~raced /\ idFile = NoFile
      BY <2>1, <2>5
    <3> QED
      BY <3>1 DEF IInv, IdTypes, MakerInv
  <2>6. MakerInv'
    BY <2>1, <2>2, <2>5 DEF MakerInv
  <2> QED
    BY <2>4, <2>6 DEF IInv
<1>5. ASSUME NEW p \in Process, FlushId(p) PROVE IInv'
  <2>1. /\ pc[p] = "flush" /\ UNCHANGED <<prefs, self, starts>>
        /\ pc' = [pc EXCEPT ![p] = "ready"]
        /\ \/ idFile' = self[p] /\ raced' = raced
           \/ idFile' = idFile /\ raced' = TRUE
    BY <1>5 DEF FlushId, Goes
  <2>2. /\ pc'[p] = "ready" /\ \A q \in Process : q # p => pc'[q] = pc[q]
        /\ self[p] \in Identity
        /\ pc' \in [Process -> {"off", "look", "create", "flush"} \cup Working]
    BY <2>1 DEF IInv, IdTypes
  <2>3. raced' \in BOOLEAN
    BY <2>1 DEF IInv, IdTypes
  <2>4. IdTypes'
    BY <2>1, <2>2, <2>3 DEF IInv, IdTypes
  <2>5. MakerInv'
    <3> SUFFICES ASSUME ~raced' PROVE MakerInv'
      BY DEF MakerInv
    <3>1. ~raced /\ idFile' = self[p]
      BY <2>1
    <3>2. idFile = Cut
      BY <2>1, <3>1 DEF IInv, MakerInv
    <3>3. \A q \in Process \ Form : pc[q] \notin Working
      BY <3>1, <3>2 DEF IInv, IdTypes, MakerInv
    <3>4. \A q \in Process : q # p => pc[q] # "flush"
      BY <2>1, <3>1 DEF IInv, MakerInv
    <3> QED
      BY <2>1, <2>2, <3>1, <3>3, <3>4 DEF MakerInv
  <2> QED
    BY <2>4, <2>5 DEF IInv
<1>6. ASSUME NEW p \in Process, Upsert(p) \/ Remove(p) \/ Save(p) PROVE IInv'
  BY <1>6, PairingsApart DEF IInv, IdTypes, MakerInv
<1>7. ASSUME NEW p \in Process, Exit(p) PROVE IInv'
  <2>1. /\ pc' = [pc EXCEPT ![p] = "off"] /\ self' = [self EXCEPT ![p] = NoFile]
        /\ raced' = (raced \/ pc[p] = "flush")
        /\ UNCHANGED <<prefs, idFile, starts>>
    BY <1>7 DEF Exit, Goes
  <2>2. /\ pc'[p] = "off"
        /\ \A q \in Process : q # p => pc'[q] = pc[q] /\ self'[q] = self[q]
        /\ pc' \in [Process -> {"off", "look", "create", "flush"} \cup Working]
        /\ self' \in [Process -> Identity \cup {NoFile}]
    BY <2>1 DEF IInv, IdTypes
  <2>3. raced' \in BOOLEAN
    BY <2>1 DEF IInv, IdTypes
  <2>4. IdTypes'
    BY <2>1, <2>2, <2>3 DEF IInv, IdTypes
  <2>5. MakerInv'
    BY <2>1, <2>2 DEF IInv, MakerInv
  <2> QED
    BY <2>4, <2>5 DEF IInv
<1> QED
  BY <1>1, <1>2, <1>3, <1>4, <1>5, <1>6, <1>7 DEF Next

\* The invariant holds always.
THEOREM Invariance == Spec => []IInv
<1>1. Init => IInv
  <2> SUFFICES ASSUME Init PROVE IInv
    OBVIOUS
  <2>1. /\ prefs \in BOOLEAN /\ raced \in BOOLEAN
        /\ starts \in 0..MaxStarts
    <3>1. prefs \in BOOLEAN /\ raced = FALSE /\ starts = 0
      BY Zenon DEF Init
    <3>2. raced \in BOOLEAN
      BY <3>1
    <3>3. starts \in 0..MaxStarts
      BY <3>1, PairStoreAssumption
    <3> QED
      BY <3>1, <3>2, <3>3
  <2>2. \A p \in Process : pc[p] = "off"
    BY DEF Init
  <2>3. pc \in [Process -> {"off", "look", "create", "flush"} \cup Working]
    BY DEF Init
  <2>4. idFile = NoFile /\ self \in [Process -> Identity \cup {NoFile}]
    BY DEF Init
  <2>5. IdTypes
    BY <2>1, <2>2, <2>3, <2>4 DEF IdTypes
  <2>6. MakerInv
    BY <2>2, <2>4, IdentityFacts DEF MakerInv, Working
  <2> QED
    BY <2>5, <2>6 DEF IInv
<1> QED
  BY <1>1, StepInv, PTL DEF Spec

\* Every process of a device goes by the identity in its file, unless two made
\* one at once or one was cut short.
THEOREM OneIdentity == Spec => []IdentityAgrees
<1>1. IInv => IdentityAgrees
  BY DEF IInv, MakerInv, IdentityAgrees, Working
<1> QED
  BY <1>1, Invariance, PTL

-----------------------------------------------------------------------------
(* The pairings *)

\* Every record in the file and in a process's copy was asked for.
GivenInv ==
    /\ given \subseteq Record
    /\ file \in Seq(given \cup {End, Junk})
    /\ list \in [Process -> Seq(given)]

\* A call that is alone is under way and nobody else's is; it has the file empty
\* while it writes, and its copy is what it makes of the records it found.  After
\* a call that was alone to its end no other has begun.
AloneInv ==
    /\ alone \subseteq Process
    /\ expect \in [Process -> [Peer -> Port \cup {0, Absent}]]
    /\ \A p \in alone :
          /\ Busy(p) /\ \A q \in Process : Busy(q) => q = p
          /\ AsMap(list[p]) = expect[p]
          /\ Writing(p) => file = <<>>
    /\ clean # None =>
          /\ clean \in Process
          /\ \A q \in Process : ~Busy(q)
          /\ file = Text(Records(file)) /\ AsMap(Records(file)) = expect[clean]

FileInv == calls \in Nat /\ GivenInv /\ AloneInv

\* A text over a file makes no record that neither has.
LEMMA OverlayIn ==
    ASSUME NEW G, NEW f \in Seq(G \cup {End, Junk}), NEW recs \in Seq(G), NEW broken \in BOOLEAN
    PROVE  Overlay(f, Text(recs), broken) \in Seq(G \cup {End, Junk})
<1> DEFINE c == Text(recs)
           C == G \cup {End, Junk}
           n == IF Len(c) > Len(f) THEN Len(c) ELSE Len(f)
<1>1. c \in Seq(C)
  BY DEF Text
<1> HIDE DEF c
<1>2. n \in Nat
  BY <1>1
<1>3. \A i \in 1..n : (IF i <= Len(c) THEN c[i] ELSE IF broken /\ i = Len(c) + 1 THEN Junk ELSE f[i]) \in C
  <2> SUFFICES ASSUME NEW i \in 1..n
               PROVE  (IF i <= Len(c) THEN c[i] ELSE IF broken /\ i = Len(c) + 1 THEN Junk ELSE f[i]) \in C
    OBVIOUS
  <2>1. CASE i <= Len(c)
    <3>1. c[i] \in C
      BY <1>1, <2>1
    <3> QED
      BY <3>1, <2>1
  <2>2. CASE ~(i <= Len(c))
    <3>1. f[i] \in C /\ Junk \in C
      BY <1>1, <2>2
    <3> QED
      BY <3>1, <2>2
  <2> QED
    BY <2>1, <2>2
<1>4. Overlay(f, c, broken) = [i \in 1..n |->
         IF i <= Len(c) THEN c[i] ELSE IF broken /\ i = Len(c) + 1 THEN Junk ELSE f[i]]
  BY DEF Overlay
<1> HIDE DEF n, C
<1>5. Overlay(f, c, broken) \in [1..n -> C]
  BY <1>3, <1>4
<1>6. Overlay(f, c, broken) \in Seq(C)
  BY <1>2, <1>5
<1> QED
  BY <1>6 DEF c, C

\* A text over an empty file is the text.
LEMMA OverlayNothing ==
    ASSUME NEW recs \in Seq(Record), NEW broken \in BOOLEAN, broken => 0 > Len(recs) + 1
    PROVE  Overlay(<<>>, Text(recs), broken) = Text(recs)
<1> DEFINE c == Text(recs)
<1>1. c \in Seq(Record \cup {End}) /\ Len(c) \in Nat /\ ~broken /\ Len(<<>>) = 0
  BY DEF Text
<1> HIDE DEF c
<1>2. Overlay(<<>>, c, broken) = [i \in 1..Len(c) |-> c[i]]
  BY <1>1 DEF Overlay
<1>3. c = [i \in 1..Len(c) |-> c[i]]
  BY <1>1
<1> QED
  BY <1>2, <1>3 DEF c

\* A call that begins.
LEMMA LoadsFile ==
    ASSUME IInv, FileInv, NEW p \in Process, NEW recs, NEW map,
           Loads(p, recs, map), UNCHANGED file,
           given \subseteq given', given' \subseteq Record,
           recs \in Seq(given'), AsMap(recs) = map
    PROVE  FileInv'
<1>1. /\ list' = [list EXCEPT ![p] = recs] /\ expect' = [expect EXCEPT ![p] = map]
      /\ alone' = IF \E q \in Process : Busy(q) THEN {} ELSE {p}
      /\ clean' = None /\ pc' = [pc EXCEPT ![p] = "loaded"]
  BY DEF Loads, Goes
<1>2. list'[p] = recs /\ list' \in [Process -> Seq(given')]
  BY <1>1 DEF FileInv, GivenInv
<1>3. file' \in Seq(given' \cup {End, Junk})
  BY DEF FileInv, GivenInv
<1>4. expect'[p] = map /\ expect' \in [Process -> [Peer -> Port \cup {0, Absent}]]
  <2>1. recs \in Seq(Record)
    OBVIOUS
  <2>2. map \in [Peer -> Port \cup {0, Absent}]
    BY <2>1, MapType
  <2> QED
    BY <1>1, <2>2 DEF FileInv, AloneInv
<1>5. pc'[p] = "loaded" /\ \A q \in Process : q # p => pc'[q] = pc[q]
  BY <1>1 DEF IInv, IdTypes
<1>6. \A q \in alone' : q = p /\ \A r \in Process : Busy(r)' => r = p
  BY <1>1, <1>5 DEF Busy
<1>7. alone' \subseteq Process
  BY <1>1
<1>8. AloneInv'
  BY <1>1, <1>2, <1>4, <1>5, <1>6, <1>7 DEF AloneInv, Busy, Writing
<1>9. calls' \in Nat
  BY DEF Loads, FileInv
<1> QED
  BY <1>2, <1>3, <1>8, <1>9 DEF FileInv, GivenInv

\* A step that begins and ends no call and leaves the file alone.
LEMMA ElsewhereFile ==
    ASSUME FileInv, UNCHANGED fileVars,
           \A p \in Process : (Busy(p)' <=> Busy(p)) /\ (Writing(p)' <=> Writing(p))
    PROVE  FileInv'
  BY DEF FileInv, GivenInv, AloneInv, fileVars

\* A call that ends without writing, or is cut short, leaves nothing to say.
LEMMA EndsFile ==
    ASSUME IInv, FileInv, NEW p \in Process, Busy(p), NEW s \in {"ready", "off"},
           pc' = [pc EXCEPT ![p] = s], alone' = alone \ {p},
           UNCHANGED <<list, calls, given, expect>>,
           file' \in Seq(given \cup {End, Junk}),
           clean' # None => /\ clean' = p /\ p \in alone
                            /\ file' = Text(Records(file')) /\ AsMap(Records(file')) = expect[p]
    PROVE  FileInv'
<1>1. pc'[p] = s /\ \A q \in Process : q # p => pc'[q] = pc[q]
  BY DEF IInv, IdTypes
<1>2. ~Busy(p)' /\ \A q \in Process : q # p => (Busy(q)' <=> Busy(q))
  BY <1>1 DEF Busy
<1>3. alone' = {}
  BY DEF FileInv, AloneInv
<1>4. clean' # None => \A q \in Process : ~Busy(q)'
  BY <1>2 DEF FileInv, AloneInv
<1>5. AloneInv'
  BY <1>3, <1>4 DEF FileInv, AloneInv
<1>6. GivenInv'
  BY DEF FileInv, GivenInv
<1> QED
  BY <1>5, <1>6 DEF FileInv

\* Every step keeps the invariant.
LEMMA StepFile ==
    ASSUME IInv, FileInv, [Next]_vars
    PROVE  FileInv'
<1>1. CASE UNCHANGED vars
  BY <1>1, ElsewhereFile DEF vars, Busy, Writing
<1>2. ASSUME NEW p \in Process,
             Start(p) \/ Look(p) \/ CreateId(p) \/ FlushId(p)
      PROVE  FileInv'
  <2>1. /\ UNCHANGED fileVars
        /\ pc[p] \notin {"loaded", "write"}
        /\ \E s \in {"off", "look", "create", "flush", "ready"} : pc' = [pc EXCEPT ![p] = s]
    BY <1>2 DEF Start, Look, CreateId, FlushId, Goes
  <2>2. /\ pc'[p] \notin {"loaded", "write"}
        /\ \A q \in Process : q # p => pc'[q] = pc[q]
    BY <2>1 DEF IInv, IdTypes
  <2> QED
    BY <2>1, <2>2, ElsewhereFile DEF Busy, Writing
<1>3. ASSUME NEW p \in Process, Upsert(p) PROVE FileInv'
  <2> DEFINE recs == Records(file)
             map(d, q) == [AsMap(recs) EXCEPT ![d] =
                             IF q = 0 /\ AsMap(recs)[d] # Absent THEN AsMap(recs)[d] ELSE q]
  <2>1. PICK d \in Peer, q \in Port \cup {0} :
           /\ given' = given \cup {[dev |-> d, port |-> q]}
           /\ Loads(p, Upserted(recs, d, q), map(d, q))
    BY <1>3 DEF Upsert
  <2>2. recs \in Seq(given)
    BY RecordsGiven DEF FileInv, GivenInv
  <2>3. given \subseteq Record /\ recs \in Seq(Record)
    BY <2>2 DEF FileInv, GivenInv
  <2>4. [dev |-> d, port |-> q] \in Record
    BY DEF Record
  <2>5. given \subseteq given' /\ given' \subseteq Record
    BY <2>1, <2>3, <2>4
  <2>6. /\ Upserted(recs, d, q) \in Seq(given')
        /\ AsMap(Upserted(recs, d, q)) = map(d, q)
    BY <2>1, <2>2, <2>3, UpsertedMap
  <2>7. UNCHANGED file
    BY <1>3 DEF Upsert
  <2> HIDE DEF recs, map
  <2> QED
    BY <2>1, <2>5, <2>6, <2>7, LoadsFile
<1>4. ASSUME NEW p \in Process, Remove(p) PROVE FileInv'
  <2> DEFINE recs == Records(file)
  <2>1. PICK d \in Peer : Loads(p, Removed(recs, d), [AsMap(recs) EXCEPT ![d] = Absent])
    BY <1>4 DEF Remove
  <2>2. recs \in Seq(given)
    BY RecordsGiven DEF FileInv, GivenInv
  <2>3. given \subseteq Record /\ recs \in Seq(Record)
    BY <2>2 DEF FileInv, GivenInv
  <2>4. Removed(recs, d) \in Seq(given)
    <3>1. Removed(recs, d) \in Seq(given \cap {c \in Record : c.dev # d})
      BY <2>2, KeptIn DEF Removed
    <3> QED
      BY <3>1
  <2>5. AsMap(Removed(recs, d)) = [AsMap(recs) EXCEPT ![d] = Absent]
    BY <2>3, RemovedMap
  <2>6. UNCHANGED <<file, given>>
    BY <1>4 DEF Remove
  <2> HIDE DEF recs
  <2> QED
    BY <2>1, <2>3, <2>4, <2>5, <2>6, LoadsFile
<1>5. ASSUME NEW p \in Process, Open(p) PROVE FileInv'
  <2>1. /\ pc[p] = "loaded" /\ Busy(p) /\ ~Writing(p)
        /\ UNCHANGED <<list, calls, given, expect, clean>>
    BY <1>5 DEF Open, Busy, Writing
  <2>2. clean' = None
    BY <2>1 DEF FileInv, AloneInv
  <2>3. CASE /\ \A q \in Process : Writing(q) => {p, q} \cap Form = {}
             /\ file' = <<>> /\ pc' = [pc EXCEPT ![p] = "write"] /\ UNCHANGED alone
    <3>1. pc'[p] = "write" /\ \A q \in Process : q # p => pc'[q] = pc[q]
      BY <2>3 DEF IInv, IdTypes
    <3>2. \A q \in Process : Busy(q)' <=> Busy(q)
      BY <2>1, <3>1 DEF Busy
    <3>3. AloneInv'
      BY <2>1, <2>2, <2>3, <3>2 DEF FileInv, AloneInv
    <3>4. calls' \in Nat /\ GivenInv'
      BY <2>1, <2>3 DEF FileInv, GivenInv
    <3> QED
      BY <3>3, <3>4 DEF FileInv
  <2>4. CASE pc' = [pc EXCEPT ![p] = "ready"] /\ alone' = alone \ {p} /\ UNCHANGED file
    <3>1. file' \in Seq(given \cup {End, Junk})
      BY <2>4 DEF FileInv, GivenInv
    <3> QED
      BY <2>1, <2>2, <2>4, <3>1, EndsFile
  <2> QED
    BY <1>5, <2>3, <2>4 DEF Open, Ends, Goes
<1>6. ASSUME NEW p \in Process, Flush(p) PROVE FileInv'
  <2>1. PICK broken \in BOOLEAN :
           /\ broken => Len(file) > Len(list[p]) + 1
           /\ file' = Overlay(file, Text(list[p]), broken)
    BY <1>6 DEF Flush
  <2>2. /\ Writing(p) /\ Busy(p)
        /\ clean' = IF p \in alone THEN p ELSE None
        /\ pc' = [pc EXCEPT ![p] = "ready"] /\ alone' = alone \ {p}
        /\ UNCHANGED <<list, calls, given, expect>>
    BY <1>6 DEF Flush, Ends, Goes, Busy, Writing
  <2>3. file \in Seq(given \cup {End, Junk}) /\ list[p] \in Seq(given) /\ list[p] \in Seq(Record)
    BY DEF FileInv, GivenInv
  <2>4. file' \in Seq(given \cup {End, Junk})
    BY <2>1, <2>3, OverlayIn
  <2>5. ASSUME clean' # None
        PROVE  /\ clean' = p /\ p \in alone
               /\ file' = Text(Records(file')) /\ AsMap(Records(file')) = expect[p]
    <3>1. clean' = p /\ p \in alone
      BY <2>2, <2>5
    <3>2. file = <<>> /\ AsMap(list[p]) = expect[p]
      BY <2>2, <3>1 DEF FileInv, AloneInv
    <3>3. file' = Text(list[p])
      BY <2>1, <2>3, <3>2, OverlayNothing
    <3>4. Records(file') = list[p]
      BY <2>3, <3>3, RecordsText
    <3> QED
      BY <3>1, <3>2, <3>3, <3>4
  <2> QED
    BY <2>2, <2>4, <2>5, EndsFile
<1>7. ASSUME NEW p \in Process, FlushFails(p) PROVE FileInv'
  <2>1. /\ Busy(p) /\ pc' = [pc EXCEPT ![p] = "ready"] /\ alone' = alone \ {p}
        /\ UNCHANGED <<list, calls, given, expect, clean>>
        /\ \/ UNCHANGED file
           \/ \E k \in Len(file)..Len(list[p]) : file' = SubSeq(list[p], 1, k)
    BY <1>7 DEF FlushFails, Ends, Goes, Busy, Writing
  <2>2. clean' = None
    BY <2>1 DEF FileInv, AloneInv
  <2>3. file \in Seq(given \cup {End, Junk}) /\ list[p] \in Seq(given)
    BY DEF FileInv, GivenInv
  <2>4. file' \in Seq(given \cup {End, Junk})
    <3>1. CASE UNCHANGED file
      BY <2>3, <3>1
    <3>2. ASSUME NEW k \in Len(file)..Len(list[p]), file' = SubSeq(list[p], 1, k)
          PROVE  file' \in Seq(given \cup {End, Junk})
      <4>1. k \in 0..Len(list[p])
        BY <2>3
      <4>2. SubSeq(list[p], 1, k) \in Seq(given)
        BY <2>3, <4>1
      <4> QED
        BY <3>2, <4>2
    <3> QED
      BY <2>1, <3>1, <3>2
  <2> QED
    BY <2>1, <2>2, <2>4, EndsFile
<1>8. ASSUME NEW p \in Process, Apply(p) PROVE FileInv'
  <2>1. /\ Busy(p) /\ file' = Text(list[p])
        /\ clean' = IF p \in alone THEN p ELSE None
        /\ pc' = [pc EXCEPT ![p] = "ready"] /\ alone' = alone \ {p}
        /\ UNCHANGED <<list, calls, given, expect>>
    BY <1>8 DEF Apply, Ends, Goes, Busy
  <2>2. list[p] \in Seq(given) /\ list[p] \in Seq(Record)
    BY DEF FileInv, GivenInv
  <2>3. file' \in Seq(given \cup {End, Junk})
    BY <2>1, <2>2 DEF Text
  <2>4. Records(file') = list[p]
    BY <2>1, <2>2, RecordsText
  <2>5. p \in alone => AsMap(list[p]) = expect[p]
    BY DEF FileInv, AloneInv
  <2> QED
    BY <2>1, <2>3, <2>4, <2>5, EndsFile
<1>9. ASSUME NEW p \in Process, Exit(p) PROVE FileInv'
  <2>1. /\ pc' = [pc EXCEPT ![p] = "off"] /\ alone' = alone \ {p}
        /\ UNCHANGED <<list, calls, given, expect, clean, file>>
    BY <1>9 DEF Exit, Goes
  <2>2. CASE Busy(p)
    <3>1. clean' = None
      BY <2>1, <2>2 DEF FileInv, AloneInv
    <3>2. file' \in Seq(given \cup {End, Junk})
      BY <2>1 DEF FileInv, GivenInv
    <3> QED
      BY <2>1, <2>2, <3>1, <3>2, EndsFile
  <2>3. CASE ~Busy(p)
    <3>1. alone' = alone
      BY <2>1, <2>3 DEF FileInv, AloneInv
    <3>2. pc'[p] = "off" /\ \A q \in Process : q # p => pc'[q] = pc[q]
      BY <2>1 DEF IInv, IdTypes
    <3> QED
      BY <2>1, <2>3, <3>1, <3>2, ElsewhereFile DEF Busy, Writing, fileVars
  <2> QED
    BY <2>2, <2>3
<1> QED
  BY <1>1, <1>2, <1>3, <1>4, <1>5, <1>6, <1>7, <1>8, <1>9 DEF Next, Save

\* The invariant holds always.
THEOREM FileInvariance == Spec => [](IInv /\ FileInv)
<1>1. Init => FileInv
  <2> SUFFICES ASSUME Init PROVE FileInv
    OBVIOUS
  <2>1. /\ given = {} /\ file = <<>> /\ list = [p \in Process |-> <<>>]
        /\ alone = {} /\ clean = None /\ expect = [p \in Process |-> AsMap(<<>>)]
    BY DEF Init
  <2>2. GivenInv
    BY <2>1 DEF GivenInv
  <2>3. AloneInv
    <3>1. <<>> \in Seq(Record)
      OBVIOUS
    <3>2. AsMap(<<>>) \in [Peer -> Port \cup {0, Absent}]
      BY <3>1, MapType
    <3> QED
      BY <2>1, <3>2 DEF AloneInv
  <2>4. calls \in Nat
    BY DEF Init
  <2> QED
    BY <2>2, <2>3, <2>4 DEF FileInv
<1>2. IInv /\ FileInv /\ [Next]_vars => FileInv'
  BY StepFile
<1> QED
  BY <1>1, <1>2, Invariance, PTL DEF Spec

\* Every variable has its type always.
THEOREM TypeCorrect == Spec => []TypeOK
<1>1. IInv /\ FileInv => TypeOK
  <2> SUFFICES ASSUME IInv, FileInv PROVE TypeOK
    OBVIOUS
  <2>1. /\ prefs \in BOOLEAN /\ raced \in BOOLEAN
        /\ pc \in [Process -> {"off", "look", "create", "flush", "ready", "loaded", "write"}]
        /\ idFile \in Identity \cup {NoFile, Cut}
        /\ self \in [Process -> Identity \cup {NoFile}]
    BY DEF IInv, IdTypes, Working
  <2>2. starts \in Nat
    BY PairStoreAssumption DEF IInv, IdTypes
  <2>3. /\ given \subseteq Record
        /\ file \in Seq(Record \cup {End, Junk})
        /\ list \in [Process -> Seq(Record)]
    BY DEF FileInv, GivenInv
  <2>4. /\ calls \in Nat /\ alone \subseteq Process
        /\ expect \in [Process -> [Peer -> Port \cup {0, Absent}]]
        /\ clean \in Process \cup {None}
    BY DEF FileInv, AloneInv
  <2> QED
    BY <2>1, <2>2, <2>3, <2>4 DEF TypeOK
<1> QED
  BY <1>1, FileInvariance, PTL

\* Whoever reads the file finds only records that some call put there, for any
\* number of processes that write at once, are killed or fail to flush.
THEOREM NoneInvented == Spec => []NothingInvented
<1>1. FileInv => NothingInvented
  <2> SUFFICES ASSUME FileInv PROVE NothingInvented
    OBVIOUS
  <2>1. Records(file) \in Seq(given)
    BY RecordsGiven DEF FileInv, GivenInv
  <2> QED
    BY <2>1 DEF NothingInvented
<1> QED
  BY <1>1, FileInvariance, PTL

\* A call that ran alone and without failure leaves the file whole, with what it
\* found and its own change.
THEOREM AloneIsExact == Spec => []ExactWhenAlone
<1>1. FileInv => ExactWhenAlone
  BY DEF FileInv, AloneInv, ExactWhenAlone, Valid
<1> QED
  BY <1>1, FileInvariance, PTL
================================================================================
