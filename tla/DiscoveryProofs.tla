-------------------------- MODULE DiscoveryProofs --------------------------
(***************************************************************************)
(* Proofs about Discovery: what the decoders make of the payloads, and the *)
(* invariant of searches and lookups.                                      *)
(***************************************************************************)
EXTENDS Discovery, FiniteSetTheorems, WellFoundedInduction, TLAPS

(* Induction *)

\* Every set of natural numbers that is not empty has a least element.
LEMMA Least ==
    ASSUME NEW T \in SUBSET Nat, T # {}
    PROVE  \E x \in T : \A y \in T : x <= y
<1> DEFINE Below == {1..n : n \in T}
<1>1. Below \subseteq FiniteSubsetsOf(Nat) /\ Below # {}
  <2>1. \A n \in Nat : IsFiniteSet(1..n) /\ 1..n \subseteq Nat
    BY FS_Interval
  <2> QED
    BY <2>1 DEF FiniteSubsetsOf
<1>2. PICK B \in Below : \A C \in Below : <<C, B>> \notin StrictSubsetOrdering(Nat)
  BY <1>1, FS_StrictSubsetOrderingWellFounded, WFMin
<1>3. PICK x \in T : B = 1..x
  OBVIOUS
<1>4. ASSUME NEW y \in T, ~(x <= y) PROVE FALSE
  <2>1. 1..y \in Below /\ 1..y \subseteq 1..x /\ x \in 1..x /\ x \notin 1..y
    BY <1>4
  <2>2. 1..y \in SUBSET Nat /\ 1..x \in SUBSET Nat
    OBVIOUS
  <2> QED
    BY <1>2, <1>3, <2>1, <2>2 DEF StrictSubsetOrdering
<1> QED
  BY <1>4

\* A set that has 0 and with every number the next one has all numbers.
LEMMA Induction ==
    ASSUME NEW P, 0 \in P, \A n \in Nat : n \in P => n + 1 \in P
    PROVE  Nat \subseteq P
<1> SUFFICES ASSUME Nat \ P # {} PROVE FALSE
  OBVIOUS
<1>1. PICK x \in Nat \ P : \A y \in Nat \ P : x <= y
  BY Least
<1>2. x # 0 /\ x - 1 \in Nat /\ x - 1 \notin Nat \ P
  BY <1>1
<1>3. x - 1 + 1 = x
  OBVIOUS
<1> QED
  BY <1>1, <1>2, <1>3
\* A set that has the empty sequence and with every sequence over S the longer
\* ones has all sequences over S.
LEMMA SeqInduction ==
    ASSUME NEW S, NEW P, <<>> \in P,
           \A s \in Seq(S), x \in S : s \in P => Append(s, x) \in P
    PROVE  Seq(S) \subseteq P
<1> DEFINE N == {n \in Nat : \A s \in Seq(S) : Len(s) = n => s \in P}
<1>1. 0 \in N
  <2>1. \A s \in Seq(S) : Len(s) = 0 => s = <<>>
    OBVIOUS
  <2> QED
    BY <2>1
<1>2. ASSUME NEW n \in Nat, n \in N PROVE n + 1 \in N
  <2>1. ASSUME NEW s \in Seq(S), Len(s) = n + 1 PROVE s \in P
    <3> DEFINE r == SubSeq(s, 1, n)
    <3>1. r \in Seq(S) /\ Len(r) = n /\ s[n + 1] \in S
      BY <2>1
    <3>2. s = Append(r, s[n + 1])
      BY <2>1, <3>1
    <3>3. r \in P
      BY <1>2, <3>1
    <3> QED
      BY <3>1, <3>2, <3>3
  <2> QED
    BY <2>1
<1> HIDE DEF N
<1>3. Nat \subseteq N
  BY <1>1, <1>2, Induction
<1> QED
  BY <1>3 DEF N

\* An automaton over the characters in C: its states S, the first of them, and
\* its step.
IsAutomaton(S, C, a, step) == a \in S /\ step \in [S \X C -> S]

\* g has the states of the automaton along s.
Along(s, a, step, g) == g[0] = a /\ \A i \in 1..Len(s) : g[i] = step[<<g[i - 1], s[i]>>]

\* Along every sequence there are such states.
LEMMA Iterates ==
    ASSUME NEW S, NEW C, NEW a, NEW step, IsAutomaton(S, C, a, step)
    PROVE  \A s \in Seq(C) : \E g \in [0..Len(s) -> S] : Along(s, a, step, g)
<1> USE DEF IsAutomaton, Along
<1> DEFINE Over(s, g) == g[0] = a /\ \A i \in 1..Len(s) : g[i] = step[<<g[i - 1], s[i]>>]
           P == {s \in Seq(C) : \E g \in [0..Len(s) -> S] : Over(s, g)}
<1>1. <<>> \in P
  <2> DEFINE g == [i \in 0..0 |-> a]
  <2>1. g \in [0..Len(<<>>) -> S] /\ Over(<<>>, g)
    OBVIOUS
  <2>2. <<>> \in Seq(C)
    OBVIOUS
  <2> HIDE DEF g, Over
  <2> QED
    BY <2>1, <2>2
<1>2. ASSUME NEW s \in Seq(C), NEW x \in C, s \in P PROVE Append(s, x) \in P
  <2> DEFINE r == Append(s, x)
             n == Len(s)
  <2>1. PICK g \in [0..n -> S] : Over(s, g)
    BY <1>2
  <2>2. /\ r \in Seq(C) /\ Len(r) = n + 1 /\ n \in Nat /\ r[n + 1] = x
        /\ \A i \in 1..n : r[i] = s[i]
    OBVIOUS
  <2> DEFINE h == [i \in 0..(n + 1) |-> IF i = n + 1 THEN step[<<g[n], x>>] ELSE g[i]]
  <2>3. h[0] = a /\ h[n + 1] = step[<<g[n], x>>] /\ \A i \in 0..n : h[i] = g[i]
    <3>1. \A i \in 0..n : i \in 0..(n + 1) /\ i # n + 1
      BY <2>2
    <3>2. 0 \in 0..n /\ n + 1 \in 0..(n + 1)
      BY <2>2
    <3>3. g[0] = a
      BY <2>1, Zenon
    <3> HIDE DEF n
    <3> QED
      BY <3>1, <3>2, <3>3
  <2>4. g[n] \in S /\ step[<<g[n], x>>] \in S
    <3>1. n \in 0..n
      BY <2>2
    <3>2. g[n] \in S
      BY <3>1
    <3>3. <<g[n], x>> \in S \X C
      BY <3>2
    <3> QED
      BY <3>2, <3>3
  <2>5. h \in [0..Len(r) -> S]
    <3>1. \A i \in 0..(n + 1) : i # n + 1 => i \in 0..n
      BY <2>2
    <3> HIDE DEF n
    <3> QED
      BY <2>2, <2>4, <3>1
  <2> HIDE DEF h, r
  <2>6. ASSUME NEW i \in 1..(n + 1) PROVE h[i] = step[<<h[i - 1], r[i]>>]
    <3>1. CASE i = n + 1
      <4>1. i - 1 = n /\ n \in 0..n
        BY <2>2, <3>1
      <4> QED
        BY <4>1, <2>2, <2>3, <3>1
    <3>2. CASE i # n + 1
      <4>1. i \in 1..n /\ i \in 0..n /\ i - 1 \in 0..n
        BY <2>2, <3>2
      <4>2. g[i] = step[<<g[i - 1], s[i]>>]
        BY <2>1, <4>1
      <4> QED
        BY <4>1, <4>2, <2>2, <2>3
    <3> QED
      BY <3>1, <3>2
  <2>7. Over(r, h)
    BY <2>2, <2>3, <2>6
  <2> HIDE DEF Over
  <2> QED
    BY <2>2, <2>5, <2>7 DEF r
<1> HIDE DEF P
<1>3. Seq(C) \subseteq P
  BY <1>1, <1>2, SeqInduction
<1> QED
  BY <1>3 DEF P

\* The same, as long as the states are in S.
AlongIn(S, s, a, step, g) ==
    /\ g[0] = a
    /\ \A i \in 1..Len(s) : g[i - 1] \in S => g[i] = step[<<g[i - 1], s[i]>>]

\* The states are in S.
LEMMA IteratesIn ==
    ASSUME NEW S, NEW C, NEW a, NEW step, IsAutomaton(S, C, a, step),
           NEW s \in Seq(C), NEW out, AlongIn(S, s, a, step, out)
    PROVE  /\ \A i \in 0..Len(s) : out[i] \in S
           /\ Along(s, a, step, out)
<1> USE DEF IsAutomaton, Along, AlongIn
<1> DEFINE n == Len(s)
           P == {i \in Nat : i <= n => out[i] \in S}
<1>1. n \in Nat /\ \A i \in 1..n : s[i] \in C
  OBVIOUS
<1>2. 0 \in P
  OBVIOUS
<1>3. ASSUME NEW i \in Nat, i \in P PROVE i + 1 \in P
  <2> SUFFICES ASSUME i + 1 <= n PROVE out[i + 1] \in S
    OBVIOUS
  <2>1. i + 1 \in 1..n /\ i + 1 - 1 = i /\ i <= n
    BY <1>1
  <2>2. out[i] \in S
    BY <1>3, <2>1
  <2>3. out[i + 1] = step[<<out[i], s[i + 1]>>]
    BY <2>1, <2>2
  <2>4. <<out[i], s[i + 1]>> \in S \X C
    BY <1>1, <2>1, <2>2
  <2> HIDE DEF n, P
  <2> QED
    BY <2>3, <2>4
<1>4. Nat \subseteq P
  <2> HIDE DEF P
  <2> QED
    BY <1>2, <1>3, Induction
<1>5. \A i \in 0..n : out[i] \in S
  BY <1>1, <1>4
<1>6. \A i \in 1..n : i - 1 \in 0..n
  BY <1>1
<1> HIDE DEF P
<1> QED
  BY <1>5, <1>6

\* Two such functions, one over a sequence and one over it with an element more,
\* agree.
LEMMA IteratesOn ==
    ASSUME NEW S, NEW C, NEW a, NEW step, IsAutomaton(S, C, a, step),
           NEW s \in Seq(C), NEW x \in C, NEW g, NEW h,
           Along(s, a, step, g), Along(Append(s, x), a, step, h)
    PROVE  h[Len(Append(s, x))] = step[<<g[Len(s)], x>>]
<1> DEFINE r == Append(s, x)
           n == Len(s)
<1>1. /\ Len(r) = n + 1 /\ n \in Nat /\ r[n + 1] = x
      /\ \A i \in 1..n : r[i] = s[i]
  OBVIOUS
<1> USE DEF IsAutomaton, Along
<1>2. \A i \in 1..(n + 1) : h[i] = step[<<h[i - 1], r[i]>>]
  BY <1>1
<1> HIDE DEF r
<1> DEFINE P == {i \in Nat : i <= n => h[i] = g[i]}
<1>3. 0 \in P
  OBVIOUS
<1>4. ASSUME NEW i \in Nat, i \in P PROVE i + 1 \in P
  <2> SUFFICES ASSUME i + 1 <= n PROVE h[i + 1] = g[i + 1]
    OBVIOUS
  <2>1. i + 1 \in 1..n /\ i + 1 \in 1..(n + 1) /\ i + 1 - 1 = i /\ i <= n
    BY <1>1
  <2>2. h[i] = g[i]
    BY <1>4, <2>1
  <2>3. /\ g[i + 1] = step[<<g[i + 1 - 1], s[i + 1]>>]
        /\ h[i + 1] = step[<<h[i + 1 - 1], r[i + 1]>>]
    BY <1>2, <2>1
  <2>4. r[i + 1] = s[i + 1]
    BY <1>1, <2>1
  <2> HIDE DEF n, P
  <2> QED
    BY <2>1, <2>2, <2>3, <2>4
<1>5. n \in P
  <2> HIDE DEF P
  <2> QED
    BY <1>1, <1>3, <1>4, Induction
<1>6. h[n] = g[n]
  BY <1>1, <1>5
<1>7. h[n + 1] = step[<<h[n + 1 - 1], r[n + 1]>>] /\ n + 1 - 1 = n
  BY <1>1, <1>2
<1> HIDE DEF n, P
<1> QED
  BY <1>1, <1>6, <1>7 DEF r

\* Escape, one character at a time.
Escaped(ch) == IF ch \in Special THEN <<Backslash, ch>> ELSE <<ch>>

\* Escaping, one character at a time: the automaton whose state is what is escaped.
LEMMA EscapeStep ==
    ASSUME NEW C, Backslash \in C
    PROVE  /\ Escape(<<>>) = <<>>
           /\ \A s \in Seq(C) : Escape(s) \in Seq(C)
           /\ \A s \in Seq(C), x \in C : Escape(Append(s, x)) = Escape(s) \o Escaped(x)
<1> DEFINE S == Seq(C)
           step == [z \in S \X C |-> z[1] \o Escaped(z[2])]
           Body(s, g, i) == IF i = 0 THEN <<>>
                            ELSE g[i - 1] \o IF s[i] \in Special THEN <<Backslash, s[i]>>
                                                                ELSE <<s[i]>>
<1>1. <<>> \in S /\ \A x \in C : Escaped(x) \in S
  BY DEF Escaped
<1>2. IsAutomaton(S, C, <<>>, step)
  BY <1>1 DEF IsAutomaton
<1>3. \A t \in S, x \in C : step[<<t, x>>] = t \o Escaped(x)
  OBVIOUS
<1>4. ASSUME NEW s \in Seq(C)
      PROVE  \E g : Along(s, <<>>, step, g) /\ g[Len(s)] \in S /\ Escape(s) = g[Len(s)]
  <2>1. \A i \in 1..Len(s) : i # 0 /\ i \in 0..Len(s) /\ i - 1 \in 0..Len(s) /\ s[i] \in C
    OBVIOUS
  <2>2. 0 \in 0..Len(s) /\ Len(s) \in 0..Len(s) /\ \A i \in 0..Len(s) : i = 0 \/ i \in 1..Len(s)
    OBVIOUS
  <2>3. ASSUME NEW f, NEW i \in 1..Len(s), f[i - 1] \in S
        PROVE  Body(s, f, i) = step[<<f[i - 1], s[i]>>]
    <3> HIDE DEF step, S
    <3> QED
      BY <1>3, <2>1, <2>3 DEF Escaped
  <2>4. PICK g \in [0..Len(s) -> S] : Along(s, <<>>, step, g)
    <3> HIDE DEF step, S
    <3> QED
      BY <1>2, Iterates, Zenon DEF S
  <2>5. \A i \in 1..Len(s) : g[i] = Body(s, g, i)
    <3>1. \A i \in 1..Len(s) : g[i - 1] \in S
      BY <2>1
    <3>2. \A i \in 1..Len(s) : g[i] = step[<<g[i - 1], s[i]>>]
      BY <2>4, Zenon DEF Along
    <3> HIDE DEF step, S, Body
    <3> QED
      BY <2>3, <3>1, <3>2
  <2>6. g = [i \in 0..Len(s) |-> Body(s, g, i)]
    <3>1. g[0] = Body(s, g, 0)
      BY <2>4, Zenon DEF Along
    <3> HIDE DEF Body, S
    <3> QED
      BY <2>2, <2>5, <3>1
  <2> DEFINE out == CHOOSE f : f = [i \in 0..Len(s) |-> Body(s, f, i)]
  <2>7. out = [i \in 0..Len(s) |-> Body(s, out, i)]
    BY <2>6, Zenon
  <2>8. Escape(s) = out[Len(s)]
    BY DEF Escape
  <2> HIDE DEF out
  <2>9. \A i \in 0..Len(s) : out[i] = Body(s, out, i)
    BY <2>7, Zenon
  <2>10. AlongIn(S, s, <<>>, step, out)
    <3>1. out[0] = <<>>
      BY <2>2, <2>9
    <3>2. \A i \in 1..Len(s) : out[i - 1] \in S => out[i] = step[<<out[i - 1], s[i]>>]
      <4> HIDE DEF Body, step, S
      <4> QED
        BY <2>1, <2>3, <2>9
    <3> HIDE DEF step, S
    <3> QED
      BY <3>1, <3>2, Zenon DEF AlongIn
  <2>11. (\A i \in 0..Len(s) : out[i] \in S) /\ Along(s, <<>>, step, out)
    <3> HIDE DEF step, S
    <3> QED
      BY <1>2, <2>10, IteratesIn, Zenon
  <2> HIDE DEF step, S
  <2> QED
    BY <2>2, <2>8, <2>11, Zenon
<1> HIDE DEF step, S
<1>5. Escape(<<>>) = <<>>
  <2>1. <<>> \in Seq(C) /\ Len(<<>>) = 0
    OBVIOUS
  <2>2. PICK g : Along(<<>>, <<>>, step, g) /\ Escape(<<>>) = g[Len(<<>>)]
    BY <1>4, <2>1, Zenon
  <2>3. g[0] = <<>>
    BY <2>2, Zenon DEF Along
  <2> QED
    BY <2>1, <2>2, <2>3
<1>6. \A s \in Seq(C) : Escape(s) \in Seq(C)
  BY <1>4, Zenon DEF S
<1>7. ASSUME NEW s \in Seq(C), NEW x \in C
      PROVE  Escape(Append(s, x)) = Escape(s) \o Escaped(x)
  <2>1. Append(s, x) \in Seq(C)
    OBVIOUS
  <2>2. PICK g : Along(s, <<>>, step, g) /\ g[Len(s)] \in S /\ Escape(s) = g[Len(s)]
    BY <1>4, Zenon
  <2>3. PICK h : Along(Append(s, x), <<>>, step, h)
                 /\ Escape(Append(s, x)) = h[Len(Append(s, x))]
    BY <1>4, <2>1, Zenon
  <2>4. h[Len(Append(s, x))] = step[<<g[Len(s)], x>>]
    BY <1>2, <2>2, <2>3, IteratesOn
  <2>5. step[<<g[Len(s)], x>>] = g[Len(s)] \o Escaped(x)
    BY <1>3, <2>2
  <2> QED
    BY <2>2, <2>3, <2>4, <2>5, Zenon
<1> QED
  BY <1>5, <1>6, <1>7, Zenon

\* Unescape, one character at a time.
UnescapeStates(C) == [text : Seq(C), escaping : BOOLEAN]
UnescapeStart == [text |-> <<>>, escaping |-> FALSE]

\* What one turn of the loop makes of a state.
LEMMA UnescapeTurn ==
    ASSUME NEW t, NEW x
    PROVE  /\ UnescapeChar([text |-> t, escaping |-> TRUE], x) =
                [text |-> Append(t, x), escaping |-> FALSE]
           /\ x = Backslash => UnescapeChar([text |-> t, escaping |-> FALSE], x) =
                [text |-> t, escaping |-> TRUE]
           /\ x # Backslash => UnescapeChar([text |-> t, escaping |-> FALSE], x) =
                [text |-> Append(t, x), escaping |-> FALSE]
<1>1. UnescapeChar([text |-> t, escaping |-> TRUE], x) = [text |-> Append(t, x), escaping |-> FALSE]
  BY DEF UnescapeChar
<1>2. ASSUME x = Backslash
      PROVE  UnescapeChar([text |-> t, escaping |-> FALSE], x) = [text |-> t, escaping |-> TRUE]
  BY <1>2 DEF UnescapeChar
<1>3. ASSUME x # Backslash
      PROVE  UnescapeChar([text |-> t, escaping |-> FALSE], x) =
               [text |-> Append(t, x), escaping |-> FALSE]
  BY <1>3 DEF UnescapeChar
<1> QED
  BY <1>1, <1>2, <1>3, Zenon

\* Unescaping is the automaton of UnescapeChar.
LEMMA UnescapeStep ==
    ASSUME NEW C
    PROVE  /\ Unescape(<<>>) = UnescapeStart
           /\ \A s \in Seq(C) : Unescape(s) \in UnescapeStates(C)
           /\ \A s \in Seq(C), x \in C : Unescape(Append(s, x)) = UnescapeChar(Unescape(s), x)
<1> DEFINE S == UnescapeStates(C)
           start == UnescapeStart
           step == [z \in S \X C |-> UnescapeChar(z[1], z[2])]
           Body(s, g, i) == IF i = 0 THEN start ELSE UnescapeChar(g[i - 1], s[i])
<1>1. start \in S /\ \A r \in S, x \in C : UnescapeChar(r, x) \in S
  <2>1. start \in S
    BY DEF UnescapeStart, UnescapeStates
  <2>2. ASSUME NEW r \in S, NEW x \in C PROVE UnescapeChar(r, x) \in S
    <3>1. PICK t \in Seq(C), e \in BOOLEAN : r = [text |-> t, escaping |-> e]
      BY DEF UnescapeStates
    <3>2. Append(t, x) \in Seq(C)
      OBVIOUS
    <3>3. \A u \in Seq(C), f \in BOOLEAN : [text |-> u, escaping |-> f] \in S
      BY DEF UnescapeStates
    <3> HIDE DEF S
    <3> QED
      BY <3>1, <3>2, <3>3, UnescapeTurn
  <2> QED
    BY <2>1, <2>2
<1>2. IsAutomaton(S, C, start, step)
  BY <1>1 DEF IsAutomaton
<1>3. \A r \in S, x \in C : step[<<r, x>>] = UnescapeChar(r, x)
  <2> HIDE DEF S
  <2> QED
    OBVIOUS
<1>4. ASSUME NEW s \in Seq(C)
      PROVE  \E g : Along(s, start, step, g) /\ g[Len(s)] \in S /\ Unescape(s) = g[Len(s)]
  <2>1. \A i \in 1..Len(s) : i # 0 /\ i \in 0..Len(s) /\ i - 1 \in 0..Len(s) /\ s[i] \in C
    OBVIOUS
  <2>2. 0 \in 0..Len(s) /\ Len(s) \in 0..Len(s) /\ \A i \in 0..Len(s) : i = 0 \/ i \in 1..Len(s)
    OBVIOUS
  <2>3. ASSUME NEW f, NEW i \in 1..Len(s), f[i - 1] \in S
        PROVE  Body(s, f, i) = step[<<f[i - 1], s[i]>>]
    <3> HIDE DEF step, S
    <3> QED
      BY <1>3, <2>1, <2>3
  <2>4. PICK g \in [0..Len(s) -> S] : Along(s, start, step, g)
    <3> HIDE DEF step, S, start
    <3> QED
      BY <1>2, Iterates, Zenon
  <2>5. \A i \in 1..Len(s) : g[i] = Body(s, g, i)
    <3>1. \A i \in 1..Len(s) : g[i - 1] \in S
      BY <2>1
    <3>2. \A i \in 1..Len(s) : g[i] = step[<<g[i - 1], s[i]>>]
      BY <2>4, Zenon DEF Along
    <3> HIDE DEF step, S, Body
    <3> QED
      BY <2>3, <3>1, <3>2
  <2>6. g = [i \in 0..Len(s) |-> Body(s, g, i)]
    <3>1. g[0] = Body(s, g, 0)
      BY <2>4, Zenon DEF Along
    <3> HIDE DEF Body, S
    <3> QED
      BY <2>2, <2>5, <3>1
  <2> DEFINE at == CHOOSE f : f = [i \in 0..Len(s) |-> Body(s, f, i)]
  <2>7. at = [i \in 0..Len(s) |-> Body(s, at, i)]
    BY <2>6, Zenon
  <2>8. Unescape(s) = at[Len(s)]
    BY DEF Unescape, UnescapeStart
  <2> HIDE DEF at
  <2>9. \A i \in 0..Len(s) : at[i] = Body(s, at, i)
    BY <2>7, Zenon
  <2>10. AlongIn(S, s, start, step, at)
    <3>1. at[0] = start
      <4> HIDE DEF start
      <4> QED
        BY <2>2, <2>9
    <3>2. \A i \in 1..Len(s) : at[i - 1] \in S => at[i] = step[<<at[i - 1], s[i]>>]
      <4> HIDE DEF Body, step, S
      <4> QED
        BY <2>1, <2>3, <2>9
    <3> HIDE DEF step, S, start
    <3> QED
      BY <3>1, <3>2, Zenon DEF AlongIn
  <2>11. (\A i \in 0..Len(s) : at[i] \in S) /\ Along(s, start, step, at)
    <3> HIDE DEF step, S, start
    <3> QED
      BY <1>2, <2>10, IteratesIn, Zenon
  <2> HIDE DEF step, S, start
  <2> QED
    BY <2>2, <2>8, <2>11, Zenon
<1> HIDE DEF step, S, start
<1>5. Unescape(<<>>) = start
  <2>1. <<>> \in Seq(C) /\ Len(<<>>) = 0
    OBVIOUS
  <2>2. PICK g : Along(<<>>, start, step, g) /\ Unescape(<<>>) = g[Len(<<>>)]
    BY <1>4, <2>1, Zenon
  <2>3. g[0] = start
    BY <2>2, Zenon DEF Along
  <2> QED
    BY <2>1, <2>2, <2>3
<1>6. \A s \in Seq(C) : Unescape(s) \in S
  BY <1>4, Zenon
<1>7. ASSUME NEW s \in Seq(C), NEW x \in C
      PROVE  Unescape(Append(s, x)) = UnescapeChar(Unescape(s), x)
  <2>1. Append(s, x) \in Seq(C)
    OBVIOUS
  <2>2. PICK g : Along(s, start, step, g) /\ g[Len(s)] \in S /\ Unescape(s) = g[Len(s)]
    BY <1>4, Zenon
  <2>3. PICK h : Along(Append(s, x), start, step, h)
                 /\ Unescape(Append(s, x)) = h[Len(Append(s, x))]
    BY <1>4, <2>1, Zenon
  <2>4. h[Len(Append(s, x))] = step[<<g[Len(s)], x>>]
    BY <1>2, <2>2, <2>3, IteratesOn
  <2>5. step[<<g[Len(s)], x>>] = UnescapeChar(g[Len(s)], x)
    BY <1>3, <2>2
  <2> QED
    BY <2>2, <2>3, <2>4, <2>5, Zenon
<1> QED
  BY <1>5, <1>6, <1>7, Zenon DEF S, start

\* Splitting, one character at a time.
Within(f, c) == [fields |-> f, current |-> c, escaping |-> FALSE]
Escaping(f, c) == [fields |-> f, current |-> c, escaping |-> TRUE]
SplitStates(C) == [fields : Seq(Seq(C)), current : Seq(C), escaping : BOOLEAN]
SplitStart == Within(<<>>, <<>>)

\* What one turn of the loop makes of a state: after a backslash, and with a
\* backslash, a bar or any other character.
LEMMA SplitEscaped ==
    ASSUME NEW f, NEW c, NEW x
    PROVE  SplitChar(Escaping(f, c), x) = Within(f, Append(c, x))
  BY DEF SplitChar, Within, Escaping

\* A backslash escapes what follows.
LEMMA SplitBackslash ==
    ASSUME NEW f, NEW c
    PROVE  SplitChar(Within(f, c), Backslash) = Escaping(f, c)
  BY DEF SplitChar, Within, Escaping

\* A bar ends the field.
LEMMA SplitBar ==
    ASSUME NEW f, NEW c
    PROVE  SplitChar(Within(f, c), Bar) = Within(Append(f, c), <<>>)
<1>1. Bar # Backslash
  BY DEF Bar, Backslash
<1> QED
  BY <1>1 DEF SplitChar, Within, Escaping

\* Any other character is added to the field.
LEMMA SplitPlain ==
    ASSUME NEW f, NEW c, NEW x, x \notin Special
    PROVE  SplitChar(Within(f, c), x) = Within(f, Append(c, x))
<1>1. x # Backslash /\ x # Bar
  BY DEF Special
<1> QED
  BY <1>1 DEF SplitChar, Within, Escaping

\* Splitting is the automaton of SplitChar.
LEMMA SplittingStep ==
    ASSUME NEW C
    PROVE  /\ Splitting(<<>>) = SplitStart
           /\ \A s \in Seq(C) : Splitting(s) \in SplitStates(C)
           /\ \A s \in Seq(C), x \in C : Splitting(Append(s, x)) = SplitChar(Splitting(s), x)
<1> DEFINE S == SplitStates(C)
           start == SplitStart
           step == [z \in S \X C |-> SplitChar(z[1], z[2])]
           Body(s, g, i) == IF i = 0 THEN start ELSE SplitChar(g[i - 1], s[i])
<1>1. start \in S /\ \A r \in S, x \in C : SplitChar(r, x) \in S
  <2>1. start \in S
    BY DEF SplitStart, SplitStates, Within, Escaping
  <2>2. ASSUME NEW r \in S, NEW x \in C PROVE SplitChar(r, x) \in S
    <3>1. PICK f \in Seq(Seq(C)), c \in Seq(C) : r = Within(f, c) \/ r = Escaping(f, c)
      BY DEF SplitStates, Within, Escaping
    <3>2. Append(c, x) \in Seq(C) /\ <<>> \in Seq(C) /\ Append(f, c) \in Seq(Seq(C))
      OBVIOUS
    <3>3. \A g \in Seq(Seq(C)), d \in Seq(C) : Within(g, d) \in S /\ Escaping(g, d) \in S
      BY DEF SplitStates, Within, Escaping
    <3> HIDE DEF S
    <3>4. CASE r = Escaping(f, c)
      <4>1. SplitChar(Escaping(f, c), x) = Within(f, Append(c, x))
        BY SplitEscaped
      <4> QED
        BY <4>1, <3>2, <3>3, <3>4
    <3>5. CASE r = Within(f, c)
      <4>2. CASE x = Backslash
        BY <3>5, <4>2, <3>3, SplitBackslash
      <4>3. CASE x = Bar
        BY <3>5, <4>3, <3>2, <3>3, SplitBar
      <4>4. CASE x \notin Special
        <5>1. SplitChar(Within(f, c), x) = Within(f, Append(c, x))
          BY <4>4, SplitPlain
        <5> QED
          BY <5>1, <3>2, <3>3, <3>5
      <4> QED
        BY <4>2, <4>3, <4>4 DEF Special
    <3> QED
      BY <3>1, <3>4, <3>5
  <2> QED
    BY <2>1, <2>2
<1>2. IsAutomaton(S, C, start, step)
  BY <1>1 DEF IsAutomaton
<1>3. \A r \in S, x \in C : step[<<r, x>>] = SplitChar(r, x)
  <2> HIDE DEF S
  <2> QED
    OBVIOUS
<1>4. ASSUME NEW s \in Seq(C)
      PROVE  \E g : Along(s, start, step, g) /\ g[Len(s)] \in S /\ Splitting(s) = g[Len(s)]
  <2>1. \A i \in 1..Len(s) : i # 0 /\ i \in 0..Len(s) /\ i - 1 \in 0..Len(s) /\ s[i] \in C
    OBVIOUS
  <2>2. 0 \in 0..Len(s) /\ Len(s) \in 0..Len(s) /\ \A i \in 0..Len(s) : i = 0 \/ i \in 1..Len(s)
    OBVIOUS
  <2>3. ASSUME NEW f, NEW i \in 1..Len(s), f[i - 1] \in S
        PROVE  Body(s, f, i) = step[<<f[i - 1], s[i]>>]
    <3> HIDE DEF step, S
    <3> QED
      BY <1>3, <2>1, <2>3
  <2>4. PICK g \in [0..Len(s) -> S] : Along(s, start, step, g)
    <3> HIDE DEF step, S, start
    <3> QED
      BY <1>2, Iterates, Zenon
  <2>5. \A i \in 1..Len(s) : g[i] = Body(s, g, i)
    <3>1. \A i \in 1..Len(s) : g[i - 1] \in S
      BY <2>1
    <3>2. \A i \in 1..Len(s) : g[i] = step[<<g[i - 1], s[i]>>]
      BY <2>4, Zenon DEF Along
    <3> HIDE DEF step, S, Body
    <3> QED
      BY <2>3, <3>1, <3>2
  <2>6. g = [i \in 0..Len(s) |-> Body(s, g, i)]
    <3>1. g[0] = Body(s, g, 0)
      BY <2>4, Zenon DEF Along
    <3> HIDE DEF Body, S
    <3> QED
      BY <2>2, <2>5, <3>1
  <2> DEFINE at == CHOOSE f : f = [i \in 0..Len(s) |-> Body(s, f, i)]
  <2>7. at = [i \in 0..Len(s) |-> Body(s, at, i)]
    BY <2>6, Zenon
  <2>8. Splitting(s) = at[Len(s)]
    BY DEF Splitting, SplitStart, Within, Escaping
  <2> HIDE DEF at
  <2>9. \A i \in 0..Len(s) : at[i] = Body(s, at, i)
    BY <2>7, Zenon
  <2>10. AlongIn(S, s, start, step, at)
    <3>1. at[0] = start
      <4> HIDE DEF start
      <4> QED
        BY <2>2, <2>9
    <3>2. \A i \in 1..Len(s) : at[i - 1] \in S => at[i] = step[<<at[i - 1], s[i]>>]
      <4> HIDE DEF Body, step, S
      <4> QED
        BY <2>1, <2>3, <2>9
    <3> HIDE DEF step, S, start
    <3> QED
      BY <3>1, <3>2, Zenon DEF AlongIn
  <2>11. (\A i \in 0..Len(s) : at[i] \in S) /\ Along(s, start, step, at)
    <3> HIDE DEF step, S, start
    <3> QED
      BY <1>2, <2>10, IteratesIn, Zenon
  <2> HIDE DEF step, S, start
  <2> QED
    BY <2>2, <2>8, <2>11, Zenon
<1> HIDE DEF step, S, start
<1>5. Splitting(<<>>) = start
  <2>1. <<>> \in Seq(C) /\ Len(<<>>) = 0
    OBVIOUS
  <2>2. PICK g : Along(<<>>, start, step, g) /\ Splitting(<<>>) = g[Len(<<>>)]
    BY <1>4, <2>1, Zenon
  <2>3. g[0] = start
    BY <2>2, Zenon DEF Along
  <2> QED
    BY <2>1, <2>2, <2>3
<1>6. \A s \in Seq(C) : Splitting(s) \in S
  BY <1>4, Zenon
<1>7. ASSUME NEW s \in Seq(C), NEW x \in C
      PROVE  Splitting(Append(s, x)) = SplitChar(Splitting(s), x)
  <2>1. Append(s, x) \in Seq(C)
    OBVIOUS
  <2>2. PICK g : Along(s, start, step, g) /\ g[Len(s)] \in S /\ Splitting(s) = g[Len(s)]
    BY <1>4, Zenon
  <2>3. PICK h : Along(Append(s, x), start, step, h)
                 /\ Splitting(Append(s, x)) = h[Len(Append(s, x))]
    BY <1>4, <2>1, Zenon
  <2>4. h[Len(Append(s, x))] = step[<<g[Len(s)], x>>]
    BY <1>2, <2>2, <2>3, IteratesOn
  <2>5. step[<<g[Len(s)], x>>] = SplitChar(g[Len(s)], x)
    BY <1>3, <2>2
  <2> QED
    BY <2>2, <2>3, <2>4, <2>5, Zenon
<1> QED
  BY <1>5, <1>6, <1>7, Zenon DEF S, start

-----------------------------------------------------------------------------
(* What is encoded is decoded *)

\* An element at the end of the second of two sequences.
LEMMA AppendLast ==
    ASSUME NEW C, NEW p \in Seq(C), NEW r \in Seq(C), NEW x \in C
    PROVE  p \o Append(r, x) = Append(p \o r, x) /\ Append(r, x) \in Seq(C) /\ p \o r \in Seq(C)
  OBVIOUS

\* The fields of an escaped text: it is read back into the current field as it
\* was before it was escaped.
LEMMA SplittingEscape ==
    ASSUME NEW C, Backslash \in C, NEW p \in Seq(C), NEW f, NEW c \in Seq(C),
           Splitting(p) = Within(f, c)
    PROVE  \A n \in Seq(C) : Splitting(p \o Escape(n)) = Within(f, c \o n)
<1> DEFINE P == {n \in Seq(C) : Splitting(p \o Escape(n)) = Within(f, c \o n)}
<1>1. <<>> \in P
  <2>1. Escape(<<>>) = <<>>
    BY EscapeStep
  <2>2. p \o <<>> = p /\ c \o <<>> = c /\ <<>> \in Seq(C)
    OBVIOUS
  <2> QED
    BY <2>1, <2>2, Zenon
<1>2. ASSUME NEW n \in Seq(C), NEW x \in C, n \in P PROVE Append(n, x) \in P
  <2> DEFINE q == p \o Escape(n)
  <2>1. Escape(n) \in Seq(C) /\ Escape(Append(n, x)) = Escape(n) \o Escaped(x)
    BY EscapeStep
  <2>2. q \in Seq(C) /\ Append(q, Backslash) \in Seq(C)
    BY <2>1
  <2>3. Splitting(q) = Within(f, c \o n)
    BY <1>2
  <2>4. Append(c \o n, x) = c \o Append(n, x) /\ Append(n, x) \in Seq(C)
    BY SMTT(30)
  <2>5. Splitting(p \o Escape(Append(n, x))) = Within(f, Append(c \o n, x))
    <3>1. CASE x \in Special
      <4>1. p \o (Escape(n) \o <<Backslash, x>>) = Append(Append(q, Backslash), x)
        <5> DEFINE e == Escape(n)
        <5>1. e \in Seq(C)
          BY <2>1
        <5> HIDE DEF e
        <5> DEFINE d == Append(e, Backslash)
        <5>2. e \o <<Backslash, x>> = Append(d, x) /\ d \in Seq(C)
          BY <5>1
        <5>3. p \o d = Append(p \o e, Backslash)
          BY <5>1, AppendLast
        <5> HIDE DEF d
        <5>4. p \o Append(d, x) = Append(p \o d, x)
          BY <5>2, AppendLast
        <5> QED
          BY <5>2, <5>3, <5>4 DEF e
      <4>2. Splitting(Append(q, Backslash)) = Escaping(f, c \o n)
        <5>1. Splitting(Append(q, Backslash)) = SplitChar(Splitting(q), Backslash)
          BY <2>2, SplittingStep
        <5> QED
          BY <5>1, <2>3, SplitBackslash, Zenon
      <4>3. Splitting(Append(Append(q, Backslash), x)) = Within(f, Append(c \o n, x))
        <5>1. Splitting(Append(Append(q, Backslash), x)) =
                SplitChar(Splitting(Append(q, Backslash)), x)
          BY <2>2, SplittingStep
        <5> QED
          BY <5>1, <4>2, SplitEscaped, Zenon
      <4> QED
        BY <2>1, <3>1, <4>1, <4>3 DEF Escaped
    <3>2. CASE x \notin Special
      <4>1. p \o (Escape(n) \o <<x>>) = Append(q, x)
        BY <2>1
      <4>2. Splitting(Append(q, x)) = SplitChar(Splitting(q), x)
        BY <2>2, SplittingStep
      <4>3. Splitting(Append(q, x)) = Within(f, Append(c \o n, x))
        BY <3>2, <4>2, <2>3, SplitPlain, Zenon
      <4> QED
        BY <2>1, <3>2, <4>1, <4>3 DEF Escaped
    <3> QED
      BY <3>1, <3>2
  <2> QED
    BY <2>4, <2>5, Zenon
<1> HIDE DEF P
<1>3. Seq(C) \subseteq P
  BY <1>1, <1>2, SeqInduction
<1> QED
  BY <1>3 DEF P

\* A text without a backslash is unescaped to itself.
LEMMA UnescapePlain ==
    ASSUME NEW C, NEW n \in Seq(C), Plain(n)
    PROVE  Unescape(n) = [text |-> n, escaping |-> FALSE]
<1> DEFINE B == C \ {Backslash}
           Same(s) == [text |-> s, escaping |-> FALSE]
           P == {s \in Seq(B) : Unescape(s) = Same(s)}
<1>1. <<>> \in P
  <2>1. Unescape(<<>>) = Same(<<>>)
    BY UnescapeStep DEF UnescapeStart
  <2>2. <<>> \in Seq(B)
    OBVIOUS
  <2> QED
    BY <2>1, <2>2, Zenon
<1>2. ASSUME NEW s \in Seq(B), NEW x \in B, s \in P PROVE Append(s, x) \in P
  <2>1. Unescape(Append(s, x)) = UnescapeChar(Unescape(s), x)
    BY UnescapeStep
  <2>2. Unescape(s) = Same(s)
    BY <1>2
  <2>3. UnescapeChar(Same(s), x) = Same(Append(s, x))
    <3>1. x # Backslash
      OBVIOUS
    <3> QED
      BY <3>1, UnescapeTurn
  <2>4. Append(s, x) \in Seq(B)
    OBVIOUS
  <2> QED
    BY <2>1, <2>2, <2>3, <2>4, Zenon
<1>3. Seq(B) \subseteq P
  <2> HIDE DEF P, B
  <2> QED
    BY <1>1, <1>2, SeqInduction
<1>4. n \in Seq(B)
  BY DEF Plain
<1> QED
  BY <1>3, <1>4

\* The characters of payloads.
Words == {"LFT_DISCOVERY", "LFT_CODE_LOOKUP", "LFT_CODE_MATCH", "1", "port"}
PayloadChar == Char \cup Device \cup Code \cup Words \cup Special
\* Those that are a field of their own.
Sole == Words \cup Device \cup Code

\* The characters of payloads and of names.
LEMMA CharFacts ==
    /\ Backslash \in PayloadChar /\ Bar \in PayloadChar
    /\ \A x \in Sole : x \in PayloadChar /\ x \notin Special
    /\ \A n \in Seq(Char) : n \in Seq(PayloadChar)
<1>1. \A x \in Words : x # Backslash /\ x # Bar
  BY DEF Words, Backslash, Bar
<1>2. \A x \in Sole : x \notin Special
  BY <1>1, DiscoveryAssumption DEF Special, Sole
<1>3. Char \subseteq PayloadChar /\ \A x \in Sole : x \in PayloadChar
  BY DEF PayloadChar, Sole
<1>4. Backslash \in PayloadChar /\ Bar \in PayloadChar
  BY DEF PayloadChar, Special
<1> QED
  BY <1>2, <1>3, <1>4

\* Having read p, split_fields has the fields f and begun one with c.
Reads(p, f, c) ==
    /\ p \in Seq(PayloadChar)
    /\ f \in Seq(Seq(PayloadChar)) /\ c \in Seq(PayloadChar)
    /\ Splitting(p) = Within(f, c)

\* A character that is not special goes into the current field.
LEMMA ReadsOne ==
    ASSUME NEW p, NEW f, NEW c, Reads(p, f, c), NEW x \in Sole
    PROVE  Reads(Append(p, x), f, Append(c, x))
<1>1. /\ p \in Seq(PayloadChar) /\ f \in Seq(Seq(PayloadChar)) /\ c \in Seq(PayloadChar)
      /\ Splitting(p) = Within(f, c)
  BY DEF Reads
<1>2. x \in PayloadChar /\ x \notin Special
  BY CharFacts
<1>3. Append(p, x) \in Seq(PayloadChar) /\ Append(c, x) \in Seq(PayloadChar)
  BY <1>1, <1>2
<1>4. Splitting(Append(p, x)) = SplitChar(Splitting(p), x)
  BY <1>1, <1>2, SplittingStep
<1>5. SplitChar(Within(f, c), x) = Within(f, Append(c, x))
  BY <1>2, SplitPlain
<1> QED
  BY <1>1, <1>3, <1>4, <1>5 DEF Reads

\* A bar ends it.
LEMMA ReadsBar ==
    ASSUME NEW p, NEW f, NEW c, Reads(p, f, c)
    PROVE  Reads(Append(p, Bar), Append(f, c), <<>>)
<1>1. /\ p \in Seq(PayloadChar) /\ f \in Seq(Seq(PayloadChar)) /\ c \in Seq(PayloadChar)
      /\ Splitting(p) = Within(f, c)
  BY DEF Reads
<1>2. Bar \in PayloadChar
  BY CharFacts
<1>3. Append(p, Bar) \in Seq(PayloadChar) /\ Append(f, c) \in Seq(Seq(PayloadChar))
      /\ <<>> \in Seq(PayloadChar)
  BY <1>1, <1>2
<1>4. Splitting(Append(p, Bar)) = SplitChar(Splitting(p), Bar)
  BY <1>1, <1>2, SplittingStep
<1>5. SplitChar(Within(f, c), Bar) = Within(Append(f, c), <<>>)
  BY SplitBar
<1> QED
  BY <1>1, <1>3, <1>4, <1>5 DEF Reads

\* A field of its own and the bar after it, or before it.
LEMMA ReadsField ==
    ASSUME NEW p, NEW f, NEW c, Reads(p, f, c), NEW x \in Sole
    PROVE  /\ c = <<>> => Reads(p \o <<x, Bar>>, Append(f, <<x>>), <<>>)
           /\ c = <<>> => Reads(p \o <<x>>, f, <<x>>)
           /\ Reads(p \o <<Bar, x>>, Append(f, c), <<x>>)
<1>1. p \in Seq(PayloadChar) /\ x \in PayloadChar /\ Bar \in PayloadChar
  BY CharFacts DEF Reads
<1>2. /\ p \o <<x, Bar>> = Append(Append(p, x), Bar)
      /\ p \o <<Bar, x>> = Append(Append(p, Bar), x)
      /\ p \o <<x>> = Append(p, x)
  BY <1>1
<1>3. Append(<<>>, x) = <<x>>
  OBVIOUS
<1>4. ASSUME c = <<>> PROVE Reads(Append(p, x), f, <<x>>)
  BY <1>3, <1>4, ReadsOne
<1>5. ASSUME c = <<>> PROVE Reads(Append(Append(p, x), Bar), Append(f, <<x>>), <<>>)
  BY <1>4, <1>5, ReadsBar
<1>6. Reads(Append(Append(p, Bar), x), Append(f, c), <<x>>)
  <2>1. Reads(Append(p, Bar), Append(f, c), <<>>)
    BY ReadsBar
  <2> QED
    BY <2>1, <1>3, ReadsOne
<1> QED
  BY <1>2, <1>4, <1>5, <1>6

\* A name that was escaped.
LEMMA ReadsName ==
    ASSUME NEW p, NEW f, NEW c, Reads(p, f, c), NEW n \in Seq(Char)
    PROVE  c = <<>> => Reads(p \o Escape(n), f, n)
<1>1. /\ p \in Seq(PayloadChar) /\ f \in Seq(Seq(PayloadChar)) /\ c \in Seq(PayloadChar)
      /\ Splitting(p) = Within(f, c)
  BY DEF Reads
<1>2. n \in Seq(PayloadChar) /\ Backslash \in PayloadChar
  BY CharFacts
<1>3. Escape(n) \in Seq(PayloadChar)
  BY <1>2, EscapeStep
<1>4. p \o Escape(n) \in Seq(PayloadChar)
  BY <1>1, <1>3
<1>5. Splitting(p \o Escape(n)) = Within(f, c \o n)
  BY <1>1, <1>2, SplittingEscape
<1>6. c = <<>> => c \o n = n
  BY <1>2
<1> QED
  BY <1>1, <1>2, <1>4, <1>5, <1>6 DEF Reads

\* The fields of a payload that was read.
LEMMA ReadsSplit ==
    ASSUME NEW p, NEW f, NEW c, Reads(p, f, c)
    PROVE  Split(p).fields = Append(f, c) /\ Split(p).escaping = FALSE
<1>1. Splitting(p) = Within(f, c)
  BY DEF Reads
<1> QED
  BY <1>1 DEF Split, Within

\* Before the first character there are no fields.
LEMMA ReadsNothing == Reads(<<>>, <<>>, <<>>)
<1>1. Splitting(<<>>) = Within(<<>>, <<>>)
  BY SplittingStep DEF SplitStart
<1>2. <<>> \in Seq(PayloadChar) /\ <<>> \in Seq(Seq(PayloadChar))
  OBVIOUS
<1> QED
  BY <1>1, <1>2 DEF Reads

\* An announcement has five fields: the third is the device, the fourth its name.
LEMMA AnnouncementFields ==
    ASSUME NEW d \in Device, name[d] \in Seq(Char)
    PROVE  LET s == Split(Payload(Announcement(d))) IN
           /\ s.escaping = FALSE /\ Len(s.fields) = 5
           /\ s.fields[1] = <<"LFT_DISCOVERY">> /\ s.fields[3] = <<d>>
           /\ s.fields[4] = name[d]
<1> DEFINE a == "LFT_DISCOVERY"
           n == name[d]
           f == Append(Append(Append(<<>>, <<a>>), <<"1">>), <<d>>)
           p == <<a, Bar>> \o <<"1", Bar>> \o <<d, Bar>>
<1>1. a \in Sole /\ "1" \in Sole /\ "port" \in Sole /\ d \in Sole
  BY DEF Sole, Words
<1>2. Reads(<<>> \o <<a, Bar>>, Append(<<>>, <<a>>), <<>>)
  BY <1>1, ReadsNothing, ReadsField
<1>3. <<>> \o <<a, Bar>> = <<a, Bar>>
  OBVIOUS
<1>4. Reads(<<a, Bar>> \o <<"1", Bar>>, Append(Append(<<>>, <<a>>), <<"1">>), <<>>)
  BY <1>1, <1>2, <1>3, ReadsField
<1>5. Reads(p, f, <<>>)
  BY <1>1, <1>4, ReadsField
<1>6. Reads(p \o Escape(n), f, n)
  BY <1>5, ReadsName
<1>7. Reads(p \o Escape(n) \o <<Bar, "port">>, Append(f, n), <<"port">>)
  BY <1>1, <1>6, ReadsField
<1>8. Payload(Announcement(d)) = p \o Escape(n) \o <<Bar, "port">>
  BY DEF Payload, Announcement
<1>9. /\ Split(Payload(Announcement(d))).fields = Append(Append(f, n), <<"port">>)
      /\ Split(Payload(Announcement(d))).escaping = FALSE
  <2>1. \A q : q = p \o Escape(n) \o <<Bar, "port">> =>
                 Split(q).fields = Append(Append(f, n), <<"port">>) /\ Split(q).escaping = FALSE
    <3> HIDE DEF p, f, n
    <3> QED
      BY <1>7, ReadsSplit
  <2> QED
    BY <1>8, <2>1
<1>10. LET s == Append(Append(f, n), <<"port">>) IN
       Len(s) = 5 /\ s[1] = <<a>> /\ s[3] = <<d>> /\ s[4] = n
  OBVIOUS
<1> QED
  BY <1>9, <1>10

\* A lookup has three: the third is the code.
LEMMA LookupFields ==
    ASSUME NEW d \in Device, wanted[d] \in Code
    PROVE  LET s == Split(Payload(LookupOf(d))) IN
           s.escaping = FALSE /\ Len(s.fields) = 3 /\ s.fields[3] = <<wanted[d]>>
<1> DEFINE a == "LFT_CODE_LOOKUP"
           f == Append(Append(<<>>, <<a>>), <<"1">>)
           p == <<a, Bar>> \o <<"1", Bar>>
<1>1. a \in Sole /\ "1" \in Sole /\ wanted[d] \in Sole
  BY DEF Sole, Words
<1>2. Reads(<<>> \o <<a, Bar>>, Append(<<>>, <<a>>), <<>>)
  BY <1>1, ReadsNothing, ReadsField
<1>3. <<>> \o <<a, Bar>> = <<a, Bar>>
  OBVIOUS
<1>4. Reads(p, f, <<>>)
  BY <1>1, <1>2, <1>3, ReadsField
<1>5. Reads(p \o <<wanted[d]>>, f, <<wanted[d]>>)
  BY <1>1, <1>4, ReadsField
<1>6. Payload(LookupOf(d)) = p \o <<wanted[d]>>
  BY DEF Payload, LookupOf
<1>7. /\ Split(Payload(LookupOf(d))).fields = Append(f, <<wanted[d]>>)
      /\ Split(Payload(LookupOf(d))).escaping = FALSE
  BY <1>5, <1>6, ReadsSplit
<1>8. LET s == Append(f, <<wanted[d]>>) IN Len(s) = 3 /\ s[3] = <<wanted[d]>>
  OBVIOUS
<1> QED
  BY <1>7, <1>8

\* An answer has six: the code, the device and its name are the third to the
\* fifth.
LEMMA MatchFields ==
    ASSUME NEW d \in Device, name[d] \in Seq(Char), code[d] \in Code
    PROVE  LET s == Split(Payload(MatchOf(d))) IN
           /\ s.escaping = FALSE /\ Len(s.fields) = 6
           /\ s.fields[1] = <<"LFT_CODE_MATCH">> /\ s.fields[3] = <<code[d]>>
           /\ s.fields[4] = <<d>> /\ s.fields[5] = name[d]
<1> DEFINE a == "LFT_CODE_MATCH"
           n == name[d]
           k == code[d]
           f == Append(Append(Append(Append(<<>>, <<a>>), <<"1">>), <<k>>), <<d>>)
           p == <<a, Bar>> \o <<"1", Bar>> \o <<k, Bar>> \o <<d, Bar>>
<1>1. a \in Sole /\ "1" \in Sole /\ "port" \in Sole /\ d \in Sole /\ k \in Sole
  BY DEF Sole, Words
<1>2. Reads(<<>> \o <<a, Bar>>, Append(<<>>, <<a>>), <<>>)
  BY <1>1, ReadsNothing, ReadsField
<1>3. <<>> \o <<a, Bar>> = <<a, Bar>>
  OBVIOUS
<1>4. Reads(<<a, Bar>> \o <<"1", Bar>>, Append(Append(<<>>, <<a>>), <<"1">>), <<>>)
  BY <1>1, <1>2, <1>3, ReadsField
<1>5. Reads(<<a, Bar>> \o <<"1", Bar>> \o <<k, Bar>>,
            Append(Append(Append(<<>>, <<a>>), <<"1">>), <<k>>), <<>>)
  BY <1>1, <1>4, ReadsField
<1>6. Reads(p, f, <<>>)
  BY <1>1, <1>5, ReadsField
<1>7. Reads(p \o Escape(n), f, n)
  BY <1>6, ReadsName
<1>8. Reads(p \o Escape(n) \o <<Bar, "port">>, Append(f, n), <<"port">>)
  BY <1>1, <1>7, ReadsField
<1>9. Payload(MatchOf(d)) = p \o Escape(n) \o <<Bar, "port">>
  BY DEF Payload, MatchOf
<1>10. /\ Split(Payload(MatchOf(d))).fields = Append(Append(f, n), <<"port">>)
       /\ Split(Payload(MatchOf(d))).escaping = FALSE
  <2>1. \A q : q = p \o Escape(n) \o <<Bar, "port">> =>
                 Split(q).fields = Append(Append(f, n), <<"port">>) /\ Split(q).escaping = FALSE
    <3> HIDE DEF p, f, n
    <3> QED
      BY <1>8, ReadsSplit
  <2> QED
    BY <1>9, <2>1
<1>11. LET s == Append(Append(f, n), <<"port">>) IN
       Len(s) = 6 /\ s[1] = <<a>> /\ s[3] = <<k>> /\ s[4] = <<d>> /\ s[5] = n
  OBVIOUS
<1> QED
  BY <1>10, <1>11

\* A decoder finds the device that made an announcement, or nothing; and if its
\* name has no backslash the device and its name.
LEMMA ParsesAnnouncement ==
    ASSUME NEW d \in Device, name[d] \in Seq(Char)
    PROVE  LET m == ParseDiscovery(Payload(Announcement(d))) IN
           /\ m.dev \in {d, None}
           /\ m.dev = d => m.name = Unescape(name[d]).text
           /\ Plain(name[d]) => m.dev = d /\ m.name = name[d]
<1> DEFINE p == Payload(Announcement(d))
           s == Split(p)
<1>1. /\ s.escaping = FALSE /\ Len(s.fields) = 5
      /\ s.fields[1] = <<"LFT_DISCOVERY">> /\ s.fields[3] = <<d>>
      /\ s.fields[4] = name[d]
  BY AnnouncementFields
<1>2. s.fields[3][1] = d
  BY <1>1
<1> HIDE DEF p
<1>3. ParseDiscovery(p) =
        IF Unescape(name[d]).escaping THEN NoOne
        ELSE [dev |-> d, name |-> Unescape(name[d]).text]
  BY <1>1, <1>2 DEF ParseDiscovery, Decoded, NoOne
<1>4. Plain(name[d]) => Unescape(name[d]) = [text |-> name[d], escaping |-> FALSE]
  BY UnescapePlain
<1>5. None # d
  BY DiscoveryAssumption
<1> QED
  BY <1>3, <1>4, <1>5 DEF p, NoOne

\* A lookup is no announcement.
LEMMA ParsesLookup ==
    ASSUME NEW d \in Device, wanted[d] \in Code
    PROVE  ParseDiscovery(Payload(LookupOf(d))).dev = None
<1> DEFINE p == Payload(LookupOf(d))
<1>1. Len(Split(p).fields) = 3
  BY LookupFields
<1> HIDE DEF p
<1>2. ParseDiscovery(p) = [dev |-> None, name |-> <<>>]
  BY <1>1 DEF ParseDiscovery, Decoded
<1> QED
  BY <1>2 DEF p

\* An answer that a lookup takes has the code it asked for, and it is taken for
\* the device that sent it; the form takes its name as it is, the phone if it has
\* no backslash.
LEMMA ParsesMatch ==
    ASSUME NEW d \in Device, NEW e \in Device, name[e] \in Seq(Char),
           code[e] \in Code, wanted[d] \in Code,
           ParseMatch(d, Payload(MatchOf(e))) # NoOne
    PROVE  LET m == ParseMatch(d, Payload(MatchOf(e))) IN
           /\ code[e] = wanted[d]
           /\ m.dev = e
           /\ d \notin Phone \/ Plain(name[e]) => m.name = name[e]
<1> DEFINE p == Payload(MatchOf(e))
           s == Split(p)
           u == Unescape(name[e])
<1>1. /\ s.escaping = FALSE /\ Len(s.fields) = 6
      /\ s.fields[1] = <<"LFT_CODE_MATCH">> /\ s.fields[3] = <<code[e]>>
      /\ s.fields[4] = <<e>> /\ s.fields[5] = name[e]
  BY MatchFields
<1>2. s.fields[4][1] = e
  BY <1>1
<1> HIDE DEF p
<1>3. <<code[e]>> = <<wanted[d]>>
  BY <1>1 DEF ParseMatch, NoOne, p
<1>4. code[e] = wanted[d]
  BY <1>3
<1>5. ParseMatch(d, p) = Decoded(p, "LFT_CODE_MATCH", 6, 4, d \in Phone)
  BY <1>1, <1>3 DEF ParseMatch
<1>6. d \notin Phone => ParseMatch(d, p) = [dev |-> e, name |-> name[e]]
  BY <1>1, <1>2, <1>5 DEF Decoded
<1>7. d \in Phone => ParseMatch(d, p) = IF u.escaping THEN NoOne ELSE [dev |-> e, name |-> u.text]
  BY <1>1, <1>2, <1>5 DEF Decoded, NoOne
<1>8. Plain(name[e]) => u = [text |-> name[e], escaping |-> FALSE]
  BY UnescapePlain
<1>9. ParseMatch(d, p) # NoOne
  BY DEF p
<1> QED
  BY <1>4, <1>6, <1>7, <1>8, <1>9 DEF p

(***************************************************************************)
(* The invariant.                                                          *)
(***************************************************************************)

\* Every variable has its type, and a device is listed under what a decoder
\* makes of its name.
TypeInv ==
    /\ TypeOK
    /\ name \in [Device -> Seq(Char)] /\ code \in [Device -> Code]
    /\ result = [d \in Device |-> result[d]]

Known == {Unescape(name[e]).text : e \in Device}
ListInv ==
    /\ list \in [Device -> [Device -> {Absent} \cup [age : 0..StaleAfter, name : Known]]]
    /\ \A d, e \in Device : e \in Listed(d) => list[d][e].name = Unescape(name[e]).text

\* Who does not search has nothing to read.
InboxInv == \A d \in Device : ~Running(d) => inbox[d] = {}

\* Who may announce itself, or has been heard this second, is not down.
DownInv ==
    /\ \A e \in Device : MayAnnounce(e) => down[e] = 0
    /\ \A d, e \in Device : Announcement(e) \in inbox[d] => down[e] = 0

\* No device is listed that has been down for longer than its entry is old, or,
\* as a phone forgets nothing, than the scan has lasted.
AgeInv ==
    \A d \in Device : Running(d) =>
        \A e \in Listed(d) :
            down[e] <= IF d \in Phone THEN Duration - left[d] ELSE list[d][e].age

\* Those whom a search must list: they have announced themselves all the time,
\* it has missed nothing of theirs, and their names are plain.
Expected(d) == {e \in steady[d] \ (missed[d] \cup {d}) : Plain(name[e])}

\* In a second that began during the search, who has announced itself was heard
\* or is about to be; and from the end of that second it is listed.
HeardInv ==
    /\ \A d \in Device : \A e \in steady[d] : announcer[e] = "up"
    /\ \A d \in Device : Running(d) =>
          \A e \in Expected(d) :
              /\ left[d] < Duration /\ <<e, "thread">> \in sent =>
                    \/ e \in Listed(d) /\ list[d][e].age = 0
                    \/ Announcement(e) \in inbox[d]
              /\ left[d] < Duration - 1 => e \in Listed(d)

\* A lookup that waits at a device, or an answer of it, belongs to the lookup
\* under way, and the device has had a receiver since it was sent.
AnswerInv ==
    /\ \A e \in Device : lookup[e] = "up" => announcer[e] # "off"
    /\ \A d, e \in Device :
          d \in asked[e] \/ MatchOf(e) \in replies[d] =>
              resolving[d] = "wait" /\ e \in upDuring[d]

\* What a lookup found.
FoundInv ==
    \A d \in Device : resolving[d] = "found" =>
        LET e == result[d].dev IN
        /\ e \in Device
        /\ code[e] = wanted[d] /\ e \in upDuring[d]
        /\ d \notin Phone \/ Plain(name[e]) => result[d].name = name[e]

(***************************************************************************)
(* The invariant is inductive.                                             *)
(***************************************************************************)

\* A datagram and its sender.
LEMMA Datagrams ==
    /\ \A d \in Device : /\ Announcement(d) \in [kind : {"announce", "lookup"}, dev : Device]
                         /\ LookupOf(d) \in [kind : {"announce", "lookup"}, dev : Device]
                         /\ MatchOf(d) \in [kind : {"match"}, dev : Device]
    /\ \A m \in [kind : {"announce", "lookup"}, dev : Device] :
          \E d \in Device : m = Announcement(d) \/ m = LookupOf(d)
    /\ \A m \in [kind : {"match"}, dev : Device] : \E d \in Device : m = MatchOf(d)
    /\ \A d, e \in Device : /\ Announcement(d) # LookupOf(e)
                            /\ Announcement(d) = Announcement(e) => d = e
                            /\ MatchOf(d) = MatchOf(e) => d = e
  BY DEF Announcement, LookupOf, MatchOf

\* What the constants are.
LEMMA Constants ==
    /\ StaleAfter \in Nat /\ Duration \in Nat /\ StaleAfter >= 1 /\ Duration >= 1
    /\ LongDown \in Nat /\ LongDown >= 1 /\ MaxUses \in Nat
    /\ None \notin Device /\ Phone \subseteq Device
  BY DiscoveryAssumption DEF LongDown

\* What a broadcast leaves in the inboxes.
LEMMA Reached ==
    ASSUME TypeOK, NEW m \in [kind : {"announce", "lookup"}, dev : Device], NEW S, Reaches(m, S)
    PROVE  /\ inbox' \in [Device -> SUBSET [kind : {"announce", "lookup"}, dev : Device]]
           /\ \A d \in Device : /\ inbox[d] \subseteq inbox'[d] /\ inbox'[d] \subseteq inbox[d] \cup {m}
                                /\ ~Running(d) => inbox'[d] = inbox[d]
                                /\ d \in S => m \in inbox'[d]
  BY DEF Reaches, TypeOK

\* Who has missed an announcement.
LEMMA BroadcastTypes ==
    ASSUME TypeOK, NEW d \in Device, Broadcasts(d)
    PROVE  /\ inbox' \in [Device -> SUBSET [kind : {"announce", "lookup"}, dev : Device]]
           /\ missed' \in [Device -> SUBSET Device]
<1>1. PICK S \in SUBSET Device :
         /\ Reaches(Announcement(d), S)
         /\ missed' = [e \in Device |-> IF Running(e) /\ e \notin S THEN missed[e] \cup {d}
                                                                  ELSE missed[e]]
  BY DEF Broadcasts
<1>2. missed \in [Device -> SUBSET Device]
  BY DEF TypeOK
<1>3. missed' \in [Device -> SUBSET Device]
  BY <1>1, <1>2
<1>4. Announcement(d) \in [kind : {"announce", "lookup"}, dev : Device]
  BY Datagrams
<1> QED
  BY <1>1, <1>3, <1>4, Reached

\* An array is one still when an element is replaced.
LEMMA Replaced ==
    ASSUME NEW r, r = [e \in Device |-> r[e]], NEW d \in Device, NEW v, NEW q,
           q = [r EXCEPT ![d] = v]
    PROVE  q = [e \in Device |-> q[e]]
  OBVIOUS

\* The same of an array of sets.
LEMMA ReplacedSet ==
    ASSUME NEW T, NEW r \in [Device -> SUBSET T], NEW d \in Device, NEW v, v \subseteq T
    PROVE  [r EXCEPT ![d] = v] \in [Device -> SUBSET T]
  OBVIOUS

\* A step keeps the types.
LEMMA TypeStep ==
    ASSUME TypeInv, [Next]_vars
    PROVE  TypeInv'
<1> USE DEF TypeInv
<1>1. CASE UNCHANGED vars
  BY <1>1 DEF vars, receiverVars, searchVars, lookupVars, TypeOK
<1>2. CASE Tick
  <2>1. sent' \subseteq Device \X {"thread", "search"} /\ left' \in [Device -> 0..Duration]
    BY <1>2, Constants DEF Tick, TypeOK
  <2>2. ASSUME NEW d \in Device
        PROVE  (IF MayAnnounce(d) THEN 0
                ELSE IF down[d] < LongDown THEN down[d] + 1 ELSE down[d]) \in 0..LongDown
    <3>1. down[d] \in 0..LongDown
      BY DEF TypeOK
    <3> QED
      BY <3>1, Constants
  <2>3. down' \in [Device -> 0..LongDown]
    BY <1>2, <2>2 DEF Tick
  <2> QED
    BY <1>2, <2>1, <2>3 DEF Tick, TypeOK, receiverVars, lookupVars
<1>3. ASSUME NEW d \in Device, StartReceiver(d) PROVE TypeInv'
  <2>1. /\ announcer' \in [Device -> {"off", "up", "dead"}]
        /\ lookup' \in [Device -> {"off", "up", "dead"}]
        /\ upDuring' \in [Device -> SUBSET Device]
        /\ down' \in [Device -> 0..LongDown]
        /\ uses' \in 0..MaxUses
    BY <1>3, Constants DEF StartReceiver, TypeOK, Uses
  <2> QED
    BY <1>3, <2>1 DEF StartReceiver, TypeOK, searchVars
<1>4. ASSUME NEW d \in Device, StopReceiver(d) PROVE TypeInv'
  BY <1>4 DEF StopReceiver, TypeOK, lookupVars
<1>5. ASSUME NEW d \in Device, Announce(d) PROVE TypeInv'
  <2>1. inbox' \in [Device -> SUBSET [kind : {"announce", "lookup"}, dev : Device]]
        /\ missed' \in [Device -> SUBSET Device]
    BY <1>5, BroadcastTypes DEF Announce
  <2>2. sent' \subseteq Device \X {"thread", "search"}
    BY <1>5 DEF Announce, TypeOK
  <2> QED
    BY <1>5, <2>1, <2>2 DEF Announce, TypeOK, receiverVars, lookupVars
<1>6. ASSUME NEW d \in Device, AnswerLookup(d) PROVE TypeInv'
  <2>1. asked' \in [Device -> SUBSET Device]
    BY <1>6 DEF AnswerLookup, TypeOK
  <2>2. replies' \in [Device -> SUBSET [kind : {"match"}, dev : Device]]
    <3>1. MatchOf(d) \in [kind : {"match"}, dev : Device]
      BY Datagrams
    <3>2. PICK e \in asked[d] :
             replies' = [replies EXCEPT ![e] = @ \cup {MatchOf(d)}] \/ replies' = replies
      BY <1>6 DEF AnswerLookup
    <3> DEFINE T == [kind : {"match"}, dev : Device]
    <3>3. replies \in [Device -> SUBSET T] /\ e \in Device
      BY DEF TypeOK
    <3> HIDE DEF T
    <3>4. replies[e] \cup {MatchOf(d)} \subseteq T
      BY <3>1, <3>3 DEF T
    <3>5. replies' \in [Device -> SUBSET T]
      <4>1. [replies EXCEPT ![e] = replies[e] \cup {MatchOf(d)}] \in [Device -> SUBSET T]
        BY <3>3, <3>4, ReplacedSet
      <4> QED
        BY <3>2, <3>3, <4>1
    <3> QED
      BY <3>5 DEF T
  <2> QED
    BY <1>6, <2>1, <2>2 DEF AnswerLookup, TypeOK, searchVars
<1>7. ASSUME NEW d \in Device, AnnouncerDies(d) \/ LookupDies(d) PROVE TypeInv'
  <2>1. CASE AnnouncerDies(d)
    BY <2>1 DEF AnnouncerDies, TypeOK, lookupVars
  <2>2. CASE LookupDies(d)
    BY <2>2 DEF LookupDies, TypeOK, lookupVars, searchVars
  <2> QED
    BY <1>7, <2>1, <2>2
<1>8. ASSUME NEW d \in Device, Search(d) PROVE TypeInv'
  <2>1. /\ searching' \in [Device -> {"no", "run", "done", "failed"}]
        /\ left' \in [Device -> 0..Duration]
        /\ uses' \in 0..MaxUses
    BY <1>8, Constants DEF Search, TypeOK, Uses
  <2>2. /\ down' \in [Device -> 0..LongDown]
        /\ steady' \in [Device -> SUBSET Device]
        /\ missed' \in [Device -> SUBSET Device]
    BY <1>8, Constants DEF Search, TypeOK
  <2> QED
    BY <1>8, <2>1, <2>2 DEF Search, TypeOK, receiverVars, lookupVars
<1>9. ASSUME NEW d \in Device, AnnounceSearch(d) PROVE TypeInv'
  <2>1. inbox' \in [Device -> SUBSET [kind : {"announce", "lookup"}, dev : Device]]
        /\ missed' \in [Device -> SUBSET Device]
    BY <1>9, BroadcastTypes DEF AnnounceSearch
  <2>2. sent' \subseteq Device \X {"thread", "search"}
    BY <1>9 DEF AnnounceSearch, TypeOK
  <2> QED
    BY <1>9, <2>1, <2>2 DEF AnnounceSearch, TypeOK, receiverVars, lookupVars
<1>10. ASSUME NEW d \in Device, ReadDatagram(d) PROVE TypeInv'
  <2>1. /\ inbox' \in [Device -> SUBSET [kind : {"announce", "lookup"}, dev : Device]]
        /\ searching' \in [Device -> {"no", "run", "done", "failed"}]
    <3>1. PICK m \in inbox[d] :
             \/ Leaves(d, "failed")
             \/ inbox' = [inbox EXCEPT ![d] = @ \ {m}] /\ searching' = searching
      BY <1>10 DEF ReadDatagram
    <3> DEFINE T == [kind : {"announce", "lookup"}, dev : Device]
    <3>2. inbox \in [Device -> SUBSET T]
          /\ searching \in [Device -> {"no", "run", "done", "failed"}]
      BY DEF TypeOK
    <3> HIDE DEF T
    <3>3. inbox[d] \ {m} \subseteq T /\ {} \subseteq T
      BY <3>2
    <3>4. inbox' \in [Device -> SUBSET T]
      BY <3>1, <3>2, <3>3, ReplacedSet, SMTT(30) DEF Leaves
    <3>5. searching' \in [Device -> {"no", "run", "done", "failed"}]
      BY <3>1, <3>2 DEF Leaves
    <3> QED
      BY <3>4, <3>5 DEF T
  <2> QED
    BY <1>10, <2>1 DEF ReadDatagram, TypeOK, receiverVars, lookupVars
<1>11. ASSUME NEW d \in Device, EndSearch(d) \/ SearchBreaks(d) PROVE TypeInv'
  <2>1. CASE EndSearch(d)
    BY <2>1 DEF EndSearch, Leaves, TypeOK, receiverVars, lookupVars
  <2>2. CASE SearchBreaks(d)
    BY <2>2 DEF SearchBreaks, Leaves, TypeOK, receiverVars, lookupVars
  <2> QED
    BY <1>11, <2>1, <2>2
<1>12. ASSUME NEW d \in Device, Ask(d) PROVE TypeInv'
  <2>1. inbox' \in [Device -> SUBSET [kind : {"announce", "lookup"}, dev : Device]]
    BY <1>12, Datagrams, Reached DEF Ask
  <2>2. /\ resolving' \in [Device -> {"no", "wait", "none", "found"}]
        /\ wanted' \in [Device -> Code]
        /\ upDuring' \in [Device -> SUBSET Device]
        /\ asked' \in [Device -> SUBSET Device]
    BY <1>12 DEF Ask, TypeOK
  <2>3. uses' \in 0..MaxUses
    BY <1>12, Constants DEF Ask, TypeOK, Uses
  <2>4. result' = [e \in Device |-> result'[e]]
    BY <1>12, Replaced DEF Ask
  <2> QED
    BY <1>12, <2>1, <2>2, <2>3, <2>4 DEF Ask, TypeOK
<1>13. ASSUME NEW d \in Device, TakeReply(d) \/ GiveUp(d) PROVE TypeInv'
  <2>1. /\ replies' \in [Device -> SUBSET [kind : {"match"}, dev : Device]]
        /\ asked' \in [Device -> SUBSET Device]
    <3>1. (\E m : replies' = [replies EXCEPT ![d] = @ \ {m}] /\ asked' = asked) \/ Closes(d)
      BY <1>13 DEF TakeReply, GiveUp
    <3> DEFINE T == [kind : {"match"}, dev : Device]
    <3>2. replies \in [Device -> SUBSET T] /\ asked \in [Device -> SUBSET Device]
      BY DEF TypeOK
    <3> HIDE DEF T
    <3>3. {} \subseteq T /\ \A m : replies[d] \ {m} \subseteq T
      BY <3>2
    <3>4. replies' \in [Device -> SUBSET T]
      BY <3>1, <3>2, <3>3, ReplacedSet DEF Closes
    <3>5. asked' \in [Device -> SUBSET Device]
      BY <3>1, <3>2 DEF Closes
    <3> QED
      BY <3>4, <3>5 DEF T
  <2>2. resolving' \in [Device -> {"no", "wait", "none", "found"}]
    <3>1. \E v \in {"none", "found"} : resolving' = [resolving EXCEPT ![d] = v] \/ resolving' = resolving
      BY <1>13 DEF TakeReply, GiveUp
    <3>2. resolving \in [Device -> {"no", "wait", "none", "found"}]
      BY DEF TypeOK
    <3> QED
      BY <3>1, <3>2
  <2>3. result' = [e \in Device |-> result'[e]]
    <3>1. (\E v : result' = [result EXCEPT ![d] = v]) \/ result' = result
      BY <1>13 DEF TakeReply, GiveUp
    <3> QED
      BY <3>1, Replaced
  <2> QED
    BY <1>13, <2>1, <2>2, <2>3, SMTT(30) DEF TakeReply, GiveUp, TypeOK, searchVars
<1> QED
  BY <1>1, <1>2, <1>3, <1>4, <1>5, <1>6, <1>7, <1>8, <1>9, <1>10, <1>11, <1>12, <1>13
  DEF Next, ReceiverStep, SearchStep

\* What reading a datagram does: the search fails, or it ignores the datagram,
\* or it lists the device that announced itself.
LEMMA Reading ==
    ASSUME TypeInv, NEW d \in Device, ReadDatagram(d)
    PROVE  \E m \in inbox[d] :
              \/ Leaves(d, "failed") /\ list' = list
              \/ /\ inbox' = [inbox EXCEPT ![d] = @ \ {m}]
                 /\ searching' = searching /\ list' = list
                 /\ \A e \in Device \ {d} : Plain(name[e]) => m # Announcement(e)
              \/ /\ inbox' = [inbox EXCEPT ![d] = @ \ {m}]
                 /\ searching' = searching
                 /\ \E e \in Device :
                       /\ m = Announcement(e)
                       /\ list' = [list EXCEPT ![d][e] =
                                     [age |-> 0, name |-> Unescape(name[e]).text]]
<1>1. PICK m \in inbox[d] :
        LET found == ParseDiscovery(Payload(m)) IN
          \/ /\ Leaves(d, "failed")
             /\ list' = list
          \/ /\ inbox' = [inbox EXCEPT ![d] = @ \ {m}]
             /\ list' = IF found.dev = None \/ (found.dev = d /\ d \notin Phone) THEN list
                        ELSE [list EXCEPT ![d][found.dev] = [age |-> 0, name |-> found.name]]
             /\ searching' = searching
  BY DEF ReadDatagram
<1> DEFINE found == ParseDiscovery(Payload(m))
<1>2. m \in [kind : {"announce", "lookup"}, dev : Device]
  BY DEF TypeInv, TypeOK
<1>3. PICK e \in Device : m = Announcement(e) \/ m = LookupOf(e)
  BY <1>2, Datagrams
<1>4. name[e] \in Seq(Char) /\ wanted[e] \in Code
  BY DEF TypeInv, TypeOK
<1>5. None \notin Device
  BY Constants
<1>6. CASE m = Announcement(e)
  <2>1. /\ found.dev \in {e, None}
        /\ found.dev = e => found.name = Unescape(name[e]).text
        /\ Plain(name[e]) => found.dev = e
    BY <1>4, <1>6, ParsesAnnouncement
  <2>2. \A x \in Device : m = Announcement(x) => x = e
    BY <1>6, Datagrams
  <2> HIDE DEF found
  <2>3. CASE found.dev = None
    BY <1>1, <1>5, <2>1, <2>2, <2>3 DEF found
  <2>4. CASE found.dev = e
    BY <1>1, <1>5, <1>6, <2>1, <2>2, <2>4 DEF found
  <2> QED
    BY <2>1, <2>3, <2>4
<1>7. CASE m = LookupOf(e)
  <2>1. found.dev = None
    BY <1>4, <1>7, ParsesLookup
  <2>2. \A x \in Device : m # Announcement(x)
    BY <1>7, Datagrams
  <2> QED
    BY <1>1, <2>1, <2>2
<1> QED
  BY <1>3, <1>6, <1>7

\* What searching, reading and the passing of a second make of an entry.
LEMMA Entries ==
    ASSUME TypeInv, ListInv, [Next]_vars, NEW d \in Device, NEW e \in Device
    PROVE  \/ list'[d][e] = list[d][e]
           \/ list'[d][e] = Absent
           \/ list'[d][e] = [age |-> 0, name |-> Unescape(name[e]).text]
           \/ /\ Tick /\ Running(d) /\ d \notin Phone
              /\ list'[d][e] = Aged(list[d][e])
<1>1. CASE UNCHANGED vars
  BY <1>1 DEF vars, searchVars
<1>2. CASE Tick
  BY <1>2 DEF Tick
<1>3. ASSUME NEW x \in Device, ReadDatagram(x)
      PROVE  \/ list'[d][e] = list[d][e]
             \/ list'[d][e] = [age |-> 0, name |-> Unescape(name[e]).text]
  <2>1. CASE list' = list
    BY <2>1
  <2>2. ASSUME NEW y \in Device, list' = [list EXCEPT ![x][y] =
                                            [age |-> 0, name |-> Unescape(name[y]).text]]
        PROVE  \/ list'[d][e] = list[d][e]
               \/ list'[d][e] = [age |-> 0, name |-> Unescape(name[e]).text]
    BY <2>2 DEF ListInv
  <2> QED
    BY <1>3, <2>1, <2>2, Reading
<1>4. ASSUME NEW x \in Device, Search(x) PROVE list'[d][e] = list[d][e] \/ list'[d][e] = Absent
  BY <1>4 DEF Search, ListInv
<1>5. ASSUME NEW x \in Device,
             \/ StartReceiver(x) \/ StopReceiver(x) \/ ReceiverStep(x)
             \/ AnnouncerDies(x) \/ LookupDies(x)
             \/ AnnounceSearch(x) \/ EndSearch(x) \/ SearchBreaks(x)
             \/ Ask(x) \/ TakeReply(x) \/ GiveUp(x)
      PROVE  list' = list
  BY <1>5 DEF StartReceiver, StopReceiver, ReceiverStep, Announce, AnswerLookup, AnnouncerDies,
     LookupDies, AnnounceSearch, EndSearch, SearchBreaks, Ask, TakeReply, GiveUp, searchVars
<1> QED
  BY <1>1, <1>2, <1>3, <1>4, <1>5 DEF Next, SearchStep

\* The names and codes stay, and nothing but these acts changes the list, the
\* time left, or who is down.
LEMMA Quiet ==
    /\ [Next]_vars => name' = name /\ code' = code
    /\ \A x \in Device :
          \/ StopReceiver(x) \/ ReceiverStep(x) \/ AnnouncerDies(x) \/ LookupDies(x)
          \/ AnnounceSearch(x) \/ EndSearch(x) \/ SearchBreaks(x)
          \/ Ask(x) \/ TakeReply(x) \/ GiveUp(x)
          => list' = list /\ left' = left /\ down' = down
<1> USE DEF vars, receiverVars, searchVars, lookupVars, ReceiverStep, SearchStep
<1>1. ASSUME [Next]_vars PROVE name' = name /\ code' = code
  BY <1>1 DEF Next, Tick, StartReceiver, StopReceiver, Announce, AnswerLookup, AnnouncerDies,
     LookupDies, Search, AnnounceSearch, ReadDatagram, EndSearch, SearchBreaks, Ask, TakeReply,
     GiveUp
<1> QED
  BY <1>1 DEF StopReceiver, Announce, AnswerLookup, AnnouncerDies, LookupDies,
     AnnounceSearch, EndSearch, SearchBreaks, Ask, TakeReply, GiveUp

\* An entry a second later.
LEMMA Ageing ==
    ASSUME NEW a \in 0..StaleAfter, NEW n
    PROVE  LET x == [age |-> a, name |-> n] IN
           /\ x # Absent
           /\ Aged(x) # Absent => a < StaleAfter /\ Aged(x) = [age |-> a + 1, name |-> n]
           /\ a < StaleAfter => Aged(x) # Absent
  BY Constants DEF Aged, Absent

\* Who is not listed is not listed a second later.
LEMMA AgedAbsent == Aged(Absent) = Absent
  BY DEF Aged

\* A step keeps the entries what they are.
LEMMA ListStep ==
    ASSUME TypeInv, ListInv, [Next]_vars
    PROVE  ListInv'
<1> DEFINE X == {Absent} \cup [age : 0..StaleAfter, name : Known]
           New(e) == [age |-> 0, name |-> Unescape(name[e]).text]
<1>1. name' = name /\ Known' = Known
  BY Quiet DEF Known
<1>2. /\ Absent \in X /\ \A e \in Device : New(e) \in X
      /\ \A x \in X : x = Absent \/ (x.age \in 0..StaleAfter /\ x = [age |-> x.age, name |-> x.name])
      /\ list \in [Device -> [Device -> X]]
  BY Constants DEF Known, ListInv
<1>3. ASSUME NEW x \in X PROVE Aged(x) \in X /\ (Aged(x) # Absent => x # Absent /\ Aged(x).name = x.name)
  <2>1. CASE x = Absent
    BY <1>2, <2>1, AgedAbsent
  <2>2. CASE x \in [age : 0..StaleAfter, name : Known]
    <3>1. PICK a \in 0..StaleAfter, n \in Known : x = [age |-> a, name |-> n]
      BY <2>2
    <3>2. Aged(x) = Absent \/ (a + 1 \in 0..StaleAfter /\ Aged(x) = [age |-> a + 1, name |-> n])
      BY <3>1, Ageing, Constants
    <3>3. x # Absent
      BY <3>1, Ageing
    <3> QED
      BY <3>1, <3>2, <3>3
  <2> QED
    BY <2>1, <2>2
<1>4. list' \in [Device -> [Device -> X]]
  <2> HIDE DEF X
  <2>1. CASE Tick
    <3>1. list' = [d \in Device |-> IF Running(d) /\ d \notin Phone
                                      THEN [e \in Device |-> Aged(list[d][e])]
                                      ELSE list[d]]
      BY <2>1 DEF Tick
    <3>2. \A d, e \in Device : list[d][e] \in X /\ Aged(list[d][e]) \in X
      BY <1>2, <1>3
    <3> QED
      BY <1>2, <3>1, <3>2
  <2>2. ASSUME NEW d \in Device, ReadDatagram(d) PROVE list' \in [Device -> [Device -> X]]
    <3>1. list' = list \/ \E e \in Device : list' = [list EXCEPT ![d][e] = New(e)]
      BY <2>2, Reading
    <3> HIDE DEF New
    <3> QED
      BY <1>2, <3>1, SMTT(30)
  <2>3. ASSUME NEW d \in Device, Search(d) PROVE list' \in [Device -> [Device -> X]]
    BY <1>2, <2>3 DEF Search
  <2>4. ASSUME NEW d \in Device, StartReceiver(d) PROVE list' = list
    BY <2>4 DEF StartReceiver, searchVars
  <2>5. CASE UNCHANGED vars
    BY <1>2, <2>5 DEF vars, searchVars
  <2> QED
    BY <1>2, <2>1, <2>2, <2>3, <2>4, <2>5, Quiet DEF Next, SearchStep
<1>5. ASSUME NEW d \in Device, NEW e \in Device, list'[d][e] # Absent
      PROVE  list'[d][e].name = Unescape(name[e]).text
  <2>1. list[d][e] # Absent => list[d][e].name = Unescape(name[e]).text
    BY DEF ListInv, Listed
  <2>2. list[d][e] \in X
    BY <1>2
  <2>3. CASE list'[d][e] = list[d][e]
    BY <1>5, <2>1, <2>3
  <2>4. CASE list'[d][e] = New(e)
    BY <2>4
  <2>5. CASE list'[d][e] = Aged(list[d][e])
    BY <1>3, <1>5, <2>1, <2>2, <2>5
  <2> QED
    BY <1>5, <2>3, <2>4, <2>5, Entries
<1>6. \A d, e \in Device : e \in Listed(d)' => list'[d][e].name = Unescape(name'[e]).text
  BY <1>1, <1>5 DEF Listed
<1> QED
  BY <1>1, <1>4, <1>6 DEF ListInv

\* Nothing but a search is begun.
LEMMA SearchBegins ==
    ASSUME TypeInv, [Next]_vars, NEW d \in Device, Running(d)'
    PROVE  Running(d) \/ Search(d)
<1> USE DEF Running
<1>1. \A x \in Device : Search(x) => x = d \/ searching'[d] = searching[d]
  BY DEF Search, TypeInv, TypeOK
<1>2. \A x \in Device : ReadDatagram(x) \/ EndSearch(x) \/ SearchBreaks(x) =>
        searching'[d] # "run" \/ searching'[d] = searching[d]
  <2>1. ASSUME NEW x \in Device, NEW how \in {"done", "failed"}, Leaves(x, how)
        PROVE  searching'[d] # "run" \/ searching'[d] = searching[d]
    BY <2>1 DEF Leaves, TypeInv, TypeOK
  <2>2. \A x \in Device : ReadDatagram(x) => UNCHANGED searching \/ Leaves(x, "failed")
    BY DEF ReadDatagram
  <2> QED
    BY <2>1, <2>2 DEF EndSearch, SearchBreaks
<1>3. \A x \in Device :
        \/ StartReceiver(x) \/ StopReceiver(x) \/ ReceiverStep(x)
        \/ AnnouncerDies(x) \/ LookupDies(x) \/ AnnounceSearch(x)
        \/ Ask(x) \/ TakeReply(x) \/ GiveUp(x)
        => searching' = searching
  BY DEF StartReceiver, StopReceiver, ReceiverStep, Announce, AnswerLookup, AnnouncerDies,
     LookupDies, AnnounceSearch, Ask, TakeReply, GiveUp, searchVars
<1>4. Tick \/ UNCHANGED vars => searching' = searching
  BY DEF Tick, vars, searchVars
<1> QED
  BY <1>1, <1>2, <1>3, <1>4 DEF Next, SearchStep

\* What may be in an inbox after a step: what was there, the announcement of one
\* who may announce itself, or a lookup.
LEMMA Arrivals ==
    ASSUME TypeInv, [Next]_vars, NEW d \in Device, NEW m \in inbox'[d], m \notin inbox[d]
    PROVE  /\ Running(d) /\ searching' = searching /\ down' = down
           /\ \E x \in Device : m = LookupOf(x) \/ (m = Announcement(x) /\ MayAnnounce(x))
<1>1. \A x \in Device : ReadDatagram(x) \/ EndSearch(x) \/ SearchBreaks(x) =>
        inbox'[d] \subseteq inbox[d]
  <2>1. inbox = [e \in Device |-> inbox[e]]
    BY DEF TypeInv, TypeOK
  <2>2. ASSUME NEW x \in Device, NEW how, Leaves(x, how) PROVE inbox'[d] \subseteq inbox[d]
    BY <2>1, <2>2 DEF Leaves
  <2>3. ASSUME NEW x \in Device, NEW n, inbox' = [inbox EXCEPT ![x] = @ \ {n}]
        PROVE  inbox'[d] \subseteq inbox[d]
    BY <2>1, <2>3
  <2>4. ASSUME NEW x \in Device, ReadDatagram(x) PROVE inbox'[d] \subseteq inbox[d]
    BY <2>2, <2>3, <2>4, Reading
  <2> QED
    BY <2>2, <2>4 DEF EndSearch, SearchBreaks
<1>2. \A x \in Device :
        \/ StartReceiver(x) \/ StopReceiver(x) \/ AnswerLookup(x) \/ AnnouncerDies(x)
        \/ LookupDies(x) \/ Search(x) \/ TakeReply(x) \/ GiveUp(x)
        => inbox' = inbox
  BY DEF StartReceiver, StopReceiver, AnswerLookup, AnnouncerDies, LookupDies, Search, TakeReply,
     GiveUp, searchVars
<1>3. Tick \/ UNCHANGED vars => inbox' = inbox
  BY DEF Tick, vars, searchVars
<1>4. \/ \E x \in Device : Announce(x) \/ AnnounceSearch(x)
      \/ \E x \in Device : Ask(x)
  BY <1>1, <1>2, <1>3 DEF Next, SearchStep, ReceiverStep
<1>5. ASSUME NEW x \in Device, Announce(x) \/ AnnounceSearch(x)
      PROVE  /\ Running(d) /\ searching' = searching /\ down' = down
             /\ m = Announcement(x) /\ MayAnnounce(x)
  <2>1. PICK S : Reaches(Announcement(x), S)
    BY <1>5 DEF Announce, AnnounceSearch, Broadcasts
  <2>2. m = Announcement(x) /\ Running(d)
    BY <2>1, Datagrams, Reached DEF TypeInv
  <2>3. MayAnnounce(x) /\ searching' = searching /\ down' = down
    BY <1>5 DEF Announce, AnnounceSearch, MayAnnounce
  <2> QED
    BY <2>2, <2>3
<1>6. ASSUME NEW x \in Device, Ask(x)
      PROVE  Running(d) /\ searching' = searching /\ down' = down /\ m = LookupOf(x)
  <2>1. PICK S : Reaches(LookupOf(x), S)
    BY <1>6 DEF Ask
  <2>2. m = LookupOf(x) /\ Running(d)
    BY <2>1, Datagrams, Reached DEF TypeInv
  <2> QED
    BY <1>6, <2>2 DEF Ask
<1> QED
  BY <1>4, <1>5, <1>6

\* A search that ends leaves nothing to be read, and nothing reaches it after.
LEMMA InboxStep ==
    ASSUME TypeInv, InboxInv, [Next]_vars
    PROVE  InboxInv'
<1> SUFFICES ASSUME NEW d \in Device, ~Running(d)' PROVE inbox'[d] = {}
  BY DEF InboxInv
<1>1. inbox'[d] \in SUBSET [kind : {"announce", "lookup"}, dev : Device]
  BY TypeStep DEF TypeInv, TypeOK
<1>2. CASE ~Running(d)
  BY <1>2, Arrivals DEF InboxInv
<1>3. CASE Running(d)
  <2>1. searching' # searching
    BY <1>3 DEF Running
  <2>2. \A x \in Device :
        \/ StartReceiver(x) \/ StopReceiver(x) \/ ReceiverStep(x)
        \/ AnnouncerDies(x) \/ LookupDies(x) \/ AnnounceSearch(x)
        \/ Ask(x) \/ TakeReply(x) \/ GiveUp(x)
        => searching' = searching
    BY DEF StartReceiver, StopReceiver, ReceiverStep, Announce, AnswerLookup, AnnouncerDies,
       LookupDies, AnnounceSearch, Ask, TakeReply, GiveUp, searchVars
  <2>3. Tick \/ UNCHANGED vars => searching' = searching
    BY DEF Tick, vars, searchVars
  <2>4. \A x \in Device : Search(x) => x # d /\ searching'[d] = searching[d]
    BY <1>3 DEF Search, TypeInv, TypeOK
  <2>5. PICK x \in Device : ReadDatagram(x) \/ EndSearch(x) \/ SearchBreaks(x)
    BY <1>3, <2>1, <2>2, <2>3, <2>4 DEF Next, SearchStep, Running
  <2>6. PICK how : Leaves(x, how)
    BY <2>1, <2>5 DEF ReadDatagram, EndSearch, SearchBreaks
  <2>7. x = d
    BY <1>3, <2>6 DEF Leaves, Running, TypeInv, TypeOK
  <2> QED
    BY <2>6, <2>7 DEF Leaves, TypeInv, TypeOK
<1> QED
  BY <1>2, <1>3

\* A step makes nobody down who may announce itself or is about to be heard.
LEMMA DownStep ==
    ASSUME TypeInv, InboxInv, DownInv, [Next]_vars
    PROVE  DownInv'
<1>1. ASSUME NEW e \in Device, MayAnnounce(e)' PROVE down'[e] = 0
  <2>1. CASE MayAnnounce(e)
    <3>1. down[e] = 0
      BY <2>1 DEF DownInv
    <3>2. CASE Tick
      BY <2>1, <3>2 DEF Tick
    <3>3. \A x \in Device : Search(x) \/ StartReceiver(x) => down'[e] = 0
      BY <3>1 DEF Search, StartReceiver, TypeInv, TypeOK
    <3>4. \A x \in Device : ReadDatagram(x) => down' = down
      BY DEF ReadDatagram
    <3>5. UNCHANGED vars => down' = down
      BY DEF vars
    <3> QED
      BY <3>1, <3>2, <3>3, <3>4, <3>5, Quiet DEF Next, SearchStep
  <2>2. CASE ~MayAnnounce(e)
    <3>1. CASE Running(e)' /\ e \notin Phone
      <4>1. Search(e)
        BY <2>2, <3>1, SearchBegins DEF MayAnnounce
      <4> QED
        BY <3>1, <4>1 DEF Search, TypeInv, TypeOK
    <3>2. CASE announcer'[e] = "up"
      <4>1. announcer[e] # "up"
        BY <2>2 DEF MayAnnounce
      <4>2. \A x \in Device : StopReceiver(x) \/ AnnouncerDies(x) => announcer'[e] # "up"
        BY <4>1 DEF StopReceiver, AnnouncerDies, TypeInv, TypeOK
      <4>3. \A x \in Device :
              \/ ReceiverStep(x) \/ LookupDies(x) \/ Search(x) \/ SearchStep(x)
              \/ SearchBreaks(x) \/ Ask(x) \/ TakeReply(x) \/ GiveUp(x)
              => announcer' = announcer
        BY DEF ReceiverStep, Announce, AnswerLookup, LookupDies, Search, SearchStep, AnnounceSearch,
           ReadDatagram, EndSearch, SearchBreaks, Ask, TakeReply, GiveUp, receiverVars
      <4>4. Tick \/ UNCHANGED vars => announcer' = announcer
        BY DEF Tick, vars, receiverVars
      <4>5. PICK x \in Device : StartReceiver(x)
        BY <3>2, <4>1, <4>2, <4>3, <4>4 DEF Next
      <4>6. x = e
        BY <3>2, <4>1, <4>5 DEF StartReceiver, TypeInv, TypeOK
      <4> QED
        BY <4>5, <4>6 DEF StartReceiver, TypeInv, TypeOK
    <3> QED
      BY <1>1, <3>1, <3>2 DEF MayAnnounce
  <2> QED
    BY <2>1, <2>2
<1>2. ASSUME NEW d \in Device, NEW e \in Device, Announcement(e) \in inbox'[d]
      PROVE  down'[e] = 0
  <2>1. CASE Announcement(e) \in inbox[d]
    <3>1. down[e] = 0
      BY <2>1 DEF DownInv
    <3>2. ~Tick
      <4>1. Running(d)
        BY <2>1 DEF InboxInv
      <4> QED
        BY <2>1, <4>1 DEF Tick
    <3>3. \A x \in Device : Search(x) \/ StartReceiver(x) => down'[e] = 0
      BY <3>1 DEF Search, StartReceiver, TypeInv, TypeOK
    <3>4. \A x \in Device : ReadDatagram(x) => down' = down
      BY DEF ReadDatagram
    <3>5. UNCHANGED vars => down' = down
      BY DEF vars
    <3> QED
      BY <3>1, <3>2, <3>3, <3>4, <3>5, Quiet DEF Next, SearchStep
  <2>2. CASE Announcement(e) \notin inbox[d]
    <3>1. down' = down /\ \E x \in Device : \/ Announcement(e) = LookupOf(x)
                                            \/ Announcement(e) = Announcement(x) /\ MayAnnounce(x)
      BY <1>2, <2>2, Arrivals
    <3>2. MayAnnounce(e)
      BY <3>1, Datagrams
    <3> QED
      BY <3>1, <3>2 DEF DownInv
  <2> QED
    BY <2>1, <2>2
<1>3. \A d, e \in Device : Announcement(e)' = Announcement(e)
  BY DEF Announcement
<1> QED
  BY <1>1, <1>2, <1>3 DEF DownInv

\* A second ages an entry as it ages the silence of its device.
LEMMA AgeStep ==
    ASSUME TypeInv, ListInv, DownInv, AgeInv, [Next]_vars
    PROVE  AgeInv'
<1> DEFINE Old(d, e) == down[e] <= IF d \in Phone THEN Duration - left[d] ELSE list[d][e].age
<1> SUFFICES ASSUME NEW d \in Device, NEW e \in Device, Running(d)', list'[d][e] # Absent
             PROVE  Old(d, e)'
  BY DEF AgeInv, Listed
<1>1. /\ down[e] \in Nat /\ left[d] \in 0..Duration /\ Duration \in Nat
      /\ list[d][e] = Absent \/ list[d][e].age \in 0..StaleAfter
  BY Constants DEF TypeInv, TypeOK, ListInv
<1>2. Running(d) /\ list[d][e] # Absent => Old(d, e)
  BY DEF AgeInv, Listed
<1>3. ASSUME list'[d] = list[d], left'[d] = left[d], down'[e] \in {0, down[e]}, Running(d)
      PROVE  Old(d, e)'
  BY <1>1, <1>2, <1>3
<1>4. ASSUME Search(d) PROVE FALSE
  BY <1>4 DEF Search, ListInv
<1>5. Running(d)
  BY <1>4, SearchBegins
<1>6. CASE Tick
  <2>1. down'[e] \in {0, down[e], down[e] + 1} /\ left'[d] = left[d] - 1
    BY <1>5, <1>6 DEF Tick, TypeInv, TypeOK
  <2>2. CASE d \in Phone
    <3>1. list'[d] = list[d]
      BY <1>6, <2>2 DEF Tick
    <3> QED
      BY <1>1, <1>2, <1>5, <2>1, <2>2, <3>1
  <2>3. CASE d \notin Phone
    <3>1. list'[d][e] = Aged(list[d][e])
      BY <1>5, <1>6, <2>3 DEF Tick
    <3>2. list[d][e] # Absent
      BY <3>1, AgedAbsent
    <3>3. PICK a \in 0..StaleAfter, n \in Known : list[d][e] = [age |-> a, name |-> n]
      <4>1. list[d][e] \in {Absent} \cup [age : 0..StaleAfter, name : Known]
        BY DEF ListInv
      <4> QED
        BY <3>2, <4>1
    <3>4. list'[d][e] = [age |-> a + 1, name |-> n]
      BY <3>1, <3>3, Ageing
    <3>5. down[e] <= a
      BY <1>2, <1>5, <2>3, <3>2, <3>3
    <3> QED
      BY <1>1, <2>1, <2>3, <3>4, <3>5, Constants
  <2> QED
    BY <2>2, <2>3
<1>7. ASSUME NEW x \in Device, Search(x) \/ StartReceiver(x) PROVE Old(d, e)'
  <2>1. down'[e] \in {0, down[e]}
    BY <1>7 DEF Search, StartReceiver, TypeInv, TypeOK
  <2>2. list'[d] = list[d] /\ left'[d] = left[d]
    <3>1. list = [c \in Device |-> list[c]] /\ left = [c \in Device |-> left[c]]
      BY DEF ListInv, TypeInv, TypeOK
    <3>2. CASE Search(x)
      <4>1. x # d
        BY <1>4, <3>2
      <4> QED
        BY <3>1, <3>2, <4>1 DEF Search
    <3>3. CASE StartReceiver(x)
      BY <3>3 DEF StartReceiver, searchVars
    <3> QED
      BY <1>7, <3>2, <3>3
  <2> QED
    BY <1>3, <1>5, <2>1, <2>2
<1>8. ASSUME NEW x \in Device, ReadDatagram(x) PROVE Old(d, e)'
  <2>1. left' = left /\ down' = down
    BY <1>8 DEF ReadDatagram
  <2>2. CASE list' = list
    BY <1>3, <1>5, <2>1, <2>2
  <2>3. ASSUME NEW y \in Device, Announcement(y) \in inbox[x],
               list' = [list EXCEPT ![x][y] = [age |-> 0, name |-> Unescape(name[y]).text]]
        PROVE  Old(d, e)'
    <3>1. CASE x = d /\ y = e
      <4>1. down[e] = 0
        BY <2>3, <3>1 DEF DownInv
      <4>2. list'[d][e].age = 0
        BY <2>3, <3>1 DEF ListInv
      <4> QED
        BY <1>1, <2>1, <4>1, <4>2
    <3>2. CASE x # d \/ y # e
      <4>1. list'[d][e] = list[d][e]
        BY <2>3, <3>2 DEF ListInv
      <4> QED
        BY <1>2, <1>5, <2>1, <4>1
    <3> QED
      BY <3>1, <3>2
  <2> QED
    BY <1>8, <2>2, <2>3, Reading
<1>9. UNCHANGED vars => Old(d, e)'
  BY <1>3, <1>5 DEF vars, searchVars
<1> HIDE DEF Old
<1> QED
  BY <1>3, <1>5, <1>6, <1>7, <1>8, <1>9, Quiet DEF Next, SearchStep

\* A step other than a search of d takes no device into those that d must list.
LEMMA ExpectedShrinks ==
    ASSUME TypeInv, [Next]_vars, NEW d \in Device, ~Search(d)
    PROVE  /\ Expected(d)' \subseteq Expected(d)
           /\ steady'[d] \subseteq steady[d]
<1>1. name' = name
  BY Quiet
<1>2. steady = [c \in Device |-> steady[c]] /\ missed = [c \in Device |-> missed[c]]
  BY DEF TypeInv, TypeOK
<1>3. ASSUME NEW x \in Device, Search(x) PROVE steady'[d] = steady[d] /\ missed'[d] = missed[d]
  <2>1. x # d
    BY <1>3
  <2> QED
    BY <1>2, <1>3, <2>1 DEF Search
<1>4. ASSUME NEW x \in Device, StopReceiver(x) \/ AnnouncerDies(x)
      PROVE  steady'[d] \subseteq steady[d] /\ missed' = missed
  BY <1>2, <1>4 DEF StopReceiver, AnnouncerDies
<1>5. ASSUME NEW x \in Device, Announce(x) \/ AnnounceSearch(x)
      PROVE  steady' = steady /\ missed[d] \subseteq missed'[d]
  <2>1. Broadcasts(x) /\ steady' = steady
    BY <1>5 DEF Announce, AnnounceSearch
  <2> QED
    BY <2>1 DEF Broadcasts
<1>6. ASSUME NEW x \in Device,
             \/ StartReceiver(x) \/ AnswerLookup(x) \/ LookupDies(x)
             \/ ReadDatagram(x) \/ EndSearch(x) \/ SearchBreaks(x)
             \/ Ask(x) \/ TakeReply(x) \/ GiveUp(x)
      PROVE  steady' = steady /\ missed' = missed
  BY <1>6 DEF StartReceiver, AnswerLookup, LookupDies, ReadDatagram, EndSearch, SearchBreaks,
     Ask, TakeReply, GiveUp, searchVars
<1>7. Tick \/ UNCHANGED vars => steady' = steady /\ missed' = missed
  BY DEF Tick, vars, searchVars
<1>8. steady'[d] \subseteq steady[d] /\ missed[d] \subseteq missed'[d]
  BY <1>3, <1>4, <1>5, <1>6, <1>7 DEF Next, ReceiverStep, SearchStep
<1> QED
  BY <1>1, <1>8 DEF Expected

\* Whoever announces itself all through a search is announcing itself.
LEMMA SteadyStep ==
    ASSUME TypeInv, HeardInv, [Next]_vars, NEW d \in Device, NEW e \in steady'[d]
    PROVE  announcer'[e] = "up"
<1> DEFINE All == announcer = [c \in Device |-> announcer[c]] /\ steady \in [Device -> SUBSET Device]
<1>1. All
  BY DEF TypeInv, TypeOK
<1>2. CASE Search(d)
  BY <1>1, <1>2 DEF Search, receiverVars
<1>3. CASE ~Search(d)
  <2>1. e \in steady[d]
    BY <1>3, ExpectedShrinks
  <2>2. announcer[e] = "up" /\ e \in Device
    BY <1>1, <2>1 DEF HeardInv
  <2>3. \A x \in Device : StopReceiver(x) \/ AnnouncerDies(x) => announcer'[e] = announcer[e]
    <3>1. ASSUME NEW x \in Device, StopReceiver(x) \/ AnnouncerDies(x)
          PROVE  announcer'[e] = announcer[e]
      <4>1. e # x
        BY <1>1, <3>1 DEF StopReceiver, AnnouncerDies
      <4> QED
        BY <1>1, <3>1, <4>1 DEF StopReceiver, AnnouncerDies
    <3> QED
      BY <3>1
  <2>4. \A x \in Device : StartReceiver(x) => announcer'[e] = "up"
    BY <1>1, <2>2 DEF StartReceiver
  <2>5. \A x \in Device :
          \/ ReceiverStep(x) \/ LookupDies(x) \/ Search(x) \/ SearchStep(x)
          \/ SearchBreaks(x) \/ Ask(x) \/ TakeReply(x) \/ GiveUp(x)
          => announcer' = announcer
    BY DEF ReceiverStep, Announce, AnswerLookup, LookupDies, Search, SearchStep, AnnounceSearch,
       ReadDatagram, EndSearch, SearchBreaks, Ask, TakeReply, GiveUp, receiverVars
  <2>6. Tick \/ UNCHANGED vars => announcer' = announcer
    BY DEF Tick, vars, receiverVars
  <2> QED
    BY <2>2, <2>3, <2>4, <2>5, <2>6 DEF Next
<1> QED
  BY <1>2, <1>3

\* A search hears those it must list, second by second.
LEMMA HeardStep ==
    ASSUME TypeInv, ListInv, HeardInv, [Next]_vars
    PROVE  HeardInv'
<1> DEFINE New(d, e) == e \in Listed(d) /\ list[d][e].age = 0
           Due1(d, e) == left[d] < Duration /\ <<e, "thread">> \in sent =>
                            New(d, e) \/ Announcement(e) \in inbox[d]
           Due2(d, e) == left[d] < Duration - 1 => e \in Listed(d)
<1>1. \A d \in Device : \A e \in steady'[d] : announcer'[e] = "up"
  BY SteadyStep
<1>2. ASSUME NEW d \in Device, Running(d)', NEW e \in Expected(d)'
      PROVE  Due1(d, e)' /\ Due2(d, e)'
  <2>1. CASE Search(d)
    <3>1. left'[d] = Duration
      BY <2>1 DEF Search, TypeInv, TypeOK
    <3> QED
      BY <3>1, Constants
  <2>2. CASE ~Search(d)
    <3>1. /\ Running(d) /\ e \in Expected(d)
          /\ e \in Device /\ e # d /\ announcer[e] = "up" /\ Plain(name[e])
      <4>1. Running(d) /\ e \in Expected(d)
        BY <1>2, <2>2, SearchBegins, ExpectedShrinks
      <4> QED
        BY <4>1 DEF Expected, HeardInv, TypeInv, TypeOK
    <3>2. Due1(d, e) /\ Due2(d, e)
      BY <3>1 DEF HeardInv
    <3>3. /\ left[d] \in 0..Duration /\ Duration \in Nat /\ Duration >= 1 /\ StaleAfter >= 1
          /\ StaleAfter \in Nat
          /\ list = [c \in Device |-> list[c]] /\ inbox = [c \in Device |-> inbox[c]]
          /\ left = [c \in Device |-> left[c]]
      BY Constants DEF TypeInv, TypeOK, ListInv
    <3>4. ASSUME list'[d] = list[d], left'[d] = left[d], inbox[d] \subseteq inbox'[d],
                 <<e, "thread">> \in sent' => <<e, "thread">> \in sent
          PROVE  Due1(d, e)' /\ Due2(d, e)'
      BY <3>2, <3>4 DEF Listed, Announcement
    <3>5. CASE Tick
      <4>1. left'[d] = left[d] - 1 /\ sent' = {} /\ inbox[d] = {}
        BY <3>1, <3>3, <3>5 DEF Tick
      <4>2. <<e, "thread">> \in sent
        <5>1. <<e, "thread">> \in Due
          BY <3>1 DEF Due
        <5> QED
          BY <3>5, <5>1 DEF Tick
      <4>3. ASSUME left'[d] < Duration - 1 PROVE list'[d][e] # Absent
        <5>1. e \in Listed(d) /\ list[d][e].age = 0
          BY <3>2, <3>3, <4>1, <4>2, <4>3
        <5>2. list'[d][e] = list[d][e] \/ list'[d][e] = Aged(list[d][e])
          BY <3>1, <3>5 DEF Tick
        <5>3. list[d][e] \in {Absent} \cup [age : 0..StaleAfter, name : Known]
          BY <3>1 DEF ListInv
        <5>4. PICK n : list[d][e] = [age |-> 0, name |-> n]
          BY <5>1, <5>3 DEF Listed
        <5>5. Aged(list[d][e]) # Absent
          <6>1. 0 \in 0..StaleAfter /\ 0 < StaleAfter
            BY <3>3
          <6> QED
            BY <5>4, <6>1, Ageing
        <5> QED
          BY <5>1, <5>2, <5>5 DEF Listed
      <4> QED
        BY <3>1, <4>1, <4>3 DEF Listed
    <3>6. ASSUME NEW x \in Device, Search(x) PROVE Due1(d, e)' /\ Due2(d, e)'
      <4>1. x # d
        BY <2>2, <3>6
      <4>2. list'[d] = list[d] /\ left'[d] = left[d] /\ inbox' = inbox /\ sent' = sent
        BY <3>3, <3>6, <4>1 DEF Search
      <4> QED
        BY <3>4, <4>2
    <3>7. ASSUME NEW x \in Device, Announce(x) PROVE Due1(d, e)' /\ Due2(d, e)'
      <4>1. /\ Broadcasts(x) /\ sent' = sent \cup {<<x, "thread">>}
            /\ list' = list /\ left' = left
        BY <3>7 DEF Announce
      <4>2. PICK S \in SUBSET Device :
              /\ Reaches(Announcement(x), S)
              /\ missed' = [c \in Device |-> IF Running(c) /\ c \notin S THEN missed[c] \cup {x}
                                                                       ELSE missed[c]]
        BY <4>1 DEF Broadcasts
      <4>3. /\ inbox[d] \subseteq inbox'[d]
            /\ d \in S => Announcement(x) \in inbox'[d]
        BY <4>2, Datagrams, Reached DEF TypeInv
      <4>4. CASE x = e
        <5>1. e \notin missed'[d]
          BY <1>2 DEF Expected
        <5>2. d \in S
          BY <3>1, <4>2, <4>4, <5>1
        <5>3. Announcement(e)' \in inbox'[d]
          BY <4>3, <4>4, <5>2 DEF Announcement
        <5> QED
          BY <3>2, <4>1, <5>3 DEF Listed
      <4>5. CASE x # e
        <5>1. <<e, "thread">> \in sent' => <<e, "thread">> \in sent
          BY <4>1, <4>5
        <5> QED
          BY <3>4, <4>1, <4>3, <5>1
      <4> QED
        BY <4>4, <4>5
    <3>8. ASSUME NEW x \in Device, AnnounceSearch(x) PROVE Due1(d, e)' /\ Due2(d, e)'
      <4>1. /\ Broadcasts(x) /\ sent' = sent \cup {<<x, "search">>}
            /\ list' = list /\ left' = left
        BY <3>8 DEF AnnounceSearch
      <4>2. PICK S : Reaches(Announcement(x), S)
        BY <4>1 DEF Broadcasts
      <4>3. inbox[d] \subseteq inbox'[d]
        BY <4>2, Datagrams, Reached DEF TypeInv
      <4>4. <<e, "thread">> \in sent' => <<e, "thread">> \in sent
        BY <4>1
      <4> QED
        BY <3>4, <4>1, <4>3, <4>4
    <3>9. ASSUME NEW x \in Device, Ask(x) PROVE Due1(d, e)' /\ Due2(d, e)'
      <4>1. PICK S : Reaches(LookupOf(x), S)
        BY <3>9 DEF Ask
      <4>2. inbox[d] \subseteq inbox'[d]
        BY <4>1, Datagrams, Reached DEF TypeInv
      <4> QED
        BY <3>4, <3>9, <4>2 DEF Ask
    <3>10. ASSUME NEW x \in Device, EndSearch(x) \/ SearchBreaks(x)
           PROVE  Due1(d, e)' /\ Due2(d, e)'
      <4>1. /\ list' = list /\ left' = left /\ sent' = sent
            /\ \E how \in {"done", "failed"} : Leaves(x, how)
        BY <3>10 DEF EndSearch, SearchBreaks
      <4>2. x # d
        BY <1>2, <4>1 DEF Leaves, Running, TypeInv, TypeOK
      <4>3. inbox'[d] = inbox[d]
        BY <3>3, <4>1, <4>2 DEF Leaves
      <4> QED
        BY <3>4, <4>1, <4>3
    <3>11. ASSUME NEW x \in Device, ReadDatagram(x) PROVE Due1(d, e)' /\ Due2(d, e)'
      <4>1. left' = left /\ sent' = sent
        BY <3>11 DEF ReadDatagram
      <4>2. CASE Leaves(x, "failed") /\ list' = list
        <5>1. x # d
          BY <1>2, <4>2 DEF Leaves, Running, TypeInv, TypeOK
        <5>2. inbox'[d] = inbox[d]
          BY <3>3, <4>2, <5>1 DEF Leaves
        <5> QED
          BY <3>4, <4>1, <4>2, <5>2
      <4>3. ASSUME NEW m \in inbox[x], inbox' = [inbox EXCEPT ![x] = @ \ {m}], list' = list,
                   \A c \in Device \ {x} : Plain(name[c]) => m # Announcement(c)
            PROVE  Due1(d, e)' /\ Due2(d, e)'
        <5>1. Announcement(e) \in inbox[d] => Announcement(e) \in inbox'[d]
          BY <3>1, <3>3, <4>3
        <5> QED
          BY <3>2, <4>1, <4>3, <5>1 DEF Listed, Announcement
      <4>4. ASSUME NEW m \in inbox[x], inbox' = [inbox EXCEPT ![x] = @ \ {m}],
                   NEW y \in Device, m = Announcement(y),
                   list' = [list EXCEPT ![x][y] = [age |-> 0, name |-> Unescape(name[y]).text]]
            PROVE  Due1(d, e)' /\ Due2(d, e)'
        <5>1. list = [c \in Device |-> list[c]] /\ list[d] = [c \in Device |-> list[d][c]]
          BY DEF ListInv
        <5>2. CASE x = d /\ y = e
          <6>1. list'[d][e] = [age |-> 0, name |-> Unescape(name[e]).text]
            BY <3>1, <4>4, <5>1, <5>2
          <6>2. list'[d][e] # Absent /\ list'[d][e].age = 0
            BY <6>1 DEF Absent
          <6> QED
            BY <3>1, <6>2 DEF Listed
        <5>3. CASE x # d \/ y # e
          <6>1. list'[d][e] = list[d][e]
            BY <3>1, <4>4, <5>1, <5>3
          <6>2. Announcement(e) \in inbox[d] => Announcement(e) \in inbox'[d]
            BY <3>1, <3>3, <4>4, <5>3, Datagrams
          <6> QED
            BY <3>2, <4>1, <6>1, <6>2 DEF Listed, Announcement
        <5> QED
          BY <5>2, <5>3
      <4> QED
        BY <3>11, <4>2, <4>3, <4>4, Reading
    <3>12. ASSUME NEW x \in Device,
                  \/ StartReceiver(x) \/ StopReceiver(x) \/ AnswerLookup(x) \/ AnnouncerDies(x)
                  \/ LookupDies(x) \/ TakeReply(x) \/ GiveUp(x)
           PROVE  list' = list /\ left' = left /\ inbox' = inbox /\ sent' = sent
      BY <3>12 DEF StartReceiver, StopReceiver, AnswerLookup, AnnouncerDies, LookupDies, TakeReply,
         GiveUp, searchVars
    <3>13. UNCHANGED vars => list' = list /\ left' = left /\ inbox' = inbox /\ sent' = sent
      BY DEF vars, searchVars
    <3> HIDE DEF Due1, Due2
    <3> QED
      BY <3>4, <3>5, <3>6, <3>7, <3>8, <3>9, <3>10, <3>11, <3>12, <3>13
      DEF Next, ReceiverStep, SearchStep
  <2> QED
    BY <2>1, <2>2
<1> QED
  BY <1>1, <1>2 DEF HeardInv

\* A lookup and an answer to it are of one who looks up, and of one who has had a
\* receiver since.
LEMMA AnswerStep ==
    ASSUME TypeInv, AnswerInv, [Next]_vars
    PROVE  AnswerInv'
<1> DEFINE Open(d, e) == d \in asked[e] \/ MatchOf(e) \in replies[d]
           Live(d, e) == resolving[d] = "wait" /\ e \in upDuring[d]
<1>1. /\ announcer = [c \in Device |-> announcer[c]] /\ lookup = [c \in Device |-> lookup[c]]
      /\ asked \in [Device -> SUBSET Device] /\ replies = [c \in Device |-> replies[c]]
      /\ resolving = [c \in Device |-> resolving[c]] /\ upDuring = [c \in Device |-> upDuring[c]]
  BY DEF TypeInv, TypeOK
<1>2. /\ \A e \in Device : lookup[e] = "up" => announcer[e] # "off"
      /\ \A d, e \in Device : Open(d, e) => Live(d, e)
  BY DEF AnswerInv
<1>3. ASSUME NEW x \in Device, StartReceiver(x) PROVE AnswerInv'
  <2>1. \A e \in Device : lookup'[e] = "up" => announcer'[e] # "off"
    BY <1>1, <1>2, <1>3 DEF StartReceiver
  <2>2. \A d, e \in Device : Live(d, e) => Live(d, e)'
    BY <1>1, <1>3 DEF StartReceiver
  <2>3. \A d, e \in Device : Open(d, e)' => Open(d, e)
    BY <1>3 DEF StartReceiver, MatchOf
  <2> QED
    BY <1>2, <2>1, <2>2, <2>3 DEF AnswerInv
<1>4. ASSUME NEW x \in Device, StopReceiver(x) PROVE AnswerInv'
  <2>1. \A e \in Device : lookup'[e] = "up" => announcer'[e] # "off"
    BY <1>1, <1>2, <1>4 DEF StopReceiver
  <2>2. \A d, e \in Device : Live(d, e) => Live(d, e)'
    BY <1>4 DEF StopReceiver, lookupVars
  <2>3. \A d, e \in Device : Open(d, e)' => Open(d, e)
    BY <1>1, <1>4 DEF StopReceiver, lookupVars, MatchOf
  <2> QED
    BY <1>2, <2>1, <2>2, <2>3 DEF AnswerInv
<1>5. ASSUME NEW x \in Device, AnnouncerDies(x) PROVE AnswerInv'
  <2>1. \A e \in Device : lookup'[e] = "up" => announcer'[e] # "off"
    BY <1>1, <1>2, <1>5 DEF AnnouncerDies
  <2>2. \A d, e \in Device : (Live(d, e) => Live(d, e)') /\ (Open(d, e)' => Open(d, e))
    BY <1>5 DEF AnnouncerDies, lookupVars, MatchOf
  <2> QED
    BY <1>2, <2>1, <2>2 DEF AnswerInv
<1>6. ASSUME NEW x \in Device, LookupDies(x) PROVE AnswerInv'
  <2>1. \A e \in Device : lookup'[e] = "up" => announcer'[e] # "off"
    BY <1>1, <1>2, <1>6 DEF LookupDies
  <2>2. \A d, e \in Device : Live(d, e) => Live(d, e)'
    BY <1>6 DEF LookupDies, lookupVars
  <2>3. \A d, e \in Device : Open(d, e)' => Open(d, e)
    BY <1>1, <1>6 DEF LookupDies, lookupVars, MatchOf
  <2> QED
    BY <1>2, <2>1, <2>2, <2>3 DEF AnswerInv
<1>7. ASSUME NEW x \in Device, AnswerLookup(x) PROVE AnswerInv'
  <2>1. PICK y \in asked[x] :
          /\ asked' = [asked EXCEPT ![x] = @ \ {y}]
          /\ replies' = [replies EXCEPT ![y] = @ \cup {MatchOf(x)}] \/ replies' = replies
    BY <1>7 DEF AnswerLookup
  <2>2. y \in Device /\ Live(y, x)
    BY <1>1, <1>2, <2>1
  <2>3. ASSUME NEW d \in Device, NEW e \in Device, Open(d, e)' PROVE Live(d, e)
    <3>1. CASE d \in asked'[e]
      BY <1>1, <1>2, <2>1, <3>1
    <3>2. CASE MatchOf(e) \in replies'[d]
      <4>1. MatchOf(e) \in replies[d] \/ (d = y /\ MatchOf(e) = MatchOf(x))
        BY <1>1, <2>1, <2>2, <3>2
      <4> QED
        BY <1>2, <2>2, <4>1, Datagrams
    <3> QED
      BY <2>3, <3>1, <3>2 DEF MatchOf
  <2>4. /\ announcer' = announcer /\ lookup' = lookup
        /\ resolving' = resolving /\ upDuring' = upDuring
    BY <1>7 DEF AnswerLookup
  <2> QED
    BY <1>2, <2>3, <2>4 DEF AnswerInv
<1>8. ASSUME NEW x \in Device, Ask(x) PROVE AnswerInv'
  <2>1. /\ announcer' = announcer /\ lookup' = lookup /\ replies' = replies
        /\ resolving' = [resolving EXCEPT ![x] = "wait"]
        /\ upDuring' = [upDuring EXCEPT ![x] = {e \in Device : announcer[e] # "off"}]
        /\ resolving[x] # "wait"
    BY <1>8 DEF Ask
  <2>2. PICK S \in SUBSET {e \in Device : lookup[e] = "up"} :
          asked' = [e \in Device |-> IF e \in S THEN asked[e] \cup {x} ELSE asked[e]]
    BY <1>8 DEF Ask
  <2>3. ASSUME NEW d \in Device, NEW e \in Device, Open(d, e)' PROVE Live(d, e)'
    <3>1. CASE d = x
      <4>1. ~Open(x, e)
        BY <1>2, <2>1
      <4>2. e \in S
        BY <2>1, <2>2, <2>3, <3>1, <4>1 DEF MatchOf
      <4> QED
        BY <1>1, <1>2, <2>1, <3>1, <4>2
    <3>2. CASE d # x
      <4>1. Open(d, e)
        BY <2>1, <2>2, <2>3, <3>2 DEF MatchOf
      <4> QED
        BY <1>1, <1>2, <2>1, <3>2, <4>1
    <3> QED
      BY <3>1, <3>2
  <2> QED
    BY <1>2, <2>1, <2>3 DEF AnswerInv
<1>9. ASSUME NEW x \in Device, TakeReply(x) \/ GiveUp(x) PROVE AnswerInv'
  <2>1. announcer' = announcer /\ lookup' = lookup /\ upDuring' = upDuring
    BY <1>9 DEF TakeReply, GiveUp
  <2>2. CASE Closes(x) /\ \E v : resolving' = [resolving EXCEPT ![x] = v]
    <3>1. ASSUME NEW d \in Device, NEW e \in Device, Open(d, e)' PROVE d # x /\ Open(d, e)
      BY <1>1, <2>2, <3>1 DEF Closes, MatchOf
    <3>2. \A d \in Device : d # x => resolving'[d] = resolving[d]
      BY <1>1, <2>2
    <3> QED
      BY <1>2, <2>1, <3>1, <3>2 DEF AnswerInv
  <2>3. CASE \E m : /\ replies' = [replies EXCEPT ![x] = @ \ {m}]
                    /\ asked' = asked /\ resolving' = resolving
    <3>1. \A d, e \in Device : Open(d, e)' => Open(d, e)
      BY <1>1, <2>3 DEF MatchOf
    <3> QED
      BY <1>2, <2>1, <2>3, <3>1 DEF AnswerInv
  <2> QED
    BY <1>9, <2>2, <2>3 DEF TakeReply, GiveUp
<1>10. ASSUME \/ Tick \/ UNCHANGED vars
              \/ \E x \in Device : Announce(x) \/ Search(x) \/ SearchStep(x) \/ SearchBreaks(x)
       PROVE  AnswerInv'
  <2>1. UNCHANGED <<announcer, lookup, asked, replies, resolving, upDuring>>
    BY <1>10 DEF Tick, vars, Announce, Search, SearchStep, AnnounceSearch, ReadDatagram, EndSearch,
       SearchBreaks, receiverVars, lookupVars
  <2> QED
    BY <1>2, <2>1 DEF AnswerInv, MatchOf
<1> QED
  BY <1>3, <1>4, <1>5, <1>6, <1>7, <1>8, <1>9, <1>10 DEF Next, ReceiverStep

\* What was found stays right, and what is found is.
LEMMA FoundStep ==
    ASSUME TypeInv, AnswerInv, FoundInv, [Next]_vars
    PROVE  FoundInv'
<1> DEFINE Right(d) == LET e == result[d].dev IN
                       /\ e \in Device
                       /\ code[e] = wanted[d] /\ e \in upDuring[d]
                       /\ d \notin Phone \/ Plain(name[e]) => result[d].name = name[e]
<1> SUFFICES ASSUME NEW d \in Device, resolving'[d] = "found" PROVE Right(d)'
  BY DEF FoundInv
<1>1. /\ wanted = [c \in Device |-> wanted[c]] /\ result = [c \in Device |-> result[c]]
      /\ resolving = [c \in Device |-> resolving[c]] /\ upDuring = [c \in Device |-> upDuring[c]]
  BY DEF TypeInv, TypeOK
<1>2. name' = name /\ code' = code
  BY Quiet
<1>3. resolving[d] = "found" => Right(d)
  BY DEF FoundInv
<1>4. ASSUME resolving'[d] = resolving[d], wanted' = wanted, result'[d] = result[d],
             upDuring[d] \subseteq upDuring'[d]
      PROVE  Right(d)'
  BY <1>2, <1>3, <1>4
<1>5. ASSUME NEW x \in Device, StartReceiver(x) PROVE Right(d)'
  <2>1. upDuring[d] \subseteq upDuring'[d]
    BY <1>5 DEF StartReceiver
  <2> QED
    BY <1>4, <1>5, <2>1 DEF StartReceiver
<1>6. ASSUME NEW x \in Device, Ask(x) PROVE Right(d)'
  <2>1. x # d
    BY <1>1, <1>6 DEF Ask
  <2>2. /\ resolving'[d] = resolving[d] /\ result'[d] = result[d]
        /\ upDuring'[d] = upDuring[d] /\ wanted'[d] = wanted[d]
    BY <1>1, <1>6, <2>1 DEF Ask
  <2> QED
    BY <1>2, <1>3, <2>2
<1>7. ASSUME NEW x \in Device, TakeReply(x) PROVE Right(d)'
  <2>1. wanted' = wanted /\ upDuring' = upDuring
    BY <1>7 DEF TakeReply
  <2>2. PICK m \in replies[x] :
          \/ /\ ParseMatch(x, Payload(m)) # NoOne
             /\ resolving' = [resolving EXCEPT ![x] = "found"]
             /\ result' = [result EXCEPT ![x] = ParseMatch(x, Payload(m))]
          \/ resolving' = resolving /\ result' = result
    BY <1>7 DEF TakeReply
  <2>3. CASE x # d \/ (resolving' = resolving /\ result' = result)
    <3>1. resolving'[d] = resolving[d] /\ result'[d] = result[d]
      BY <1>1, <2>2, <2>3
    <3> QED
      BY <1>4, <2>1, <3>1
  <2>4. CASE /\ x = d /\ ParseMatch(x, Payload(m)) # NoOne
             /\ result' = [result EXCEPT ![x] = ParseMatch(x, Payload(m))]
    <3>1. m \in [kind : {"match"}, dev : Device]
      BY DEF TypeInv, TypeOK
    <3>2. PICK e \in Device : m = MatchOf(e)
      BY <3>1, Datagrams
    <3>3. name[e] \in Seq(Char) /\ code[e] \in Code /\ wanted[d] \in Code
      BY DEF TypeInv, TypeOK
    <3>4. result'[d] = ParseMatch(d, Payload(MatchOf(e)))
      BY <1>1, <2>4, <3>2
    <3>5. /\ code[e] = wanted[d] /\ result'[d].dev = e
          /\ d \notin Phone \/ Plain(name[e]) => result'[d].name = name[e]
      BY <2>4, <3>2, <3>3, <3>4, ParsesMatch
    <3>6. e \in upDuring[d]
      BY <2>4, <3>2 DEF AnswerInv
    <3> QED
      BY <1>2, <2>1, <3>5, <3>6
  <2> QED
    BY <2>2, <2>3, <2>4
<1>8. ASSUME NEW x \in Device, GiveUp(x) PROVE Right(d)'
  <2>1. x # d
    BY <1>1, <1>8 DEF GiveUp
  <2> QED
    BY <1>1, <1>4, <1>8, <2>1 DEF GiveUp
<1>9. ASSUME \/ Tick \/ UNCHANGED vars
             \/ \E x \in Device :
                   \/ StopReceiver(x) \/ ReceiverStep(x) \/ AnnouncerDies(x) \/ LookupDies(x)
                   \/ Search(x) \/ SearchStep(x) \/ SearchBreaks(x)
      PROVE  Right(d)'
  <2>1. UNCHANGED <<resolving, wanted, result, upDuring>>
    BY <1>9 DEF Tick, vars, StopReceiver, ReceiverStep, Announce, AnswerLookup, AnnouncerDies,
       LookupDies, Search, SearchStep, AnnounceSearch, ReadDatagram, EndSearch, SearchBreaks,
       lookupVars
  <2> QED
    BY <1>4, <2>1
<1> HIDE DEF Right
<1> QED
  BY <1>5, <1>6, <1>7, <1>8, <1>9 DEF Next

\* The search of a device has ended only when its time was up.
LEMMA DoneStep ==
    ASSUME Duration > 1, TypeInv, ListInv, HeardInv, UpIsListed, [Next]_vars
    PROVE  UpIsListed'
<1> SUFFICES ASSUME NEW d \in Device, searching'[d] = "done",
                    NEW e \in steady'[d] \ (missed'[d] \cup {d}), Plain(name'[e])
             PROVE  list'[d][e] # Absent
  BY TypeStep DEF UpIsListed, Listed, TypeInv, TypeOK
<1>1. /\ searching = [c \in Device |-> searching[c]]
      /\ left \in [Device -> 0..Duration] /\ Duration \in Nat
      /\ steady \in [Device -> SUBSET Device]
  BY Constants DEF TypeInv, TypeOK
<1>2. list = [c \in Device |-> list[c]]
  BY DEF ListInv
<1>3. ~Search(d)
  BY <1>1 DEF Search
<1>4. e \in Expected(d) /\ e \in Device
  <2>1. e \in Expected(d)'
    BY DEF Expected
  <2>2. e \in Expected(d)
    BY <1>3, <2>1, ExpectedShrinks
  <2> QED
    BY <1>1, <2>2 DEF Expected
<1>5. searching[d] = "done" => e \in Listed(d)
  BY <1>4 DEF UpIsListed, Expected
<1>6. ASSUME searching'[d] = searching[d], list'[d] = list[d] PROVE list'[d][e] # Absent
  BY <1>5, <1>6 DEF Listed
<1>7. CASE Tick
  BY <1>6, <1>7 DEF Tick, Running
<1>8. ASSUME NEW x \in Device, Search(x) PROVE list'[d][e] # Absent
  <2>1. x # d
    BY <1>3, <1>8
  <2> QED
    BY <1>1, <1>2, <1>6, <1>8, <2>1 DEF Search
<1>9. ASSUME NEW x \in Device, EndSearch(x) PROVE list'[d][e] # Absent
  <2>1. Leaves(x, "done") /\ list' = list /\ left[x] = 0 /\ Running(x)
    BY <1>9 DEF EndSearch
  <2>2. CASE x = d
    <3>1. left[d] < Duration - 1
      BY <1>1, <2>1, <2>2
    <3>2. e \in Listed(d)
      BY <1>4, <2>1, <2>2, <3>1 DEF HeardInv
    <3> QED
      BY <2>1, <3>2 DEF Listed
  <2>3. CASE x # d
    BY <1>1, <1>6, <2>1, <2>3 DEF Leaves
  <2> QED
    BY <2>2, <2>3
<1>10. ASSUME NEW x \in Device, SearchBreaks(x) PROVE list'[d][e] # Absent
  <2>1. Leaves(x, "failed") /\ list' = list
    BY <1>10 DEF SearchBreaks
  <2> QED
    BY <1>1, <1>6, <2>1 DEF Leaves
<1>11. ASSUME NEW x \in Device, ReadDatagram(x) PROVE list'[d][e] # Absent
  <2>1. searching'[d] = searching[d]
    <3>1. Leaves(x, "failed") \/ searching' = searching
      BY <1>11 DEF ReadDatagram
    <3> QED
      BY <1>1, <3>1 DEF Leaves
  <2>2. x # d
    BY <1>11, <2>1 DEF ReadDatagram, Running
  <2>3. list' = list \/ \E y \in Device : \E v : list' = [list EXCEPT ![x][y] = v]
    BY <1>11, Reading
  <2> QED
    BY <1>2, <1>6, <2>1, <2>2, <2>3
<1>12. ASSUME NEW x \in Device,
              \/ StartReceiver(x) \/ StopReceiver(x) \/ ReceiverStep(x)
              \/ AnnouncerDies(x) \/ LookupDies(x) \/ AnnounceSearch(x)
              \/ Ask(x) \/ TakeReply(x) \/ GiveUp(x)
       PROVE  searching' = searching /\ list' = list
  BY <1>12 DEF StartReceiver, StopReceiver, ReceiverStep, Announce, AnswerLookup, AnnouncerDies,
     LookupDies, AnnounceSearch, Ask, TakeReply, GiveUp, searchVars
<1>13. UNCHANGED vars => searching' = searching /\ list' = list
  BY DEF vars, searchVars
<1> QED
  BY <1>6, <1>7, <1>8, <1>9, <1>10, <1>11, <1>12, <1>13 DEF Next, SearchStep

(***************************************************************************)
(* What the invariant gives.                                               *)
(***************************************************************************)

IInv == /\ TypeInv /\ ListInv /\ InboxInv /\ DownInv /\ AgeInv /\ HeardInv
        /\ AnswerInv /\ FoundInv

\* It holds at first.
LEMMA InitInv == Init => IInv
<1> SUFFICES ASSUME Init PROVE IInv
  OBVIOUS
<1>1. TypeInv
  <2>1. name \in [Device -> Seq(Char)] /\ code \in [Device -> Code] /\ wanted = code
    BY DiscoveryAssumption DEF Init
  <2> QED
    BY <2>1, Constants DEF Init, TypeInv, TypeOK
<1>2. \A d \in Device : ~Running(d) /\ Listed(d) = {}
  BY DEF Init, Running, Listed
<1>3. ListInv
  <2>1. list \in [Device -> [Device -> {Absent}]]
    BY DEF Init
  <2> QED
    BY <1>2, <2>1 DEF ListInv
<1>4. InboxInv /\ AgeInv
  BY <1>2 DEF Init, InboxInv, AgeInv
<1>5. DownInv
  BY <1>2 DEF Init, DownInv, MayAnnounce
<1>6. HeardInv
  BY <1>2 DEF Init, HeardInv
<1>7. AnswerInv /\ FoundInv
  BY DEF Init, AnswerInv, FoundInv
<1> QED
  BY <1>1, <1>3, <1>4, <1>5, <1>6, <1>7 DEF IInv

\* Every step keeps it.
LEMMA InvStep == IInv /\ [Next]_vars => IInv'
<1> SUFFICES ASSUME IInv, [Next]_vars PROVE IInv'
  OBVIOUS
<1>1. TypeInv'
  BY TypeStep DEF IInv
<1>2. ListInv'
  BY ListStep DEF IInv
<1>3. InboxInv'
  BY InboxStep DEF IInv
<1>4. DownInv'
  BY DownStep DEF IInv
<1>5. AgeInv'
  BY AgeStep DEF IInv
<1>6. HeardInv'
  BY HeardStep DEF IInv
<1>7. AnswerInv'
  BY AnswerStep DEF IInv
<1>8. FoundInv'
  BY FoundStep DEF IInv
<1> QED
  BY <1>1, <1>2, <1>3, <1>4, <1>5, <1>6, <1>7, <1>8 DEF IInv

\* The invariant holds of every behaviour of the receivers, searches and lookups.
THEOREM Invariance == Spec => []IInv
<1> QED
  BY InitInv, InvStep, PTL DEF Spec

\* Every variable has its type.
THEOREM TypeCorrect == Spec => []TypeOK
<1>1. IInv => TypeOK
  BY DEF IInv, TypeInv
<1> QED
  BY <1>1, Invariance, PTL

\* A search that ends lists nobody who has been silent for longer than the time
\* it remembers a device (prune_expired_devices, scan).
THEOREM Forgotten == Spec => NoGhosts
<1>1. IInv /\ [Next]_vars =>
        [\A d \in Device : Running(d) /\ searching'[d] = "done" =>
            \A e \in Listed(d) : down[e] <= IF d \in Phone THEN Duration ELSE StaleAfter]_vars
  <2> SUFFICES ASSUME IInv, NEW d \in Device, Running(d), NEW e \in Listed(d)
               PROVE  down[e] <= IF d \in Phone THEN Duration ELSE StaleAfter
    OBVIOUS
  <2>1. down[e] \in Nat /\ left[d] \in 0..Duration /\ Duration \in Nat /\ StaleAfter \in Nat
    BY Constants DEF IInv, TypeInv, TypeOK, Listed
  <2>2. down[e] <= IF d \in Phone THEN Duration - left[d] ELSE list[d][e].age
    BY DEF IInv, AgeInv
  <2>3. list[d][e].age \in 0..StaleAfter
    <3>1. list[d][e] \in {Absent} \cup [age : 0..StaleAfter, name : Known]
      BY DEF IInv, ListInv, Listed
    <3> QED
      BY <3>1 DEF Listed
  <2> QED
    BY <2>1, <2>2, <2>3
<1> QED
  BY <1>1, Invariance, PTL DEF Spec, NoGhosts

\* A search of more than a second that ends well lists every receiver that
\* announced itself all through it and of whom it missed nothing, unless its name
\* has a backslash (discover, scan).
THEOREM ListedWhenUp ==
    ASSUME Duration > 1
    PROVE  Spec => []UpIsListed
<1>1. Init => UpIsListed
  BY DEF Init, UpIsListed
<1>2. IInv /\ UpIsListed /\ [Next]_vars => UpIsListed'
  BY DoneStep DEF IInv
<1> QED
  BY <1>1, <1>2, Invariance, PTL DEF Spec

\* Names without a backslash are shown as their devices have them, and by the form
\* every name is (split_fields, unescape_field).
THEOREM NamesAreKept == Spec => []NamesSurvive
<1>1. IInv => NamesSurvive
  <2> SUFFICES ASSUME IInv, NEW d \in Device
               PROVE  /\ \A e \in Listed(d) : Plain(name[e]) => list[d][e].name = name[e]
                      /\ resolving[d] = "found" =>
                            LET e == result[d].dev IN
                            d \notin Phone \/ Plain(name[e]) => result[d].name = name[e]
    BY DEF NamesSurvive
  <2>1. ASSUME NEW e \in Listed(d), Plain(name[e]) PROVE list[d][e].name = name[e]
    <3>1. name[e] \in Seq(Char) /\ list[d][e].name = Unescape(name[e]).text
      BY DEF IInv, TypeInv, ListInv, Listed
    <3>2. Unescape(name[e]) = [text |-> name[e], escaping |-> FALSE]
      BY <2>1, <3>1, UnescapePlain
    <3> QED
      BY <3>1, <3>2
  <2> QED
    BY <2>1 DEF IInv, FoundInv
<1> QED
  BY <1>1, Invariance, PTL

\* A lookup ends with a device that has the code it asked for and has had a
\* receiver since it was sent (CodeLookupService, ConnectionCodeResolver).
THEOREM FoundRight == Spec => []ResolvedRight
<1>1. IInv => ResolvedRight
  BY DEF IInv, FoundInv, ResolvedRight
<1> QED
  BY <1>1, Invariance, PTL
=============================================================================
