--------------------------- MODULE FrameStreamProofs ---------------------------
(***************************************************************************)
(* The two codecs of FrameStream: what make_*_frame writes, parse_*_frame  *)
(* reads back, for every message and all limits; where in a sequence of    *)
(* frames the next one ends; and that FrameStream delivers the messages    *)
(* that were sent, in order and unchanged, for every way the stream cuts   *)
(* the frames up.                                                          *)
(***************************************************************************)
EXTENDS FrameStream, SequenceTheorems, TLAPS

-----------------------------------------------------------------------------
(* The codecs *)

\* Two types never share a number on the wire.
LEMMA WireTypeInjective ==
    \A t, u \in Type : WireType[t] \in Nat /\ (WireType[t] = WireType[u] => t = u)
BY DEF Type, WireType

\* A field, and what it is made of, are sequences of units.
LEMMA FieldType ==
    ASSUME NEW m \in Message, NEW i \in 1..3
    PROVE  /\ Field(m, i) \in Seq(Nat)
           /\ i \in DOMAIN m.texts => m.texts[i] \in Seq(Nat)
           /\ m.texts \in Seq(Seq(Nat))
           /\ m.rest \in Seq(Nat)
           /\ m.type \in Type
BY FrameAssumption DEF Field

\* A payload is a sequence of units.
LEMMA PayloadType ==
    ASSUME NEW m \in Message
    PROVE  Payload(m) \in Seq(Nat)
<1>1. Field(m, 1) \in Seq(Nat) /\ Field(m, 2) \in Seq(Nat) /\ Field(m, 3) \in Seq(Nat)
    BY FieldType
<1>2. m.rest \in Seq(Nat)
    BY FrameAssumption
<1> QED
    BY <1>1, <1>2 DEF Payload

\* A header names its type and the length of its payload, and is valid
\* when the payload is short enough.
LEMMA HeaderType ==
    ASSUME NEW m \in Message
    PROVE  /\ Header(m) \in Seq(Nat) /\ Len(Header(m)) = HeaderLen
           /\ TypeOf(Header(m)) = m.type
           /\ Header(m)[4] = Len(Payload(m))
           /\ Len(Payload(m)) <= PayloadMax => ValidHeader(Header(m))
<1>1. m.type \in Type
    BY FrameAssumption
<1>2. WireType[m.type] \in Nat /\ \A t \in Type : WireType[t] = WireType[m.type] => t = m.type
    BY <1>1, WireTypeInjective
<1>3. Payload(m) \in Seq(Nat) /\ Len(Payload(m)) \in Nat
    BY PayloadType
<1>4. Header(m) \in Seq(Nat) /\ Len(Header(m)) = HeaderLen
    BY <1>2, <1>3 DEF Header, HeaderLen, kMagic, kVersion
<1>5. TypeOf(Header(m)) = m.type
    BY <1>1, <1>2 DEF TypeOf, Header
<1>6. Header(m)[4] = Len(Payload(m))
    BY DEF Header
<1>7. Len(Payload(m)) <= PayloadMax => ValidHeader(Header(m))
    BY <1>1 DEF ValidHeader, Header
<1> QED
    BY <1>4, <1>5, <1>6, <1>7

\* Concatenation is associative.
LEMMA ConcatThree ==
    \A a, b, c \in Seq(Nat) : (a \o b) \o c = a \o (b \o c)
<1> SUFFICES ASSUME NEW a \in Seq(Nat), NEW b \in Seq(Nat), NEW c \in Seq(Nat)
             PROVE  (a \o b) \o c = a \o (b \o c)
    OBVIOUS
<1> QED
    BY SMT

\* The front of a sequence and what is behind it.
LEMMA Front ==
    ASSUME NEW s \in Seq(Nat), NEW R \in Seq(Nat), NEW n \in Nat, n = Len(s),
           NEW all, all = <<n>> \o s \o R
    PROVE  /\ all \in Seq(Nat) /\ all # <<>> /\ Head(all) = n
           /\ Len(all) = n + 1 + Len(R)
           /\ SubSeq(all, 2, n + 1) = s
           /\ SubSeq(all, n + 2, Len(all)) = R
<1> DEFINE f == <<n>> \o s
<1>1. f \in Seq(Nat) /\ Len(f) = n + 1 /\ f[1] = n /\ \A i \in 1..n : f[i + 1] = s[i]
    OBVIOUS
<1> HIDE DEF f
<1>2. all = f \o R
    BY DEF f
<1>3. /\ all \in Seq(Nat) /\ Len(all) = n + 1 + Len(R) /\ all[1] = n
      /\ \A i \in 1..n : all[i + 1] = s[i]
      /\ \A i \in 1..Len(R) : all[i + n + 1] = R[i]
  <2>1. /\ all \in Seq(Nat) /\ Len(all) = Len(f) + Len(R)
        /\ \A i \in 1..Len(f) + Len(R) : all[i] = IF i <= Len(f) THEN f[i] ELSE R[i - Len(f)]
      BY <1>1, <1>2, ConcatProperties
  <2>2. /\ n \in Nat /\ Len(R) \in Nat /\ 1 \in 1..Len(f)
        /\ \A i \in 1..n : i + 1 \in 1..Len(f)
        /\ \A i \in 1..Len(R) : /\ i + n + 1 \in 1..Len(f) + Len(R)
                               /\ ~(i + n + 1 <= Len(f)) /\ i + n + 1 - Len(f) = i
      BY <1>1
  <2>3. \A i \in 1..Len(f) : i \in 1..Len(f) + Len(R) /\ i <= Len(f)
      BY <1>1, <2>2
  <2> QED
      BY <1>1, <2>1, <2>2, <2>3
<1>4. all # <<>> /\ Head(all) = n
    BY <1>3
<1>5. SubSeq(all, 2, n + 1) = s
  <2>1. \A i \in 2..n + 1 : all[i] \in Nat
      BY <1>3
  <2>2. /\ SubSeq(all, 2, n + 1) \in Seq(Nat) /\ Len(SubSeq(all, 2, n + 1)) = n
        /\ \A i \in 1..n : SubSeq(all, 2, n + 1)[i] = all[i + 1]
      BY <2>1, SubSeqProperties
  <2> QED
      BY <1>3, <2>2, SeqEqual
<1>6. SubSeq(all, n + 2, Len(all)) = R
  <2>1. \A i \in n + 2..Len(all) : all[i] \in Nat
      BY <1>3
  <2>2. n + 2 \in Int /\ Len(all) \in Int /\ Len(R) \in Nat
        /\ Len(all) - (n + 2) + 1 = Len(R) /\ (~(n + 2 <= Len(all)) => Len(R) = 0)
        /\ \A i \in 1..Len(R) : n + 2 + i - 1 = i + n + 1
      BY <1>3
  <2>3. /\ SubSeq(all, n + 2, Len(all)) \in Seq(Nat)
        /\ Len(SubSeq(all, n + 2, Len(all))) = Len(R)
        /\ \A i \in 1..Len(R) : SubSeq(all, n + 2, Len(all))[i] = all[n + 2 + i - 1]
      BY <2>1, <2>2, SubSeqProperties
  <2> QED
      BY <1>3, <2>2, <2>3, SeqEqual
<1> QED
    BY <1>3, <1>4, <1>5, <1>6

-----------------------------------------------------------------------------
(* read_string *)

Parsed == [texts : Seq(Seq(Nat)), rest : Seq(Nat), ok : BOOLEAN]

\* A text is a text on every program.
LEMMA TextType ==
    ASSUME NEW s \in Seq(Nat)
    PROVE  Utf8(s) \in Seq(Nat) /\ Text(s) \in Seq(Nat)
<1>1. \A i \in 1..Len(s) : (IF s[i] \in Malformed THEN kReplacement ELSE s[i]) \in Nat
    BY DEF kReplacement
<1>2. Utf8(s) \in Seq(Nat)
    BY <1>1 DEF Utf8
<1> QED
    BY <1>2 DEF Text

\* What a program has of a message: its type and its size or data, and a reading
\* of each of its texts.
LEMMA ReadingFields ==
    ASSUME NEW m \in Message, reader \in {"desktop", "phone"}
    PROVE  /\ AsRead(m) \in [type : Type, texts : Seq(Seq(Nat)), rest : Seq(Nat)]
           /\ AsRead(m) \in Readings
           /\ AsRead(m).type = m.type /\ Len(AsRead(m).texts) = Len(m.texts)
           /\ \A i \in 1..Len(m.texts) : AsRead(m).texts[i] = Text(m.texts[i])
           /\ AsRead(m).rest = IF m.type = "Error" THEN Text(m.rest) ELSE m.rest
<1>1. /\ m \in [type : Type, texts : Seq(Seq(Nat)), rest : Seq(Nat)]
      /\ m.texts \in Seq(Seq(Nat)) /\ m.rest \in Seq(Nat)
    BY FrameAssumption
<1>2. CASE reader = "desktop"
    BY <1>1, <1>2 DEF AsRead, Text, Readings
<1>3. CASE reader = "phone"
  <2> DEFINE ts == [i \in 1..Len(m.texts) |-> Utf8(m.texts[i])]
             rs == IF m.type = "Error" THEN Utf8(m.rest) ELSE m.rest
  <2>1. AsRead(m) = [m EXCEPT !.texts = ts, !.rest = rs]
      BY <1>3 DEF AsRead, InUtf8
  <2>2. \A i \in 1..Len(m.texts) : Utf8(m.texts[i]) \in Seq(Nat)
    <3> SUFFICES ASSUME NEW i \in 1..Len(m.texts) PROVE Utf8(m.texts[i]) \in Seq(Nat)
        OBVIOUS
    <3>1. m.texts[i] \in Seq(Nat)
        BY <1>1, ElementOfSeq
    <3> QED
        BY <3>1, TextType
  <2>3. /\ ts \in Seq(Seq(Nat)) /\ Len(ts) = Len(m.texts)
        /\ \A i \in 1..Len(m.texts) : ts[i] = Utf8(m.texts[i])
    <3>1. Len(m.texts) \in Nat
        BY <1>1
    <3> QED
        BY <2>2, <3>1
  <2>4. rs \in Seq(Nat)
      BY <1>1, TextType
  <2>5. \A b \in {m.rest} \cup {m.texts[i] : i \in 1..Len(m.texts)} : Text(b) = Utf8(b)
      BY <1>3 DEF Text
  <2>6. AsRead(m) \in Readings
      BY <1>3 DEF AsRead, Readings
  <2> HIDE DEF ts
  <2>7. /\ AsRead(m).type = m.type /\ AsRead(m).texts = ts /\ AsRead(m).rest = rs
        /\ AsRead(m) \in [type : Type, texts : Seq(Seq(Nat)), rest : Seq(Nat)]
    <3> HIDE DEF rs
    <3> QED
        BY <1>1, <2>1, <2>3, <2>4
  <2>8. \A i \in 1..Len(m.texts) : AsRead(m).texts[i] = Text(m.texts[i])
      BY <2>3, <2>5, <2>7
  <2> QED
      BY <2>3, <2>5, <2>6, <2>7, <2>8
<1> QED
    BY <1>2, <1>3

\* read_string gives back the string that was written, as this program reads
\* it, and what follows it, unless its length is zero or over the limit.
LEMMA StringRead ==
    ASSUME NEW r \in Parsed, NEW s \in Seq(Nat), NEW R \in Seq(Nat), NEW max \in Nat,
           r.rest = <<Len(s)>> \o s \o R
    PROVE  ReadString(r, max) = IF s # <<>> /\ Len(s) <= max
                                THEN [r EXCEPT !.texts = Append(r.texts, Text(s)), !.rest = R]
                                ELSE [r EXCEPT !.ok = FALSE]
<1> DEFINE n == Len(s)
<1>1. n \in Nat /\ Len(R) \in Nat /\ (s # <<>> <=> n # 0)
    OBVIOUS
<1>2. /\ r.rest \in Seq(Nat) /\ r.rest # <<>> /\ Head(r.rest) = n
      /\ Len(r.rest) = n + 1 + Len(R)
      /\ SubSeq(r.rest, 2, n + 1) = s
      /\ SubSeq(r.rest, n + 2, Len(r.rest)) = R
  <2>1. n = Len(s) /\ r.rest = <<n>> \o s \o R
      OBVIOUS
  <2> HIDE DEF n
  <2> QED
      BY <1>1, <2>1, Front
<1>3. BadLength(n, max, Len(r.rest) - 1) <=> ~(s # <<>> /\ n <= max)
    BY <1>1, <1>2 DEF BadLength
<1>4. ReadString(r, max) =
        IF BadLength(n, max, Len(r.rest) - 1) THEN [r EXCEPT !.ok = FALSE]
        ELSE [r EXCEPT !.texts = Append(r.texts, Text(s)), !.rest = R]
  <2> HIDE DEF n
  <2> QED
      BY <1>2 DEF ReadString
<1> QED
    BY <1>3, <1>4

\* A payload has at most three strings.
LEMMA LimitType ==
    \A t \in Type : Limit[t] \in Seq(Nat) /\ Len(Limit[t]) \in 0..3
<1>1. IdMax \in Nat /\ NameMax \in Nat /\ PayloadMax - 1 \in Nat
    BY FrameAssumption
<1>2. SUFFICES ASSUME NEW t \in Type
      PROVE  Limit[t] \in Seq(Nat) /\ Len(Limit[t]) \in 0..3
    OBVIOUS
<1>3. Limit[t] \in {<<>>, <<IdMax>>, <<PayloadMax - 1>>, <<IdMax, IdMax>>,
                    <<IdMax, IdMax, NameMax>>}
    BY DEF Type, WireType, Limit
<1> HIDE DEF Limit
<1>4. CASE Limit[t] = <<>>
    BY <1>4
<1>5. CASE Limit[t] = <<IdMax>>
    BY <1>1, <1>5
<1>6. CASE Limit[t] = <<PayloadMax - 1>>
    BY <1>1, <1>6
<1>7. CASE Limit[t] = <<IdMax, IdMax>>
    BY <1>1, <1>7
<1>8. CASE Limit[t] = <<IdMax, IdMax, NameMax>>
    BY <1>1, <1>8
<1> QED
    BY <1>3, <1>4, <1>5, <1>6, <1>7, <1>8

\* A string the reader accepts.
Acceptable(m, i) ==
    /\ m.texts[i] # <<>>
    /\ reader = "desktop" => Len(m.texts[i]) <= Limit[m.type][i]

\* A message is readable when each of its strings is acceptable.
LEMMA ReadableFields ==
    ASSUME NEW m \in Message, reader \in {"desktop", "phone"}
    PROVE  Readable(m) <=> \A i \in 1..Len(m.texts) : Acceptable(m, i)
<1>1. /\ m.type \in Type /\ m.texts \in Seq(Seq(Nat))
      /\ Len(m.texts) = Len(Limit[m.type])
    BY FrameAssumption
<1>2. DOMAIN m.texts = 1..Len(m.texts)
    BY <1>1
<1>3. ASSUME NEW i \in 1..Len(m.texts)
      PROVE  /\ m.texts[i] \in Seq(Nat) /\ Limit[m.type][i] \in Nat
             /\ Len(m.texts[i]) \in Nat /\ (m.texts[i] # <<>> <=> Len(m.texts[i]) # 0)
  <2>1. m.texts[i] \in Seq(Nat)
      BY <1>1, ElementOfSeq
  <2>2. Limit[m.type][i] \in Nat
      BY <1>1, LimitType, ElementOfSeq
  <2> QED
      BY <2>1, <2>2
<1>4. CASE reader = "desktop"
  <2>1. Readable(m) <=> \A i \in 1..Len(m.texts) : Len(m.texts[i]) \in 1..Limit[m.type][i]
      BY <1>2, <1>4 DEF Readable, WithinLimits
  <2>2. ASSUME NEW i \in 1..Len(m.texts)
        PROVE  Acceptable(m, i) <=> Len(m.texts[i]) \in 1..Limit[m.type][i]
      BY <1>3, <1>4 DEF Acceptable
  <2> QED
      BY <2>1, <2>2
<1>5. CASE reader = "phone"
    BY <1>2, <1>5 DEF Readable, Acceptable
<1> QED
    BY <1>4, <1>5

\* What the parser holds when the first i strings of m, as many as there are,
\* have been read and R is behind them.
After(m, i, r, R) ==
    /\ r \in Parsed
    /\ IF \A j \in 1..Len(m.texts) : j <= i => Acceptable(m, j)
       THEN /\ r.ok /\ r.rest = R
            /\ Len(r.texts) = IF i <= Len(m.texts) THEN i ELSE Len(m.texts)
            /\ \A j \in 1..Len(r.texts) : r.texts[j] = Text(m.texts[j])
       ELSE ~r.ok

\* One field is read: what After says of the fields before it, it then
\* says of this one too.
LEMMA FieldRead ==
    ASSUME NEW m \in Message, reader \in {"desktop", "phone"},
           NEW i \in 1..3, NEW R \in Seq(Nat), NEW r,
           After(m, i - 1, r, Field(m, i) \o R)
    PROVE  After(m, i, ReadField(r, m.type, i), R)
<1> DEFINE t == m.type
           L == Len(m.texts)
<1>1. /\ t \in Type /\ m.texts \in Seq(Seq(Nat)) /\ L \in Nat
      /\ L = Len(Limit[t]) /\ r \in Parsed
    BY FrameAssumption DEF After
<1>2. CASE ~r.ok
  <2>1. ReadField(r, t, i) = r
      BY <1>2 DEF ReadField
  <2>2. ~ \A j \in 1..L : j <= i - 1 => Acceptable(m, j)
      BY <1>2 DEF After
  <2>3. ~ \A j \in 1..L : j <= i => Acceptable(m, j)
      BY <2>2, <1>1
  <2> QED
      BY <1>1, <1>2, <2>1, <2>3 DEF After
<1>3. CASE r.ok /\ i > L
  <2>1. ReadField(r, t, i) = r
      BY <1>1, <1>3 DEF ReadField
  <2>2. Field(m, i) \o R = R
      BY <1>1, <1>3 DEF Field
  <2>3. (\A j \in 1..L : j <= i => Acceptable(m, j)) <=>
        (\A j \in 1..L : j <= i - 1 => Acceptable(m, j))
      BY <1>1, <1>3
  <2>4. (IF i - 1 <= L THEN i - 1 ELSE L) = (IF i <= L THEN i ELSE L)
      BY <1>1, <1>3
  <2> QED
      BY <2>1, <2>2, <2>3, <2>4 DEF After
<1>4. CASE r.ok /\ i <= L
  <2> DEFINE s == m.texts[i]
             max == IF reader = "desktop" THEN Limit[t][i] ELSE Len(r.rest)
             q == ReadField(r, t, i)
  <2>1. s \in Seq(Nat) /\ Len(s) \in Nat /\ i \in 1..L
    <3>1. i \in 1..L
        BY <1>1, <1>4
    <3>2. s \in Seq(Nat)
        BY <1>1, <3>1, ElementOfSeq
    <3> HIDE DEF s
    <3> QED
        BY <3>1, <3>2
  <2>2. /\ \A j \in 1..L : j <= i - 1 => Acceptable(m, j)
        /\ r.rest = Field(m, i) \o R
        /\ Len(r.texts) = i - 1
        /\ \A j \in 1..i - 1 : r.texts[j] = Text(m.texts[j])
    <3>1. (IF i - 1 <= L THEN i - 1 ELSE L) = i - 1
        BY <1>1, <1>4
    <3> QED
        BY <1>4, <3>1 DEF After
  <2>3. r.rest = <<Len(s)>> \o s \o R
      BY <1>4, <2>2 DEF Field
  <2>4. r.texts \in Seq(Seq(Nat)) /\ r.rest \in Seq(Nat) /\ Len(r.rest) \in Nat
      BY <1>1 DEF Parsed
  <2>5. Len(s) <= Len(r.rest)
      BY <2>1, <2>3, Front
  <2>6. max \in Nat
    <3>1. Limit[t] \in Seq(Nat) /\ i \in 1..Len(Limit[t])
        BY <1>1, <2>1, LimitType
    <3>2. Limit[t][i] \in Nat
        BY <3>1, ElementOfSeq
    <3> QED
        BY <2>4, <3>2
  <2>7. (s # <<>> /\ Len(s) <= max) <=> Acceptable(m, i)
      BY <2>5 DEF Acceptable
  <2>8. q = ReadString(r, max)
      BY <1>1, <1>4 DEF ReadField
  <2>9. q = IF Acceptable(m, i) THEN [r EXCEPT !.texts = Append(r.texts, Text(s)), !.rest = R]
                                ELSE [r EXCEPT !.ok = FALSE]
    <3> HIDE DEF max, s, q
    <3> QED
        BY <1>1, <2>1, <2>3, <2>6, <2>7, <2>8, StringRead
  <2>10. (\A j \in 1..L : j <= i => Acceptable(m, j)) <=> Acceptable(m, i)
      BY <2>1, <2>2, <1>1
  <2>11. CASE Acceptable(m, i)
    <3>1. /\ Append(r.texts, Text(s)) \in Seq(Seq(Nat)) /\ Len(Append(r.texts, Text(s))) = i
          /\ \A j \in 1..i - 1 : Append(r.texts, Text(s))[j] = r.texts[j]
          /\ Append(r.texts, Text(s))[i] = Text(s)
      <4> HIDE DEF s
      <4>1. Text(s) \in Seq(Nat)
          BY <2>1, TextType
      <4> QED
          BY <2>1, <2>2, <2>4, <4>1, AppendProperties
    <3>2. /\ q \in Parsed /\ q.ok /\ q.rest = R /\ q.texts = Append(r.texts, Text(s))
      <4> HIDE DEF s, q
      <4> QED
          BY <1>1, <1>4, <2>9, <2>11, <3>1 DEF Parsed
    <3>3. \A j \in 1..Len(q.texts) : q.texts[j] = Text(m.texts[j])
      <4>1. i \in 1..3 /\ Len(q.texts) = i
          BY <3>1, <3>2
      <4>2. ASSUME NEW j \in 1..i - 1 PROVE q.texts[j] = Text(m.texts[j])
          BY <2>2, <3>1, <3>2
      <4>3. q.texts[i] = Text(m.texts[i])
          BY <3>1, <3>2
      <4> HIDE DEF q
      <4>4. \A j \in 1..i : j = i \/ j \in 1..i - 1
          BY <4>1
      <4> QED
          BY <4>1, <4>2, <4>3, <4>4
    <3>4. Len(q.texts) = IF i <= L THEN i ELSE L
        BY <1>4, <3>1, <3>2
    <3> HIDE DEF q
    <3>5. After(m, i, q, R)
        BY <2>10, <2>11, <3>2, <3>3, <3>4 DEF After
    <3> QED
        BY <3>5 DEF q
  <2>12. CASE ~Acceptable(m, i)
    <3>1. q \in Parsed /\ ~q.ok
      <4> HIDE DEF s, q
      <4> QED
          BY <1>1, <2>9, <2>12 DEF Parsed
    <3> QED
        BY <2>10, <2>12, <3>1 DEF After
  <2> QED
      BY <2>11, <2>12
<1> QED
    BY <1>1, <1>2, <1>3, <1>4

\* What a reader makes of the payload of a message: the message with its texts
\* as this program reads them, or an error if and only if the message has a
\* string this reader does not accept.
THEOREM RoundTrip ==
    ASSUME NEW m \in Message, reader \in {"desktop", "phone"}
    PROVE  LET r == Parse(m.type, Payload(m))
           IN  /\ r.ok <=> Readable(m)
               /\ r.ok => [type |-> m.type, texts |-> r.texts, rest |-> r.rest] = AsRead(m)
<1> DEFINE t == m.type
           start == [texts |-> <<>>, rest |-> Payload(m), ok |-> TRUE]
           r1 == ReadField(start, t, 1)
           r2 == ReadField(r1, t, 2)
           r3 == ReadField(r2, t, 3)
           L == Len(m.texts)
<1>1. /\ t \in Type /\ m.texts \in Seq(Seq(Nat)) /\ L \in Nat
      /\ L = Len(Limit[t]) /\ L \in 0..3 /\ TailFits(t, m.rest)
      /\ m \in [type : Type, texts : Seq(Seq(Nat)), rest : Seq(Nat)]
      /\ m.rest \in Seq(Nat)
  <2>1. m \in [type : Type, texts : Seq(Seq(Nat)), rest : Seq(Nat)]
      BY FrameAssumption
  <2>2. L = Len(Limit[t]) /\ TailFits(t, m.rest)
      BY FrameAssumption
  <2>3. t \in Type /\ m.texts \in Seq(Seq(Nat)) /\ m.rest \in Seq(Nat)
      BY <2>1
  <2>4. L \in Nat
      BY <2>3
  <2>5. Len(Limit[t]) \in 0..3
      BY <2>3, LimitType
  <2>6. L \in 0..3
      BY <2>2, <2>5
  <2> QED
      BY <2>1, <2>2, <2>3, <2>4, <2>6
<1>2. /\ Field(m, 1) \in Seq(Nat) /\ Field(m, 2) \in Seq(Nat) /\ Field(m, 3) \in Seq(Nat)
    BY FieldType
<1>3. Payload(m) \in Seq(Nat)
    BY PayloadType
<1> DEFINE R2 == Field(m, 3) \o m.rest
           R1 == Field(m, 2) \o R2
<1>4. Payload(m) = Field(m, 1) \o R1
  <2> DEFINE f1 == Field(m, 1)
             f2 == Field(m, 2)
             f3 == Field(m, 3)
             f4 == m.rest
             f12 == f1 \o f2
  <2>1. f1 \in Seq(Nat) /\ f2 \in Seq(Nat) /\ f3 \in Seq(Nat) /\ f4 \in Seq(Nat)
      BY <1>1, <1>2
  <2>2. f12 \in Seq(Nat)
      BY <2>1
  <2>3. Payload(m) = (f12 \o f3) \o f4 /\ R2 = f3 \o f4 /\ R1 = f2 \o R2
      BY DEF Payload
  <2> HIDE DEF f1, f2, f3, f4, f12, R1, R2
  <2>4. R2 \in Seq(Nat)
      BY <2>1, <2>3
  <2>5. (f12 \o f3) \o f4 = f12 \o R2
    <3>1. f12 \in Seq(Nat) /\ f3 \in Seq(Nat) /\ f4 \in Seq(Nat)
        BY <2>1, <2>2
    <3>2. (f12 \o f3) \o f4 = f12 \o (f3 \o f4)
        BY <3>1, SMT
    <3> QED
        BY <2>3, <3>2
  <2>6. (f1 \o f2) \o R2 = f1 \o (f2 \o R2)
    <3>1. f1 \in Seq(Nat) /\ f2 \in Seq(Nat) /\ R2 \in Seq(Nat)
        BY <2>1, <2>4
    <3> QED
        BY <3>1, SMT
  <2>7. f12 \o R2 = f1 \o R1
      BY <2>3, <2>6 DEF f12
  <2> QED
      BY <2>3, <2>5, <2>7 DEF f1
<1>5. R2 \in Seq(Nat) /\ R1 \in Seq(Nat)
    BY <1>1, <1>2
<1>6. After(m, 1 - 1, start, Payload(m))
    BY <1>1, <1>3 DEF After, Parsed
<1> HIDE DEF start, R1
<1>7. After(m, 1, r1, R1)
    BY <1>4, <1>5, <1>6, FieldRead
<1> HIDE DEF r1, R2
<1>8. After(m, 2, r2, R2)
  <2>1. After(m, 2 - 1, r1, Field(m, 2) \o R2)
      BY <1>7 DEF R1
  <2> QED
      BY <1>5, <2>1, FieldRead
<1> HIDE DEF r2
<1>9. After(m, 3, r3, m.rest)
  <2>1. After(m, 3 - 1, r2, Field(m, 3) \o m.rest)
      BY <1>8 DEF R2
  <2> QED
      BY <1>1, <2>1, FieldRead
<1> HIDE DEF r3
<1>10. (\A j \in 1..L : j <= 3 => Acceptable(m, j)) <=> Readable(m)
  <2>1. \A j \in 1..L : j <= 3
    <3>1. L \in 0..3
        BY <1>1
    <3> HIDE DEF L
    <3> QED
        BY <3>1
  <2> QED
      BY <1>1, <2>1, ReadableFields
<1>11. Parse(t, Payload(m)) =
          [r3 EXCEPT !.ok = r3.ok /\ TailFits(t, r3.rest),
                     !.rest = IF t = "Error" THEN Text(r3.rest) ELSE r3.rest]
    BY DEF Parse, r3, r2, r1, start
<1>12. /\ r3 \in Parsed
       /\ r3.ok <=> Readable(m)
       /\ r3.ok => r3.rest = m.rest /\ Len(r3.texts) = L
                   /\ \A j \in 1..L : r3.texts[j] = Text(m.texts[j])
  <2>1. (IF 3 <= L THEN 3 ELSE L) = L
    <3>1. L \in 0..3
        BY <1>1
    <3> HIDE DEF L
    <3> QED
        BY <3>1
  <2> QED
      BY <1>9, <1>10, <2>1 DEF After
<1>13. r3.ok => r3.texts = AsRead(m).texts
  <2>1. r3.texts \in Seq(Seq(Nat))
      BY <1>12 DEF Parsed
  <2>2. /\ AsRead(m).texts \in Seq(Seq(Nat)) /\ Len(AsRead(m).texts) = L
        /\ \A i \in 1..L : AsRead(m).texts[i] = Text(m.texts[i])
      BY ReadingFields
  <2>3. SUFFICES ASSUME r3.ok PROVE r3.texts = AsRead(m).texts
      OBVIOUS
  <2> DEFINE a == r3.texts
             b == AsRead(m).texts
  <2>4. /\ a \in Seq(Seq(Nat)) /\ b \in Seq(Seq(Nat)) /\ Len(a) = Len(b)
        /\ \A i \in 1..Len(a) : a[i] = b[i]
      BY <1>12, <2>1, <2>2, <2>3
  <2> HIDE DEF a, b
  <2>5. a = b
      BY <2>4, SeqEqual
  <2> QED
      BY <2>5 DEF a, b
<1> DEFINE r == Parse(t, Payload(m))
<1>14. /\ r.ok <=> r3.ok /\ TailFits(t, r3.rest)
       /\ r.texts = r3.texts
       /\ r.rest = IF t = "Error" THEN Text(r3.rest) ELSE r3.rest
    BY <1>11, <1>12 DEF Parsed
<1>15. r.ok <=> Readable(m)
    BY <1>1, <1>12, <1>14
<1>16. r.ok => [type |-> t, texts |-> r.texts, rest |-> r.rest] = AsRead(m)
  <2>1. /\ AsRead(m) \in [type : Type, texts : Seq(Seq(Nat)), rest : Seq(Nat)]
        /\ AsRead(m).type = t
        /\ AsRead(m).rest = IF t = "Error" THEN Text(m.rest) ELSE m.rest
      BY ReadingFields
  <2>2. r.ok => r.texts = AsRead(m).texts /\ r.rest = AsRead(m).rest
      BY <1>12, <1>13, <1>14, <2>1
  <2> HIDE DEF r, t
  <2> QED
      BY <2>1, <2>2
<1> QED
    BY <1>15, <1>16

-----------------------------------------------------------------------------
(* Frames, one after the other *)

Frame(m) == Header(m) \o Payload(m)

\* A frame is a header and the payload the header announces.
LEMMA FrameType ==
    ASSUME NEW m \in Message
    PROVE  /\ Frame(m) \in Seq(Nat) /\ Len(Payload(m)) \in Nat
           /\ Len(Frame(m)) = 4 + Len(Payload(m)) /\ Len(Frame(m)) \in Nat
           /\ \A i \in 1..4 : Frame(m)[i] = Header(m)[i]
           /\ Frame(m)[4] = Len(Payload(m)) /\ Frame(m)[4] \in Nat
           /\ Len(Frame(m)) = 4 + Frame(m)[4] /\ Len(Frame(m)) >= 4
<1>1. /\ Header(m) \in Seq(Nat) /\ Len(Header(m)) = 4
      /\ Header(m)[4] = Len(Payload(m)) /\ Payload(m) \in Seq(Nat)
    BY HeaderType, PayloadType DEF HeaderLen
<1> DEFINE h == Header(m)
           p == Payload(m)
<1>2. Frame(m) = h \o p
    BY DEF Frame
<1> HIDE DEF h, p
<1>3. /\ h \o p \in Seq(Nat) /\ Len(p) \in Nat /\ Len(h \o p) = 4 + Len(p)
      /\ \A i \in 1..4 : (h \o p)[i] = h[i]
  <2>1. h \in Seq(Nat) /\ p \in Seq(Nat) /\ Len(h) = 4
      BY <1>1 DEF h, p
  <2>2. /\ h \o p \in Seq(Nat) /\ Len(h \o p) = Len(h) + Len(p)
        /\ \A i \in 1..Len(h) + Len(p) : (h \o p)[i] = IF i <= Len(h) THEN h[i] ELSE p[i - Len(h)]
      BY <2>1, ConcatProperties
  <2>3. Len(p) \in Nat
      BY <2>1
  <2>4. \A i \in 1..4 : i \in 1..Len(h) + Len(p) /\ i <= Len(h)
    <3> DEFINE l == Len(p)
               k == Len(h)
    <3>1. l \in Nat /\ k = 4
        BY <2>1, <2>3
    <3> HIDE DEF l, k
    <3>2. \A i \in 1..4 : i \in 1..k + l /\ i <= k
        BY <3>1
    <3> QED
        BY <3>2 DEF l, k
  <2> QED
      BY <2>1, <2>2, <2>3, <2>4
<1>4. Len(h \o p) \in Nat
    BY <1>3
<1>5. (h \o p)[4] = h[4]
    BY <1>3
<1>6. Len(h \o p) >= 4
    BY <1>3
<1> QED
    BY <1>1, <1>2, <1>3, <1>4, <1>5, <1>6 DEF h, p

\* W is the frames of q, one after the other: the i-th begins behind pos[i].
Chained(W, q, pos) ==
    /\ pos \in [1..Len(q) + 1 -> Nat]
    /\ pos[1] = 0 /\ pos[Len(q) + 1] = Len(W)
    /\ \A i, k \in 1..Len(q) + 1 : i <= k => pos[i] <= pos[k]
    /\ \A i \in 1..Len(q) :
         /\ pos[i + 1] = pos[i] + Len(Frame(q[i]))
         /\ \A j \in 1..Len(Frame(q[i])) : W[pos[i] + j] = Frame(q[i])[j]
Chain(W, q) == \E pos \in [1..Len(q) + 1 -> Nat] : Chained(W, q, pos)

\* Nothing is the frames of no message.
LEMMA ChainEmpty == Chain(<<>>, <<>>)
<1> DEFINE pos == [i \in 1..1 |-> 0]
<1>1. pos \in [1..Len(<<>>) + 1 -> Nat]
    OBVIOUS
<1>2. Chained(<<>>, <<>>, pos)
    BY <1>1 DEF Chained
<1> QED
    BY <1>1, <1>2 DEF Chain

\* The frames of no message are nothing.
LEMMA ChainNone ==
    ASSUME NEW W \in Seq(Nat), Chain(W, <<>>)
    PROVE  W = <<>>
BY DEF Chain, Chained

\* A frame behind the frames of q makes those of q and one more.
LEMMA ChainAppend ==
    ASSUME NEW W \in Seq(Nat), NEW q \in Seq(Message), NEW m \in Message, Chain(W, q)
    PROVE  Chain(W \o Frame(m), Append(q, m))
<1> DEFINE n == Len(q)
           r == Append(q, m)
           F == Frame(m)
           V == W \o F
<1>1. PICK pos \in [1..Len(q) + 1 -> Nat] : Chained(W, q, pos)
    BY DEF Chain
<1>2. /\ n \in Nat /\ Len(r) = n + 1 /\ r[n + 1] = m /\ \A i \in 1..n : r[i] = q[i]
    BY AppendProperties
<1>3. F \in Seq(Nat) /\ Len(F) \in Nat
    BY FrameType
<1>4. /\ V \in Seq(Nat) /\ Len(V) = Len(W) + Len(F) /\ Len(W) \in Nat
      /\ \A j \in 1..Len(W) : V[j] = W[j]
      /\ \A j \in 1..Len(F) : V[Len(W) + j] = F[j]
  <2> HIDE DEF F
  <2> QED
      BY <1>3
<1>5. /\ pos[1] = 0 /\ pos[n + 1] = Len(W) /\ pos \in [1..n + 1 -> Nat]
      /\ \A i, k \in 1..n + 1 : i <= k => pos[i] <= pos[k]
      /\ \A i \in 1..n : pos[i + 1] = pos[i] + Len(Frame(q[i]))
      /\ \A i \in 1..n : \A j \in 1..Len(Frame(q[i])) : W[pos[i] + j] = Frame(q[i])[j]
    BY <1>1 DEF Chained
<1> DEFINE new == [i \in 1..n + 2 |-> IF i <= n + 1 THEN pos[i] ELSE Len(V)]
<1>6. /\ \A i \in 1..n + 1 : new[i] = pos[i]
      /\ new[n + 2] = Len(V) /\ new \in [1..n + 2 -> Nat]
  <2> HIDE DEF n, V, r, F
  <2> QED
      BY <1>2, <1>3, <1>4, <1>5
<1> HIDE DEF new, V, r, F, n
<1>7. \A i, k \in 1..n + 2 : i <= k => new[i] <= new[k]
  <2>1. SUFFICES ASSUME NEW i \in 1..n + 2, NEW k \in 1..n + 2, i <= k
        PROVE  new[i] <= new[k]
      OBVIOUS
  <2>2. \A l \in 1..n + 1 : pos[l] <= Len(W) /\ pos[l] \in Nat
    <3>1. \A l \in 1..n + 1 : n + 1 \in 1..n + 1 /\ l <= n + 1
        BY <1>2
    <3> QED
        BY <1>5, <3>1
  <2>3. Len(W) <= Len(V) /\ Len(V) \in Nat
      BY <1>3, <1>4
  <2>4. CASE k \in 1..n + 1
    <3>1. i \in 1..n + 1
        BY <1>2, <2>1, <2>4
    <3> QED
        BY <1>5, <1>6, <2>1, <2>4, <3>1
  <2>5. CASE k = n + 2 /\ i \in 1..n + 1
      BY <1>4, <1>6, <2>2, <2>3, <2>5
  <2>6. CASE k = n + 2 /\ i = n + 2
      BY <1>6, <2>3, <2>6
  <2> QED
      BY <1>2, <2>4, <2>5, <2>6
<1>8. ASSUME NEW i \in 1..n + 1
      PROVE  /\ new[i + 1] = new[i] + Len(Frame(r[i]))
             /\ \A j \in 1..Len(Frame(r[i])) : V[new[i] + j] = Frame(r[i])[j]
  <2>1. CASE i = n + 1
    <3>1. r[i] = m /\ new[i] = Len(W) /\ new[i + 1] = Len(V)
      <4>1. n + 1 \in 1..n + 1 /\ (n + 1) + 1 = n + 2
          BY <1>2
      <4> QED
          BY <1>2, <1>5, <1>6, <2>1, <4>1
    <3> QED
        BY <1>4, <3>1 DEF F
  <2>2. CASE i \in 1..n
    <3>1. r[i] = q[i] /\ new[i] = pos[i] /\ new[i + 1] = pos[i + 1]
        BY <1>2, <1>6, <2>2
    <3>2. q[i] \in Message
        BY <2>2, ElementOfSeq DEF n
    <3>3. Len(Frame(q[i])) \in Nat
        BY <3>2, FrameType
    <3>4. pos[i] \in Nat /\ pos[i + 1] <= Len(W) /\ pos[i + 1] = pos[i] + Len(Frame(q[i]))
      <4>1. /\ i \in 1..n + 1 /\ i + 1 \in 1..n + 1 /\ n + 1 \in 1..n + 1
            /\ i + 1 <= n + 1
          BY <1>2, <2>2
      <4>2. pos[i] \in Nat /\ pos[i + 1] <= pos[n + 1]
          BY <1>5, <4>1
      <4> QED
          BY <1>5, <2>2, <4>2
    <3> DEFINE l == Len(Frame(q[i]))
    <3>5. \A j \in 1..l : pos[i] + j \in 1..Len(W)
      <4>1. l \in Nat /\ Len(W) \in Nat /\ pos[i] \in Nat /\ pos[i] + l <= Len(W)
          BY <1>4, <3>3, <3>4
      <4> DEFINE p == pos[i]
                 N == Len(W)
      <4>2. l \in Nat /\ N \in Nat /\ p \in Nat /\ p + l <= N
          BY <4>1
      <4> HIDE DEF l, p, N
      <4>3. \A j \in 1..l : p + j \in 1..N
          BY <4>2
      <4> QED
          BY <4>3 DEF p, N
    <3>6. \A j \in 1..l : V[pos[i] + j] = Frame(q[i])[j]
      <4>1. \A j \in 1..l : W[pos[i] + j] = Frame(q[i])[j]
          BY <1>5, <2>2
      <4> QED
          BY <1>4, <3>5, <4>1
    <3> QED
        BY <3>1, <3>4, <3>6
  <2>3. i = n + 1 \/ i \in 1..n
    <3>1. n \in Nat /\ i \in 1..n + 1
        BY <1>2, <1>8
    <3> HIDE DEF n
    <3> QED
        BY <3>1
  <2> QED
      BY <2>1, <2>2, <2>3
<1>9. Chained(V, r, new) /\ new \in [1..Len(r) + 1 -> Nat]
  <2>1. Len(r) = n + 1 /\ Len(r) + 1 = n + 2 /\ 1 \in 1..n + 1
      BY <1>2
  <2>2. new[1] = 0 /\ new[n + 2] = Len(V) /\ new \in [1..n + 2 -> Nat]
      BY <1>5, <1>6, <2>1
  <2> HIDE DEF n, r
  <2> QED
      BY <1>7, <1>8, <2>1, <2>2 DEF Chained
<1> QED
    BY <1>9 DEF Chain, V, r, F

\* The frames of q begin with the frame of its first message, and what
\* follows it is the frames of the others.
LEMMA ChainPop ==
    ASSUME NEW W \in Seq(Nat), NEW q \in Seq(Message), q # <<>>, Chain(W, q)
    PROVE  /\ q[1] \in Message
           /\ Len(Frame(q[1])) <= Len(W)
           /\ \A j \in 1..Len(Frame(q[1])) : W[j] = Frame(q[1])[j]
           /\ Chain(SubSeq(W, Len(Frame(q[1])) + 1, Len(W)), Tail(q))
<1> DEFINE n == Len(q)
           r == Tail(q)
           L == Len(Frame(q[1]))
           V == SubSeq(W, L + 1, Len(W))
<1>1. PICK pos \in [1..Len(q) + 1 -> Nat] : Chained(W, q, pos)
    BY DEF Chain
<1>2. /\ n \in Nat /\ n >= 1 /\ Len(r) = n - 1 /\ \A i \in 1..n - 1 : r[i] = q[i + 1]
    BY HeadTailProperties
<1>3. \A i \in 1..n : q[i] \in Message
    BY ElementOfSeq
<1>4. \A i \in 1..n : Len(Frame(q[i])) \in Nat
    BY <1>3, FrameType
<1>5. /\ pos[1] = 0 /\ pos[n + 1] = Len(W) /\ pos \in [1..n + 1 -> Nat]
      /\ \A i, k \in 1..n + 1 : i <= k => pos[i] <= pos[k]
      /\ \A i \in 1..n : pos[i + 1] = pos[i] + Len(Frame(q[i]))
      /\ \A i \in 1..n : \A j \in 1..Len(Frame(q[i])) : W[pos[i] + j] = Frame(q[i])[j]
    BY <1>1 DEF Chained
<1>6. L \in Nat /\ pos[2] = L /\ L <= Len(W) /\ \A j \in 1..L : W[j] = Frame(q[1])[j]
  <2>1. L \in Nat /\ 1 \in 1..n
      BY <1>2, <1>4
  <2>2. pos[2] = L /\ 2 \in 1..n + 1 /\ n + 1 \in 1..n + 1 /\ 2 <= n + 1
      BY <1>2, <1>5, <2>1
  <2>3. \A j \in 1..L : W[0 + j] = Frame(q[1])[j]
      BY <1>5, <2>1
  <2> QED
      BY <1>5, <2>1, <2>2, <2>3
<1>7. /\ V \in Seq(Nat) /\ Len(V) = Len(W) - L /\ \A j \in 1..Len(W) - L : V[j] = W[L + j]
      /\ Len(W) \in Nat
  <2>1. \A i \in L + 1..Len(W) : W[i] \in Nat
      BY <1>6
  <2> HIDE DEF L
  <2>2. L + 1 \in Int /\ Len(W) \in Int
      BY <1>6
  <2>3. /\ V \in Seq(Nat) /\ Len(V) = (IF L + 1 <= Len(W) THEN Len(W) - (L + 1) + 1 ELSE 0)
        /\ \A j \in 1..Len(W) - (L + 1) + 1 : V[j] = W[(L + 1) + j - 1]
      BY <2>1, <2>2, SubSeqProperties
  <2> HIDE DEF V
  <2> QED
      BY <1>6, <2>3
<1> DEFINE new == [i \in 1..n |-> pos[i + 1] - L]
<1> HIDE DEF V, L, r
<1>8. \A i \in 1..n : pos[i + 1] \in Nat /\ pos[i + 1] >= L /\ new[i] = pos[i + 1] - L
  <2> HIDE DEF n
  <2>1. \A i \in 1..n : 2 \in 1..n + 1 /\ i + 1 \in 1..n + 1 /\ 2 <= i + 1
      BY <1>2
  <2> QED
      BY <1>5, <1>6, <2>1
<1>9. new \in [1..n -> Nat]
  <2>1. \A i \in 1..n : pos[i + 1] - L \in Nat
    <3> HIDE DEF n
    <3> QED
        BY <1>2, <1>6, <1>8
  <2> QED
      BY <2>1
<1> HIDE DEF new, n
<1>10. \A i, k \in 1..n : i <= k => new[i] <= new[k]
  <2>1. \A i \in 1..n : i + 1 \in 1..n + 1
      BY <1>2
  <2>2. ASSUME NEW i \in 1..n, NEW k \in 1..n, i <= k
        PROVE  new[i] <= new[k]
    <3>1. i + 1 <= k + 1
        BY <1>2, <2>2
    <3>2. pos[i + 1] <= pos[k + 1]
        BY <1>5, <2>1, <3>1
    <3>3. L \in Nat
        BY <1>6
    <3>4. /\ new[i] = pos[i + 1] - L /\ new[k] = pos[k + 1] - L
          /\ pos[i + 1] \in Nat /\ pos[k + 1] \in Nat
        BY <1>8, <2>2
    <3> QED
        BY <3>2, <3>3, <3>4
  <2> QED
      BY <2>2
<1>11. ASSUME NEW i \in 1..n - 1
       PROVE  /\ new[i + 1] = new[i] + Len(Frame(r[i]))
              /\ \A j \in 1..Len(Frame(r[i])) : V[new[i] + j] = Frame(r[i])[j]
  <2>1. r[i] = q[i + 1] /\ i \in 1..n /\ i + 1 \in 1..n
      BY <1>2
  <2>2. /\ new[i] = pos[i + 1] - L /\ new[i + 1] = pos[i + 1 + 1] - L
        /\ pos[i + 1] \in Nat /\ pos[i + 1] >= L /\ Len(Frame(q[i + 1])) \in Nat
        /\ pos[i + 1 + 1] = pos[i + 1] + Len(Frame(q[i + 1]))
        /\ pos[i + 1 + 1] <= Len(W)
        /\ \A j \in 1..Len(Frame(q[i + 1])) : W[pos[i + 1] + j] = Frame(q[i + 1])[j]
    <3>1. i + 1 + 1 \in 1..n + 1 /\ n + 1 \in 1..n + 1 /\ i + 1 + 1 <= n + 1
        BY <1>2, <2>1
    <3> QED
        BY <1>4, <1>5, <1>8, <2>1, <3>1
  <2>3. new[i + 1] = new[i] + Len(Frame(q[i + 1]))
      BY <1>6, <2>2
  <2>4. ASSUME NEW j \in 1..Len(Frame(q[i + 1]))
        PROVE  V[new[i] + j] = Frame(q[i + 1])[j]
    <3>1. new[i] + j \in 1..Len(W) - L /\ L + (new[i] + j) = pos[i + 1] + j
      <4> DEFINE p == pos[i + 1]
                 l == Len(Frame(q[i + 1]))
      <4>1. p \in Nat /\ p >= L /\ L \in Nat /\ l \in Nat /\ new[i] = p - L /\ Len(W) \in Nat
          BY <1>6, <1>7, <2>2
      <4>2. p + l <= Len(W) /\ j \in 1..l
          BY <2>2, <2>4
      <4> HIDE DEF p, l
      <4>3. new[i] + j \in 1..Len(W) - L /\ L + (new[i] + j) = p + j
          BY <4>1, <4>2
      <4> QED
          BY <4>3 DEF p
    <3>2. V[new[i] + j] = W[L + (new[i] + j)]
        BY <1>7, <3>1
    <3> QED
        BY <2>2, <3>1, <3>2
  <2> QED
      BY <2>1, <2>3, <2>4
<1>12. new[1] = 0 /\ new[n] = Len(V)
  <2>1. 1 \in 1..n /\ n \in 1..n /\ 1 + 1 = 2
      BY <1>2
  <2>2. new[1] = pos[2] - L /\ new[n] = pos[n + 1] - L
      BY <1>8, <2>1
  <2> QED
      BY <1>5, <1>6, <1>7, <2>2
<1>13. Chained(V, r, new) /\ new \in [1..Len(r) + 1 -> Nat]
  <2>1. Len(r) + 1 = n /\ Len(r) = n - 1
      BY <1>2
  <2> QED
      BY <1>9, <1>10, <1>11, <1>12, <2>1 DEF Chained
<1>14. Chain(V, r)
    BY <1>13 DEF Chain
<1>15. q[1] \in Message
    BY <1>2, <1>3
<1> QED
    BY <1>6, <1>14, <1>15 DEF V, L, r

\* The first and the last frame do not overlap.
LEMMA ChainTwo ==
    ASSUME NEW W \in Seq(Nat), NEW q \in Seq(Message), q # <<>>, NEW m \in Message,
           Chain(W, Append(q, m))
    PROVE  Len(Frame(q[1])) + Len(Frame(m)) <= Len(W)
<1> DEFINE n == Len(q)
           r == Append(q, m)
<1>1. PICK pos \in [1..Len(r) + 1 -> Nat] : Chained(W, r, pos)
    BY DEF Chain
<1>2. /\ n \in Nat /\ n >= 1 /\ Len(r) = n + 1 /\ r[n + 1] = m /\ r[1] = q[1]
    BY AppendProperties
<1>3. /\ pos[1] = 0 /\ pos[n + 2] = Len(W) /\ pos \in [1..n + 2 -> Nat]
      /\ \A i, k \in 1..n + 2 : i <= k => pos[i] <= pos[k]
      /\ \A i \in 1..n + 1 : pos[i + 1] = pos[i] + Len(Frame(r[i]))
  <2> HIDE DEF r, n
  <2>1. Len(r) + 1 = n + 2
      BY <1>2
  <2> QED
      BY <1>1, <1>2, <2>1 DEF Chained
<1> HIDE DEF r, n
<1>4. q[1] \in Message
    BY <1>2, ElementOfSeq DEF n
<1>5. Len(Frame(q[1])) \in Nat /\ Len(Frame(m)) \in Nat
    BY <1>4, FrameType
<1>6. /\ 1 \in 1..n + 1 /\ n + 1 \in 1..n + 1 /\ 2 \in 1..n + 2 /\ n + 1 \in 1..n + 2
      /\ 2 <= n + 1 /\ (n + 1) + 1 = n + 2
    BY <1>2
<1>7. pos[2] = Len(Frame(q[1]))
  <2>1. ASSUME NEW i \in 1..n + 1 PROVE pos[i + 1] = pos[i] + Len(Frame(r[i]))
      BY <1>3
  <2>2. pos[1 + 1] = pos[1] + Len(Frame(r[1]))
      BY <1>6, <2>1
  <2>3. 1 + 1 = 2
      OBVIOUS
  <2> QED
      BY <1>2, <1>3, <1>5, <2>2, <2>3
<1>8. pos[n + 2] = pos[n + 1] + Len(Frame(m))
    BY <1>2, <1>3, <1>6
<1>9. pos[2] <= pos[n + 1] /\ pos[n + 1] \in Nat
    BY <1>3, <1>6
<1> QED
    BY <1>3, <1>5, <1>7, <1>8, <1>9

-----------------------------------------------------------------------------
(* What is under way *)

\* A is what the reader has not decoded yet, q the messages handed over whole
\* that it has not decoded.  A ends with the frames of q and the beginning of
\* the frame of last, if one was begun; cut is what is missing of that frame.
Follows(q, last) == IF last = None THEN q ELSE Append(q, last)
Lies(A, cut, q, last) ==
    /\ cut \in Seq(Nat) /\ last \in Message \cup {None}
    /\ last = None <=> cut = <<>>
    /\ last # None => Len(cut) <= Len(Frame(last))
    /\ Chain(A \o cut, Follows(q, last))

\* The messages under way, seen from the front.
LEMMA FollowsType ==
    ASSUME NEW q \in Seq(Message), NEW last \in Message \cup {None}
    PROVE  /\ Follows(q, last) \in Seq(Message)
           /\ q # <<>> => /\ Follows(q, last) # <<>>
                          /\ Follows(q, last)[1] = q[1]
                          /\ Tail(Follows(q, last)) = Follows(Tail(q), last)
           /\ q = <<>> /\ last # None => /\ Follows(q, last) # <<>>
                                         /\ Follows(q, last)[1] = last
                                         /\ Tail(Follows(q, last)) = <<>>
           /\ q = <<>> /\ last = None => Follows(q, last) = <<>>
<1>1. CASE last = None
    BY <1>1 DEF Follows
<1>2. CASE last # None
  <2>1. last \in Message /\ Follows(q, last) = Append(q, last) /\ Follows(Tail(q), last) = Append(Tail(q), last)
      BY <1>2 DEF Follows
  <2>2. /\ Append(q, last) \in Seq(Message) /\ Append(q, last) # <<>>
        /\ \A i \in 1..Len(q) : Append(q, last)[i] = q[i]
        /\ Append(q, last)[Len(q) + 1] = last
      BY <2>1, AppendProperties
  <2>3. Tail(Append(q, last)) = IF q = <<>> THEN <<>> ELSE Append(Tail(q), last)
      BY HeadTailAppend
  <2>4. q # <<>> => 1 \in 1..Len(q)
      OBVIOUS
  <2>5. q = <<>> => Len(q) + 1 = 1
      OBVIOUS
  <2> QED
      BY <1>2, <2>1, <2>2, <2>3, <2>4, <2>5
<1> QED
    BY <1>1, <1>2

\* Elements of a concatenation, and what is left behind its first part.
LEMMA Parts ==
    ASSUME NEW F \in Seq(Nat), NEW R \in Seq(Nat)
    PROVE  /\ F \o R \in Seq(Nat)
           /\ Len(F) \in Nat /\ Len(R) \in Nat
           /\ Len(F \o R) = Len(F) + Len(R)
           /\ \A i \in 1..Len(F) : (F \o R)[i] = F[i]
           /\ SubSeq(F \o R, 1, Len(F)) = F
           /\ SubSeq(F \o R, Len(F) + 1, Len(F \o R)) = R
<1> DEFINE A == F \o R
           f == Len(F)
           k == Len(R)
<1>1. /\ A \in Seq(Nat) /\ f \in Nat /\ k \in Nat /\ Len(A) = f + k
      /\ \A i \in 1..f : A[i] = F[i]
      /\ \A i \in 1..k : A[f + i] = R[i]
    OBVIOUS
<1>2. SubSeq(A, 1, f) = F
  <2>1. \A i \in 1..f : A[i] \in Nat
      BY <1>1
  <2>2. /\ SubSeq(A, 1, f) \in Seq(Nat)
        /\ Len(SubSeq(A, 1, f)) = (IF 1 <= f THEN f - 1 + 1 ELSE 0)
        /\ \A i \in 1..f - 1 + 1 : SubSeq(A, 1, f)[i] = A[1 + i - 1]
    <3> HIDE DEF A, f
    <3> QED
        BY <1>1, <2>1, SubSeqProperties
  <2>3. Len(SubSeq(A, 1, f)) = f /\ \A i \in 1..f : SubSeq(A, 1, f)[i] = F[i]
    <3> HIDE DEF A, f
    <3> QED
        BY <1>1, <2>2
  <2> QED
      BY <2>2, <2>3, SeqEqual
<1>3. SubSeq(A, f + 1, Len(A)) = R
  <2> DEFINE B == SubSeq(A, f + 1, Len(A))
  <2>1. \A i \in f + 1..Len(A) : A[i] \in Nat
      BY <1>1
  <2>2. /\ B \in Seq(Nat)
        /\ Len(B) = (IF f + 1 <= Len(A) THEN Len(A) - (f + 1) + 1 ELSE 0)
        /\ \A i \in 1..Len(A) - (f + 1) + 1 : B[i] = A[(f + 1) + i - 1]
    <3> HIDE DEF A, f
    <3> QED
        BY <1>1, <2>1, SubSeqProperties
  <2>3. Len(B) = k /\ \A i \in 1..k : B[i] = R[i]
    <3> HIDE DEF A, f, k, B
    <3> QED
        BY <1>1, <2>2
  <2> QED
      BY <2>2, <2>3, SeqEqual
<1> QED
    BY <1>1, <1>2, <1>3

\* A frame's length is in its fourth field, so a piece F from the front that is
\* as long as it says is the frame of the first message, and that message was
\* handed over whole.
LEMMA FirstFrame ==
    ASSUME NEW F \in Seq(Nat), NEW R \in Seq(Nat), NEW q \in Seq(Message),
           NEW cut, NEW last, Lies(F \o R, cut, q, last),
           Len(F) >= 4, Len(F) = 4 + F[4]
    PROVE  /\ q # <<>> /\ q[1] \in Message /\ F = Frame(q[1])
           /\ Lies(R, cut, Tail(q), last)
<1> DEFINE w == Follows(q, last)
           W == F \o (R \o cut)
           T == R \o cut
<1>1. cut \in Seq(Nat) /\ last \in Message \cup {None} /\ (last = None <=> cut = <<>>)
    BY DEF Lies
<1>2. w \in Seq(Message)
    BY <1>1, FollowsType
<1>3. Chain(W, w)
  <2>1. (F \o R) \o cut = F \o (R \o cut)
      BY <1>1, ConcatThree
  <2> QED
      BY <2>1 DEF Lies
<1>4. T \in Seq(Nat) /\ Len(T) = Len(R) + Len(cut) /\ Len(cut) \in Nat /\ Len(R) \in Nat
    BY <1>1
<1>5. /\ W \in Seq(Nat) /\ Len(F) \in Nat /\ Len(W) = Len(F) + Len(T)
      /\ \A i \in 1..Len(F) : W[i] = F[i]
      /\ SubSeq(W, Len(F) + 1, Len(W)) = T
  <2> HIDE DEF T
  <2> QED
      BY <1>4, Parts DEF T
<1> HIDE DEF W, T
<1>6. w # <<>>
  <2>1. Len(W) >= 4
      BY <1>4, <1>5
  <2>2. W # <<>>
      BY <2>1
  <2>3. w = <<>> => W = <<>>
      BY <1>3, <1>5, ChainNone
  <2> QED
      BY <2>2, <2>3
<1> DEFINE G == Frame(w[1])
<1>7. /\ w[1] \in Message /\ Len(G) <= Len(W) /\ \A j \in 1..Len(G) : W[j] = G[j]
      /\ Chain(SubSeq(W, Len(G) + 1, Len(W)), Tail(w))
  <2> HIDE DEF w
  <2> QED
      BY <1>2, <1>3, <1>5, <1>6, ChainPop
<1>8. G \in Seq(Nat) /\ Len(G) \in Nat /\ Len(G) = 4 + G[4] /\ Len(G) >= 4
  <2> HIDE DEF w
  <2> QED
      BY <1>7, FrameType
<1>9. F[4] = G[4] /\ Len(F) = Len(G)
  <2> HIDE DEF G
  <2>1. W[4] = F[4]
      BY <1>5
  <2>2. W[4] = G[4]
      BY <1>7, <1>8
  <2> QED
      BY <1>8, <2>1, <2>2
<1>10. F = G
  <2>1. \A i \in 1..Len(F) : F[i] = G[i]
    <3> HIDE DEF G
    <3> QED
        BY <1>5, <1>7, <1>9
  <2> HIDE DEF G
  <2> QED
      BY <1>8, <1>9, <2>1, SeqEqual
<1>11. Chain(T, Tail(w))
    BY <1>5, <1>7, <1>9
<1>12. q # <<>>
  <2>1. SUFFICES ASSUME q = <<>> PROVE FALSE
      OBVIOUS
  <2>2. last # None
      BY <1>1, <1>6, <2>1, FollowsType
  <2>3. Tail(w) = <<>>
      BY <1>1, <2>1, <2>2, FollowsType
  <2>4. T = <<>>
      BY <1>4, <1>11, <2>3, ChainNone
  <2>6. cut = <<>>
      BY <1>1, <2>4, ConcatEqualIffEmpty DEF T
  <2> QED
      BY <1>1, <2>2, <2>6
<1>13. w[1] = q[1] /\ Tail(w) = Follows(Tail(q), last)
    BY <1>1, <1>12, FollowsType
<1>14. Lies(R, cut, Tail(q), last)
    BY <1>11, <1>13 DEF Lies, T
<1> QED
    BY <1>7, <1>10, <1>12, <1>13, <1>14

\* Four fields from the front are the header of a message.
LEMMA FirstHeader ==
    ASSUME NEW F \in Seq(Nat), NEW R \in Seq(Nat), NEW q \in Seq(Message),
           NEW cut, NEW last, Lies(F \o R, cut, q, last),
           Len(F) = 4
    PROVE  \E m \in Message :
              F = Header(m) /\ (m = last \/ \E i \in 1..Len(q) : m = q[i])
<1> DEFINE w == Follows(q, last)
           W == (F \o R) \o cut
           A == F \o R
<1>1. cut \in Seq(Nat) /\ last \in Message \cup {None} /\ (last = None <=> cut = <<>>)
    BY DEF Lies
<1>2. w \in Seq(Message)
    BY <1>1, FollowsType
<1>3. Chain(W, w)
    BY DEF Lies
<1>4. A \in Seq(Nat) /\ Len(A) \in Nat /\ Len(A) >= 4 /\ \A i \in 1..4 : A[i] = F[i]
  <2>1. /\ A \in Seq(Nat) /\ Len(F) \in Nat /\ Len(R) \in Nat
        /\ Len(A) = Len(F) + Len(R) /\ \A i \in 1..Len(F) : A[i] = F[i]
      BY Parts
  <2> HIDE DEF A
  <2> QED
      BY <2>1
<1>5. W \in Seq(Nat) /\ Len(W) >= 4 /\ \A i \in 1..4 : W[i] = F[i]
  <2> HIDE DEF A
  <2>1. /\ W \in Seq(Nat) /\ Len(cut) \in Nat /\ Len(W) = Len(A) + Len(cut)
        /\ \A i \in 1..Len(A) : W[i] = A[i]
      BY <1>1, <1>4, Parts DEF A
  <2> HIDE DEF W
  <2>2. Len(W) >= 4
      BY <1>4, <2>1
  <2>3. \A i \in 1..4 : i \in 1..Len(A)
      BY <1>4
  <2> QED
      BY <1>4, <2>1, <2>2, <2>3
<1> HIDE DEF W, A
<1>6. w # <<>>
  <2>1. W # <<>>
      BY <1>5
  <2>2. w = <<>> => W = <<>>
      BY <1>3, <1>5, ChainNone
  <2> QED
      BY <2>1, <2>2
<1> DEFINE m == w[1]
<1>7. m \in Message /\ \A j \in 1..Len(Frame(m)) : W[j] = Frame(m)[j]
  <2> HIDE DEF w
  <2> QED
      BY <1>2, <1>3, <1>5, <1>6, ChainPop
<1>8. F = Header(m)
  <2> HIDE DEF m
  <2>1. Len(Frame(m)) \in Nat /\ Len(Frame(m)) >= 4 /\ \A i \in 1..4 : Frame(m)[i] = Header(m)[i]
      BY <1>7, FrameType
  <2>2. Header(m) \in Seq(Nat) /\ Len(Header(m)) = 4
      BY <1>7, HeaderType DEF HeaderLen
  <2>3. \A i \in 1..4 : i \in 1..Len(Frame(m))
      BY <2>1
  <2>4. \A i \in 1..4 : F[i] = Header(m)[i]
      BY <1>5, <1>7, <2>1, <2>3
  <2> QED
      BY <2>2, <2>4, SeqEqual
<1>9. m = last \/ \E i \in 1..Len(q) : m = q[i]
  <2>1. CASE q = <<>>
      BY <1>1, <1>6, <2>1, FollowsType
  <2>2. CASE q # <<>>
    <3>1. m = q[1]
        BY <1>1, <2>2, FollowsType
    <3>2. 1 \in 1..Len(q)
        BY <2>2
    <3> QED
        BY <3>1, <3>2
  <2> QED
      BY <2>1, <2>2
<1> QED
    BY <1>7, <1>8, <1>9

\* A reader that lacks a part of the frame it is reading has decoded every
\* message that was handed over whole.
LEMMA NothingWhole ==
    ASSUME NEW A \in Seq(Nat), NEW q \in Seq(Message), NEW cut, NEW last,
           Lies(A, cut, q, last), Len(A) < 4 \/ Len(A) < 4 + A[4]
    PROVE  q = <<>>
<1> DEFINE w == Follows(q, last)
           W == A \o cut
<1>1. /\ cut \in Seq(Nat) /\ last \in Message \cup {None} /\ (last = None <=> cut = <<>>)
      /\ last # None => Len(cut) <= Len(Frame(last))
      /\ Chain(W, w)
    BY DEF Lies
<1>2. SUFFICES ASSUME q # <<>> PROVE FALSE
    OBVIOUS
<1>3. w \in Seq(Message) /\ w # <<>> /\ w[1] = q[1] /\ q[1] \in Message
  <2>1. q[1] \in Message
      BY <1>2, ElementOfSeq
  <2> QED
      BY <1>1, <1>2, <2>1, FollowsType
<1>4. /\ W \in Seq(Nat) /\ Len(A) \in Nat /\ Len(cut) \in Nat /\ Len(W) = Len(A) + Len(cut)
      /\ \A i \in 1..Len(A) : W[i] = A[i]
    BY <1>1, Parts
<1> HIDE DEF W
<1> DEFINE G == Frame(q[1])
<1>5. Len(G) <= Len(W) /\ \A j \in 1..Len(G) : W[j] = G[j]
  <2> HIDE DEF w, G
  <2>1. w \in Seq(Message) /\ w # <<>> /\ W \in Seq(Nat) /\ Chain(W, w)
      BY <1>1, <1>3, <1>4
  <2>2. /\ Len(Frame(w[1])) <= Len(W)
        /\ \A j \in 1..Len(Frame(w[1])) : W[j] = Frame(w[1])[j]
      BY <2>1, ChainPop, Zenon
  <2> QED
      BY <1>3, <2>2 DEF G
<1>6. Len(G) \in Nat /\ Len(G) >= 4 /\ Len(G) = 4 + G[4] /\ G[4] \in Nat
    BY <1>3, FrameType
<1>7. Len(G) <= Len(A)
  <2>1. CASE last = None
    <3>1. Len(cut) = 0
        BY <1>1, <2>1
    <3> HIDE DEF G
    <3> QED
        BY <1>4, <1>5, <1>6, <3>1
  <2>2. CASE last # None
    <3>1. last \in Message /\ w = Append(q, last)
        BY <1>1, <2>2 DEF Follows
    <3>2. Len(G) + Len(Frame(last)) <= Len(W)
        BY <1>1, <1>2, <1>4, <3>1, ChainTwo
    <3>3. Len(Frame(last)) \in Nat /\ Len(cut) <= Len(Frame(last))
        BY <1>1, <2>2, <3>1, FrameType
    <3> HIDE DEF G
    <3> QED
        BY <1>4, <1>6, <3>2, <3>3
  <2> QED
      BY <2>1, <2>2
<1>8. A[4] = G[4]
  <2> HIDE DEF G
  <2>1. 4 \in 1..Len(G) /\ 4 \in 1..Len(A)
      BY <1>4, <1>6, <1>7
  <2> QED
      BY <1>4, <1>5, <2>1
<1> HIDE DEF G
<1>9. Len(A) >= 4 /\ Len(A) \in Nat
    BY <1>4, <1>6, <1>7
<1>10. Len(A) >= 4 + A[4] /\ A[4] \in Nat
    BY <1>4, <1>6, <1>7, <1>8
<1> QED
    BY <1>9, <1>10

-----------------------------------------------------------------------------
(* The messages handed over and not decoded *)

Rest(s, n) == SubSeq(s, n + 1, Len(s))

\* The messages from the (n+1)st on.
LEMMA RestType ==
    ASSUME NEW s \in Seq(Message), NEW n \in Nat, n <= Len(s)
    PROVE  /\ Rest(s, n) \in Seq(Message) /\ Len(Rest(s, n)) = Len(s) - n
           /\ \A i \in 1..Len(s) - n : Rest(s, n)[i] = s[n + i]
<1> DEFINE r == Rest(s, n)
           l == Len(s)
<1>1. l \in Nat /\ \A i \in n + 1..l : s[i] \in Message
    BY ElementOfSeq
<1>2. /\ r \in Seq(Message)
      /\ Len(r) = (IF n + 1 <= l THEN l - (n + 1) + 1 ELSE 0)
      /\ \A i \in 1..l - (n + 1) + 1 : r[i] = s[(n + 1) + i - 1]
  <2>1. r = SubSeq(s, n + 1, l)
      BY DEF Rest
  <2> HIDE DEF r, l
  <2> QED
      BY <1>1, <2>1, SubSeqProperties
<1>3. Len(r) = l - n /\ \A i \in 1..l - n : r[i] = s[n + i]
  <2>1. n <= l
      OBVIOUS
  <2> HIDE DEF r, l
  <2> QED
      BY <1>1, <1>2, <2>1
<1> QED
    BY <1>2, <1>3

\* A message that is sent is the last of those not yet decoded.
LEMMA RestAppend ==
    ASSUME NEW s \in Seq(Message), NEW n \in Nat, n <= Len(s), NEW m \in Message
    PROVE  Rest(Append(s, m), n) = Append(Rest(s, n), m)
<1> DEFINE l == Len(s)
           t == Append(s, m)
           a == Rest(t, n)
           r == Rest(s, n)
           b == Append(r, m)
<1>1. l \in Nat /\ n <= l
    OBVIOUS
<1>2. /\ t \in Seq(Message) /\ Len(t) = l + 1 /\ t[l + 1] = m
      /\ \A i \in 1..l : t[i] = s[i]
    BY AppendProperties
<1>3. r \in Seq(Message) /\ Len(r) = l - n /\ \A i \in 1..l - n : r[i] = s[n + i]
    BY RestType
<1>4. /\ a \in Seq(Message) /\ Len(a) = (l + 1) - n
      /\ \A i \in 1..(l + 1) - n : a[i] = t[n + i]
  <2>1. n <= Len(t) /\ Len(t) = l + 1 /\ t \in Seq(Message)
    <3> HIDE DEF t, l
    <3> QED
        BY <1>1, <1>2
  <2> HIDE DEF t, l
  <2>2. /\ a \in Seq(Message) /\ Len(a) = Len(t) - n
        /\ \A i \in 1..Len(t) - n : a[i] = t[n + i]
      BY <2>1, RestType
  <2> QED
      BY <2>1, <2>2
<1>5. /\ b \in Seq(Message) /\ Len(b) = Len(r) + 1 /\ b[Len(r) + 1] = m
      /\ \A i \in 1..Len(r) : b[i] = r[i]
  <2> HIDE DEF r
  <2> QED
      BY <1>3, AppendProperties
<1> HIDE DEF l, t, a, r, b
<1>6. Len(a) = Len(b)
    BY <1>1, <1>3, <1>4, <1>5
<1>7. ASSUME NEW i \in 1..Len(a)
      PROVE  a[i] = b[i]
  <2>1. CASE i \in 1..l - n
    <3>1. n + i \in 1..l /\ i \in 1..(l + 1) - n
        BY <1>1, <2>1
    <3> QED
        BY <1>2, <1>3, <1>4, <1>5, <2>1, <3>1
  <2>2. CASE i = l - n + 1
    <3>1. n + i = l + 1 /\ i \in 1..(l + 1) - n /\ i = Len(r) + 1
        BY <1>1, <1>3, <2>2
    <3> QED
        BY <1>2, <1>4, <1>5, <3>1
  <2> QED
      BY <1>1, <1>4, <2>1, <2>2
<1>8. a = b
    BY <1>4, <1>5, <1>6, <1>7, SeqEqual
<1> QED
    BY <1>8 DEF a, b, t, r

\* The next message to decode is the first of them.
LEMMA RestTail ==
    ASSUME NEW s \in Seq(Message), NEW n \in Nat, n < Len(s)
    PROVE  /\ Rest(s, n) # <<>> /\ Rest(s, n)[1] = s[n + 1] /\ s[n + 1] \in Message
           /\ Tail(Rest(s, n)) = Rest(s, n + 1)
<1> DEFINE l == Len(s)
           a == Tail(Rest(s, n))
           r == Rest(s, n)
           b == Rest(s, n + 1)
<1>1. l \in Nat /\ n < l /\ n + 1 <= l /\ n <= l
    OBVIOUS
<1>2. r \in Seq(Message) /\ Len(r) = l - n /\ \A i \in 1..l - n : r[i] = s[n + i]
  <2> HIDE DEF l
  <2> QED
      BY <1>1, RestType DEF l
<1>3. /\ b \in Seq(Message) /\ Len(b) = l - (n + 1)
      /\ \A i \in 1..l - (n + 1) : b[i] = s[(n + 1) + i]
  <2> HIDE DEF l
  <2> QED
      BY <1>1, RestType DEF l
<1>4. 1 \in 1..l - n /\ n + 1 \in 1..l
  <2> HIDE DEF l
  <2> QED
      BY <1>1
<1>5. r # <<>> /\ r[1] = s[n + 1]
  <2> HIDE DEF r, l
  <2>1. Len(r) # 0
      BY <1>1, <1>2
  <2> QED
      BY <1>2, <1>4, <2>1
<1>6. s[n + 1] \in Message
    BY <1>4, ElementOfSeq
<1>7. /\ a \in Seq(Message) /\ Len(a) = Len(r) - 1
      /\ \A i \in 1..Len(a) : a[i] = r[i + 1]
  <2>1. a = Tail(r)
      OBVIOUS
  <2> HIDE DEF r, a
  <2> QED
      BY <1>2, <1>5, <2>1, HeadTailProperties
<1> HIDE DEF l, a, r, b
<1>8. Len(a) = Len(b) /\ Len(a) = l - n - 1
    BY <1>1, <1>2, <1>3, <1>7
<1>9. ASSUME NEW i \in 1..Len(a)
      PROVE  a[i] = b[i]
  <2>1. i + 1 \in 1..l - n /\ i \in 1..l - (n + 1) /\ n + (i + 1) = (n + 1) + i
      BY <1>1, <1>8
  <2> QED
      BY <1>2, <1>3, <1>7, <2>1
<1>10. a = b
    BY <1>3, <1>7, <1>8, <1>9, SeqEqual
<1> QED
    BY <1>5, <1>6, <1>10 DEF a, b, r

\* The messages not yet decoded, as the reader will have them.
LEMMA ReadAfterType ==
    ASSUME NEW s \in Seq(Message), NEW n \in Nat, n <= Len(s),
           reader \in {"desktop", "phone"}
    PROVE  /\ ReadAfter(s, n) \in Seq(Readings) /\ Len(ReadAfter(s, n)) = Len(s) - n
           /\ \A i \in 1..Len(s) - n : ReadAfter(s, n)[i] = AsRead(s[n + i])
<1> DEFINE l == Len(s)
<1>1. l \in Nat /\ \A i \in 1..l : s[i] \in Message
    BY ElementOfSeq
<1>2. l - n \in Nat /\ \A i \in 1..l - n : n + i \in 1..l
  <2> HIDE DEF l
  <2>1. n \in Nat /\ l \in Nat /\ n <= l
      BY <1>1 DEF l
  <2> QED
      BY <2>1
<1>3. \A i \in 1..l - n : AsRead(s[n + i]) \in Readings
    BY <1>1, <1>2, ReadingFields
<1> DEFINE a == ReadAfter(s, n)
<1>4. a = [i \in 1..l - n |-> AsRead(s[n + i])]
    BY DEF ReadAfter
<1> HIDE DEF a, l
<1>5. a \in Seq(Readings) /\ Len(a) = l - n /\ \A i \in 1..l - n : a[i] = AsRead(s[n + i])
    BY <1>2, <1>3, <1>4
<1> QED
    BY <1>5 DEF a, l

\* One more message is sent.
LEMMA ReadAfterAppend ==
    ASSUME NEW s \in Seq(Message), NEW n \in Nat, n <= Len(s), NEW m \in Message,
           reader \in {"desktop", "phone"}
    PROVE  ReadAfter(Append(s, m), n) = Append(ReadAfter(s, n), AsRead(m))
<1> DEFINE l == Len(s)
           t == Append(s, m)
           a == ReadAfter(t, n)
           r == ReadAfter(s, n)
           d == AsRead(m)
           b == Append(r, d)
<1>1. n \in Nat /\ l \in Nat /\ n <= l
    OBVIOUS
<1>2. t \in Seq(Message) /\ Len(t) = l + 1 /\ t[l + 1] = m /\ \A i \in 1..l : t[i] = s[i]
    BY AppendProperties
<1>3. /\ r \in Seq(Readings) /\ Len(r) = l - n
      /\ \A i \in 1..l - n : r[i] = AsRead(s[n + i])
    BY <1>1, ReadAfterType
<1>4. /\ a \in Seq(Readings) /\ Len(a) = (l + 1) - n
      /\ \A i \in 1..(l + 1) - n : a[i] = AsRead(t[n + i])
  <2>1. t \in Seq(Message) /\ n <= Len(t) /\ Len(t) = l + 1
      BY <1>1, <1>2
  <2> HIDE DEF t, l
  <2> QED
      BY <2>1, ReadAfterType
<1>5. d \in Readings
    BY ReadingFields
<1>6. /\ b \in Seq(Readings) /\ Len(b) = Len(r) + 1 /\ b[Len(r) + 1] = d
      /\ \A i \in 1..Len(r) : b[i] = r[i]
  <2> HIDE DEF r, d
  <2> QED
      BY <1>3, <1>5, AppendProperties
<1>7. d = AsRead(m)
    OBVIOUS
<1> HIDE DEF l, t, a, r, b, d
<1>8. Len(a) = Len(b) /\ Len(a) = l - n + 1
    BY <1>1, <1>3, <1>4, <1>6
<1>9. ASSUME NEW i \in 1..Len(a) PROVE a[i] = b[i]
  <2>1. CASE i \in 1..l - n
    <3>1. n + i \in 1..l /\ i \in 1..(l + 1) - n
        BY <1>1, <2>1
    <3> QED
        BY <1>2, <1>3, <1>4, <1>6, <2>1, <3>1
  <2>2. CASE i = l - n + 1
    <3>1. n + i = l + 1 /\ i \in 1..(l + 1) - n
        BY <1>1, <2>2
    <3> QED
        BY <1>2, <1>3, <1>4, <1>6, <1>7, <2>2, <3>1
  <2> QED
      BY <1>1, <1>8, <2>1, <2>2
<1>10. a = b
    BY <1>4, <1>6, <1>8, <1>9, SeqEqual
<1> QED
    BY <1>10 DEF a, b, r, d, t

\* The first of them is taken.
LEMMA ReadAfterTail ==
    ASSUME NEW s \in Seq(Message), NEW n \in Nat, n < Len(s),
           reader \in {"desktop", "phone"}
    PROVE  /\ ReadAfter(s, n) # <<>>
           /\ Head(ReadAfter(s, n)) = AsRead(s[n + 1]) /\ AsRead(s[n + 1]) \in Readings
           /\ Tail(ReadAfter(s, n)) = ReadAfter(s, n + 1)
<1> DEFINE l == Len(s)
           r == ReadAfter(s, n)
           a == Tail(r)
           b == ReadAfter(s, n + 1)
<1>1. n \in Nat /\ l \in Nat /\ n <= l /\ n + 1 <= l /\ n + 1 \in Nat
    OBVIOUS
<1>2. /\ r \in Seq(Readings) /\ Len(r) = l - n
      /\ \A i \in 1..l - n : r[i] = AsRead(s[n + i])
    BY <1>1, ReadAfterType
<1>3. /\ b \in Seq(Readings) /\ Len(b) = l - (n + 1)
      /\ \A i \in 1..l - (n + 1) : b[i] = AsRead(s[(n + 1) + i])
    BY <1>1, ReadAfterType
<1>4. a = Tail(r)
    OBVIOUS
<1> HIDE DEF l, r, a, b
<1>5. Len(r) # 0 /\ 1 \in 1..l - n /\ 1 \in 1..Len(r)
    BY <1>1, <1>2
<1>6. r # <<>>
    BY <1>5
<1>7. /\ Head(r) = r[1] /\ a \in Seq(Readings) /\ Len(a) = Len(r) - 1
      /\ \A i \in 1..Len(a) : a[i] = r[i + 1]
    BY <1>2, <1>4, <1>6, HeadTailProperties
<1>8. Head(r) = AsRead(s[n + 1]) /\ AsRead(s[n + 1]) \in Readings
    BY <1>2, <1>5, <1>7, ElementOfSeq
<1>9. Len(a) = Len(b) /\ Len(a) = l - n - 1
    BY <1>1, <1>2, <1>3, <1>7
<1>10. ASSUME NEW i \in 1..Len(a) PROVE a[i] = b[i]
  <2>1. i + 1 \in 1..l - n /\ i \in 1..l - (n + 1) /\ n + (i + 1) = (n + 1) + i
      BY <1>1, <1>9
  <2> QED
      BY <1>2, <1>3, <1>7, <2>1
<1>11. a = b
    BY <1>3, <1>7, <1>9, <1>10, SeqEqual
<1> QED
    BY <1>6, <1>8, <1>11 DEF a, b, r

-----------------------------------------------------------------------------
(* The inductive invariant *)

\* The calls of send_all that are left, put together.
Together(cs) == IF cs = <<>> THEN <<>> ELSE IF Len(cs) = 1 THEN cs[1] ELSE cs[1] \o cs[2]
Calls(cs) ==
    /\ cs \in Seq(Seq(Nat)) /\ Len(cs) <= 2
    /\ \A i \in 1..Len(cs) : cs[i] # <<>>

WriterInv ==
    /\ Calls(calls)
    /\ calls = <<>> <=> msg = None
    /\ msg # None => wEnd /\ Writable(msg) /\ Len(sent) < MaxSent
    /\ \A i \in 1..Len(sent) : Writable(sent[i])

\* What the reader has not decoded: with the header it is reading a payload for.
HeadRead(a, h) ==
    IF a = "payload" THEN <<kMagic, kVersion, WireType[h.type], h.length>> ELSE <<>>
Ahead == HeadRead(at, head) \o (buf \o stream)

\* A is the frames of the messages from the (n+1)st on, up to where the writer is.
UnderWay(A, n) ==
    \E cut \in Seq(Nat), last \in Message \cup {None} :
        /\ Lies(A, cut, Rest(sent, n), last)
        /\ last # None => Writable(last)
        /\ wEnd => last = msg /\ cut = Together(calls)
StreamInv == Reading => UnderWay(Ahead, Len(received))

IInv == TypeOK /\ WriterInv /\ DecodedAsSent /\ RefusedByLimits /\ StreamInv

\* What is left of the calls is nothing only when no call is left.
LEMMA TogetherType ==
    ASSUME NEW cs, Calls(cs)
    PROVE  /\ Together(cs) \in Seq(Nat)
           /\ Together(cs) = <<>> <=> cs = <<>>
<1>1. cs \in Seq(Seq(Nat)) /\ Len(cs) \in Nat /\ Len(cs) <= 2
    BY DEF Calls
<1>2. CASE cs = <<>>
    BY <1>2 DEF Together
<1>3. CASE Len(cs) = 1
  <2>1. 1 \in 1..Len(cs) /\ cs # <<>>
      BY <1>3
  <2>2. cs[1] \in Seq(Nat) /\ cs[1] # <<>>
      BY <1>1, <2>1, ElementOfSeq DEF Calls
  <2> QED
      BY <1>3, <2>1, <2>2 DEF Together
<1>4. CASE Len(cs) = 2
  <2>1. 1 \in 1..Len(cs) /\ 2 \in 1..Len(cs) /\ cs # <<>>
      BY <1>4
  <2>2. cs[1] \in Seq(Nat) /\ cs[1] # <<>> /\ cs[2] \in Seq(Nat)
      BY <1>1, <2>1, ElementOfSeq DEF Calls
  <2>3. cs[1] \o cs[2] \in Seq(Nat) /\ cs[1] \o cs[2] # <<>>
    <3> DEFINE a == cs[1]
               b == cs[2]
    <3> HIDE DEF a, b
    <3>1. a \in Seq(Nat) /\ a # <<>> /\ b \in Seq(Nat)
        BY <2>2 DEF a, b
    <3>2. a \o b \in Seq(Nat) /\ a \o b # <<>>
        BY <3>1, ConcatEqualIffEmpty
    <3> QED
        BY <3>2 DEF a, b
  <2> QED
      BY <1>4, <2>1, <2>3 DEF Together
<1>5. Len(cs) = 0 => cs = <<>>
    BY <1>1
<1>6. Len(cs) = 0 \/ Len(cs) = 1 \/ Len(cs) = 2
  <2>1. Len(cs) \in Nat /\ Len(cs) <= 2
      BY <1>1
  <2> DEFINE l == Len(cs)
  <2> HIDE DEF l
  <2>2. l \in Nat /\ l <= 2
      BY <2>1 DEF l
  <2>3. l = 0 \/ l = 1 \/ l = 2
      BY <2>2
  <2> QED
      BY <2>3 DEF l
<1> QED
    BY <1>2, <1>3, <1>4, <1>5, <1>6

\* A sequence in two pieces.
LEMMA TwoPieces ==
    ASSUME NEW s \in Seq(Nat), NEW k \in Nat, k <= Len(s)
    PROVE  /\ SubSeq(s, 1, k) \in Seq(Nat) /\ Len(SubSeq(s, 1, k)) = k
           /\ SubSeq(s, k + 1, Len(s)) \in Seq(Nat)
           /\ Len(SubSeq(s, k + 1, Len(s))) = Len(s) - k
           /\ s = SubSeq(s, 1, k) \o SubSeq(s, k + 1, Len(s))
<1> DEFINE l == Len(s)
           a == SubSeq(s, 1, k)
           b == SubSeq(s, k + 1, l)
<1>1. l \in Nat /\ k <= l /\ \A i \in 1..l : s[i] \in Nat
    OBVIOUS
<1>2. a \in Seq(Nat) /\ Len(a) = k /\ \A i \in 1..k : a[i] = s[i]
  <2>1. \A i \in 1..k : s[i] \in Nat
    <3> HIDE DEF l
    <3> QED
        BY <1>1
  <2>2. /\ a \in Seq(Nat) /\ Len(a) = (IF 1 <= k THEN k - 1 + 1 ELSE 0)
        /\ \A i \in 1..k - 1 + 1 : a[i] = s[1 + i - 1]
      BY <2>1, SubSeqProperties
  <2> HIDE DEF a
  <2> QED
      BY <2>2
<1>3. b \in Seq(Nat) /\ Len(b) = l - k /\ \A i \in 1..l - k : b[i] = s[k + i]
  <2>1. \A i \in k + 1..l : s[i] \in Nat
    <3> HIDE DEF l
    <3> QED
        BY <1>1
  <2> HIDE DEF l
  <2>2. /\ b \in Seq(Nat) /\ Len(b) = (IF k + 1 <= l THEN l - (k + 1) + 1 ELSE 0)
        /\ \A i \in 1..l - (k + 1) + 1 : b[i] = s[(k + 1) + i - 1]
      BY <1>1, <2>1, SubSeqProperties
  <2> HIDE DEF b
  <2> QED
      BY <1>1, <2>2
<1>4. s = a \o b
  <2> DEFINE c == a \o b
  <2> HIDE DEF l, a, b
  <2>1. /\ c \in Seq(Nat) /\ Len(c) = Len(a) + Len(b)
        /\ \A i \in 1..Len(a) + Len(b) : c[i] = IF i <= Len(a) THEN a[i] ELSE b[i - Len(a)]
      BY <1>2, <1>3, ConcatProperties
  <2> HIDE DEF c
  <2>2. Len(c) = l
      BY <1>1, <1>2, <1>3, <2>1
  <2>3. ASSUME NEW i \in 1..l
        PROVE  c[i] = s[i]
    <3>1. CASE i <= k
        BY <1>1, <1>2, <1>3, <2>1, <3>1
    <3>2. CASE i > k
      <4>1. i - k \in 1..l - k /\ k + (i - k) = i /\ ~(i <= Len(a)) /\ i \in 1..Len(a) + Len(b)
          BY <1>1, <1>2, <1>3, <3>2
      <4> QED
          BY <1>2, <1>3, <2>1, <4>1
    <3> QED
        BY <1>1, <3>1, <3>2
  <2>4. c = s
      BY <2>1, <2>2, <2>3, SeqEqual DEF l
  <2> QED
      BY <2>4 DEF c
<1> QED
    BY <1>2, <1>3, <1>4

\* send takes k bytes: they and what is left are what there was.
Handed(cs, k) ==
    IF k < Len(cs[1]) THEN [cs EXCEPT ![1] = SubSeq(@, k + 1, Len(@))] ELSE Tail(cs)
\* Handing over k units takes them from the front of what is left.
LEMMA HandedType ==
    ASSUME NEW cs, Calls(cs), cs # <<>>, NEW k \in Nat, k >= 1, k <= Len(cs[1])
    PROVE  /\ Calls(Handed(cs, k))
           /\ Handed(cs, k) = <<>> <=> k = Len(cs[1]) /\ Len(cs) = 1
           /\ SubSeq(cs[1], 1, k) \in Seq(Nat)
           /\ Together(cs) = SubSeq(cs[1], 1, k) \o Together(Handed(cs, k))
<1> DEFINE a == cs[1]
           p == SubSeq(a, 1, k)
           b == SubSeq(a, k + 1, Len(a))
           h == Handed(cs, k)
<1>1. cs \in Seq(Seq(Nat)) /\ (Len(cs) = 1 \/ Len(cs) = 2) /\ \A i \in 1..Len(cs) : cs[i] # <<>>
  <2>1. cs \in Seq(Seq(Nat)) /\ Len(cs) <= 2 /\ \A i \in 1..Len(cs) : cs[i] # <<>>
      BY DEF Calls
  <2>2. Len(cs) \in Nat /\ Len(cs) # 0
      BY <2>1
  <2> DEFINE l == Len(cs)
  <2> HIDE DEF l
  <2>3. l \in Nat /\ l # 0 /\ l <= 2
      BY <2>1, <2>2 DEF l
  <2>4. l = 1 \/ l = 2
      BY <2>3
  <2> QED
      BY <2>1, <2>4 DEF l
<1>2. a \in Seq(Nat) /\ Len(a) \in Nat /\ k <= Len(a)
  <2>1. 1 \in 1..Len(cs)
      BY <1>1
  <2> QED
      BY <1>1, <2>1, ElementOfSeq
<1>3. /\ p \in Seq(Nat) /\ Len(p) = k /\ b \in Seq(Nat) /\ Len(b) = Len(a) - k
      /\ a = p \o b
  <2> HIDE DEF a
  <2> QED
      BY <1>2, TwoPieces
<1>4. CASE k < Len(a)
  <2>1. h = [cs EXCEPT ![1] = b]
      BY <1>4 DEF Handed
  <2>2. b # <<>>
    <3> HIDE DEF b, a
    <3> QED
        BY <1>2, <1>3, <1>4
  <2>3. /\ h \in Seq(Seq(Nat)) /\ Len(h) = Len(cs) /\ h[1] = b
        /\ \A i \in 1..Len(cs) : i # 1 => h[i] = cs[i]
    <3> HIDE DEF b, a, h
    <3>1. 1 \in 1..Len(cs)
        BY <1>1
    <3>2. /\ [cs EXCEPT ![1] = b] \in Seq(Seq(Nat))
          /\ Len([cs EXCEPT ![1] = b]) = Len(cs)
          /\ \A j \in 1 .. Len(cs) : [cs EXCEPT ![1] = b][j] = IF j=1 THEN b ELSE cs[j]
      <4>1. cs \in Seq(Seq(Nat)) /\ b \in Seq(Nat)
          BY <1>1, <1>3
      <4> QED
          BY <3>1, <4>1, ExceptSeq
    <3> QED
        BY <2>1, <3>1, <3>2
  <2> HIDE DEF h
  <2>4. Calls(h) /\ h # <<>>
    <3> HIDE DEF b, a
    <3>1. \A i \in 1..Len(h) : h[i] # <<>>
        BY <1>1, <2>2, <2>3
    <3>2. Len(h) = 1 \/ Len(h) = 2
        BY <1>1, <2>3
    <3>3. Len(h) <= 2 /\ h # <<>>
      <4>1. Len(h) <= 2
        <5>1. h \in Seq(Seq(Nat)) /\ Len(h) \in Nat
            BY <2>3
        <5> DEFINE l == Len(h)
        <5> HIDE DEF l
        <5>2. l \in Nat /\ (l = 1 \/ l = 2)
            BY <3>2, <5>1 DEF l
        <5>3. l <= 2
            BY <5>2
        <5> QED
            BY <5>3 DEF l
      <4>2. h = <<>> => Len(h) = 0
          OBVIOUS
      <4>3. Len(h) # 0
          BY <3>2
      <4> QED
          BY <4>1, <4>2, <4>3
    <3> QED
        BY <2>3, <3>1, <3>3 DEF Calls
  <2>5. k # Len(a)
      BY <1>2, <1>4
  <2>6. CASE Len(cs) = 1
    <3>1. Together(cs) = a /\ Together(h) = b
        BY <2>3, <2>4, <2>6 DEF Together
    <3> QED
        BY <1>3, <2>4, <2>5, <3>1 DEF h
  <2>7. CASE Len(cs) = 2
    <3> DEFINE d == cs[2]
    <3>1. 2 \in 1..Len(cs)
        BY <2>7
    <3>2. d \in Seq(Nat) /\ h[2] = d
        BY <1>1, <2>3, <3>1, ElementOfSeq
    <3>3. Together(cs) = a \o d
        BY <2>7 DEF Together
    <3>4. Together(h) = b \o d
      <4> HIDE DEF b, a, d
      <4>1. Len(h) # 1
          BY <2>3, <2>7
      <4> QED
          BY <2>3, <2>4, <3>2, <4>1 DEF Together
    <3>5. a \o d = p \o (b \o d)
      <4> HIDE DEF a, p, b, d
      <4> QED
          BY <1>3, <3>2, ConcatThree
    <3> HIDE DEF d
    <3> QED
        BY <1>3, <2>4, <2>5, <3>3, <3>4, <3>5 DEF h
  <2> QED
      BY <1>1, <2>6, <2>7
<1>5. CASE k = Len(a)
  <2>1. h = Tail(cs)
    <3>1. ~(k < Len(cs[1]))
        BY <1>2, <1>5
    <3> QED
        BY <3>1, Zenon DEF Handed
  <2>2. p = a
    <3> HIDE DEF a
    <3> QED
        BY <1>2, <1>5, SubSeqFull
  <2>3. /\ h \in Seq(Seq(Nat)) /\ Len(h) = Len(cs) - 1
        /\ \A i \in 1..Len(h) : h[i] = cs[i + 1]
    <3> HIDE DEF h, a
    <3> QED
        BY <1>1, <2>1, HeadTailProperties
  <2> HIDE DEF h
  <2>4. CASE Len(cs) = 1
    <3>1. h = <<>>
        BY <2>3, <2>4
    <3>2. Together(h) = <<>> /\ Together(cs) = a
        BY <2>4, <3>1 DEF Together
    <3>3. a \o <<>> = a
      <4> HIDE DEF a
      <4> QED
          BY <1>2, ConcatEmptySeq
    <3>4. Calls(h)
      <4>1. <<>> \in Seq(Seq(Nat)) /\ Len(<<>>) = 0
          OBVIOUS
      <4> QED
          BY <3>1, <4>1 DEF Calls
    <3> QED
        BY <1>3, <1>5, <2>2, <2>4, <3>1, <3>2, <3>3, <3>4 DEF h
  <2>5. CASE Len(cs) = 2
    <3>1. Len(h) = 1 /\ h[1] = cs[2] /\ h # <<>> /\ 2 \in 1..Len(cs)
      <4>1. Len(h) = 1 /\ 1 \in 1..Len(h)
          BY <2>3, <2>5
      <4>2. h[1] = cs[1 + 1]
          BY <2>3, <4>1
      <4> QED
          BY <2>5, <4>1, <4>2
    <3>2. Together(h) = cs[2] /\ Together(cs) = a \o cs[2]
        BY <2>5, <3>1 DEF Together
    <3>3. Calls(h)
      <4>1. \A i \in 1..Len(h) : h[i] = cs[2]
          BY <3>1
      <4>2. cs[2] # <<>>
          BY <1>1, <3>1
      <4> QED
          BY <2>3, <3>1, <4>1, <4>2 DEF Calls
    <3>4. p \in Seq(Nat) /\ Len(cs) # 1
        BY <1>3, <2>5
    <3> HIDE DEF p
    <3> QED
        BY <2>2, <3>1, <3>2, <3>3, <3>4 DEF h, p
  <2> QED
      BY <1>1, <2>4, <2>5
<1>6. k < Len(a) \/ k = Len(a)
    BY <1>2
<1> QED
    BY <1>4, <1>5, <1>6

-----------------------------------------------------------------------------
(* The steps *)

\* The invariant holds at first.
LEMMA InitInv == Init => IInv
<1> SUFFICES ASSUME Init PROVE IInv
    OBVIOUS
<1>1. TypeOK
    BY FrameAssumption DEF Init, TypeOK, Reading, Wanted, HeaderLen, Type, WireType
<1>2. WriterInv
    BY DEF Init, WriterInv, Calls
<1>3. DecodedAsSent /\ RefusedByLimits
    BY DEF Init, DecodedAsSent, RefusedByLimits
<1>4. StreamInv
  <2>1. Ahead = <<>>
    <3>1. <<>> \o (<<>> \o <<>>) = <<>>
        OBVIOUS
    <3> QED
        BY <3>1 DEF Init, Ahead, HeadRead
  <2>2. Rest(sent, Len(received)) = <<>>
      BY DEF Init, Rest
  <2>3. <<>> \o <<>> = <<>> /\ <<>> \in Seq(Nat)
      OBVIOUS
  <2>4. Lies(<<>>, <<>>, <<>>, None)
      BY <2>3, ChainEmpty DEF Lies, Follows
  <2>5. Together(calls) = <<>> /\ msg = None
      BY DEF Init, Together
  <2> QED
      BY <2>1, <2>2, <2>3, <2>4, <2>5 DEF StreamInv, UnderWay
<1> QED
    BY <1>1, <1>2, <1>3, <1>4 DEF IInv

\* What a desktop may write every reader accepts.
LEMMA WithinReadable ==
    ASSUME NEW m \in Message, reader \in {"desktop", "phone"}, WithinLimits(m)
    PROVE  Readable(m)
<1>1. CASE reader = "desktop"
    BY <1>1 DEF Readable
<1>2. CASE reader = "phone"
  <2>1. SUFFICES ASSUME NEW i \in DOMAIN m.texts
        PROVE  m.texts[i] # <<>>
      BY <1>2 DEF Readable
  <2>2. Len(m.texts[i]) \in 1..Limit[m.type][i]
      BY <2>1 DEF WithinLimits
  <2>3. Len(m.texts[i]) # 0
      BY <2>2
  <2> QED
      BY <2>3
<1> QED
    BY <1>1, <1>2

\* What a step does not touch keeps its invariant.
LEMMA WriterKept ==
    ASSUME WriterInv, UNCHANGED <<writer, msg, calls, sent>>, wEnd' = wEnd
    PROVE  WriterInv'
BY DEF WriterInv, Calls, Writable, WithinLimits

\* A writer that has given up has nothing left to hand over.
LEMMA WriterGone ==
    ASSUME WriterInv, UNCHANGED <<writer, sent>>, msg' = None, calls' = <<>>
    PROVE  WriterInv'
BY DEF WriterInv, Calls, Writable, WithinLimits

\* What is said of the messages is kept when none is sent or decoded.
LEMMA SentKept ==
    ASSUME DecodedAsSent, RefusedByLimits, UNCHANGED <<writer, reader, sent, received>>,
           at' = at \/ at' # "refused"
    PROVE  DecodedAsSent' /\ RefusedByLimits'
BY DEF DecodedAsSent, AsRead, RefusedByLimits, Readable, WithinLimits

\* No more is decoded than was sent.
LEMMA LengthsType ==
    ASSUME TypeOK, DecodedAsSent
    PROVE  /\ Len(received) \in Nat /\ Len(sent) \in Nat /\ Len(received) <= Len(sent)
           /\ sent \in Seq(Message) /\ received \in Seq(Readings)
BY DEF TypeOK, DecodedAsSent

\* The reader stops.
LEMMA StopInv ==
    ASSUME IInv, NEW why \in {"ended", "closed", "reset"}, Stops(why),
           UNCHANGED <<writer, reader, head, sent>>,
           \/ UNCHANGED <<msg, calls, wEnd>>
           \/ wEnd' = FALSE /\ msg' = None /\ calls' = <<>>
    PROVE  IInv'
<1>1. at' = why /\ buf' = <<>> /\ stream' = <<>> /\ received' = received /\ at' # "refused"
    BY DEF Stops
<1>2. ~Reading'
    BY <1>1 DEF Reading
<1>3. TypeOK'
  <2>1. TypeOK
      BY DEF IInv
  <2>2. at' \in {"ended", "reset", "closed"} /\ buf' \in Seq(Nat) /\ stream' \in Seq(Nat)
      BY <1>1
  <2>3. msg' \in Message \cup {None} /\ calls' \in Seq(Seq(Nat)) /\ wEnd' \in BOOLEAN
    <3>1. CASE UNCHANGED <<msg, calls, wEnd>>
        BY <2>1, <3>1 DEF TypeOK
    <3>2. CASE wEnd' = FALSE /\ msg' = None /\ calls' = <<>>
        BY <3>2, EmptySeq
    <3> QED
        BY <3>1, <3>2
  <2> QED
      BY <1>1, <1>2, <2>1, <2>2, <2>3 DEF TypeOK
<1>4. WriterInv'
    BY WriterKept, WriterGone DEF IInv
<1>5. DecodedAsSent' /\ RefusedByLimits'
    BY <1>1, SentKept DEF IInv
<1>6. StreamInv'
    BY <1>2 DEF StreamInv, UnderWay
<1> QED
    BY <1>3, <1>4, <1>5, <1>6 DEF IInv

\* What is ahead of the reader is a sequence of units.
LEMMA AheadType ==
    ASSUME TypeOK
    PROVE  /\ HeadRead(at, head) \in Seq(Nat) /\ buf \in Seq(Nat) /\ stream \in Seq(Nat)
           /\ buf \o stream \in Seq(Nat)
           /\ Ahead \in Seq(Nat)
<1>1. buf \in Seq(Nat) /\ stream \in Seq(Nat) /\ head.type \in Type /\ head.length \in Nat
    BY DEF TypeOK
<1>2. buf \o stream \in Seq(Nat)
    BY <1>1
<1>3. HeadRead(at, head) \in Seq(Nat)
  <2>1. WireType[head.type] \in Nat
      BY <1>1, WireTypeInjective
  <2> QED
      BY <1>1, <2>1 DEF HeadRead, kMagic, kVersion
<1>4. HeadRead(at, head) \o (buf \o stream) \in Seq(Nat)
    BY <1>2, <1>3
<1> QED
    BY <1>1, <1>2, <1>3, <1>4 DEF Ahead

\* The writer closes its end, or dies: what it has begun stays cut.
LEMMA WriterEndsInv ==
    ASSUME IInv, WriterEnds
    PROVE  IInv'
<1>1. /\ wEnd' = FALSE /\ msg' = None /\ calls' = <<>>
      /\ UNCHANGED <<writer, reader, stream, at, head, buf, sent, received>>
    BY DEF WriterEnds
<1>2. TypeOK'
  <2>1. TypeOK
      BY DEF IInv
  <2>2. Reading' = Reading /\ Wanted' = Wanted
      BY <1>1 DEF Reading, Wanted
  <2>3. wEnd' \in BOOLEAN /\ msg' \in Message \cup {None} /\ calls' \in Seq(Seq(Nat))
      BY <1>1, EmptySeq
  <2> QED
      BY <1>1, <2>1, <2>2, <2>3 DEF TypeOK
<1>3. WriterInv'
    BY <1>1, WriterGone DEF IInv
<1>4. DecodedAsSent' /\ RefusedByLimits'
    BY <1>1, SentKept DEF IInv
<1>5. StreamInv'
  <2>1. Ahead' = Ahead /\ Reading' = Reading
      BY <1>1 DEF Ahead, HeadRead, Reading
  <2> SUFFICES ASSUME Reading'
      PROVE  \E cut \in Seq(Nat), last \in Message \cup {None} :
                /\ Lies(Ahead', cut, Rest(sent', Len(received')), last)
                /\ last # None => Writable(last)'
                /\ wEnd' => last = msg' /\ cut = Together(calls')
      BY DEF StreamInv, UnderWay
  <2>2. PICK cut \in Seq(Nat), last \in Message \cup {None} :
           /\ Lies(Ahead, cut, Rest(sent, Len(received)), last)
           /\ last # None => Writable(last)
      BY <2>1 DEF IInv, StreamInv, UnderWay
  <2>3. Lies(Ahead', cut, Rest(sent', Len(received')), last)
      BY <1>1, <2>1, <2>2
  <2>4. last # None => Writable(last)'
      BY <1>1, <2>2 DEF Writable, WithinLimits
  <2> QED
      BY <1>1, <2>3, <2>4
<1> QED
    BY <1>2, <1>3, <1>4, <1>5 DEF IInv

\* A message is encoded: its frame is missing, and is cut, entirely.
LEMMA SendInv ==
    ASSUME IInv, NEW m \in Message, Send(m)
    PROVE  IInv'
<1>1. /\ wEnd /\ msg = None /\ Writable(m) /\ msg' = m /\ Len(sent) < MaxSent
      /\ calls' = IF Payload(m) = <<>> THEN <<Header(m)>> ELSE <<Header(m), Payload(m)>>
      /\ UNCHANGED <<writer, reader, stream, wEnd, at, head, buf, sent, received>>
    BY DEF Send
<1>2. /\ Header(m) \in Seq(Nat) /\ Header(m) # <<>> /\ Payload(m) \in Seq(Nat)
  <2>1. Header(m) \in Seq(Nat) /\ Len(Header(m)) = 4 /\ Payload(m) \in Seq(Nat)
      BY HeaderType, PayloadType DEF HeaderLen
  <2> DEFINE h == Header(m)
  <2> HIDE DEF h
  <2>2. h \in Seq(Nat) /\ Len(h) = 4
      BY <2>1 DEF h
  <2>3. h # <<>>
    <3>1. Len(<<>>) = 0
        OBVIOUS
    <3>2. Len(h) # Len(<<>>)
        BY <2>2, <3>1
    <3> QED
        BY <3>2
  <2> QED
      BY <2>1, <2>3 DEF h
<1>3. m # None
    BY FrameAssumption
<1>4. Calls(calls') /\ calls' # <<>> /\ Together(calls') = Frame(m)
  <2> DEFINE h == Header(m)
             p == Payload(m)
  <2> HIDE DEF h, p
  <2>1. h \in Seq(Nat) /\ h # <<>> /\ p \in Seq(Nat)
      BY <1>2 DEF h, p
  <2>2. calls' = IF p = <<>> THEN <<h>> ELSE <<h, p>>
      BY <1>1 DEF h, p
  <2>3. CASE p = <<>>
    <3>1. calls' = <<h>>
        BY <2>2, <2>3
    <3>2. <<h>> \in Seq(Seq(Nat)) /\ Len(<<h>>) = 1 /\ <<h>>[1] = h /\ <<h>> # <<>>
        BY <2>1
    <3>3. h \o p = h
        BY <2>1, <2>3, ConcatEmptySeq
    <3>4. Calls(<<h>>)
        BY <2>1, <3>2 DEF Calls
    <3>5. Together(<<h>>) = h
        BY <3>2 DEF Together
    <3> QED
        BY <3>1, <3>2, <3>3, <3>4, <3>5 DEF Frame, h, p
  <2>4. CASE p # <<>>
    <3>1. calls' = <<h, p>>
        BY <2>2, <2>4
    <3>2. /\ <<h, p>> \in Seq(Seq(Nat)) /\ Len(<<h, p>>) = 2 /\ <<h, p>>[1] = h
          /\ <<h, p>>[2] = p /\ <<h, p>> # <<>>
        BY <2>1
    <3>3. Calls(<<h, p>>)
        BY <2>1, <2>4, <3>2 DEF Calls
    <3>4. Together(<<h, p>>) = h \o p
        BY <3>2 DEF Together
    <3> QED
        BY <3>1, <3>2, <3>3, <3>4 DEF Frame, h, p
  <2> QED
      BY <2>3, <2>4
<1>5. TypeOK'
    BY <1>1, <1>4 DEF IInv, TypeOK, Reading, Wanted, Calls
<1>6. WriterInv'
  <2>1. Calls(calls)'
      BY <1>4 DEF Calls
  <2>2. Writable(m)' /\ \A i \in 1..Len(sent) : Writable(sent[i])'
      BY <1>1 DEF IInv, WriterInv, Writable, WithinLimits
  <2> QED
      BY <1>1, <1>3, <1>4, <2>1, <2>2 DEF WriterInv
<1>7. DecodedAsSent' /\ RefusedByLimits'
    BY <1>1, SentKept DEF IInv
<1>8. StreamInv'
  <2>1. Ahead' = Ahead /\ Reading' = Reading
      BY <1>1 DEF Ahead, HeadRead, Reading
  <2> SUFFICES ASSUME Reading'
      PROVE  \E cut \in Seq(Nat), last \in Message \cup {None} :
                /\ Lies(Ahead', cut, Rest(sent', Len(received')), last)
                /\ last # None => Writable(last)'
                /\ wEnd' => last = msg' /\ cut = Together(calls')
      BY DEF StreamInv, UnderWay
  <2> DEFINE q == Rest(sent, Len(received))
  <2>2. Lies(Ahead, <<>>, q, None)
    <3>1. PICK cut \in Seq(Nat), last \in Message \cup {None} :
             /\ Lies(Ahead, cut, q, last) /\ last = None
        BY <1>1, <2>1 DEF IInv, StreamInv, UnderWay
    <3>2. cut = <<>>
        BY <3>1 DEF Lies
    <3> QED
        BY <3>1, <3>2
  <2>3. q \in Seq(Message)
      BY LengthsType, RestType DEF IInv
  <2>4. Ahead \in Seq(Nat)
      BY AheadType DEF IInv
  <2>5. Chain(Ahead \o Frame(m), Append(q, m))
    <3>1. Chain(Ahead, q)
      <4> DEFINE a == Ahead
      <4> HIDE DEF a, q
      <4>1. a \o <<>> = a
          BY <2>4, ConcatEmptySeq DEF a
      <4> QED
          BY <2>2, <4>1 DEF Lies, Follows, a
    <3> HIDE DEF q
    <3> QED
        BY <2>3, <2>4, <3>1, ChainAppend
  <2>6. Frame(m) \in Seq(Nat) /\ Frame(m) # <<>> /\ Len(Frame(m)) <= Len(Frame(m))
    <3>1. Frame(m) \in Seq(Nat) /\ Len(Frame(m)) >= 4 /\ Len(Frame(m)) \in Nat
        BY FrameType
    <3> DEFINE f == Frame(m)
    <3> HIDE DEF f
    <3>2. f \in Seq(Nat) /\ Len(f) >= 4 /\ Len(f) \in Nat
        BY <3>1 DEF f
    <3>3. f # <<>> /\ Len(f) <= Len(f)
        BY <3>2
    <3> QED
        BY <3>1, <3>3 DEF f
  <2>7. Lies(Ahead, Frame(m), q, m)
      BY <1>3, <2>5, <2>6 DEF Lies, Follows
  <2>8. Writable(m)'
      BY <1>1 DEF Writable, WithinLimits
  <2> HIDE DEF q
  <2>9. Rest(sent', Len(received')) = q
      BY <1>1 DEF q
  <2> QED
      BY <1>1, <1>4, <2>1, <2>6, <2>7, <2>8, <2>9
<1> QED
    BY <1>5, <1>6, <1>7, <1>8 DEF IInv

\* The stream takes k units: they go from the cut to what is ahead.
LEMMA PushInv ==
    ASSUME IInv, NEW k \in 1..PayloadMax, Push(k)
    PROVE  IInv'
<1> DEFINE p == SubSeq(calls[1], 1, k)
           n == Len(received)
<1>1. /\ wEnd /\ msg # None /\ k <= Len(calls[1])
      /\ stream' = IF Reading THEN stream \o p ELSE <<>>
      /\ UNCHANGED <<writer, reader, wEnd, at, head, buf, received>>
    BY DEF Push
<1>2. k \in Nat /\ k >= 1
    BY FrameAssumption
<1>3. Calls(calls) /\ calls # <<>> /\ msg \in Message /\ Writable(msg)
    BY <1>1 DEF IInv, TypeOK, WriterInv
<1>4. /\ Calls(Handed(calls, k))
      /\ Handed(calls, k) = <<>> <=> k = Len(calls[1]) /\ Len(calls) = 1
      /\ p \in Seq(Nat)
      /\ Together(calls) = p \o Together(Handed(calls, k))
    BY <1>1, <1>2, <1>3, HandedType
<1>5. calls' = Handed(calls, k)
  <2>1. CASE k < Len(calls[1])
      BY <2>1, Zenon DEF Push, Handed
  <2>2. CASE ~(k < Len(calls[1]))
      BY <2>2, Zenon DEF Push, Handed
  <2> QED
      BY <2>1, <2>2
<1>6. IF calls' = <<>> THEN msg' = None /\ sent' = Append(sent, msg)
                       ELSE msg' = msg /\ sent' = sent
  <2>1. 1 \in 1..Len(calls) /\ Len(calls) \in Nat
    <3>1. calls \in Seq(Seq(Nat)) /\ calls # <<>>
        BY <1>3 DEF Calls
    <3> QED
        BY <3>1
  <2>2. Len(calls[1]) \in Nat
    <3>1. calls \in Seq(Seq(Nat))
        BY <1>3 DEF Calls
    <3>2. calls[1] \in Seq(Nat)
        BY <2>1, <3>1, ElementOfSeq
    <3> QED
        BY <3>2
  <2>3. (k < Len(calls[1])) <=> ~(k = Len(calls[1]))
      BY <1>1, <1>2, <2>2
  <2>4. CASE k < Len(calls[1])
    <3>1. msg' = msg /\ sent' = sent
        BY <2>4 DEF Push
    <3> QED
        BY <1>4, <1>5, <2>3, <2>4, <3>1
  <2>5. CASE ~(k < Len(calls[1])) /\ Len(calls) = 1
    <3>1. msg' = None /\ sent' = Append(sent, msg)
        BY <2>5, Zenon DEF Push
    <3> QED
        BY <1>4, <1>5, <2>3, <2>5, <3>1
  <2>6. CASE ~(k < Len(calls[1])) /\ Len(calls) # 1
    <3>1. msg' = msg /\ sent' = sent
        BY <2>6, Zenon DEF Push
    <3> QED
        BY <1>4, <1>5, <2>3, <2>6, <3>1
  <2> QED
      BY <2>4, <2>5, <2>6
<1> DEFINE c == Handed(calls, k)
<1> HIDE DEF p, c
<1>7. /\ sent \in Seq(Message) /\ n \in Nat /\ n <= Len(sent) /\ Len(sent) \in Nat
      /\ received \in Seq(Readings) /\ Len(sent) <= MaxSent
    BY LengthsType DEF IInv, TypeOK
<1>8. /\ Append(sent, msg) \in Seq(Message) /\ Len(Append(sent, msg)) = Len(sent) + 1
      /\ \A i \in 1..Len(sent) : Append(sent, msg)[i] = sent[i]
      /\ Append(sent, msg)[Len(sent) + 1] = msg
    BY <1>3, <1>7, AppendProperties
<1>9. TypeOK'
  <2>1. TypeOK
      BY DEF IInv
  <2>2. Reading' = Reading /\ Wanted' = Wanted
      BY <1>1 DEF Reading, Wanted
  <2>3. msg' \in Message \cup {None} /\ sent' \in Seq(Message)
      BY <1>3, <1>6, <1>7, <1>8
  <2>4. stream' \in Seq(Nat)
    <3>1. stream \in Seq(Nat)
        BY <2>1 DEF TypeOK
    <3>2. stream \o p \in Seq(Nat)
        BY <1>4, <3>1, ConcatProperties DEF p
    <3> QED
        BY <1>1, <3>2, EmptySeq DEF p
  <2>5. calls' \in Seq(Seq(Nat))
      BY <1>4, <1>5 DEF Calls, c
  <2>6. Len(sent') <= MaxSent
    <3>1. Len(sent) < MaxSent
        BY <1>1 DEF IInv, WriterInv
    <3>2. MaxSent \in Nat
        BY FrameAssumption
    <3> QED
        BY <1>6, <1>7, <1>8, <3>1, <3>2
  <2> QED
      BY <1>1, <2>1, <2>2, <2>3, <2>4, <2>5, <2>6 DEF TypeOK
<1>10. WriterInv'
  <2>1. Calls(calls)'
      BY <1>4, <1>5 DEF Calls, c
  <2>2. (calls' = <<>>) <=> (msg' = None)
      BY <1>1, <1>6
  <2>3. Writable(msg)' \/ msg' = None
      BY <1>1, <1>3, <1>6 DEF Writable, WithinLimits
  <2>4. \A i \in 1..Len(sent) : Writable(sent[i])
      BY DEF IInv, WriterInv
  <2>5. \A i \in 1..Len(sent') : Writable(sent[i])'
    <3>1. CASE sent' = sent
        BY <1>1, <2>4, <3>1 DEF Writable, WithinLimits
    <3>2. CASE sent' = Append(sent, msg)
      <4>1. SUFFICES ASSUME NEW i \in 1..Len(sent')
            PROVE  Writable(sent[i])'
          OBVIOUS
      <4>2. CASE i \in 1..Len(sent)
        <5>1. sent'[i] = sent[i] /\ Writable(sent[i])
            BY <1>8, <2>4, <3>2, <4>2
        <5> QED
            BY <1>1, <5>1 DEF Writable, WithinLimits
      <4>3. CASE i = Len(sent) + 1
        <5>1. sent'[i] = msg /\ Writable(msg)
            BY <1>3, <1>8, <3>2, <4>3
        <5> QED
            BY <1>1, <5>1 DEF Writable, WithinLimits
      <4>4. i \in 1..Len(sent) + 1
          BY <1>8, <3>2
      <4> QED
          BY <1>7, <4>2, <4>3, <4>4
    <3> QED
        BY <1>6, <3>1, <3>2
  <2>6. msg' # None => Len(sent') < MaxSent
      BY <1>1, <1>6 DEF IInv, WriterInv
  <2> QED
      BY <1>1, <2>1, <2>2, <2>3, <2>5, <2>6 DEF WriterInv
<1>11. n <= Len(sent') /\ (\A i \in 1..n : sent'[i] = sent[i])
       /\ (n < Len(sent) => n < Len(sent') /\ sent'[n + 1] = sent[n + 1])
  <2>1. CASE sent' = sent
      BY <1>7, <2>1
  <2>2. CASE sent' = Append(sent, msg)
    <3>1. n <= Len(Append(sent, msg))
        BY <1>7, <1>8
    <3>2. \A i \in 1..n : Append(sent, msg)[i] = sent[i] /\ i \in 1..Len(sent)
        BY <1>7, <1>8
    <3>3. n < Len(sent) => n < Len(Append(sent, msg)) /\ n + 1 \in 1..Len(sent)
        BY <1>7, <1>8
    <3> QED
        BY <1>8, <2>2, <3>1, <3>2, <3>3
  <2> QED
      BY <1>6, <2>1, <2>2
<1>12. DecodedAsSent'
    BY <1>1, <1>11 DEF IInv, DecodedAsSent, AsRead
<1>13. RefusedByLimits'
    BY <1>1, <1>11 DEF IInv, RefusedByLimits, Readable, WithinLimits
<1>14. StreamInv'
  <2>1. Reading' = Reading
      BY <1>1 DEF Reading
  <2> SUFFICES ASSUME Reading'
      PROVE  \E cut \in Seq(Nat), last \in Message \cup {None} :
                /\ Lies(Ahead', cut, Rest(sent', Len(received')), last)
                /\ last # None => Writable(last)'
                /\ wEnd' => last = msg' /\ cut = Together(calls')
      BY DEF StreamInv, UnderWay
  <2> DEFINE q == Rest(sent, n)
             cut == Together(c)
  <2>2. Lies(Ahead, Together(calls), q, msg)
      BY <1>1, <2>1 DEF IInv, StreamInv, UnderWay
  <2>3. cut \in Seq(Nat) /\ (cut = <<>> <=> c = <<>>) /\ Together(calls) = p \o cut
    <3>1. Calls(c) /\ Together(calls) = p \o Together(c)
        BY <1>4 DEF c, p
    <3> QED
        BY <3>1, TogetherType
  <2>4. p \in Seq(Nat) /\ Ahead \in Seq(Nat)
      BY <1>4, AheadType DEF IInv, p
  <2> HIDE DEF q, cut
  <2>5. Ahead' = Ahead \o p
    <3> DEFINE h == HeadRead(at, head)
    <3>1. h \in Seq(Nat) /\ buf \in Seq(Nat) /\ stream \in Seq(Nat) /\ buf \o stream \in Seq(Nat)
        BY AheadType DEF IInv
    <3>2. Ahead = h \o (buf \o stream) /\ Ahead' = h \o (buf \o (stream \o p))
        BY <1>1, <2>1 DEF Ahead, HeadRead, p
    <3> DEFINE bs == buf \o stream
    <3> HIDE DEF h, bs
    <3>3. buf \o (stream \o p) = bs \o p
      <4> HIDE DEF p
      <4>1. buf \in Seq(Nat) /\ stream \in Seq(Nat) /\ p \in Seq(Nat)
          BY <2>4, <3>1
      <4>2. (buf \o stream) \o p = buf \o (stream \o p)
          BY <4>1, ConcatThree, Zenon
      <4> QED
          BY <4>2 DEF bs
    <3>4. h \in Seq(Nat) /\ bs \in Seq(Nat) /\ Ahead = h \o bs
        BY <3>1, <3>2 DEF h, bs
    <3>5. (h \o bs) \o p = h \o (bs \o p)
      <4> HIDE DEF p
      <4>1. h \in Seq(Nat) /\ bs \in Seq(Nat) /\ p \in Seq(Nat)
          BY <2>4, <3>4
      <4> QED
          BY <4>1, ConcatThree, Zenon
    <3> QED
        BY <3>2, <3>3, <3>4, <3>5
  <2>6. Chain(Ahead' \o cut, Append(q, msg))
    <3>1. Chain(Ahead \o (p \o cut), Append(q, msg))
        BY <1>1, <2>2, <2>3 DEF Lies, Follows
    <3>2. (Ahead \o p) \o cut = Ahead \o (p \o cut)
      <4> DEFINE a == Ahead
      <4> HIDE DEF a
      <4>1. a \in Seq(Nat)
          BY <2>4 DEF a
      <4>2. (a \o p) \o cut = a \o (p \o cut)
          BY <2>3, <2>4, <4>1, ConcatThree
      <4> QED
          BY <4>2 DEF a
    <3> QED
        BY <2>5, <3>1, <3>2
  <2>7. Writable(msg)'  \/ msg' = None
      BY <1>1, <1>3, <1>6 DEF Writable, WithinLimits
  <2>8. CASE calls' = <<>>
    <3>1. cut = <<>> /\ msg' = None /\ sent' = Append(sent, msg)
        BY <1>5, <1>6, <2>3, <2>8 DEF c
    <3>2. Rest(sent', Len(received')) = Append(q, msg)
      <4>1. Rest(Append(sent, msg), n) = Append(Rest(sent, n), msg)
          BY <1>3, <1>7, RestAppend
      <4> QED
          BY <1>1, <3>1, <4>1 DEF q
    <3>3. Lies(Ahead', <<>>, Append(q, msg), None)
        BY <2>6, <3>1, EmptySeq DEF Lies, Follows
    <3>4. Together(calls') = <<>>
        BY <2>8 DEF Together
    <3> QED
        BY <3>1, <3>2, <3>3, <3>4, EmptySeq
  <2>9. CASE calls' # <<>>
    <3>1. cut # <<>> /\ msg' = msg /\ sent' = sent /\ Together(calls') = cut
        BY <1>5, <1>6, <2>3, <2>9 DEF c, cut
    <3>2. Rest(sent', Len(received')) = q
        BY <1>1, <3>1 DEF q
    <3>3. Len(cut) <= Len(Frame(msg))
      <4>1. Len(p \o cut) <= Len(Frame(msg))
          BY <1>1, <2>2, <2>3 DEF Lies
      <4>2. Len(p \o cut) = Len(p) + Len(cut) /\ Len(p) \in Nat /\ Len(cut) \in Nat
          BY <2>3, <2>4
      <4>3. Len(Frame(msg)) \in Nat
          BY <1>3, FrameType
      <4> QED
          BY <4>1, <4>2, <4>3
    <3>4. Lies(Ahead', cut, q, msg)
        BY <1>1, <1>3, <2>3, <2>6, <3>1, <3>3 DEF Lies, Follows
    <3>5. Writable(msg)'
        BY <1>1, <1>3, <3>1 DEF Writable, WithinLimits
    <3> QED
        BY <1>3, <2>3, <3>1, <3>2, <3>4, <3>5
  <2> QED
      BY <2>8, <2>9
<1> QED
    BY <1>9, <1>10, <1>12, <1>13, <1>14 DEF IInv

\* receive_exact takes what it wants from the front and leaves the rest.
Left == SubSeq(stream, Wanted - Len(buf) + 1, Len(stream))

\* What receive_exact has collected and what is left behind it are what
\* the reader had and the stream.
LEMMA WholePieces ==
    ASSUME TypeOK, Complete
    PROVE  /\ Whole \in Seq(Nat) /\ Left \in Seq(Nat)
           /\ Wanted \in Nat /\ Len(Whole) = Wanted
           /\ buf \o stream = Whole \o Left
<1> DEFINE k == Wanted - Len(buf)
           a == SubSeq(stream, 1, k)
           b == SubSeq(stream, k + 1, Len(stream))
<1>1. Wanted \in Nat
    BY DEF TypeOK, Wanted, HeaderLen
<1>2. buf \in Seq(Nat) /\ stream \in Seq(Nat) /\ Len(buf) \in Nat /\ Len(stream) \in Nat
    BY DEF TypeOK
<1>3. k \in Nat /\ k <= Len(stream) /\ Len(buf) + k = Wanted
    BY <1>1, <1>2 DEF Complete
<1>4. /\ a \in Seq(Nat) /\ Len(a) = k /\ b \in Seq(Nat) /\ stream = a \o b
  <2> HIDE DEF k
  <2> QED
      BY <1>2, <1>3, TwoPieces
<1>5. Whole = buf \o a /\ Left = b
    BY DEF Whole, Left
<1> HIDE DEF k, a, b
<1>6. buf \o a \in Seq(Nat) /\ Len(buf \o a) = Len(buf) + Len(a)
    BY <1>2, <1>4, ConcatProperties
<1>7. (buf \o a) \o b = buf \o (a \o b)
  <2>1. buf \in Seq(Nat) /\ a \in Seq(Nat) /\ b \in Seq(Nat)
      BY <1>2, <1>4
  <2> QED
      BY <2>1, SMT
<1> QED
    BY <1>1, <1>3, <1>4, <1>5, <1>6, <1>7

\* A part that is not yet all that is wanted moves from stream to buf.
LEMMA PartInv ==
    ASSUME IInv, NEW k \in 1..PayloadMax, ReceivePart(k)
    PROVE  IInv'
<1> DEFINE a == SubSeq(stream, 1, k)
           b == SubSeq(stream, k + 1, Len(stream))
<1>1. /\ Reading /\ k <= Len(stream) /\ Len(buf) + k < Wanted
      /\ buf' = buf \o a /\ stream' = b
      /\ UNCHANGED <<writer, reader, msg, calls, wEnd, at, head, sent, received>>
    BY DEF ReceivePart, Part
<1>2. k \in Nat /\ stream \in Seq(Nat) /\ buf \in Seq(Nat)
    BY FrameAssumption DEF IInv, TypeOK
<1>3. a \in Seq(Nat) /\ Len(a) = k /\ b \in Seq(Nat) /\ stream = a \o b
    BY <1>1, <1>2, TwoPieces
<1> HIDE DEF a, b
<1>4. buf \o a \in Seq(Nat) /\ Len(buf \o a) = Len(buf) + k
    BY <1>2, <1>3, ConcatProperties
<1>5. Reading' = Reading /\ Wanted' = Wanted
    BY <1>1 DEF Reading, Wanted
<1>6. TypeOK'
  <2>1. TypeOK
      BY DEF IInv
  <2> QED
      BY <1>1, <1>3, <1>4, <1>5, <2>1 DEF TypeOK
<1>7. WriterInv'
    BY <1>1, WriterKept DEF IInv
<1>8. DecodedAsSent' /\ RefusedByLimits'
    BY <1>1, SentKept DEF IInv
<1>9. StreamInv'
  <2>1. Ahead' = Ahead
    <3>1. (buf \o a) \o b = buf \o (a \o b)
        BY <1>2, <1>3, ConcatThree
    <3>2. buf' \o stream' = buf \o stream
        BY <1>1, <1>3, <3>1
    <3> QED
        BY <1>1, <3>2 DEF Ahead, HeadRead
  <2>2. \A m : Writable(m)' <=> Writable(m)
      BY <1>1 DEF Writable, WithinLimits
  <2>3. PICK cut \in Seq(Nat), last \in Message \cup {None} :
           /\ Lies(Ahead, cut, Rest(sent, Len(received)), last)
           /\ last # None => Writable(last)
           /\ wEnd => last = msg /\ cut = Together(calls)
      BY <1>1 DEF IInv, StreamInv, UnderWay
  <2>4. /\ Lies(Ahead', cut, Rest(sent', Len(received')), last)
        /\ last # None => Writable(last)'
        /\ wEnd' => last = msg' /\ cut = Together(calls')
      BY <1>1, <2>1, <2>2, <2>3
  <2> QED
      BY <2>4 DEF StreamInv, UnderWay
<1> QED
    BY <1>6, <1>7, <1>8, <1>9 DEF IInv

\* What is at the front of what is ahead, with a header that says so, is the
\* first message that was handed over and not decoded.
LEMMA Decoded ==
    ASSUME IInv, Reading, NEW t \in Type, NEW h \in Seq(Nat), NEW payload \in Seq(Nat),
           NEW R \in Seq(Nat), Len(h) = 4, h[3] = WireType[t], h[4] = Len(payload),
           Ahead = (h \o payload) \o R
    PROVE  LET n == Len(received)
               m == sent[n + 1]
               r == Parse(t, payload)
           IN  /\ n < Len(sent) /\ m \in Message /\ Writable(m)
               /\ r.ok <=> Readable(m)
               /\ r.ok => [type |-> t, texts |-> r.texts, rest |-> r.rest] = AsRead(m)
               /\ UnderWay(R, n + 1)
<1> DEFINE n == Len(received)
           m == sent[n + 1]
           q == Rest(sent, n)
           F == h \o payload
<1>1. PICK cut \in Seq(Nat), last \in Message \cup {None} :
         /\ Lies(Ahead, cut, q, last)
         /\ last # None => Writable(last)
         /\ wEnd => last = msg /\ cut = Together(calls)
    BY DEF IInv, StreamInv, UnderWay
<1>2. sent \in Seq(Message) /\ n \in Nat /\ Len(sent) \in Nat /\ n <= Len(sent)
    BY LengthsType DEF IInv
<1>3. q \in Seq(Message) /\ Len(q) = Len(sent) - n
    BY <1>2, RestType
<1>4. /\ F \in Seq(Nat) /\ Len(F) >= 4 /\ Len(F) = 4 + F[4]
  <2>1. /\ F \in Seq(Nat) /\ Len(F) = Len(h) + Len(payload) /\ Len(payload) \in Nat
        /\ \A i \in 1..Len(h) : F[i] = h[i]
      BY Parts
  <2> HIDE DEF F
  <2>2. F[4] = h[4]
      BY <2>1
  <2> QED
      BY <2>1, <2>2
<1>5. /\ q # <<>> /\ q[1] \in Message /\ F = Frame(q[1])
      /\ Lies(R, cut, Tail(q), last)
  <2> HIDE DEF F, q
  <2> QED
      BY <1>1, <1>3, <1>4, FirstFrame DEF F
<1>6. n < Len(sent)
  <2>1. Len(q) # 0
    <3> HIDE DEF q
    <3> QED
        BY <1>3, <1>5
  <2> DEFINE l == Len(sent)
  <2> HIDE DEF l, q, n
  <2>2. Len(q) = l - n /\ n \in Nat /\ l \in Nat /\ n <= l
      BY <1>2, <1>3 DEF l
  <2>3. n < l
      BY <2>1, <2>2
  <2> QED
      BY <2>3 DEF l, n
<1>7. q[1] = m /\ m \in Message /\ Tail(q) = Rest(sent, n + 1)
    BY <1>2, <1>6, RestTail
<1>8. h = Header(m) /\ payload = Payload(m)
  <2>1. /\ Header(m) \in Seq(Nat) /\ Len(Header(m)) = 4 /\ Payload(m) \in Seq(Nat)
      BY <1>7, HeaderType, PayloadType DEF HeaderLen
  <2>2. F = Header(m) \o Payload(m)
      BY <1>5, <1>7 DEF Frame
  <2>3. SubSeq(F, 1, 4) = h /\ SubSeq(F, 4 + 1, Len(F)) = payload
    <3>1. SubSeq(F, 1, Len(h)) = h /\ SubSeq(F, Len(h) + 1, Len(F)) = payload
        BY Parts
    <3> HIDE DEF F
    <3> QED
        BY <3>1
  <2> DEFINE g == Header(m)
             p == Payload(m)
  <2> HIDE DEF g, p, F
  <2>4. SubSeq(F, 1, 4) = g /\ SubSeq(F, 4 + 1, Len(F)) = p
    <3>1. g \in Seq(Nat) /\ p \in Seq(Nat) /\ Len(g) = 4 /\ F = g \o p
        BY <2>1, <2>2 DEF g, p
    <3>2. SubSeq(g \o p, 1, Len(g)) = g /\ SubSeq(g \o p, Len(g) + 1, Len(g \o p)) = p
        BY <3>1, Parts
    <3>3. SubSeq(F, 1, Len(g)) = g /\ SubSeq(F, Len(g) + 1, Len(F)) = p
        BY <3>1, <3>2, Zenon
    <3> QED
        BY <3>1, <3>3
  <2> QED
      BY <2>3, <2>4 DEF g, p
<1>9. t = m.type
  <2>1. m.type \in Type
      BY <1>7, FrameAssumption
  <2>2. Header(m)[3] = WireType[m.type]
      BY DEF Header
  <2> QED
      BY <1>8, <2>1, <2>2, WireTypeInjective
<1>10. Writable(m)
  <2>1. n + 1 \in 1..Len(sent)
    <3> DEFINE l == Len(sent)
    <3> HIDE DEF l, n
    <3>1. n + 1 \in 1..l
        BY <1>2, <1>6 DEF l
    <3> QED
        BY <3>1 DEF l
  <2> QED
      BY <2>1 DEF IInv, WriterInv
<1> DEFINE r == Parse(t, payload)
<1>11. /\ r.ok <=> Readable(m)
       /\ r.ok => [type |-> t, texts |-> r.texts, rest |-> r.rest] = AsRead(m)
  <2>1. reader \in {"desktop", "phone"}
      BY DEF IInv, TypeOK
  <2> HIDE DEF m
  <2> QED
      BY <1>7, <1>8, <1>9, <2>1, RoundTrip
<1>12. UnderWay(R, n + 1)
    BY <1>1, <1>5, <1>7 DEF UnderWay
<1> QED
    BY <1>6, <1>7, <1>10, <1>11, <1>12

\* The reader was given a whole frame: it decodes the next message, or refuses it.
Next1 == AsRead(sent[Len(received) + 1])
TakesNext ==
    /\ Len(received) < Len(sent)
    /\ \/ at' = "header" /\ received' = Append(received, Next1)
       \/ at' = "refused" /\ received' = received

\* A whole frame of type t at the front is that of the next message, and
\* decoding or refusing it takes that message off the chain.
LEMMA DeliverInv ==
    ASSUME IInv, Reading, NEW t \in Type, NEW h \in Seq(Nat), NEW payload \in Seq(Nat),
           Len(h) = 4, h[3] = WireType[t], h[4] = Len(payload),
           Left \in Seq(Nat), Ahead = (h \o payload) \o Left,
           Deliver(t, payload),
           head' \in [type : Type, length : 0..PayloadMax],
           UNCHANGED <<writer, reader, msg, calls, wEnd, sent>>
    PROVE  IInv' /\ TakesNext
<1> DEFINE n == Len(received)
           m == sent[n + 1]
           r == Parse(t, payload)
<1>1. /\ n < Len(sent) /\ m \in Message /\ Writable(m)
      /\ r.ok <=> Readable(m)
      /\ r.ok => [type |-> t, texts |-> r.texts, rest |-> r.rest] = AsRead(m)
    BY Decoded
<1>2. PICK cut \in Seq(Nat), last \in Message \cup {None} :
         /\ Lies(Left, cut, Rest(sent, n + 1), last)
         /\ last # None => Writable(last)
         /\ wEnd => last = msg /\ cut = Together(calls)
  <2>1. UnderWay(Left, n + 1)
      BY Decoded
  <2> QED
      BY <2>1 DEF UnderWay
<1>3. /\ sent \in Seq(Message) /\ received \in Seq(Readings) /\ n \in Nat
      /\ Len(sent) \in Nat /\ \A i \in 1..n : received[i] = AsRead(sent[i])
    BY LengthsType DEF IInv, DecodedAsSent
<1>4. \/ /\ r.ok /\ received' = Append(received, AsRead(m)) /\ at' = "header"
         /\ buf' = <<>> /\ stream' = Left
      \/ /\ ~r.ok /\ received' = received /\ at' = "refused"
         /\ buf' = <<>> /\ stream' = <<>>
  <2>1. CASE r.ok
    <3>1. received' = Append(received, AsRead(m))
        BY <1>1, <2>1 DEF Deliver
    <3>2. at' = "header" /\ TakeWhole
        BY <2>1 DEF Deliver
    <3> QED
        BY <2>1, <3>1, <3>2 DEF TakeWhole, Left
  <2>2. CASE ~r.ok
    <3>1. Stops("refused")
        BY <2>2 DEF Deliver
    <3> QED
        BY <2>2, <3>1 DEF Stops
  <2> QED
      BY <2>1, <2>2
<1> HIDE DEF r
<1>5. TakesNext
    BY <1>1, <1>4 DEF TakesNext, Next1
<1>6. WriterInv'
    BY WriterKept DEF IInv
<1> DEFINE d == AsRead(m)
<1>7. /\ Append(received, d) \in Seq(Readings) /\ Len(Append(received, d)) = n + 1
      /\ \A i \in 1..n : Append(received, d)[i] = received[i]
      /\ Append(received, d)[n + 1] = d
  <2>1. d \in Readings
    <3>1. reader \in {"desktop", "phone"}
        BY DEF IInv, TypeOK
    <3> HIDE DEF m
    <3> QED
        BY <1>1, <3>1, ReadingFields
  <2> HIDE DEF d
  <2> QED
      BY <1>3, <2>1, AppendProperties
<1>8. TypeOK'
  <2>1. TypeOK
      BY DEF IInv
  <2>2. received' \in Seq(Readings)
      BY <1>3, <1>4, <1>7
  <2>3. /\ at' \in {"header", "payload", "ended", "reset", "refused", "closed"}
        /\ buf' \in Seq(Nat) /\ stream' \in Seq(Nat)
      BY <1>4, EmptySeq
  <2>4. Reading' => Len(buf') < Wanted'
      BY <1>4 DEF Reading, Wanted, HeaderLen
  <2> QED
      BY <2>1, <2>2, <2>3, <2>4 DEF TypeOK
<1>9. CASE r.ok /\ received' = Append(received, d) /\ at' = "header" /\ buf' = <<>> /\ stream' = Left
  <2>1. Len(received') = n + 1 /\ n + 1 <= Len(sent)
    <3> DEFINE l == Len(sent)
    <3> HIDE DEF l, n
    <3>1. n + 1 <= l
        BY <1>1, <1>3 DEF l
    <3> QED
        BY <1>7, <1>9, <3>1 DEF l
  <2>2. DecodedAsSent'
    <3>1. reader' = reader /\ sent' = sent
        OBVIOUS
    <3>2. \A i \in 1..n : received'[i] = AsRead(sent[i])
        BY <1>3, <1>7, <1>9
    <3>3. received'[n + 1] = AsRead(sent[n + 1])
        BY <1>7, <1>9
    <3>4. \A i \in 1..n + 1 : received'[i] = AsRead(sent[i])
      <4>1. n \in Nat
          BY <1>3
      <4> HIDE DEF n, m, d
      <4>2. \A i \in 1..n + 1 : i = n + 1 \/ i \in 1..n
          BY <4>1
      <4> QED
          BY <3>2, <3>3, <4>2
    <3> QED
        BY <2>1, <3>1, <3>4 DEF DecodedAsSent, AsRead
  <2>3. RefusedByLimits'
      BY <1>9 DEF RefusedByLimits
  <2>4. StreamInv'
    <3>1. Ahead' = Left
      <4>1. Ahead' = <<>> \o (<<>> \o Left)
          BY <1>9 DEF Ahead, HeadRead
      <4> DEFINE R == Left
      <4> HIDE DEF R
      <4>2. <<>> \o R = R
          BY ConcatEmptySeq DEF R
      <4> QED
          BY <4>1, <4>2 DEF R
    <3>2. Writable(last)' <=> Writable(last)
        BY DEF Writable, WithinLimits
    <3>3. /\ Lies(Ahead', cut, Rest(sent', Len(received')), last)
          /\ last # None => Writable(last)'
          /\ wEnd' => last = msg' /\ cut = Together(calls')
        BY <1>2, <2>1, <3>1, <3>2
    <3> QED
        BY <3>3 DEF StreamInv, UnderWay
  <2> QED
      BY <1>5, <1>6, <1>8, <2>2, <2>3, <2>4 DEF IInv
<1>10. CASE ~r.ok /\ received' = received /\ at' = "refused" /\ buf' = <<>> /\ stream' = <<>>
  <2>1. DecodedAsSent'
      BY <1>10 DEF IInv, DecodedAsSent, AsRead
  <2>2. ~Readable(m) /\ writer = "phone"
    <3>1. ~Readable(m)
        BY <1>1, <1>10
    <3>2. writer \in {"desktop", "phone"} /\ reader \in {"desktop", "phone"}
        BY DEF IInv, TypeOK
    <3>3. WithinLimits(m) => Readable(m)
      <4> HIDE DEF m
      <4> QED
          BY <1>1, <3>2, WithinReadable
    <3> QED
        BY <1>1, <3>1, <3>2, <3>3 DEF Writable
  <2>3. RefusedByLimits'
      BY <1>1, <1>10, <2>2 DEF RefusedByLimits, Readable, WithinLimits
  <2>4. StreamInv'
      BY <1>10 DEF StreamInv, UnderWay, Reading
  <2> QED
      BY <1>5, <1>6, <1>8, <2>1, <2>3, <2>4 DEF IInv
<1> QED
    BY <1>4, <1>9, <1>10

\* A header is complete: the reader goes on with its payload, or takes a
\* message that has none.
LEMMA HeaderInv ==
    ASSUME IInv, ReceiveHeader
    PROVE  IInv' /\ \/ TakesNext
                    \/ Reading /\ Reading' /\ received' = received
<1> DEFINE h == Whole
           t == TypeOf(h)
<1>1. at = "header" /\ Complete /\ Reading
    BY DEF ReceiveHeader, Complete
<1>2. /\ h \in Seq(Nat) /\ Left \in Seq(Nat) /\ Len(h) = 4 /\ buf \o stream = h \o Left
    BY <1>1, WholePieces DEF IInv, Wanted, HeaderLen
<1>3. Ahead = h \o Left
  <2>1. Ahead = <<>> \o (buf \o stream)
      BY <1>1 DEF Ahead, HeadRead
  <2>2. buf \o stream \in Seq(Nat)
      BY AheadType DEF IInv
  <2> DEFINE bs == buf \o stream
  <2> HIDE DEF bs, h
  <2>3. <<>> \o bs = bs
      BY <2>2, ConcatEmptySeq DEF bs
  <2> QED
      BY <1>2, <2>1, <2>3 DEF bs
<1>4. ValidHeader(h)
  <2>1. PICK cut \in Seq(Nat), last \in Message \cup {None} :
           /\ Lies(Ahead, cut, Rest(sent, Len(received)), last)
           /\ last # None => Writable(last)
      BY <1>1 DEF IInv, StreamInv, UnderWay
  <2>2. /\ sent \in Seq(Message) /\ Len(sent) \in Nat /\ Len(received) \in Nat
        /\ Len(received) <= Len(sent)
      BY LengthsType DEF IInv
  <2> DEFINE q == Rest(sent, Len(received))
  <2>3. /\ q \in Seq(Message) /\ Len(q) = Len(sent) - Len(received)
        /\ \A i \in 1..Len(sent) - Len(received) : q[i] = sent[Len(received) + i]
      BY <2>2, RestType
  <2> HIDE DEF q
  <2>4. PICK m \in Message :
           h = Header(m) /\ (m = last \/ \E i \in 1..Len(q) : m = q[i])
    <3> HIDE DEF h
    <3> QED
        BY <1>2, <1>3, <2>1, <2>3, FirstHeader DEF q
  <2>5. \A i \in 1..Len(q) : Writable(q[i])
    <3>1. \A i \in 1..Len(sent) : Writable(sent[i])
        BY DEF IInv, WriterInv
    <3>2. \A i \in 1..Len(q) : Len(received) + i \in 1..Len(sent)
        BY <2>2, <2>3
    <3> QED
        BY <2>3, <3>1, <3>2
  <2>6. Writable(m)
      BY <2>1, <2>4, <2>5, FrameAssumption
  <2>7. Len(Payload(m)) <= PayloadMax
      BY <2>6 DEF Writable
  <2> QED
      BY <2>4, <2>7, HeaderType
<1>5. t \in Type /\ WireType[t] = h[3] /\ h[1] = kMagic /\ h[2] = kVersion /\ h[4] <= PayloadMax
    BY <1>4 DEF ValidHeader, TypeOf
<1>6. h[4] \in Nat
  <2> HIDE DEF h
  <2>1. 4 \in 1..Len(h)
      BY <1>2
  <2> QED
      BY <1>2, <2>1, ElementOfSeq
<1>7. /\ head' = [type |-> t, length |-> h[4]]
      /\ IF h[4] = 0 THEN Deliver(t, <<>>)
         ELSE at' = "payload" /\ TakeWhole /\ received' = received
      /\ UNCHANGED <<writer, reader, msg, calls, wEnd, sent>>
    BY <1>4 DEF ReceiveHeader, NoPayload
<1>8. head' \in [type : Type, length : 0..PayloadMax]
    BY <1>5, <1>6, <1>7, FrameAssumption
<1> HIDE DEF t, h
<1>9. CASE h[4] = 0
  <2>1. <<>> \in Seq(Nat) /\ Len(<<>>) = 0 /\ h \o <<>> = h
      BY <1>2, ConcatEmptySeq, EmptySeq
  <2>2. Ahead = (h \o <<>>) \o Left /\ h[4] = Len(<<>>)
      BY <1>3, <1>9, <2>1
  <2>3. Deliver(t, <<>>)
      BY <1>7, <1>9
  <2> QED
      BY <1>1, <1>2, <1>5, <1>7, <1>8, <2>1, <2>2, <2>3, DeliverInv
<1>10. CASE h[4] # 0
  <2>1. /\ at' = "payload" /\ received' = received /\ buf' = <<>> /\ stream' = Left
        /\ Reading'
      BY <1>7, <1>10 DEF TakeWhole, Left, Reading
  <2>2. TypeOK'
    <3>1. TypeOK
        BY DEF IInv
    <3>2. Reading' => Len(buf') < Wanted'
      <4>1. Wanted' = h[4] /\ Len(buf') = 0
          BY <1>7, <2>1 DEF Wanted
      <4> QED
          BY <1>6, <1>10, <4>1
    <3>3. buf' \in Seq(Nat) /\ stream' \in Seq(Nat)
        BY <1>2, <2>1, EmptySeq
    <3> QED
        BY <1>7, <1>8, <2>1, <3>1, <3>2, <3>3 DEF TypeOK
  <2>3. WriterInv'
      BY <1>7, WriterKept DEF IInv
  <2>4. DecodedAsSent' /\ RefusedByLimits'
      BY <1>7, <2>1, SentKept DEF IInv
  <2>5. StreamInv'
    <3>1. Ahead' = Ahead
      <4> DEFINE g == <<kMagic, kVersion, WireType[t], h[4]>>
      <4>1. Ahead' = g \o (<<>> \o Left)
          BY <1>7, <2>1 DEF Ahead, HeadRead
      <4>2. g = h
        <5>1. g \in Seq(Nat) /\ Len(g) = 4
            BY <1>5, <1>6, WireTypeInjective DEF kMagic, kVersion
        <5>2. \A i \in 1..4 : g[i] = h[i]
            BY <1>5
        <5> HIDE DEF g
        <5> QED
            BY <1>2, <5>1, <5>2, SeqEqual
      <4> HIDE DEF g
      <4> DEFINE R == Left
      <4> HIDE DEF R
      <4>3. <<>> \o R = R
          BY <1>2, ConcatEmptySeq DEF R
      <4> QED
          BY <1>3, <4>1, <4>2, <4>3 DEF R
    <3>2. \A m : Writable(m)' <=> Writable(m)
        BY <1>7 DEF Writable, WithinLimits
    <3>3. PICK cut \in Seq(Nat), last \in Message \cup {None} :
             /\ Lies(Ahead, cut, Rest(sent, Len(received)), last)
             /\ last # None => Writable(last)
             /\ wEnd => last = msg /\ cut = Together(calls)
        BY <1>1 DEF IInv, StreamInv, UnderWay
    <3>4. /\ Lies(Ahead', cut, Rest(sent', Len(received')), last)
          /\ last # None => Writable(last)'
          /\ wEnd' => last = msg' /\ cut = Together(calls')
        BY <1>7, <2>1, <3>1, <3>2, <3>3
    <3> QED
        BY <3>4 DEF StreamInv, UnderWay
  <2> QED
      BY <1>1, <2>1, <2>2, <2>3, <2>4, <2>5 DEF IInv
<1> QED
    BY <1>9, <1>10

\* A payload is complete: the reader takes the message.
LEMMA PayloadInv ==
    ASSUME IInv, ReceivePayload
    PROVE  IInv' /\ TakesNext
<1> DEFINE p == Whole
           h == HeadRead(at, head)
           t == head.type
<1>1. /\ at = "payload" /\ Complete /\ Reading /\ Deliver(t, p)
      /\ UNCHANGED <<writer, reader, msg, calls, wEnd, head, sent>>
    BY DEF ReceivePayload, Complete
<1>2. /\ p \in Seq(Nat) /\ Left \in Seq(Nat) /\ Len(p) = head.length
      /\ buf \o stream = p \o Left
    BY <1>1, WholePieces DEF IInv, Wanted
<1>3. t \in Type /\ head \in [type : Type, length : 0..PayloadMax]
    BY DEF IInv, TypeOK
<1>4. h \in Seq(Nat) /\ Len(h) = 4 /\ h[3] = WireType[t] /\ h[4] = Len(p)
  <2>1. h \in Seq(Nat)
      BY AheadType DEF IInv
  <2>2. h = <<kMagic, kVersion, WireType[t], head.length>>
      BY <1>1 DEF HeadRead
  <2> QED
      BY <1>2, <2>1, <2>2
<1> HIDE DEF p, h
<1>5. Ahead = (h \o p) \o Left
  <2>1. Ahead = h \o (p \o Left)
      BY <1>2 DEF Ahead, h
  <2> DEFINE R == Left
  <2> HIDE DEF R
  <2>2. (h \o p) \o R = h \o (p \o R)
      BY <1>2, <1>4, ConcatThree DEF R
  <2> QED
      BY <2>1, <2>2 DEF R
<1> QED
    BY <1>1, <1>2, <1>3, <1>4, <1>5, DeliverInv

\* Every step keeps the invariant.
LEMMA NextInv == IInv /\ [Next]_vars => IInv'
<1> SUFFICES ASSUME IInv, [Next]_vars PROVE IInv'
    OBVIOUS
<1>1. ASSUME NEW m \in Message, Send(m) PROVE IInv'
    BY <1>1, SendInv
<1>2. ASSUME NEW k \in 1..PayloadMax, Push(k) PROVE IInv'
    BY <1>2, PushInv
<1>3. ASSUME NEW k \in 1..PayloadMax, ReceivePart(k) PROVE IInv'
    BY <1>3, PartInv
<1>4. CASE ReceiveHeader
    BY <1>4, HeaderInv
<1>5. CASE ReceivePayload
    BY <1>5, PayloadInv
<1>6. CASE EndOfStream
    BY <1>6, StopInv DEF EndOfStream
<1>7. CASE ReaderEnds
    BY <1>7, StopInv DEF ReaderEnds
<1>8. CASE Reset
    BY <1>8, StopInv DEF Reset
<1>9. CASE WriterEnds
    BY <1>9, WriterEndsInv
<1>10. CASE UNCHANGED vars
  <2>1. UNCHANGED <<writer, reader, msg, calls, stream, wEnd, at, head, buf, sent, received>>
      BY <1>10 DEF vars
  <2>2. TypeOK'
      BY <2>1 DEF IInv, TypeOK, Reading, Wanted
  <2>3. WriterInv' /\ DecodedAsSent' /\ RefusedByLimits'
      BY <2>1, WriterKept, SentKept DEF IInv
  <2>4. StreamInv'
    <3>1. Ahead' = Ahead /\ Reading' = Reading
        BY <2>1 DEF Ahead, HeadRead, Reading
    <3>2. \A m : Writable(m)' <=> Writable(m)
        BY <2>1 DEF Writable, WithinLimits
    <3> QED
        BY <2>1, <3>1, <3>2 DEF IInv, StreamInv, UnderWay
  <2> QED
      BY <2>2, <2>3, <2>4 DEF IInv
<1> QED
    BY <1>1, <1>2, <1>3, <1>4, <1>5, <1>6, <1>7, <1>8, <1>9, <1>10
       DEF Next, WriterStep, ReaderStep

\* So it holds always.
LEMMA IInvHolds == Spec => []IInv
BY InitInv, NextInv, PTL DEF Spec

-----------------------------------------------------------------------------
(* What follows *)

\* Every variable of FrameStream keeps its type, and receive_exact never has
\* more than it wants, for all limits and messages.
THEOREM TypeCorrect == Spec => []TypeOK
<1>1. IInv => TypeOK
    BY DEF IInv
<1> QED
    BY <1>1, IInvHolds, PTL

\* However the stream cuts the frames up, what is decoded is what was sent, with
\* its texts as the reader's program reads them.
THEOREM DecodesWhatWasSent == Spec => []DecodedAsSent
<1>1. IInv => DecodedAsSent
    BY DEF IInv
<1> QED
    BY <1>1, IInvHolds, PTL

\* A reader refuses a frame only for a string that it does not accept and that a
\* phone wrote.
THEOREM RefusesByLimits == Spec => []RefusedByLimits
<1>1. IInv => RefusedByLimits
    BY DEF IInv
<1> QED
    BY <1>1, IInvHolds, PTL

\* A reader that finds the stream empty lacks a part of a frame, so that what it
\* has not decoded was not handed over whole.
LEMMA NothingToTake ==
    ASSUME IInv, Reading, stream = <<>>
    PROVE  /\ Rest(sent, Len(received)) = <<>>
           /\ Ahead \in Seq(Nat) /\ Ahead = HeadRead(at, head) \o buf
<1>1. PICK cut \in Seq(Nat), last \in Message \cup {None} :
         Lies(Ahead, cut, Rest(sent, Len(received)), last)
    BY DEF IInv, StreamInv, UnderWay
<1>2. Rest(sent, Len(received)) \in Seq(Message)
    BY LengthsType, RestType DEF IInv
<1>3. Ahead \in Seq(Nat) /\ buf \in Seq(Nat) /\ Len(buf) < Wanted
    BY AheadType DEF IInv, TypeOK
<1>4. Ahead = HeadRead(at, head) \o buf
  <2>1. buf \o <<>> = buf
      BY <1>3, ConcatEmptySeq
  <2> QED
      BY <2>1 DEF Ahead
<1>5. Len(Ahead) < 4 \/ Len(Ahead) < 4 + Ahead[4]
  <2>1. CASE at = "header"
    <3>1. Ahead = buf
        BY <1>3, <1>4, <2>1, ConcatEmptySeq DEF HeadRead
    <3> QED
        BY <1>3, <2>1, <3>1 DEF Wanted, HeaderLen
  <2>2. CASE at = "payload"
    <3> DEFINE h == HeadRead(at, head)
    <3>1. h \in Seq(Nat) /\ Len(h) = 4 /\ h[4] = head.length /\ head.length \in Nat
      <4>1. h \in Seq(Nat) /\ head.length \in Nat
          BY AheadType DEF IInv, TypeOK
      <4>2. h = <<kMagic, kVersion, WireType[head.type], head.length>>
          BY <2>2 DEF HeadRead
      <4> QED
          BY <4>1, <4>2
    <3> HIDE DEF h
    <3>2. /\ Len(h \o buf) = Len(h) + Len(buf) /\ Len(buf) \in Nat
          /\ \A i \in 1..Len(h) : (h \o buf)[i] = h[i]
        BY <1>3, <3>1, Parts
    <3>3. (h \o buf)[4] = h[4]
        BY <3>1, <3>2
    <3>4. Len(buf) < head.length
        BY <1>3, <2>2 DEF Wanted
    <3>5. Len(h \o buf) < 4 + (h \o buf)[4]
        BY <3>1, <3>2, <3>3, <3>4
    <3> QED
        BY <1>4, <3>5 DEF h
  <2> QED
      BY <2>1, <2>2 DEF Reading
<1>6. Rest(sent, Len(received)) = <<>>
    BY <1>1, <1>2, <1>3, <1>5, NothingWhole
<1> QED
    BY <1>3, <1>4, <1>6

\* A read that finds the stream empty has decoded all that was handed over, and
\* is within a frame only while its writer is, or has left it there.
THEOREM NoReadIsLeft == Spec => []NothingHalfRead
<1>1. ASSUME IInv, Reading, stream = <<>>
      PROVE  Len(received) = Len(sent)
  <2>1. /\ Len(received) \in Nat /\ Len(sent) \in Nat /\ Len(received) <= Len(sent)
        /\ sent \in Seq(Message)
      BY <1>1, LengthsType DEF IInv
  <2>2. Len(Rest(sent, Len(received))) = 0
      BY <1>1, NothingToTake
  <2>3. Len(Rest(sent, Len(received))) = Len(sent) - Len(received)
      BY <2>1, RestType
  <2> QED
      BY <2>1, <2>2, <2>3
<1>2. ASSUME IInv, Reading, stream = <<>>, wEnd, msg = None
      PROVE  at = "header" /\ buf = <<>>
  <2>1. PICK cut \in Seq(Nat), last \in Message \cup {None} :
           /\ Lies(Ahead, cut, Rest(sent, Len(received)), last)
           /\ wEnd => last = msg /\ cut = Together(calls)
      BY <1>2 DEF IInv, StreamInv, UnderWay
  <2>2. /\ Rest(sent, Len(received)) = <<>>
        /\ Ahead \in Seq(Nat) /\ Ahead = HeadRead(at, head) \o buf
      BY <1>2, NothingToTake
  <2>3. last = None /\ cut = <<>>
      BY <1>2, <2>1 DEF IInv, WriterInv, Together
  <2>4. Chain(Ahead, <<>>)
    <3>1. Follows(<<>>, None) = <<>>
        BY DEF Follows
    <3>2. Ahead \o <<>> = Ahead
        BY <2>2, ConcatEmptySeq
    <3> QED
        BY <2>1, <2>2, <2>3, <3>1, <3>2 DEF Lies
  <2>5. HeadRead(at, head) \in Seq(Nat) /\ buf \in Seq(Nat)
      BY <1>2, AheadType DEF IInv
  <2>6. HeadRead(at, head) = <<>> /\ buf = <<>>
    <3>1. Ahead = <<>>
        BY <2>2, <2>4, ChainNone
    <3> DEFINE h == HeadRead(at, head)
    <3>2. h \in Seq(Nat) /\ buf \in Seq(Nat) /\ h \o buf = <<>>
        BY <2>2, <2>5, <3>1
    <3>3. h = <<>> /\ buf = <<>>
      <4> HIDE DEF h
      <4> QED
          BY <3>2, ConcatEqualIffEmpty
    <3> QED
        BY <3>3
  <2>7. at # "payload"
      BY <2>6 DEF HeadRead
  <2> QED
      BY <1>2, <2>6, <2>7 DEF Reading
<1>3. IInv => NothingHalfRead
    BY <1>1, <1>2 DEF NothingHalfRead
<1> QED
    BY <1>3, IInvHolds, PTL

-----------------------------------------------------------------------------
(* The queue of whole messages *)

QueueView == IF Reading THEN ReadAfter(sent, Len(received)) ELSE <<>>
EndView == IF Reading THEN "reading" ELSE at
Views == <<QueueView, received, wEnd, EndView>>

\* recv reports the end only when every message that was sent whole is decoded.
LEMMA EndIsTrue ==
    ASSUME IInv, Reading, stream = <<>>
    PROVE  QueueView = <<>>
<1>1. /\ Len(received) \in Nat /\ Len(sent) \in Nat /\ Len(received) <= Len(sent)
      /\ sent \in Seq(Message) /\ reader \in {"desktop", "phone"}
    BY LengthsType DEF IInv, TypeOK
<1>2. Len(Rest(sent, Len(received))) = 0
    BY NothingToTake
<1>3. Len(sent) - Len(received) = 0
    BY <1>1, <1>2, RestType
<1> DEFINE q == ReadAfter(sent, Len(received))
<1>4. q \in Seq(Readings) /\ Len(q) = 0
    BY <1>1, <1>3, ReadAfterType
<1>5. q = <<>>
  <2> HIDE DEF q
  <2> QED
      BY <1>4
<1> QED
    BY <1>5 DEF QueueView

\* An empty stream is an empty queue.
LEMMA QueueInit == Init => Queue!Init
<1> SUFFICES ASSUME Init PROVE Queue!Init
    OBVIOUS
<1> DEFINE q == ReadAfter(sent, Len(received))
<1>1. sent = <<>> /\ received = <<>> /\ reader \in {"desktop", "phone"}
    BY DEF Init
<1>2. q \in Seq(Readings) /\ Len(q) = 0
  <2>1. <<>> \in Seq(Message) /\ 0 <= Len(<<>>) /\ Len(<<>>) = 0
      OBVIOUS
  <2>2. ReadAfter(<<>>, 0) \in Seq(Readings) /\ Len(ReadAfter(<<>>, 0)) = 0 - 0
      BY <1>1, <2>1, ReadAfterType
  <2> QED
      BY <1>1, <2>1, <2>2
<1>3. q = <<>>
  <2> HIDE DEF q
  <2> QED
      BY <1>2
<1> QED
    BY <1>3 DEF Init, Reading, Queue!Init

\* A reader that stops empties the queue.
LEMMA QueueStops ==
    ASSUME Reading, NEW why \in {"ended", "closed", "reset"}, Stops(why)
    PROVE  /\ EndView = "reading" /\ EndView' = why /\ QueueView' = <<>>
           /\ received' = received
BY DEF Stops, Reading, EndView, QueueView

\* A reader that takes a frame takes the first message of the queue.
LEMMA QueueTakes ==
    ASSUME IInv, Reading, TakesNext, UNCHANGED <<reader, wEnd, sent>>
    PROVE  Queue!Take \/ Queue!Refuse
<1> DEFINE n == Len(received)
           q == ReadAfter(sent, n)
<1>1. /\ sent \in Seq(Message) /\ n \in Nat /\ n < Len(sent)
      /\ received \in Seq(Readings) /\ reader \in {"desktop", "phone"}
    BY LengthsType DEF IInv, TypeOK, TakesNext
<1>2. q # <<>> /\ Head(q) = Next1 /\ Next1 \in Readings /\ Tail(q) = ReadAfter(sent, n + 1)
    BY <1>1, ReadAfterTail DEF Next1
<1>3. QueueView = q /\ EndView = "reading"
    BY DEF QueueView, EndView
<1> HIDE DEF q
<1>4. CASE at' = "header" /\ received' = Append(received, Next1)
  <2>1. Len(received') = n + 1
    <3> DEFINE m == Next1
    <3> HIDE DEF m
    <3>1. Len(Append(received, m)) = n + 1
        BY <1>1, <1>2, AppendProperties DEF m
    <3> QED
        BY <1>4, <3>1 DEF m
  <2>2. Reading' /\ EndView' = "reading" /\ QueueView' = ReadAfter(sent, n + 1)
      BY <1>4, <2>1 DEF Reading, EndView, QueueView, ReadAfter, AsRead
  <2>3. Queue!Take
      BY <1>2, <1>3, <1>4, <2>2 DEF Queue!Take, QueueView, EndView
  <2> QED
      BY <2>3
<1>5. CASE at' = "refused" /\ received' = received
  <2>1. ~Reading' /\ EndView' = "refused" /\ QueueView' = <<>>
      BY <1>5 DEF Reading, EndView, QueueView
  <2>2. Queue!Refuse
      BY <1>2, <1>3, <1>5, <2>1 DEF Queue!Refuse, Queue!Stop, QueueView, EndView
  <2> QED
      BY <2>2
<1> QED
    BY <1>4, <1>5 DEF TakesNext

\* Every step is a step of the queue or none.
LEMMA QueueStep ==
    ASSUME IInv, Next
    PROVE  Queue!Next \/ UNCHANGED Views
<1>1. ASSUME NEW m \in Message, Send(m) PROVE UNCHANGED Views
    BY <1>1 DEF Send, Views, QueueView, EndView, Reading, ReadAfter, AsRead
<1>2. ASSUME NEW k \in 1..PayloadMax, Push(k) PROVE Queue!Next \/ UNCHANGED Views
  <2>1. /\ msg \in Message /\ wEnd /\ UNCHANGED <<reader, wEnd, at, received>>
        /\ Reading' = Reading /\ reader \in {"desktop", "phone"}
      BY <1>2 DEF Push, IInv, TypeOK, Reading
  <2>2. sent' = sent \/ sent' = Append(sent, msg)
      BY <1>2 DEF Push
  <2>3. CASE sent' = sent
      BY <2>1, <2>3 DEF Views, QueueView, EndView, ReadAfter, AsRead
  <2>4. CASE sent' = Append(sent, msg)
    <3>1. QueueView' = IF Reading THEN Append(QueueView, AsRead(msg)) ELSE QueueView
      <4>1. CASE Reading
        <5>1. ReadAfter(Append(sent, msg), Len(received))
                = Append(ReadAfter(sent, Len(received)), AsRead(msg))
            BY <2>1, LengthsType, ReadAfterAppend DEF IInv
        <5>2. ReadAfter(sent, Len(received))' = ReadAfter(Append(sent, msg), Len(received))
            BY <2>1, <2>4 DEF ReadAfter, AsRead
        <5> QED
            BY <2>1, <4>1, <5>1, <5>2 DEF QueueView
      <4>2. CASE ~Reading
          BY <2>1, <4>2 DEF QueueView
      <4> QED
          BY <4>1, <4>2
    <3>2. EndView' = EndView /\ (EndView = "reading" <=> Reading)
      <4>1. at \in {"header", "payload", "ended", "reset", "refused", "closed"}
          BY DEF IInv, TypeOK
      <4> QED
          BY <2>1, <4>1 DEF EndView, Reading
    <3>3. Queue!Send(AsRead(msg))
        BY <2>1, <3>1, <3>2 DEF Queue!Send, QueueView, EndView
    <3>4. AsRead(msg) \in Readings
        BY <2>1, ReadingFields
    <3> QED
        BY <3>3, <3>4 DEF Queue!Next
  <2> QED
      BY <2>2, <2>3, <2>4
<1>3. ASSUME NEW k \in 1..PayloadMax, ReceivePart(k) PROVE UNCHANGED Views
    BY <1>3 DEF ReceivePart, Views, QueueView, EndView, Reading, ReadAfter, AsRead
<1>4. CASE ReceiveHeader
  <2>1. UNCHANGED <<reader, wEnd, sent>> /\ Reading
      BY <1>4 DEF ReceiveHeader, Complete
  <2>2. CASE TakesNext
      BY <2>1, <2>2, QueueTakes DEF Queue!Next
  <2>3. CASE Reading /\ Reading' /\ received' = received
      BY <2>1, <2>3 DEF Views, QueueView, EndView, ReadAfter, AsRead
  <2> QED
      BY <1>4, <2>2, <2>3, HeaderInv
<1>5. CASE ReceivePayload
  <2>1. UNCHANGED <<reader, wEnd, sent>> /\ Reading /\ TakesNext
      BY <1>5, PayloadInv DEF ReceivePayload, Complete
  <2> QED
      BY <2>1, QueueTakes DEF Queue!Next
<1>6. CASE EndOfStream
  <2>1. Reading /\ ~wEnd /\ stream = <<>> /\ Stops("ended") /\ wEnd' = wEnd
      BY <1>6 DEF EndOfStream, AtEnd
  <2>2. QueueView = <<>>
      BY <2>1, EndIsTrue
  <2>3. Queue!SeeEnd
      BY <2>1, <2>2, QueueStops DEF Queue!SeeEnd, Queue!Stop, QueueView, EndView
  <2> QED
      BY <2>3 DEF Queue!Next
<1>7. CASE ReaderEnds
  <2>1. Reading /\ Stops("closed") /\ wEnd' = wEnd
      BY <1>7 DEF ReaderEnds
  <2>2. Queue!Close
      BY <2>1, QueueStops DEF Queue!Close, Queue!Stop, QueueView, EndView
  <2> QED
      BY <2>2 DEF Queue!Next
<1>8. CASE Reset
  <2>1. Reading /\ Stops("reset") /\ wEnd' = FALSE
      BY <1>8 DEF Reset
  <2>2. Queue!Reset
      BY <2>1, QueueStops DEF Queue!Reset, Queue!Stop, QueueView, EndView
  <2> QED
      BY <2>2 DEF Queue!Next
<1>9. CASE WriterEnds
  <2>1. wEnd' = FALSE /\ UNCHANGED <<reader, at, sent, received>>
      BY <1>9 DEF WriterEnds
  <2>2. QueueView' = QueueView /\ EndView' = EndView
      BY <2>1 DEF QueueView, EndView, Reading, ReadAfter, AsRead
  <2>3. Queue!WriterGone
      BY <2>1, <2>2 DEF Queue!WriterGone, QueueView, EndView
  <2> QED
      BY <2>3 DEF Queue!Next
<1> QED
    BY <1>1, <1>2, <1>3, <1>4, <1>5, <1>6, <1>7, <1>8, <1>9 DEF Next, WriterStep, ReaderStep

\* Over any stream, a connection is the queue of whole messages that Transfer and
\* Pairing are written over.
THEOREM StreamIsAQueue == Spec => ImplementsFrameQueue
<1>1. Init => Queue!Init
    BY QueueInit
<1>2. IInv /\ [Next]_vars => [Queue!Next]_Views
  <2>1. ASSUME IInv, Next PROVE [Queue!Next]_Views
      BY <2>1, QueueStep
  <2>2. UNCHANGED vars => UNCHANGED Views
      BY DEF vars, Views, QueueView, EndView, Reading, ReadAfter, AsRead
  <2> QED
      BY <2>1, <2>2
<1>3. [Queue!Next]_Views =>
      [Queue!Next]_<<IF Reading THEN ReadAfter(sent, Len(received)) ELSE <<>>,
                     received, wEnd, IF Reading THEN "reading" ELSE at>>
    BY DEF Views, QueueView, EndView, ReadAfter, AsRead
<1> QED
    BY <1>1, <1>2, <1>3, IInvHolds, PTL DEF Spec, ImplementsFrameQueue, Queue!Spec
================================================================================
