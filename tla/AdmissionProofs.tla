-------------------------- MODULE AdmissionProofs --------------------------
(***************************************************************************)
(* The rate limits of Admission hold for every limit, window and number of *)
(* senders: the deque of a sender is the part of its log that still counts.*)
(***************************************************************************)
EXTENDS Admission, TLAPS

\* A sender's key is a key, and a limit a number.
LEMMA KeyFacts ==
    /\ \A d \in Sender, h \in Host : RateKey(d, h) \in Key
    /\ \A k \in Kind : Limit(k) \in Nat
  BY AdmissionAssumption DEF Sender, RateKey, Key, Kind, Limit

\* Deque q holds the end of log a, and at time t all before it has expired.
Live(q, a, t) ==
    /\ Len(q) <= Len(a)
    /\ \A i \in 1..Len(q) : q[i] = a[Len(a) - Len(q) + i]
    /\ \A i \in 1..(Len(a) - Len(q)) : t - a[i] > Window

\* Any n + 1 entries of log a span more than a window.
Spaced(a, n) ==
    \A i \in 1..Len(a) : i + n <= Len(a) => a[i + n] - a[i] > Window

\* The loop takes expired entries off the front, so the deque stays live.
LEMMA LoopKeepsLive ==
    ASSUME NEW h \in Seq(Nat), NEW a \in Seq(Nat), NEW t \in Nat,
           NEW n \in 0..Len(h), Live(h, a, t),
           \A i \in 1..n : t - h[i] > Window
    PROVE  /\ SubSeq(h, n + 1, Len(h)) \in Seq(Nat)
           /\ Len(SubSeq(h, n + 1, Len(h))) = Len(h) - n
           /\ \A i \in 1..(Len(h) - n) : SubSeq(h, n + 1, Len(h))[i] = h[n + i]
           /\ Live(SubSeq(h, n + 1, Len(h)), a, t)
<1> DEFINE q == SubSeq(h, n + 1, Len(h))
<1>1. n \in Nat /\ n <= Len(h) /\ Len(h) \in Nat /\ Len(a) \in Nat /\ Len(h) <= Len(a)
  BY DEF Live
<1>2. /\ q \in Seq(Nat) /\ Len(q) = Len(h) - n
      /\ \A i \in 1..(Len(h) - n) : q[i] = h[n + i]
  BY <1>1
<1> HIDE DEF q
<1>3. ASSUME NEW i \in 1..Len(q)
      PROVE  q[i] = a[Len(a) - Len(q) + i]
  <2>1. n + i \in 1..Len(h) /\ Len(a) - Len(h) + (n + i) = Len(a) - Len(q) + i
    BY <1>1, <1>2
  <2>2. q[i] = h[n + i]
    BY <1>2
  <2> QED
    BY <2>1, <2>2 DEF Live
<1>4. ASSUME NEW i \in 1..(Len(a) - Len(q))
      PROVE  t - a[i] > Window
  <2>1. CASE i <= Len(a) - Len(h)
    <3>1. i \in 1..(Len(a) - Len(h))
      BY <1>1, <1>2, <2>1
    <3> QED
      BY <3>1 DEF Live
  <2>2. CASE i > Len(a) - Len(h)
    <3> DEFINE m == i - (Len(a) - Len(h))
    <3>0. /\ Len(a) \in Nat /\ Len(h) \in Nat /\ i \in Int
          /\ 1 <= i /\ i <= Len(a) - Len(q)
      BY <1>1
    <3>1. m \in 1..n /\ m \in 1..Len(h) /\ Len(a) - Len(h) + m = i
      BY <3>0, <1>1, <1>2, <2>2, SMTT(60)
    <3> HIDE DEF m
    <3>2. h[m] = a[i]
      BY <3>1 DEF Live
    <3> QED
      BY <3>1, <3>2
  <2> QED
    BY <1>1, <1>2, <2>1, <2>2
<1>5. Live(q, a, t)
  BY <1>1, <1>2, <1>3, <1>4 DEF Live
<1> QED
  BY <1>2, <1>5 DEF q

\* An admission goes to the end of both; the one n before it has expired when
\* the deque holds fewer than n.
LEMMA AppendKeepsSpaced ==
    ASSUME NEW q \in Seq(Nat), NEW a \in Seq(Nat), NEW t \in Nat, NEW n \in Nat,
           Live(q, a, t), Spaced(a, n), Len(q) < n
    PROVE  /\ Append(q, t) \in Seq(Nat) /\ Append(a, t) \in Seq(Nat)
           /\ Len(Append(q, t)) <= n
           /\ Live(Append(q, t), Append(a, t), t)
           /\ Spaced(Append(a, t), n)
<1> DEFINE b == Append(a, t)
           r == Append(q, t)
<1>1. /\ b \in Seq(Nat) /\ Len(b) = Len(a) + 1 /\ b[Len(a) + 1] = t
      /\ \A i \in 1..Len(a) : b[i] = a[i]
      /\ r \in Seq(Nat) /\ Len(r) = Len(q) + 1 /\ r[Len(q) + 1] = t
      /\ \A i \in 1..Len(q) : r[i] = q[i]
      /\ Len(a) \in Nat /\ Len(q) \in Nat
  OBVIOUS
<1> HIDE DEF b, r
<1>2. Len(q) <= Len(a)
  BY DEF Live
<1>3. ASSUME NEW i \in 1..Len(r)
      PROVE  r[i] = b[Len(b) - Len(r) + i]
  <2>1. CASE i = Len(q) + 1
    BY <1>1, <1>2, <2>1
  <2>2. CASE i # Len(q) + 1
    <3>1. i \in Int /\ 1 <= i /\ i <= Len(q)
      BY <1>1, <2>2
    <3>2. i \in 1..Len(q) /\ Len(a) - Len(q) + i \in 1..Len(a)
      BY <1>1, <1>2, <3>1
    <3>3. Len(b) - Len(r) + i = Len(a) - Len(q) + i
      BY <1>1, <3>1
    <3>4. q[i] = a[Len(a) - Len(q) + i]
      BY <3>2 DEF Live
    <3> QED
      BY <1>1, <3>2, <3>3, <3>4
  <2> QED
    BY <2>1, <2>2
<1>4. ASSUME NEW i \in 1..(Len(b) - Len(r))
      PROVE  t - b[i] > Window
  <2>1. i \in 1..(Len(a) - Len(q)) /\ i \in 1..Len(a)
    BY <1>1, <1>2, SMTT(60)
  <2>2. t - a[i] > Window
    BY <2>1 DEF Live
  <2> QED
    BY <1>1, <2>1, <2>2
<1>5. ASSUME NEW i \in 1..Len(b), i + n <= Len(b)
      PROVE  b[i + n] - b[i] > Window
  <2>1. CASE i + n <= Len(a)
    <3>1. i \in 1..Len(a) /\ i + n \in 1..Len(a)
      BY <1>1, <2>1
    <3>2. a[i + n] - a[i] > Window
      BY <2>1, <3>1 DEF Spaced
    <3> QED
      BY <1>1, <3>1, <3>2
  <2>2. CASE ~(i + n <= Len(a))
    <3>1. /\ i \in Int /\ 1 <= i /\ i + n < Len(a) + 2 /\ n \in Nat
          /\ Len(q) < n /\ Len(a) \in Nat /\ Len(q) \in Nat
      BY <1>1, <1>5
    <3>2. i + n = Len(a) + 1
      <4>1. \A x, y \in Int : x < y + 2 /\ ~(x <= y) => x = y + 1
        OBVIOUS
      <4>2. i + n \in Int /\ Len(a) \in Int
        BY <3>1
      <4> QED
        BY <2>2, <3>1, <4>1, <4>2
    <3>3. i \in 1..(Len(a) - Len(q)) /\ i \in 1..Len(a)
      BY <1>2, <3>1, <3>2
    <3>4. t - a[i] > Window
      BY <3>3 DEF Live
    <3> QED
      BY <1>1, <3>2, <3>3, <3>4
  <2> QED
    BY <1>1, <2>1, <2>2
<1>6. Live(r, b, t) /\ Spaced(b, n) /\ Len(r) <= n
  BY <1>1, <1>2, <1>3, <1>4, <1>5 DEF Live, Spaced
<1> QED
  BY <1>1, <1>6 DEF b, r

\* When the deque is full its first entry is the one n before the end of the
\* log, and it has not expired.
LEMMA FullMeansUsedUp ==
    ASSUME NEW q \in Seq(Nat), NEW a \in Seq(Nat), NEW t \in Nat, NEW n \in Nat,
           Live(q, a, t), Len(q) = n, n > 0 => ~(t - q[1] > Window)
    PROVE  Len(a) >= n /\ (n > 0 => t - a[Len(a) - n + 1] <= Window)
<1>1. Len(a) \in Nat /\ Window \in Nat /\ n <= Len(a)
  BY AdmissionAssumption DEF Live
<1>2. ASSUME n > 0
      PROVE  t - a[Len(a) - n + 1] <= Window
  <2>1. 1 \in 1..Len(q) /\ Len(a) - n + 1 \in 1..Len(a)
    BY <1>1, <1>2
  <2>2. q[1] = a[Len(a) - n + 1] /\ q[1] \in Nat
    BY <2>1 DEF Live
  <2> QED
    BY <1>1, <1>2, <2>2
<1> QED
  BY <1>1, <1>2

\* What the invariant says of one sender's deque and log.
LEMMA DequeMeans ==
    ASSUME IInv, NEW k \in Kind, NEW key \in Key
    PROVE  /\ history[k][key] \in Seq(Nat) /\ admitted[k][key] \in Seq(Nat)
           /\ now \in Nat /\ Limit(k) \in Nat
           /\ Live(history[k][key], admitted[k][key], now)
           /\ Len(history[k][key]) <= Limit(k)
           /\ Spaced(admitted[k][key], Limit(k))
  BY KeyFacts DEF IInv, TypeOK, Log, DequeInv, Expired, AtMostInWindow, Live, Spaced

\* One call of RateLimiter::allow leaves every deque live and every log spaced,
\* and says "limited" only when the sender's limit is used up.
LEMMA AllowStep ==
    ASSUME NEW k \in Kind, NEW key \in Key, IInv, UNCHANGED now, Allow(k, key)
    PROVE  /\ history' \in Log /\ admitted' \in Log /\ verdict' \in Verdict
           /\ \A j \in Kind, other \in Key : DequeInv(j, other)'
           /\ AtMostInWindow'
           /\ verdict' = "limited" =>
                 LET a == admitted'[k][key] IN
                 /\ Len(a) >= Limit(k)
                 /\ Limit(k) > 0 => now' - a[Len(a) - Limit(k) + 1] <= Window
<1> DEFINE h == history[k][key]
           a == admitted[k][key]
<1>1. /\ h \in Seq(Nat) /\ a \in Seq(Nat) /\ now \in Nat /\ Limit(k) \in Nat
      /\ Live(h, a, now) /\ Len(h) <= Limit(k) /\ Spaced(a, Limit(k))
  BY DequeMeans
<1>2. history \in Log /\ admitted \in Log
  BY DEF IInv, TypeOK
<1>3. PICK n \in 0..Len(h) :
        /\ Pops(h, n)
        /\ LET q == SubSeq(h, n + 1, Len(h)) IN
           \/ /\ Full(q, k)
              /\ verdict' = "limited"
              /\ history' = [history EXCEPT ![k][key] = q]
              /\ UNCHANGED admitted
           \/ /\ ~Full(q, k)
              /\ verdict' = "admitted"
              /\ history' = [history EXCEPT ![k][key] = Append(q, now)]
              /\ admitted' = [admitted EXCEPT ![k][key] = Append(@, now)]
  BY DEF Allow
<1> DEFINE q == SubSeq(h, n + 1, Len(h))
<1> HIDE DEF h, a
<1>4. /\ q \in Seq(Nat) /\ Len(q) = Len(h) - n /\ Live(q, a, now)
      /\ \A i \in 1..(Len(h) - n) : q[i] = h[n + i]
  <2>1. \A i \in 1..n : now - h[i] > Window
    BY <1>3 DEF Pops, Expired
  <2>2. /\ SubSeq(h, n + 1, Len(h)) \in Seq(Nat)
        /\ Len(SubSeq(h, n + 1, Len(h))) = Len(h) - n
        /\ \A i \in 1..(Len(h) - n) : SubSeq(h, n + 1, Len(h))[i] = h[n + i]
        /\ Live(SubSeq(h, n + 1, Len(h)), a, now)
    BY <1>1, <2>1, LoopKeepsLive
  <2> QED
    BY <2>2
<1> HIDE DEF q
\* Only this sender's deque and log change.
<1>5. ASSUME NEW r \in Seq(Nat), NEW b \in Seq(Nat), Live(r, b, now),
             Len(r) <= Limit(k), Spaced(b, Limit(k)),
             history' = [history EXCEPT ![k][key] = r],
             admitted' = [admitted EXCEPT ![k][key] = b]
      PROVE  /\ history' \in Log /\ admitted' \in Log
             /\ \A j \in Kind, other \in Key : DequeInv(j, other)'
             /\ AtMostInWindow'
             /\ admitted'[k][key] = b
  <2>1. history' \in Log /\ admitted' \in Log
    BY <1>2, <1>5 DEF Log
  <2>2. ASSUME NEW j \in Kind, NEW other \in Key
        PROVE  /\ Live(history'[j][other], admitted'[j][other], now)
               /\ Len(history'[j][other]) <= Limit(j)
               /\ Spaced(admitted'[j][other], Limit(j))
    <3>1. CASE j = k /\ other = key
      BY <1>2, <1>5, <3>1 DEF Log
    <3>2. CASE ~(j = k /\ other = key)
      <4>1. history'[j][other] = history[j][other] /\ admitted'[j][other] = admitted[j][other]
        BY <1>2, <1>5, <3>2 DEF Log
      <4> QED
        BY <4>1, DequeMeans
    <3> QED
      BY <3>1, <3>2
  <2>3. \A j \in Kind, other \in Key : DequeInv(j, other)'
    BY <2>2 DEF DequeInv, Expired, Live
  <2>4. AtMostInWindow'
    BY <2>2 DEF AtMostInWindow, Spaced
  <2>5. admitted'[k][key] = b
    BY <1>2, <1>5 DEF Log
  <2> QED
    BY <2>1, <2>3, <2>4, <2>5
<1>6. CASE /\ Full(q, k) /\ verdict' = "limited" /\ UNCHANGED admitted
           /\ history' = [history EXCEPT ![k][key] = q]
  <2>1. admitted' = [admitted EXCEPT ![k][key] = a]
    BY <1>2, <1>6 DEF Log, a
  <2>2. Len(q) = Limit(k) /\ Len(q) <= Limit(k)
    BY <1>1, <1>3, <1>4, <1>6 DEF Full
  <2>3. Limit(k) > 0 => ~(now - q[1] > Window)
    <3> SUFFICES ASSUME Limit(k) > 0 PROVE ~(now - q[1] > Window)
      OBVIOUS
    <3>1. n < Len(h) /\ 1 \in 1..(Len(h) - n)
      BY <1>1, <1>3, <1>4, <2>2
    <3> QED
      BY <1>3, <1>4, <3>1 DEF Pops, Expired
  <2>4. Len(a) >= Limit(k) /\ (Limit(k) > 0 => now - a[Len(a) - Limit(k) + 1] <= Window)
    BY <1>1, <1>4, <2>2, <2>3, FullMeansUsedUp
  <2>5. /\ history' \in Log /\ admitted' \in Log /\ AtMostInWindow'
        /\ \A j \in Kind, other \in Key : DequeInv(j, other)'
        /\ admitted'[k][key] = a
    BY <1>1, <1>4, <1>5, <1>6, <2>1, <2>2
  <2> QED
    BY <1>6, <2>4, <2>5 DEF Verdict
<1>7. CASE /\ ~Full(q, k) /\ verdict' = "admitted"
           /\ history' = [history EXCEPT ![k][key] = Append(q, now)]
           /\ admitted' = [admitted EXCEPT ![k][key] = Append(@, now)]
  <2>1. admitted' = [admitted EXCEPT ![k][key] = Append(a, now)]
    BY <1>7 DEF a
  <2>2. Len(q) < Limit(k)
    BY <1>1, <1>4, <1>7 DEF Full
  <2>3. /\ Append(q, now) \in Seq(Nat) /\ Append(a, now) \in Seq(Nat)
        /\ Len(Append(q, now)) <= Limit(k)
        /\ Live(Append(q, now), Append(a, now), now)
        /\ Spaced(Append(a, now), Limit(k))
    BY <1>1, <1>4, <2>2, AppendKeepsSpaced
  <2>4. /\ history' \in Log /\ admitted' \in Log /\ AtMostInWindow'
        /\ \A j \in Kind, other \in Key : DequeInv(j, other)'
    BY <1>5, <1>7, <2>1, <2>3
  <2> QED
    BY <1>7, <2>4 DEF Verdict
<1> QED
  BY <1>3, <1>6, <1>7 DEF q

\* The limiters are empty at first.
LEMMA InitIInv == Init => IInv
<1> SUFFICES ASSUME Init PROVE IInv
  OBVIOUS
<1>1. \A k \in Kind, key \in Key : Empty[k][key] = <<>>
  BY DEF Empty
<1>2. Empty \in Log
  BY <1>1 DEF Empty, Log
<1>3. TypeOK
  BY <1>2, AdmissionAssumption DEF Init, TypeOK, Verdict
<1>4. (\A k \in Kind, key \in Key : DequeInv(k, key)) /\ AtMostInWindow
  BY <1>1, KeyFacts DEF Init, DequeInv, AtMostInWindow
<1> QED
  BY <1>3, <1>4 DEF IInv

\* Every step keeps the deques and the logs in step.
LEMMA StepIInv == IInv /\ [Next]_vars => IInv'
<1> SUFFICES ASSUME IInv, [Next]_vars PROVE IInv'
  OBVIOUS
<1>1. ASSUME NEW k \in Kind, NEW d \in Sender, NEW h \in Host,
             Allow(k, RateKey(d, h)), asked' = <<k, d, h>>, UNCHANGED <<now, loaded>>
      PROVE  IInv'
  BY <1>1, AllowStep, KeyFacts DEF IInv, TypeOK, AtMostInWindow
<1>2. ASSUME NEW k \in Kind, NEW d \in Sender, NEW h \in Host, NEW why \in Verdict,
             Refuse(why), asked' = <<k, d, h>>, UNCHANGED <<now, loaded>>
      PROVE  IInv'
  BY <1>2 DEF Refuse, IInv, TypeOK, DequeInv, Expired, AtMostInWindow
<1>3. ASSUME NEW d \in Sender, NEW h \in Host, PairRequest(d, h)
      PROVE  IInv'
  BY <1>1, <1>2, <1>3 DEF PairRequest, Verdict, Kind
<1>4. ASSUME NEW d \in Sender, NEW h \in Host, NEW size \in Size,
             FileRequest(d, h, size)
      PROVE  IInv'
  BY <1>1, <1>2, <1>4 DEF FileRequest, Verdict, Kind
<1>5. CASE Tick
  <2>1. TypeOK' /\ AtMostInWindow'
    <3>1. TypeOK'
      <4>1. TypeOK
        BY DEF IInv
      <4>2. now' \in Nat
        BY <1>5, <4>1 DEF Tick, TypeOK
      <4>3. verdict' \in Verdict
        BY <1>5 DEF Tick, Verdict
      <4> QED
        BY <1>5, <4>1, <4>2, <4>3 DEF Tick, TypeOK
    <3>2. AtMostInWindow'
      BY <1>5 DEF Tick, IInv, AtMostInWindow
    <3> QED
      BY <3>1, <3>2
  <2>2. ASSUME NEW k \in Kind, NEW key \in Key
        PROVE  DequeInv(k, key)'
    <3> DEFINE a == admitted[k][key]
               h == history[k][key]
    <3>1. /\ a \in Seq(Nat) /\ h \in Seq(Nat) /\ Len(h) <= Len(a)
          /\ now \in Nat /\ Window \in Nat /\ now' = now + 1
          /\ UNCHANGED <<history, admitted>>
      BY <1>5, AdmissionAssumption DEF Tick, IInv, TypeOK, Log, DequeInv
    <3>2. ASSUME NEW i \in 1..(Len(a) - Len(h))
          PROVE  now' - a[i] > Window
      <4>1. DequeInv(k, key)
        BY DEF IInv
      <4>2. now - a[i] > Window
        BY <4>1 DEF DequeInv, Expired
      <4>3. i \in 1..Len(a)
        BY <3>1
      <4>4. a[i] \in Nat
        BY <3>1, <4>3
      <4> HIDE DEF a, h
      <4> QED
        BY <3>1, <4>2, <4>4
    <3> QED
      BY <3>1, <3>2 DEF IInv, DequeInv, Expired
  <2> QED
    BY <2>1, <2>2 DEF IInv
<1>6. CASE Restart
  <2>1. \A k \in Kind, key \in Key : Empty[k][key] = <<>>
    BY DEF Empty
  <2>2. Empty \in Log
    BY <2>1 DEF Empty, Log
  <2>3. TypeOK'
    BY <1>6, <2>2 DEF Restart, IInv, TypeOK, Verdict
  <2>4. (\A k \in Kind, key \in Key : DequeInv(k, key)') /\ AtMostInWindow'
    BY <1>6, <2>1, KeyFacts DEF Restart, DequeInv, AtMostInWindow
  <2> QED
    BY <2>3, <2>4 DEF IInv
<1>7. CASE UNCHANGED vars
  BY <1>7 DEF vars, IInv, TypeOK, DequeInv, Expired, AtMostInWindow
<1> QED
  BY <1>3, <1>4, <1>5, <1>6, <1>7 DEF Next

\* The invariant of every run.
THEOREM Invariance == Spec => []IInv
<1> QED
  BY InitIInv, StepIInv, PTL DEF Spec

\* No sender exceeds its limit in any window of any length and position.
THEOREM RateIsLimited == Spec => []AtMostInWindow
<1>1. IInv => AtMostInWindow
  BY DEF IInv
<1> QED
  BY <1>1, Invariance, PTL

\* No request is refused for its rate while the limit of its sender and its
\* own kind is not used up.
THEOREM RefusalIsDeserved == Spec => []RefusedOnlyWhenFull
<1>1. Init => RefusedOnlyWhenFull
  BY DEF Init, RefusedOnlyWhenFull
<1>2. IInv /\ RefusedOnlyWhenFull /\ [Next]_vars => RefusedOnlyWhenFull'
  <2> SUFFICES ASSUME IInv, RefusedOnlyWhenFull, [Next]_vars, verdict' = "limited"
               PROVE  RefusedOnlyWhenFull'
    BY DEF RefusedOnlyWhenFull
  <2>1. ASSUME NEW k \in Kind, NEW d \in Sender, NEW h \in Host,
               Allow(k, RateKey(d, h)), asked' = <<k, d, h>>, UNCHANGED now
        PROVE  RefusedOnlyWhenFull'
    <3>1. RateKey(d, h) \in Key
      BY KeyFacts
    <3>2. LET a == admitted'[k][RateKey(d, h)] IN
          /\ Len(a) >= Limit(k)
          /\ Limit(k) > 0 => now' - a[Len(a) - Limit(k) + 1] <= Window
      BY <2>1, <3>1, AllowStep
    <3>3. asked'[1] = k /\ RateKey(asked'[2], asked'[3]) = RateKey(d, h)
      BY <2>1
    <3> QED
      BY <3>2, <3>3 DEF RefusedOnlyWhenFull
  <2>2. ASSUME NEW d \in Sender, NEW h \in Host, PairRequest(d, h)
        PROVE  RefusedOnlyWhenFull'
    BY <2>1, <2>2 DEF PairRequest, Refuse, Kind
  <2>3. ASSUME NEW d \in Sender, NEW h \in Host, NEW size \in Size,
               FileRequest(d, h, size)
        PROVE  RefusedOnlyWhenFull'
    BY <2>1, <2>3 DEF FileRequest, Refuse, Kind
  <2>4. CASE UNCHANGED vars
    BY <2>4 DEF vars, RefusedOnlyWhenFull
  <2> QED
    BY <2>2, <2>3, <2>4 DEF Next, Tick, Restart
<1> QED
  BY <1>1, <1>2, Invariance, PTL DEF Spec

\* No device and no address that was listed when the receiver started is ever
\* admitted, whatever identifier comes with the request.
THEOREM ListedAreRefused == Spec => []BlockedNeverAdmitted
<1>1. Init => BlockedNeverAdmitted
  BY DEF Init, BlockedNeverAdmitted
<1>2. BlockedNeverAdmitted /\ [Next]_vars => BlockedNeverAdmitted'
  <2> SUFFICES ASSUME BlockedNeverAdmitted, [Next]_vars PROVE BlockedNeverAdmitted'
    OBVIOUS
  <2>1. ASSUME NEW d \in Sender, NEW h \in Host, PairRequest(d, h)
        PROVE  BlockedNeverAdmitted'
    <3>1. CASE IsBlacklisted(d, h)
      BY <2>1, <3>1 DEF PairRequest, Refuse, BlockedNeverAdmitted
    <3>2. CASE ~IsBlacklisted(d, h)
      BY <2>1, <3>2 DEF PairRequest, IsBlacklisted, BlockedNeverAdmitted
    <3> QED
      BY <3>1, <3>2
  <2>2. ASSUME NEW d \in Sender, NEW h \in Host, NEW size \in Size, FileRequest(d, h, size)
        PROVE  BlockedNeverAdmitted'
    <3>1. CASE IsBlacklisted(d, h)
      BY <2>2, <3>1 DEF FileRequest, Refuse, BlockedNeverAdmitted
    <3>2. CASE ~IsBlacklisted(d, h)
      BY <2>2, <3>2 DEF FileRequest, IsBlacklisted, BlockedNeverAdmitted
    <3> QED
      BY <3>1, <3>2
  <2>3. CASE Tick \/ Restart
    BY <2>3 DEF Tick, Restart, BlockedNeverAdmitted
  <2>4. CASE UNCHANGED vars
    BY <2>4 DEF vars, BlockedNeverAdmitted
  <2> QED
    BY <2>1, <2>2, <2>3, <2>4 DEF Next
<1> QED
  BY <1>1, <1>2, PTL DEF Spec
=============================================================================
