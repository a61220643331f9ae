----------------------------- MODULE Admission -----------------------------
(***************************************************************************)
(* The gate every incoming request of the desktop receiver passes first:   *)
(* SecurityManager with its blacklist, its size limit and its two          *)
(* RateLimiters, one for pair requests and one for file requests.          *)
(*                                                                         *)
(* A limiter keeps, per sender, the times of the requests it let through,  *)
(* and forgets the expired ones only when that sender asks again.  It      *)
(* lives in the receiver's process: a restart starts it empty, and reads   *)
(* blacklist.json anew.                                                    *)
(***************************************************************************)
EXTENDS Integers, Sequences

CONSTANTS Device,      \* device identifiers
          NoDevice,    \* the empty identifier
          Host,        \* addresses of peers
          Size,        \* sizes a file request may declare
          SizeLimit,   \* max_file_size_bytes in settings.json
          PairLimit,   \* pair requests admitted per window, 3 in the code
          FileLimit,   \* file requests admitted per window, 5 in the code
          Window,      \* the window of both limiters, 30 seconds in the code
          MaxTime      \* bound: the clock stops there

ASSUME AdmissionAssumption ==
    /\ NoDevice \notin Device
    /\ Size \subseteq Nat /\ SizeLimit \in Nat
    /\ PairLimit \in Nat /\ FileLimit \in Nat
    /\ Window \in Nat /\ MaxTime \in Nat

Kind == {"pair", "file"}
Limit(k) == IF k = "pair" THEN PairLimit ELSE FileLimit

VARIABLES
    now,        \* the steady clock
    history,    \* the limiters' deques
    loaded,     \* what the process read from blacklist.json when it started
    admitted,   \* history variable: the times of all requests let through
    asked,      \* the last request: its kind, sender and address
    verdict     \* what became of it

vars == <<now, history, loaded, admitted, asked, verdict>>

Sender == Device \cup {NoDevice}
Key == ({"device"} \X Device) \cup ({"host"} \X Host)
Listing == [devices : SUBSET Device, hosts : SUBSET Host]
Verdict == {"none", "admitted", "blacklisted", "too large", "limited"}

Empty == [k \in Kind |-> [key \in Key |-> <<>>]]

Init ==
    /\ now = 0
    /\ history = Empty
    /\ loaded \in Listing
    /\ admitted = Empty
    /\ asked \in Kind \X Sender \X Host
    /\ verdict = "none"

-----------------------------------------------------------------------------
(* RateLimiter::allow *)

\* A sender without an identifier is known by its address.
RateKey(d, h) == IF d # NoDevice THEN <<"device", d>> ELSE <<"host", h>>

\* Mutant: an admission expires a moment too early.
ExpiredOnTime(t) == now - t >= Window
Expired(t) == now - t > Window

\* The loop at the front of the deque takes n entries off q: it stops at the
\* first that has not expired.
Pops(q, n) ==
    /\ \A i \in 1..n : Expired(q[i])
    /\ n < Len(q) => ~Expired(q[n + 1])

\* Mutant: one request too many.
FullAbove(q, k) == Len(q) > Limit(k)
Full(q, k) == Len(q) >= Limit(k)

\* Mutant: one limiter for both kinds, so that the other kind's requests count.
AllowShared(k, key) ==
    \E n \in 0..Len(history[k][key]) :
        /\ Pops(history[k][key], n)
        /\ LET q == SubSeq(history[k][key], n + 1, Len(history[k][key]))
               others == UNION {{<<j, i>> : i \in 1..Len(history[j][key])} : j \in Kind \ {k}}
           IN
           \/ /\ Full(q, k) \/ others # {}
              /\ verdict' = "limited"
              /\ history' = [history EXCEPT ![k][key] = q]
              /\ UNCHANGED admitted
           \/ /\ ~Full(q, k) /\ others = {}
              /\ verdict' = "admitted"
              /\ history' = [history EXCEPT ![k][key] = Append(q, now)]
              /\ admitted' = [admitted EXCEPT ![k][key] = Append(@, now)]

Allow(k, key) ==
    \E n \in 0..Len(history[k][key]) :
        /\ Pops(history[k][key], n)
        /\ LET q == SubSeq(history[k][key], n + 1, Len(history[k][key])) IN
           \/ /\ Full(q, k)
              /\ verdict' = "limited"
              /\ history' = [history EXCEPT ![k][key] = q]
              /\ UNCHANGED admitted
           \/ /\ ~Full(q, k)
              /\ verdict' = "admitted"
              /\ history' = [history EXCEPT ![k][key] = Append(q, now)]
              /\ admitted' = [admitted EXCEPT ![k][key] = Append(@, now)]

-----------------------------------------------------------------------------
(* SecurityManager::enforce_..._request_allowed *)

\* Mutant: the address is looked at only when there is no identifier.
IsBlacklistedById(d, h) ==
    IF d # NoDevice THEN d \in loaded.devices ELSE h \in loaded.hosts
IsBlacklisted(d, h) == d \in loaded.devices \/ h \in loaded.hosts

Refuse(why) == verdict' = why /\ UNCHANGED <<history, admitted>>

PairRequest(d, h) ==
    /\ asked' = <<"pair", d, h>>
    /\ \/ IsBlacklisted(d, h) /\ Refuse("blacklisted")
       \/ ~IsBlacklisted(d, h) /\ Allow("pair", RateKey(d, h))
    /\ UNCHANGED <<now, loaded>>

\* A request that is too large costs its sender none of its admissions.
FileRequest(d, h, size) ==
    /\ asked' = <<"file", d, h>>
    /\ \/ IsBlacklisted(d, h) /\ Refuse("blacklisted")
       \/ ~IsBlacklisted(d, h) /\ size > SizeLimit /\ Refuse("too large")
       \/ ~IsBlacklisted(d, h) /\ size <= SizeLimit /\ Allow("file", RateKey(d, h))
    /\ UNCHANGED <<now, loaded>>

Tick ==
    /\ now < MaxTime
    /\ now' = now + 1
    /\ verdict' = "none"
    /\ UNCHANGED <<history, loaded, admitted, asked>>

\* The receiver's process ends and is started again.  The user may have edited
\* blacklist.json, which nothing reads in between.
Restart ==
    /\ history' = Empty
    /\ admitted' = Empty
    /\ loaded' \in Listing
    /\ verdict' = "none"
    /\ UNCHANGED <<now, asked>>

Next ==
    \/ \E d \in Sender, h \in Host : PairRequest(d, h)
    \/ \E d \in Sender, h \in Host, size \in Size : FileRequest(d, h, size)
    \/ Tick \/ Restart

Spec == Init /\ [][Next]_vars

-----------------------------------------------------------------------------
(* Properties *)

Log == [Kind -> [Key -> Seq(Nat)]]

\* Every variable has its type.
TypeOK ==
    /\ now \in Nat
    /\ history \in Log
    /\ loaded \in Listing
    /\ admitted \in Log
    /\ asked \in Kind \X Sender \X Host
    /\ verdict \in Verdict

\* Within one run of the receiver no sender gets more than its limit of
\* requests of a kind admitted in any window, wherever the window begins
\* (the sliding deque of RateLimiter::allow).
AtMostInWindow ==
    \A k \in Kind, key \in Key : \A i \in 1..Len(admitted[k][key]) :
        i + Limit(k) <= Len(admitted[k][key]) =>
            admitted[k][key][i + Limit(k)] - admitted[k][key][i] > Window

\* A request is refused for its rate only while the limit of its sender and
\* its own kind has really been admitted within the window that ends now:
\* requests of other senders, of the other kind and requests that were refused
\* do not count against it (the two limiters and the key of RateLimiter::allow).
RefusedOnlyWhenFull ==
    verdict = "limited" =>
        LET k == asked[1]
            a == admitted[k][RateKey(asked[2], asked[3])]
        IN /\ Len(a) >= Limit(k)
           /\ Limit(k) > 0 => now - a[Len(a) - Limit(k) + 1] <= Window

\* No request is admitted from a device or an address that was listed when
\* the receiver was started, whatever identifier it gives.
BlockedNeverAdmitted ==
    verdict = "admitted" =>
        asked[2] \notin loaded.devices /\ asked[3] \notin loaded.hosts

-----------------------------------------------------------------------------
(* The inductive invariant *)

\* The deque is the end of the log of one sender, never longer than its limit,
\* and everything before it has expired.
DequeInv(k, key) ==
    LET h == history[k][key]
        a == admitted[k][key]
    IN /\ Len(h) <= Len(a)
       /\ Len(h) <= Limit(k)
       /\ \A i \in 1..Len(h) : h[i] = a[Len(a) - Len(h) + i]
       /\ \A i \in 1..(Len(a) - Len(h)) : Expired(a[i])

IInv ==
    /\ TypeOK
    /\ \A k \in Kind, key \in Key : DequeInv(k, key)
    /\ AtMostInWindow
=============================================================================
