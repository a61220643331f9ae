----------------------------- MODULE Discovery -----------------------------
(***************************************************************************)
(* How devices find each other by UDP: a running receiver announces itself *)
(* every second (PresenceAnnouncer, runPresenceLoop) and answers lookups   *)
(* of its connection code (CodeLookupService, runCodeLookupLoop); a        *)
(* desktop searches with DeviceDiscoveryService, a phone with              *)
(* DesktopDiscoveryScanner; codes are looked up by the form and by         *)
(* ConnectionCodeResolver.                                                 *)
(*                                                                         *)
(* Announcements and lookups go to one port, which every search and every  *)
(* lookup thread of the network shares.  A datagram reaches any subset of  *)
(* those that listen.  Tick is a second.  Whoever sends once a second has  *)
(* sent, and who reads has read what came, when it ends: both take far     *)
(* less.  Answers to lookups may be as late as they like.                  *)
(*                                                                         *)
(* A payload is a sequence of characters, an identifier or a code counting *)
(* as one of them.  Ports and hosts are left out, and so is the order in   *)
(* which devices are shown.                                                *)
(***************************************************************************)
EXTENDS Integers, Sequences, FiniteSets

CONSTANTS Char,        \* the characters of names
          Device,
          Phone,       \* those that are phones
          Code,        \* the connection codes
          Coding,      \* the codes the devices may have
          Naming,      \* the names they may have, as sequences of characters
          None,        \* no device
          StaleAfter,  \* seconds after which a desktop forgets a device
          Duration,    \* seconds a search takes
          MaxUses,     \* bound: how often users start something
          SocketFault  \* whether a socket may fail to open, bind, send or receive

Backslash == "\\"
Bar == "|"
Special == {Backslash, Bar}

ASSUME DiscoveryAssumption ==
    /\ Phone \subseteq Device /\ None \notin Device
    /\ (Device \cup Code) \cap Special = {}
    /\ Naming \subseteq [Device -> Seq(Char)]
    /\ Coding \subseteq [Device -> Code]
    /\ StaleAfter \in Nat \ {0} /\ Duration \in Nat \ {0}
    /\ MaxUses \in Nat /\ SocketFault \in BOOLEAN

VARIABLES
    name, code,     \* of each device
    announcer,      \* the announcing thread of its receiver
    lookup,         \* the thread that answers lookups
    sent,           \* the threads and searches that have announced this second
    asked,          \* the lookups that wait at a device: who asks
    searching,      \* the search of a device
    left,           \* the seconds it has left
    list,           \* the devices it has found
    inbox,          \* the datagrams it has not read
    resolving,      \* the lookup a device has made
    wanted,         \* the code it asked for
    replies,        \* the answers it has not read
    result,         \* the device it took
    uses,           \* what users have started: receivers, searches, lookups
    \* history
    down,           \* the seconds since a device last could announce itself
    steady,         \* the devices announcing ever since a search began
    missed,         \* those of whom it has missed an announcement
    upDuring        \* the devices with a receiver since a lookup was sent

receiverVars == <<announcer, lookup, asked>>
searchVars   == <<searching, left, list, inbox, steady, missed>>
lookupVars   == <<resolving, wanted, replies, result, upDuring>>
vars == <<name, code, receiverVars, sent, searchVars, lookupVars, uses, down>>

-----------------------------------------------------------------------------
(* Payloads *)

\* escape_field: a backslash before each special character.
Escape(s) ==
    LET out[i \in 0..Len(s)] ==
          IF i = 0 THEN <<>>
          ELSE out[i - 1] \o IF s[i] \in Special THEN <<Backslash, s[i]>> ELSE <<s[i]>>
    IN out[Len(s)]

\* unescape_field: a character after a backslash is taken as it is.
UnescapeChar(r, ch) ==
    IF ch = Backslash /\ ~r.escaping THEN [r EXCEPT !.escaping = TRUE]
    ELSE [text |-> Append(r.text, ch), escaping |-> FALSE]

Unescape(s) ==
    LET at[i \in 0..Len(s)] ==
          IF i = 0 THEN [text |-> <<>>, escaping |-> FALSE]
          ELSE UnescapeChar(at[i - 1], s[i])
    IN at[Len(s)]

\* Mutant: the escapes are left to whoever takes the field.
SplitCharRaw(a, ch) ==
    IF ~a.escaping /\ ch = Bar
      THEN [a EXCEPT !.fields = Append(@, a.current), !.current = <<>>]
    ELSE [a EXCEPT !.current = Append(@, ch), !.escaping = ~@ /\ ch = Backslash]

\* split_fields: it splits at the bars and removes the escapes as it goes.
SplitChar(a, ch) ==
    IF a.escaping THEN [a EXCEPT !.current = Append(@, ch), !.escaping = FALSE]
    ELSE IF ch = Backslash THEN [a EXCEPT !.escaping = TRUE]
    ELSE IF ch = Bar THEN [a EXCEPT !.fields = Append(@, a.current), !.current = <<>>]
    ELSE [a EXCEPT !.current = Append(@, ch)]

\* Where split_fields is after the last character.
Splitting(s) ==
    LET at[i \in 0..Len(s)] ==
          IF i = 0 THEN [fields |-> <<>>, current |-> <<>>, escaping |-> FALSE]
          ELSE SplitChar(at[i - 1], s[i])
    IN at[Len(s)]

Split(s) ==
    LET r == Splitting(s)
    IN [fields |-> Append(r.fields, r.current), escaping |-> r.escaping]

Announcement(d) == [kind |-> "announce", dev |-> d]
LookupOf(d)     == [kind |-> "lookup", dev |-> d]
MatchOf(d)      == [kind |-> "match", dev |-> d]

Payload(m) ==
    CASE m.kind = "announce" ->
            <<"LFT_DISCOVERY", Bar>> \o <<"1", Bar>> \o <<m.dev, Bar>>
                \o Escape(name[m.dev]) \o <<Bar, "port">>
      [] m.kind = "lookup" ->
            <<"LFT_CODE_LOOKUP", Bar>> \o <<"1", Bar>> \o <<wanted[m.dev]>>
      [] m.kind = "match" ->
            <<"LFT_CODE_MATCH", Bar>> \o <<"1", Bar>> \o <<code[m.dev], Bar>> \o <<m.dev, Bar>>
                \o Escape(name[m.dev]) \o <<Bar, "port">>

\* What a decoder makes of payload p: the device in field k and the name after
\* it.  twice: it unescapes the fields that the splitting has unescaped.
Decoded(p, prefix, count, k, twice) ==
    LET s == Split(p)
        n == Unescape(s.fields[k + 1]) IN
    IF \/ s.escaping
       \/ Len(s.fields) # count
       \/ s.fields[1] # <<prefix>>
       \/ twice /\ n.escaping
      THEN [dev |-> None, name |-> <<>>]
      ELSE [dev |-> s.fields[k][1], name |-> IF twice THEN n.text ELSE s.fields[k + 1]]

ParseDiscovery(p) == Decoded(p, "LFT_DISCOVERY", 5, 3, TRUE)

\* The form takes the fields as they are split, the phone decodes them again.
\* Both check the code, which is the third field.
ParseMatch(d, p) ==
    LET s == Split(p) IN
    IF Len(s.fields) < 3 \/ s.fields[3] # <<wanted[d]>> THEN [dev |-> None, name |-> <<>>]
    ELSE Decoded(p, "LFT_CODE_MATCH", 6, 4, d \in Phone)

-----------------------------------------------------------------------------

LongDown == Duration + StaleAfter + 1   \* bound: as long as anyone looks back
NoOne == [dev |-> None, name |-> <<>>]
Absent == [age |-> -1, name |-> <<>>]
Listed(d) == {e \in Device : list[d][e] # Absent}
Running(d) == searching[d] = "run"

Init ==
    /\ name \in Naming
    /\ code \in Coding
    /\ announcer = [d \in Device |-> "off"]
    /\ lookup = [d \in Device |-> "off"]
    /\ sent = {}
    /\ asked = [d \in Device |-> {}]
    /\ searching = [d \in Device |-> "no"]
    /\ left = [d \in Device |-> 0]
    /\ list = [d \in Device |-> [e \in Device |-> Absent]]
    /\ inbox = [d \in Device |-> {}]
    /\ resolving = [d \in Device |-> "no"]
    /\ wanted = code
    /\ replies = [d \in Device |-> {}]
    /\ result = [d \in Device |-> NoOne]
    /\ uses = 0
    /\ down = [d \in Device |-> LongDown]
    /\ steady = [d \in Device |-> {}]
    /\ missed = [d \in Device |-> {}]
    /\ upDuring = [d \in Device |-> {}]

\* A user starts something.
Uses == uses < MaxUses /\ uses' = uses + 1

\* A broadcast reaches the searches in S and no others.
Reaches(m, S) ==
    /\ S \subseteq {d \in Device : Running(d)}
    /\ inbox' = [d \in Device |-> IF d \in S THEN inbox[d] \cup {m} ELSE inbox[d]]

\* An announcement of d reaches some of the searches.
Broadcasts(d) ==
    \E S \in SUBSET Device :
        /\ Reaches(Announcement(d), S)
        /\ missed' = [e \in Device |-> IF Running(e) /\ e \notin S THEN missed[e] \cup {d}
                                                                 ELSE missed[e]]

-----------------------------------------------------------------------------
(* The receiver of a device *)

\* Two threads start; the one for lookups may fail to bind its socket.
StartReceiver(d) ==
    /\ Uses
    /\ announcer[d] = "off"
    /\ announcer' = [announcer EXCEPT ![d] = "up"]
    /\ \E up \in {"up"} \cup IF SocketFault THEN {"dead"} ELSE {} :
          lookup' = [lookup EXCEPT ![d] = up]
    /\ down' = [down EXCEPT ![d] = 0]
    /\ upDuring' = [e \in Device |-> IF resolving[e] = "wait" THEN upDuring[e] \cup {d}
                                                              ELSE upDuring[e]]
    /\ UNCHANGED <<name, code, sent, asked, searchVars, resolving, wanted, replies,
                   result>>

\* The user stops it, or its process is killed.
StopReceiver(d) ==
    /\ announcer[d] # "off"
    /\ announcer' = [announcer EXCEPT ![d] = "off"]
    /\ lookup' = [lookup EXCEPT ![d] = "off"]
    /\ asked' = [asked EXCEPT ![d] = {}]
    /\ steady' = [e \in Device |-> steady[e] \ {d}]
    /\ UNCHANGED <<name, code, sent, searching, left, list, inbox, missed, lookupVars, uses, down>>

\* Announcements are left out while nobody searches.
Announce(d) ==
    /\ \E e \in Device : Running(e)
    /\ announcer[d] = "up"
    /\ <<d, "thread">> \notin sent
    /\ sent' = sent \cup {<<d, "thread">>}
    /\ Broadcasts(d)
    /\ UNCHANGED <<name, code, receiverVars, searching, left, list, steady, lookupVars, uses, down>>

\* An exception ends the thread, and nobody hears of it.
AnnouncerDies(d) ==
    /\ SocketFault
    /\ announcer[d] = "up"
    /\ announcer' = [announcer EXCEPT ![d] = "dead"]
    /\ steady' = [e \in Device |-> steady[e] \ {d}]
    /\ UNCHANGED <<name, code, lookup, asked, sent, searching, left, list, inbox, missed,
                   lookupVars, uses, down>>

\* A lookup of another code gets no answer, and an answer may be lost.
AnswerLookup(d) ==
    /\ lookup[d] = "up"
    /\ \E e \in asked[d] :
          /\ asked' = [asked EXCEPT ![d] = @ \ {e}]
          /\ \/ /\ Split(Payload(LookupOf(e))).fields[3] = <<code[d]>>
                /\ replies' = [replies EXCEPT ![e] = @ \cup {MatchOf(d)}]
             \/ UNCHANGED replies
    /\ UNCHANGED <<name, code, announcer, lookup, sent, searchVars, resolving, wanted,
                   result, upDuring, uses, down>>

LookupDies(d) ==
    /\ SocketFault
    /\ lookup[d] = "up"
    /\ lookup' = [lookup EXCEPT ![d] = "dead"]
    /\ asked' = [asked EXCEPT ![d] = {}]
    /\ UNCHANGED <<name, code, announcer, sent, searchVars, lookupVars, uses, down>>

ReceiverStep(d) == Announce(d) \/ AnswerLookup(d)

-----------------------------------------------------------------------------
(* Searching *)

\* A phone that answers lookups holds the port, and its scan cannot bind it.
Search(d) ==
    /\ Uses
    /\ ~Running(d)
    /\ searching' = [searching EXCEPT ![d] =
                       IF d \in Phone /\ lookup[d] = "up" THEN "failed" ELSE "run"]
    /\ left' = [left EXCEPT ![d] = Duration]
    /\ list' = [list EXCEPT ![d] = [e \in Device |-> Absent]]
    /\ down' = [down EXCEPT ![d] = IF d \in Phone THEN @ ELSE 0]
    /\ steady' = [steady EXCEPT ![d] = {e \in Device : announcer[e] = "up"}]
    /\ missed' = [missed EXCEPT ![d] = {}]
    /\ UNCHANGED <<name, code, receiverVars, sent, inbox, lookupVars>>

Leaves(d, how) ==
    /\ searching' = [searching EXCEPT ![d] = how]
    /\ inbox' = [inbox EXCEPT ![d] = {}]

\* A desktop announces itself while it searches, whether it receives or not.
AnnounceSearch(d) ==
    /\ Running(d)
    /\ d \notin Phone
    /\ <<d, "search">> \notin sent
    /\ sent' = sent \cup {<<d, "search">>}
    /\ Broadcasts(d)
    /\ UNCHANGED <<name, code, receiverVars, searching, left, list, steady, lookupVars, uses, down>>

\* A datagram that does not parse ends the search of a desktop; a phone goes
\* on.  A desktop does not list itself.
ReadDatagram(d) ==
    /\ Running(d)
    /\ \E m \in inbox[d] :
          LET found == ParseDiscovery(Payload(m)) IN
          \/ /\ found.dev = None
             /\ d \notin Phone
             /\ Leaves(d, "failed")
             /\ UNCHANGED list
          \/ /\ found.dev # None \/ d \in Phone
             /\ inbox' = [inbox EXCEPT ![d] = @ \ {m}]
             /\ list' = IF found.dev = None \/ (found.dev = d /\ d \notin Phone) THEN list
                        ELSE [list EXCEPT ![d][found.dev] = [age |-> 0, name |-> found.name]]
             /\ UNCHANGED searching
    /\ UNCHANGED <<name, code, receiverVars, sent, left, steady, missed, lookupVars, uses, down>>

EndSearch(d) ==
    /\ Running(d)
    /\ left[d] = 0
    /\ Leaves(d, "done")
    /\ UNCHANGED <<name, code, receiverVars, sent, left, list, steady, missed, lookupVars, uses, down>>

\* Its sockets fail.
SearchBreaks(d) ==
    /\ SocketFault
    /\ Running(d)
    /\ Leaves(d, "failed")
    /\ UNCHANGED <<name, code, receiverVars, sent, left, list, steady, missed, lookupVars, uses, down>>

SearchStep(d) == AnnounceSearch(d) \/ ReadDatagram(d) \/ EndSearch(d)

\* Mutant: a device is forgotten too early.
AgedEarly(entry) ==
    IF entry = Absent \/ entry.age + 1 >= StaleAfter THEN Absent
    ELSE [entry EXCEPT !.age = @ + 1]

\* Mutant: nothing is forgotten.
AgedOnly(entry) == IF entry = Absent THEN Absent ELSE [entry EXCEPT !.age = @ + 1]

\* prune_expired_devices
Aged(entry) ==
    IF entry = Absent \/ entry.age + 1 > StaleAfter THEN Absent
    ELSE [entry EXCEPT !.age = @ + 1]

MayAnnounce(d) == announcer[d] = "up" \/ (Running(d) /\ d \notin Phone)
Due == {<<d, "thread">> : d \in {e \in Device : announcer[e] = "up"}}
       \cup {<<d, "search">> : d \in {e \in Device : Running(e) /\ e \notin Phone}}

\* A second passes.  The loop of a desktop turns four times in it and forgets
\* what is stale; a phone forgets nothing.  Only searches look at the time.
Tick ==
    /\ \E d \in Device : Running(d)
    /\ Due \subseteq sent
    /\ \A d \in Device : Running(d) => inbox[d] = {} /\ left[d] > 0
    /\ sent' = {}
    /\ left' = [d \in Device |-> IF Running(d) THEN left[d] - 1 ELSE left[d]]
    /\ list' = [d \in Device |-> IF Running(d) /\ d \notin Phone
                                   THEN [e \in Device |-> Aged(list[d][e])]
                                   ELSE list[d]]
    /\ down' = [d \in Device |-> IF MayAnnounce(d) THEN 0
                                 ELSE IF down[d] < LongDown THEN down[d] + 1 ELSE down[d]]
    /\ UNCHANGED <<name, code, receiverVars, searching, inbox, steady, missed, lookupVars, uses>>

-----------------------------------------------------------------------------
(* Looking up a code *)

Ask(d) ==
    /\ Uses
    /\ resolving[d] # "wait"
    /\ resolving' = [resolving EXCEPT ![d] = "wait"]
    /\ \E c \in Code : wanted' = [wanted EXCEPT ![d] = c]
    /\ \E S \in SUBSET {e \in Device : lookup[e] = "up"} :
          asked' = [e \in Device |-> IF e \in S THEN asked[e] \cup {d} ELSE asked[e]]
    /\ \E S \in SUBSET Device : Reaches(LookupOf(d), S)
    /\ result' = [result EXCEPT ![d] = NoOne]
    /\ upDuring' = [upDuring EXCEPT ![d] = {e \in Device : announcer[e] # "off"}]
    /\ UNCHANGED <<name, code, announcer, lookup, sent, searching, left, list, steady,
                   missed, replies, down>>

\* Mutant: the socket is kept for the next lookup.
KeepsSocket(d) == UNCHANGED <<replies, asked>>

\* The lookup is over and its socket is closed: what is still to be answered
\* reaches nobody.
Closes(d) ==
    /\ replies' = [replies EXCEPT ![d] = {}]
    /\ asked' = [e \in Device |-> asked[e] \ {d}]

\* The first answer that parses is taken.
TakeReply(d) ==
    /\ resolving[d] = "wait"
    /\ \E m \in replies[d] :
          LET match == ParseMatch(d, Payload(m)) IN
          \/ /\ match # NoOne
             /\ resolving' = [resolving EXCEPT ![d] = "found"]
             /\ result' = [result EXCEPT ![d] = match]
             /\ Closes(d)
          \/ /\ match = NoOne
             /\ replies' = [replies EXCEPT ![d] = @ \ {m}]
             /\ UNCHANGED <<asked, resolving, result>>
    /\ UNCHANGED <<name, code, announcer, lookup, sent, searchVars, wanted, upDuring, uses, down>>

\* The form has heard nothing for 800 ms, or the phone for 2.5 s, or sending
\* has failed.
GiveUp(d) ==
    /\ resolving[d] = "wait"
    /\ resolving' = [resolving EXCEPT ![d] = "none"]
    /\ Closes(d)
    /\ UNCHANGED <<name, code, announcer, lookup, sent, searchVars, wanted, result,
                   upDuring, uses, down>>

Next ==
    \/ Tick
    \/ \E d \in Device :
          \/ StartReceiver(d) \/ StopReceiver(d) \/ ReceiverStep(d)
          \/ AnnouncerDies(d) \/ LookupDies(d)
          \/ Search(d) \/ SearchStep(d) \/ SearchBreaks(d)
          \/ Ask(d) \/ TakeReply(d) \/ GiveUp(d)

Spec == Init /\ [][Next]_vars

-----------------------------------------------------------------------------
(* Properties *)

\* Every variable has its type.
TypeOK ==
    /\ announcer \in [Device -> {"off", "up", "dead"}]
    /\ lookup \in [Device -> {"off", "up", "dead"}]
    /\ sent \subseteq Device \X {"thread", "search"}
    /\ asked \in [Device -> SUBSET Device]
    /\ searching \in [Device -> {"no", "run", "done", "failed"}]
    /\ left \in [Device -> 0..Duration]
    /\ inbox \in [Device -> SUBSET [kind : {"announce", "lookup"}, dev : Device]]
    /\ resolving \in [Device -> {"no", "wait", "none", "found"}]
    /\ wanted \in [Device -> Code]
    /\ replies \in [Device -> SUBSET [kind : {"match"}, dev : Device]]
    /\ uses \in 0..MaxUses /\ down \in [Device -> 0..LongDown]
    /\ steady \in [Device -> SUBSET Device]
    /\ missed \in [Device -> SUBSET Device]
    /\ upDuring \in [Device -> SUBSET Device]

Plain(n) == \A i \in 1..Len(n) : n[i] # Backslash

\* A search that ends lists no device that has been silent for longer than the
\* time it is remembered: five seconds on a desktop, the scan on a phone
\* (prune_expired_devices, scan).
NoGhosts ==
    [][\A d \in Device : Running(d) /\ searching'[d] = "done" =>
          \A e \in Listed(d) : down[e] <= IF d \in Phone THEN Duration ELSE StaleAfter]_vars

\* A receiver that announced itself all through a search that ended well, and of
\* whom no announcement was lost, is listed, unless its name has a backslash
\* (discover, scan).
UpIsListed ==
    \A d \in Device : searching[d] = "done" =>
        \A e \in steady[d] \ (missed[d] \cup {d}) : Plain(name[e]) => e \in Listed(d)

\* A name without a backslash is shown as its device has it, by every decoder,
\* and by the form, which decodes once, every name.
NamesSurvive ==
    \A d \in Device :
        /\ \A e \in Listed(d) : Plain(name[e]) => list[d][e].name = name[e]
        /\ resolving[d] = "found" =>
              LET e == result[d].dev IN
              d \notin Phone \/ Plain(name[e]) => result[d].name = name[e]

\* The device a lookup ends with has the code that was asked for, and has had a
\* receiver since the lookup was sent; so if no two devices share the code it
\* is the right one, however late the answers of earlier lookups are.
ResolvedRight ==
    \A d \in Device : resolving[d] = "found" =>
        code[result[d].dev] = wanted[d] /\ result[d].dev \in upDuring[d]

\* While its sockets work a desktop keeps its list until its search is over.
SearchSurvives == \A d \in Device \ Phone : searching[d] # "failed"
=============================================================================
