------------------------- MODULE PhoneReceiverProofs -------------------------
(***************************************************************************)
(* What holds of PhoneReceiver for any number of starts, requests, devices *)
(* and names.                                                              *)
(***************************************************************************)
EXTENDS PhoneReceiver, SequenceTheorems, TLAPS

Served    == {"request", "ask", "target", "receive", "complete", "record"}
Receiving == {"receive", "complete", "record"}
Leaving   == {"finally", "check", "stop", "dead"}

USE DEF serveVars

\* What the place of a thread says about its socket, its request, its paths
\* and the call of stop() it may be in.
ThreadInv ==
    \A i \in Thread :
        /\ i > started => tpc[i] = "none"
        /\ stopping[i] # "none" => tpc[i] = "stop"
        /\ serving[i] # Nothing <=> tpc[i] \in Served
        /\ asked[i] # NoAsk <=> tpc[i] \in Served \ {"request"}
        /\ target[i] # NoTarget <=> tpc[i] \in Receiving
        /\ tpc[i] \in {"none", "new"} => sock[i] = "none" /\ ref # i
        /\ tpc[i] = "bind" => sock[i] \in {"open", "closed"}
        /\ tpc[i] \in {"loop", "accept"} \cup Served => sock[i] \in {"bound", "closed"}
        /\ tpc[i] \in Leaving => sock[i] = "closed"

\* The loop over the chunks counts down to zero and is left then.
CountInv ==
    \A i \in Thread :
        /\ tpc[i] \notin Receiving => remaining[i] = Size
        /\ tpc[i] = "receive" => remaining[i] > 0
        /\ tpc[i] = "complete" => remaining[i] = 0

\* A request that is past the look at the records is of a device that is not
\* among those removed while none of theirs was served.
TrustInv ==
    /\ \A i \in Thread : asked[i] # NoAsk => asked[i].dev \notin removed
    /\ NotRevived

\* Only one thread receives, it has its two paths to itself, and what it has
\* received is behind its temporary path.
SaveInv ==
    /\ \A p \in Path : saved[p] # Nothing => saved[p] \in whole
    /\ ~crowded =>
          /\ \A i, j \in Thread :
                target[i] # NoTarget /\ target[j] # NoTarget => i = j
          /\ \A i \in Thread : tpc[i] \in {"receive", "complete"} =>
                /\ dir[target[i].part] = serving[i]
                /\ tree => saved[target[i].part] = Nothing
                /\ ~tree => /\ target[i].part = PartOf[target[i].file]
                            /\ dir[target[i].file] = Nothing
          /\ SavedIntact

\* While nothing has failed there is one thread at most, the last one, and a
\* stop() waits for it.
InOrder ==
    /\ \A i \in Thread : /\ tpc[i] \notin {"none", "dead"} => i = started
                         /\ stopping[i] = "none"
    /\ running =>
          /\ stopping[UI] = "none" /\ latest = started /\ started \in Thread
          /\ tpc[started] \in {"new", "bind", "loop", "accept"} \cup Served
          /\ sock[started] # "closed"
    /\ stopping[UI] = "close" => latest = started
    /\ stopping[UI] = "join" => waits[UI] = started
    /\ stopping[UI] = "report" \/ (stopping[UI] = "none" /\ ~running) =>
          \A i \in Thread : tpc[i] \in {"none", "dead"}
LifeInv == ~excused => InOrder

IInv ==
    TypeOK /\ ThreadInv /\ CountInv /\ RunningHasThread /\ TrustInv /\ SaveInv /\ LifeInv

-----------------------------------------------------------------------------
(* Typing. *)

\* A status change is queued.
LEMMA PostsAnother ==
    ASSUME NEW s \in Seq(BOOLEAN)
    PROVE  Append(s, TRUE) \in Seq(BOOLEAN) /\ Append(s, FALSE) \in Seq(BOOLEAN)
  BY AppendProperties

\* The steps of the activity and of the peers keep the types.
LEMMA OutsideTypes ==
    ASSUME TypeOK, Start \/ Stop \/ Destroy \/ ShowStatus \/ Arrive \/ \E d \in Device : Remove(d)
    PROVE  TypeOK'
<1> USE PhoneAssumption
<1>1. CASE Start
  <2>1. running' \in BOOLEAN /\ shown' \in BOOLEAN
    BY <1>1 DEF Start, TypeOK
  <2>3. started' \in 0..MaxStarts /\ latest' \in Caller
    BY <1>1 DEF Start, TypeOK, Thread, Caller
  <2>2. tpc' = tpc \/ tpc' = [tpc EXCEPT ![started + 1] = "new"]
    BY <1>1 DEF Start
  <2> QED
    BY <1>1, <2>1, <2>2, <2>3 DEF Start, TypeOK, requestVars, fileVars, trustVars
<1>2. CASE Stop
  BY <1>2 DEF Stop, Clears, TypeOK, Caller, UI, requestVars, fileVars, trustVars
<1>6. CASE Destroy
  <2>1. stopping' = [stopping EXCEPT ![UI] = "close"] \/ UNCHANGED stopping
    BY <1>6 DEF Destroy, Clears
  <2>2. running' \in BOOLEAN /\ gone' \in BOOLEAN /\ shown' \in BOOLEAN
    BY <1>6 DEF Destroy, Clears, TypeOK
  <2>3. posts' \in Seq(BOOLEAN)
    BY <1>6 DEF Destroy
  <2> QED
    BY <1>6, <2>1, <2>2, <2>3 DEF Destroy, TypeOK, requestVars, fileVars, trustVars
<1>3. CASE ShowStatus
  BY <1>3 DEF ShowStatus, TypeOK, requestVars, fileVars, trustVars
<1>4. CASE Arrive
  BY <1>4 DEF Arrive, TypeOK, Request, lifeVars, fileVars, trustVars
<1>5. ASSUME NEW d \in Device, Remove(d) PROVE TypeOK'
  BY <1>5 DEF Remove, TypeOK, lifeVars, requestVars, fileVars
<1> QED
  BY <1>1, <1>2, <1>3, <1>4, <1>5, <1>6

\* So do the steps of stop().
LEMMA StopTypes ==
    ASSUME TypeOK, NEW c \in Caller, StopStep(c)
    PROVE  TypeOK'
<1> USE PhoneAssumption
<1>1. CASE StopCloses(c)
  BY <1>1 DEF StopCloses, Closed, TypeOK, Thread, Caller, UI, Nothing, requestVars,
     fileVars, trustVars
<1>2. CASE StopJoins(c)
  BY <1>2 DEF StopJoins, TypeOK, Caller, UI, Nothing, requestVars, fileVars, trustVars
<1>3. CASE StopReports(c)
  <2>1. posts' \in Seq(BOOLEAN) /\ shown' \in BOOLEAN
    <3>1. CASE UNCHANGED posts /\ shown' = FALSE
      BY <3>1 DEF TypeOK
    <3>2. CASE Post(FALSE) /\ UNCHANGED shown
      BY <3>2, PostsAnother DEF Post, TypeOK
    <3> QED
      BY <1>3, <3>1, <3>2 DEF StopReports
  <2>2. tpc' = tpc \/ tpc' = [tpc EXCEPT ![c] = "dead"]
    BY <1>3 DEF StopReports
  <2> QED
    BY <1>3, <2>1, <2>2 DEF StopReports, TypeOK, requestVars, fileVars, trustVars
<1> QED
  BY <1>1, <1>2, <1>3 DEF StopStep

\* So do the steps of the accept loop.
LEMMA LoopTypes ==
    ASSUME TypeOK, NEW i \in Thread,
           \/ Publish(i) \/ Bind(i) \/ Loop(i) \/ Accept(i) \/ ClearRef(i) \/ Leave(i)
           \/ SocketFails(i)
    PROVE  TypeOK'
<1> USE PhoneAssumption DEF Goes, Closed, requestVars, fileVars, trustVars
<1>1. CASE Publish(i)
  BY <1>1 DEF Publish, TypeOK, Caller, stopVars
<1>2. CASE Bind(i)
  <2>1. posts' \in Seq(BOOLEAN)
    BY <1>2, PostsAnother DEF Bind, Post, TypeOK
  <2>2. /\ \/ tpc' = [tpc EXCEPT ![i] = "loop"]
           \/ tpc' = [tpc EXCEPT ![i] = "finally"]
        /\ \/ sock' = [sock EXCEPT ![i] = "bound"]
           \/ sock' = [sock EXCEPT ![i] = "closed"]
        /\ backlog' \in {{}, backlog}
    BY <1>2 DEF Bind
  <2>3. tpc' \in [Thread -> {"none", "new", "bind", "loop", "accept", "request",
                           "ask", "target", "receive", "complete",
                           "record", "finally", "check", "stop", "dead"}]
    BY <2>2 DEF TypeOK
  <2>4. /\ sock' \in [Thread -> {"none", "open", "bound", "closed"}]
        /\ backlog' \subseteq Request
    BY <2>2 DEF TypeOK
  <2> QED
    BY <1>2, <2>1, <2>3, <2>4 DEF Bind, TypeOK, stopVars
<1>3. CASE Loop(i)
  <2>1. /\ \E s \in {"accept", "finally"} : tpc' = [tpc EXCEPT ![i] = s]
        /\ UNCHANGED sock \/ sock' = [sock EXCEPT ![i] = "closed"]
        /\ backlog' \in {{}, backlog}
    BY <1>3 DEF Loop
  <2>2. tpc' \in [Thread -> {"none", "new", "bind", "loop", "accept", "request",
                           "ask", "target", "receive", "complete",
                           "record", "finally", "check", "stop", "dead"}]
    BY <2>1 DEF TypeOK
  <2>3. /\ sock' \in [Thread -> {"none", "open", "bound", "closed"}]
        /\ backlog' \subseteq Request
    BY <2>1 DEF TypeOK
  <2> QED
    BY <1>3, <2>2, <2>3 DEF Loop, TypeOK, lifeVars
<1>4. CASE Accept(i)
  <2>1. /\ \E s \in {"request", "loop", "finally"} : tpc' = [tpc EXCEPT ![i] = s]
        /\ backlog' \subseteq backlog
        /\ \/ UNCHANGED serving
           \/ \E r \in backlog : serving' = [serving EXCEPT ![i] = r]
        /\ UNCHANGED sock
    BY <1>4 DEF Accept
  <2>2. tpc' \in [Thread -> {"none", "new", "bind", "loop", "accept", "request",
                           "ask", "target", "receive", "complete",
                           "record", "finally", "check", "stop", "dead"}]
    BY <2>1 DEF TypeOK
  <2>3. backlog' \subseteq Request /\ serving' \in [Thread -> Request \cup {Nothing}]
    <3>1. backlog \subseteq Request /\ serving \in [Thread -> Request \cup {Nothing}]
      BY DEF TypeOK
    <3> QED
      BY <2>1, <3>1
  <2> QED
    BY <1>4, <2>1, <2>2, <2>3 DEF Accept, TypeOK, lifeVars
<1>5. CASE ClearRef(i)
  BY <1>5 DEF ClearRef, TypeOK, Caller, UI, Nothing, stopVars
<1>6. CASE Leave(i)
  <2>1. /\ \/ tpc' = [tpc EXCEPT ![i] = "stop"]
           \/ tpc' = [tpc EXCEPT ![i] = "dead"]
        /\ \/ stopping' = [stopping EXCEPT ![i] = "close"]
           \/ stopping' = stopping
    BY <1>6 DEF Leave
  <2>2. /\ tpc' \in [Thread -> {"none", "new", "bind", "loop", "accept", "request",
                              "ask", "target", "receive", "complete",
                              "record", "finally", "check", "stop", "dead"}]
        /\ stopping' \in [Caller -> {"none", "close", "join", "report"}]
    <3>1. /\ tpc \in [Thread -> {"none", "new", "bind", "loop", "accept", "request",
                                "ask", "target", "receive", "complete",
                                "record", "finally", "check", "stop", "dead"}]
          /\ stopping \in [Caller -> {"none", "close", "join", "report"}]
      BY DEF TypeOK
    <3> QED
      BY <2>1, <3>1
  <2>3. running' \in BOOLEAN
    BY <1>6 DEF Leave, TypeOK
  <2> QED
    BY <1>6, <2>2, <2>3 DEF Leave, TypeOK
<1>7. CASE SocketFails(i)
  BY <1>7 DEF SocketFails, TypeOK, lifeVars
<1> QED
  BY <1>1, <1>2, <1>3, <1>4, <1>5, <1>6, <1>7

\* The paths of a target are paths, and the final one is free.
LEMMA OpensPaths ==
    ASSUME TypeOK, NEW i \in Thread, OpenTarget(i)
    PROVE  \E f, part \in Path :
              /\ Opens(i, f, part)
              /\ dir[f] = Nothing
              /\ tree => dir[part] = Nothing
              /\ ~tree => part = PartOf[f]
<1>1. CASE OpenPrivate(i)
  <2>1. PICK f \in Path : FirstFree(f, Candidate, asked[i].name, dir) /\ Opens(i, f, PartOf[f])
    BY <1>1 DEF OpenPrivate
  <2> QED
    BY <1>1, <2>1, PhoneAssumption DEF OpenPrivate, FirstFree
<1>2. CASE OpenTree(i)
  <2>1. PICK f, part \in Path :
           /\ FirstFree(part, TreePart, asked[i].name, dir)
           /\ FirstFree(f, Candidate, asked[i].name, [dir EXCEPT ![part] = serving[i]])
           /\ Opens(i, f, part)
    BY <1>2 DEF OpenTree
  <2>2. dir[part] = Nothing /\ [dir EXCEPT ![part] = serving[i]][f] = Nothing
    BY <2>1 DEF FirstFree
  <2>3. dir[f] = Nothing
    BY <2>2 DEF TypeOK
  <2> QED
    BY <1>2, <2>1, <2>2, <2>3 DEF OpenTree
<1> QED
  BY <1>1, <1>2 DEF OpenTarget

\* So do the steps that handle a request.
LEMMA HandlerTypes ==
    ASSUME TypeOK, ThreadInv, CountInv, NEW i \in Thread,
           \/ Fails(i) \/ ReadRequest(i) \/ Answer(i) \/ OpenTarget(i) \/ Receive(i)
           \/ Commit(i) \/ Record(i)
    PROVE  TypeOK'
<1> USE PhoneAssumption DEF Goes, Ends, lifeVars, requestVars
<1>1. CASE Fails(i)
  BY <1>1 DEF Fails, TypeOK, trustVars
<1>2. CASE ReadRequest(i)
  <2>1. asked' \in [Thread -> Ask \cup {NoAsk}]
    BY <1>2 DEF ReadRequest, TypeOK
  <2> QED
    BY <1>2, <2>1 DEF ReadRequest, TypeOK, fileVars, trustVars
<1>3. CASE Answer(i)
  <2>1. CASE Agree(i)
    BY <2>1 DEF Agree, TypeOK, fileVars, trustVars
  <2>2. CASE Decline(i)
    BY <2>2 DEF Decline, TypeOK, trustVars
  <2> QED
    BY <1>3, <2>1, <2>2 DEF Answer
<1>4. CASE OpenTarget(i)
  <2>1. PICK f, part \in Path : Opens(i, f, part)
    BY <1>4, OpensPaths
  <2>2. target' \in [Thread -> [file : Path, part : Path] \cup {NoTarget}]
    BY <2>1 DEF Opens, TypeOK
  <2>3. serving[i] \in Request
    BY <1>4 DEF OpenTarget, OpenPrivate, OpenTree, TypeOK, ThreadInv, Served
  <2>4. dir' \in [Path -> Request \cup {Nothing}]
    BY <2>1, <2>3 DEF Opens, TypeOK
  <2>5. crowded' \in BOOLEAN
    BY <2>1 DEF Opens, TypeOK
  <2> QED
    BY <2>1, <2>2, <2>4, <2>5 DEF Opens, TypeOK, trustVars
<1>5. CASE Receive(i)
  <2>1. remaining[i] \in 0..Size /\ remaining[i] > 0
    BY <1>5 DEF Receive, TypeOK, CountInv
  <2>2. remaining' \in [Thread -> 0..Size]
    BY <1>5, <2>1 DEF Receive, TypeOK
  <2>3. tpc' = [tpc EXCEPT ![i] = "complete"] \/ tpc' = [tpc EXCEPT ![i] = "receive"]
    BY <1>5 DEF Receive
  <2> QED
    BY <1>5, <2>2, <2>3 DEF Receive, TypeOK, trustVars
<1>6. CASE Commit(i)
  <2>1. /\ serving[i] \in Request
        /\ target[i] \in [file : Path, part : Path]
    BY <1>6 DEF Commit, TypeOK, ThreadInv, Served, Receiving
  <2>2. dir[target[i].part] \in Request \cup {Nothing}
    BY <2>1 DEF TypeOK
  <2>3. dir' \in [Path -> Request \cup {Nothing}]
    <3>1. \/ \E f : dir' = [dir EXCEPT ![f] = dir[target[i].part], ![target[i].part] = Nothing]
          \/ dir' = [dir EXCEPT ![target[i].file] = Nothing]
      BY <1>6 DEF Commit
    <3> QED
      BY <2>2, <3>1 DEF TypeOK
  <2>4. saved' \in [Path -> Request \cup {Nothing}] /\ whole' \subseteq Request
    <3>1. /\ UNCHANGED saved \/ \E f : saved' = [saved EXCEPT ![f] = serving[i]]
          /\ UNCHANGED whole \/ whole' = whole \cup {serving[i]}
      BY <1>6 DEF Commit
    <3>2. saved \in [Path -> Request \cup {Nothing}] /\ whole \subseteq Request
      BY DEF TypeOK
    <3> QED
      BY <2>1, <3>1, <3>2
  <2>5. /\ \/ tpc' = [tpc EXCEPT ![i] = "record"]
           \/ tpc' = [tpc EXCEPT ![i] = "loop"]
        /\ \/ UNCHANGED <<serving, asked, target, remaining>>
           \/ /\ serving' = [serving EXCEPT ![i] = Nothing]
              /\ asked' = [asked EXCEPT ![i] = NoAsk]
              /\ target' = [target EXCEPT ![i] = NoTarget]
              /\ remaining' = [remaining EXCEPT ![i] = Size]
    BY <1>6 DEF Commit
  <2>6. serving' \in [Thread -> Request \cup {Nothing}] /\ asked' \in [Thread -> Ask \cup {NoAsk}]
    BY <2>5 DEF TypeOK
  <2>7. target' \in [Thread -> [file : Path, part : Path] \cup {NoTarget}]
    BY <2>5 DEF TypeOK
  <2>10. remaining' \in [Thread -> 0..Size]
    <3>1. Size \in 0..Size
      BY PhoneAssumption
    <3>2. remaining \in [Thread -> 0..Size]
      BY DEF TypeOK
    <3> QED
      BY <2>5, <3>1, <3>2
  <2>8. tpc' \in [Thread -> {"none", "new", "bind", "loop", "accept", "request",
                            "ask", "target", "receive", "complete",
                            "record", "finally", "check", "stop", "dead"}]
    BY <2>5 DEF TypeOK
  <2>9. UNCHANGED <<lifeVars, sock, requestVars, backlog, crowded, trustVars, excused>>
    BY <1>6 DEF Commit
  <2> QED
    BY <2>3, <2>4, <2>6, <2>7, <2>8, <2>9, <2>10 DEF TypeOK, trustVars
<1>7. CASE Record(i)
  <2>1. asked[i].dev \in Device
    BY <1>7 DEF Record, TypeOK, ThreadInv, Served, Ask
  <2>2. paired' \subseteq Device
    BY <1>7, <2>1 DEF Record, TypeOK
  <2>3. /\ tpc' = [tpc EXCEPT ![i] = "loop"]
        /\ serving' = [serving EXCEPT ![i] = Nothing]
        /\ asked' = [asked EXCEPT ![i] = NoAsk]
        /\ target' = [target EXCEPT ![i] = NoTarget]
        /\ remaining' = [remaining EXCEPT ![i] = Size]
    BY <1>7 DEF Record
  <2> QED
    BY <1>7, <2>2, <2>3 DEF Record, TypeOK
<1> QED
  BY <1>1, <1>2, <1>3, <1>4, <1>5, <1>6, <1>7

-----------------------------------------------------------------------------
(* The places of the threads. *)

\* The activity, the peers and stop().
LEMMA OutsideThreads ==
    ASSUME TypeOK, ThreadInv,
           \/ Start \/ Stop \/ Destroy \/ ShowStatus \/ Arrive
           \/ \E d \in Device : Remove(d)
           \/ \E c \in Caller : StopStep(c)
    PROVE  ThreadInv'
<1> USE PhoneAssumption DEF Thread, UI, Nothing
<1>1. CASE Start
  <2>1. CASE ~running /\ started < MaxStarts
    <3>1. /\ started + 1 \in Thread /\ started' = started + 1
          /\ UNCHANGED <<ref, stopping, sock, serving, asked, target>>
          /\ tpc'[started + 1] = "new"
          /\ \A j \in Thread : j # started + 1 => tpc'[j] = tpc[j]
      BY <1>1, <2>1 DEF Start, TypeOK, fileVars
    <3> QED
      BY <3>1 DEF TypeOK, ThreadInv, Served, Receiving, Leaving
  <2>2. CASE running
    BY <1>1, <2>2 DEF Start, ThreadInv, fileVars
  <2> QED
    BY <1>1, <2>1, <2>2 DEF Start
<1>2. CASE Stop \/ Destroy
  <2>1. /\ UNCHANGED <<ref, started, tpc, sock, serving, asked, target>>
        /\ UNCHANGED stopping \/ stopping' = [stopping EXCEPT ![UI] = "close"]
    BY <1>2 DEF Stop, Destroy, Clears, fileVars
  <2>2. ASSUME NEW i \in Thread PROVE stopping'[i] = stopping[i]
    <3>1. i # UI /\ i \in Caller
      BY PhoneAssumption DEF Caller
    <3>2. stopping \in [Caller -> {"none", "close", "join", "report"}]
      BY DEF TypeOK
    <3> QED
      BY <2>1, <3>1, <3>2
  <2> QED
    BY <2>1, <2>2 DEF ThreadInv
<1>3. CASE ShowStatus
  BY <1>3 DEF ShowStatus, ThreadInv, fileVars
<1>4. CASE Arrive
  BY <1>4 DEF Arrive, ThreadInv, lifeVars, fileVars
<1>5. ASSUME NEW d \in Device, Remove(d) PROVE ThreadInv'
  BY <1>5 DEF Remove, ThreadInv, lifeVars, fileVars
<1>6. ASSUME NEW c \in Caller, StopCloses(c) PROVE ThreadInv'
  <2>1. /\ UNCHANGED <<started, tpc, serving, asked, target>>
        /\ ref' = Nothing
        /\ stopping' = [stopping EXCEPT ![c] = "join"]
        /\ \A i \in Thread : sock'[i] = sock[i] \/ (ref = i /\ sock'[i] = "closed")
    BY <1>6 DEF StopCloses, Closed, TypeOK, Caller, fileVars
  <2> QED
    BY <1>6, <2>1 DEF StopCloses, TypeOK, ThreadInv, Caller, Served, Leaving
<1>7. ASSUME NEW c \in Caller, StopJoins(c) PROVE ThreadInv'
  BY <1>7 DEF StopJoins, TypeOK, Caller, ThreadInv, fileVars
<1>8. ASSUME NEW c \in Caller, StopReports(c) PROVE ThreadInv'
  <2>1. /\ UNCHANGED <<ref, started, sock, serving, asked, target>>
        /\ stopping[c] = "report"
        /\ \A i \in Thread : stopping'[i] = IF i = c THEN "none" ELSE stopping[i]
    BY <1>8 DEF StopReports, TypeOK, Caller, fileVars
  <2>2. CASE tpc' = tpc
    BY <2>1, <2>2 DEF ThreadInv
  <2>3. CASE c # UI /\ tpc' = [tpc EXCEPT ![c] = "dead"]
    <3>1. c \in Thread /\ tpc[c] = "stop"
      BY <2>1, <2>3 DEF Caller, ThreadInv
    <3>2. \A i \in Thread : tpc'[i] = IF i = c THEN "dead" ELSE tpc[i]
      BY <2>3 DEF TypeOK
    <3> QED
      BY <2>1, <3>1, <3>2 DEF ThreadInv, Served, Receiving, Leaving
  <2> QED
    BY <1>8, <2>2, <2>3 DEF StopReports
<1> QED
  BY <1>1, <1>2, <1>3, <1>4, <1>5, <1>6, <1>7, <1>8 DEF StopStep

\* The steps of the accept loop.
LEMMA LoopThreads ==
    ASSUME TypeOK, ThreadInv, NEW i \in Thread,
           \/ Publish(i) \/ Bind(i) \/ Loop(i) \/ Accept(i) \/ ClearRef(i) \/ Leave(i)
           \/ SocketFails(i)
    PROVE  ThreadInv'
<1> USE PhoneAssumption DEF Goes, Closed, Thread, Nothing, Served, Receiving, Leaving,
        requestVars, fileVars, trustVars
<1>1. CASE Publish(i)
  <2>1. /\ UNCHANGED <<started, stopping, serving, asked, target>> /\ tpc[i] = "new" /\ ref' = i
        /\ \A j \in Thread : j # i => tpc'[j] = tpc[j] /\ sock'[j] = sock[j]
        /\ tpc'[i] = "bind" /\ sock'[i] = "open"
    BY <1>1 DEF Publish, TypeOK, stopVars
  <2> QED
    BY <2>1 DEF ThreadInv
<1>2. CASE Bind(i)
  <2>1. /\ UNCHANGED <<started, stopping, serving, asked, target, ref>> /\ tpc[i] = "bind"
        /\ \A j \in Thread : j # i => tpc'[j] = tpc[j] /\ sock'[j] = sock[j]
        /\ \/ tpc'[i] = "loop" /\ sock'[i] = "bound"
           \/ tpc'[i] = "finally" /\ sock'[i] = "closed"
    <3>1. /\ UNCHANGED <<started, stopping, serving, asked, target, ref>> /\ tpc[i] = "bind"
          /\ \E s, k \in {"loop", "finally", "bound", "closed"} :
                /\ <<s, k>> \in {<<"loop", "bound">>, <<"finally", "closed">>}
                /\ tpc' = [tpc EXCEPT ![i] = s] /\ sock' = [sock EXCEPT ![i] = k]
      BY <1>2 DEF Bind, stopVars
    <3> QED
      BY <3>1 DEF TypeOK
  <2> QED
    BY <2>1 DEF ThreadInv
<1>3. CASE Loop(i)
  BY <1>3 DEF Loop, TypeOK, ThreadInv, lifeVars
<1>4. CASE Accept(i)
  <2>1. /\ UNCHANGED <<started, stopping, sock, asked, target, ref>> /\ tpc[i] = "accept"
        /\ \A j \in Thread : j # i => tpc'[j] = tpc[j] /\ serving'[j] = serving[j]
        /\ \/ tpc'[i] = "request" /\ serving'[i] \in Request
           \/ tpc'[i] = "loop" /\ serving'[i] = serving[i]
           \/ tpc'[i] = "finally" /\ serving'[i] = serving[i] /\ sock[i] = "closed"
    BY <1>4 DEF Accept, TypeOK, lifeVars
  <2> QED
    BY <2>1 DEF ThreadInv, Request
<1>5. CASE ClearRef(i)
  BY <1>5 DEF ClearRef, TypeOK, ThreadInv, stopVars
<1>6. CASE Leave(i)
  <2>1. /\ UNCHANGED <<started, sock, serving, asked, target, ref>> /\ tpc[i] = "check"
        /\ \A j \in Thread : j # i => tpc'[j] = tpc[j] /\ stopping'[j] = stopping[j]
        /\ \/ tpc'[i] = "stop"
           \/ tpc'[i] = "dead" /\ stopping'[i] = stopping[i]
    <3>1. tpc \in [Thread -> {"none", "new", "bind", "loop", "accept", "request",
                             "ask", "target", "receive", "complete",
                             "record", "finally", "check", "stop", "dead"}]
          /\ DOMAIN stopping = Caller
      BY DEF TypeOK
    <3> QED
      BY <1>6, <3>1 DEF Leave, Caller
  <2> DEFINE Place(j) ==
        /\ j > started => tpc[j] = "none"
        /\ stopping[j] # "none" => tpc[j] = "stop"
        /\ serving[j] # Nothing <=> tpc[j] \in Served
        /\ asked[j] # NoAsk <=> tpc[j] \in Served \ {"request"}
        /\ target[j] # NoTarget <=> tpc[j] \in Receiving
        /\ tpc[j] \in {"none", "new"} => sock[j] = "none" /\ ref # j
        /\ tpc[j] = "bind" => sock[j] \in {"open", "closed"}
        /\ tpc[j] \in {"loop", "accept"} \cup Served => sock[j] \in {"bound", "closed"}
        /\ tpc[j] \in Leaving => sock[j] = "closed"
  <2>2. \A j \in Thread : Place(j)
    BY DEF ThreadInv
  <2>3. Place(i)'
    BY <2>1, <2>2
  <2>4. ASSUME NEW j \in Thread, j # i PROVE Place(j)'
    BY <2>1, <2>2, <2>4
  <2>5. \A j \in Thread : Place(j)'
    BY <2>3, <2>4
  <2> QED
    BY <2>5 DEF ThreadInv
<1>7. CASE SocketFails(i)
  <2>1. /\ UNCHANGED <<started, stopping, serving, asked, target, ref>>
        /\ tpc[i] \in {"bind", "accept"}
        /\ \A j \in Thread : j # i => tpc'[j] = tpc[j] /\ sock'[j] = sock[j]
        /\ tpc'[i] = "finally" /\ sock'[i] = "closed"
    BY <1>7 DEF SocketFails, TypeOK, lifeVars
  <2> QED
    BY <2>1 DEF ThreadInv
<1> QED
  BY <1>1, <1>2, <1>3, <1>4, <1>5, <1>6, <1>7

\* The steps that handle a request.
LEMMA HandlerThreads ==
    ASSUME TypeOK, ThreadInv, NEW i \in Thread,
           \/ Fails(i) \/ ReadRequest(i) \/ Answer(i) \/ OpenTarget(i) \/ Receive(i)
           \/ Commit(i) \/ Record(i)
    PROVE  ThreadInv'
<1>0. /\ UNCHANGED <<started, stopping, sock, ref>>
      /\ tpc[i] \in Served
  BY DEF Fails, ReadRequest, Answer, Agree, Decline, OpenTarget, OpenPrivate, OpenTree, Opens, Receive, Commit, Record,
     lifeVars, Served
<1>1. CASE Ends(i)
  BY <1>0, <1>1 DEF Ends, Goes, TypeOK, ThreadInv, Served, Receiving, Leaving
<1>2. ASSUME UNCHANGED <<serving, asked, target>>, NEW s \in Served \ {"request"}, Goes(i, s),
             tpc[i] # "request",
             s \in Receiving <=> tpc[i] \in Receiving
      PROVE  ThreadInv'
  <2>1. tpc'[i] = s /\ \A j \in Thread : j # i => tpc'[j] = tpc[j]
    BY <1>2 DEF Goes, TypeOK
  <2> QED
    BY <1>0, <1>2, <2>1 DEF ThreadInv, Served, Leaving
<1>3. CASE OpenTarget(i)
  <2>1. PICK f, part \in Path : Opens(i, f, part)
    BY <1>3, OpensPaths
  <2>2. [file |-> f, part |-> part] # NoTarget
    BY PhoneAssumption
  <2>3. /\ UNCHANGED <<serving, asked>> /\ Goes(i, "receive") /\ tpc[i] = "target"
        /\ \A j \in Thread : j # i => target'[j] = target[j]
        /\ target'[i] # NoTarget
    BY <1>3, <2>1, <2>2 DEF OpenTarget, OpenPrivate, OpenTree, Opens, TypeOK
  <2> QED
    BY <1>0, <2>3 DEF Goes, TypeOK, ThreadInv, Served, Receiving, Leaving
<1>4. CASE Ends(i) \/ OpenTarget(i)
  BY <1>1, <1>3, <1>4
<1>5. CASE Agree(i)
  <2>1. /\ UNCHANGED <<serving, asked, target>> /\ tpc[i] = "ask" /\ Goes(i, "target")
    BY <1>5 DEF Agree, fileVars
  <2> QED
    BY <1>2, <2>1 DEF Served, Receiving
<1>7. CASE ReadRequest(i)
  <2>1. /\ UNCHANGED <<serving, target>> /\ tpc[i] = "request" /\ Goes(i, "ask")
        /\ asked'[i] # NoAsk /\ \A j \in Thread : j # i => asked'[j] = asked[j]
    BY <1>7, PhoneAssumption DEF ReadRequest, fileVars, TypeOK
  <2> QED
    BY <1>0, <2>1 DEF Goes, TypeOK, ThreadInv, Served, Receiving, Leaving
<1>6. CASE Receive(i) \/ (Commit(i) /\ ~Ends(i))
  <2>1. /\ UNCHANGED <<serving, asked, target>> /\ tpc[i] \in Receiving
        /\ \E s \in Receiving : Goes(i, s)
    BY <1>6 DEF Receive, Commit, Receiving
  <2> QED
    BY <1>2, <2>1 DEF Served, Receiving
<1> QED
  BY <1>4, <1>5, <1>6, <1>7 DEF Fails, Answer, Decline, Record

-----------------------------------------------------------------------------
(* Running is more than a flag. *)

\* A thread leaves the places that count only when it clears the flag itself,
\* finds it cleared, or has cleared it before.
LEMMA RunningKept ==
    ASSUME TypeOK, ThreadInv, RunningHasThread, [Next]_vars
    PROVE  RunningHasThread'
<1> SUFFICES ASSUME running'
             PROVE  \E i \in Thread : tpc'[i] \notin {"none", "stop", "dead"}
  BY DEF RunningHasThread
<1>1. CASE Start
  <2>1. CASE ~running
    <3>1. started < MaxStarts /\ tpc' = [tpc EXCEPT ![started + 1] = "new"]
      BY <1>1, <2>1 DEF Start
    <3>2. started + 1 \in Thread
      BY <3>1, PhoneAssumption DEF TypeOK, Thread
    <3>3. tpc'[started + 1] = "new"
      BY <3>1, <3>2 DEF TypeOK
    <3> QED
      BY <3>2, <3>3
  <2> QED
    BY <1>1, <2>1 DEF Start, RunningHasThread
<1>2. CASE \/ Stop \/ Destroy \/ ShowStatus \/ Arrive \/ UNCHANGED vars
           \/ \E d \in Device : Remove(d)
  BY <1>2 DEF Stop, Destroy, Clears, ShowStatus, Arrive, Remove, vars, lifeVars, RunningHasThread
<1>3. ASSUME NEW c \in Caller, StopStep(c)
      PROVE  \E i \in Thread : tpc'[i] \notin {"none", "stop", "dead"}
  <2>1. running /\ \/ tpc' = tpc
                   \/ /\ c # UI /\ stopping[c] = "report"
                      /\ tpc' = [tpc EXCEPT ![c] = "dead"]
    BY <1>3 DEF StopStep, StopCloses, StopJoins, StopReports
  <2>2. c # UI /\ stopping[c] = "report" => c \in Thread /\ tpc[c] = "stop"
    BY DEF Caller, ThreadInv
  <2>3. PICK i \in Thread : tpc[i] \notin {"none", "stop", "dead"}
    BY <2>1 DEF RunningHasThread
  <2>4. tpc'[i] = tpc[i]
    BY <2>1, <2>2, <2>3 DEF TypeOK
  <2> QED
    BY <2>3, <2>4
<1>4. ASSUME NEW i \in Thread, ServerStep(i) \/ SocketFails(i)
      PROVE  \E j \in Thread : tpc'[j] \notin {"none", "stop", "dead"}
  <2>1. running /\ ~Leave(i)
    BY <1>4 DEF ServerStep, Publish, Bind, Loop, Accept, ClearRef, Leave, Fails, ReadRequest,
       Answer, Agree, Decline, OpenTarget, OpenPrivate, OpenTree, Opens, Receive, Commit, Record, SocketFails, lifeVars
  <2>2. \E s \in Served \cup {"bind", "loop", "accept", "finally", "check"} :
           tpc' = [tpc EXCEPT ![i] = s]
    BY <1>4, <2>1 DEF ServerStep, Publish, Bind, Loop, Accept, ClearRef, Fails, ReadRequest,
       Answer, Agree, Decline, OpenTarget, OpenPrivate, OpenTree, Opens, Receive, Commit, Record, SocketFails, Goes, Ends,
       Served
  <2>3. tpc'[i] \notin {"none", "stop", "dead"}
    BY <2>2 DEF TypeOK, Served
  <2> QED
    BY <2>3
<1> QED
  BY <1>1, <1>2, <1>3, <1>4 DEF Next

-----------------------------------------------------------------------------
(* Removed devices. *)

\* A removal counts only while no request of the device is served, so every
\* request that goes on is of a device that does not count as removed.
LEMMA TrustKept ==
    ASSUME TypeOK, ThreadInv, TrustInv, [Next]_vars
    PROVE  TrustInv'
<1>1. ASSUME UNCHANGED trustVars, \A i \in Thread : asked'[i] \in {asked[i], NoAsk}
      PROVE  TrustInv'
  BY <1>1 DEF TrustInv, NotRevived, trustVars
<1>2. CASE Start \/ Stop \/ Destroy \/ ShowStatus \/ Arrive \/ UNCHANGED vars
           \/ \E c \in Caller : StopStep(c)
  <2>1. UNCHANGED <<trustVars, asked>>
    BY <1>2 DEF Start, Stop, Destroy, ShowStatus, Arrive, StopStep, StopCloses, StopJoins,
       StopReports, vars
  <2> QED
    BY <1>1, <2>1
<1>3. ASSUME NEW d \in Device, Remove(d) PROVE TrustInv'
  BY <1>3 DEF Remove, TrustInv, NotRevived
<1>4. ASSUME NEW i \in Thread, ServerStep(i) \/ SocketFails(i) PROVE TrustInv'
  <2>1. CASE \/ Publish(i) \/ Bind(i) \/ Loop(i) \/ Accept(i) \/ ClearRef(i) \/ Leave(i)
             \/ SocketFails(i) \/ Agree(i) \/ OpenTarget(i) \/ Receive(i)
    <3>1. UNCHANGED <<trustVars, asked>>
      BY <2>1 DEF Publish, Bind, Loop, Accept, ClearRef, Leave, SocketFails, Agree,
         OpenTarget, OpenPrivate, OpenTree, Opens, Receive
    <3> QED
      BY <1>1, <3>1
  <2>2. CASE Fails(i) \/ Decline(i) \/ Commit(i)
    <3>1. UNCHANGED trustVars /\ (UNCHANGED asked \/ asked' = [asked EXCEPT ![i] = NoAsk])
      BY <2>2 DEF Fails, Decline, Commit, Ends
    <3> QED
      BY <1>1, <3>1 DEF TypeOK
  <2>3. CASE ReadRequest(i)
    <3>1. /\ UNCHANGED trustVars /\ asked'[i].dev \in paired
          /\ \A j \in Thread : j # i => asked'[j] = asked[j]
      BY <2>3 DEF ReadRequest, TypeOK
    <3> QED
      BY <3>1 DEF TrustInv, NotRevived, trustVars
  <2>4. CASE Record(i)
    <3>1. /\ paired' = paired \cup {asked[i].dev} /\ UNCHANGED removed
          /\ \A j \in Thread : asked'[j] \in {asked[j], NoAsk}
      BY <2>4 DEF Record, Ends, TypeOK
    <3>2. asked[i] # NoAsk
      BY <2>4 DEF Record, ThreadInv, Served
    <3> QED
      BY <3>1, <3>2 DEF TrustInv, NotRevived
  <2> QED
    BY <1>4, <2>1, <2>2, <2>3, <2>4 DEF ServerStep, Answer
<1> QED
  BY <1>2, <1>3, <1>4 DEF Next

-----------------------------------------------------------------------------
(* The loop over the chunks. *)

\* A thread takes up its count with a target and gives it back with it.
LEMMA CountKept ==
    ASSUME TypeOK, ThreadInv, CountInv, [Next]_vars
    PROVE  CountInv'
<1> USE PhoneAssumption
<1>1. ASSUME UNCHANGED remaining,
             \A i \in Thread : tpc'[i] = tpc[i] \/ (tpc[i] \notin Receiving /\ tpc'[i] \notin Receiving)
      PROVE  CountInv'
  BY <1>1 DEF CountInv, Receiving
<1>2. CASE Start \/ Stop \/ Destroy \/ ShowStatus \/ Arrive \/ UNCHANGED vars
           \/ (\E c \in Caller : StopStep(c)) \/ \E d \in Device : Remove(d)
  <2>1. /\ UNCHANGED remaining
        /\ \/ UNCHANGED tpc
           \/ started + 1 \in Thread /\ tpc' = [tpc EXCEPT ![started + 1] = "new"]
           \/ \E c \in Caller : stopping[c] = "report" /\ tpc' = [tpc EXCEPT ![c] = "dead"]
    <3>1. CASE Start
      BY <3>1 DEF Start, fileVars, TypeOK, Thread
    <3> QED
      BY <1>2, <3>1 DEF Stop, Destroy, ShowStatus, Arrive, StopStep, StopCloses, StopJoins,
         StopReports, Remove, lifeVars, fileVars, vars
  <2>2. \A i \in Thread : i = started + 1 => tpc[i] = "none"
    BY DEF TypeOK, ThreadInv, Thread
  <2>3. \A i \in Thread : stopping[i] = "report" => tpc[i] = "stop"
    BY DEF ThreadInv
  <2>4. \A i \in Thread : tpc'[i] = tpc[i] \/ (tpc[i] \notin Receiving /\ tpc'[i] \notin Receiving)
    BY <2>1, <2>2, <2>3 DEF TypeOK, Receiving
  <2> QED
    BY <1>1, <2>1, <2>4
<1>3. ASSUME NEW i \in Thread, ServerStep(i) \/ SocketFails(i) PROVE CountInv'
  <2>1. CASE \/ Publish(i) \/ Bind(i) \/ Loop(i) \/ Accept(i) \/ ClearRef(i) \/ Leave(i)
             \/ SocketFails(i) \/ ReadRequest(i) \/ Agree(i)
    <3>1. /\ UNCHANGED remaining /\ tpc[i] \notin Receiving
          /\ \E s \in {"bind", "loop", "accept", "request", "ask", "target"} \cup Leaving :
                tpc' = [tpc EXCEPT ![i] = s]
      BY <2>1 DEF Publish, Bind, Loop, Accept, ClearRef, Leave, SocketFails, ReadRequest,
         Agree, Goes, fileVars, Receiving, Leaving
    <3>2. \A j \in Thread : tpc'[j] = tpc[j] \/ (tpc[j] \notin Receiving /\ tpc'[j] \notin Receiving)
      BY <3>1 DEF TypeOK, Receiving, Leaving
    <3> QED
      BY <1>1, <3>1, <3>2
  <2>2. CASE Ends(i)
    <3>1. /\ tpc'[i] = "loop" /\ remaining'[i] = Size
          /\ \A j \in Thread : j # i => tpc'[j] = tpc[j] /\ remaining'[j] = remaining[j]
      BY <2>2 DEF Ends, Goes, TypeOK
    <3> QED
      BY <3>1 DEF CountInv, Receiving
  <2>3. CASE OpenTarget(i)
    <3>1. /\ UNCHANGED remaining /\ tpc[i] = "target" /\ tpc'[i] = "receive"
          /\ \A j \in Thread : j # i => tpc'[j] = tpc[j]
      BY <2>3 DEF OpenTarget, OpenPrivate, OpenTree, Opens, Goes, TypeOK
    <3>2. remaining[i] > 0
      <4>1. remaining[i] = Size
        BY <3>1 DEF CountInv, Receiving
      <4> QED
        BY <4>1
    <3>3. ASSUME NEW j \in Thread, j # i
          PROVE  /\ tpc'[j] = tpc[j] /\ remaining'[j] = remaining[j]
      BY <3>1, <3>3
    <3> QED
      BY <3>1, <3>2, <3>3 DEF CountInv, Receiving
  <2>4. CASE Receive(i)
    <3>1. /\ tpc[i] = "receive" /\ remaining[i] \in 0..Size /\ remaining'[i] = remaining[i] - 1
          /\ tpc'[i] = IF remaining[i] = 1 THEN "complete" ELSE "receive"
          /\ \A j \in Thread : j # i => tpc'[j] = tpc[j] /\ remaining'[j] = remaining[j]
      BY <2>4 DEF Receive, Goes, TypeOK
    <3> QED
      BY <3>1 DEF CountInv, Receiving
  <2>5. CASE Commit(i) /\ ~Ends(i)
    <3>1. /\ UNCHANGED remaining /\ tpc'[i] = "record"
          /\ \A j \in Thread : j # i => tpc'[j] = tpc[j]
      BY <2>5 DEF Commit, Goes, TypeOK
    <3> QED
      BY <2>5, <3>1 DEF CountInv, Receiving
  <2> QED
    BY <1>3, <2>1, <2>2, <2>3, <2>4, <2>5 DEF ServerStep, Answer, Fails, Decline, Record
<1> QED
  BY <1>2, <1>3 DEF Next

-----------------------------------------------------------------------------
(* The files. *)

\* What was there stays, as far as a phone is concerned with it.
KeepsFiles ==
    \A p \in Path : saved[p] # Nothing /\ ~AtRisk(p) /\ ~crowded => dir'[p] = dir[p]

\* A step that touches no file; a thread may leave its paths.
LEMMA NoFileTouched ==
    ASSUME TypeOK, ThreadInv, SaveInv, UNCHANGED <<dir, saved, whole, crowded, tree>>,
           \A i \in Thread :
              /\ target'[i] \in {target[i], NoTarget}
              /\ tpc'[i] \in {"receive", "complete"} =>
                    /\ tpc[i] \in {"receive", "complete"} /\ target'[i] = target[i]
                    /\ serving'[i] = serving[i]
    PROVE  SaveInv' /\ KeepsFiles
<1>1. \A i, j \in Thread :
         target'[i] # NoTarget /\ target'[j] # NoTarget =>
            target[i] # NoTarget /\ target[j] # NoTarget
  OBVIOUS
<1> QED
  BY <1>1 DEF SaveInv, SavedIntact, AtRisk, KeepsFiles

\* The paths of a thread that receives.
LEMMA PathsOf ==
    ASSUME TypeOK, ThreadInv, NEW i \in Thread, tpc[i] \in Receiving
    PROVE  /\ serving[i] \in Request /\ serving[i] # Nothing
           /\ target[i] # NoTarget
           /\ target[i].part \in Path /\ target[i].file \in Path
  BY DEF TypeOK, ThreadInv, Receiving, Served

\* A target is chosen.
LEMMA OpenKeepsFiles ==
    ASSUME TypeOK, ThreadInv, SaveInv, NEW i \in Thread, OpenTarget(i)
    PROVE  SaveInv' /\ KeepsFiles
<1>0. tpc[i] = "target" /\ serving[i] \in Request /\ serving[i] # Nothing
  BY DEF OpenTarget, OpenPrivate, OpenTree, TypeOK, ThreadInv, Served
<1>1. PICK final, part \in Path :
         /\ Opens(i, final, part)
         /\ dir[final] = Nothing
         /\ tree => dir[part] = Nothing
         /\ ~tree => part = PartOf[final]
  BY OpensPaths
<1>2. /\ UNCHANGED <<serving, saved, whole, tree>>
      /\ crowded' = (crowded \/ \E j \in Thread \ {i} : target[j] # NoTarget)
      /\ tpc'[i] = "receive" /\ \A j \in Thread : j # i => tpc'[j] = tpc[j]
      /\ target'[i] = [file |-> final, part |-> part]
      /\ \A j \in Thread : j # i => target'[j] = target[j]
      /\ dir'[part] = serving[i] /\ \A p \in Path : p # part => dir'[p] = dir[p]
  BY <1>1 DEF Opens, TypeOK, Goes, requestVars
<1>3. ~tree => part # final /\ AtRisk(part)
  BY <1>1, PhoneAssumption DEF AtRisk
<1>4. ASSUME ~crowded, tree
      PROVE  saved[part] = Nothing
  BY <1>1, <1>4 DEF SaveInv, SavedIntact, AtRisk
<1>5. ASSUME ~crowded, NEW p \in Path, saved[p] # Nothing, ~AtRisk(p)
      PROVE  p # part
  BY <1>3, <1>4, <1>5
<1>6. KeepsFiles
  BY <1>2, <1>5 DEF KeepsFiles
<1>7. ASSUME ~crowded'
      PROVE  /\ \A j, n \in Thread :
                   target'[j] # NoTarget /\ target'[n] # NoTarget => j = n
             /\ \A j \in Thread : tpc'[j] \in {"receive", "complete"} =>
                   /\ dir'[target'[j].part] = serving'[j]
                   /\ tree' => saved'[target'[j].part] = Nothing
                   /\ ~tree' => /\ target'[j].part = PartOf[target'[j].file]
                                /\ dir'[target'[j].file] = Nothing
             /\ SavedIntact'
  <2>1. ~crowded /\ \A j \in Thread : j # i => target[j] = NoTarget
    BY <1>2, <1>7
  <2>2. \A j \in Thread : j # i => target'[j] = NoTarget
    BY <1>2, <2>1
  <2>3. \A j \in Thread : j # i => tpc'[j] \notin {"receive", "complete"}
    BY <1>2, <2>1 DEF ThreadInv, Receiving
  <2>4. target'[i].part = part /\ target'[i].file = final
    BY <1>2
  <2>5. /\ dir'[part] = serving'[i] /\ (tree' => saved'[part] = Nothing)
        /\ ~tree' => part = PartOf[final] /\ dir'[final] = Nothing
    BY <1>1, <1>2, <1>3, <1>4, <2>1
  <2>6. SavedIntact'
    BY <1>2, <1>5, <2>1 DEF SaveInv, SavedIntact, AtRisk
  <2> QED
    BY <2>2, <2>3, <2>4, <2>5, <2>6
<1>8. \A p \in Path : saved'[p] # Nothing => saved'[p] \in whole'
  BY <1>2 DEF SaveInv
<1> QED
  BY <1>6, <1>7, <1>8 DEF SaveInv

\* A file is put in place: it is whole, and its place was free.
LEMMA CommitKeepsFiles ==
    ASSUME TypeOK, ThreadInv, CountInv, SaveInv, NEW i \in Thread, Commit(i)
    PROVE  SaveInv' /\ KeepsFiles
<1> DEFINE p == target[i].part
           file == target[i].file
<1>0. /\ tpc[i] = "complete" /\ serving[i] \in Request /\ serving[i] # Nothing
      /\ target[i] # NoTarget /\ p \in Path /\ file \in Path /\ remaining[i] = 0
  BY PathsOf DEF Commit, Receiving, CountInv
<1>1. /\ UNCHANGED <<crowded, tree>>
      /\ \A j \in Thread : j # i => /\ tpc'[j] = tpc[j] /\ target'[j] = target[j]
                                    /\ serving'[j] = serving[j]
      /\ tpc'[i] \in {"record", "loop"} /\ target'[i] \in {target[i], NoTarget}
  BY DEF Commit, TypeOK, Goes, Ends, requestVars
<1> DEFINE To(f) == /\ ~tree => f = file
                    /\ tree => dir[f] = Nothing
                    /\ dir' = [dir EXCEPT ![f] = dir[p], ![p] = Nothing]
                    /\ saved' = [saved EXCEPT ![f] = serving[i]]
                    /\ whole' = whole \cup {serving[i]}
<1>2. \/ \E f \in Path : To(f)
      \/ /\ ~tree /\ dir[p] = Nothing
         /\ dir' = [dir EXCEPT ![file] = Nothing]
         /\ UNCHANGED <<saved, whole>>
  <2>1. \A f \in Path : FirstFree(f, Candidate, asked[i].name, dir) => dir[f] = Nothing
    BY DEF FirstFree
  <2> QED
    BY <1>0, <2>1 DEF Commit
<1>3. ~crowded => /\ dir[p] = serving[i] /\ dir[p] # Nothing
                  /\ tree => saved[p] = Nothing
                  /\ ~tree => p = PartOf[file] /\ dir[file] = Nothing
  BY <1>0 DEF SaveInv
<1>4. CASE ~tree /\ dir[p] = Nothing /\ UNCHANGED <<saved, whole>> /\
           dir' = [dir EXCEPT ![file] = Nothing]
  BY <1>1, <1>3, <1>4 DEF SaveInv, KeepsFiles
<1>5. ASSUME NEW f \in Path, To(f)
      PROVE  SaveInv' /\ KeepsFiles
  <2>1. \A q \in Path : saved'[q] # Nothing => saved'[q] \in whole'
    BY <1>0, <1>5 DEF TypeOK, SaveInv
  <2>2. ASSUME ~crowded
        PROVE  /\ \A q \in Path : saved[q] # Nothing /\ ~AtRisk(q) => dir'[q] = dir[q]
               /\ \A j \in Thread : tpc'[j] \notin {"receive", "complete"}
               /\ SavedIntact'
               /\ \A j, n \in Thread :
                     target'[j] # NoTarget /\ target'[n] # NoTarget => j = n
    <3>1. SavedIntact /\ dir[f] = Nothing /\ f # p /\ (~tree => AtRisk(p))
      BY <1>0, <1>3, <1>5, <2>2 DEF SaveInv, AtRisk
    <3>2. /\ dir'[f] = serving[i] /\ dir'[p] = Nothing
          /\ \A q \in Path : q # f /\ q # p => dir'[q] = dir[q]
          /\ saved'[f] = serving[i] /\ \A q \in Path : q # f => saved'[q] = saved[q]
      BY <1>0, <1>3, <1>5, <2>2, <3>1 DEF TypeOK
    <3>3. \A q \in Path : saved[q] # Nothing /\ ~AtRisk(q) => q # f /\ q # p
      BY <1>3, <2>2, <3>1 DEF SavedIntact
    <3>4. \A j \in Thread : j # i => target[j] = NoTarget
      BY <1>0, <2>2 DEF SaveInv
    <3>5. \A j \in Thread : tpc'[j] \notin {"receive", "complete"}
      BY <1>1, <3>4 DEF ThreadInv, Receiving
    <3>6. SavedIntact'
      <4>2. saved[p] = Nothing \/ AtRisk(p)
        BY <1>3, <2>2, <3>1
      <4> SUFFICES ASSUME NEW q \in Path, saved'[q] # Nothing, ~AtRisk(q)'
                   PROVE  dir'[q] = saved'[q] /\ saved'[q] \in whole'
        BY DEF SavedIntact
      <4>3. ~AtRisk(q)
        BY <1>1 DEF AtRisk
      <4> QED
        BY <2>1, <3>1, <3>2, <4>2, <4>3 DEF SavedIntact
    <3>7. \A j \in Thread : j # i => target'[j] = NoTarget
      BY <1>1, <3>4
    <3> QED
      BY <3>2, <3>3, <3>5, <3>6, <3>7
  <2>3. KeepsFiles
    BY <2>2 DEF KeepsFiles
  <2> QED
    BY <1>1, <2>1, <2>2, <2>3 DEF SaveInv
<1> HIDE DEF To
<1> QED
  BY <1>2, <1>4, <1>5

\* Every step.
LEMMA SaveKept ==
    ASSUME TypeOK, ThreadInv, CountInv, SaveInv, [Next]_vars
    PROVE  SaveInv' /\ KeepsFiles
<1> DEFINE Touches == \E i \in Thread : OpenTarget(i) \/ Commit(i)
<1>1. CASE Touches
  BY <1>1, OpenKeepsFiles, CommitKeepsFiles
<1>2. CASE ~Touches
  <2>1. UNCHANGED <<dir, saved, whole, crowded, tree>>
    BY <1>2 DEF Next, Start, Stop, Destroy, Clears, ShowStatus, Arrive, StopStep, StopCloses, StopJoins,
       StopReports, ServerStep, Publish, Bind, Loop, Accept, ClearRef, Leave, Fails, ReadRequest,
       Answer, Agree, Decline, Receive, Record, SocketFails, Remove, requestVars, fileVars, vars
  <2>2. \A i \in Thread :
           /\ target'[i] \in {target[i], NoTarget}
           /\ tpc'[i] \in {"receive", "complete"} =>
                 /\ tpc[i] \in {"receive", "complete"} /\ target'[i] = target[i]
                 /\ serving'[i] = serving[i]
    <3>1. CASE UNCHANGED <<target, serving, tpc>>
      BY <3>1
    <3>2. ASSUME UNCHANGED <<target, serving>>, NEW j \in Int, NEW s,
                 s \notin {"receive", "complete"}, tpc' = [tpc EXCEPT ![j] = s]
          PROVE  \A i \in Thread :
                   /\ target'[i] \in {target[i], NoTarget}
                   /\ tpc'[i] \in {"receive", "complete"} =>
                         /\ tpc[i] \in {"receive", "complete"} /\ target'[i] = target[i]
                         /\ serving'[i] = serving[i]
      BY <3>2 DEF TypeOK
    <3>3. ASSUME NEW j \in Thread, Accept(j) \/ Ends(j)
          PROVE  \A i \in Thread :
                   /\ target'[i] \in {target[i], NoTarget}
                   /\ tpc'[i] \in {"receive", "complete"} =>
                         /\ tpc[i] \in {"receive", "complete"} /\ target'[i] = target[i]
                         /\ serving'[i] = serving[i]
      BY <3>3 DEF Accept, Ends, Goes, TypeOK, fileVars
    <3>6. ASSUME NEW j \in Thread, Receive(j)
          PROVE  \A i \in Thread :
                   /\ target'[i] \in {target[i], NoTarget}
                   /\ tpc'[i] \in {"receive", "complete"} =>
                         /\ tpc[i] \in {"receive", "complete"} /\ target'[i] = target[i]
                         /\ serving'[i] = serving[i]
      BY <3>6 DEF Receive, Goes, TypeOK
    <3>4. CASE Start \/ Stop \/ Destroy \/ ShowStatus \/ Arrive \/ UNCHANGED vars
               \/ (\E c \in Caller : StopStep(c)) \/ \E d \in Device : Remove(d)
      <4>1. /\ UNCHANGED <<target, serving>>
            /\ \/ UNCHANGED tpc
               \/ tpc' = [tpc EXCEPT ![started + 1] = "new"]
               \/ \E c \in Caller : tpc' = [tpc EXCEPT ![c] = "dead"]
        BY <3>4 DEF Start, Stop, Destroy, Clears, ShowStatus, Arrive, StopStep, StopCloses, StopJoins,
           StopReports, Remove, lifeVars, fileVars, vars
      <4>2. started + 1 \in Int /\ Caller \subseteq Int
        BY PhoneAssumption DEF TypeOK, Caller, UI, Thread
      <4> QED
        BY <3>1, <3>2, <4>1, <4>2
    <3>5. ASSUME NEW j \in Thread, ServerStep(j) \/ SocketFails(j),
                 ~Accept(j), ~Ends(j), ~Receive(j)
          PROVE  \A i \in Thread :
                   /\ target'[i] \in {target[i], NoTarget}
                   /\ tpc'[i] \in {"receive", "complete"} =>
                         /\ tpc[i] \in {"receive", "complete"} /\ target'[i] = target[i]
                         /\ serving'[i] = serving[i]
      <4>1. /\ UNCHANGED <<target, serving>>
            /\ \E s \in {"bind", "loop", "accept", "ask", "target"} \cup Leaving :
                  tpc' = [tpc EXCEPT ![j] = s]
        BY <1>2, <3>5 DEF ServerStep, Publish, Bind, Loop, ClearRef, Leave, Fails,
           ReadRequest, Answer, Agree, Decline, Record, SocketFails, Goes, fileVars, Leaving
      <4>2. PICK s \in {"bind", "loop", "accept", "ask", "target"} \cup Leaving :
               tpc' = [tpc EXCEPT ![j] = s]
        BY <4>1
      <4>3. j \in Int /\ s \notin {"receive", "complete"}
        BY DEF Thread, Leaving
      <4> QED
        BY <3>2, <4>1, <4>2, <4>3
    <3> QED
      BY <3>3, <3>4, <3>5, <3>6 DEF Next
  <2> QED
    BY <2>1, <2>2, NoFileTouched
<1> QED
  BY <1>1, <1>2

-----------------------------------------------------------------------------
(* One thread at a time. *)

\* Who takes the start back.
OffStep == running /\ ~running' => stopping'[UI] = "close" \/ excused

\* The activity, the peers and stop().
LEMMA OutsideInOrder ==
    ASSUME TypeOK, ThreadInv, InOrder, ~excused',
           \/ Start \/ Stop \/ Destroy \/ ShowStatus \/ Arrive \/ UNCHANGED vars
           \/ \E d \in Device : Remove(d)
           \/ \E c \in Caller : StopStep(c)
    PROVE  InOrder' /\ OffStep
<1>1. CASE Start
  <2>1. CASE running
    BY <1>1, <2>1 DEF Start, InOrder, OffStep
  <2>2. CASE ~running
    <3>1. /\ started < MaxStarts /\ started' = started + 1 /\ latest' = started + 1
          /\ tpc' = [tpc EXCEPT ![started + 1] = "new"] /\ stopping[UI] = "none"
          /\ UNCHANGED <<stopping, sock, waits>>
      BY <1>1, <2>2 DEF Start
    <3>2. started + 1 \in Thread
      BY <3>1, PhoneAssumption DEF TypeOK, Thread
    <3>3. /\ tpc[started + 1] = "none" /\ tpc'[started + 1] = "new"
          /\ \A i \in Thread : i # started + 1 => tpc'[i] = tpc[i]
      BY <3>1, <3>2 DEF TypeOK, ThreadInv, Thread
    <3>4. sock[started + 1] = "none"
      BY <3>2, <3>3 DEF ThreadInv
    <3>5. \A i \in Thread : tpc[i] \in {"none", "dead"}
      BY <2>2, <3>1 DEF InOrder
    <3>6. \A i \in Thread : stopping[i] = "none"
      BY DEF InOrder
    <3>7. running' /\ ~running
      BY <1>1, <2>2 DEF Start
    <3> QED
      BY <3>1, <3>2, <3>3, <3>4, <3>5, <3>6, <3>7 DEF InOrder, OffStep
  <2> QED
    BY <2>1, <2>2
<1>2. CASE Stop \/ (Destroy /\ running)
  <2>1. /\ running /\ ~running' /\ stopping'[UI] = "close"
        /\ \A i \in Thread : stopping'[i] = stopping[i]
        /\ UNCHANGED <<tpc, started, latest, sock, waits>>
    <3>1. /\ running /\ ~running' /\ stopping' = [stopping EXCEPT ![UI] = "close"]
          /\ UNCHANGED <<tpc, started, latest, sock, waits>>
      BY <1>2 DEF Stop, Destroy, Clears
    <3> QED
      BY <3>1 DEF TypeOK, Caller, UI, Thread
  <2> QED
    BY <2>1 DEF InOrder, OffStep
<1>3. CASE \/ Destroy /\ ~running
           \/ ShowStatus \/ Arrive \/ UNCHANGED vars \/ \E d \in Device : Remove(d)
  BY <1>3 DEF Destroy, ShowStatus, Arrive, Remove, lifeVars, vars, InOrder, OffStep
<1>4. ASSUME NEW c \in Caller, StopStep(c)
      PROVE  InOrder' /\ OffStep
  <2>1. c = UI
    BY <1>4 DEF StopStep, StopCloses, StopJoins, StopReports, InOrder, Caller
  <2>2. /\ UNCHANGED <<running, started>> /\ \A i \in Thread : stopping'[i] = stopping[i]
        /\ stopping[UI] # "none"
    <3>1. /\ UNCHANGED <<running, started>> /\ stopping[UI] # "none"
          /\ \/ stopping' = [stopping EXCEPT ![UI] = "join"]
             \/ stopping' = [stopping EXCEPT ![UI] = "report"]
             \/ stopping' = [stopping EXCEPT ![UI] = "none"]
      BY <1>4, <2>1 DEF StopStep, StopCloses, StopJoins, StopReports
    <3> QED
      BY <3>1 DEF TypeOK, Caller, UI, Thread
  <2>3. ~running
    BY <2>2 DEF InOrder
  <2>4. CASE StopCloses(c)
    <3>1. /\ UNCHANGED tpc /\ stopping'[UI] = "join" /\ stopping[UI] = "close"
          /\ waits'[UI] = latest
      BY <2>1, <2>4 DEF StopCloses, TypeOK, Caller
    <3> QED
      BY <2>2, <2>3, <3>1 DEF InOrder, OffStep
  <2>5. CASE StopJoins(c)
    <3>1. /\ UNCHANGED tpc /\ stopping'[UI] = "report" /\ stopping[UI] = "join"
          /\ \A i \in Thread : waits[UI] = i => tpc[i] = "dead"
      BY <2>1, <2>5 DEF StopJoins, TypeOK, Caller, UI, Thread
    <3> QED
      BY <2>2, <2>3, <3>1 DEF InOrder, OffStep
  <2>6. CASE StopReports(c)
    <3>1. UNCHANGED tpc /\ stopping'[UI] = "none" /\ stopping[UI] = "report"
      BY <2>1, <2>6 DEF StopReports, TypeOK, Caller
    <3> QED
      BY <2>2, <2>3, <3>1 DEF InOrder, OffStep
  <2> QED
    BY <1>4, <2>4, <2>5, <2>6 DEF StopStep
<1> QED
  BY <1>1, <1>2, <1>3, <1>4

\* The threads.  The one there is does not leave while the flag is set: its
\* socket is its own, and open.
LEMMA ServerInOrder ==
    ASSUME TypeOK, ThreadInv, InOrder, ~excused', NEW i \in Thread,
           ServerStep(i) \/ SocketFails(i)
    PROVE  InOrder' /\ OffStep
<1>1. /\ tpc[i] \notin {"none", "dead"} /\ ~SocketFails(i)
      /\ UNCHANGED <<latest, started, waits>>
  BY DEF ServerStep, Publish, Bind, Loop, Accept, ClearRef, Leave, Fails, ReadRequest, Answer,
     Agree, Decline, OpenTarget, OpenPrivate, OpenTree, Opens, Receive, Commit, Record, SocketFails, lifeVars, stopVars
<1>2. /\ i = started /\ \A j \in Thread : j # i => tpc[j] \in {"none", "dead"}
      /\ \A j \in Thread : stopping[j] = "none"
      /\ stopping[UI] # "report" /\ (stopping[UI] = "none" => running)
  BY <1>1 DEF InOrder
<1>3. \A j \in Thread : j # i => sock[j] # "bound"
  BY <1>2 DEF ThreadInv, Leaving, Served
<1>4. running => /\ tpc[i] \in {"new", "bind", "loop", "accept"} \cup Served
                 /\ sock[i] # "closed"
  BY <1>2 DEF InOrder
<1>5. ASSUME UNCHANGED <<running, stopping>>, NEW s, s \notin {"none"}, Goes(i, s),
             running => /\ s \in {"new", "bind", "loop", "accept"} \cup Served
                        /\ sock'[i] # "closed"
      PROVE  InOrder' /\ OffStep
  <2>1. tpc'[i] = s /\ \A j \in Thread : j # i => tpc'[j] = tpc[j]
    BY <1>5 DEF Goes, TypeOK
  <2>2. stopping[UI] # "none" => stopping'[UI] # "none" /\ ~running'
    BY <1>5 DEF InOrder
  <2> QED
    BY <1>1, <1>2, <1>5, <2>1, <2>2 DEF InOrder, OffStep
<1>6. CASE Publish(i)
  <2>1. UNCHANGED <<running, stopping>> /\ Goes(i, "bind") /\ sock'[i] # "closed"
    BY <1>6 DEF Publish, stopVars, TypeOK
  <2> QED
    BY <1>5, <2>1
<1>7. CASE Bind(i)
  <2>1. /\ UNCHANGED <<running, stopping>>
        /\ \/ Goes(i, "loop") /\ sock'[i] # "closed"
           \/ Goes(i, "finally") /\ (sock[i] = "closed" \/ \E j \in Thread : sock[j] = "bound")
        /\ tpc[i] = "bind"
    BY <1>7 DEF Bind, stopVars, TypeOK
  <2>2. sock[i] # "bound"
    BY <2>1 DEF ThreadInv
  <2> QED
    BY <1>3, <1>4, <1>5, <2>1, <2>2
<1>8. CASE Loop(i)
  <2>1. /\ UNCHANGED <<running, stopping>>
        /\ \/ running /\ Goes(i, "accept") /\ UNCHANGED sock
           \/ ~running /\ Goes(i, "finally")
    BY <1>8 DEF Loop, lifeVars
  <2> QED
    BY <1>4, <1>5, <2>1
<1>9. CASE Accept(i)
  <2>1. /\ UNCHANGED <<running, stopping, sock>>
        /\ Goes(i, "request") \/ Goes(i, "loop") \/ (sock[i] = "closed" /\ Goes(i, "finally"))
    BY <1>9 DEF Accept, lifeVars
  <2> QED
    BY <1>4, <1>5, <2>1 DEF Served
<1>10. CASE ClearRef(i)
  <2>1. UNCHANGED <<running, stopping>> /\ Goes(i, "check") /\ ~running
    BY <1>4, <1>10 DEF ClearRef, stopVars, Served
  <2> QED
    BY <1>5, <2>1
<1>11. CASE Leave(i)
  <2>1. ~running
    BY <1>4, <1>11 DEF Leave, Served
  <2>2. UNCHANGED <<running, stopping>> /\ Goes(i, "dead")
    BY <1>11, <2>1 DEF Leave
  <2> QED
    BY <1>5, <2>1, <2>2
<1>12. CASE Fails(i) \/ ReadRequest(i) \/ Answer(i) \/ OpenTarget(i) \/ Receive(i)
            \/ Commit(i) \/ Record(i)
  <2>1. UNCHANGED <<running, stopping, sock>> /\ \E s \in Served \cup {"loop"} : Goes(i, s)
    BY <1>12 DEF Fails, ReadRequest, Answer, Agree, Decline, OpenTarget, OpenPrivate, OpenTree, Opens, Receive, Commit,
       Record, Ends, lifeVars, Served
  <2>2. PICK s \in Served \cup {"loop"} : Goes(i, s)
    BY <2>1
  <2>3. s \notin {"none"} /\ s \in {"new", "bind", "loop", "accept"} \cup Served
    BY DEF Served
  <2> QED
    BY <1>4, <1>5, <2>1, <2>2, <2>3
<1> QED
  BY <1>1, <1>6, <1>7, <1>8, <1>9, <1>10, <1>11, <1>12 DEF ServerStep

\* Every step; what has failed stays on record.
LEMMA LifeKept ==
    ASSUME TypeOK, ThreadInv, LifeInv, [Next]_vars
    PROVE  LifeInv' /\ OffStep
<1>1. excused => excused'
  <2>1. ASSUME NEW i \in Thread, ServerStep(i) \/ SocketFails(i) PROVE excused => excused'
    BY <2>1 DEF ServerStep, Publish, Bind, Loop, Accept, ClearRef, Leave, Fails, ReadRequest, Answer,
       Agree, Decline, OpenTarget, OpenPrivate, OpenTree, Opens, Receive, Commit, Record, SocketFails
  <2>2. ASSUME NEW c \in Caller, StopStep(c) PROVE excused => excused'
    BY <2>2 DEF StopStep, StopCloses, StopJoins, StopReports
  <2>3. CASE Start \/ Stop \/ Destroy \/ ShowStatus \/ Arrive \/ UNCHANGED vars
             \/ \E d \in Device : Remove(d)
    BY <2>3 DEF Start, Stop, Destroy, ShowStatus, Arrive, Remove, vars
  <2> QED
    BY <2>1, <2>2, <2>3 DEF Next
<1>2. CASE excused
  BY <1>1, <1>2 DEF LifeInv, OffStep
<1>3. CASE ~excused' /\ InOrder
  BY <1>3, OutsideInOrder, ServerInOrder DEF Next, LifeInv
<1>4. CASE ~excused /\ excused' /\ InOrder
  <2>1. UNCHANGED running
    <3>1. ASSUME NEW i \in Thread, ServerStep(i) \/ SocketFails(i) PROVE UNCHANGED running
      BY <1>4, <3>1 DEF ServerStep, Publish, Bind, Loop, Accept, ClearRef, Leave, Fails, ReadRequest,
         Answer, Agree, Decline, OpenTarget, OpenPrivate, OpenTree, Opens, Receive, Commit, Record,
         SocketFails, lifeVars
    <3>2. ASSUME NEW c \in Caller, StopStep(c) PROVE UNCHANGED running
      BY <3>2 DEF StopStep, StopCloses, StopJoins, StopReports
    <3>3. CASE Start \/ Stop \/ Destroy \/ ShowStatus \/ Arrive \/ UNCHANGED vars
               \/ \E d \in Device : Remove(d)
      BY <1>4, <3>3 DEF Start, Stop, Destroy, ShowStatus, Arrive, Remove, vars
    <3> QED
      BY <3>1, <3>2, <3>3 DEF Next
  <2> QED
    BY <1>4, <2>1 DEF LifeInv, OffStep
<1> QED
  BY <1>2, <1>3, <1>4 DEF LifeInv

-----------------------------------------------------------------------------
(* Theorems *)

\* The invariant holds from the first state on.
LEMMA Initially == Init => IInv
<1> SUFFICES ASSUME Init PROVE IInv
  OBVIOUS
<1> USE DEF Init, Thread, Nothing, UI
<1>1. TypeOK
  <2>1. /\ running \in BOOLEAN /\ shown \in BOOLEAN /\ crowded \in BOOLEAN
        /\ excused \in BOOLEAN /\ tree \in BOOLEAN /\ gone \in BOOLEAN
    OBVIOUS
  <2>4. posts \in Seq(BOOLEAN)
    <3>1. posts = <<>>
      OBVIOUS
    <3> QED
      BY <3>1
  <2>2. /\ started \in 0..MaxStarts /\ arrived \in 0..MaxRequests
        /\ remaining \in [Thread -> 0..Size]
    BY PhoneAssumption
  <2>3. /\ serving \in [Thread -> Request \cup {Nothing}]
        /\ asked \in [Thread -> Ask \cup {NoAsk}]
        /\ target \in [Thread -> [file : Path, part : Path] \cup {NoTarget}]
        /\ dir \in [Path -> Request \cup {Nothing}]
        /\ saved \in [Path -> Request \cup {Nothing}]
    OBVIOUS
  <2> QED
    BY <2>1, <2>2, <2>3, <2>4 DEF TypeOK, Caller
<1>2. ThreadInv /\ CountInv
  BY PhoneAssumption DEF Caller, ThreadInv, CountInv, Served, Receiving, Leaving
<1>4. RunningHasThread /\ TrustInv
  BY DEF RunningHasThread, TrustInv, NotRevived, Served
<1>5. LifeInv
  BY DEF LifeInv, InOrder, Caller
<1>3. SaveInv
  BY DEF SaveInv, SavedIntact
<1> QED
  BY <1>1, <1>2, <1>3, <1>4, <1>5 DEF IInv

\* Typing and the places of the threads, step by step.
LEMMA PlacesKept ==
    ASSUME TypeOK, ThreadInv, CountInv, [Next]_vars
    PROVE  TypeOK' /\ ThreadInv'
<1>1. CASE UNCHANGED vars
  BY <1>1 DEF vars, lifeVars, requestVars, fileVars, trustVars, TypeOK, ThreadInv
<1>2. CASE Next
  BY <1>2, OutsideTypes, StopTypes, LoopTypes, HandlerTypes, OutsideThreads, LoopThreads,
     HandlerThreads DEF Next, ServerStep
<1> QED
  BY <1>1, <1>2

\* Typing, the places of the threads, and all that follows from them, hold
\* always.
THEOREM Invariance == Spec => []IInv
<1>1. IInv /\ [Next]_vars => IInv'
  BY PlacesKept, CountKept, RunningKept, TrustKept, SaveKept, LifeKept DEF IInv
<1> QED
  BY <1>1, Initially, PTL DEF Spec

\* Every variable keeps its type.
THEOREM TypeCorrect == Spec => []TypeOK
<1>1. IInv => TypeOK
  BY DEF IInv
<1> QED
  BY <1>1, Invariance, PTL

\* The receiver never runs with nobody to accept.
THEOREM RunningIsServed == Spec => []RunningHasThread
<1>1. IInv => RunningHasThread
  BY DEF IInv
<1> QED
  BY <1>1, Invariance, PTL

\* A device removed while none of its requests was served does not come back.
THEOREM RemovedStaysRemoved == Spec => []NotRevived
<1>1. IInv => NotRevived
  BY DEF IInv, TrustInv
<1> QED
  BY <1>1, Invariance, PTL

\* A saved file is whole as long as no two threads have been receiving, unless
\* its path is the temporary path of another name.
THEOREM SavedStaysWhole == Spec => []SavedUnlessCrowded
<1>1. IInv => SavedUnlessCrowded
  BY DEF IInv, SaveInv, SavedUnlessCrowded
<1> QED
  BY <1>1, Invariance, PTL

\* No later request touches it either.
THEOREM FilesAreKept == Spec => FilesKept
<1>1. IInv /\ [Next]_vars =>
         [\A p \in Path : saved[p] # Nothing /\ ~AtRisk(p) /\ ~crowded => dir'[p] = dir[p]]_vars
  BY SaveKept DEF IInv, KeepsFiles
<1> QED
  BY <1>1, Invariance, PTL DEF Spec, FilesKept

\* As long as nothing fails only the user, or the end of the activity, ends what
\* the user has started.
THEOREM OnlyTheUserStops == Spec => OffByReason
<1>1. IInv /\ [Next]_vars => [running /\ ~running' => stopping'[UI] = "close" \/ excused]_vars
  BY LifeKept DEF IInv, OffStep
<1> QED
  BY <1>1, Invariance, PTL DEF Spec, OffByReason
=============================================================================
