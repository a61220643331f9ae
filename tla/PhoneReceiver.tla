--------------------------- MODULE PhoneReceiver ---------------------------
(***************************************************************************)
(* The receiver of the phone, AndroidReceiverServer: the flag `running`,   *)
(* the server threads that start() makes, stop() and its joins with a time *)
(* limit, the accept loop, the handling of a request, the files it leaves  *)
(* in the receive folder and the buttons of the activity.                  *)
(*                                                                         *)
(* Thread i is the server thread of the i-th start().  It may outlive the  *)
(* stop() that was to end it, because join() waits 1200 ms only and a      *)
(* request may wait for the user or the peer; then it meets the flag, the  *)
(* socket and the files of the thread that came after it.  The threads     *)
(* that announce the phone and answer code lookups look at the flag every  *)
(* second at most, so they never outlive a stop(), and are left out.       *)
(*                                                                         *)
(* A file is named by the request that wrote it: dir says whose file is at *)
(* a path.  Requests are file requests: Pairing has the others.  What a    *)
(* peer and its user do is the subject of Transfer; here they send the     *)
(* next frame, or the request fails.                                       *)
(***************************************************************************)
EXTENDS Integers, Sequences, FiniteSets

CONSTANTS Device, Name,
          Path,         \* the paths in the receive folder
          Candidate,    \* the k-th path tried for a name
          TreePart,     \* the same for the name with ".part" added to it
          PartOf,       \* a path with ".part" added to it
          NoTarget, NoAsk,
          Size,         \* the chunks of a file
          MaxStarts,    \* bound: how often the user starts the receiver
          MaxRequests,  \* bound: how many requests arrive
          SocketFault   \* whether bind() and accept() may fail

Thread == 1..MaxStarts
UI == 0                     \* the thread of the activity, among the callers
Caller == {UI} \cup Thread
Request == 1..MaxRequests
Nothing == 0                \* no thread, no request, no file

\* What a file request asks for.
Ask == [dev : Device, name : Name]

ASSUME PhoneAssumption ==
    /\ Size \in Nat \ {0} /\ MaxStarts \in Nat /\ MaxRequests \in Nat
    /\ SocketFault \in BOOLEAN
    /\ Candidate \in [Name \X Request -> Path]
    /\ TreePart \in [Name \X Request -> Path]
    /\ PartOf \in [Path -> Path]
    /\ \A p \in Path : PartOf[p] # p
    /\ NoTarget \notin [file : Path, part : Path]
    /\ NoAsk \notin Ask

VARIABLES
    running,    \* the AtomicBoolean
    ref,        \* serverSocket: the thread whose socket it is
    latest,     \* serverThread
    started,    \* how many threads have been made
    gone,       \* the activity has been destroyed
    tpc,        \* where each thread is
    sock,       \* its ServerSocket
    stopping,   \* where each caller of stop() is
    waits,      \* the thread it joins
    shown,      \* what the buttons show: running or not
    posts,      \* the status changes queued for the activity's thread
    arrived,    \* how many requests have come
    backlog,    \* the requests not yet accepted
    serving,    \* the request a thread serves
    asked,      \* what it asks for, once that is read
    tree,       \* files go to a folder the user has chosen
    target,     \* the paths a thread receives to
    remaining,  \* the chunks it has yet to write
    dir,        \* the receive folder
    paired,     \* the phone's pairing records
    \* history
    saved,      \* whose file was reported saved at a path
    whole,      \* the requests whose file was whole then
    crowded,    \* two threads have been receiving at the same time
    excused,    \* a socket has failed, or a join has run into its limit
    removed     \* removed by the user while no request of theirs was served

lifeVars  == <<running, ref, latest, started, stopping, waits, shown, posts, gone>>
stopVars  == <<stopping, waits, latest>>
fileVars  == <<target, remaining, dir, saved, whole, crowded>>
trustVars == <<paired, removed>>
requestVars == <<arrived, tree>>
serveVars == <<serving, asked>>
vars == <<lifeVars, tpc, sock, requestVars, backlog, serveVars, fileVars,
          trustVars, excused>>

Init ==
    /\ running = FALSE
    /\ ref = Nothing
    /\ latest = Nothing
    /\ started = 0
    /\ gone = FALSE
    /\ tpc = [i \in Thread |-> "none"]
    /\ sock = [i \in Thread |-> "none"]
    /\ stopping = [c \in Caller |-> "none"]
    /\ waits = [c \in Caller |-> Nothing]
    /\ shown = FALSE
    /\ posts = <<>>
    /\ arrived = 0
    /\ backlog = {}
    /\ serving = [i \in Thread |-> Nothing]
    /\ asked = [i \in Thread |-> NoAsk]
    /\ tree \in BOOLEAN
    /\ target = [i \in Thread |-> NoTarget]
    /\ dir = [p \in Path |-> Nothing]
    /\ remaining = [i \in Thread |-> Size]
    /\ whole = {}
    /\ paired = Device
    /\ saved = [p \in Path |-> Nothing]
    /\ crowded = FALSE
    /\ excused = FALSE
    /\ removed = {}

-----------------------------------------------------------------------------
(* start() and stop() *)

\* The button is there while the activity shows the receiver stopped, and the
\* activity's thread is free.  A start() that finds the flag set only reports.
Start ==
    /\ ~shown
    /\ ~gone /\ stopping[UI] = "none"
    /\ \/ /\ ~running
          /\ started < MaxStarts
          /\ running' = TRUE
          /\ started' = started + 1
          /\ latest' = started + 1
          /\ tpc' = [tpc EXCEPT ![started + 1] = "new"]
          /\ UNCHANGED shown
       \/ /\ running
          /\ shown' = TRUE
          /\ UNCHANGED <<running, started, latest, tpc>>
    /\ UNCHANGED <<ref, sock, stopping, waits, posts, gone, requestVars, backlog,
                   serveVars, fileVars, trustVars, excused>>

\* stop() begins: a second call finds the flag cleared and returns.
Clears ==
    /\ running' = FALSE
    /\ stopping' = [stopping EXCEPT ![UI] = "close"]

Stop ==
    /\ shown
    /\ ~gone /\ stopping[UI] = "none"
    /\ running /\ Clears
    /\ UNCHANGED <<ref, latest, started, gone, waits, shown, posts, tpc, sock,
                   requestVars, backlog, serveVars, fileVars, trustVars, excused>>

\* The system destroys the activity, whatever it shows.  A dialog goes with it,
\* and nobody can press a button any more; what it would show is left out.
Destroy ==
    /\ ~gone /\ stopping[UI] = "none"
    /\ gone' = TRUE
    /\ shown' = FALSE /\ posts' = <<>>
    /\ IF running THEN Clears ELSE UNCHANGED <<running, stopping>>
    /\ UNCHANGED <<ref, latest, started, waits, tpc, sock,
                   requestVars, backlog, serveVars, fileVars, trustVars, excused>>

\* A closed socket loses the connections nobody accepted.
Closed(i) ==
    /\ sock' = [sock EXCEPT ![i] = "closed"]
    /\ backlog' = IF sock[i] = "bound" THEN {} ELSE backlog

StopCloses(c) ==
    /\ stopping[c] = "close"
    /\ IF ref = Nothing THEN UNCHANGED <<sock, backlog>> ELSE Closed(ref)
    /\ ref' = Nothing
    /\ waits' = [waits EXCEPT ![c] = latest]
    /\ stopping' = [stopping EXCEPT ![c] = "join"]
    /\ UNCHANGED <<running, latest, started, gone, shown, posts, tpc, requestVars,
                   serveVars, fileVars, trustVars, excused>>

\* The states in which a thread waits for a user, a peer or another thread,
\* and a join may run into its time limit.
Waiting == {"request", "ask", "receive", "complete", "stop"}

\* Mutant: the threads are not joined.
StopJoinsNobody(c) ==
    /\ stopping[c] = "join"
    /\ latest' = Nothing
    /\ waits' = [waits EXCEPT ![c] = Nothing]
    /\ stopping' = [stopping EXCEPT ![c] = "report"]
    /\ UNCHANGED <<running, ref, started, gone, shown, posts, tpc, sock,
                   requestVars, backlog, serveVars, fileVars, trustVars, excused>>

StopJoins(c) ==
    /\ stopping[c] = "join"
    /\ \/ /\ \A i \in Thread \ {c} : waits[c] = i => tpc[i] = "dead"
          /\ UNCHANGED excused
       \/ /\ waits[c] \in Thread \ {c}
          /\ tpc[waits[c]] \in Waiting
          /\ excused' = TRUE
    /\ latest' = Nothing
    /\ waits' = [waits EXCEPT ![c] = Nothing]
    /\ stopping' = [stopping EXCEPT ![c] = "report"]
    /\ UNCHANGED <<running, ref, started, gone, shown, posts, tpc, sock,
                   requestVars, backlog, serveVars, fileVars, trustVars>>

\* onStatusChanged: a status change is queued for the activity's thread.
Post(b) == posts' = IF gone THEN posts ELSE Append(posts, b)

\* The activity's own thread changes the buttons at once, ahead of what other
\* threads have queued.  A server thread that stopped the receiver ends.
StopReports(c) ==
    /\ stopping[c] = "report"
    /\ stopping' = [stopping EXCEPT ![c] = "none"]
    /\ \/ c = UI /\ shown' = FALSE /\ UNCHANGED <<posts, tpc>>
       \/ /\ c # UI
          /\ Post(FALSE)
          /\ tpc' = [tpc EXCEPT ![c] = "dead"]
          /\ UNCHANGED shown
    /\ UNCHANGED <<running, ref, latest, started, gone, waits, sock, requestVars,
                   backlog, serveVars, fileVars, trustVars, excused>>

StopStep(c) == StopCloses(c) \/ StopJoins(c) \/ StopReports(c)

\* The activity's thread takes the next queued status change.
ShowStatus ==
    /\ ~gone /\ posts # <<>>
    /\ stopping[UI] = "none"
    /\ shown' = Head(posts)
    /\ posts' = Tail(posts)
    /\ UNCHANGED <<running, ref, latest, started, gone, stopping, waits, tpc, sock,
                   requestVars, backlog, serveVars, fileVars, trustVars, excused>>

-----------------------------------------------------------------------------
(* runServerLoop *)

Goes(i, pc) == tpc' = [tpc EXCEPT ![i] = pc]

Publish(i) ==
    /\ tpc[i] = "new"
    /\ ref' = i
    /\ sock' = [sock EXCEPT ![i] = "open"]
    /\ Goes(i, "bind")
    /\ UNCHANGED <<running, stopVars, started, gone, shown, posts, requestVars, backlog,
                   serveVars, fileVars, trustVars, excused>>

Bind(i) ==
    /\ tpc[i] = "bind"
    /\ \/ /\ sock[i] = "open"
          /\ \A j \in Thread : sock[j] # "bound"
          /\ sock' = [sock EXCEPT ![i] = "bound"]
          /\ Post(TRUE)
          /\ Goes(i, "loop")
          /\ UNCHANGED backlog
       \/ /\ sock[i] = "closed" \/ \E j \in Thread : sock[j] = "bound"
          /\ Closed(i)
          /\ Goes(i, "finally")
          /\ UNCHANGED posts
    /\ UNCHANGED <<running, ref, stopVars, started, gone, shown, requestVars, serveVars,
                   fileVars, trustVars, excused>>

\* while (running.get()): whoever set the flag.
Loop(i) ==
    /\ tpc[i] = "loop"
    /\ \/ running /\ Goes(i, "accept") /\ UNCHANGED <<sock, backlog>>
       \/ ~running /\ Goes(i, "finally") /\ Closed(i)
    /\ UNCHANGED <<lifeVars, requestVars, serveVars, fileVars, trustVars, excused>>

\* Mutant: accept() has no time limit.
AcceptPatiently(i) ==
    /\ tpc[i] = "accept"
    /\ \/ /\ sock[i] = "bound"
          /\ \E r \in backlog :
                /\ serving' = [serving EXCEPT ![i] = r]
                /\ backlog' = backlog \ {r}
          /\ Goes(i, "request")
          /\ UNCHANGED sock
       \/ /\ sock[i] = "closed"
          /\ Goes(i, "finally")
          /\ UNCHANGED <<sock, backlog, serving>>
    /\ UNCHANGED <<lifeVars, requestVars, asked, fileVars, trustVars, excused>>

\* accept() returns a connection, runs into its time limit of a second, or
\* fails because another thread has closed the socket.
Accept(i) ==
    /\ tpc[i] = "accept"
    /\ \/ /\ sock[i] = "bound"
          /\ \E r \in backlog :
                /\ serving' = [serving EXCEPT ![i] = r]
                /\ backlog' = backlog \ {r}
          /\ Goes(i, "request")
          /\ UNCHANGED sock
       \/ /\ sock[i] = "bound"
          /\ Goes(i, "loop")
          /\ UNCHANGED <<sock, backlog, serving>>
       \/ /\ sock[i] = "closed"
          /\ Goes(i, "finally")
          /\ UNCHANGED <<sock, backlog, serving>>
    /\ UNCHANGED <<lifeVars, requestVars, asked, fileVars, trustVars, excused>>

\* bind() or accept() fails for a reason of the system's.
SocketFails(i) ==
    /\ SocketFault
    /\ \/ tpc[i] = "bind" /\ sock[i] = "open"
       \/ tpc[i] = "accept" /\ sock[i] = "bound"
    /\ Closed(i)
    /\ Goes(i, "finally")
    /\ excused' = TRUE
    /\ UNCHANGED <<lifeVars, requestVars, serveVars, fileVars, trustVars>>

\* The finally block clears serverSocket, whosever it is by now.
ClearRef(i) ==
    /\ tpc[i] = "finally"
    /\ ref' = Nothing
    /\ Goes(i, "check")
    /\ UNCHANGED <<running, stopVars, started, gone, shown, posts, sock, requestVars,
                   backlog, serveVars, fileVars, trustVars, excused>>

\* Mutant: the thread ends and leaves the flag set.
LeaveRunning(i) ==
    /\ tpc[i] = "check"
    /\ Goes(i, "dead")
    /\ UNCHANGED <<lifeVars, sock, requestVars, backlog, serveVars, fileVars,
                   trustVars, excused>>

\* If the flag is set the thread calls stop(): for its own start, or for one
\* that came later.
Leave(i) ==
    /\ tpc[i] = "check"
    /\ \/ /\ running
          /\ running' = FALSE
          /\ Goes(i, "stop")
          /\ stopping' = [stopping EXCEPT ![i] = "close"]
       \/ /\ ~running
          /\ Goes(i, "dead")
          /\ UNCHANGED <<running, stopping>>
    /\ UNCHANGED <<ref, latest, started, gone, waits, shown, posts, sock, requestVars,
                   backlog, serveVars, fileVars, trustVars, excused>>

-----------------------------------------------------------------------------
(* handleClient: handlePairRequest and handleFileRequest *)

\* The request ends, with whatever answer, and the thread goes back to its
\* loop.  Nothing in the folder is cleaned up.
Ends(i) ==
    /\ Goes(i, "loop")
    /\ serving' = [serving EXCEPT ![i] = Nothing]
    /\ asked' = [asked EXCEPT ![i] = NoAsk]
    /\ target' = [target EXCEPT ![i] = NoTarget]
    /\ remaining' = [remaining EXCEPT ![i] = Size]

\* The frame does not come in time or is not the one expected, the connection
\* ends, a check fails or the folder refuses.
Fails(i) ==
    /\ tpc[i] \in {"request", "target", "receive", "complete"}
    /\ Ends(i)
    /\ UNCHANGED <<lifeVars, sock, requestVars, backlog, dir, saved, whole, crowded,
                   trustVars, excused>>

\* Mutant: the pairing record is not looked up.
ReadRequestUnpaired(i) ==
    /\ tpc[i] = "request"
    /\ \E a \in Ask : asked' = [asked EXCEPT ![i] = a]
    /\ Goes(i, "ask")
    /\ UNCHANGED <<lifeVars, sock, requestVars, backlog, serving, fileVars,
                   trustVars, excused>>

\* A file request is read.  The pairing record is looked up before the user is
\* asked.
ReadRequest(i) ==
    /\ tpc[i] = "request"
    /\ \E a \in Ask : a.dev \in paired /\ asked' = [asked EXCEPT ![i] = a]
    /\ Goes(i, "ask")
    /\ UNCHANGED <<lifeVars, sock, requestVars, backlog, serving, fileVars,
                   trustVars, excused>>

\* confirmBlocking: the dialog is shown by the activity's thread, and the
\* server's thread waits for the answer without a limit.
Agree(i) ==
    /\ tpc[i] = "ask"
    /\ ~gone /\ stopping[UI] = "none"
    /\ Goes(i, "target")
    /\ UNCHANGED <<lifeVars, sock, requestVars, backlog, serveVars, fileVars,
                   trustVars, excused>>

Decline(i) ==
    /\ tpc[i] = "ask"
    /\ ~gone /\ stopping[UI] = "none"
    /\ Ends(i)
    /\ UNCHANGED <<lifeVars, sock, requestVars, backlog, dir, saved, whole, crowded,
                   trustVars, excused>>

\* Path p is the first of the paths c tries for name n that is free in folder d.
FirstFree(p, c, n, d) ==
    \E k \in Request :
        /\ p = c[<<n, k>>] /\ d[p] = Nothing
        /\ \A j \in 1..(k - 1) : d[c[<<n, j>>]] # Nothing

\* Thread i will receive to file f by way of part.
Opens(i, f, part) ==
    /\ target' = [target EXCEPT ![i] = [file |-> f, part |-> part]]
    /\ dir' = [dir EXCEPT ![part] = serving[i]]
    /\ crowded' = (crowded \/ \E j \in Thread \ {i} : target[j] # NoTarget)
    /\ Goes(i, "receive")
    /\ UNCHANGED <<lifeVars, sock, requestVars, backlog, serveVars, remaining,
                   saved, whole, trustVars, excused>>

\* Mutant: the final path need not be free.
OpenPrivateAnywhere(i) ==
    /\ tpc[i] = "target" /\ ~tree
    /\ \E k \in Request :
          LET f == Candidate[<<asked[i].name, k>>] IN Opens(i, f, PartOf[f])

\* createReceiveTarget in the application's own folder: the temporary path
\* goes with the final one, and a file found there is deleted, a saved one too.
OpenPrivate(i) ==
    /\ tpc[i] = "target" /\ ~tree
    /\ \E f \in Path :
          /\ FirstFree(f, Candidate, asked[i].name, dir)
          /\ Opens(i, f, PartOf[f])

\* createTreeReceiveTarget in a folder of the user's: first a free temporary
\* path, then, with the file there, a free final one.
OpenTree(i) ==
    /\ tpc[i] = "target" /\ tree
    /\ \E f, part \in Path :
          /\ FirstFree(part, TreePart, asked[i].name, dir)
          /\ FirstFree(f, Candidate, asked[i].name, [dir EXCEPT ![part] = serving[i]])
          /\ Opens(i, f, part)

OpenTarget(i) == OpenPrivate(i) \/ OpenTree(i)

\* Mutant: the loop ends one chunk early.
ReceiveShort(i) ==
    /\ tpc[i] = "receive"
    /\ IF remaining[i] > 1
         THEN remaining' = [remaining EXCEPT ![i] = @ - 1] /\ UNCHANGED tpc
         ELSE UNCHANGED remaining /\ Goes(i, "complete")
    /\ UNCHANGED <<lifeVars, sock, requestVars, backlog, serveVars, target, dir,
                   saved, whole, crowded, trustVars, excused>>

\* A chunk is written to the file that was opened, wherever its path is now.
Receive(i) ==
    /\ tpc[i] = "receive"
    /\ remaining' = [remaining EXCEPT ![i] = @ - 1]
    /\ Goes(i, IF remaining[i] = 1 THEN "complete" ELSE "receive")
    /\ UNCHANGED <<lifeVars, sock, requestVars, backlog, serveVars, target, dir,
                   saved, whole, crowded, trustVars, excused>>

\* The frame TransferComplete has come.  In the application's own folder
\* commit() replaces what is at the final path by what is at the temporary path,
\* if anything is; a folder of the user's gives the file another name when the
\* one chosen has been taken since.
Commit(i) ==
    /\ tpc[i] = "complete"
    /\ LET p == target[i].part
           To(f) == /\ dir' = [dir EXCEPT ![f] = dir[p], ![p] = Nothing]
                    /\ saved' = [saved EXCEPT ![f] = serving[i]]
                    /\ whole' = IF remaining[i] = 0 THEN whole \cup {serving[i]} ELSE whole
                    /\ Goes(i, "record")
                    /\ UNCHANGED <<serveVars, target, remaining>> IN
       \/ /\ tree
          /\ \E f \in Path : FirstFree(f, Candidate, asked[i].name, dir) /\ To(f)
       \/ /\ ~tree
          /\ dir[p] # Nothing
          /\ To(target[i].file)
       \/ /\ ~tree
          /\ dir[p] = Nothing
          /\ dir' = [dir EXCEPT ![target[i].file] = Nothing]
          /\ Ends(i)
          /\ UNCHANGED <<saved, whole>>
    /\ UNCHANGED <<lifeVars, sock, requestVars, backlog, crowded, trustVars,
                   excused>>

\* upsertPairedDevice writes the record that was looked up before the user was
\* asked, and makes it again if it has been removed since.
Record(i) ==
    /\ tpc[i] = "record"
    /\ paired' = paired \cup {asked[i].dev}
    /\ Ends(i)
    /\ UNCHANGED <<lifeVars, sock, requestVars, backlog, dir, saved, whole, crowded,
                   removed, excused>>

Answer(i) == Agree(i) \/ Decline(i)

ServerStep(i) ==
    \/ Publish(i) \/ Bind(i) \/ Loop(i) \/ Accept(i) \/ ClearRef(i) \/ Leave(i)
    \/ Fails(i) \/ ReadRequest(i) \/ Answer(i)
    \/ OpenTarget(i) \/ Receive(i) \/ Commit(i) \/ Record(i)

-----------------------------------------------------------------------------
(* The peers and the user *)

\* A peer connects to the socket that is bound.
Arrive ==
    /\ arrived < MaxRequests
    /\ \E i \in Thread : sock[i] = "bound"
    /\ arrived' = arrived + 1
    /\ backlog' = backlog \cup {arrived + 1}
    /\ UNCHANGED <<lifeVars, tpc, sock, tree, serveVars, fileVars, trustVars,
                   excused>>

\* The user removes a device from the list of the activity.
Remove(d) ==
    /\ ~gone /\ stopping[UI] = "none"
    /\ d \in paired
    /\ paired' = paired \ {d}
    /\ removed' = IF \E i \in Thread : asked[i] # NoAsk /\ asked[i].dev = d
                  THEN removed \ {d} ELSE removed \cup {d}
    /\ UNCHANGED <<lifeVars, tpc, sock, requestVars, backlog, serveVars, fileVars,
                   excused>>

Next ==
    \/ Start \/ Stop \/ Destroy \/ ShowStatus \/ Arrive
    \/ \E c \in Caller : StopStep(c)
    \/ \E i \in Thread : ServerStep(i) \/ SocketFails(i)
    \/ \E d \in Device : Remove(d)

Spec == Init /\ [][Next]_vars

\* Every thread runs, the activity's too, every user answers as long as the
\* dialog is there, and every read of a frame ends within its 15 s: with the
\* frame, or it fails.  Nobody is relied upon to start or stop the receiver,
\* to send a request, to remove a device or to destroy the activity.
Fairness ==
    /\ WF_vars(ShowStatus)
    /\ \A c \in Caller : WF_vars(StopStep(c))
    /\ \A i \in Thread : WF_vars(ServerStep(i))

FairSpec == Spec /\ Fairness

-----------------------------------------------------------------------------
(* Properties *)

\* Every variable has its type.
TypeOK ==
    /\ running \in BOOLEAN /\ shown \in BOOLEAN /\ gone \in BOOLEAN /\ posts \in Seq(BOOLEAN)
    /\ ref \in Caller /\ latest \in Caller /\ started \in 0..MaxStarts
    /\ tpc \in [Thread -> {"none", "new", "bind", "loop", "accept", "request",
                           "ask", "target", "receive", "complete",
                           "record", "finally", "check", "stop", "dead"}]
    /\ sock \in [Thread -> {"none", "open", "bound", "closed"}]
    /\ stopping \in [Caller -> {"none", "close", "join", "report"}]
    /\ waits \in [Caller -> Caller]
    /\ arrived \in 0..MaxRequests
    /\ backlog \subseteq Request /\ serving \in [Thread -> Request \cup {Nothing}]
    /\ asked \in [Thread -> Ask \cup {NoAsk}]
    /\ tree \in BOOLEAN
    /\ target \in [Thread -> [file : Path, part : Path] \cup {NoTarget}]
    /\ dir \in [Path -> Request \cup {Nothing}]
    /\ saved \in [Path -> Request \cup {Nothing}]
    /\ remaining \in [Thread -> 0..Size] /\ whole \subseteq Request
    /\ paired \subseteq Device /\ removed \subseteq Device
    /\ crowded \in BOOLEAN /\ excused \in BOOLEAN

\* While the flag is set there is a thread that has yet to look at it, whatever
\* old threads do with it: the receiver is never "running" with nobody to
\* accept, in which case start() would refuse to help (start, Leave).
RunningHasThread == running => \E i \in Thread : tpc[i] \notin {"none", "stop", "dead"}

\* In the application's own folder the path of a saved file may be the
\* temporary path of another name: "x.part" is where "x" is received.
AtRisk(p) == ~tree /\ p \in {PartOf[f] : f \in Path}

\* What was reported saved is at its path, whole, and the request's own.
SavedIntact ==
    \A p \in Path : saved[p] # Nothing /\ ~AtRisk(p) =>
        dir[p] = saved[p] /\ saved[p] \in whole

\* As long as no two threads have been receiving at the same time, a file
\* reported saved stays whole, unless its path is the temporary path of another
\* name (createReceiveTarget, commit).
SavedUnlessCrowded == ~crowded => SavedIntact

\* As long as that has not happened, no later request touches a file the phone
\* has received before, even one of the same name, unless its path is the
\* temporary path of another name.
FilesKept ==
    [][\A p \in Path : saved[p] # Nothing /\ ~AtRisk(p) /\ ~crowded => dir'[p] = dir[p]]_vars

\* Another than the user, or the end of the activity, takes a start back only
\* after a socket has failed or a thread has outlived the stop() that was to end
\* it: while nothing fails and every join succeeds, no thread meets the next
\* one's flag or socket.
OffByReason ==
    [][running /\ ~running' => stopping'[UI] = "close" \/ excused]_vars

\* A device that is removed while no request of its own is being served is
\* not paired again by one (upsertPairedDevice at the end of a request writes a
\* record that was looked up at its beginning).
NotRevived == paired \cap removed = {}

\* Once stop() has been called for good, by the button or with the activity,
\* every thread ends, also one whose socket no stop() could close because an
\* older thread had cleared the reference.  Only a thread whose question is
\* open when the activity is destroyed, or comes after that, stays: its await()
\* has no limit and the dialog is gone.
Stops ==
    [](stopping[UI] = "join" =>
         <>(running \/ \A i \in Thread :
              tpc[i] \in {"none", "dead"} \/ (gone /\ tpc[i] = "ask")))
=============================================================================
