--------------------------- MODULE ReceiverProcess ---------------------------
(***************************************************************************)
(* The life of `lan_transfer receive` under the desktop form: the form     *)
(* starts it and kills it (StartReceiver, StopReceiver); its main thread   *)
(* binds the port, starts the announcing and the lookup thread, serves     *)
(* one connection after the other, and joins the threads when an exception *)
(* leaves run_server.                                                      *)
(*                                                                         *)
(* Its questions go to the user through the form: the line it prints runs  *)
(* through a pipe and a reader thread to the queue of the form's thread,   *)
(* which opens a message box, and the answer is written to the standard    *)
(* input of whatever receiver runs then.  A box runs the queue itself, so  *)
(* that another may open over it, and disables the form behind it.         *)
(*                                                                         *)
(* The names in a question are the peer's and are printed as they are: one *)
(* that holds an end of line and the words a question begins with comes    *)
(* out as two questions.  Bound: one such line in the output of a          *)
(* receiver.                                                               *)
(*                                                                         *)
(* What is said on a connection between its questions is in Transfer and   *)
(* Pairing.  Kill and WaitForExit are one step: the system ends a killed   *)
(* process within the 2 s the form waits.                                  *)
(***************************************************************************)
EXTENDS Integers, Sequences

CONSTANTS MaxStarts,    \* bound: how often the receiver is started
          MaxAsks       \* bound: how many questions one receiver asks

ASSUME ReceiverProcessAssumption == MaxStarts \in Nat /\ MaxAsks \in Nat

Thread == {"announcer", "lookup"}
Question == {"pair", "file"}

VARIABLES
    \* the receiver process
    starts,     \* how many receivers there have been: the last is the current
    main,       \* where its main thread is
    listening,  \* the server socket is open
    thread,     \* where the two other threads are
    running,    \* their flags running_
    asks,       \* how many questions it has asked
    stdin,      \* the answers it has not read: what each of them is for
    \* the form
    held,       \* _receiverProcess refers to the current receiver
    pipe,       \* the lines of each receiver that the form has not read
    queue,      \* the lines posted to the form's thread
    boxes,      \* the message boxes open: what they are for, the newest first
    \* history
    broken,     \* the threads that an exception has ended
    split,      \* a text of its peers has come out as one more question
    mixed       \* a line of one receiver was handled while another was running

processVars == <<starts, main, listening, thread, running, asks, stdin, broken, split>>
formVars    == <<held, pipe, queue, boxes, mixed>>
vars == <<processVars, formVars>>

\* A line of output that begins like a question: whose, which question it was
\* printed for, and how it begins.
Line == [from : 1..MaxStarts, n : 1..MaxAsks, kind : Question]
\* Whose question, and which one, a box or an answer is for.
Subject == [from : 1..MaxStarts, n : 1..MaxAsks]
SubjectOf(line) == [from |-> line.from, n |-> line.n]

Alive == main \notin {"none", "gone"}
Unwinding == {"stop lookup", "join lookup", "stop announcer", "join announcer", "close"}
Serving == {"accept", "asked"}

Init ==
    /\ starts = 0 /\ main = "none" /\ listening = FALSE
    /\ thread = [t \in Thread |-> "none"]
    /\ running = [t \in Thread |-> FALSE]
    /\ asks = 0 /\ stdin = <<>> /\ broken = {} /\ split = FALSE
    /\ held = FALSE
    /\ pipe = [p \in 1..MaxStarts |-> <<>>]
    /\ queue = <<>> /\ boxes = <<>> /\ mixed = FALSE

-----------------------------------------------------------------------------
(* The main thread *)

Goto(from, to) == main = from /\ main' = to

\* The process ends, with its threads, its sockets and its standard input.
Ends ==
    /\ main' = "gone" /\ listening' = FALSE
    /\ thread' = [t \in Thread |-> "none"]
    /\ stdin' = <<>>
    /\ UNCHANGED <<starts, running, asks, broken, split>>

Bind ==
    /\ Goto("setup", "start announcer")
    /\ listening' = TRUE
    /\ UNCHANGED <<starts, thread, running, asks, stdin, broken, split, formVars>>

\* The port is taken: main prints the error and returns.
BindFails == main = "setup" /\ Ends /\ UNCHANGED formVars

\* Mutant: the thread is started and the flag is not set.
RunsUnset(t) == UNCHANGED running
Runs(t) == running' = [running EXCEPT ![t] = TRUE]
StartThread(t, from, to) ==
    /\ Goto(from, to)
    /\ Runs(t)
    /\ thread' = [thread EXCEPT ![t] = "start"]
    /\ UNCHANGED <<starts, listening, asks, stdin, broken, split, formVars>>
StartAnnouncer == StartThread("announcer", "start announcer", "start lookup")
StartLookup == StartThread("lookup", "start lookup", "accept")

Prints(lines) == pipe' = [pipe EXCEPT ![starts] = @ \o lines]
Begins(k) == [from |-> starts, n |-> asks', kind |-> k]

\* A peer connects and its request makes the receiver ask.  The flush also sends
\* what was left in the buffer: the peer's id once more, after a pairing.
Ask ==
    /\ Goto("accept", "asked")
    /\ asks < MaxAsks
    /\ asks' = asks + 1
    /\ \/ \E k \in Question : Prints(<<Begins(k)>>) /\ split' = split
       \/ ~split /\ split' = TRUE /\ \E k, l \in Question : Prints(<<Begins(k), Begins(l)>>)
    /\ UNCHANGED <<starts, listening, thread, running, stdin, broken, held, queue,
                   boxes, mixed>>

\* getline: the first answer there is, whatever it was for.
ReadAnswer ==
    /\ Goto("asked", "accept")
    /\ stdin # <<>>
    /\ stdin' = Tail(stdin)
    /\ UNCHANGED <<starts, listening, thread, running, asks, broken, split, formVars>>

\* accept fails, or removing a temporary file throws in the catch block: the
\* destructors run in the reverse order of the constructors.
Throws ==
    /\ Goto("accept", "stop lookup")
    /\ UNCHANGED <<starts, listening, thread, running, asks, stdin, broken, split, formVars>>

\* Mutant: the flag is not cleared.
ClearsNot(t) == UNCHANGED running
Clears(t) == running' = [running EXCEPT ![t] = FALSE]
StopThread(t, from, to) ==
    /\ Goto(from, to)
    /\ Clears(t)
    /\ UNCHANGED <<starts, listening, thread, asks, stdin, broken, split, formVars>>

\* Mutant: the thread is detached.
JoinableDetached(t) == TRUE
Joinable(t) == thread[t] = "ended"
Join(t, from, to) ==
    /\ Goto(from, to)
    /\ Joinable(t)
    /\ UNCHANGED <<starts, listening, thread, running, asks, stdin, broken, split, formVars>>

CloseServer ==
    /\ Goto("close", "return")
    /\ listening' = FALSE
    /\ UNCHANGED <<starts, thread, running, asks, stdin, broken, split, formVars>>
Return == main = "return" /\ Ends /\ UNCHANGED formVars

Unwind ==
    \/ StopThread("lookup", "stop lookup", "join lookup")
    \/ Join("lookup", "join lookup", "stop announcer")
    \/ StopThread("announcer", "stop announcer", "join announcer")
    \/ Join("announcer", "join announcer", "close")
    \/ CloseServer \/ Return
MainStep == Bind \/ StartAnnouncer \/ StartLookup \/ ReadAnswer \/ Unwind

-----------------------------------------------------------------------------
(* The announcing and the lookup thread *)

At(t, from, to) == thread[t] = from /\ thread' = [thread EXCEPT ![t] = to]
ThreadOnly == UNCHANGED <<starts, main, listening, asks, stdin, split, formVars>>

\* The identity is read and the socket is there.
Opens(t) == At(t, "start", "loop") /\ ThreadOnly /\ UNCHANGED <<running, broken>>

\* while (running_)
Loop(t) ==
    /\ At(t, "loop", IF running[t] THEN "work" ELSE "ended")
    /\ ThreadOnly /\ UNCHANGED <<running, broken>>

\* One broadcast and a second's sleep, or what comes to the lookup socket within
\* half a second: an answer, or nothing.
Work(t) == At(t, "work", "loop") /\ ThreadOnly /\ UNCHANGED <<running, broken>>

\* An exception ends the thread, and nobody hears of it: its socket fails, or a
\* datagram ends in a lone backslash (split_fields).
Fails(t) ==
    /\ thread[t] \in {"start", "work"}
    /\ thread' = [thread EXCEPT ![t] = "ended"]
    /\ running' = [running EXCEPT ![t] = FALSE]
    /\ broken' = broken \cup {t}
    /\ ThreadOnly

ThreadStep(t) == Opens(t) \/ Loop(t) \/ Work(t)

-----------------------------------------------------------------------------
(* The form *)

\* _receiverProcess is { HasExited: false }
HasReceiver == held /\ Alive
\* Mutant: a box has no owner, and the form behind it takes clicks.
EnabledAlways == TRUE
Enabled == boxes = <<>>

StartReceiver ==
    /\ Enabled /\ ~HasReceiver
    /\ starts < MaxStarts
    /\ starts' = starts + 1
    /\ main' = "setup" /\ listening' = FALSE
    /\ thread' = [t \in Thread |-> "none"]
    /\ running' = [t \in Thread |-> FALSE]
    /\ asks' = 0 /\ stdin' = <<>> /\ broken' = {} /\ split' = FALSE
    /\ held' = TRUE
    /\ UNCHANGED <<pipe, queue, boxes, mixed>>

\* The Stop button, or the form closes.
StopReceiver ==
    /\ Enabled /\ HasReceiver
    /\ held' = FALSE
    /\ Ends
    /\ UNCHANGED <<pipe, queue, boxes, mixed>>

\* Something else ends the process.
Killed == Alive /\ Ends /\ UNCHANGED formVars

\* A thread of the form reads a line, also of a receiver that is gone, and
\* posts it (ReceiverOutputDataReceived).
PostLine(p) ==
    /\ pipe[p] # <<>>
    /\ queue' = Append(queue, Head(pipe[p]))
    /\ pipe' = [pipe EXCEPT ![p] = Tail(@)]
    /\ UNCHANGED <<processVars, held, boxes, mixed>>

\* Mutant: the form knows how one of the questions begins.
RecognizedOne(line) == line.kind = "file"
Recognized(line) == line.kind \in {"pair", "file"}

\* HandlePromptLine, on the form's thread, up to the box.
HandlePromptLine ==
    /\ queue # <<>>
    /\ queue' = Tail(queue)
    /\ IF HasReceiver /\ Recognized(Head(queue))
       THEN /\ boxes' = <<SubjectOf(Head(queue))>> \o boxes
            /\ mixed' = (mixed \/ Head(queue).from # starts)
       ELSE UNCHANGED <<boxes, mixed>>
    /\ UNCHANGED <<processVars, held, pipe>>

\* The user answers; only the newest box returns.  SendToReceiver writes to the
\* receiver of this moment.
AnswerBox ==
    /\ boxes # <<>>
    /\ boxes' = Tail(boxes)
    /\ stdin' = IF HasReceiver THEN Append(stdin, Head(boxes)) ELSE stdin
    /\ UNCHANGED <<starts, main, listening, thread, running, asks, broken, split, held,
                   pipe, queue, mixed>>

FormStep == (\E p \in 1..MaxStarts : PostLine(p)) \/ HandlePromptLine \/ AnswerBox

-----------------------------------------------------------------------------
Next ==
    \/ MainStep \/ BindFails \/ Ask \/ Throws
    \/ \E t \in Thread : ThreadStep(t) \/ Fails(t)
    \/ FormStep
    \/ StartReceiver \/ StopReceiver \/ Killed

Spec == Init /\ [][Next]_vars
\* Threads run, calls that have a timeout return, and the user answers a box.
FairSpec ==
    /\ Spec
    /\ WF_vars(MainStep)
    /\ \A t \in Thread : WF_vars(ThreadStep(t))
    /\ \A p \in 1..MaxStarts : WF_vars(PostLine(p))
    /\ WF_vars(HandlePromptLine) /\ WF_vars(AnswerBox)

-----------------------------------------------------------------------------
(* Properties *)

\* Every variable has its type.
TypeOK ==
    /\ starts \in 0..MaxStarts /\ asks \in 0..MaxAsks
    /\ main \in {"none", "setup", "start announcer", "start lookup", "return", "gone"}
                \cup Serving \cup Unwinding
    /\ listening \in BOOLEAN /\ held \in BOOLEAN /\ mixed \in BOOLEAN
    /\ thread \in [Thread -> {"none", "start", "loop", "work", "ended"}]
    /\ running \in [Thread -> BOOLEAN]
    /\ broken \subseteq Thread /\ split \in BOOLEAN
    /\ stdin \in Seq(Subject) /\ boxes \in Seq(Subject) /\ queue \in Seq(Line)
    /\ pipe \in [1..MaxStarts -> Seq(Line)]

\* An answer that waits at the receiver's standard input is the user's answer to
\* the question it is asking, so getline never takes a yes meant for another
\* request.  It is so until a line of an earlier receiver is handled while a later
\* one runs, and until a peer's text comes out as a question of its own
\* (HandlePromptLine, SendToReceiver, prompt_for_file_confirmation).
NoAnswerAstray ==
    ~mixed /\ ~split =>
        \A i \in 1..Len(stdin) :
           main = "asked" /\ stdin[i].from = starts /\ stdin[i].n = asks

\* A receiver that asks goes on, with an answer or because its process ends,
\* however many lines and boxes are in between.
QuestionsAreAnswered == main = "asked" ~> main # "asked"

\* The line of the question being asked, or the answer to it, is in s.
Carries(s) == \E i \in 1..Len(s) : s[i].from = starts /\ s[i].n = asks
\* The receiver waits in the destructor of t.
Joins(t) == main = IF t = "lookup" THEN "join lookup" ELSE "join announcer"

\* Neither of the receiver's waits, which have no timeout, is for something that
\* cannot come: the question it asks is on its way to the user, or the answer on
\* its way back, whatever lines of other receivers and boxes are in between; and
\* the thread it joins is there and has been told to end.
NobodyForgotten ==
    /\ main = "asked" => \/ Carries(pipe[starts]) \/ Carries(queue)
                         \/ Carries(boxes) \/ Carries(stdin)
    /\ \A t \in Thread : Joins(t) => thread[t] # "none" /\ ~running[t]

\* Whenever an announcement or an answer to a lookup may leave the device, the
\* port it names is open: the threads start after it is and are joined before it
\* is closed (run_server, the destructors of the two services).
AnnouncedIsOpen == \A t \in Thread : thread[t] = "work" => listening

\* While the receiver serves, its device goes on announcing itself and answering
\* lookups, unless an exception has ended that thread, of its socket or of
\* a datagram that split_fields throws on: no start and no stop of one thread ends
\* another (PresenceAnnouncer::run, CodeLookupService::run).
FoundWhileServing ==
    main \in Serving => \A t \in Thread : thread[t] = "ended" => t \in broken

\* An exception that leaves run_server ends the process: the destructors wait
\* for threads that notice.
ExceptionEnds == main \in Unwinding ~> main = "gone"
=============================================================================
