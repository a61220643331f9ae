------------------------ MODULE ReceiverProcessProofs ------------------------
(***************************************************************************)
(* The safety properties of ReceiverProcess hold however often receivers   *)
(* are started and however much they ask.  Inductive invariants: where the *)
(* main thread is says what the port and the threads are (ThreadInv); the  *)
(* question a receiver asks is in one place at a time (AskInv) and is in   *)
(* one at least (UnderWay); a thread that is joined ends (TheyEnd).        *)
(***************************************************************************)
EXTENDS ReceiverProcess, TLAPS

Started(t) ==
    main \in Serving \cup Unwinding \cup {"return"}
             \cup (IF t = "announcer" THEN {"start lookup"} ELSE {})
\* The destructor of t has joined it.
Joined(t) ==
    main \in {"close", "return"}
             \cup (IF t = "lookup" THEN {"stop announcer",
             "join announcer"} ELSE {})

\* The port is open from bind to the last destructor; a thread is there from its
\* start to its join; before the process unwinds its flag is cleared only when
\* it has failed.
ThreadInv ==
    /\ listening <=> main \in {"start announcer", "start lookup"} \cup Serving \cup Unwinding
    /\ \A t \in Thread :
          /\ thread[t] # "none" => Started(t)
          /\ Joined(t) => thread[t] = "ended"
          /\ main \in {"start lookup"} \cup Serving =>
                /\ thread[t] = "ended" => t \in broken
                /\ thread[t] # "none" => running[t] \/ t \in broken

OfCurrent(line) == line.from = starts
ThisQuestion(line) == line.from = starts /\ line.n = asks

\* The lines of the current receiver that are under way.
InPipe  == Alive /\ pipe[starts] # <<>>
InQueue == \E i \in 1..Len(queue) : OfCurrent(queue[i])
InBox   == boxes # <<>>
InStdin == stdin # <<>>

\* As long as no line was handled too late and no peer's text came out as a
\* question, a receiver that runs has one question at most, in the pipe, the
\* queue, a box or its standard input, and waits for the answer.
AskInv ==
    Alive /\ ~mixed /\ ~split =>
        /\ InPipe \/ InQueue \/ InBox \/ InStdin => main = "asked"
        /\ ~(InPipe /\ InQueue) /\ ~(InPipe /\ InBox) /\ ~(InPipe /\ InStdin)
        /\ ~(InQueue /\ InBox) /\ ~(InQueue /\ InStdin) /\ ~(InBox /\ InStdin)
        /\ Len(pipe[starts]) <= 1 /\ Len(boxes) <= 1 /\ Len(stdin) <= 1
        /\ \A i, j \in 1..Len(queue) :
              OfCurrent(queue[i]) /\ OfCurrent(queue[j]) => i = j
        /\ \A i \in 1..Len(pipe[starts]) : ThisQuestion(pipe[starts][i])
        /\ \A i \in 1..Len(queue) : OfCurrent(queue[i]) => ThisQuestion(queue[i])
        /\ \A i \in 1..Len(boxes) : ThisQuestion(boxes[i])
        /\ \A i \in 1..Len(stdin) : ThisQuestion(stdin[i])

\* Lines come from receivers that were started, and a process that is not there
\* reads nothing.
LineInv ==
    /\ Alive => held /\ starts > 0
    /\ ~Alive => stdin = <<>>
    /\ \A p \in 1..MaxStarts : /\ p > starts => pipe[p] = <<>>
                               /\ \A i \in 1..Len(pipe[p]) : pipe[p][i].from = p
    /\ \A i \in 1..Len(queue) : queue[i].from <= starts

IInv == TypeOK /\ ThreadInv /\ LineInv /\ AskInv

\* The operators on sequences that the form and the standard input use.
LEMMA SeqFacts ==
    ASSUME NEW S
    PROVE  /\ <<>> \in Seq(S)
           /\ \A s \in Seq(S) : s # <<>> => Head(s) \in S /\ Tail(s) \in Seq(S)
           /\ \A s \in Seq(S), e \in S : Append(s, e) \in Seq(S) /\ <<e>> \o s \in Seq(S)
           /\ \A s, r \in Seq(S) : s \o r \in Seq(S)
  OBVIOUS

\* A box is for the question its line belongs to.
LEMMA SubjectType ==
    \A line \in Line : /\ SubjectOf(line) \in Subject
                       /\ SubjectOf(line).from = line.from /\ SubjectOf(line).n = line.n
  BY DEF Line, Subject, SubjectOf

\* Where the elements of a sequence are after Tail and after Append.
LEMMA TailFacts ==
    ASSUME NEW S, NEW s \in Seq(S), s # <<>>
    PROVE  /\ 1 \in 1..Len(s) /\ Head(s) = s[1] /\ Head(s) \in S
           /\ Tail(s) \in Seq(S) /\ Len(Tail(s)) = Len(s) - 1
           /\ Len(s) = 1 => Tail(s) = <<>>
           /\ \A i \in 1..Len(Tail(s)) : i + 1 \in 2..Len(s) /\ i + 1 \in 1..Len(s)
                                         /\ Tail(s)[i] = s[i + 1]
  OBVIOUS
\* What a queue holds when one more is put into it.
LEMMA AppendFacts ==
    ASSUME NEW S, NEW s \in Seq(S), NEW e \in S
    PROVE  /\ Len(Append(s, e)) = Len(s) + 1 /\ Append(s, e)[Len(s) + 1] = e
           /\ Append(s, e) \in Seq(S)
           /\ \A i \in 1..Len(Append(s, e)) :
                 i = Len(s) + 1 \/ (i \in 1..Len(s) /\ Append(s, e)[i] = s[i])
<1> DEFINE r == Append(s, e)
<1>1. /\ Len(r) = Len(s) + 1 /\ r[Len(s) + 1] = e /\ r \in Seq(S) /\ Len(s) \in Nat
      /\ \A i \in 1..Len(s) : r[i] = s[i]
  OBVIOUS
<1> HIDE DEF r
<1>2. \A i \in 1..Len(r) : i = Len(s) + 1 \/ (i \in 1..Len(s) /\ r[i] = s[i])
  BY <1>1
<1>3. /\ Len(r) = Len(s) + 1 /\ r[Len(s) + 1] = e /\ r \in Seq(S)
      /\ \A i \in 1..Len(r) : i = Len(s) + 1 \/ (i \in 1..Len(s) /\ r[i] = s[i])
  BY <1>1, <1>2
<1> QED
  BY <1>3 DEF r

\* Where the elements of two sequences are when the one is put behind the other.
LEMMA ConcatFacts ==
    ASSUME NEW S, NEW s \in Seq(S), NEW e \in Seq(S)
    PROVE  /\ Len(s \o e) = Len(s) + Len(e) /\ Len(s) \in Nat /\ Len(e) \in Nat
           /\ \A i \in 1..Len(s) : i \in 1..Len(s \o e) /\ (s \o e)[i] = s[i]
           /\ \A i \in 1..Len(e) :
                 Len(s) + i \in 1..Len(s \o e) /\ (s \o e)[Len(s) + i] = e[i]
           /\ \A i \in 1..Len(s \o e) :
                 \/ i \in 1..Len(s) /\ (s \o e)[i] = s[i]
                 \/ i - Len(s) \in 1..Len(e) /\ (s \o e)[i] = e[i - Len(s)]
<1> DEFINE r == s \o e
<1>1. /\ Len(r) = Len(s) + Len(e) /\ Len(s) \in Nat /\ Len(e) \in Nat
      /\ \A i \in 1..Len(s) : r[i] = s[i]
      /\ \A i \in 1..Len(e) : r[Len(s) + i] = e[i]
      /\ \A i \in (Len(s) + 1)..Len(r) : r[i] = e[i - Len(s)]
  OBVIOUS
<1> HIDE DEF r
<1>2. /\ \A i \in 1..Len(s) : i \in 1..Len(r)
      /\ \A i \in 1..Len(e) : Len(s) + i \in 1..Len(r)
      /\ \A i \in 1..Len(r) :
            \/ i \in 1..Len(s)
            \/ i - Len(s) \in 1..Len(e) /\ i \in (Len(s) + 1)..Len(r)
  BY <1>1
<1>3. \A i \in 1..Len(r) :
         \/ i \in 1..Len(s) /\ r[i] = s[i]
         \/ i - Len(s) \in 1..Len(e) /\ r[i] = e[i - Len(s)]
  BY <1>1, <1>2
<1>4. /\ Len(r) = Len(s) + Len(e) /\ Len(s) \in Nat /\ Len(e) \in Nat
      /\ \A i \in 1..Len(s) : i \in 1..Len(r) /\ r[i] = s[i]
      /\ \A i \in 1..Len(e) : Len(s) + i \in 1..Len(r) /\ r[Len(s) + i] = e[i]
      /\ \A i \in 1..Len(r) :
            \/ i \in 1..Len(s) /\ r[i] = s[i]
            \/ i - Len(s) \in 1..Len(e) /\ r[i] = e[i - Len(s)]
  BY <1>1, <1>2, <1>3
<1> QED
  BY <1>4 DEF r

\* The counters stay within their bounds.
LEMMA Counters ==
    /\ TypeOK /\ Ask => asks' \in 1..MaxAsks /\ asks' \in 0..MaxAsks
    /\ TypeOK /\ StartReceiver =>
          starts' \in 1..MaxStarts /\ starts' \in 0..MaxStarts
    /\ 0 \in 0..MaxAsks
<1>1. MaxAsks \in Nat /\ MaxStarts \in Nat
  BY ReceiverProcessAssumption
<1>2. ASSUME TypeOK, Ask PROVE asks' \in 1..MaxAsks /\ asks' \in 0..MaxAsks
  <2>1. asks \in 0..MaxAsks
    BY <1>2 DEF TypeOK
  <2>2. asks < MaxAsks /\ asks' = asks + 1
    BY <1>2 DEF Ask
  <2> QED
    BY <1>1, <2>1, <2>2
<1>3. ASSUME TypeOK, StartReceiver PROVE starts' \in 1..MaxStarts /\ starts' \in 0..MaxStarts
  <2>1. starts \in 0..MaxStarts
    BY <1>3 DEF TypeOK
  <2>2. starts < MaxStarts /\ starts' = starts + 1
    BY <1>3 DEF StartReceiver
  <2> QED
    BY <1>1, <2>1, <2>2
<1> QED
  BY <1>1, <1>2, <1>3

\* What question b of receiver a prints: a line of its own, and another or none.
For(line, a, b) == line.from = a /\ line.n = b
IsOutput(lines, a, b) ==
    /\ Len(lines) \in {1, 2}
    /\ \A i \in 1..Len(lines) : For(lines[i], a, b)
Undivided(lines) == split' \/ Len(lines) = 1
LEMMA AskPrints ==
    ASSUME TypeOK, Ask, starts \in 1..MaxStarts
    PROVE  \E lines \in Seq(Line) :
              Prints(lines) /\ IsOutput(lines, starts, asks') /\ Undivided(lines)
<1>1. \A k \in Question : Begins(k) \in Line /\ For(Begins(k), starts, asks')
  BY Counters DEF Begins, Line, For
<1>2. CASE \E k \in Question : Prints(<<Begins(k)>>)
  <2>1. PICK k \in Question : Prints(<<Begins(k)>>)
    BY <1>2
  <2> DEFINE e == Begins(k)
             q == <<e>>
  <2>2. e \in Line /\ For(e, starts, asks')
    BY <1>1
  <2> HIDE DEF e
  <2>3. q \in Seq(Line) /\ Len(q) = 1 /\ q[1] = e
    BY <2>2
  <2> HIDE DEF q
  <2>4. IsOutput(q, starts, asks') /\ Undivided(q)
    BY <2>2, <2>3 DEF IsOutput, Undivided
  <2>5. Prints(q)
    BY <2>1 DEF q, e
  <2> QED
    BY <2>3, <2>4, <2>5
<1>3. CASE split' /\ \E k, l \in Question : Prints(<<Begins(k), Begins(l)>>)
  <2>1. PICK k \in Question, l \in Question : Prints(<<Begins(k), Begins(l)>>)
    BY <1>3
  <2> DEFINE e == Begins(k)
             d == Begins(l)
             q == <<e, d>>
  <2>2. e \in Line /\ For(e, starts, asks') /\ d \in Line /\ For(d, starts, asks')
    BY <1>1
  <2> HIDE DEF e, d
  <2>3. q \in Seq(Line) /\ Len(q) = 2 /\ q[1] = e /\ q[2] = d
    BY <2>2
  <2> HIDE DEF q
  <2>4. IsOutput(q, starts, asks')
    BY <2>2, <2>3 DEF IsOutput
  <2>6. Undivided(q)
    BY <1>3 DEF Undivided
  <2>5. Prints(q)
    BY <2>1 DEF q, e, d
  <2> QED
    BY <2>3, <2>4, <2>5, <2>6
<1> QED
  BY <1>2, <1>3 DEF Ask

\* The pipe of the receiver that asks holds that too.
LEMMA AskAppends ==
    ASSUME TypeOK, LineInv, Ask
    PROVE  /\ starts \in 1..MaxStarts /\ starts' = starts
           /\ \E lines \in Seq(Line) :
                 /\ IsOutput(lines, starts, asks') /\ Undivided(lines)
                 /\ pipe[starts] \in Seq(Line) /\ pipe'[starts] = pipe[starts] \o lines
                 /\ \A p \in 1..MaxStarts : p # starts => pipe'[p] = pipe[p]
<1>1. starts \in 1..MaxStarts /\ starts' = starts
  <2>1. starts \in 0..MaxStarts /\ starts > 0 /\ starts' = starts
    BY DEF TypeOK, LineInv, Alive, Ask, Goto
  <2> QED
    BY <2>1, ReceiverProcessAssumption
<1>2. PICK lines \in Seq(Line) :
         Prints(lines) /\ IsOutput(lines, starts, asks') /\ Undivided(lines)
  BY <1>1, AskPrints
<1>3. /\ pipe[starts] \in Seq(Line) /\ pipe'[starts] = pipe[starts] \o lines
      /\ \A p \in 1..MaxStarts : p # starts => pipe'[p] = pipe[p]
  BY <1>1, <1>2 DEF TypeOK, Prints
<1> QED
  BY <1>1, <1>2, <1>3

\* Every action keeps the types.
LEMMA TypeStep ==
    TypeOK /\ [Next]_vars => TypeOK'
<1> SUFFICES ASSUME TypeOK, [Next]_vars PROVE TypeOK'
  OBVIOUS
<1> USE DEF TypeOK, Serving, Unwinding, Thread, Question
<1>1. CASE Bind
  BY <1>1 DEF Bind, Goto, formVars
<1>2. CASE BindFails
  BY <1>2, SeqFacts DEF BindFails, Ends, formVars
<1>3. CASE StartAnnouncer
  BY <1>3 DEF StartAnnouncer, StartThread, Runs, Goto, formVars
<1>4. CASE StartLookup
  BY <1>4 DEF StartLookup, StartThread, Runs, Goto, formVars
<1>5. CASE Ask
  <2>1. asks' \in 1..MaxAsks /\ asks' \in 0..MaxAsks
    BY <1>5, Counters
  <2>3. pipe' \in [1..MaxStarts -> Seq(Line)]
    <3>1. CASE starts \in 1..MaxStarts
      <4>1. PICK lines \in Seq(Line) : Prints(lines)
        BY <1>5, <3>1, AskPrints
      <4>2. pipe[starts] \o lines \in Seq(Line)
        BY <3>1, SeqFacts
      <4> QED
        BY <3>1, <4>1, <4>2 DEF Prints
    <3>2. CASE starts \notin 1..MaxStarts
      BY <1>5, <3>2 DEF Ask, Prints
    <3> QED
      BY <3>1, <3>2
  <2> QED
    BY <1>5, <2>1, <2>3 DEF Ask, Goto
<1>6. CASE ReadAnswer
  BY <1>6 DEF ReadAnswer, Goto, formVars
<1>7. CASE Throws
  BY <1>7 DEF Throws, Goto, formVars
<1>8. CASE StopThread("lookup", "stop lookup", "join lookup")
  BY <1>8 DEF StopThread, Clears, Goto, formVars
<1>9. CASE Join("lookup", "join lookup", "stop announcer")
  BY <1>9 DEF Join, Joinable, Goto, formVars
<1>10. CASE StopThread("announcer", "stop announcer", "join announcer")
  BY <1>10 DEF StopThread, Clears, Goto, formVars
<1>11. CASE Join("announcer", "join announcer", "close")
  BY <1>11 DEF Join, Joinable, Goto, formVars
<1>12. CASE CloseServer
  BY <1>12 DEF CloseServer, Goto, formVars
<1>13. CASE Return
  BY <1>13, SeqFacts DEF Return, Ends, formVars
<1>14. ASSUME NEW t \in Thread, Opens(t) PROVE TypeOK'
  BY <1>14 DEF Opens, At, ThreadOnly, formVars
<1>15. ASSUME NEW t \in Thread, Loop(t) PROVE TypeOK'
  BY <1>15 DEF Loop, At, ThreadOnly, formVars
<1>16. ASSUME NEW t \in Thread, Work(t) PROVE TypeOK'
  BY <1>16 DEF Work, At, ThreadOnly, formVars
<1>17. ASSUME NEW t \in Thread, Fails(t) PROVE TypeOK'
  BY <1>17 DEF Fails, ThreadOnly, formVars
<1>18. ASSUME NEW p \in 1..MaxStarts, PostLine(p) PROVE TypeOK'
  BY <1>18, SeqFacts DEF PostLine, processVars
<1>19. CASE HandlePromptLine
  <2>1. queue' \in Seq(Line) /\ Head(queue) \in Line
    BY <1>19, SeqFacts DEF HandlePromptLine
  <2>2. boxes' \in Seq(Subject) /\ mixed' \in BOOLEAN
    <3>1. CASE HasReceiver /\ Recognized(Head(queue))
      <4>1. mixed' = (mixed \/ Head(queue).from # starts) /\ boxes' = <<SubjectOf(Head(queue))>> \o boxes
        BY <1>19, <3>1 DEF HandlePromptLine
      <4>2. SubjectOf(Head(queue)) \in Subject
        BY <2>1, SubjectType
      <4> QED
        BY <2>1, <4>1, <4>2, SeqFacts
    <3>2. CASE ~(HasReceiver /\ Recognized(Head(queue)))
      BY <1>19, <3>2 DEF HandlePromptLine
    <3> QED
      BY <3>1, <3>2
  <2> QED
    BY <1>19, <2>1, <2>2 DEF HandlePromptLine, processVars
<1>20. CASE AnswerBox
  BY <1>20, SeqFacts DEF AnswerBox
<1>21. CASE StartReceiver
  <2>1. starts' \in 0..MaxStarts /\ asks' \in 0..MaxAsks
    <3>1. asks' = 0
      BY <1>21 DEF StartReceiver
    <3> QED
      BY <1>21, <3>1, Counters
  <2>4. stdin' \in Seq(Subject)
    BY <1>21, SeqFacts DEF StartReceiver
  <2>2. /\ thread' \in [Thread -> {"none", "start", "loop", "work", "ended"}]
        /\ running' \in [Thread -> BOOLEAN] /\ broken' \subseteq Thread
    BY <1>21 DEF StartReceiver
  <2> QED
    BY <1>21, <2>1, <2>2, <2>4 DEF StartReceiver
<1>22. CASE StopReceiver
  BY <1>22, SeqFacts DEF StopReceiver, Ends
<1>23. CASE Killed
  BY <1>23, SeqFacts DEF Killed, Ends, formVars
<1>24. CASE UNCHANGED vars
  BY <1>24 DEF vars, processVars, formVars
<1> QED
  BY <1>1, <1>2, <1>3, <1>4, <1>5, <1>6, <1>7, <1>8, <1>9, <1>10, <1>11, <1>12,
     <1>13, <1>14, <1>15, <1>16, <1>17, <1>18, <1>19, <1>20, <1>21, <1>22, <1>23,
     <1>24
     DEF Next, MainStep, Unwind, ThreadStep, FormStep

\* Every action keeps the port and the threads in step with the main thread.
LEMMA ThreadStepKeeps ==
    TypeOK /\ ThreadInv /\ [Next]_vars => ThreadInv'
<1> SUFFICES ASSUME TypeOK, ThreadInv, [Next]_vars PROVE ThreadInv'
  OBVIOUS
<1> USE DEF TypeOK, ThreadInv, Started, Joined, Serving, Unwinding, Thread, Alive
<1>1. CASE Bind
  BY <1>1 DEF Bind, Goto, formVars
<1>2. CASE BindFails
  BY <1>2 DEF BindFails, Ends, formVars
<1>3. CASE StartAnnouncer
  BY <1>3 DEF StartAnnouncer, StartThread, Runs, Goto, formVars
<1>4. CASE StartLookup
  BY <1>4 DEF StartLookup, StartThread, Runs, Goto, formVars
<1>5. CASE Ask
  BY <1>5 DEF Ask, Goto
<1>6. CASE ReadAnswer
  BY <1>6 DEF ReadAnswer, Goto, formVars
<1>7. CASE Throws
  BY <1>7 DEF Throws, Goto, formVars
<1>8. CASE StopThread("lookup", "stop lookup", "join lookup")
  BY <1>8 DEF StopThread, Clears, Goto, formVars
<1>9. CASE Join("lookup", "join lookup", "stop announcer")
  BY <1>9 DEF Join, Joinable, Goto, formVars
<1>10. CASE StopThread("announcer", "stop announcer", "join announcer")
  BY <1>10 DEF StopThread, Clears, Goto, formVars
<1>11. CASE Join("announcer", "join announcer", "close")
  BY <1>11 DEF Join, Joinable, Goto, formVars
<1>12. CASE CloseServer
  BY <1>12 DEF CloseServer, Goto, formVars
<1>13. CASE Return
  BY <1>13 DEF Return, Ends, formVars
<1>14. ASSUME NEW t \in Thread, Opens(t) PROVE ThreadInv'
  BY <1>14 DEF Opens, At, ThreadOnly, formVars
<1>15. ASSUME NEW t \in Thread, Loop(t) PROVE ThreadInv'
  BY <1>15 DEF Loop, At, ThreadOnly, formVars
<1>16. ASSUME NEW t \in Thread, Work(t) PROVE ThreadInv'
  BY <1>16 DEF Work, At, ThreadOnly, formVars
<1>17. ASSUME NEW t \in Thread, Fails(t) PROVE ThreadInv'
  BY <1>17 DEF Fails, ThreadOnly, formVars
<1>18. ASSUME NEW p \in 1..MaxStarts, PostLine(p) PROVE ThreadInv'
  BY <1>18 DEF PostLine, processVars
<1>19. CASE HandlePromptLine
  BY <1>19 DEF HandlePromptLine, processVars
<1>20. CASE AnswerBox
  BY <1>20 DEF AnswerBox
<1>21. CASE StartReceiver
  BY <1>21 DEF StartReceiver
<1>22. CASE StopReceiver
  BY <1>22 DEF StopReceiver, Ends
<1>23. CASE Killed
  BY <1>23 DEF Killed, Ends, formVars
<1>24. CASE UNCHANGED vars
  BY <1>24 DEF vars, processVars, formVars
<1> QED
  BY <1>1, <1>2, <1>3, <1>4, <1>5, <1>6, <1>7, <1>8, <1>9, <1>10, <1>11, <1>12,
     <1>13, <1>14, <1>15, <1>16, <1>17, <1>18, <1>19, <1>20, <1>21, <1>22, <1>23,
     <1>24
     DEF Next, MainStep, Unwind, ThreadStep, FormStep

\* What the form's thread does to the two sequences it moves a line between.
LEMMA PostFacts ==
    ASSUME TypeOK, LineInv, NEW p \in 1..MaxStarts, PostLine(p)
    PROVE  /\ pipe[p] # <<>> /\ Head(pipe[p]) = pipe[p][1] /\ 1 \in 1..Len(pipe[p])
           /\ Head(pipe[p]).from = p /\ p <= starts /\ starts \in Nat
           /\ Len(queue') = Len(queue) + 1 /\ Len(queue) \in Nat
           /\ \A i \in 1..Len(queue') :
                 \/ i = Len(queue) + 1 /\ queue'[i] = Head(pipe[p])
                 \/ i \in 1..Len(queue) /\ queue'[i] = queue[i]
           /\ Len(pipe'[p]) = Len(pipe[p]) - 1 /\ Len(pipe[p]) \in Nat
           /\ Len(pipe[p]) = 1 => pipe'[p] = <<>>
           /\ \A i \in 1..Len(pipe'[p]) :
                 i + 1 \in 1..Len(pipe[p]) /\ pipe'[p][i] = pipe[p][i + 1]
           /\ \A r \in 1..MaxStarts : r # p => pipe'[r] = pipe[r]
           /\ UNCHANGED <<starts, main, asks, stdin, split, held, boxes, mixed>>
<1>1. /\ pipe \in [1..MaxStarts -> Seq(Line)] /\ queue \in Seq(Line)
      /\ starts \in Nat
  <2>1. starts \in 0..MaxStarts
    BY DEF TypeOK
  <2>2. starts \in Nat
    BY <2>1, ReceiverProcessAssumption
  <2> QED
    BY <2>2 DEF TypeOK
<1>2. /\ pipe[p] # <<>> /\ queue' = Append(queue, Head(pipe[p]))
      /\ pipe' = [pipe EXCEPT ![p] = Tail(@)]
      /\ UNCHANGED <<starts, main, asks, stdin, split, held, boxes, mixed>>
  BY DEF PostLine, processVars
<1>3. pipe[p] \in Seq(Line)
  BY <1>1
<1>4. pipe'[p] = Tail(pipe[p]) /\ \A r \in 1..MaxStarts : r # p => pipe'[r] = pipe[r]
  BY <1>1, <1>2
<1>5. /\ Head(pipe[p]) \in Line /\ Head(pipe[p]) = pipe[p][1] /\ 1 \in 1..Len(pipe[p])
      /\ Len(pipe'[p]) = Len(pipe[p]) - 1 /\ (Len(pipe[p]) = 1 => pipe'[p] = <<>>)
      /\ \A i \in 1..Len(pipe'[p]) :
            i + 1 \in 1..Len(pipe[p]) /\ pipe'[p][i] = pipe[p][i + 1]
  <2>1. /\ Head(pipe[p]) \in Line /\ Head(pipe[p]) = pipe[p][1] /\ 1 \in 1..Len(pipe[p])
        /\ Len(Tail(pipe[p])) = Len(pipe[p]) - 1
        /\ Len(pipe[p]) = 1 => Tail(pipe[p]) = <<>>
        /\ \A i \in 1..Len(Tail(pipe[p])) :
              i + 1 \in 1..Len(pipe[p]) /\ Tail(pipe[p])[i] = pipe[p][i + 1]
    BY <1>2, <1>3, TailFacts
  <2> QED
    BY <2>1, <1>4
<1>6. /\ Len(queue') = Len(queue) + 1
      /\ \A i \in 1..Len(queue') :
            \/ i = Len(queue) + 1 /\ queue'[i] = Head(pipe[p])
            \/ i \in 1..Len(queue) /\ queue'[i] = queue[i]
  BY <1>1, <1>2, <1>5, AppendFacts
<1>7. Head(pipe[p]).from = p /\ ~(p > starts)
  BY <1>2, <1>5 DEF LineInv
<1>8. p <= starts
  BY <1>1, <1>7
<1>9. Len(queue) \in Nat /\ Len(pipe[p]) \in Nat
  BY <1>1, <1>3
<1> QED
  BY <1>1, <1>2, <1>4, <1>5, <1>6, <1>7, <1>8, <1>9

\* The form takes the first line of its queue, and opens a box or not.
LEMMA HandleFacts ==
    ASSUME TypeOK, HandlePromptLine
    PROVE  /\ Head(queue) = queue[1] /\ 1 \in 1..Len(queue)
           /\ \A i \in 1..Len(queue') :
                 i + 1 \in 2..Len(queue) /\ i + 1 \in 1..Len(queue) /\ queue'[i] = queue[i + 1]
           /\ boxes' = boxes \/ boxes' = <<SubjectOf(Head(queue))>> \o boxes
           /\ boxes' # boxes => HasReceiver /\ mixed' = (mixed \/ Head(queue).from # starts)
           /\ UNCHANGED <<starts, main, asks, stdin, split, held, pipe>>
<1>1. queue \in Seq(Line) /\ queue # <<>> /\ queue' = Tail(queue)
  BY DEF TypeOK, HandlePromptLine
<1>2. /\ Head(queue) = queue[1] /\ 1 \in 1..Len(queue)
      /\ \A i \in 1..Len(queue') :
            i + 1 \in 2..Len(queue) /\ i + 1 \in 1..Len(queue) /\ queue'[i] = queue[i + 1]
  BY <1>1, TailFacts
<1> QED
  BY <1>2 DEF HandlePromptLine, processVars

\* A receiver that was just started has asked nothing.
LEMMA StartFacts ==
    ASSUME TypeOK, LineInv, StartReceiver
    PROVE  /\ starts' \in 1..MaxStarts /\ starts' = starts + 1 /\ starts \in Nat
           /\ pipe'[starts'] = <<>>
           /\ \A i \in 1..Len(queue') : queue'[i].from <= starts /\ queue'[i].from # starts'
                                         /\ queue'[i].from <= starts'
           /\ stdin' = <<>> /\ boxes' = <<>> /\ held' = TRUE /\ main' = "setup"
           /\ UNCHANGED <<pipe, queue, mixed>>
<1>1. /\ starts' \in 1..MaxStarts /\ starts' = starts + 1 /\ starts \in Nat
  <2>1. starts \in 0..MaxStarts /\ starts' = starts + 1
    BY DEF TypeOK, StartReceiver
  <2> QED
    BY <2>1, Counters
<1>2. /\ stdin' = <<>> /\ boxes' = <<>> /\ held' = TRUE /\ main' = "setup"
      /\ UNCHANGED <<pipe, queue, mixed>>
  BY DEF StartReceiver, Enabled
<1>3. pipe'[starts'] = <<>>
  BY <1>1, <1>2 DEF LineInv
<1>4. ASSUME NEW i \in 1..Len(queue')
      PROVE  queue'[i].from <= starts /\ queue'[i].from # starts' /\ queue'[i].from <= starts'
  <2>1. queue \in Seq(Line) /\ i \in 1..Len(queue) /\ queue'[i] = queue[i]
    BY <1>2 DEF TypeOK
  <2>2. queue[i] \in Line
    BY <2>1
  <2>3. queue[i].from \in Nat
    BY <2>2, ReceiverProcessAssumption DEF Line
  <2>4. queue[i].from <= starts
    BY <2>1 DEF LineInv
  <2> QED
    BY <1>1, <2>1, <2>3, <2>4
<1> QED
  BY <1>1, <1>2, <1>3, <1>4

\* A step that moves no line and neither starts nor ends a receiver.
LEMMA LinesUndisturbed ==
    ASSUME LineInv, UNCHANGED <<starts, held, stdin, pipe, queue>>, Alive' = Alive
    PROVE  LineInv'
  BY DEF LineInv
\* A step that moves no line and no answer, while the same receiver lives.
LEMMA AskUndisturbed ==
    ASSUME AskInv, UNCHANGED <<starts, asks, stdin, split, pipe, queue, boxes, mixed>>,
           Alive' = Alive, main = "asked" => main' = "asked"
    PROVE  AskInv'
  BY DEF AskInv, InPipe, InQueue, InBox, InStdin, OfCurrent, ThisQuestion
\* A receiver that has ended asks nothing.
LEMMA AskOfNobody ==
    ASSUME ~Alive' PROVE AskInv'
  BY DEF AskInv

\* Every action keeps the lines where they come from.
LEMMA LineStep ==
    TypeOK /\ LineInv /\ [Next]_vars => LineInv'
<1> SUFFICES ASSUME TypeOK, LineInv, [Next]_vars PROVE LineInv'
  OBVIOUS
<1>1. CASE Bind
  BY <1>1, LinesUndisturbed DEF Bind, Goto, formVars, Alive
<1>2. CASE BindFails
  BY <1>2 DEF BindFails, Ends, formVars, LineInv, Alive
<1>3. CASE StartAnnouncer
  BY <1>3, LinesUndisturbed DEF StartAnnouncer, StartThread, Runs, Goto,
     formVars, Alive
<1>4. CASE StartLookup
  BY <1>4, LinesUndisturbed DEF StartLookup, StartThread, Runs, Goto, formVars,
     Alive
<1>5. CASE Ask
  <2>1. /\ main = "accept" /\ main' = "asked"
        /\ UNCHANGED <<starts, held, stdin, queue>>
    BY <1>5 DEF Ask, Goto
  <2>2. PICK lines \in Seq(Line) :
           /\ \A i \in 1..Len(lines) : lines[i].from = starts
           /\ pipe[starts] \in Seq(Line) /\ pipe'[starts] = pipe[starts] \o lines
           /\ \A p \in 1..MaxStarts : p # starts => pipe'[p] = pipe[p]
    BY <1>5, AskAppends DEF IsOutput, For
  <2>3. ASSUME NEW i \in 1..Len(pipe'[starts]), starts \in 1..MaxStarts
        PROVE  pipe'[starts][i].from = starts
    BY <2>2, <2>3, ConcatFacts DEF LineInv
  <2>4. ASSUME NEW p \in 1..MaxStarts
        PROVE  /\ p > starts' => pipe'[p] = <<>>
               /\ \A i \in 1..Len(pipe'[p]) : pipe'[p][i].from = p
    <3>1. CASE p = starts
      BY <2>1, <2>3, <3>1, ReceiverProcessAssumption
    <3>2. CASE p # starts
      BY <2>1, <2>2, <3>2 DEF LineInv
    <3> QED
      BY <3>1, <3>2
  <2> QED
    BY <2>1, <2>4 DEF LineInv, Alive
<1>6. CASE ReadAnswer
  BY <1>6 DEF ReadAnswer, Goto, formVars, LineInv, Alive
<1>7. CASE Throws
  BY <1>7, LinesUndisturbed DEF Throws, Goto, formVars, Alive
<1>8. CASE StopThread("lookup", "stop lookup", "join lookup")
  BY <1>8, LinesUndisturbed DEF StopThread, Clears, Goto, formVars, Alive
<1>9. CASE Join("lookup", "join lookup", "stop announcer")
  BY <1>9, LinesUndisturbed DEF Join, Joinable, Goto, formVars, Alive
<1>10. CASE StopThread("announcer", "stop announcer", "join announcer")
  BY <1>10, LinesUndisturbed DEF StopThread, Clears, Goto, formVars, Alive
<1>11. CASE Join("announcer", "join announcer", "close")
  BY <1>11, LinesUndisturbed DEF Join, Joinable, Goto, formVars, Alive
<1>12. CASE CloseServer
  BY <1>12, LinesUndisturbed DEF CloseServer, Goto, formVars, Alive
<1>13. CASE Return
  BY <1>13 DEF Return, Ends, formVars, LineInv, Alive
<1>14. ASSUME NEW t \in Thread, Opens(t) PROVE LineInv'
  BY <1>14, LinesUndisturbed DEF Opens, At, ThreadOnly, formVars, Alive
<1>15. ASSUME NEW t \in Thread, Loop(t) PROVE LineInv'
  BY <1>15, LinesUndisturbed DEF Loop, At, ThreadOnly, formVars, Alive
<1>16. ASSUME NEW t \in Thread, Work(t) PROVE LineInv'
  BY <1>16, LinesUndisturbed DEF Work, At, ThreadOnly, formVars, Alive
<1>17. ASSUME NEW t \in Thread, Fails(t) PROVE LineInv'
  BY <1>17, LinesUndisturbed DEF Fails, ThreadOnly, formVars, Alive
<1>18. ASSUME NEW p \in 1..MaxStarts, PostLine(p) PROVE LineInv'
  <2>1. UNCHANGED <<starts, main, stdin, held>>
    BY <1>18, PostFacts
  <2>2. \A i \in 1..Len(queue') : queue'[i].from <= starts'
    <3>1. /\ Head(pipe[p]).from <= starts /\ starts' = starts
          /\ \A i \in 1..Len(queue') :
                queue'[i] = Head(pipe[p]) \/ (i \in 1..Len(queue) /\ queue'[i] = queue[i])
      BY <1>18, PostFacts
    <3> QED
      BY <3>1 DEF LineInv
  <2>3. ASSUME NEW r \in 1..MaxStarts
        PROVE  /\ r > starts' => pipe'[r] = <<>>
               /\ \A i \in 1..Len(pipe'[r]) : pipe'[r][i].from = r
    <3>1. CASE r = p
      <4>1. ~(r > starts')
        BY <1>18, <3>1, PostFacts
      <4>2. \A i \in 1..Len(pipe'[r]) : pipe'[r][i].from = r
        <5>1. \A i \in 1..Len(pipe[p]) : pipe[p][i].from = p
          BY DEF LineInv
        <5>2. \A i \in 1..Len(pipe'[p]) :
                 i + 1 \in 1..Len(pipe[p]) /\ pipe'[p][i] = pipe[p][i + 1]
          BY <1>18, PostFacts
        <5> QED
          BY <3>1, <5>1, <5>2
      <4> QED
        BY <4>1, <4>2
    <3>2. CASE r # p
      BY <1>18, <2>1, <3>2, PostFacts DEF LineInv
    <3> QED
      BY <3>1, <3>2
  <2> QED
    BY <2>1, <2>2, <2>3 DEF LineInv, Alive
<1>19. CASE HandlePromptLine
  BY <1>19, HandleFacts DEF LineInv, Alive
<1>20. CASE AnswerBox
  BY <1>20 DEF AnswerBox, HasReceiver, LineInv, Alive
<1>21. CASE StartReceiver
  <2>1. starts' = starts + 1 /\ starts \in Nat /\ held' = TRUE /\ main' = "setup"
        /\ UNCHANGED <<pipe, queue>>
    BY <1>21, StartFacts
  <2>2. \A i \in 1..Len(queue') : queue'[i].from <= starts'
    BY <1>21, StartFacts
  <2>3. ASSUME NEW p \in 1..MaxStarts
        PROVE  /\ p > starts' => pipe'[p] = <<>>
               /\ \A i \in 1..Len(pipe'[p]) : pipe'[p][i].from = p
    BY <2>1 DEF LineInv
  <2> QED
    BY <2>1, <2>2, <2>3 DEF LineInv, Alive
<1>22. CASE StopReceiver
  BY <1>22 DEF StopReceiver, Ends, LineInv, Alive
<1>23. CASE Killed
  BY <1>23 DEF Killed, Ends, formVars, LineInv, Alive
<1>24. CASE UNCHANGED vars
  BY <1>24, LinesUndisturbed DEF vars, processVars, formVars, Alive
<1> QED
  BY <1>1, <1>2, <1>3, <1>4, <1>5, <1>6, <1>7, <1>8, <1>9, <1>10, <1>11, <1>12,
     <1>13, <1>14, <1>15, <1>16, <1>17, <1>18, <1>19, <1>20, <1>21, <1>22, <1>23,
     <1>24
     DEF Next, MainStep, Unwind, ThreadStep, FormStep

\* Every action keeps the question in one place.
LEMMA AskStep ==
    TypeOK /\ LineInv /\ AskInv /\ [Next]_vars => AskInv'
<1> SUFFICES ASSUME TypeOK, LineInv, AskInv, [Next]_vars PROVE AskInv'
  OBVIOUS
<1>1. CASE Bind
  BY <1>1, AskUndisturbed DEF Bind, Goto, formVars, Alive
<1>2. CASE BindFails
  BY <1>2, AskOfNobody DEF BindFails, Ends, formVars, Alive
<1>3. CASE StartAnnouncer
  BY <1>3, AskUndisturbed DEF StartAnnouncer, StartThread, Runs, Goto, formVars,
     Alive
<1>4. CASE StartLookup
  BY <1>4, AskUndisturbed DEF StartLookup, StartThread, Runs, Goto, formVars, Alive
<1>5. CASE Ask
  <2> SUFFICES ASSUME ~mixed', ~split' PROVE AskInv'
    BY DEF AskInv
  <2>1. /\ main = "accept" /\ main' = "asked" /\ Alive /\ Alive'
        /\ UNCHANGED <<starts, held, stdin, queue, boxes, mixed>>
    BY <1>5 DEF Ask, Goto, Alive
  <2>2. ~mixed /\ ~split
    <3>1. split' = split \/ split'
      BY <1>5 DEF Ask
    <3> QED
      BY <2>1, <3>1
  <2>3. ~InPipe /\ ~InQueue /\ ~InBox /\ ~InStdin
    BY <2>1, <2>2 DEF AskInv
  <2>4. PICK lines \in Seq(Line) :
           /\ IsOutput(lines, starts, asks') /\ Undivided(lines)
           /\ pipe'[starts] = pipe[starts] \o lines
    BY <1>5, AskAppends
  <2>5. pipe[starts] = <<>> /\ stdin' = <<>> /\ boxes' = <<>>
    BY <2>1, <2>3 DEF InPipe, InBox, InStdin
  <2>6. pipe'[starts'] = lines
    BY <2>1, <2>4, <2>5
  <2>7. ~InQueue' /\ \A i \in 1..Len(queue') : ~OfCurrent(queue[i])'
    BY <2>1, <2>3 DEF InQueue, OfCurrent
  <2>8. Len(pipe'[starts']) <= 1 /\ \A i \in 1..Len(pipe'[starts']) : ThisQuestion(pipe[starts][i])'
    BY <2>1, <2>4, <2>6 DEF IsOutput, Undivided, For, ThisQuestion
  <2> QED
    BY <2>1, <2>5, <2>7, <2>8 DEF AskInv, InPipe, InBox, InStdin
<1>6. CASE ReadAnswer
  BY <1>6 DEF ReadAnswer, Goto, formVars, AskInv, InPipe, InQueue, InBox, InStdin,
     OfCurrent, Alive, TypeOK
<1>7. CASE Throws
  BY <1>7, AskUndisturbed DEF Throws, Goto, formVars, Alive
<1>8. CASE StopThread("lookup", "stop lookup", "join lookup")
  BY <1>8, AskUndisturbed DEF StopThread, Clears, Goto, formVars, Alive
<1>9. CASE Join("lookup", "join lookup", "stop announcer")
  BY <1>9, AskUndisturbed DEF Join, Joinable, Goto, formVars, Alive
<1>10. CASE StopThread("announcer", "stop announcer", "join announcer")
  BY <1>10, AskUndisturbed DEF StopThread, Clears, Goto, formVars, Alive
<1>11. CASE Join("announcer", "join announcer", "close")
  BY <1>11, AskUndisturbed DEF Join, Joinable, Goto, formVars, Alive
<1>12. CASE CloseServer
  BY <1>12, AskUndisturbed DEF CloseServer, Goto, formVars, Alive
<1>13. CASE Return
  BY <1>13, AskOfNobody DEF Return, Ends, formVars, Alive
<1>14. ASSUME NEW t \in Thread, Opens(t) PROVE AskInv'
  BY <1>14, AskUndisturbed DEF Opens, At, ThreadOnly, formVars, Alive
<1>15. ASSUME NEW t \in Thread, Loop(t) PROVE AskInv'
  BY <1>15, AskUndisturbed DEF Loop, At, ThreadOnly, formVars, Alive
<1>16. ASSUME NEW t \in Thread, Work(t) PROVE AskInv'
  BY <1>16, AskUndisturbed DEF Work, At, ThreadOnly, formVars, Alive
<1>17. ASSUME NEW t \in Thread, Fails(t) PROVE AskInv'
  BY <1>17, AskUndisturbed DEF Fails, ThreadOnly, formVars, Alive
<1>18. ASSUME NEW p \in 1..MaxStarts, PostLine(p) PROVE AskInv'
  <2> SUFFICES ASSUME Alive', ~mixed', ~split' PROVE AskInv'
    BY DEF AskInv
  <2>1. UNCHANGED <<starts, main, asks, stdin, boxes, mixed>> /\ Alive /\ ~mixed /\ ~split
    BY <1>18, PostFacts DEF Alive
  <2>2. CASE p = starts
    <3>1. /\ pipe[starts] # <<>> /\ InPipe /\ ~InQueue /\ ~InBox /\ ~InStdin
          /\ main = "asked" /\ Len(pipe[starts]) <= 1
          /\ \A i \in 1..Len(pipe[starts]) : ThisQuestion(pipe[starts][i])
      BY <1>18, <2>1, <2>2, PostFacts DEF AskInv, InPipe
    <3>2. /\ pipe'[starts] = <<>> /\ ThisQuestion(Head(pipe[starts]))
          /\ Len(queue) \in Nat
          /\ \A i \in 1..Len(queue') :
                \/ i = Len(queue) + 1 /\ queue'[i] = Head(pipe[starts])
                \/ i \in 1..Len(queue) /\ queue'[i] = queue[i]
      BY <1>18, <2>2, <3>1, PostFacts
    <3>3. \A i \in 1..Len(queue') : OfCurrent(queue'[i]) => i = Len(queue) + 1
      BY <3>1, <3>2 DEF InQueue
    <3> QED
      BY <2>1, <3>1, <3>2, <3>3
      DEF AskInv, InPipe, InQueue, InBox, InStdin, OfCurrent, ThisQuestion
  <2>3. CASE p # starts
    <3>1. /\ pipe'[starts] = pipe[starts] /\ Head(pipe[p]).from # starts
          /\ \A i \in 1..Len(queue') :
                \/ queue'[i] = Head(pipe[p])
                \/ i \in 1..Len(queue) /\ queue'[i] = queue[i]
      <4>1. starts > 0 /\ starts \in 0..MaxStarts
        BY <2>1 DEF LineInv, TypeOK
      <4>2. starts \in 1..MaxStarts
        BY <4>1, ReceiverProcessAssumption
      <4> QED
        BY <1>18, <2>3, <4>2, PostFacts
    <3>2. \A i \in 1..Len(queue') :
             OfCurrent(queue'[i]) => i \in 1..Len(queue) /\ queue'[i] = queue[i]
      BY <3>1 DEF OfCurrent
    <3>3. pipe'[starts] = pipe[starts]
      BY <3>1
    <3>4. /\ InPipe' <=> InPipe
          /\ InQueue' => InQueue
          /\ InBox' <=> InBox
          /\ InStdin' <=> InStdin
      <4>1. /\ InPipe' <=> InPipe
            /\ InBox' <=> InBox
            /\ InStdin' <=> InStdin
        BY <2>1, <3>3 DEF InPipe, InBox, InStdin, Alive
      <4>2. InQueue' => InQueue
        BY <2>1, <3>2 DEF InQueue, OfCurrent
      <4> QED
        BY <4>1, <4>2
    <3>5. \A i, j \in 1..Len(queue') :
             OfCurrent(queue'[i]) /\ OfCurrent(queue'[j]) => i = j
      BY <2>1, <3>2 DEF AskInv
    <3>6. \A i \in 1..Len(queue') : OfCurrent(queue'[i]) => ThisQuestion(queue'[i])
      BY <2>1, <3>2 DEF AskInv
    <3>7. /\ InPipe' \/ InQueue' \/ InBox' \/ InStdin' => main' = "asked"
          /\ ~(InPipe' /\ InQueue') /\ ~(InPipe' /\ InBox') /\ ~(InPipe' /\ InStdin')
          /\ ~(InQueue' /\ InBox') /\ ~(InQueue' /\ InStdin') /\ ~(InBox' /\ InStdin')
      BY <2>1, <3>4 DEF AskInv
    <3>8. /\ Len(pipe'[starts']) <= 1 /\ Len(boxes') <= 1 /\ Len(stdin') <= 1
          /\ \A i \in 1..Len(pipe'[starts']) : ThisQuestion(pipe[starts][i])'
          /\ \A i \in 1..Len(boxes') : ThisQuestion(boxes[i])'
          /\ \A i \in 1..Len(stdin') : ThisQuestion(stdin[i])'
      BY <2>1, <3>3 DEF AskInv, ThisQuestion
    <3>9. /\ \A i, j \in 1..Len(queue') :
                OfCurrent(queue[i])' /\ OfCurrent(queue[j])' => i = j
          /\ \A i \in 1..Len(queue') : OfCurrent(queue[i])' => ThisQuestion(queue[i])'
      BY <2>1, <3>5, <3>6 DEF OfCurrent, ThisQuestion
    <3> QED
      BY <3>7, <3>8, <3>9 DEF AskInv
  <2> QED
    BY <2>2, <2>3
<1>19. CASE HandlePromptLine
  <2> SUFFICES ASSUME Alive', ~mixed', ~split' PROVE AskInv'
    BY DEF AskInv
  <2>1. /\ UNCHANGED <<starts, main, asks, stdin, pipe>> /\ Alive
        /\ Head(queue) = queue[1] /\ 1 \in 1..Len(queue)
        /\ \A i \in 1..Len(queue') :
              i + 1 \in 2..Len(queue) /\ i + 1 \in 1..Len(queue) /\ queue'[i] = queue[i + 1]
    BY <1>19, HandleFacts DEF Alive
  <2>2. ~mixed /\ ~split
    <3>1. ~split
      BY <1>19, HandleFacts
    <3>2. ~mixed
      BY <1>19 DEF HandlePromptLine
    <3> QED
      BY <3>1, <3>2
  <2>3. \A i, j \in 1..Len(queue') :
           OfCurrent(queue'[i]) /\ OfCurrent(queue'[j]) => i = j
    <3>1. \A i, j \in 1..Len(queue) : OfCurrent(queue[i]) /\ OfCurrent(queue[j]) => i = j
      BY <2>1, <2>2 DEF AskInv
    <3>2. ASSUME NEW i \in 1..Len(queue'), NEW j \in 1..Len(queue'),
                 OfCurrent(queue'[i]), OfCurrent(queue'[j])
          PROVE  i = j
      <4>1. /\ i + 1 \in 1..Len(queue) /\ j + 1 \in 1..Len(queue)
            /\ OfCurrent(queue[i + 1]) /\ OfCurrent(queue[j + 1])
        BY <2>1, <3>2
      <4>2. i + 1 = j + 1
        BY <3>1, <4>1
      <4> QED
        BY <4>2
    <3> QED
      BY <2>1, <3>2 DEF OfCurrent
  <2>4. CASE boxes' = boxes
    <3>1. /\ InPipe' <=> InPipe
          /\ InQueue' => InQueue
          /\ InBox' <=> InBox
          /\ InStdin' <=> InStdin
      <4>1. /\ InPipe' <=> InPipe
            /\ InBox' <=> InBox
            /\ InStdin' <=> InStdin
        BY <2>1, <2>4 DEF InPipe, InBox, InStdin, Alive
      <4>2. InQueue' => InQueue
        BY <2>1 DEF InQueue, OfCurrent
      <4> QED
        BY <4>1, <4>2
    <3>2. \A i \in 1..Len(queue') : OfCurrent(queue'[i]) => ThisQuestion(queue'[i])
      BY <2>1, <2>2 DEF AskInv
    <3>3. /\ InPipe' \/ InQueue' \/ InBox' \/ InStdin' => main' = "asked"
          /\ ~(InPipe' /\ InQueue') /\ ~(InPipe' /\ InBox') /\ ~(InPipe' /\ InStdin')
          /\ ~(InQueue' /\ InBox') /\ ~(InQueue' /\ InStdin') /\ ~(InBox' /\ InStdin')
      BY <2>1, <2>2, <3>1 DEF AskInv
    <3>4. /\ Len(pipe'[starts']) <= 1 /\ Len(boxes') <= 1 /\ Len(stdin') <= 1
          /\ \A i \in 1..Len(pipe'[starts']) : ThisQuestion(pipe[starts][i])'
          /\ \A i \in 1..Len(boxes') : ThisQuestion(boxes[i])'
          /\ \A i \in 1..Len(stdin') : ThisQuestion(stdin[i])'
      BY <2>1, <2>2, <2>4 DEF AskInv, ThisQuestion
    <3>5. /\ \A i, j \in 1..Len(queue') :
                OfCurrent(queue[i])' /\ OfCurrent(queue[j])' => i = j
          /\ \A i \in 1..Len(queue') : OfCurrent(queue[i])' => ThisQuestion(queue[i])'
      BY <2>1, <2>3, <3>2 DEF OfCurrent, ThisQuestion
    <3> QED
      BY <3>3, <3>4, <3>5 DEF AskInv
  <2>5. CASE boxes' # boxes
    <3>1. boxes' = <<SubjectOf(queue[1])>> \o boxes /\ OfCurrent(queue[1])
      BY <1>19, <2>1, <2>5, HandleFacts DEF OfCurrent
    <3>2. /\ InQueue /\ ~InPipe /\ ~InBox /\ ~InStdin /\ main = "asked"
          /\ ThisQuestion(queue[1])
      BY <2>1, <2>2, <3>1 DEF AskInv, InQueue
    <3>3. boxes' = <<SubjectOf(queue[1])>>
      BY <3>1, <3>2 DEF InBox
    <3>4. ASSUME NEW i \in 1..Len(queue') PROVE ~OfCurrent(queue'[i])
      <4>1. \A j \in 1..Len(queue) : OfCurrent(queue[j]) => j = 1
        BY <2>1, <2>2, <3>1 DEF AskInv
      <4>2. i + 1 \in 1..Len(queue) /\ i + 1 # 1 /\ queue'[i] = queue[i + 1]
        BY <2>1
      <4> QED
        BY <2>1, <4>1, <4>2 DEF OfCurrent
    <3> QED
      BY <2>1, <2>2, <3>2, <3>3, <3>4
      DEF AskInv, InPipe, InQueue, InBox, InStdin, OfCurrent, ThisQuestion, SubjectOf
  <2> QED
    BY <2>4, <2>5
<1>20. CASE AnswerBox
  BY <1>20 DEF AnswerBox,
     TypeOK, LineInv, AskInv, InPipe, InQueue, InBox, InStdin, OfCurrent,
     ThisQuestion, Alive, Serving, Unwinding, Thread, Question
<1>21. CASE StartReceiver
  <2>1. /\ stdin' = <<>> /\ boxes' = <<>> /\ pipe'[starts'] = <<>>
        /\ \A i \in 1..Len(queue') : queue'[i].from # starts'
    BY <1>21, StartFacts
  <2> QED
    BY <2>1 DEF AskInv, InPipe, InQueue, InBox, InStdin, OfCurrent
<1>22. CASE StopReceiver
  BY <1>22, AskOfNobody DEF StopReceiver, Ends, Alive
<1>23. CASE Killed
  BY <1>23, AskOfNobody DEF Killed, Ends, formVars, Alive
<1>24. CASE UNCHANGED vars
  BY <1>24, AskUndisturbed DEF vars, processVars, formVars, Alive
<1> QED
  BY <1>1, <1>2, <1>3, <1>4, <1>5, <1>6, <1>7, <1>8, <1>9, <1>10, <1>11, <1>12,
     <1>13, <1>14, <1>15, <1>16, <1>17, <1>18, <1>19, <1>20, <1>21, <1>22, <1>23,
     <1>24
     DEF Next, MainStep, Unwind, ThreadStep, FormStep

-----------------------------------------------------------------------------
\* The invariant holds always.
LEMMA IInvHolds == Spec => []IInv
<1>1. Init => IInv
  <2> SUFFICES ASSUME Init PROVE IInv
    OBVIOUS
  <2>1. TypeOK
    <3>1. 0 \in 0..MaxStarts /\ 0 \in 0..MaxAsks
      BY ReceiverProcessAssumption
    <3>2. <<>> \in Seq(Line) /\ <<>> \in Seq(Subject)
      BY SeqFacts
    <3> QED
      BY <3>1, <3>2 DEF Init, TypeOK, Serving, Unwinding
  <2>2. ThreadInv
    BY DEF Init, ThreadInv, Started, Joined, Serving, Unwinding
  <2>3. LineInv /\ AskInv
    BY DEF Init, LineInv, AskInv, Alive
  <2> QED
    BY <2>1, <2>2, <2>3 DEF IInv
<1>2. IInv /\ [Next]_vars => IInv'
  BY TypeStep, ThreadStepKeeps, LineStep, AskStep DEF IInv
<1> QED
  BY <1>1, <1>2, PTL DEF Spec

\* Every variable of ReceiverProcess keeps its type, however many receivers and
\* questions there are.
THEOREM TypeCorrect == Spec => []TypeOK
<1>1. IInv => TypeOK
  BY DEF IInv
<1> QED
  BY <1>1, IInvHolds, PTL

\* No announcement and no answer to a lookup leaves the device while the port it
\* names is closed.
THEOREM PortIsOpen == Spec => []AnnouncedIsOpen
<1>1. IInv => AnnouncedIsOpen
  BY DEF IInv, TypeOK, ThreadInv, AnnouncedIsOpen, Started, Joined, Serving,
     Unwinding, Thread
<1> QED
  BY <1>1, IInvHolds, PTL

\* A receiver that serves is announced and looked up, unless an exception has
\* ended the thread that does it.
THEOREM StaysFindable == Spec => []FoundWhileServing
<1>1. IInv => FoundWhileServing
  BY DEF IInv, ThreadInv, FoundWhileServing
<1> QED
  BY <1>1, IInvHolds, PTL

\* An answer at the standard input is for the question being asked, as long as no
\* line of an earlier receiver was handled while a later one ran and no text of a
\* peer came out as a question of its own.
THEOREM AnswersFindTheirQuestion == Spec => []NoAnswerAstray
<1>1. IInv => NoAnswerAstray
  <2> SUFFICES ASSUME IInv, ~mixed, ~split, NEW i \in 1..Len(stdin)
               PROVE  main = "asked" /\ stdin[i].from = starts /\ stdin[i].n = asks
    BY DEF NoAnswerAstray
  <2>1. InStdin
    BY DEF InStdin
  <2>2. Alive
    BY <2>1 DEF IInv, LineInv, InStdin
  <2> QED
    BY <2>1, <2>2 DEF IInv, AskInv, ThisQuestion
<1> QED
  BY <1>1, IInvHolds, PTL

-----------------------------------------------------------------------------
(* Nobody is forgotten *)

\* The line, or the answer, for question b of receiver a is in s.
On(s, a, b) == \E i \in 1..Len(s) : s[i].from = a /\ s[i].n = b

\* The question being asked is in one of the four places at least.
UnderWay ==
    main = "asked" => \/ On(pipe[starts], starts, asks) \/ On(queue, starts, asks)
                      \/ On(boxes, starts, asks) \/ On(stdin, starts, asks)
\* A thread that is joined has been told to end, and both threads are there from
\* their start to the end of the process.
TheyEnd ==
    /\ \A t \in Thread : Joins(t) => ~running[t]
    /\ main = "start lookup" => thread["announcer"] # "none"
    /\ main \in Serving \cup Unwinding => \A t \in Thread : thread[t] # "none"

\* What is in a sequence stays there when something is put at its end or its
\* front, and is its head or in the rest.
LEMMA OnFacts ==
    ASSUME NEW S, NEW s \in Seq(S), NEW a, NEW b
    PROVE  /\ \A e \in S : /\ On(s, a, b) => On(Append(s, e), a, b) /\ On(<<e>> \o s, a, b)
                           /\ For(e, a, b) => On(Append(s, e), a, b) /\ On(<<e>> \o s, a, b)
           /\ s # <<>> /\ On(s, a, b) => For(Head(s), a, b) \/ On(Tail(s), a, b)
<1>1. ASSUME NEW e \in S
      PROVE  /\ On(s, a, b) => On(Append(s, e), a, b) /\ On(<<e>> \o s, a, b)
             /\ For(e, a, b) => On(Append(s, e), a, b) /\ On(<<e>> \o s, a, b)
  <2>1. /\ Len(s) \in Nat /\ Len(Append(s, e)) = Len(s) + 1 /\ Len(<<e>> \o s) = Len(s) + 1
        /\ Append(s, e)[Len(s) + 1] = e /\ (<<e>> \o s)[1] = e
        /\ \A i \in 1..Len(s) : Append(s, e)[i] = s[i] /\ (<<e>> \o s)[i + 1] = s[i]
    OBVIOUS
  <2> DEFINE q == Append(s, e)
             r == <<e>> \o s
  <2> HIDE DEF q, r
  <2>2. /\ Len(s) \in Nat /\ Len(q) = Len(s) + 1 /\ Len(r) = Len(s) + 1
        /\ q[Len(s) + 1] = e /\ r[1] = e
        /\ \A i \in 1..Len(s) : q[i] = s[i] /\ r[i + 1] = s[i]
    BY <2>1 DEF q, r
  <2>3. /\ On(s, a, b) => On(q, a, b) /\ On(r, a, b)
        /\ For(e, a, b) => On(q, a, b) /\ On(r, a, b)
    BY <2>2 DEF On, For
  <2> QED
    BY <2>3 DEF q, r
<1>2. ASSUME s # <<>>, On(s, a, b) PROVE For(Head(s), a, b) \/ On(Tail(s), a, b)
  <2>1. /\ Len(s) \in Nat /\ Head(s) = s[1] /\ Len(Tail(s)) = Len(s) - 1
        /\ \A i \in 1..Len(s) : i # 1 => i - 1 \in 1..Len(Tail(s)) /\ Tail(s)[i - 1] = s[i]
    BY <1>2
  <2>2. PICK i \in 1..Len(s) : s[i].from = a /\ s[i].n = b
    BY <1>2 DEF On
  <2> QED
    BY <2>1, <2>2 DEF On, For
<1> QED
  BY <1>1, <1>2

\* The same for the lines and for what the boxes and answers are for.
LEMMA OnLine ==
    ASSUME NEW s \in Seq(Line), NEW a, NEW b
    PROVE  /\ \A e \in Line : /\ On(s, a, b) => On(Append(s, e), a, b)
                              /\ For(e, a, b) => On(Append(s, e), a, b)
           /\ s # <<>> /\ On(s, a, b) => For(Head(s), a, b) \/ On(Tail(s), a, b)
  BY OnFacts
LEMMA OnSubject ==
    ASSUME NEW s \in Seq(Subject), NEW a, NEW b
    PROVE  /\ \A e \in Subject : /\ On(s, a, b) => On(Append(s, e), a, b) /\ On(<<e>> \o s, a, b)
                                 /\ For(e, a, b) => On(Append(s, e), a, b) /\ On(<<e>> \o s, a, b)
           /\ s # <<>> /\ On(s, a, b) => For(Head(s), a, b) \/ On(Tail(s), a, b)
  BY OnFacts

\* The question goes from the pipe to the queue, to a box, to the standard input,
\* and leaves it when the receiver reads an answer.
LEMMA UnderWayStep ==
    ASSUME TypeOK, LineInv, UnderWay, [Next]_vars
    PROVE  UnderWay'
<1>1. CASE Ask
  <2>1. PICK lines \in Seq(Line) :
           /\ IsOutput(lines, starts, asks')
           /\ pipe[starts] \in Seq(Line) /\ pipe'[starts] = pipe[starts] \o lines
    BY <1>1, AskAppends
  <2>2. starts' = starts
    BY <1>1, AskAppends
  <2>3. /\ Len(pipe[starts]) + 1 \in 1..Len(pipe'[starts])
        /\ pipe'[starts][Len(pipe[starts]) + 1] = lines[1]
    <3>1. 1 \in 1..Len(lines)
      <4>1. Len(lines) \in {1, 2}
        BY <2>1 DEF IsOutput
      <4> QED
        BY <4>1
    <3> QED
      BY <2>1, <3>1, ConcatFacts
  <2>4. On(pipe'[starts], starts, asks')
    BY <2>1, <2>2, <2>3 DEF On, IsOutput, For
  <2> QED
    BY <2>2, <2>4 DEF UnderWay
<1>2. CASE \E p \in 1..MaxStarts : PostLine(p)
  <2>1. PICK p \in 1..MaxStarts : PostLine(p)
    BY <1>2
  <2>2. /\ UNCHANGED <<starts, asks, main, boxes, stdin>>
        /\ pipe[p] # <<>> /\ queue' = Append(queue, Head(pipe[p]))
        /\ pipe' = [pipe EXCEPT ![p] = Tail(@)]
    BY <2>1 DEF PostLine, processVars
  <2>3. pipe[p] \in Seq(Line) /\ queue \in Seq(Line) /\ Head(pipe[p]) \in Line
    BY <2>2, SeqFacts DEF TypeOK
  <2>4. pipe'[p] = Tail(pipe[p]) /\ \A r \in 1..MaxStarts : r # p => pipe'[r] = pipe[r]
    BY <2>2 DEF TypeOK
  <2>5. SUFFICES ASSUME main = "asked"
                 PROVE  \/ On(pipe'[starts], starts, asks) \/ On(queue', starts, asks)
                        \/ On(boxes, starts, asks) \/ On(stdin, starts, asks)
    BY <2>2 DEF UnderWay
  <2>6. starts \in 1..MaxStarts
    BY <2>5, ReceiverProcessAssumption DEF TypeOK, LineInv, Alive
  <2>7. CASE On(pipe[starts], starts, asks)
    <3>1. CASE p = starts
      BY <2>2, <2>3, <2>4, <2>7, <3>1, OnLine, OnSubject
    <3>2. CASE p # starts
      BY <2>4, <2>6, <2>7, <3>2
    <3> QED
      BY <3>1, <3>2
  <2>8. On(queue, starts, asks) => On(queue', starts, asks)
    BY <2>2, <2>3, OnLine, OnSubject
  <2> QED
    BY <2>5, <2>7, <2>8 DEF UnderWay
<1>3. CASE HandlePromptLine
  <2>1. /\ UNCHANGED <<starts, asks, main, pipe, stdin, held>>
        /\ queue # <<>> /\ queue' = Tail(queue)
        /\ HasReceiver /\ Recognized(Head(queue)) => boxes' = <<SubjectOf(Head(queue))>> \o boxes
        /\ boxes' = boxes \/ boxes' = <<SubjectOf(Head(queue))>> \o boxes
    BY <1>3 DEF HandlePromptLine, processVars
  <2>2. /\ queue \in Seq(Line) /\ Head(queue) \in Line /\ boxes \in Seq(Subject)
        /\ SubjectOf(Head(queue)) \in Subject
        /\ For(Head(queue), starts, asks) => For(SubjectOf(Head(queue)), starts, asks)
    BY <2>1, SeqFacts, SubjectType DEF TypeOK, For
  <2>3. SUFFICES ASSUME main = "asked"
                 PROVE  \/ On(pipe[starts], starts, asks) \/ On(queue', starts, asks)
                        \/ On(boxes', starts, asks) \/ On(stdin, starts, asks)
    BY <2>1 DEF UnderWay
  <2>4. boxes' = <<SubjectOf(Head(queue))>> \o boxes
    BY <2>1, <2>2, <2>3 DEF LineInv, HasReceiver, Alive, Recognized, Line, Question
  <2>5. On(boxes, starts, asks) => On(boxes', starts, asks)
    BY <2>2, <2>4, OnLine, OnSubject
  <2>6. On(queue, starts, asks) => On(boxes', starts, asks) \/ On(queue', starts, asks)
    BY <2>1, <2>2, <2>4, OnLine, OnSubject
  <2> QED
    BY <2>3, <2>5, <2>6 DEF UnderWay
<1>4. CASE AnswerBox
  <2>1. /\ UNCHANGED <<starts, asks, main, pipe, queue, held>>
        /\ boxes # <<>> /\ boxes' = Tail(boxes)
        /\ HasReceiver => stdin' = Append(stdin, Head(boxes))
    BY <1>4 DEF AnswerBox
  <2>2. boxes \in Seq(Subject) /\ stdin \in Seq(Subject) /\ Head(boxes) \in Subject
    BY <2>1, SeqFacts DEF TypeOK
  <2>3. SUFFICES ASSUME main = "asked"
                 PROVE  \/ On(pipe[starts], starts, asks) \/ On(queue, starts, asks)
                        \/ On(boxes', starts, asks) \/ On(stdin', starts, asks)
    BY <2>1 DEF UnderWay
  <2>4. stdin' = Append(stdin, Head(boxes))
    BY <2>1, <2>3 DEF LineInv, HasReceiver, Alive
  <2>5. On(stdin, starts, asks) => On(stdin', starts, asks)
    BY <2>2, <2>4, OnLine, OnSubject
  <2>6. On(boxes, starts, asks) => On(stdin', starts, asks) \/ On(boxes', starts, asks)
    BY <2>1, <2>2, <2>4, OnLine, OnSubject
  <2> QED
    BY <2>3, <2>5, <2>6 DEF UnderWay
<1>5. CASE UNCHANGED <<starts, asks, main, pipe, queue, boxes, stdin>> \/ main' # "asked"
  BY <1>5 DEF UnderWay
<1>6. CASE MainStep \/ BindFails \/ Throws
  BY <1>5, <1>6 DEF MainStep, BindFails, Throws, Bind, StartAnnouncer, StartLookup,
     StartThread, ReadAnswer, Unwind, StopThread, Join, CloseServer, Return, Ends, Goto
<1>7. CASE \E t \in Thread : ThreadStep(t) \/ Fails(t)
  BY <1>5, <1>7 DEF ThreadStep, Opens, Loop, Work, Fails, ThreadOnly, formVars
<1>8. CASE StartReceiver \/ StopReceiver \/ Killed
  BY <1>5, <1>8 DEF StartReceiver, StopReceiver, Killed, Ends
<1>9. CASE UNCHANGED vars
  BY <1>5, <1>9 DEF vars, processVars, formVars
<1> QED
  BY <1>1, <1>2, <1>3, <1>4, <1>6, <1>7, <1>8, <1>9 DEF Next, FormStep

\* A thread is started once, and its flag is not set again.
LEMMA TheyEndStep ==
    ASSUME TypeOK, TheyEnd, [Next]_vars
    PROVE  TheyEnd'
<1> USE DEF TypeOK, TheyEnd, Joins, Thread, Serving, Unwinding, Goto
<1>1. CASE StartAnnouncer \/ StartLookup
  BY <1>1 DEF StartAnnouncer, StartLookup, StartThread, Runs
<1>2. CASE Bind \/ ReadAnswer \/ BindFails \/ Ask \/ Throws
  BY <1>2 DEF Bind, ReadAnswer, BindFails, Ends, Ask, Throws
<1>3. CASE Unwind
  BY <1>3 DEF Unwind, StopThread, Clears, Join, CloseServer, Return, Ends
<1>4. ASSUME NEW t \in Thread, ThreadStep(t) \/ Fails(t) PROVE TheyEnd'
  <2>1. main' = main /\ \A u \in Thread : thread[u] # "none" => thread'[u] # "none"
    BY <1>4 DEF ThreadStep, At, Opens, Loop, Work, Fails, ThreadOnly
  <2>2. \A u \in Thread : ~running[u] => ~running'[u]
    BY <1>4 DEF ThreadStep, Opens, Loop, Work, Fails
  <2> QED
    BY <2>1, <2>2
<1>5. CASE FormStep
  BY <1>5 DEF FormStep, PostLine, HandlePromptLine, AnswerBox, processVars
<1>6. CASE StartReceiver \/ StopReceiver \/ Killed
  BY <1>6 DEF StartReceiver, StopReceiver, Killed, Ends
<1>7. CASE UNCHANGED vars
  BY <1>7 DEF vars, processVars
<1> QED
  BY <1>1, <1>2, <1>3, <1>4, <1>5, <1>6, <1>7 DEF Next, MainStep

\* The question a receiver asks is always on its way to the user, or the answer
\* on its way back, and a thread that is joined has been told to end: whatever
\* was killed, started again or left open before.
THEOREM NobodyIsForgotten == Spec => []NobodyForgotten
<1>1. Init => UnderWay /\ TheyEnd
  BY DEF Init, UnderWay, TheyEnd, Joins, Thread, Serving, Unwinding
<1>2. IInv /\ (UnderWay /\ TheyEnd) /\ [Next]_vars => (UnderWay /\ TheyEnd)'
  BY UnderWayStep, TheyEndStep DEF IInv
<1>3. UnderWay /\ TheyEnd => NobodyForgotten
  BY DEF UnderWay, TheyEnd, NobodyForgotten, Carries, On, Joins, Thread, Unwinding
<1> QED
  BY <1>1, <1>2, <1>3, IInvHolds, PTL DEF Spec
==============================================================================
