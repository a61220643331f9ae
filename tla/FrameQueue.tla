------------------------------ MODULE FrameQueue ------------------------------
(***************************************************************************)
(* What a connection promises in one direction: a queue of whole messages. *)
(* Transfer and Pairing are written over such queues.  A message enters    *)
(* the queue whole or not at all, leaves it in order and unchanged, stays  *)
(* readable when the writer is gone, and is lost only with the connection. *)
(* FrameStream implements this module over bytes.                          *)
(***************************************************************************)
EXTENDS Sequences

CONSTANT Message

VARIABLES
    queue,  \* the messages under way
    taken,  \* the messages the reader has been given
    wEnd,   \* the writer's end is open
    rEnd    \* "reading", or why the reader stopped

Init ==
    /\ queue = <<>>
    /\ taken = <<>>
    /\ wEnd = TRUE
    /\ rEnd = "reading"

\* A message sent to a reader that is gone is lost.
Send(m) ==
    /\ wEnd
    /\ queue' = IF rEnd = "reading" THEN Append(queue, m) ELSE queue
    /\ UNCHANGED <<taken, wEnd, rEnd>>

Take ==
    /\ rEnd = "reading" /\ queue # <<>>
    /\ taken' = Append(taken, Head(queue))
    /\ queue' = Tail(queue)
    /\ UNCHANGED <<wEnd, rEnd>>

Stop(why) ==
    /\ rEnd = "reading"
    /\ rEnd' = why
    /\ queue' = <<>>

\* The reader refuses the first message of the queue, and reads no more.
Refuse == queue # <<>> /\ Stop("refused") /\ UNCHANGED <<taken, wEnd>>
Close  == Stop("closed") /\ UNCHANGED <<taken, wEnd>>
\* The end of the stream is seen only after everything before it.
SeeEnd == ~wEnd /\ queue = <<>> /\ Stop("ended") /\ UNCHANGED <<taken, wEnd>>

WriterGone == wEnd' = FALSE /\ UNCHANGED <<queue, taken, rEnd>>
Reset == Stop("reset") /\ wEnd' = FALSE /\ UNCHANGED taken

Next ==
    \/ \E m \in Message : Send(m)
    \/ Take \/ Refuse \/ Close \/ SeeEnd \/ WriterGone \/ Reset

Spec == Init /\ [][Next]_<<queue, taken, wEnd, rEnd>>
=============================================================================
