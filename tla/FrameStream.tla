------------------------------ MODULE FrameStream ------------------------------
(***************************************************************************)
(* One direction of a TCP connection of lan_transfer, as bytes: the writer *)
(* encodes a message (make_*_frame) and sends it as a header and a payload *)
(* (send_frame, send_all); the stream delivers what it likes of it; the    *)
(* reader collects exactly a header, then exactly a payload                *)
(* (receive_frame, receive_exact), checks and decodes (parse_*_frame).     *)
(* Either side is a desktop or a phone (ProtocolCodec.kt): their codecs    *)
(* have different limits.                                                  *)
(*                                                                         *)
(* The unit of the stream is one field of a header, the length of a        *)
(* string, a file size, or one byte of text or data; all are numbers, so   *)
(* that a unit read in the wrong place is taken for something else.        *)
(* A String of the phone is written as the bytes it is encoded in, and the *)
(* character that stands for bytes it could not read as kReplacement.      *)
(***************************************************************************)
EXTENDS Integers, Sequences

CONSTANTS IdMax,        \* kMaxDeviceIdLength
          NameMax,      \* kMaxFileNameLength
          PayloadMax,   \* kMaxPayloadLength
          Malformed,    \* the bytes that are part of no UTF-8 character
          Message,      \* the messages the programs may want to send
          None,         \* no message
          MaxSent       \* bound: how many messages are sent

kMagic == 1279677489
kVersion == 1
HeaderLen == 4
kReplacement == 65533

WireType == [PairRequest |-> 1, PairAccept |-> 2, PairReject |-> 3,
             PairFinalize |-> 4, FileRequest |-> 10, FileAccept |-> 11,
             FileReject |-> 12, FileChunk |-> 13, TransferComplete |-> 14,
             Error |-> 255]
Type == DOMAIN WireType
\* The longest strings a desktop accepts in the fields of a payload.
Limit == [PairRequest |-> <<IdMax>>, PairAccept |-> <<IdMax>>,
          PairReject |-> <<PayloadMax - 1>>, PairFinalize |-> <<IdMax, IdMax>>,
          FileRequest |-> <<IdMax, IdMax, NameMax>>, FileAccept |-> <<IdMax>>,
          FileReject |-> <<PayloadMax - 1>>, FileChunk |-> <<>>,
          TransferComplete |-> <<>>, Error |-> <<>>]

\* What follows the strings of a payload: the size in a file request, the data
\* of a chunk, the text of an error.
TailFits(t, rest) ==
    CASE t = "FileRequest" -> Len(rest) = 1
      [] t \in {"FileChunk", "TransferComplete", "Error"} -> TRUE
      [] OTHER -> rest = <<>>

ASSUME FrameAssumption ==
    /\ IdMax \in Nat \ {0} /\ NameMax \in Nat \ {0} /\ MaxSent \in Nat
    /\ PayloadMax \in Nat /\ PayloadMax >= 2 * IdMax + NameMax + 4
    /\ Malformed \subseteq Nat
    /\ Message \subseteq [type : Type, texts : Seq(Seq(Nat)), rest : Seq(Nat)]
    /\ \A m \in Message : /\ Len(m.texts) = Len(Limit[m.type])
                          /\ TailFits(m.type, m.rest)
    /\ None \notin Message

VARIABLES
    writer, reader, \* "desktop" or "phone"
    msg,        \* the message being written, or None
    calls,      \* what its calls of send_all have still to hand over
    stream,     \* bytes under way
    wEnd,       \* the writer's end is open
    at,         \* what the reader is reading, or why it stopped
    head,       \* type and length from the last header
    buf,        \* what receive_exact has collected
    sent,       \* history: the messages handed over whole
    received    \* the messages decoded

vars == <<writer, reader, msg, calls, stream, wEnd, at, head, buf, sent, received>>

Reading == at \in {"header", "payload"}

Init ==
    /\ writer \in {"desktop", "phone"}
    /\ reader \in {"desktop", "phone"}
    /\ msg = None
    /\ calls = <<>>
    /\ stream = <<>>
    /\ wEnd = TRUE
    /\ at = "header"
    /\ head = [type |-> "Error", length |-> 0]
    /\ buf = <<>>
    /\ sent = <<>>
    /\ received = <<>>

-----------------------------------------------------------------------------
(* Encoding and decoding *)

Field(m, i) ==
    IF i <= Len(m.texts) THEN <<Len(m.texts[i])>> \o m.texts[i] ELSE <<>>
\* Mutant: the second string is written first.
PayloadSwapped(m) == Field(m, 2) \o Field(m, 1) \o Field(m, 3) \o m.rest
Payload(m) == Field(m, 1) \o Field(m, 2) \o Field(m, 3) \o m.rest
Header(m) == <<kMagic, kVersion, WireType[m.type], Len(Payload(m))>>

\* Whether the strings of a message are what a desktop allows.
WithinLimits(m) ==
    \A i \in DOMAIN m.texts : Len(m.texts[i]) \in 1..Limit[m.type][i]

\* String(bytes, UTF_8): what is no UTF-8 is replaced, byte by byte.
Utf8(bytes) ==
    [i \in 1..Len(bytes) |->
        IF bytes[i] \in Malformed THEN kReplacement ELSE bytes[i]]
\* A text as the reader's program has it.
Text(bytes) == IF reader = "phone" THEN Utf8(bytes) ELSE bytes
\* A message whose texts are Strings of a phone; a size and data stay bytes.
InUtf8(m) ==
    [m EXCEPT !.texts = [i \in 1..Len(m.texts) |-> Utf8(m.texts[i])],
              !.rest = IF m.type = "Error" THEN Utf8(m.rest) ELSE m.rest]
\* A message as the reader's program has it.
AsRead(m) == IF reader = "phone" THEN InUtf8(m) ELSE m
Readings == Message \cup {InUtf8(m) : m \in Message}

\* A desktop refuses to write what a desktop would refuse to read; a phone
\* only looks at the length of the payload, and writes nothing but UTF-8.
Writable(m) ==
    /\ Len(Payload(m)) <= PayloadMax
    /\ writer = "desktop" => WithinLimits(m)
    /\ writer = "phone" => InUtf8(m) = m
\* What the reader accepts: a phone has no limit above.
Readable(m) ==
    IF reader = "desktop" THEN WithinLimits(m)
    ELSE \A i \in DOMAIN m.texts : m.texts[i] # <<>>

\* Mutant: a string may not end with the payload.
BadLengthAtEnd(n, max, left) == n = 0 \/ n > max \/ n >= left
\* A length that read_string refuses, with left bytes behind it.
BadLength(n, max, left) == n = 0 \/ n > max \/ n > left
\* One string from the front of r.rest, of at most max bytes.
ReadString(r, max) ==
    LET n == Head(r.rest) IN
    IF r.rest = <<>> \/ BadLength(n, max, Len(r.rest) - 1)
    THEN [r EXCEPT !.ok = FALSE]
    ELSE [r EXCEPT !.texts = Append(r.texts, Text(SubSeq(r.rest, 2, n + 1))),
                   !.rest = SubSeq(r.rest, n + 2, Len(r.rest))]
ReadField(r, t, i) ==
    IF ~r.ok \/ i > Len(Limit[t]) THEN r
    ELSE ReadString(r, IF reader = "desktop" THEN Limit[t][i] ELSE Len(r.rest))
Parse(t, payload) ==
    LET start == [texts |-> <<>>, rest |-> payload, ok |-> TRUE]
        r == ReadField(ReadField(ReadField(start, t, 1), t, 2), t, 3)
    IN [r EXCEPT !.ok = r.ok /\ TailFits(t, r.rest),
                 !.rest = IF t = "Error" THEN Text(r.rest) ELSE r.rest]

-----------------------------------------------------------------------------
(* The writer *)

\* Starts send_frame; a message the codec refuses never gets this far.
Send(m) ==
    /\ wEnd /\ msg = None /\ Len(sent) < MaxSent
    /\ Writable(m)
    /\ msg' = m
    /\ calls' = IF Payload(m) = <<>> THEN <<Header(m)>>
                                     ELSE <<Header(m), Payload(m)>>
    /\ UNCHANGED <<writer, reader, stream, wEnd, at, head, buf, sent, received>>

\* send takes the first k bytes of the current call.  What is sent to a reader
\* that is gone is discarded, until send fails (WriterEnds).
Push(k) ==
    /\ wEnd /\ msg # None
    /\ k <= Len(calls[1])
    /\ stream' = IF Reading THEN stream \o SubSeq(calls[1], 1, k) ELSE <<>>
    /\ IF k < Len(calls[1])
       THEN /\ calls' = [calls EXCEPT ![1] = SubSeq(@, k + 1, Len(@))]
            /\ UNCHANGED <<msg, sent>>
       ELSE /\ calls' = Tail(calls)
            /\ IF Len(calls) = 1 THEN msg' = None /\ sent' = Append(sent, msg)
                                 ELSE UNCHANGED <<msg, sent>>
    /\ UNCHANGED <<writer, reader, wEnd, at, head, buf, received>>

\* The writer closes its socket, or is killed, perhaps within a frame.
WriterEnds ==
    /\ wEnd
    /\ wEnd' = FALSE /\ msg' = None /\ calls' = <<>>
    /\ UNCHANGED <<writer, reader, stream, at, head, buf, sent, received>>

-----------------------------------------------------------------------------
(* The reader *)

Wanted == IF at = "header" THEN HeaderLen ELSE head.length

\* recv gives k bytes, and receive_exact does not have all it wants.
Part(k) == k <= Len(stream) /\ Len(buf) + k < Wanted
ReceivePart(k) ==
    /\ Reading /\ Part(k)
    /\ buf' = buf \o SubSeq(stream, 1, k)
    /\ stream' = SubSeq(stream, k + 1, Len(stream))
    /\ UNCHANGED <<writer, reader, msg, calls, wEnd, at, head, sent, received>>

\* receive_exact returns with all it wants.
Complete == Reading /\ Len(buf) < Wanted /\ Wanted - Len(buf) <= Len(stream)

Whole == buf \o SubSeq(stream, 1, Wanted - Len(buf))
TakeWhole ==
    /\ buf' = <<>>
    /\ stream' = SubSeq(stream, Wanted - Len(buf) + 1, Len(stream))

\* The reader stops: what is still under way has no reader.
Stops(why) ==
    /\ at' = why /\ buf' = <<>> /\ stream' = <<>>
    /\ UNCHANGED received

\* The frame is whole: the reader decodes it and goes on, or refuses it.
Deliver(t, payload) ==
    LET r == Parse(t, payload) IN
    IF ~r.ok THEN Stops("refused")
    ELSE /\ received' = Append(received, [type |-> t, texts |-> r.texts, rest |-> r.rest])
         /\ at' = "header"
         /\ TakeWhole

ValidHeader(h) ==
    /\ h[1] = kMagic /\ h[2] = kVersion
    /\ \E t \in Type : WireType[t] = h[3]
    /\ h[4] <= PayloadMax
TypeOf(h) == CHOOSE t \in Type : WireType[t] = h[3]
\* Mutant: receive_exact is called for an empty payload too, and recv waits.
NoPayloadEver(h) == FALSE
NoPayload(h) == h[4] = 0

ReceiveHeader ==
    /\ at = "header" /\ Complete
    /\ LET h == Whole IN
       IF ~ValidHeader(h) THEN Stops("refused") /\ UNCHANGED head
       ELSE /\ head' = [type |-> TypeOf(h), length |-> h[4]]
            /\ IF NoPayload(h) THEN Deliver(TypeOf(h), <<>>)
               ELSE at' = "payload" /\ TakeWhole /\ UNCHANGED received
    /\ UNCHANGED <<writer, reader, msg, calls, wEnd, sent>>

ReceivePayload ==
    /\ at = "payload" /\ Complete
    /\ Deliver(head.type, Whole)
    /\ UNCHANGED <<writer, reader, msg, calls, wEnd, head, sent>>

\* Mutant: the end is reported as soon as the writer is gone.
AtEndEarly == ~wEnd
\* recv returns 0: everything was read and the writer's end is closed.
AtEnd == ~wEnd /\ stream = <<>>
EndOfStream ==
    /\ Reading /\ AtEnd /\ Stops("ended")
    /\ UNCHANGED <<writer, reader, msg, calls, wEnd, head, sent>>

\* The reader's program closes its socket, for a reason of its own.
ReaderEnds ==
    /\ Reading /\ Stops("closed")
    /\ UNCHANGED <<writer, reader, msg, calls, wEnd, head, sent>>

\* The connection breaks, and what was under way is lost.
Reset ==
    /\ Reading /\ Stops("reset")
    /\ wEnd' = FALSE /\ msg' = None /\ calls' = <<>>
    /\ UNCHANGED <<writer, reader, head, sent>>

-----------------------------------------------------------------------------
WriterStep == \E k \in 1..PayloadMax : Push(k)
ReaderStep ==
    \/ \E k \in 1..PayloadMax : ReceivePart(k)
    \/ ReceiveHeader \/ ReceivePayload \/ EndOfStream
Next ==
    \/ \E m \in Message : Send(m)
    \/ WriterStep \/ ReaderStep
    \/ WriterEnds \/ ReaderEnds \/ Reset

Spec == Init /\ [][Next]_vars
\* A program that writes goes on until send_all returns, and one that reads
\* reads what has arrived.
FairSpec == Spec /\ WF_vars(WriterStep) /\ WF_vars(ReaderStep)

-----------------------------------------------------------------------------
(* Properties *)

\* Every variable has its type, and receive_exact never has more than it wants.
TypeOK ==
    /\ writer \in {"desktop", "phone"} /\ reader \in {"desktop", "phone"}
    /\ msg \in Message \cup {None}
    /\ calls \in Seq(Seq(Nat)) /\ stream \in Seq(Nat) /\ buf \in Seq(Nat)
    /\ wEnd \in BOOLEAN
    /\ at \in {"header", "payload", "ended", "reset", "refused", "closed"}
    /\ head \in [type : Type, length : 0..PayloadMax]
    /\ Reading => Len(buf) < Wanted
    /\ sent \in Seq(Message) /\ Len(sent) <= MaxSent
    /\ received \in Seq(Readings)

\* However the stream cuts the frames up and whoever wrote them, what the
\* parse_*_frame functions return is, message for message and field for field,
\* what was given to the make_*_frame functions: no byte of a frame is ever
\* read as part of another.  Only a text that is not UTF-8, which a desktop may
\* send, is another one on a phone, and there every byte that is UTF-8 stays.
DecodedAsSent ==
    /\ Len(received) <= Len(sent)
    /\ \A i \in 1..Len(received) : received[i] = AsRead(sent[i])

\* A reader reports a protocol error only when the next message really has a
\* string it does not accept, that is, when a phone wrote one that is empty or
\* too long: a frame in pieces or a misread length never causes it.
RefusedByLimits ==
    at = "refused" =>
        /\ Len(received) < Len(sent)
        /\ ~Readable(sent[Len(received) + 1])
        /\ writer = "phone"

\* A read that finds the stream empty has lost nothing and waits for nothing
\* that was promised: every message handed over whole is decoded, and the
\* reader is within a frame only while its writer is, or has left it there.
\* receive_exact asks for the length it was told and has no timeout.
NothingHalfRead ==
    Reading /\ stream = <<>> =>
        /\ Len(received) = Len(sent)
        /\ wEnd /\ msg = None => at = "header" /\ buf = <<>>

\* The messages of s after the first n, as the reader's program has them.
ReadAfter(s, n) == [i \in 1..Len(s) - n |-> AsRead(s[n + i])]

\* The connection is the queue of whole messages that Transfer and Pairing use,
\* each as its reader has it.
Queue == INSTANCE FrameQueue WITH
    Message <- Readings,
    queue <- IF Reading THEN ReadAfter(sent, Len(received)) ELSE <<>>,
    taken <- received,
    rEnd  <- IF Reading THEN "reading" ELSE at
ImplementsFrameQueue == Queue!Spec

\* Again and again the reader has every message, or has stopped; and it does not
\* wait for ever for the rest of a frame whose writer is gone.
CatchesUp == []<>(~Reading \/ (wEnd /\ msg = None /\ Len(received) = Len(sent)))
=============================================================================
