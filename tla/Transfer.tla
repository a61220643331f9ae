------------------------------ MODULE Transfer ------------------------------
(***************************************************************************)
(* One file transfer of lan_transfer: the processes `lan_transfer send`    *)
(* (FileSender::send_file) against the single-threaded receiver            *)
(* (FileReceiver::run_server, the file branch of its loop), over one TCP   *)
(* connection per sender, and the download directory the receiver writes.  *)
(*                                                                         *)
(* A connection is a pair of frame queues, up (to the receiver) and down   *)
(* (to the sender).  sEnd[s] says that the sender's end is alive as far as *)
(* the receiver can tell, rEnd[s] the converse.  A frame queue whose far   *)
(* end is gone is still readable, then reports the end of the stream.      *)
(*                                                                         *)
(* A path is <<b, k>>: the base name b followed by k suffixes ".part", so  *)
(* that the temporary path of one name may be the final path of another.   *)
(* The content of a file is a sequence of bytes, and the i-th byte of the  *)
(* file sender s reads is <<s, i>>.                                        *)
(***************************************************************************)
EXTENDS Integers, Sequences, FiniteSets

CONSTANTS Sender,       \* the runs of `lan_transfer send`, one transfer each
          Base,         \* file names without their ".part" suffixes
          FileName,     \* the names the requests may carry, as sanitized
          Illegal,      \* a name the path sanitizer refuses
          Trust,        \* how the receiver may know the sender of a request
          Absent,       \* what the disk holds where there is no file
          None,         \* no sender
          ChunkSize,    \* the sender's read buffer, 64 KiB in the code
          SenderMax,    \* max_file_size_bytes in the sender's settings.json
          ReceiverMax,  \* max_file_size_bytes in the receiver's settings.json
          SourceMax,    \* bound: the longest file a sender is given
          MaxKills,     \* bound: how often the receiver is killed or its accept fails
          Fault         \* the failures of the environment that may happen

Path == Base \X (0..2)
Byte == Sender \X (Nat \ {0})
Content == Seq(Byte) \cup {Absent}

\* The failures of the environment: a write, close, remove or rename of the
\* disk fails, a temporary file cannot be opened, a source file cannot be
\* read or changes its length, the connection is reset, accept() fails, a
\* sender or the receiver is killed, the security manager refuses a request.
FaultKind == {"open", "write", "close", "remove", "rename", "read", "resize",
              "reset", "accept", "killSender", "killReceiver", "refuse"}

ASSUME ConstantsAssumption ==
    /\ FileName \subseteq (Base \X (0..1)) \cup {Illegal}
    /\ Illegal \notin Base \X (0..1)
    /\ Trust \subseteq {"paired", "unpaired", "misdirected"}
    /\ Absent \notin Seq(Byte)
    /\ None \notin Sender
    /\ ChunkSize \in Nat \ {0}
    /\ SenderMax \in Nat /\ ReceiverMax \in Nat /\ SourceMax \in Nat
    /\ MaxKills \in Nat
    /\ Fault \subseteq FaultKind

VARIABLES
    \* the senders
    spc,        \* where send_file is
    src,        \* the present length of the source file
    name,       \* the file name in the request
    declared,   \* the file size in the request, read before the content
    pos,        \* how much of the source file has been read and sent
    trust,      \* how the receiver knows the sender of the request
    \* the connections
    backlog,    \* connections established and not yet accepted
    up, down, sEnd, rEnd,
    \* the receiver
    rpc,        \* where run_server is
    cur,        \* the connection being served
    remaining,  \* bytes of the file still to come
    cleanup,    \* temp_path_to_cleanup is set
    kills,      \* how often the receiver process has died
    outcome,    \* what the receiver has logged about the request
    disk,       \* the download directory
    \* history
    consent,    \* the user answered yes to this request
    saved       \* whose file was last reported saved at a path

senderVars   == <<spc, src, name, declared, pos, trust>>
connVars     == <<backlog, up, down, sEnd, rEnd>>
receiverVars == <<rpc, cur, remaining, cleanup, kills, outcome, disk>>
historyVars  == <<consent, saved>>
vars == <<senderVars, connVars, receiverVars, historyVars>>

-----------------------------------------------------------------------------
(* Frames, contents and paths *)

FrameType == {"FileRequest", "FileAccept", "FileReject", "FileChunk",
              "TransferComplete", "Error"}
Frame == [type : FrameType, lo : Nat, hi : Nat]

\* A frame without file data, sent when n bytes of the file have been: n tells
\* no receiver anything, it is kept for the properties.
Ctl(t, n) == [type |-> t, lo |-> n, hi |-> n]
\* The payload of a chunk: bytes lo + 1 to hi of the sender's file.
Chunk(lo, hi) == [type |-> "FileChunk", lo |-> lo, hi |-> hi]

Bytes(s, lo, hi) == [i \in 1..(hi - lo) |-> <<s, lo + i>>]
\* The file as the request declared it.
Whole(s) == Bytes(s, 0, declared[s])
\* What a buffered stream has put on the disk after writing content c.
Prefixes(c) == {SubSeq(c, 1, k) : k \in 0..Len(c)}

PartOf(p) == <<p[1], p[2] + 1>>
OutPath  == name[cur]
\* Mutant: the file is written in place.
TempPathInPlace == OutPath
TempPath == PartOf(name[cur])

SenderState == {"idle", "opened", "connected", "await", "body", "finish",
                "done", "failed"}
ReceiverState == {"accept", "initial", "prompt", "prepare", "open", "body",
                  "close", "removeOld", "rename", "catch", "down"}
Outcome == {"pending", "rejected", "failed", "saved"}

\* The states in which the temporary file is open and partly buffered.
Writing == {"body", "close"}

Init ==
    /\ spc = [s \in Sender |-> "idle"]
    /\ src \in [Sender -> 0..SourceMax]
    /\ name \in [Sender -> FileName]
    /\ declared = [s \in Sender |-> 0]
    /\ pos = [s \in Sender |-> 0]
    /\ trust \in [Sender -> Trust]
    /\ backlog = {}
    /\ up = [s \in Sender |-> <<>>]
    /\ down = [s \in Sender |-> <<>>]
    /\ sEnd = [s \in Sender |-> FALSE]
    /\ rEnd = [s \in Sender |-> FALSE]
    /\ rpc = "accept"
    /\ cur = None
    /\ remaining = 0
    /\ cleanup = FALSE
    /\ kills = 0
    /\ outcome = [s \in Sender |-> "pending"]
    /\ disk = [p \in Path |-> Absent]
    /\ consent = [s \in Sender |-> FALSE]
    /\ saved = [p \in Path |-> None]

-----------------------------------------------------------------------------
(* The sender: FileSender::send_file *)

\* An exception leaves send_file: the process reports an error and exits, and
\* the system closes its socket.
SenderFails(s) ==
    /\ spc' = [spc EXCEPT ![s] = "failed"]
    /\ sEnd' = [sEnd EXCEPT ![s] = FALSE]

\* Socket::send_all of one frame.  When the receiver's end is gone the frame
\* is lost, and the call either fails or does not notice yet.
SenderSends(s, f, next) ==
    \/ /\ rEnd[s]
       /\ up' = [up EXCEPT ![s] = Append(@, f)]
       /\ spc' = [spc EXCEPT ![s] = next]
       /\ sEnd' = [sEnd EXCEPT ![s] = @ /\ next # "done"]
    \/ /\ ~rEnd[s]
       /\ UNCHANGED up
       /\ \/ /\ spc' = [spc EXCEPT ![s] = next]
             /\ sEnd' = [sEnd EXCEPT ![s] = @ /\ next # "done"]
          \/ SenderFails(s)

SizeToSend(n) == n > 0 /\ n <= SenderMax

\* exists, is_regular_file, the pairing record: any of them may refuse.
RefuseLocally(s) ==
    /\ spc[s] = "idle"
    /\ SenderFails(s)
    /\ UNCHANGED <<src, name, declared, pos, trust, backlog, up, down, rEnd,
                   receiverVars, historyVars>>

\* The file's size is taken here; its content is read after the handshake.
OpenSource(s) ==
    /\ spc[s] = "idle"
    /\ SizeToSend(src[s])
    /\ spc' = [spc EXCEPT ![s] = "opened"]
    /\ declared' = [declared EXCEPT ![s] = src[s]]
    /\ UNCHANGED <<src, name, pos, trust, connVars, receiverVars, historyVars>>

\* The listening socket completes the connection before it is accepted.
Connect(s) ==
    /\ spc[s] = "opened"
    /\ rpc # "down"
    /\ spc' = [spc EXCEPT ![s] = "connected"]
    /\ backlog' = backlog \cup {s}
    /\ sEnd' = [sEnd EXCEPT ![s] = TRUE]
    /\ rEnd' = [rEnd EXCEPT ![s] = TRUE]
    /\ UNCHANGED <<src, name, declared, pos, trust, up, down, receiverVars,
                   historyVars>>

ConnectRefused(s) ==
    /\ spc[s] = "opened"
    /\ rpc = "down"
    /\ SenderFails(s)
    /\ UNCHANGED <<src, name, declared, pos, trust, backlog, up, down, rEnd,
                   receiverVars, historyVars>>

SendRequest(s) ==
    /\ spc[s] = "connected"
    /\ SenderSends(s, Ctl("FileRequest", 0), "await")
    /\ UNCHANGED <<src, name, declared, pos, trust, backlog, down, rEnd,
                   receiverVars, historyVars>>

\* Mutant: the end of the stream is not noticed.
ReceiveResponseOnly(s) ==
    /\ spc[s] = "await"
    /\ down[s] # <<>>
    /\ down' = [down EXCEPT ![s] = Tail(@)]
    /\ \/ /\ Head(down[s]).type = "FileAccept"
          /\ spc' = [spc EXCEPT ![s] = "body"]
          /\ UNCHANGED sEnd
       \/ /\ Head(down[s]).type # "FileAccept"
          /\ SenderFails(s)
    /\ UNCHANGED <<src, name, declared, pos, trust, backlog, up, rEnd,
                   receiverVars, historyVars>>

\* FileAccept lets the sender go on; FileReject, Error and the end of the
\* stream are exceptions.
ReceiveResponse(s) ==
    /\ spc[s] = "await"
    /\ \/ /\ down[s] # <<>>
          /\ down' = [down EXCEPT ![s] = Tail(@)]
          /\ \/ /\ Head(down[s]).type = "FileAccept"
                /\ spc' = [spc EXCEPT ![s] = "body"]
                /\ UNCHANGED sEnd
             \/ /\ Head(down[s]).type # "FileAccept"
                /\ SenderFails(s)
       \/ /\ down[s] = <<>>
          /\ ~rEnd[s]
          /\ SenderFails(s)
          /\ UNCHANGED down
    /\ UNCHANGED <<src, name, declared, pos, trust, backlog, up, rEnd,
                   receiverVars, historyVars>>

\* How much one read returns: a full buffer, or what is left of the file.
ReadLength(s) == IF src[s] - pos[s] < ChunkSize THEN src[s] - pos[s]
                                                ELSE ChunkSize

\* One turn of the read loop.  A short read has met the end of the file, so
\* the loop ends; after a full read the sender reads again.
SendChunk(s) ==
    /\ spc[s] = "body"
    /\ src[s] > pos[s]
    /\ LET n == ReadLength(s) IN
       /\ pos' = [pos EXCEPT ![s] = @ + n]
       /\ SenderSends(s, Chunk(pos[s], pos[s] + n),
                      IF n < ChunkSize THEN "finish" ELSE "body")
    /\ UNCHANGED <<src, name, declared, trust, backlog, down, rEnd,
                   receiverVars, historyVars>>

ReachEof(s) ==
    /\ spc[s] = "body"
    /\ src[s] <= pos[s]
    /\ spc' = [spc EXCEPT ![s] = "finish"]
    /\ UNCHANGED <<src, name, declared, pos, trust, connVars, receiverVars,
                   historyVars>>

ReadError(s) ==
    /\ "read" \in Fault
    /\ spc[s] = "body"
    /\ SenderFails(s)
    /\ UNCHANGED <<src, name, declared, pos, trust, backlog, up, down, rEnd,
                   receiverVars, historyVars>>

\* The sender does not wait for an answer: it has finished, its socket is
\* closed and main reports "File sent successfully."
SendComplete(s) ==
    /\ spc[s] = "finish"
    /\ SenderSends(s, Ctl("TransferComplete", pos[s]), "done")
    /\ UNCHANGED <<src, name, declared, pos, trust, backlog, down, rEnd,
                   receiverVars, historyVars>>

SenderStep(s) ==
    \/ RefuseLocally(s) \/ OpenSource(s) \/ Connect(s) \/ ConnectRefused(s)
    \/ SendRequest(s) \/ ReceiveResponse(s) \/ SendChunk(s) \/ ReachEof(s)
    \/ ReadError(s) \/ SendComplete(s)

-----------------------------------------------------------------------------
(* The receiver: FileReceiver::run_server *)

\* The receiver closes the connection after a last frame.  A socket closed
\* with unread input resets the connection, which may take what the sender
\* has not read yet with it.
ReceiverCloses(s, last) ==
    /\ up' = [up EXCEPT ![s] = <<>>]
    /\ rEnd' = [rEnd EXCEPT ![s] = FALSE]
    /\ \E lost \in BOOLEAN :
          /\ lost => up[s] # <<>>
          /\ down' = [down EXCEPT ![s] =
                         IF lost THEN <<>>
                         ELSE IF sEnd[s] THEN @ \o last ELSE @]

\* The system closes every connection of the receiver.
AllClose ==
    /\ backlog' = {}
    /\ up' = [s \in Sender |-> <<>>]
    /\ rEnd' = [s \in Sender |-> FALSE]
    /\ \E lost \in SUBSET {s \in Sender : up[s] # <<>>} :
          down' = [s \in Sender |-> IF s \in lost THEN <<>> ELSE down[s]]

\* The process is gone.
ServerDies ==
    /\ AllClose
    /\ rpc' = "down"
    /\ cur' = None
    /\ remaining' = 0
    /\ cleanup' = FALSE
    /\ kills' = kills + 1

\* An exception inside the try block.
Throw == rpc' = "catch"

\* The iteration ends and the next connection is accepted.
NextConnection ==
    /\ rpc' = "accept"
    /\ cur' = None
    /\ remaining' = 0
    /\ cleanup' = FALSE

Accept ==
    /\ rpc = "accept"
    /\ \E s \in backlog :
          /\ cur' = s
          /\ backlog' = backlog \ {s}
    /\ rpc' = "initial"
    /\ UNCHANGED <<senderVars, up, down, sEnd, rEnd, remaining, cleanup, kills,
                   outcome, disk, historyVars>>

\* accept_connection is called outside the try block.
AcceptFails ==
    /\ "accept" \in Fault
    /\ kills < MaxKills
    /\ rpc = "accept"
    /\ ServerDies
    /\ UNCHANGED <<senderVars, sEnd, outcome, disk, historyVars>>

\* Mutant: the pairing is not looked up.
RequestAllowedUnpaired(s) ==
    /\ declared[s] <= ReceiverMax
    /\ trust[s] # "misdirected"

\* The size limit, the recipient's identity and the pairing.
RequestAllowed(s) ==
    /\ declared[s] <= ReceiverMax
    /\ trust[s] # "misdirected"
    /\ trust[s] # "unpaired"

\* The blacklist and the rate limiter of the security manager may refuse what
\* RequestAllowed lets through.
ReceiveRequest ==
    /\ rpc = "initial"
    /\ up[cur] # <<>>
    /\ up' = [up EXCEPT ![cur] = Tail(@)]
    /\ \/ /\ Head(up[cur]).type = "FileRequest"
          /\ RequestAllowed(cur)
          /\ rpc' = "prompt"
       \/ /\ \/ Head(up[cur]).type # "FileRequest"
             \/ ~RequestAllowed(cur)
             \/ "refuse" \in Fault
          /\ Throw
    /\ UNCHANGED <<senderVars, backlog, down, sEnd, rEnd, cur, remaining,
                   cleanup, kills, outcome, disk, historyVars>>

\* Mutant: the end of the stream in the middle of a file is not noticed.
ReceiveEofAtFirst ==
    /\ rpc = "initial"
    /\ up[cur] = <<>>
    /\ ~sEnd[cur]
    /\ Throw
    /\ UNCHANGED <<senderVars, connVars, cur, remaining, cleanup, kills,
                   outcome, disk, historyVars>>

\* Socket::receive_exact meets the end of the stream.
ReceiveEof ==
    /\ rpc \in {"initial", "body"}
    /\ up[cur] = <<>>
    /\ ~sEnd[cur]
    /\ Throw
    /\ UNCHANGED <<senderVars, connVars, cur, remaining, cleanup, kills,
                   outcome, disk, historyVars>>

\* Mutant: FileAccept is not sent.
ConfirmYesSilent ==
    /\ rpc = "prompt"
    /\ consent' = [consent EXCEPT ![cur] = TRUE]
    /\ rpc' = "prepare"
    /\ UNCHANGED <<senderVars, connVars, cur, remaining, cleanup, kills,
                   outcome, disk, saved>>

\* The user agrees, and FileAccept is sent: the path of the file has not been
\* looked at yet.
ConfirmYes ==
    /\ rpc = "prompt"
    /\ consent' = [consent EXCEPT ![cur] = TRUE]
    /\ \/ /\ sEnd[cur]
          /\ down' = [down EXCEPT ![cur] = Append(@, Ctl("FileAccept", 0))]
          /\ rpc' = "prepare"
       \/ /\ ~sEnd[cur]
          /\ rpc' \in {"prepare", "catch"}
          /\ UNCHANGED down
    /\ UNCHANGED <<senderVars, backlog, up, sEnd, rEnd, cur, remaining,
                   cleanup, kills, outcome, disk, saved>>

ConfirmNo ==
    /\ rpc = "prompt"
    /\ \/ /\ ReceiverCloses(cur, <<Ctl("FileReject", 0)>>)
          /\ NextConnection
          /\ outcome' = [outcome EXCEPT ![cur] = "rejected"]
       \/ /\ ~sEnd[cur]
          /\ Throw
          /\ UNCHANGED <<up, down, rEnd, cur, remaining, cleanup, outcome>>
    /\ UNCHANGED <<senderVars, backlog, sEnd, kills, disk, historyVars>>

\* build_output_path refuses the name, before temp_path_to_cleanup is set.
NameRefused ==
    /\ rpc = "prepare"
    /\ name[cur] = Illegal
    /\ Throw
    /\ UNCHANGED <<senderVars, connVars, cur, remaining, cleanup, kills,
                   outcome, disk, historyVars>>

\* A stale temporary file of the same name is removed.
RemoveStalePart ==
    /\ rpc = "prepare"
    /\ name[cur] # Illegal
    /\ cleanup' = TRUE
    /\ \/ /\ disk' = [disk EXCEPT ![TempPath] = Absent]
          /\ rpc' = "open"
       \/ /\ "remove" \in Fault
          /\ disk[TempPath] # Absent
          /\ Throw
          /\ UNCHANGED disk
    /\ UNCHANGED <<senderVars, connVars, cur, remaining, kills, outcome,
                   historyVars>>

OpenPart ==
    /\ rpc = "open"
    /\ \/ /\ disk' = [disk EXCEPT ![TempPath] = <<>>]
          /\ remaining' = declared[cur]
          /\ rpc' = "body"
       \/ /\ "open" \in Fault
          /\ Throw
          /\ UNCHANGED <<disk, remaining>>
    /\ UNCHANGED <<senderVars, connVars, cur, cleanup, kills, outcome,
                   historyVars>>

\* A chunk may not be longer than what is left of the declared size.
ChunkFits(f) == f.hi - f.lo <= remaining

\* Mutant: the loop ends one byte early.
AllReceivedEarly == remaining <= 1
\* The receive loop is over.
AllReceived == remaining <= 0

\* Mutant: the result of write() is not looked at.
ReceiveChunkUnchecked ==
    /\ rpc = "body"
    /\ ~AllReceived
    /\ up[cur] # <<>>
    /\ up' = [up EXCEPT ![cur] = Tail(@)]
    /\ LET f == Head(up[cur]) IN
       \/ /\ f.type = "FileChunk"
          /\ ChunkFits(f)
          /\ \E c \in {Bytes(cur, f.lo, f.hi)} \cup (IF "write" \in Fault THEN {<<>>} ELSE {}) :
                disk' = [disk EXCEPT ![TempPath] = @ \o c]
          /\ remaining' = remaining - (f.hi - f.lo)
          /\ UNCHANGED rpc
       \/ /\ f.type # "FileChunk" \/ ~ChunkFits(f)
          /\ Throw
          /\ UNCHANGED <<disk, remaining>>
    /\ UNCHANGED <<senderVars, backlog, down, sEnd, rEnd, cur, cleanup, kills,
                   outcome, historyVars>>

\* One turn of the receive loop.
ReceiveChunk ==
    /\ rpc = "body"
    /\ ~AllReceived
    /\ up[cur] # <<>>
    /\ up' = [up EXCEPT ![cur] = Tail(@)]
    /\ LET f == Head(up[cur]) IN
       \/ /\ f.type = "FileChunk"
          /\ ChunkFits(f)
          /\ disk' = [disk EXCEPT ![TempPath] = @ \o Bytes(cur, f.lo, f.hi)]
          /\ remaining' = remaining - (f.hi - f.lo)
          /\ UNCHANGED rpc
       \/ /\ \/ f.type # "FileChunk"
             \/ ~ChunkFits(f)
             \/ "write" \in Fault
          /\ Throw
          /\ UNCHANGED <<disk, remaining>>
    /\ UNCHANGED <<senderVars, backlog, down, sEnd, rEnd, cur, cleanup, kills,
                   outcome, historyVars>>

\* After the last byte the frame TransferComplete must follow.
ReceiveComplete ==
    /\ rpc = "body"
    /\ AllReceived
    /\ up[cur] # <<>>
    /\ up' = [up EXCEPT ![cur] = Tail(@)]
    /\ \/ /\ Head(up[cur]).type = "TransferComplete"
          /\ rpc' = "close"
       \/ /\ Head(up[cur]).type # "TransferComplete"
          /\ Throw
    /\ UNCHANGED <<senderVars, backlog, down, sEnd, rEnd, cur, remaining,
                   cleanup, kills, outcome, disk, historyVars>>

\* output.close(): the result is not checked, so when the last flush fails
\* the receiver goes on with a truncated file.
ClosePart ==
    /\ rpc = "close"
    /\ rpc' = "removeOld"
    /\ \/ UNCHANGED disk
       \/ /\ "close" \in Fault
          /\ \E c \in Prefixes(disk[TempPath]) :
                disk' = [disk EXCEPT ![TempPath] = c]
    /\ UNCHANGED <<senderVars, connVars, cur, remaining, cleanup, kills,
                   outcome, historyVars>>

\* An existing file of that name is removed first.
RemoveOld ==
    /\ rpc = "removeOld"
    /\ \/ /\ disk' = [disk EXCEPT ![OutPath] = Absent]
          /\ saved' = [saved EXCEPT ![OutPath] = None]
          /\ rpc' = "rename"
       \/ /\ "remove" \in Fault
          /\ disk[OutPath] # Absent
          /\ Throw
          /\ UNCHANGED <<disk, saved>>
    /\ UNCHANGED <<senderVars, connVars, cur, remaining, cleanup, kills,
                   outcome, consent>>

RenamePart ==
    /\ rpc = "rename"
    /\ disk' = [disk EXCEPT ![OutPath] = disk[TempPath], ![TempPath] = Absent]
    /\ saved' = [saved EXCEPT ![OutPath] = cur]
    /\ outcome' = [outcome EXCEPT ![cur] = "saved"]
    /\ ReceiverCloses(cur, <<>>)
    /\ NextConnection
    /\ UNCHANGED <<senderVars, backlog, sEnd, kills, consent>>

RenameFails ==
    /\ "rename" \in Fault
    /\ rpc = "rename"
    /\ Throw
    /\ UNCHANGED <<senderVars, connVars, cur, remaining, cleanup, kills,
                   outcome, disk, historyVars>>

\* Mutant: the temporary file stays.
CleanUpKeepsPart ==
    /\ rpc = "catch"
    /\ outcome' = [outcome EXCEPT ![cur] = "failed"]
    /\ ReceiverCloses(cur, <<Ctl("Error", 0)>>)
    /\ NextConnection
    /\ UNCHANGED <<senderVars, backlog, sEnd, kills, disk, historyVars>>

\* The catch block: the temporary file is removed, the error frame is sent if
\* the connection still takes it, and the connection is closed.
CleanUp ==
    /\ rpc = "catch"
    /\ disk' = IF cleanup THEN [disk EXCEPT ![TempPath] = Absent] ELSE disk
    /\ outcome' = [outcome EXCEPT ![cur] = "failed"]
    /\ ReceiverCloses(cur, <<Ctl("Error", 0)>>)
    /\ NextConnection
    /\ UNCHANGED <<senderVars, backlog, sEnd, kills, historyVars>>

\* remove() throws inside the catch block: the exception ends the server.
CleanUpFails ==
    /\ "remove" \in Fault
    /\ rpc = "catch"
    /\ cleanup
    /\ disk[TempPath] # Absent
    /\ ServerDies
    /\ UNCHANGED <<senderVars, sEnd, outcome, disk, historyVars>>

Confirm == ConfirmYes \/ ConfirmNo

ReceiverStep ==
    \/ Accept \/ AcceptFails \/ ReceiveRequest \/ ReceiveEof \/ Confirm
    \/ NameRefused \/ RemoveStalePart \/ OpenPart \/ ReceiveChunk
    \/ ReceiveComplete \/ ClosePart \/ RemoveOld \/ RenamePart \/ RenameFails
    \/ CleanUp \/ CleanUpFails

-----------------------------------------------------------------------------
(* The environment *)

\* The desktop GUI stops the receiver with Process.Kill, at any point.  What
\* the stream had buffered is lost.
KillReceiver ==
    /\ "killReceiver" \in Fault
    /\ kills < MaxKills
    /\ rpc # "down"
    /\ ServerDies
    /\ IF rpc \in Writing
         THEN \E c \in Prefixes(disk[TempPath]) :
                 disk' = [disk EXCEPT ![TempPath] = c]
         ELSE UNCHANGED disk
    /\ UNCHANGED <<senderVars, sEnd, outcome, historyVars>>

StartReceiver ==
    /\ rpc = "down"
    /\ rpc' = "accept"
    /\ UNCHANGED <<senderVars, connVars, cur, remaining, cleanup, kills,
                   outcome, disk, historyVars>>

KillSender(s) ==
    /\ "killSender" \in Fault
    /\ spc[s] \notin {"idle", "done", "failed"}
    /\ SenderFails(s)
    /\ UNCHANGED <<src, name, declared, pos, trust, backlog, up, down, rEnd,
                   receiverVars, historyVars>>

\* The connection breaks: what is in flight is lost, both ends see it gone.
ResetConnection(s) ==
    /\ "reset" \in Fault
    /\ sEnd[s] \/ rEnd[s]
    /\ up' = [up EXCEPT ![s] = <<>>]
    /\ down' = [down EXCEPT ![s] = <<>>]
    /\ sEnd' = [sEnd EXCEPT ![s] = FALSE]
    /\ rEnd' = [rEnd EXCEPT ![s] = FALSE]
    /\ UNCHANGED <<senderVars, backlog, receiverVars, historyVars>>

\* Another program writes the source file while it is being sent.  A change
\* after the size was taken and before the first read shows like one made just
\* before that read.
ResizeSource(s) ==
    /\ "resize" \in Fault
    /\ spc[s] = "body"
    /\ \E n \in (0..SourceMax) \ {src[s]} : src' = [src EXCEPT ![s] = n]
    /\ UNCHANGED <<spc, name, declared, pos, trust, connVars, receiverVars,
                   historyVars>>

Environment ==
    \/ KillReceiver \/ StartReceiver
    \/ \E s \in Sender : KillSender(s) \/ ResetConnection(s) \/ ResizeSource(s)

Next ==
    \/ \E s \in Sender : SenderStep(s)
    \/ ReceiverStep
    \/ Environment

Spec == Init /\ [][Next]_vars

\* The operating system schedules every process that runs, and the user at
\* the receiver answers each prompt.  Nobody has to start the server again.
Fairness ==
    /\ WF_vars(ReceiverStep)
    /\ \A s \in Sender : WF_vars(SenderStep(s))

FairSpec == Spec /\ Fairness
-----------------------------------------------------------------------------
(* Properties *)

SenderTypes ==
    /\ spc \in [Sender -> SenderState]
    /\ src \in [Sender -> Nat]
    /\ name \in [Sender -> FileName]
    /\ declared \in [Sender -> Nat]
    /\ pos \in [Sender -> Nat]
    /\ trust \in [Sender -> Trust]

ConnectionTypes ==
    /\ backlog \subseteq Sender
    /\ up \in [Sender -> Seq(Frame)]
    /\ down \in [Sender -> Seq(Frame)]
    /\ sEnd \in [Sender -> BOOLEAN]
    /\ rEnd \in [Sender -> BOOLEAN]

ReceiverTypes ==
    /\ rpc \in ReceiverState
    /\ cur \in Sender \cup {None}
    /\ remaining \in Nat
    /\ cleanup \in BOOLEAN
    /\ kills \in Nat
    /\ outcome \in [Sender -> Outcome]

DiskTypes ==
    /\ disk \in [Path -> Content]
    /\ consent \in [Sender -> BOOLEAN]
    /\ saved \in [Path -> Sender \cup {None}]

\* Every variable has its type.
TypeOK == SenderTypes /\ ConnectionTypes /\ ReceiverTypes /\ DiskTypes

\* The temporary path of one name is not the final path of another.
NamesSeparate == \A f, g \in FileName \ {Illegal} : f # PartOf(g)

\* Whatever the receiver reported saved and has not begun to replace since is
\* on the disk, every byte of the declared size in the sender's order, however
\* the chunks were cut, the connection broke or the source file changed
\* (run_server from the receive loop to the rename).
SavedIntact ==
    \A p \in Path : saved[p] # None => disk[p] = Whole(saved[p])

\* What is left of SavedIntact when a last flush may fail: what was reported
\* saved is a beginning of the one sender's file, and nothing else.
SavedBegins ==
    \A p \in Path : saved[p] # None => disk[p] \in Prefixes(Whole(saved[p]))

\* The moment the old file is gone, its complete replacement is in the
\* temporary file: the receiver never removes the old file first and then
\* finds that the new one is short (the order of the lines after close()).
ReplacementReady ==
    rpc = "rename" => disk[TempPath] = Whole(cur)

Allowed(s) == consent[s] /\ trust[s] = "paired" /\ declared[s] <= ReceiverMax

\* A byte of a sender reaches the download directory only when the user at the
\* receiver agreed to that very request, the sender is paired with this device
\* and its file is within the receiver's limit (the checks before FileAccept).
OnlyConsented ==
    \A p \in Path : disk[p] # Absent =>
        \A i \in DOMAIN disk[p] : Allowed(disk[p][i][1])

\* As long as the receiver process has not died, whenever it waits for a
\* connection the download directory holds the saved files and nothing else:
\* no failure leaves a temporary file behind (the catch block of run_server).
NoLitter ==
    rpc = "accept" /\ kills = 0 =>
        \A p \in Path : disk[p] # Absent => saved[p] # None

\* A transfer the receiver reports saved is one whose sender had finished: it
\* had sent exactly as many bytes as it declared, and TransferComplete.  A
\* source file that grew or shrank while it was sent is never saved.
SavedMeansSentWhole ==
    \A s \in Sender :
        outcome[s] = "saved" => spc[s] = "done" /\ pos[s] = declared[s]

\* A saved file is touched only by the step that replaces it, for a transfer
\* to the same path that is complete in its temporary file: no request that
\* is refused, fails or is killed damages what was received before.
SavedOnlyReplaced ==
    [][\A p \in Path :
          saved[p] # None /\ disk'[p] # disk[p] =>
             /\ rpc = "removeOld" /\ p = OutPath
             /\ disk[TempPath] = Whole(cur)]_vars

\* The receiver never stops in the middle of a connection: it always comes
\* back to accept_connection, unless its process died.  Every read of it ends,
\* with a frame or with the end of the stream.
ReceiverReturns == []<>(rpc \in {"accept", "down"})

\* A sender that waits for the answer to its request gets one, or the end of
\* the stream, and its process ends.
RunEnds == \A s \in Sender : spc[s] = "await" ~> spc[s] \in {"done", "failed"}

\* Who is not held up: it writes or reads a file, or what it waits for, a frame
\* or the end of the stream, is there.
SenderMoves(s) ==
    \/ spc[s] \in {"connected", "body", "finish"}
    \/ spc[s] = "await" /\ (down[s] # <<>> \/ ~rEnd[s])
ReceiverMoves ==
    \/ rpc = "accept" /\ backlog # {}
    \/ rpc \in {"initial", "body"} /\ (up[cur] # <<>> \/ ~sEnd[cur])
    \/ rpc \notin {"accept", "down", "initial", "body"}

\* No two ends of a connection wait for one another: a receiver that waits for
\* a frame waits for a sender that is not held up, and a sender that waits for
\* its answer, also behind other connections at the single-threaded receiver,
\* has somebody before it who is not.  No read of the desktop has a timeout,
\* so every exchange of frames and every failure must leave it so.
NoMutualWait ==
    /\ cur # None => ReceiverMoves \/ SenderMoves(cur)
    /\ \A s \in Sender : spc[s] = "await" =>
          SenderMoves(s) \/ ReceiverMoves \/ (cur # None /\ SenderMoves(cur))

\* What main reports as "File sent successfully." was not refused by the
\* receiver.
SuccessIsNotFailure ==
    \A s \in Sender : spc[s] = "done" => outcome[s] # "failed"

-----------------------------------------------------------------------------
(* The inductive invariant *)

Serving == rpc \notin {"accept", "down"}
\* After FileAccept.
Agreed == {"prepare", "open", "body", "close", "removeOld", "rename"}
\* TransferComplete has been received.
Complete == {"close", "removeOld", "rename"}

\* How much of s's file has been taken off its connection.
Got(s) == IF s = cur /\ rpc = "body" THEN declared[s] - remaining ELSE 0

\* The frames of s are read in the order they were sent and none is skipped.
Expected(s) == \/ s \in backlog
               \/ s = cur /\ rpc \in {"initial", "prompt", "prepare", "open", "body"}

\* The connection served, and what holds while there is none.
ServerInv ==
    /\ cur # None <=> Serving
    /\ ~Serving => ~cleanup
    /\ cleanup => name[cur] # Illegal
    /\ rpc \in {"open", "body", "close", "removeOld", "rename"} =>
          cleanup /\ name[cur] # Illegal
    /\ rpc \in {"initial", "prompt", "prepare"} => ~cleanup
    /\ rpc \in Writing => remaining <= declared[cur]
    /\ rpc \in Complete => remaining = 0

\* A request that came past the checks, and past the user.
ConsentInv ==
    /\ rpc \in Agreed \cup {"prompt"} =>
          trust[cur] = "paired" /\ declared[cur] <= ReceiverMax
    /\ rpc \in Agreed => consent[cur]
    /\ \A s \in Sender : consent[s] => spc[s] \notin {"idle", "opened"}

\* The states a connection goes through, on both ends.
ConnectionInv(s) ==
    /\ spc[s] \in {"idle", "opened"} =>
          s \notin backlog /\ s # cur /\ ~sEnd[s] /\ ~rEnd[s] /\ down[s] = <<>>
    /\ spc[s] \in {"idle", "opened"} \/ s \in backlog \/ s = cur =>
          outcome[s] = "pending"
    /\ spc[s] = "idle" => declared[s] = 0
    /\ spc[s] \notin {"idle", "failed"} \/ s \in backlog \/ s = cur => declared[s] > 0
    /\ s \in backlog => s # cur
    /\ s \in backlog => down[s] = <<>>
    /\ s = cur /\ rpc \in {"initial", "prompt"} => down[s] = <<>>
    /\ ~rEnd[s] => up[s] = <<>>
    /\ rEnd[s] => s \in backlog \/ s = cur
    /\ spc[s] \in {"idle", "opened", "connected", "await"} => pos[s] = 0
    /\ spc[s] \in {"body", "finish", "done"} =>
          s \notin backlog /\ ~(s = cur /\ rpc \in {"initial", "prompt"})

\* What is in flight to the receiver continues what it has.
ChainInv(s) ==
    /\ \A i \in 1..Len(up[s]) :
          /\ up[s][i].lo <= up[s][i].hi
          /\ up[s][i].type # "FileChunk" => up[s][i].lo = up[s][i].hi
          /\ up[s][i].type = "TransferComplete" => i = Len(up[s]) /\ spc[s] = "done"
    /\ Expected(s) =>
          /\ up[s] # <<>> => up[s][1].lo = Got(s)
          /\ \A i \in 2..Len(up[s]) : up[s][i].lo = up[s][i - 1].hi
          /\ rEnd[s] /\ up[s] = <<>> => pos[s] = Got(s)
          /\ rEnd[s] /\ up[s] # <<>> => pos[s] = up[s][Len(up[s])].hi

\* While it is written, the temporary file holds exactly what was received.
PartInv == rpc \in Writing => disk[TempPath] = Bytes(cur, 0, declared[cur] - remaining)

SentInv ==
    /\ SavedMeansSentWhole
    /\ rpc \in Complete => spc[cur] = "done" /\ pos[cur] = declared[cur]
    /\ \A p \in Path : saved[p] # None => outcome[saved[p]] = "saved"

\* What holds whatever fails.
IInv ==
    /\ TypeOK
    /\ ServerInv
    /\ ConsentInv
    /\ \A s \in Sender : ConnectionInv(s) /\ ChainInv(s)
    /\ PartInv
    /\ SentInv

\* What may be stored of a file that was received to its end: all of it, or,
\* when a last flush that fails is not noticed, a beginning.
Stored(s) == IF "close" \in Fault THEN Prefixes(Whole(s)) ELSE {Whole(s)}

\* What holds as well when the names are separate.
SavedInv ==
    /\ rpc \in {"removeOld", "rename"} => disk[TempPath] \in Stored(cur)
    /\ rpc = "rename" => disk[OutPath] = Absent /\ saved[OutPath] = None
    /\ \A p \in Path : saved[p] # None =>
          p \in FileName \ {Illegal} /\ disk[p] \in Stored(saved[p])

\* What each end of the connection of s may wait for.  A request is under way to
\* a receiver that reads one, a FileAccept to a sender whose receiver reads the
\* file, and an end that is open has an open end at the other side.
WaitInv(s) ==
    /\ rpc = "down" => s \notin backlog
    /\ s \in backlog \cup {cur} /\ sEnd[s] => rEnd[s]
    /\ sEnd[s] => spc[s] \in {"connected", "await", "body", "finish"}
    /\ rEnd[s] /\ spc[s] \in {"connected", "await"} => sEnd[s]
    /\ spc[s] = "connected" =>
          up[s] = <<>> /\ ~(s = cur /\ rpc \in Agreed \cup {"prompt"})
    /\ spc[s] = "await" /\ sEnd[s] =>
          /\ s \in backlog \/ (s = cur /\ rpc = "initial") => up[s] # <<>>
          /\ s = cur /\ rpc \in Agreed => down[s] # <<>>

\* What is in the download directory that was not reported saved.
LitterInv ==
    kills = 0 => \A p \in Path :
        disk[p] # Absent => saved[p] # None \/ (cleanup /\ p = TempPath)

-----------------------------------------------------------------------------
(* Transfer implements Delivery *)

\* The abstract directory: the temporary files are hidden, and the new file
\* counts as delivered when the old one is removed.
StoreView ==
    [p \in Path |-> IF rpc = "rename" /\ p = OutPath THEN disk[TempPath]
                    ELSE IF saved[p] # None THEN disk[p] ELSE Absent]
OfferView == [s \in Sender |-> IF declared[s] = 0 THEN Absent ELSE Whole(s)]
AgreedView == {s \in Sender : s = cur /\ consent[s]
                                 /\ rpc \in {"prepare", "open", "body", "close",
                                             "removeOld"}}
TentativeView == IF rpc = "rename" THEN {OutPath} ELSE {}

Promise == INSTANCE Delivery WITH offer <- OfferView, agreed <- AgreedView,
                                  store <- StoreView, tentative <- TentativeView

\* Seen through these views every step of the sender, the receiver and the
\* environment is a step of Delivery or none: run_server's loop of frames and
\* file operations is one atomic replacement of a whole file.
ImplementsDelivery == Promise!Spec
=============================================================================
