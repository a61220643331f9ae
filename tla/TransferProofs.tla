---------------------------- MODULE TransferProofs ----------------------------
(***************************************************************************)
(* Proofs about Transfer.  First its inductive invariant: lemmas on its    *)
(* data, then one lemma per conjunct of TypeOK and of IInv, one step per   *)
(* action, and from them the theorems that hold whatever fails, that of a  *)
(* sender and a receiver never both wait among them.  Then the theorems    *)
(* about the download directory: what was saved stays intact and is        *)
(* replaced by whole files only, nothing arrives unasked, nothing is left  *)
(* behind, and Transfer implements Delivery.                               *)
(***************************************************************************)
EXTENDS Transfer, TLAPS

-----------------------------------------------------------------------------
(* The data, and the types *)

\* What the operators on sequences return, for every set of elements.
LEMMA SeqFacts ==
    ASSUME NEW S
    PROVE  /\ <<>> \in Seq(S)
           /\ \A q \in Seq(S), e \in S : Append(q, e) \in Seq(S)
           /\ \A q \in Seq(S) : q # <<>> => Tail(q) \in Seq(S) /\ Head(q) \in S
           /\ \A q, r \in Seq(S) : q \o r \in Seq(S)
           /\ \A e \in S : <<e>> \in Seq(S)
           /\ \A q \in Seq(S), k \in Nat : k <= Len(q) => SubSeq(q, 1, k) \in Seq(S)
  OBVIOUS

\* Every frame the two programs build is a frame.
LEMMA FrameFacts ==
    /\ \A t \in FrameType, n \in Nat : Ctl(t, n) \in Frame
    /\ \A lo, hi \in Nat : Chunk(lo, hi) \in Frame
    /\ \A f \in Frame : f.type \in FrameType /\ f.lo \in Nat /\ f.hi \in Nat
  BY DEF Ctl, Chunk, Frame, FrameType

\* A stretch of a sender's file is a sequence of bytes of its length.
LEMMA BytesType ==
    ASSUME NEW s \in Sender, NEW lo \in Nat, NEW hi \in Nat, lo <= hi
    PROVE  Bytes(s, lo, hi) \in Seq(Byte) /\ Len(Bytes(s, lo, hi)) = hi - lo
<1>1. hi - lo \in Nat
  OBVIOUS
<1>2. \A i \in 1..(hi - lo) : <<s, lo + i>> \in Byte
  BY DEF Byte
<1> QED
  BY <1>1, <1>2 DEF Bytes

\* The same for a stretch from the beginning of the file.
LEMMA BytesFromStart ==
    ASSUME NEW s \in Sender, NEW k \in Nat
    PROVE  Bytes(s, 0, k) \in Seq(Byte) /\ Len(Bytes(s, 0, k)) = k
<1>1. 0 \in Nat /\ 0 <= k /\ k - 0 = k
  OBVIOUS
<1> QED
  BY <1>1, BytesType

\* Appending the next chunk of a file to what came before gives the file up to
\* the end of that chunk: the receive loop of run_server is a concatenation.
LEMMA BytesExtend ==
    ASSUME NEW s \in Sender, NEW k \in Nat, NEW h \in Nat, k <= h
    PROVE  Bytes(s, 0, k) \o Bytes(s, k, h) = Bytes(s, 0, h)
<1>1. Bytes(s, 0, k) \in Seq(Byte) /\ Len(Bytes(s, 0, k)) = k
  BY BytesFromStart
<1>2. Bytes(s, k, h) \in Seq(Byte) /\ Len(Bytes(s, k, h)) = h - k
  BY BytesType
<1>3. Bytes(s, 0, h) \in Seq(Byte) /\ Len(Bytes(s, 0, h)) = h
  BY BytesFromStart
<1> DEFINE L == Bytes(s, 0, k) \o Bytes(s, k, h)
<1>4. L \in Seq(Byte) /\ Len(L) = h
  BY <1>1, <1>2
<1>5. ASSUME NEW i \in 1..h PROVE L[i] = Bytes(s, 0, h)[i]
  <2>1. Bytes(s, 0, h)[i] = <<s, i>>
    BY DEF Bytes
  <2>2. CASE i <= k
    <3>1. L[i] = Bytes(s, 0, k)[i]
      BY <1>1, <1>2, <2>2
    <3> QED
      BY <2>1, <2>2, <3>1 DEF Bytes
  <2>3. CASE i > k
    <3>1. L[i] = Bytes(s, k, h)[i - k]
      BY <1>1, <1>2, <2>3
    <3>2. i - k \in 1..(h - k) /\ k + (i - k) = i
      BY <2>3
    <3>3. Bytes(s, k, h)[i - k] = <<s, k + (i - k)>>
      BY <3>2 DEF Bytes
    <3> QED
      BY <2>1, <3>1, <3>2, <3>3
  <2>4. i <= k \/ i > k
    OBVIOUS
  <2> QED
    BY <2>2, <2>3, <2>4, Zenon
<1> HIDE DEF L
<1>6. L = Bytes(s, 0, h)
  BY <1>3, <1>4, <1>5
<1> QED
  BY <1>6 DEF L

\* A legal name and its temporary path are two paths of the directory.
LEMMA PathFacts ==
    ASSUME NEW f \in FileName, f # Illegal
    PROVE  f \in Path /\ PartOf(f) \in Path /\ PartOf(f) # f
  BY ConstantsAssumption DEF Path, PartOf

\* What is left of a file that was only partly flushed is a file.
LEMMA PrefixType ==
    ASSUME NEW c \in Seq(Byte), NEW d \in Prefixes(c)
    PROVE  d \in Seq(Byte)
  BY DEF Prefixes

\* An absent, an empty and a written file are contents.
LEMMA ContentFacts ==
    /\ Absent \in Content /\ <<>> \in Content
    /\ \A c \in Seq(Byte) : c \in Content
  BY SeqFacts DEF Content

\* send_all keeps the types of the connections.
LEMMA SendTypes ==
    ASSUME ConnectionTypes, NEW s \in Sender, NEW f \in Frame, NEW next,
           SenderSends(s, f, next)
    PROVE  up' \in [Sender -> Seq(Frame)] /\ sEnd' \in [Sender -> BOOLEAN]
<1>1. up' \in [Sender -> Seq(Frame)]
  <2>1. Append(up[s], f) \in Seq(Frame)
    BY SeqFacts DEF ConnectionTypes
  <2> QED
    BY <2>1 DEF ConnectionTypes, SenderSends
<1>2. sEnd' \in [Sender -> BOOLEAN]
  BY DEF ConnectionTypes, SenderSends, SenderFails
<1> QED
  BY <1>1, <1>2

\* Closing one connection keeps the types of the connections.
LEMMA CloseTypes ==
    ASSUME ConnectionTypes, NEW s \in Sender, NEW last \in Seq(Frame),
           ReceiverCloses(s, last)
    PROVE  /\ up' \in [Sender -> Seq(Frame)] /\ down' \in [Sender -> Seq(Frame)]
           /\ rEnd' \in [Sender -> BOOLEAN]
<1>1. <<>> \in Seq(Frame) /\ down[s] \o last \in Seq(Frame)
  BY SeqFacts DEF ConnectionTypes
<1>2. PICK q \in Seq(Frame) : down' = [down EXCEPT ![s] = q]
  BY <1>1 DEF ConnectionTypes, ReceiverCloses
<1> QED
  BY <1>1, <1>2 DEF ConnectionTypes, ReceiverCloses

\* The end of the receiver process keeps the types of the connections.
LEMMA AllCloseTypes ==
    ASSUME ConnectionTypes, AllClose
    PROVE  /\ backlog' \subseteq Sender
           /\ up' \in [Sender -> Seq(Frame)] /\ down' \in [Sender -> Seq(Frame)]
           /\ rEnd' \in [Sender -> BOOLEAN]
<1>1. <<>> \in Seq(Frame)
  BY SeqFacts
<1>2. PICK lost : down' = [s \in Sender |-> IF s \in lost THEN <<>> ELSE down[s]]
  BY DEF AllClose
<1>3. ASSUME NEW s \in Sender
      PROVE  (IF s \in lost THEN <<>> ELSE down[s]) \in Seq(Frame)
  BY <1>1 DEF ConnectionTypes
<1>4. down' \in [Sender -> Seq(Frame)]
  BY <1>2, <1>3
<1> QED
  BY <1>1, <1>4 DEF ConnectionTypes, AllClose

\* Every step keeps the types of the senders.
LEMMA SenderTypesStep ==
    ASSUME SenderTypes, Next
    PROVE  SenderTypes'
<1>1. ASSUME NEW s \in Sender, RefuseLocally(s)
      PROVE  SenderTypes'
  BY <1>1 DEF RefuseLocally, SenderFails, senderVars, connVars, receiverVars,
     historyVars, SenderTypes, SenderState
<1>2. ASSUME NEW s \in Sender, OpenSource(s)
      PROVE  SenderTypes'
  BY <1>2 DEF OpenSource, senderVars, connVars, receiverVars, historyVars,
     SenderTypes, SenderState
<1>3. ASSUME NEW s \in Sender, Connect(s)
      PROVE  SenderTypes'
  BY <1>3 DEF Connect, senderVars, connVars, receiverVars, historyVars,
     SenderTypes, SenderState
<1>4. ASSUME NEW s \in Sender, ConnectRefused(s)
      PROVE  SenderTypes'
  BY <1>4 DEF ConnectRefused, SenderFails, senderVars, connVars, receiverVars,
     historyVars, SenderTypes, SenderState
<1>5. ASSUME NEW s \in Sender, SendRequest(s)
      PROVE  SenderTypes'
  BY <1>5 DEF SendRequest, SenderSends, SenderFails, senderVars, connVars,
     receiverVars, historyVars, SenderTypes, SenderState
<1>6. ASSUME NEW s \in Sender, ReceiveResponse(s)
      PROVE  SenderTypes'
  BY <1>6 DEF ReceiveResponse, SenderFails, senderVars, connVars,
     receiverVars, historyVars, SenderTypes, SenderState
<1>7. ASSUME NEW s \in Sender, SendChunk(s)
      PROVE  SenderTypes'
  <2>1. ReadLength(s) \in Nat
    BY <1>7, ConstantsAssumption DEF SendChunk, ReadLength, SenderTypes
  <2>2. pos' \in [Sender -> Nat]
    BY <1>7, <2>1 DEF SendChunk, SenderTypes
  <2>3. spc' \in [Sender -> SenderState]
    BY <1>7 DEF SendChunk, SenderSends, SenderFails, SenderTypes, SenderState
  <2> QED
    BY <1>7, <2>2, <2>3 DEF SendChunk, SenderTypes, senderVars, receiverVars
<1>8. ASSUME NEW s \in Sender, ReachEof(s)
      PROVE  SenderTypes'
  BY <1>8 DEF ReachEof, senderVars, connVars, receiverVars, historyVars,
     SenderTypes, SenderState
<1>9. ASSUME NEW s \in Sender, ReadError(s)
      PROVE  SenderTypes'
  BY <1>9 DEF ReadError, SenderFails, senderVars, connVars, receiverVars,
     historyVars, SenderTypes, SenderState
<1>10. ASSUME NEW s \in Sender, SendComplete(s)
      PROVE  SenderTypes'
  BY <1>10 DEF SendComplete, SenderSends, SenderFails, senderVars, connVars,
     receiverVars, historyVars, SenderTypes, SenderState
<1>11. ASSUME NEW s \in Sender, KillSender(s)
      PROVE  SenderTypes'
  BY <1>11 DEF KillSender, SenderFails, senderVars, connVars, receiverVars,
     historyVars, SenderTypes, SenderState
<1>12. ASSUME NEW s \in Sender, ResetConnection(s)
      PROVE  SenderTypes'
  BY <1>12 DEF ResetConnection, senderVars, connVars, receiverVars,
     historyVars, SenderTypes, SenderState
<1>13. ASSUME NEW s \in Sender, ResizeSource(s)
      PROVE  SenderTypes'
  BY <1>13 DEF ResizeSource, senderVars, connVars, receiverVars, historyVars,
     SenderTypes, SenderState
<1>14. CASE Accept
  BY <1>14 DEF Accept, senderVars, connVars, receiverVars, historyVars,
     SenderTypes, SenderState
<1>15. CASE AcceptFails
  BY <1>15 DEF AcceptFails, ServerDies, senderVars, connVars, receiverVars,
     historyVars, SenderTypes, SenderState
<1>16. CASE ReceiveRequest
  BY <1>16 DEF ReceiveRequest, RequestAllowed, Throw, senderVars, connVars,
     receiverVars, historyVars, SenderTypes, SenderState
<1>17. CASE ReceiveEof
  BY <1>17 DEF ReceiveEof, Throw, senderVars, connVars, receiverVars,
     historyVars, SenderTypes, SenderState
<1>18. CASE ConfirmYes
  BY <1>18 DEF ConfirmYes, senderVars, connVars, receiverVars, historyVars,
     SenderTypes, SenderState
<1>19. CASE ConfirmNo
  BY <1>19 DEF ConfirmNo, Throw, ReceiverCloses, NextConnection, senderVars,
     connVars, receiverVars, historyVars, SenderTypes, SenderState
<1>20. CASE NameRefused
  BY <1>20 DEF NameRefused, Throw, senderVars, connVars, receiverVars,
     historyVars, SenderTypes, SenderState
<1>21. CASE RemoveStalePart
  BY <1>21 DEF RemoveStalePart, Throw, senderVars, connVars, receiverVars,
     historyVars, SenderTypes, SenderState
<1>22. CASE OpenPart
  BY <1>22 DEF OpenPart, Throw, senderVars, connVars, receiverVars,
     historyVars, SenderTypes, SenderState
<1>23. CASE ReceiveChunk
  BY <1>23 DEF ReceiveChunk, AllReceived, Throw, ChunkFits, senderVars, connVars,
     receiverVars, historyVars, SenderTypes, SenderState
<1>24. CASE ReceiveComplete
  BY <1>24 DEF ReceiveComplete, AllReceived, Throw, senderVars, connVars, receiverVars,
     historyVars, SenderTypes, SenderState
<1>25. CASE ClosePart
  BY <1>25 DEF ClosePart, senderVars, connVars, receiverVars, historyVars,
     SenderTypes, SenderState
<1>26. CASE RemoveOld
  BY <1>26 DEF RemoveOld, Throw, senderVars, connVars, receiverVars,
     historyVars, SenderTypes, SenderState
<1>27. CASE RenamePart
  BY <1>27 DEF RenamePart, ReceiverCloses, NextConnection, senderVars,
     connVars, receiverVars, historyVars, SenderTypes, SenderState
<1>28. CASE RenameFails
  BY <1>28 DEF RenameFails, Throw, senderVars, connVars, receiverVars,
     historyVars, SenderTypes, SenderState
<1>29. CASE CleanUp
  BY <1>29 DEF CleanUp, ReceiverCloses, NextConnection, senderVars, connVars,
     receiverVars, historyVars, SenderTypes, SenderState
<1>30. CASE CleanUpFails
  BY <1>30 DEF CleanUpFails, ServerDies, senderVars, connVars, receiverVars,
     historyVars, SenderTypes, SenderState
<1>31. CASE KillReceiver
  BY <1>31 DEF KillReceiver, ServerDies, senderVars, connVars, receiverVars,
     historyVars, SenderTypes, SenderState
<1>32. CASE StartReceiver
  BY <1>32 DEF StartReceiver, senderVars, connVars, receiverVars, historyVars,
     SenderTypes, SenderState
<1> QED
  BY <1>1, <1>2, <1>3, <1>4, <1>5, <1>6, <1>7, <1>8, <1>9, <1>10, <1>11,
     <1>12, <1>13, <1>14, <1>15, <1>16, <1>17, <1>18, <1>19, <1>20, <1>21,
     <1>22, <1>23, <1>24, <1>25, <1>26, <1>27, <1>28, <1>29, <1>30, <1>31,
     <1>32 DEF Next, SenderStep, ReceiverStep, Confirm, Environment

\* Every step keeps the types of the connections.
LEMMA ConnectionTypesStep ==
    ASSUME IInv, Next
    PROVE  ConnectionTypes'
<1> USE DEF TypeOK, IInv
<1>1. ASSUME NEW s \in Sender, RefuseLocally(s)
      PROVE  ConnectionTypes'
  BY <1>1 DEF RefuseLocally, SenderFails, senderVars, connVars, receiverVars,
     historyVars, ConnectionTypes
<1>2. ASSUME NEW s \in Sender, OpenSource(s)
      PROVE  ConnectionTypes'
  BY <1>2 DEF OpenSource, senderVars, connVars, receiverVars, historyVars,
     ConnectionTypes
<1>3. ASSUME NEW s \in Sender, Connect(s)
      PROVE  ConnectionTypes'
  BY <1>3 DEF Connect, senderVars, connVars, receiverVars, historyVars,
     ConnectionTypes
<1>4. ASSUME NEW s \in Sender, ConnectRefused(s)
      PROVE  ConnectionTypes'
  BY <1>4 DEF ConnectRefused, SenderFails, senderVars, connVars, receiverVars,
     historyVars, ConnectionTypes
<1>5. ASSUME NEW s \in Sender, SendRequest(s)
      PROVE  ConnectionTypes'
  <2>1. Ctl("FileRequest", 0) \in Frame
    BY FrameFacts DEF FrameType, TypeOK, SenderTypes
  <2>2. up' \in [Sender -> Seq(Frame)] /\ sEnd' \in [Sender -> BOOLEAN]
    BY <1>5, <2>1, SendTypes DEF SendRequest, TypeOK
  <2> QED
    BY <1>5, <2>2 DEF SendRequest, ConnectionTypes, TypeOK
<1>6. ASSUME NEW s \in Sender, ReceiveResponse(s)
      PROVE  ConnectionTypes'
  <2>1. down[s] # <<>> => Tail(down[s]) \in Seq(Frame)
    BY SeqFacts DEF ConnectionTypes
  <2>2. down' \in [Sender -> Seq(Frame)]
    BY <1>6, <2>1 DEF ReceiveResponse, ConnectionTypes
  <2>3. sEnd' \in [Sender -> BOOLEAN]
    BY <1>6 DEF ReceiveResponse, SenderFails, ConnectionTypes
  <2> QED
    BY <1>6, <2>2, <2>3 DEF ReceiveResponse, ConnectionTypes
<1>7. ASSUME NEW s \in Sender, SendChunk(s)
      PROVE  ConnectionTypes'
  <2>1. Chunk(pos[s], pos[s] + ReadLength(s)) \in Frame
    BY <1>7, FrameFacts, ConstantsAssumption DEF SendChunk, ReadLength, SenderTypes
  <2>2. up' \in [Sender -> Seq(Frame)] /\ sEnd' \in [Sender -> BOOLEAN]
    BY <1>7, <2>1, SendTypes DEF SendChunk
  <2> QED
    BY <1>7, <2>2 DEF SendChunk, ConnectionTypes
<1>8. ASSUME NEW s \in Sender, ReachEof(s)
      PROVE  ConnectionTypes'
  BY <1>8 DEF ReachEof, senderVars, connVars, receiverVars, historyVars,
     ConnectionTypes
<1>9. ASSUME NEW s \in Sender, ReadError(s)
      PROVE  ConnectionTypes'
  BY <1>9 DEF ReadError, SenderFails, senderVars, connVars, receiverVars,
     historyVars, ConnectionTypes
<1>10. ASSUME NEW s \in Sender, SendComplete(s)
      PROVE  ConnectionTypes'
  <2>1. Ctl("TransferComplete", pos[s]) \in Frame
    BY FrameFacts DEF FrameType, TypeOK, SenderTypes
  <2>2. up' \in [Sender -> Seq(Frame)] /\ sEnd' \in [Sender -> BOOLEAN]
    BY <1>10, <2>1, SendTypes DEF SendComplete, TypeOK
  <2> QED
    BY <1>10, <2>2 DEF SendComplete, ConnectionTypes, TypeOK
<1>11. ASSUME NEW s \in Sender, KillSender(s)
      PROVE  ConnectionTypes'
  BY <1>11 DEF KillSender, SenderFails, senderVars, connVars, receiverVars,
     historyVars, ConnectionTypes
<1>12. ASSUME NEW s \in Sender, ResetConnection(s)
      PROVE  ConnectionTypes'
  BY <1>12, SeqFacts DEF ResetConnection, senderVars, connVars, receiverVars,
     historyVars, ConnectionTypes
<1>13. ASSUME NEW s \in Sender, ResizeSource(s)
      PROVE  ConnectionTypes'
  BY <1>13 DEF ResizeSource, senderVars, connVars, receiverVars, historyVars,
     ConnectionTypes
<1>14. CASE Accept
  BY <1>14 DEF Accept, senderVars, connVars, receiverVars, historyVars,
     ConnectionTypes
<1>15. CASE AcceptFails
  <2>1. AllClose
    BY <1>15 DEF AcceptFails, ServerDies
  <2> QED
    BY <1>15, <2>1, AllCloseTypes DEF AcceptFails, ConnectionTypes, TypeOK, IInv
<1>16. CASE ReceiveRequest
  BY <1>16, SeqFacts DEF ReceiveRequest, RequestAllowed, Throw, senderVars,
     connVars, receiverVars, historyVars, ConnectionTypes
<1>17. CASE ReceiveEof
  BY <1>17 DEF ReceiveEof, Throw, senderVars, connVars, receiverVars,
     historyVars, ConnectionTypes
<1>18. CASE ConfirmYes
  <2>1. Ctl("FileAccept", 0) \in Frame
    BY FrameFacts DEF FrameType
  <2>2. cur \in Sender
    BY <1>18 DEF ConfirmYes, ServerInv, Serving, ReceiverTypes
  <2>3. Append(down[cur], Ctl("FileAccept", 0)) \in Seq(Frame)
    BY <2>1, <2>2, SeqFacts DEF ConnectionTypes
  <2>4. down' \in [Sender -> Seq(Frame)]
    BY <1>18, <2>3 DEF ConfirmYes, ConnectionTypes
  <2> QED
    BY <1>18, <2>4 DEF ConfirmYes, ConnectionTypes
<1>19. CASE ConfirmNo
  <2>1. CASE ReceiverCloses(cur, <<Ctl("FileReject", 0)>>)
    <3>1. <<Ctl("FileReject", 0)>> \in Seq(Frame)
      BY FrameFacts, SeqFacts DEF FrameType
    <3>2. cur \in Sender
      BY <1>19 DEF ConfirmNo, ServerInv, Serving, ReceiverTypes
    <3>3. /\ up' \in [Sender -> Seq(Frame)] /\ down' \in [Sender -> Seq(Frame)]
          /\ rEnd' \in [Sender -> BOOLEAN]
      BY <2>1, <3>1, <3>2, CloseTypes
    <3> QED
      BY <1>19, <3>3 DEF ConfirmNo, ConnectionTypes
  <2>2. CASE UNCHANGED <<up, down, rEnd>>
    BY <1>19, <2>2 DEF ConfirmNo, ConnectionTypes
  <2> QED
    BY <1>19, <2>1, <2>2 DEF ConfirmNo
<1>20. CASE NameRefused
  BY <1>20 DEF NameRefused, Throw, senderVars, connVars, receiverVars,
     historyVars, ConnectionTypes
<1>21. CASE RemoveStalePart
  BY <1>21 DEF RemoveStalePart, Throw, senderVars, connVars, receiverVars,
     historyVars, ConnectionTypes
<1>22. CASE OpenPart
  BY <1>22 DEF OpenPart, Throw, senderVars, connVars, receiverVars,
     historyVars, ConnectionTypes
<1>23. CASE ReceiveChunk
  BY <1>23, SeqFacts DEF ReceiveChunk, AllReceived, Throw, ChunkFits, senderVars, connVars,
     receiverVars, historyVars, ConnectionTypes
<1>24. CASE ReceiveComplete
  BY <1>24, SeqFacts DEF ReceiveComplete, AllReceived, Throw, senderVars, connVars,
     receiverVars, historyVars, ConnectionTypes
<1>25. CASE ClosePart
  BY <1>25 DEF ClosePart, senderVars, connVars, receiverVars, historyVars,
     ConnectionTypes
<1>26. CASE RemoveOld
  BY <1>26 DEF RemoveOld, Throw, senderVars, connVars, receiverVars,
     historyVars, ConnectionTypes
<1>27. CASE RenamePart
  <2>1. <<>> \in Seq(Frame)
    BY FrameFacts, SeqFacts DEF FrameType
  <2>2. /\ up' \in [Sender -> Seq(Frame)] /\ down' \in [Sender -> Seq(Frame)]
        /\ rEnd' \in [Sender -> BOOLEAN]
    <3>1. cur \in Sender
      BY <1>27 DEF RenamePart, ServerInv, Serving, ReceiverTypes
    <3> QED
      BY <1>27, <3>1, <2>1, CloseTypes DEF RenamePart
  <2> QED
    BY <1>27, <2>2 DEF RenamePart, ConnectionTypes, TypeOK, IInv
<1>28. CASE RenameFails
  BY <1>28 DEF RenameFails, Throw, senderVars, connVars, receiverVars,
     historyVars, ConnectionTypes
<1>29. CASE CleanUp
  <2>1. <<Ctl("Error", 0)>> \in Seq(Frame)
    BY FrameFacts, SeqFacts DEF FrameType
  <2>2. /\ up' \in [Sender -> Seq(Frame)] /\ down' \in [Sender -> Seq(Frame)]
        /\ rEnd' \in [Sender -> BOOLEAN]
    <3>1. cur \in Sender
      BY <1>29 DEF CleanUp, ServerInv, Serving, ReceiverTypes
    <3> QED
      BY <1>29, <3>1, <2>1, CloseTypes DEF CleanUp
  <2> QED
    BY <1>29, <2>2 DEF CleanUp, ConnectionTypes, TypeOK, IInv
<1>30. CASE CleanUpFails
  <2>1. AllClose
    BY <1>30 DEF CleanUpFails, ServerDies
  <2> QED
    BY <1>30, <2>1, AllCloseTypes DEF CleanUpFails, ConnectionTypes, TypeOK, IInv
<1>31. CASE KillReceiver
  <2>1. AllClose
    BY <1>31 DEF KillReceiver, ServerDies
  <2> QED
    BY <1>31, <2>1, AllCloseTypes DEF KillReceiver, ConnectionTypes, TypeOK, IInv
<1>32. CASE StartReceiver
  BY <1>32 DEF StartReceiver, senderVars, connVars, receiverVars, historyVars,
     ConnectionTypes
<1> QED
  BY <1>1, <1>2, <1>3, <1>4, <1>5, <1>6, <1>7, <1>8, <1>9, <1>10, <1>11,
     <1>12, <1>13, <1>14, <1>15, <1>16, <1>17, <1>18, <1>19, <1>20, <1>21,
     <1>22, <1>23, <1>24, <1>25, <1>26, <1>27, <1>28, <1>29, <1>30, <1>31,
     <1>32 DEF Next, SenderStep, ReceiverStep, Confirm, Environment

\* Every step keeps the types of the receiver: above all the count of the bytes
\* still to come never falls below zero (the test of run_server on each chunk).
LEMMA ReceiverTypesStep ==
    ASSUME IInv, Next
    PROVE  ReceiverTypes'
<1>a. ReceiverTypes /\ ConnectionTypes /\ SenderTypes
  BY DEF IInv, TypeOK
<1>1. ASSUME NEW s \in Sender, RefuseLocally(s)
      PROVE  ReceiverTypes'
  BY <1>1, <1>a DEF RefuseLocally, senderVars, connVars, receiverVars,
     historyVars, ReceiverTypes, ReceiverState, Outcome
<1>2. ASSUME NEW s \in Sender, OpenSource(s)
      PROVE  ReceiverTypes'
  BY <1>2, <1>a DEF OpenSource, senderVars, connVars, receiverVars,
     historyVars, ReceiverTypes, ReceiverState, Outcome
<1>3. ASSUME NEW s \in Sender, Connect(s)
      PROVE  ReceiverTypes'
  BY <1>3, <1>a DEF Connect, senderVars, connVars, receiverVars, historyVars,
     ReceiverTypes, ReceiverState, Outcome
<1>4. ASSUME NEW s \in Sender, ConnectRefused(s)
      PROVE  ReceiverTypes'
  BY <1>4, <1>a DEF ConnectRefused, senderVars, connVars, receiverVars,
     historyVars, ReceiverTypes, ReceiverState, Outcome
<1>5. ASSUME NEW s \in Sender, SendRequest(s)
      PROVE  ReceiverTypes'
  BY <1>5, <1>a DEF SendRequest, senderVars, connVars, receiverVars,
     historyVars, ReceiverTypes, ReceiverState, Outcome
<1>6. ASSUME NEW s \in Sender, ReceiveResponse(s)
      PROVE  ReceiverTypes'
  BY <1>6, <1>a DEF ReceiveResponse, senderVars, connVars, receiverVars,
     historyVars, ReceiverTypes, ReceiverState, Outcome
<1>7. ASSUME NEW s \in Sender, SendChunk(s)
      PROVE  ReceiverTypes'
  BY <1>7, <1>a DEF SendChunk, senderVars, connVars, receiverVars,
     historyVars, ReceiverTypes, ReceiverState, Outcome
<1>8. ASSUME NEW s \in Sender, ReachEof(s)
      PROVE  ReceiverTypes'
  BY <1>8, <1>a DEF ReachEof, senderVars, connVars, receiverVars, historyVars,
     ReceiverTypes, ReceiverState, Outcome
<1>9. ASSUME NEW s \in Sender, ReadError(s)
      PROVE  ReceiverTypes'
  BY <1>9, <1>a DEF ReadError, senderVars, connVars, receiverVars,
     historyVars, ReceiverTypes, ReceiverState, Outcome
<1>10. ASSUME NEW s \in Sender, SendComplete(s)
      PROVE  ReceiverTypes'
  BY <1>10, <1>a DEF SendComplete, senderVars, connVars, receiverVars,
     historyVars, ReceiverTypes, ReceiverState, Outcome
<1>11. ASSUME NEW s \in Sender, KillSender(s)
      PROVE  ReceiverTypes'
  BY <1>11, <1>a DEF KillSender, senderVars, connVars, receiverVars,
     historyVars, ReceiverTypes, ReceiverState, Outcome
<1>12. ASSUME NEW s \in Sender, ResetConnection(s)
      PROVE  ReceiverTypes'
  BY <1>12, <1>a DEF ResetConnection, senderVars, connVars, receiverVars,
     historyVars, ReceiverTypes, ReceiverState, Outcome
<1>13. ASSUME NEW s \in Sender, ResizeSource(s)
      PROVE  ReceiverTypes'
  BY <1>13, <1>a DEF ResizeSource, senderVars, connVars, receiverVars,
     historyVars, ReceiverTypes, ReceiverState, Outcome
<1>14. CASE Accept
  BY <1>14, <1>a DEF Accept, senderVars, connVars, receiverVars, historyVars,
     ReceiverTypes, ReceiverState, Outcome, ConnectionTypes
<1>15. CASE AcceptFails
  <2>1. rpc' \in ReceiverState /\ remaining' \in Nat /\ kills' \in Nat
    BY <1>15, <1>a DEF AcceptFails, ServerDies, ReceiverTypes, ReceiverState
  <2>2. cur' \in Sender \cup {None} /\ cleanup' \in BOOLEAN
    BY <1>15 DEF AcceptFails, ServerDies
  <2>3. outcome' \in [Sender -> Outcome]
    BY <1>15, <1>a DEF AcceptFails, ServerDies, ReceiverTypes
  <2> QED
    BY <2>1, <2>2, <2>3 DEF ReceiverTypes
<1>16. CASE ReceiveRequest
  BY <1>16, <1>a DEF ReceiveRequest, RequestAllowed, Throw, senderVars,
     connVars, receiverVars, historyVars, ReceiverTypes, ReceiverState,
     Outcome
<1>17. CASE ReceiveEof
  BY <1>17, <1>a DEF ReceiveEof, Throw, senderVars, connVars, receiverVars,
     historyVars, ReceiverTypes, ReceiverState, Outcome
<1>18. CASE ConfirmYes
  BY <1>18, <1>a DEF ConfirmYes, senderVars, connVars, receiverVars,
     historyVars, ReceiverTypes, ReceiverState, Outcome
<1>19. CASE ConfirmNo
  <2>1. rpc' \in ReceiverState /\ remaining' \in Nat /\ kills' \in Nat
    BY <1>19, <1>a DEF ConfirmNo, Throw, NextConnection, ReceiverTypes, ReceiverState
  <2>2. cur' \in Sender \cup {None} /\ cleanup' \in BOOLEAN
    BY <1>19, <1>a DEF ConfirmNo, NextConnection, ReceiverTypes
  <2>3. outcome' \in [Sender -> Outcome]
    BY <1>19, <1>a DEF ConfirmNo, ReceiverTypes, Outcome
  <2> QED
    BY <2>1, <2>2, <2>3 DEF ReceiverTypes
<1>20. CASE NameRefused
  BY <1>20, <1>a DEF NameRefused, Throw, senderVars, connVars, receiverVars,
     historyVars, ReceiverTypes, ReceiverState, Outcome
<1>21. CASE RemoveStalePart
  BY <1>21, <1>a DEF RemoveStalePart, Throw, senderVars, connVars,
     receiverVars, historyVars, ReceiverTypes, ReceiverState, Outcome
<1>22. CASE OpenPart
  <2>1. cur \in Sender
    BY <1>22, <1>a DEF OpenPart, IInv, ServerInv, Serving, ReceiverTypes
  <2> QED
    BY <1>22, <1>a, <2>1 DEF OpenPart, Throw, ReceiverTypes, ReceiverState, SenderTypes
<1>23. CASE ReceiveChunk
  <2>1. cur \in Sender
    BY <1>23, <1>a DEF ReceiveChunk, AllReceived, IInv, ServerInv, Serving, ReceiverTypes
  <2>2. Head(up[cur]) \in Frame
    BY <1>23, <1>a, <2>1, SeqFacts DEF ReceiveChunk, AllReceived, ConnectionTypes
  <2>3. Head(up[cur]).lo \in Nat /\ Head(up[cur]).hi \in Nat
    BY <2>2, FrameFacts
  <2>4. Head(up[cur]).lo <= Head(up[cur]).hi
    BY <1>23, <1>a, <2>1 DEF ReceiveChunk, AllReceived, IInv, ChainInv, ConnectionTypes
  <2>5. remaining' \in Nat
    <3>1. \A r, a, b \in Nat : a <= b /\ b - a <= r => r - (b - a) \in Nat
      OBVIOUS
    <3>2. remaining' = remaining \/
             /\ Head(up[cur]).hi - Head(up[cur]).lo <= remaining
             /\ remaining' = remaining - (Head(up[cur]).hi - Head(up[cur]).lo)
      BY <1>23 DEF ReceiveChunk, AllReceived, ChunkFits
    <3> QED
      BY <1>a, <2>3, <2>4, <3>1, <3>2 DEF ReceiverTypes
  <2> QED
    BY <1>23, <1>a, <2>5 DEF ReceiveChunk, AllReceived, Throw, ReceiverTypes, ReceiverState
<1>24. CASE ReceiveComplete
  BY <1>24, <1>a DEF ReceiveComplete, AllReceived, Throw, senderVars, connVars,
     receiverVars, historyVars, ReceiverTypes, ReceiverState, Outcome
<1>25. CASE ClosePart
  BY <1>25, <1>a DEF ClosePart, senderVars, connVars, receiverVars,
     historyVars, ReceiverTypes, ReceiverState, Outcome
<1>26. CASE RemoveOld
  BY <1>26, <1>a DEF RemoveOld, Throw, senderVars, connVars, receiverVars,
     historyVars, ReceiverTypes, ReceiverState, Outcome
<1>27. CASE RenamePart
  BY <1>27, <1>a DEF RenamePart, NextConnection, senderVars, connVars,
     receiverVars, historyVars, ReceiverTypes, ReceiverState, Outcome
<1>28. CASE RenameFails
  BY <1>28, <1>a DEF RenameFails, Throw, senderVars, connVars, receiverVars,
     historyVars, ReceiverTypes, ReceiverState, Outcome
<1>29. CASE CleanUp
  BY <1>29, <1>a DEF CleanUp, NextConnection, senderVars, connVars,
     receiverVars, historyVars, ReceiverTypes, ReceiverState, Outcome
<1>30. CASE CleanUpFails
  <2>1. rpc' \in ReceiverState /\ remaining' \in Nat /\ kills' \in Nat
    BY <1>30, <1>a DEF CleanUpFails, ServerDies, ReceiverTypes, ReceiverState
  <2>2. cur' \in Sender \cup {None} /\ cleanup' \in BOOLEAN
    BY <1>30 DEF CleanUpFails, ServerDies
  <2>3. outcome' \in [Sender -> Outcome]
    BY <1>30, <1>a DEF CleanUpFails, ServerDies, ReceiverTypes
  <2> QED
    BY <2>1, <2>2, <2>3 DEF ReceiverTypes
<1>31. CASE KillReceiver
  <2>1. rpc' \in ReceiverState /\ remaining' \in Nat /\ kills' \in Nat
    BY <1>31, <1>a DEF KillReceiver, ServerDies, ReceiverTypes, ReceiverState
  <2>2. cur' \in Sender \cup {None} /\ cleanup' \in BOOLEAN
    BY <1>31 DEF KillReceiver, ServerDies
  <2>3. outcome' \in [Sender -> Outcome]
    BY <1>31, <1>a DEF KillReceiver, ServerDies, ReceiverTypes
  <2> QED
    BY <2>1, <2>2, <2>3 DEF ReceiverTypes
<1>32. CASE StartReceiver
  BY <1>32, <1>a DEF StartReceiver, senderVars, connVars, receiverVars,
     historyVars, ReceiverTypes, ReceiverState, Outcome
<1> QED
  BY <1>1, <1>2, <1>3, <1>4, <1>5, <1>6, <1>7, <1>8, <1>9, <1>10, <1>11,
     <1>12, <1>13, <1>14, <1>15, <1>16, <1>17, <1>18, <1>19, <1>20, <1>21,
     <1>22, <1>23, <1>24, <1>25, <1>26, <1>27, <1>28, <1>29, <1>30, <1>31,
     <1>32 DEF Next, SenderStep, ReceiverStep, Confirm, Environment

\* The temporary file is there while it is being written.
LEMMA PartContent ==
    ASSUME IInv, rpc \in Writing
    PROVE  \A c \in Prefixes(disk[TempPath]) : c \in Seq(Byte) /\ c \in Content
<1>1. cur \in Sender
  BY DEF IInv, TypeOK, ServerInv, Serving, ReceiverTypes, Writing
<1>2. declared[cur] - remaining \in Nat
  BY <1>1 DEF IInv, TypeOK, ServerInv, SenderTypes, ReceiverTypes
<1>3. disk[TempPath] \in Seq(Byte)
  <2>1. Bytes(cur, 0, declared[cur] - remaining) \in Seq(Byte)
    BY <1>1, <1>2, BytesFromStart
  <2> QED
    BY <2>1 DEF IInv, PartInv
<1> QED
  BY <1>3, PrefixType, ContentFacts

\* Every step keeps the types of the disk.
LEMMA DiskTypesStep ==
    ASSUME IInv, Next
    PROVE  DiskTypes'
<1> USE DEF IInv, TypeOK
<1>1. ASSUME NEW s \in Sender, RefuseLocally(s)
      PROVE  DiskTypes'
  BY <1>1 DEF RefuseLocally, senderVars, connVars, receiverVars, historyVars,
     DiskTypes
<1>2. ASSUME NEW s \in Sender, OpenSource(s)
      PROVE  DiskTypes'
  BY <1>2 DEF OpenSource, senderVars, connVars, receiverVars, historyVars,
     DiskTypes
<1>3. ASSUME NEW s \in Sender, Connect(s)
      PROVE  DiskTypes'
  BY <1>3 DEF Connect, senderVars, connVars, receiverVars, historyVars,
     DiskTypes
<1>4. ASSUME NEW s \in Sender, ConnectRefused(s)
      PROVE  DiskTypes'
  BY <1>4 DEF ConnectRefused, senderVars, connVars, receiverVars, historyVars,
     DiskTypes
<1>5. ASSUME NEW s \in Sender, SendRequest(s)
      PROVE  DiskTypes'
  BY <1>5 DEF SendRequest, senderVars, connVars, receiverVars, historyVars,
     DiskTypes
<1>6. ASSUME NEW s \in Sender, ReceiveResponse(s)
      PROVE  DiskTypes'
  BY <1>6 DEF ReceiveResponse, senderVars, connVars, receiverVars,
     historyVars, DiskTypes
<1>7. ASSUME NEW s \in Sender, SendChunk(s)
      PROVE  DiskTypes'
  BY <1>7 DEF SendChunk, senderVars, connVars, receiverVars, historyVars,
     DiskTypes
<1>8. ASSUME NEW s \in Sender, ReachEof(s)
      PROVE  DiskTypes'
  BY <1>8 DEF ReachEof, senderVars, connVars, receiverVars, historyVars,
     DiskTypes
<1>9. ASSUME NEW s \in Sender, ReadError(s)
      PROVE  DiskTypes'
  BY <1>9 DEF ReadError, senderVars, connVars, receiverVars, historyVars,
     DiskTypes
<1>10. ASSUME NEW s \in Sender, SendComplete(s)
      PROVE  DiskTypes'
  BY <1>10 DEF SendComplete, senderVars, connVars, receiverVars, historyVars,
     DiskTypes
<1>11. ASSUME NEW s \in Sender, KillSender(s)
      PROVE  DiskTypes'
  BY <1>11 DEF KillSender, senderVars, connVars, receiverVars, historyVars,
     DiskTypes
<1>12. ASSUME NEW s \in Sender, ResetConnection(s)
      PROVE  DiskTypes'
  BY <1>12 DEF ResetConnection, senderVars, connVars, receiverVars,
     historyVars, DiskTypes
<1>13. ASSUME NEW s \in Sender, ResizeSource(s)
      PROVE  DiskTypes'
  BY <1>13 DEF ResizeSource, senderVars, connVars, receiverVars, historyVars,
     DiskTypes
<1>14. CASE Accept
  BY <1>14 DEF Accept, senderVars, connVars, receiverVars, historyVars,
     DiskTypes
<1>15. CASE AcceptFails
  BY <1>15 DEF AcceptFails, ServerDies, senderVars, connVars, receiverVars,
     historyVars, DiskTypes
<1>16. CASE ReceiveRequest
  BY <1>16 DEF ReceiveRequest, RequestAllowed, Throw, senderVars, connVars,
     receiverVars, historyVars, DiskTypes
<1>17. CASE ReceiveEof
  BY <1>17 DEF ReceiveEof, Throw, senderVars, connVars, receiverVars,
     historyVars, DiskTypes
<1>18. CASE ConfirmYes
  BY <1>18 DEF ConfirmYes, senderVars, connVars, receiverVars, historyVars,
     DiskTypes
<1>19. CASE ConfirmNo
  BY <1>19 DEF ConfirmNo, Throw, NextConnection, senderVars, connVars,
     receiverVars, historyVars, DiskTypes
<1>20. CASE NameRefused
  BY <1>20 DEF NameRefused, Throw, senderVars, connVars, receiverVars,
     historyVars, DiskTypes
<1>21. CASE RemoveStalePart
  BY <1>21, ContentFacts DEF RemoveStalePart, Throw, senderVars, connVars,
     receiverVars, historyVars, DiskTypes
<1>22. CASE OpenPart
  BY <1>22, ContentFacts DEF OpenPart, Throw, senderVars, connVars,
     receiverVars, historyVars, DiskTypes
<1>23. CASE ReceiveChunk
  <2>1. cur \in Sender /\ rpc \in Writing
    BY <1>23 DEF ReceiveChunk, AllReceived, ServerInv, Serving, ReceiverTypes, Writing
  <2>2. Head(up[cur]) \in Frame
    BY <1>23, <2>1, SeqFacts DEF ReceiveChunk, AllReceived, ConnectionTypes
  <2> DEFINE f == Head(up[cur])
             k == declared[cur] - remaining
  <2>3. f.lo \in Nat /\ f.hi \in Nat /\ f.lo <= f.hi
    <3>1. up[cur][1].lo <= up[cur][1].hi
      BY <1>23, <2>1 DEF ReceiveChunk, AllReceived, ChainInv, ConnectionTypes
    <3> QED
      BY <2>1, <2>2, <3>1, FrameFacts DEF ConnectionTypes
  <2>4. k \in Nat
    BY <2>1 DEF ServerInv, SenderTypes, ReceiverTypes
  <2>5. disk[TempPath] \in Seq(Byte) /\ Bytes(cur, f.lo, f.hi) \in Seq(Byte)
    <3>1. disk[TempPath] = Bytes(cur, 0, k)
      BY <2>1 DEF PartInv
    <3>2. Bytes(cur, 0, k) \in Seq(Byte)
      BY <2>1, <2>4, BytesFromStart
    <3>3. Bytes(cur, f.lo, f.hi) \in Seq(Byte)
      BY <2>1, <2>3, BytesType
    <3> QED
      BY <3>1, <3>2, <3>3
  <2>6. disk[TempPath] \o Bytes(cur, f.lo, f.hi) \in Content
    BY <2>5, SeqFacts, ContentFacts
  <2>7. disk' \in [Path -> Content]
    BY <1>23, <2>6 DEF ReceiveChunk, AllReceived, DiskTypes
  <2> QED
    BY <1>23, <2>7 DEF ReceiveChunk, AllReceived, DiskTypes, historyVars
<1>24. CASE ReceiveComplete
  BY <1>24 DEF ReceiveComplete, AllReceived, Throw, senderVars, connVars, receiverVars,
     historyVars, DiskTypes
<1>25. CASE ClosePart
  <2>1. cur \in Sender /\ rpc \in Writing
    BY <1>25 DEF ClosePart, ServerInv, Serving, ReceiverTypes, Writing
  <2>2. \A c \in Prefixes(disk[TempPath]) : c \in Content
    BY <2>1, PartContent DEF IInv
  <2>3. disk' \in [Path -> Content]
    BY <1>25, <2>2 DEF ClosePart, DiskTypes
  <2> QED
    BY <1>25, <2>3 DEF ClosePart, DiskTypes, historyVars
<1>26. CASE RemoveOld
  <2>1. disk' \in [Path -> Content] /\ saved' \in [Path -> Sender \cup {None}]
    BY <1>26, ContentFacts DEF RemoveOld, DiskTypes
  <2> QED
    BY <1>26, <2>1 DEF RemoveOld, DiskTypes
<1>27. CASE RenamePart
  <2>1. cur \in Sender /\ name[cur] # Illegal
    BY <1>27 DEF RenamePart, ServerInv, Serving, ReceiverTypes
  <2>2. TempPath \in Path
    BY <2>1, PathFacts DEF TempPath, SenderTypes
  <2>3. disk[TempPath] \in Content /\ Absent \in Content
    BY <2>2, ContentFacts DEF DiskTypes
  <2>4. disk' \in [Path -> Content]
    BY <1>27, <2>3 DEF RenamePart, DiskTypes
  <2>5. saved' \in [Path -> Sender \cup {None}]
    BY <1>27, <2>1 DEF RenamePart, DiskTypes
  <2> QED
    BY <1>27, <2>4, <2>5 DEF RenamePart, DiskTypes
<1>28. CASE RenameFails
  BY <1>28 DEF RenameFails, Throw, senderVars, connVars, receiverVars,
     historyVars, DiskTypes
<1>29. CASE CleanUp
  BY <1>29, ContentFacts DEF CleanUp, NextConnection, senderVars, connVars,
     receiverVars, historyVars, DiskTypes
<1>30. CASE CleanUpFails
  BY <1>30 DEF CleanUpFails, ServerDies, senderVars, connVars, receiverVars,
     historyVars, DiskTypes
<1>31. CASE KillReceiver
  <2>1. \A c \in Prefixes(disk[TempPath]) : rpc \in Writing => c \in Content
    BY PartContent
  <2>2. disk' \in [Path -> Content]
    BY <1>31, <2>1 DEF KillReceiver, DiskTypes
  <2> QED
    BY <1>31, <2>2 DEF KillReceiver, DiskTypes, historyVars
<1>32. CASE StartReceiver
  BY <1>32 DEF StartReceiver, senderVars, connVars, receiverVars, historyVars,
     DiskTypes
<1> QED
  BY <1>1, <1>2, <1>3, <1>4, <1>5, <1>6, <1>7, <1>8, <1>9, <1>10, <1>11,
     <1>12, <1>13, <1>14, <1>15, <1>16, <1>17, <1>18, <1>19, <1>20, <1>21,
     <1>22, <1>23, <1>24, <1>25, <1>26, <1>27, <1>28, <1>29, <1>30, <1>31,
     <1>32 DEF Next, SenderStep, ReceiverStep, Confirm, Environment

-----------------------------------------------------------------------------
(* The invariant *)

\* Every step keeps the conjuncts about the connection served.
LEMMA ServerInvStep ==
    ASSUME IInv, Next
    PROVE  ServerInv'
<1>a. /\ SenderTypes /\ ConnectionTypes /\ ReceiverTypes /\ DiskTypes
      /\ ServerInv /\ ConsentInv /\ PartInv /\ SentInv
      /\ \A s \in Sender : ConnectionInv(s) /\ ChainInv(s)
  BY DEF IInv, TypeOK
<1>1. ASSUME NEW s \in Sender, RefuseLocally(s)
      PROVE  ServerInv'
  BY <1>1, <1>a DEF RefuseLocally, senderVars, connVars, receiverVars,
     historyVars, ServerInv, Serving, Writing, Complete, SenderTypes,
     ReceiverTypes
<1>2. ASSUME NEW s \in Sender, OpenSource(s)
      PROVE  ServerInv'
  BY <1>2, <1>a DEF OpenSource, senderVars, connVars, receiverVars,
     historyVars, ServerInv, Serving, Writing, Complete, SenderTypes,
     ReceiverTypes, ConnectionInv
<1>3. ASSUME NEW s \in Sender, Connect(s)
      PROVE  ServerInv'
  BY <1>3, <1>a DEF Connect, senderVars, connVars, receiverVars, historyVars,
     ServerInv, Serving, Writing, Complete, SenderTypes, ReceiverTypes
<1>4. ASSUME NEW s \in Sender, ConnectRefused(s)
      PROVE  ServerInv'
  BY <1>4, <1>a DEF ConnectRefused, senderVars, connVars, receiverVars,
     historyVars, ServerInv, Serving, Writing, Complete, SenderTypes,
     ReceiverTypes
<1>5. ASSUME NEW s \in Sender, SendRequest(s)
      PROVE  ServerInv'
  BY <1>5, <1>a DEF SendRequest, senderVars, connVars, receiverVars,
     historyVars, ServerInv, Serving, Writing, Complete, SenderTypes,
     ReceiverTypes
<1>6. ASSUME NEW s \in Sender, ReceiveResponse(s)
      PROVE  ServerInv'
  BY <1>6, <1>a DEF ReceiveResponse, senderVars, connVars, receiverVars,
     historyVars, ServerInv, Serving, Writing, Complete, SenderTypes,
     ReceiverTypes
<1>7. ASSUME NEW s \in Sender, SendChunk(s)
      PROVE  ServerInv'
  BY <1>7, <1>a DEF SendChunk, senderVars, connVars, receiverVars,
     historyVars, ServerInv, Serving, Writing, Complete, SenderTypes,
     ReceiverTypes
<1>8. ASSUME NEW s \in Sender, ReachEof(s)
      PROVE  ServerInv'
  BY <1>8, <1>a DEF ReachEof, senderVars, connVars, receiverVars, historyVars,
     ServerInv, Serving, Writing, Complete, SenderTypes, ReceiverTypes
<1>9. ASSUME NEW s \in Sender, ReadError(s)
      PROVE  ServerInv'
  BY <1>9, <1>a DEF ReadError, senderVars, connVars, receiverVars,
     historyVars, ServerInv, Serving, Writing, Complete, SenderTypes,
     ReceiverTypes
<1>10. ASSUME NEW s \in Sender, SendComplete(s)
      PROVE  ServerInv'
  BY <1>10, <1>a DEF SendComplete, senderVars, connVars, receiverVars,
     historyVars, ServerInv, Serving, Writing, Complete, SenderTypes,
     ReceiverTypes
<1>11. ASSUME NEW s \in Sender, KillSender(s)
      PROVE  ServerInv'
  BY <1>11, <1>a DEF KillSender, senderVars, connVars, receiverVars,
     historyVars, ServerInv, Serving, Writing, Complete, SenderTypes,
     ReceiverTypes
<1>12. ASSUME NEW s \in Sender, ResetConnection(s)
      PROVE  ServerInv'
  BY <1>12, <1>a DEF ResetConnection, senderVars, connVars, receiverVars,
     historyVars, ServerInv, Serving, Writing, Complete, SenderTypes,
     ReceiverTypes
<1>13. ASSUME NEW s \in Sender, ResizeSource(s)
      PROVE  ServerInv'
  BY <1>13, <1>a DEF ResizeSource, senderVars, connVars, receiverVars,
     historyVars, ServerInv, Serving, Writing, Complete, SenderTypes,
     ReceiverTypes
<1>14. CASE Accept
  BY <1>14, <1>a, ConstantsAssumption DEF Accept, senderVars, connVars,
     receiverVars, historyVars, ServerInv, Serving, Writing, Complete,
     SenderTypes, ReceiverTypes, ConnectionTypes
<1>15. CASE AcceptFails
  BY <1>15, <1>a DEF AcceptFails, ServerDies, senderVars, connVars,
     receiverVars, historyVars, ServerInv, Serving, Writing, Complete,
     SenderTypes, ReceiverTypes
<1>16. CASE ReceiveRequest
  BY <1>16, <1>a DEF ReceiveRequest, RequestAllowed, Throw, senderVars,
     connVars, receiverVars, historyVars, ServerInv, Serving, Writing,
     Complete, SenderTypes, ReceiverTypes
<1>17. CASE ReceiveEof
  BY <1>17, <1>a DEF ReceiveEof, Throw, senderVars, connVars, receiverVars,
     historyVars, ServerInv, Serving, Writing, Complete, SenderTypes,
     ReceiverTypes
<1>18. CASE ConfirmYes
  BY <1>18, <1>a DEF ConfirmYes, senderVars, connVars, receiverVars,
     historyVars, ServerInv, Serving, Writing, Complete, SenderTypes,
     ReceiverTypes
<1>19. CASE ConfirmNo
  BY <1>19, <1>a DEF ConfirmNo, Throw, NextConnection, senderVars, connVars,
     receiverVars, historyVars, ServerInv, Serving, Writing, Complete,
     SenderTypes, ReceiverTypes
<1>20. CASE NameRefused
  BY <1>20, <1>a DEF NameRefused, Throw, senderVars, connVars, receiverVars,
     historyVars, ServerInv, Serving, Writing, Complete, SenderTypes,
     ReceiverTypes
<1>21. CASE RemoveStalePart
  BY <1>21, <1>a DEF RemoveStalePart, Throw, senderVars, connVars,
     receiverVars, historyVars, ServerInv, Serving, Writing, Complete,
     SenderTypes, ReceiverTypes
<1>22. CASE OpenPart
  BY <1>22, <1>a DEF OpenPart, Throw, senderVars, connVars, receiverVars,
     historyVars, ServerInv, Serving, Writing, Complete, SenderTypes,
     ReceiverTypes
<1>23. CASE ReceiveChunk
  <2>1. cur \in Sender
    BY <1>23, <1>a DEF ReceiveChunk, AllReceived, ServerInv, Serving, ReceiverTypes
  <2>2. remaining' <= remaining
    <3>1. Head(up[cur]) \in Frame
      BY <1>23, <1>a, <2>1, SeqFacts DEF ReceiveChunk, AllReceived, ConnectionTypes
    <3>2. Head(up[cur]).lo \in Nat /\ Head(up[cur]).hi \in Nat
      BY <3>1, FrameFacts
    <3>3. Head(up[cur]).lo <= Head(up[cur]).hi
      BY <1>23, <1>a, <2>1 DEF ReceiveChunk, AllReceived, ChainInv, ConnectionTypes
    <3>4. \A r, a, b \in Nat : a <= b => r - (b - a) <= r
      OBVIOUS
    <3>5. remaining' \in {remaining, remaining - (Head(up[cur]).hi - Head(up[cur]).lo)}
      BY <1>23 DEF ReceiveChunk, AllReceived
    <3> QED
      BY <1>a, <3>2, <3>3, <3>4, <3>5 DEF ReceiverTypes
  <2>3. remaining \in Nat /\ remaining' \in Nat /\ declared[cur] \in Nat
    BY <1>a, <2>1, ReceiverTypesStep DEF ReceiverTypes, SenderTypes
  <2>4. rpc' \in {"body", "catch"} /\ rpc = "body" /\ UNCHANGED <<cur, cleanup, name, declared>>
    BY <1>23 DEF ReceiveChunk, AllReceived, Throw, senderVars
  <2> QED
    BY <1>a, <2>2, <2>3, <2>4 DEF ServerInv, Serving, Writing, Complete
<1>24. CASE ReceiveComplete
  BY <1>24, <1>a DEF ReceiveComplete, AllReceived, Throw, senderVars, connVars,
     receiverVars, historyVars, ServerInv, Serving, Writing, Complete,
     SenderTypes, ReceiverTypes
<1>25. CASE ClosePart
  BY <1>25, <1>a DEF ClosePart, senderVars, connVars, receiverVars,
     historyVars, ServerInv, Serving, Writing, Complete, SenderTypes,
     ReceiverTypes
<1>26. CASE RemoveOld
  BY <1>26, <1>a DEF RemoveOld, Throw, senderVars, connVars, receiverVars,
     historyVars, ServerInv, Serving, Writing, Complete, SenderTypes,
     ReceiverTypes
<1>27. CASE RenamePart
  BY <1>27, <1>a DEF RenamePart, NextConnection, senderVars, connVars,
     receiverVars, historyVars, ServerInv, Serving, Writing, Complete,
     SenderTypes, ReceiverTypes
<1>28. CASE RenameFails
  BY <1>28, <1>a DEF RenameFails, Throw, senderVars, connVars, receiverVars,
     historyVars, ServerInv, Serving, Writing, Complete, SenderTypes,
     ReceiverTypes
<1>29. CASE CleanUp
  BY <1>29, <1>a DEF CleanUp, NextConnection, senderVars, connVars,
     receiverVars, historyVars, ServerInv, Serving, Writing, Complete,
     SenderTypes, ReceiverTypes
<1>30. CASE CleanUpFails
  BY <1>30, <1>a DEF CleanUpFails, ServerDies, senderVars, connVars,
     receiverVars, historyVars, ServerInv, Serving, Writing, Complete,
     SenderTypes, ReceiverTypes
<1>31. CASE KillReceiver
  BY <1>31, <1>a DEF KillReceiver, ServerDies, senderVars, connVars,
     receiverVars, historyVars, ServerInv, Serving, Writing, Complete,
     SenderTypes, ReceiverTypes
<1>32. CASE StartReceiver
  BY <1>32, <1>a DEF StartReceiver, senderVars, connVars, receiverVars,
     historyVars, ServerInv, Serving, Writing, Complete, SenderTypes,
     ReceiverTypes
<1> QED
  BY <1>1, <1>2, <1>3, <1>4, <1>5, <1>6, <1>7, <1>8, <1>9, <1>10, <1>11,
     <1>12, <1>13, <1>14, <1>15, <1>16, <1>17, <1>18, <1>19, <1>20, <1>21,
     <1>22, <1>23, <1>24, <1>25, <1>26, <1>27, <1>28, <1>29, <1>30, <1>31,
     <1>32 DEF Next, SenderStep, ReceiverStep, Confirm, Environment

\* Every step keeps the conjuncts about the checks and the consent.
LEMMA ConsentInvStep ==
    ASSUME IInv, Next
    PROVE  ConsentInv'
<1>a. /\ SenderTypes /\ ConnectionTypes /\ ReceiverTypes /\ DiskTypes
      /\ ServerInv /\ ConsentInv /\ PartInv /\ SentInv
      /\ \A s \in Sender : ConnectionInv(s) /\ ChainInv(s)
  BY DEF IInv, TypeOK
<1>1. ASSUME NEW s \in Sender, RefuseLocally(s)
      PROVE  ConsentInv'
  BY <1>1, <1>a DEF RefuseLocally, senderVars, connVars, receiverVars,
     historyVars, ConsentInv, Agreed, Serving, SenderTypes, ReceiverTypes,
     DiskTypes, SenderFails
<1>2. ASSUME NEW s \in Sender, OpenSource(s)
      PROVE  ConsentInv'
  BY <1>2, <1>a DEF OpenSource, senderVars, connVars, receiverVars,
     historyVars, ConsentInv, Agreed, Serving, SenderTypes, ReceiverTypes,
     DiskTypes, ConnectionInv
<1>3. ASSUME NEW s \in Sender, Connect(s)
      PROVE  ConsentInv'
  BY <1>3, <1>a DEF Connect, senderVars, connVars, receiverVars, historyVars,
     ConsentInv, Agreed, Serving, SenderTypes, ReceiverTypes, DiskTypes
<1>4. ASSUME NEW s \in Sender, ConnectRefused(s)
      PROVE  ConsentInv'
  BY <1>4, <1>a DEF ConnectRefused, senderVars, connVars, receiverVars,
     historyVars, ConsentInv, Agreed, Serving, SenderTypes, ReceiverTypes,
     DiskTypes, SenderFails
<1>5. ASSUME NEW s \in Sender, SendRequest(s)
      PROVE  ConsentInv'
  BY <1>5, <1>a DEF SendRequest, senderVars, connVars, receiverVars,
     historyVars, ConsentInv, Agreed, Serving, SenderTypes, ReceiverTypes,
     DiskTypes, SenderSends, SenderFails
<1>6. ASSUME NEW s \in Sender, ReceiveResponse(s)
      PROVE  ConsentInv'
  BY <1>6, <1>a DEF ReceiveResponse, senderVars, connVars, receiverVars,
     historyVars, ConsentInv, Agreed, Serving, SenderTypes, ReceiverTypes,
     DiskTypes, SenderFails
<1>7. ASSUME NEW s \in Sender, SendChunk(s)
      PROVE  ConsentInv'
  BY <1>7, <1>a DEF SendChunk, senderVars, connVars, receiverVars,
     historyVars, ConsentInv, Agreed, Serving, SenderTypes, ReceiverTypes,
     DiskTypes, SenderSends, SenderFails
<1>8. ASSUME NEW s \in Sender, ReachEof(s)
      PROVE  ConsentInv'
  BY <1>8, <1>a DEF ReachEof, senderVars, connVars, receiverVars, historyVars,
     ConsentInv, Agreed, Serving, SenderTypes, ReceiverTypes, DiskTypes
<1>9. ASSUME NEW s \in Sender, ReadError(s)
      PROVE  ConsentInv'
  BY <1>9, <1>a DEF ReadError, senderVars, connVars, receiverVars,
     historyVars, ConsentInv, Agreed, Serving, SenderTypes, ReceiverTypes,
     DiskTypes, SenderFails
<1>10. ASSUME NEW s \in Sender, SendComplete(s)
      PROVE  ConsentInv'
  BY <1>10, <1>a DEF SendComplete, senderVars, connVars, receiverVars,
     historyVars, ConsentInv, Agreed, Serving, SenderTypes, ReceiverTypes,
     DiskTypes, SenderSends, SenderFails
<1>11. ASSUME NEW s \in Sender, KillSender(s)
      PROVE  ConsentInv'
  BY <1>11, <1>a DEF KillSender, senderVars, connVars, receiverVars,
     historyVars, ConsentInv, Agreed, Serving, SenderTypes, ReceiverTypes,
     DiskTypes, SenderFails
<1>12. ASSUME NEW s \in Sender, ResetConnection(s)
      PROVE  ConsentInv'
  BY <1>12, <1>a DEF ResetConnection, senderVars, connVars, receiverVars,
     historyVars, ConsentInv, Agreed, Serving, SenderTypes, ReceiverTypes,
     DiskTypes
<1>13. ASSUME NEW s \in Sender, ResizeSource(s)
      PROVE  ConsentInv'
  BY <1>13, <1>a DEF ResizeSource, senderVars, connVars, receiverVars,
     historyVars, ConsentInv, Agreed, Serving, SenderTypes, ReceiverTypes,
     DiskTypes
<1>14. CASE Accept
  BY <1>14, <1>a DEF Accept, senderVars, connVars, receiverVars, historyVars,
     ConsentInv, Agreed, Serving, SenderTypes, ReceiverTypes, DiskTypes
<1>15. CASE AcceptFails
  BY <1>15, <1>a DEF AcceptFails, ServerDies, senderVars, connVars,
     receiverVars, historyVars, ConsentInv, Agreed, Serving, SenderTypes,
     ReceiverTypes, DiskTypes
<1>16. CASE ReceiveRequest
  <2>1. cur \in Sender /\ rpc = "initial"
    BY <1>16, <1>a DEF ReceiveRequest, ServerInv, Serving, ReceiverTypes
  <2>2. rpc' = "prompt" => trust[cur] = "paired" /\ declared[cur] <= ReceiverMax
    BY <1>16, <1>a, <2>1, ConstantsAssumption
       DEF ReceiveRequest, RequestAllowed, Throw, SenderTypes
  <2>3. rpc' \in {"prompt", "catch"}
    BY <1>16 DEF ReceiveRequest, Throw
  <2> QED
    BY <1>16, <1>a, <2>2, <2>3 DEF ReceiveRequest, ConsentInv, Agreed, senderVars, historyVars
<1>17. CASE ReceiveEof
  BY <1>17, <1>a DEF ReceiveEof, Throw, senderVars, connVars, receiverVars,
     historyVars, ConsentInv, Agreed, Serving, SenderTypes, ReceiverTypes,
     DiskTypes
<1>18. CASE ConfirmYes
  <2>1. cur \in Sender /\ rpc = "prompt"
    BY <1>18, <1>a DEF ConfirmYes, ServerInv, Serving, ReceiverTypes
  <2>2. spc[cur] \notin {"idle", "opened"}
    BY <1>a, <2>1 DEF ConnectionInv
  <2>3. consent' = [consent EXCEPT ![cur] = TRUE] /\ consent'[cur]
    BY <1>18, <1>a, <2>1 DEF ConfirmYes, DiskTypes
  <2>4. UNCHANGED <<cur, spc, trust, declared>>
    BY <1>18 DEF ConfirmYes, senderVars
  <2> QED
    BY <1>a, <2>1, <2>2, <2>3, <2>4 DEF ConsentInv, Agreed, DiskTypes
<1>19. CASE ConfirmNo
  BY <1>19, <1>a DEF ConfirmNo, Throw, NextConnection, senderVars, connVars,
     receiverVars, historyVars, ConsentInv, Agreed, Serving, SenderTypes,
     ReceiverTypes, DiskTypes
<1>20. CASE NameRefused
  BY <1>20, <1>a DEF NameRefused, Throw, senderVars, connVars, receiverVars,
     historyVars, ConsentInv, Agreed, Serving, SenderTypes, ReceiverTypes,
     DiskTypes
<1>21. CASE RemoveStalePart
  BY <1>21, <1>a DEF RemoveStalePart, Throw, senderVars, connVars,
     receiverVars, historyVars, ConsentInv, Agreed, Serving, SenderTypes,
     ReceiverTypes, DiskTypes
<1>22. CASE OpenPart
  BY <1>22, <1>a DEF OpenPart, Throw, senderVars, connVars, receiverVars,
     historyVars, ConsentInv, Agreed, Serving, SenderTypes, ReceiverTypes,
     DiskTypes
<1>23. CASE ReceiveChunk
  BY <1>23, <1>a DEF ReceiveChunk, AllReceived, Throw, ChunkFits, senderVars, connVars,
     receiverVars, historyVars, ConsentInv, Agreed, Serving, SenderTypes,
     ReceiverTypes, DiskTypes
<1>24. CASE ReceiveComplete
  BY <1>24, <1>a DEF ReceiveComplete, AllReceived, Throw, senderVars, connVars,
     receiverVars, historyVars, ConsentInv, Agreed, Serving, SenderTypes,
     ReceiverTypes, DiskTypes
<1>25. CASE ClosePart
  BY <1>25, <1>a DEF ClosePart, senderVars, connVars, receiverVars,
     historyVars, ConsentInv, Agreed, Serving, SenderTypes, ReceiverTypes,
     DiskTypes
<1>26. CASE RemoveOld
  BY <1>26, <1>a DEF RemoveOld, Throw, senderVars, connVars, receiverVars,
     historyVars, ConsentInv, Agreed, Serving, SenderTypes, ReceiverTypes,
     DiskTypes
<1>27. CASE RenamePart
  BY <1>27, <1>a DEF RenamePart, NextConnection, senderVars, connVars,
     receiverVars, historyVars, ConsentInv, Agreed, Serving, SenderTypes,
     ReceiverTypes, DiskTypes
<1>28. CASE RenameFails
  BY <1>28, <1>a DEF RenameFails, Throw, senderVars, connVars, receiverVars,
     historyVars, ConsentInv, Agreed, Serving, SenderTypes, ReceiverTypes,
     DiskTypes
<1>29. CASE CleanUp
  BY <1>29, <1>a DEF CleanUp, NextConnection, senderVars, connVars,
     receiverVars, historyVars, ConsentInv, Agreed, Serving, SenderTypes,
     ReceiverTypes, DiskTypes
<1>30. CASE CleanUpFails
  BY <1>30, <1>a DEF CleanUpFails, ServerDies, senderVars, connVars,
     receiverVars, historyVars, ConsentInv, Agreed, Serving, SenderTypes,
     ReceiverTypes, DiskTypes
<1>31. CASE KillReceiver
  BY <1>31, <1>a DEF KillReceiver, ServerDies, senderVars, connVars,
     receiverVars, historyVars, ConsentInv, Agreed, Serving, SenderTypes,
     ReceiverTypes, DiskTypes
<1>32. CASE StartReceiver
  BY <1>32, <1>a DEF StartReceiver, senderVars, connVars, receiverVars,
     historyVars, ConsentInv, Agreed, Serving, SenderTypes, ReceiverTypes,
     DiskTypes
<1> QED
  BY <1>1, <1>2, <1>3, <1>4, <1>5, <1>6, <1>7, <1>8, <1>9, <1>10, <1>11,
     <1>12, <1>13, <1>14, <1>15, <1>16, <1>17, <1>18, <1>19, <1>20, <1>21,
     <1>22, <1>23, <1>24, <1>25, <1>26, <1>27, <1>28, <1>29, <1>30, <1>31,
     <1>32 DEF Next, SenderStep, ReceiverStep, Confirm, Environment

\* Every step keeps the conjuncts about the two ends of a connection.
LEMMA ConnectionInvStep ==
    ASSUME IInv, Next, NEW t \in Sender
    PROVE  ConnectionInv(t)'
<1>a. /\ SenderTypes /\ ConnectionTypes /\ ReceiverTypes
      /\ ServerInv /\ ConnectionInv(t)
  BY DEF IInv, TypeOK
<1>1. ASSUME NEW s \in Sender, RefuseLocally(s)
      PROVE  ConnectionInv(t)'
  BY <1>1, <1>a DEF RefuseLocally, senderVars, connVars, receiverVars,
     historyVars, ConnectionInv, ServerInv, Serving, SenderTypes,
     ConnectionTypes, ReceiverTypes, SenderFails
<1>2. ASSUME NEW s \in Sender, OpenSource(s)
      PROVE  ConnectionInv(t)'
  BY <1>2, <1>a DEF OpenSource, senderVars, connVars, receiverVars,
     historyVars, ConnectionInv, ServerInv, Serving, SenderTypes,
     ConnectionTypes, ReceiverTypes, SizeToSend
<1>3. ASSUME NEW s \in Sender, Connect(s)
      PROVE  ConnectionInv(t)'
  BY <1>3, <1>a DEF Connect, senderVars, connVars, receiverVars, historyVars,
     ConnectionInv, ServerInv, Serving, SenderTypes, ConnectionTypes,
     ReceiverTypes
<1>4. ASSUME NEW s \in Sender, ConnectRefused(s)
      PROVE  ConnectionInv(t)'
  BY <1>4, <1>a DEF ConnectRefused, senderVars, connVars, receiverVars,
     historyVars, ConnectionInv, ServerInv, Serving, SenderTypes,
     ConnectionTypes, ReceiverTypes, SenderFails
<1>5. ASSUME NEW s \in Sender, SendRequest(s)
      PROVE  ConnectionInv(t)'
  BY <1>5, <1>a DEF SendRequest, senderVars, connVars, receiverVars,
     historyVars, ConnectionInv, ServerInv, Serving, SenderTypes,
     ConnectionTypes, ReceiverTypes, SenderSends, SenderFails
<1>6. ASSUME NEW s \in Sender, ReceiveResponse(s)
      PROVE  ConnectionInv(t)'
  BY <1>6, <1>a DEF ReceiveResponse, senderVars, connVars, receiverVars,
     historyVars, ConnectionInv, ServerInv, Serving, SenderTypes,
     ConnectionTypes, ReceiverTypes, SenderFails
<1>7. ASSUME NEW s \in Sender, SendChunk(s)
      PROVE  ConnectionInv(t)'
  BY <1>7, <1>a DEF SendChunk, senderVars, connVars, receiverVars,
     historyVars, ConnectionInv, ServerInv, Serving, SenderTypes,
     ConnectionTypes, ReceiverTypes, SenderSends, SenderFails
<1>8. ASSUME NEW s \in Sender, ReachEof(s)
      PROVE  ConnectionInv(t)'
  BY <1>8, <1>a DEF ReachEof, senderVars, connVars, receiverVars, historyVars,
     ConnectionInv, ServerInv, Serving, SenderTypes, ConnectionTypes,
     ReceiverTypes
<1>9. ASSUME NEW s \in Sender, ReadError(s)
      PROVE  ConnectionInv(t)'
  BY <1>9, <1>a DEF ReadError, senderVars, connVars, receiverVars,
     historyVars, ConnectionInv, ServerInv, Serving, SenderTypes,
     ConnectionTypes, ReceiverTypes, SenderFails
<1>10. ASSUME NEW s \in Sender, SendComplete(s)
      PROVE  ConnectionInv(t)'
  BY <1>10, <1>a DEF SendComplete, senderVars, connVars, receiverVars,
     historyVars, ConnectionInv, ServerInv, Serving, SenderTypes,
     ConnectionTypes, ReceiverTypes, SenderSends, SenderFails
<1>11. ASSUME NEW s \in Sender, KillSender(s)
      PROVE  ConnectionInv(t)'
  BY <1>11, <1>a DEF KillSender, senderVars, connVars, receiverVars,
     historyVars, ConnectionInv, ServerInv, Serving, SenderTypes,
     ConnectionTypes, ReceiverTypes, SenderFails
<1>12. ASSUME NEW s \in Sender, ResetConnection(s)
      PROVE  ConnectionInv(t)'
  BY <1>12, <1>a DEF ResetConnection, senderVars, connVars, receiverVars,
     historyVars, ConnectionInv, ServerInv, Serving, SenderTypes,
     ConnectionTypes, ReceiverTypes
<1>13. ASSUME NEW s \in Sender, ResizeSource(s)
      PROVE  ConnectionInv(t)'
  BY <1>13, <1>a DEF ResizeSource, senderVars, connVars, receiverVars,
     historyVars, ConnectionInv, ServerInv, Serving, SenderTypes,
     ConnectionTypes, ReceiverTypes
<1>14. CASE Accept
  BY <1>14, <1>a, ConstantsAssumption DEF Accept, senderVars, connVars,
     receiverVars, historyVars, ConnectionInv, ServerInv, Serving,
     SenderTypes, ConnectionTypes, ReceiverTypes
<1>15. CASE AcceptFails
  BY <1>15, <1>a, ConstantsAssumption DEF AcceptFails, ServerDies, senderVars,
     connVars, receiverVars, historyVars, ConnectionInv, ServerInv, Serving,
     SenderTypes, ConnectionTypes, ReceiverTypes, AllClose
<1>16. CASE ReceiveRequest
  BY <1>16, <1>a DEF ReceiveRequest, RequestAllowed, Throw, senderVars,
     connVars, receiverVars, historyVars, ConnectionInv, ServerInv, Serving,
     SenderTypes, ConnectionTypes, ReceiverTypes
<1>17. CASE ReceiveEof
  BY <1>17, <1>a DEF ReceiveEof, Throw, senderVars, connVars, receiverVars,
     historyVars, ConnectionInv, ServerInv, Serving, SenderTypes,
     ConnectionTypes, ReceiverTypes
<1>18. CASE ConfirmYes
  BY <1>18, <1>a DEF ConfirmYes, senderVars, connVars, receiverVars,
     historyVars, ConnectionInv, ServerInv, Serving, SenderTypes,
     ConnectionTypes, ReceiverTypes
<1>19. CASE ConfirmNo
  BY <1>19, <1>a, ConstantsAssumption DEF ConfirmNo, Throw, NextConnection,
     senderVars, connVars, receiverVars, historyVars, ConnectionInv,
     ServerInv, Serving, SenderTypes, ConnectionTypes, ReceiverTypes,
     ReceiverCloses
<1>20. CASE NameRefused
  BY <1>20, <1>a DEF NameRefused, Throw, senderVars, connVars, receiverVars,
     historyVars, ConnectionInv, ServerInv, Serving, SenderTypes,
     ConnectionTypes, ReceiverTypes
<1>21. CASE RemoveStalePart
  BY <1>21, <1>a DEF RemoveStalePart, Throw, senderVars, connVars,
     receiverVars, historyVars, ConnectionInv, ServerInv, Serving,
     SenderTypes, ConnectionTypes, ReceiverTypes
<1>22. CASE OpenPart
  BY <1>22, <1>a DEF OpenPart, Throw, senderVars, connVars, receiverVars,
     historyVars, ConnectionInv, ServerInv, Serving, SenderTypes,
     ConnectionTypes, ReceiverTypes
<1>23. CASE ReceiveChunk
  BY <1>23, <1>a DEF ReceiveChunk, AllReceived, Throw, ChunkFits, senderVars, connVars,
     receiverVars, historyVars, ConnectionInv, ServerInv, Serving,
     SenderTypes, ConnectionTypes, ReceiverTypes
<1>24. CASE ReceiveComplete
  BY <1>24, <1>a DEF ReceiveComplete, AllReceived, Throw, senderVars, connVars,
     receiverVars, historyVars, ConnectionInv, ServerInv, Serving,
     SenderTypes, ConnectionTypes, ReceiverTypes
<1>25. CASE ClosePart
  BY <1>25, <1>a DEF ClosePart, senderVars, connVars, receiverVars,
     historyVars, ConnectionInv, ServerInv, Serving, SenderTypes,
     ConnectionTypes, ReceiverTypes
<1>26. CASE RemoveOld
  BY <1>26, <1>a DEF RemoveOld, Throw, senderVars, connVars, receiverVars,
     historyVars, ConnectionInv, ServerInv, Serving, SenderTypes,
     ConnectionTypes, ReceiverTypes
<1>27. CASE RenamePart
  BY <1>27, <1>a, ConstantsAssumption, SMTT(60) DEF RenamePart, NextConnection,
     senderVars, connVars, receiverVars, historyVars, ConnectionInv,
     ServerInv, Serving, SenderTypes, ConnectionTypes, ReceiverTypes,
     ReceiverCloses
<1>28. CASE RenameFails
  BY <1>28, <1>a DEF RenameFails, Throw, senderVars, connVars, receiverVars,
     historyVars, ConnectionInv, ServerInv, Serving, SenderTypes,
     ConnectionTypes, ReceiverTypes
<1>29. CASE CleanUp
  BY <1>29, <1>a, ConstantsAssumption DEF CleanUp, NextConnection, senderVars,
     connVars, receiverVars, historyVars, ConnectionInv, ServerInv, Serving,
     SenderTypes, ConnectionTypes, ReceiverTypes, ReceiverCloses
<1>30. CASE CleanUpFails
  BY <1>30, <1>a, ConstantsAssumption DEF CleanUpFails, ServerDies,
     senderVars, connVars, receiverVars, historyVars, ConnectionInv,
     ServerInv, Serving, SenderTypes, ConnectionTypes, ReceiverTypes, AllClose
<1>31. CASE KillReceiver
  BY <1>31, <1>a, ConstantsAssumption DEF KillReceiver, ServerDies,
     senderVars, connVars, receiverVars, historyVars, ConnectionInv,
     ServerInv, Serving, SenderTypes, ConnectionTypes, ReceiverTypes, AllClose
<1>32. CASE StartReceiver
  BY <1>32, <1>a DEF StartReceiver, senderVars, connVars, receiverVars,
     historyVars, ConnectionInv, ServerInv, Serving, SenderTypes,
     ConnectionTypes, ReceiverTypes
<1> QED
  BY <1>1, <1>2, <1>3, <1>4, <1>5, <1>6, <1>7, <1>8, <1>9, <1>10, <1>11,
     <1>12, <1>13, <1>14, <1>15, <1>16, <1>17, <1>18, <1>19, <1>20, <1>21,
     <1>22, <1>23, <1>24, <1>25, <1>26, <1>27, <1>28, <1>29, <1>30, <1>31,
     <1>32 DEF Next, SenderStep, ReceiverStep, Confirm, Environment

\* The four ways a step changes what is in flight from a sender t: not at
\* all, by clearing it, by a frame sent, by a frame received.
LEMMA ChainSame ==
    ASSUME NEW t \in Sender, ChainInv(t),
           up'[t] = up[t], pos'[t] = pos[t], rEnd'[t] = rEnd[t],
           spc[t] = "done" => spc'[t] = "done",
           Expected(t)' => Expected(t) /\ Got(t)' = Got(t)
    PROVE  ChainInv(t)'
  BY DEF ChainInv

\* A connection with nothing in flight.
LEMMA ChainEmpty ==
    ASSUME NEW t \in Sender, up'[t] = <<>>, rEnd'[t] = FALSE
    PROVE  ChainInv(t)'
  BY DEF ChainInv

\* A frame that begins where the last one ended can be sent.
LEMMA ChainAppend ==
    ASSUME NEW t \in Sender, NEW f \in Frame, TypeOK, ChainInv(t),
           up'[t] = Append(up[t], f), rEnd[t], spc[t] # "done",
           f.lo = pos[t], f.hi = pos'[t], f.lo <= f.hi,
           f.type # "FileChunk" => f.lo = f.hi,
           f.type = "TransferComplete" => spc'[t] = "done",
           UNCHANGED <<backlog, cur, rpc, remaining, declared>>
    PROVE  ChainInv(t)'
<1> DEFINE q == up[t]
           n == Len(q)
<1>1. q \in Seq(Frame) /\ n \in Nat
  BY DEF TypeOK, ConnectionTypes
<1>2. /\ Len(up'[t]) = n + 1
      /\ up'[t] # <<>>
      /\ \A i \in 1..n : up'[t][i] = q[i]
      /\ up'[t][n + 1] = f
  BY <1>1
<1>3. (Expected(t)' <=> Expected(t)) /\ Got(t)' = Got(t)
  BY DEF Expected, Got
<1>4. ASSUME NEW i \in 1..(n + 1)
      PROVE  /\ up'[t][i].lo <= up'[t][i].hi
             /\ up'[t][i].type # "FileChunk" => up'[t][i].lo = up'[t][i].hi
             /\ up'[t][i].type = "TransferComplete" => i = n + 1 /\ spc'[t] = "done"
  <2>1. CASE i = n + 1
    BY <1>2, <2>1
  <2>2. CASE i \in 1..n
    <3>1. /\ q[i].lo <= q[i].hi
          /\ q[i].type # "FileChunk" => q[i].lo = q[i].hi
          /\ q[i].type # "TransferComplete"
      BY <2>2 DEF ChainInv
    <3> QED
      BY <1>2, <2>2, <3>1
  <2>3. i = n + 1 \/ i \in 1..n
    BY <1>1
  <2> QED
    BY <2>1, <2>2, <2>3, Zenon
<1>5. ASSUME Expected(t)
      PROVE  up'[t][1].lo = Got(t)
  <2>1. CASE n = 0
    BY <1>1, <1>2, <1>5, <2>1 DEF ChainInv
  <2>2. CASE n > 0
    <3>1. q # <<>> /\ 1 \in 1..n
      BY <1>1, <2>2
    <3> QED
      BY <1>2, <1>5, <3>1 DEF ChainInv
  <2> QED
    BY <1>1, <2>1, <2>2
<1>6. ASSUME Expected(t), NEW i \in 2..(n + 1)
      PROVE  up'[t][i].lo = up'[t][i - 1].hi
  <2>1. CASE i = n + 1
    <3>1. q # <<>> /\ n \in 1..n /\ i - 1 = n
      BY <1>1, <2>1
    <3>2. pos[t] = q[n].hi
      BY <1>6, <3>1 DEF ChainInv
    <3> QED
      BY <1>2, <2>1, <3>1, <3>2
  <2>2. CASE i \in 2..n
    <3>1. i \in 1..n /\ i - 1 \in 1..n
      BY <1>1, <2>2
    <3>2. q[i].lo = q[i - 1].hi
      BY <1>6, <2>2 DEF ChainInv
    <3> QED
      BY <1>2, <3>1, <3>2
  <2>3. i = n + 1 \/ i \in 2..n
    BY <1>1
  <2> QED
    BY <2>1, <2>2, <2>3, Zenon
<1> QED
  BY <1>2, <1>3, <1>4, <1>5, <1>6 DEF ChainInv

\* The first frame can be received.
LEMMA ChainTail ==
    ASSUME NEW t \in Sender, TypeOK, ChainInv(t), up[t] # <<>>,
           up'[t] = Tail(up[t]),
           UNCHANGED <<pos, rEnd, spc>>,
           Expected(t)' => Expected(t) /\ Got(t)' = up[t][1].hi
    PROVE  ChainInv(t)'
<1> DEFINE q == up[t]
           n == Len(q)
<1>1. q \in Seq(Frame) /\ n \in Nat \ {0}
  BY DEF TypeOK, ConnectionTypes
<1>2. /\ Len(up'[t]) = n - 1
      /\ \A i \in 1..(n - 1) : up'[t][i] = q[i + 1]
  BY <1>1
<1>3. ASSUME NEW i \in 1..(n - 1)
      PROVE  /\ up'[t][i].lo <= up'[t][i].hi
             /\ up'[t][i].type # "FileChunk" => up'[t][i].lo = up'[t][i].hi
             /\ up'[t][i].type = "TransferComplete" => i = n - 1 /\ spc'[t] = "done"
  <2>1. i + 1 \in 1..n
    BY <1>1
  <2>2. /\ q[i + 1].lo <= q[i + 1].hi
        /\ q[i + 1].type # "FileChunk" => q[i + 1].lo = q[i + 1].hi
        /\ q[i + 1].type = "TransferComplete" => i + 1 = n /\ spc[t] = "done"
    BY <2>1 DEF ChainInv
  <2>3. i + 1 = n => i = n - 1
    BY <1>1
  <2> QED
    BY <1>2, <2>2, <2>3
<1>4. ASSUME Expected(t)'
      PROVE  /\ up'[t] # <<>> => up'[t][1].lo = Got(t)'
             /\ \A i \in 2..(n - 1) : up'[t][i].lo = up'[t][i - 1].hi
             /\ rEnd[t] /\ up'[t] = <<>> => pos[t] = Got(t)'
             /\ rEnd[t] /\ up'[t] # <<>> => pos[t] = up'[t][n - 1].hi
  <2>1. /\ \A i \in 2..n : q[i].lo = q[i - 1].hi
        /\ rEnd[t] => pos[t] = q[n].hi
        /\ Got(t)' = q[1].hi
    BY <1>4 DEF ChainInv
  <2>2. up'[t] # <<>> => up'[t][1].lo = Got(t)'
    <3>1. SUFFICES ASSUME up'[t] # <<>> PROVE up'[t][1].lo = Got(t)'
      OBVIOUS
    <3>2. n - 1 >= 1
      BY <1>1, <3>1
    <3>3. 1 \in 1..(n - 1) /\ 2 \in 2..n
      BY <1>1, <3>2
    <3> QED
      BY <1>2, <2>1, <3>3
  <2>3. ASSUME NEW i \in 2..(n - 1)
        PROVE  up'[t][i].lo = up'[t][i - 1].hi
    <3>1. i \in 1..(n - 1) /\ i - 1 \in 1..(n - 1) /\ i + 1 \in 2..n /\ (i - 1) + 1 = i
          /\ (i + 1) - 1 = i
      BY <1>1
    <3> QED
      BY <1>2, <2>1, <3>1
  <2>4. rEnd[t] /\ up'[t] = <<>> => pos[t] = Got(t)'
    <3>1. up'[t] = <<>> => n = 1
      <4>1. Len(<<>>) = 0
        OBVIOUS
      <4>2. up'[t] = <<>> => Len(up'[t]) = 0
        BY <4>1, Zenon
      <4>3. n - 1 = 0 => n = 1
        BY <1>1
      <4> QED
        BY <1>2, <4>2, <4>3, Zenon
    <3> QED
      BY <2>1, <3>1
  <2>5. rEnd[t] /\ up'[t] # <<>> => pos[t] = up'[t][n - 1].hi
    <3>1. up'[t] # <<>> => n - 1 \in 1..(n - 1) /\ (n - 1) + 1 = n
      BY <1>1
    <3> QED
      BY <1>2, <2>1, <3>1
  <2> QED
    BY <2>2, <2>3, <2>4, <2>5
<1> QED
  BY <1>2, <1>3, <1>4 DEF ChainInv

\* Every step keeps what is in flight the continuation of what was received.
LEMMA ChainInvStep ==
    ASSUME IInv, Next, NEW t \in Sender
    PROVE  ChainInv(t)'
<1>a. /\ SenderTypes /\ ConnectionTypes /\ ReceiverTypes /\ TypeOK
      /\ ServerInv /\ ConnectionInv(t) /\ ChainInv(t)
  BY DEF IInv, TypeOK
<1>1. ASSUME NEW s \in Sender, RefuseLocally(s)
      PROVE  ChainInv(t)'
  BY <1>1, <1>a DEF RefuseLocally, senderVars, connVars, receiverVars,
     historyVars, ChainInv, Got, Expected, ConnectionInv, ServerInv, Serving,
     SenderTypes, ConnectionTypes, ReceiverTypes, SenderFails
<1>2. ASSUME NEW s \in Sender, OpenSource(s)
      PROVE  ChainInv(t)'
  BY <1>2, <1>a DEF OpenSource, senderVars, connVars, receiverVars,
     historyVars, ChainInv, Got, Expected, ConnectionInv, ServerInv, Serving,
     SenderTypes, ConnectionTypes, ReceiverTypes, SizeToSend
<1>3. ASSUME NEW s \in Sender, Connect(s)
      PROVE  ChainInv(t)'
  BY <1>3, <1>a DEF Connect, senderVars, connVars, receiverVars, historyVars,
     ChainInv, Got, Expected, ConnectionInv, ServerInv, Serving, SenderTypes,
     ConnectionTypes, ReceiverTypes
<1>4. ASSUME NEW s \in Sender, ConnectRefused(s)
      PROVE  ChainInv(t)'
  BY <1>4, <1>a DEF ConnectRefused, senderVars, connVars, receiverVars,
     historyVars, ChainInv, Got, Expected, ConnectionInv, ServerInv, Serving,
     SenderTypes, ConnectionTypes, ReceiverTypes, SenderFails
<1>5. ASSUME NEW s \in Sender, SendRequest(s)
      PROVE  ChainInv(t)'
  <2> DEFINE f == Ctl("FileRequest", 0)
  <2>1. CASE s = t /\ rEnd[t]
    <3>1. f \in Frame /\ f.lo = pos[t] /\ f.hi = pos'[t] /\ f.lo <= f.hi
      BY <1>5, <1>a, <2>1, FrameFacts
         DEF SendRequest, SenderTypes, ConnectionInv, Ctl, Chunk, FrameType, ReadLength
    <3>2. /\ up'[t] = Append(up[t], f) /\ spc[t] # "done"
          /\ f.type = "TransferComplete" => spc'[t] = "done"
          /\ f.type # "FileChunk" => f.lo = f.hi
          /\ UNCHANGED <<backlog, cur, rpc, remaining, declared>>
      BY <1>5, <1>a, <2>1
         DEF SendRequest, SenderSends, SenderTypes, ConnectionTypes, Ctl, Chunk, receiverVars
    <3> QED
      BY <1>a, <2>1, <3>1, <3>2, ChainAppend
  <2>2. CASE s = t /\ ~rEnd[t]
    BY <1>5, <1>a, <2>2, ChainEmpty
       DEF SendRequest, SenderSends, ConnectionInv, ConnectionTypes
  <2>3. CASE s # t
    <3>1. /\ up'[t] = up[t] /\ pos'[t] = pos[t] /\ rEnd'[t] = rEnd[t]
          /\ spc'[t] = spc[t]
          /\ UNCHANGED <<backlog, cur, rpc, remaining, declared>>
      BY <1>5, <1>a, <2>3
         DEF SendRequest, SenderSends, SenderFails, SenderTypes, ConnectionTypes, receiverVars
    <3> QED
      BY <1>a, <3>1, ChainSame DEF Expected, Got
  <2> QED
    BY <2>1, <2>2, <2>3
<1>6. ASSUME NEW s \in Sender, ReceiveResponse(s)
      PROVE  ChainInv(t)'
  BY <1>6, <1>a DEF ReceiveResponse, senderVars, connVars, receiverVars,
     historyVars, ChainInv, Got, Expected, ConnectionInv, ServerInv, Serving,
     SenderTypes, ConnectionTypes, ReceiverTypes, SenderFails
<1>7. ASSUME NEW s \in Sender, SendChunk(s)
      PROVE  ChainInv(t)'
  <2> DEFINE f == Chunk(pos[s], pos[s] + ReadLength(s))
  <2>1. CASE s = t /\ rEnd[t]
    <3>1. f \in Frame /\ f.lo = pos[t] /\ f.hi = pos'[t] /\ f.lo <= f.hi
      BY <1>7, <1>a, <2>1, FrameFacts, ConstantsAssumption
         DEF SendChunk, SenderTypes, ConnectionInv, Ctl, Chunk, FrameType, ReadLength
    <3>2. /\ up'[t] = Append(up[t], f) /\ spc[t] # "done"
          /\ f.type = "TransferComplete" => spc'[t] = "done"
          /\ f.type # "FileChunk" => f.lo = f.hi
          /\ UNCHANGED <<backlog, cur, rpc, remaining, declared>>
      BY <1>7, <1>a, <2>1
         DEF SendChunk, SenderSends, SenderTypes, ConnectionTypes, Ctl, Chunk, receiverVars
    <3> QED
      BY <1>a, <2>1, <3>1, <3>2, ChainAppend
  <2>2. CASE s = t /\ ~rEnd[t]
    BY <1>7, <1>a, <2>2, ChainEmpty
       DEF SendChunk, SenderSends, ConnectionInv, ConnectionTypes
  <2>3. CASE s # t
    <3>1. /\ up'[t] = up[t] /\ pos'[t] = pos[t] /\ rEnd'[t] = rEnd[t]
          /\ spc'[t] = spc[t]
          /\ UNCHANGED <<backlog, cur, rpc, remaining, declared>>
      BY <1>7, <1>a, <2>3
         DEF SendChunk, SenderSends, SenderFails, SenderTypes, ConnectionTypes, receiverVars
    <3> QED
      BY <1>a, <3>1, ChainSame DEF Expected, Got
  <2> QED
    BY <2>1, <2>2, <2>3
<1>8. ASSUME NEW s \in Sender, ReachEof(s)
      PROVE  ChainInv(t)'
  BY <1>8, <1>a DEF ReachEof, senderVars, connVars, receiverVars, historyVars,
     ChainInv, Got, Expected, ConnectionInv, ServerInv, Serving, SenderTypes,
     ConnectionTypes, ReceiverTypes
<1>9. ASSUME NEW s \in Sender, ReadError(s)
      PROVE  ChainInv(t)'
  BY <1>9, <1>a DEF ReadError, senderVars, connVars, receiverVars,
     historyVars, ChainInv, Got, Expected, ConnectionInv, ServerInv, Serving,
     SenderTypes, ConnectionTypes, ReceiverTypes, SenderFails
<1>10. ASSUME NEW s \in Sender, SendComplete(s)
      PROVE  ChainInv(t)'
  <2> DEFINE f == Ctl("TransferComplete", pos[s])
  <2>1. CASE s = t /\ rEnd[t]
    <3>1. f \in Frame /\ f.lo = pos[t] /\ f.hi = pos'[t] /\ f.lo <= f.hi
      BY <1>10, <1>a, <2>1, FrameFacts
         DEF SendComplete, SenderTypes, ConnectionInv, Ctl, Chunk, FrameType, ReadLength
    <3>2. /\ up'[t] = Append(up[t], f) /\ spc[t] # "done"
          /\ f.type = "TransferComplete" => spc'[t] = "done"
          /\ f.type # "FileChunk" => f.lo = f.hi
          /\ UNCHANGED <<backlog, cur, rpc, remaining, declared>>
      BY <1>10, <1>a, <2>1
         DEF SendComplete, SenderSends, SenderTypes, ConnectionTypes, Ctl, Chunk, receiverVars
    <3> QED
      BY <1>a, <2>1, <3>1, <3>2, ChainAppend
  <2>2. CASE s = t /\ ~rEnd[t]
    BY <1>10, <1>a, <2>2, ChainEmpty
       DEF SendComplete, SenderSends, ConnectionInv, ConnectionTypes
  <2>3. CASE s # t
    <3>1. /\ up'[t] = up[t] /\ pos'[t] = pos[t] /\ rEnd'[t] = rEnd[t]
          /\ spc'[t] = spc[t]
          /\ UNCHANGED <<backlog, cur, rpc, remaining, declared>>
      BY <1>10, <1>a, <2>3
         DEF SendComplete, SenderSends, SenderFails, SenderTypes, ConnectionTypes, receiverVars
    <3> QED
      BY <1>a, <3>1, ChainSame DEF Expected, Got
  <2> QED
    BY <2>1, <2>2, <2>3
<1>11. ASSUME NEW s \in Sender, KillSender(s)
      PROVE  ChainInv(t)'
  BY <1>11, <1>a DEF KillSender, senderVars, connVars, receiverVars,
     historyVars, ChainInv, Got, Expected, ConnectionInv, ServerInv, Serving,
     SenderTypes, ConnectionTypes, ReceiverTypes, SenderFails
<1>12. ASSUME NEW s \in Sender, ResetConnection(s)
      PROVE  ChainInv(t)'
  BY <1>12, <1>a DEF ResetConnection, senderVars, connVars, receiverVars,
     historyVars, ChainInv, Got, Expected, ConnectionInv, ServerInv, Serving,
     SenderTypes, ConnectionTypes, ReceiverTypes
<1>13. ASSUME NEW s \in Sender, ResizeSource(s)
      PROVE  ChainInv(t)'
  BY <1>13, <1>a DEF ResizeSource, senderVars, connVars, receiverVars,
     historyVars, ChainInv, Got, Expected, ConnectionInv, ServerInv, Serving,
     SenderTypes, ConnectionTypes, ReceiverTypes
<1>14. CASE Accept
  <2>1. /\ UNCHANGED <<up, pos, rEnd, spc, declared>> /\ rpc = "accept"
        /\ rpc' = "initial" /\ cur' \in backlog /\ backlog' = backlog \ {cur'}
    BY <1>14 DEF Accept, senderVars
  <2>2. Got(t)' = 0 /\ Got(t) = 0
    BY <2>1 DEF Got
  <2>3. Expected(t)' => Expected(t)
    BY <2>1 DEF Expected
  <2> QED
    BY <1>a, <2>1, <2>2, <2>3, ChainSame
<1>15. CASE AcceptFails
  BY <1>15, <1>a, ConstantsAssumption DEF AcceptFails, ServerDies, senderVars,
     connVars, receiverVars, historyVars, ChainInv, Got, Expected,
     ConnectionInv, ServerInv, Serving, SenderTypes, ConnectionTypes,
     ReceiverTypes, AllClose
<1>16. CASE ReceiveRequest
  <2>1. UNCHANGED <<pos, rEnd, spc, backlog, cur, declared>>
    BY <1>16 DEF ReceiveRequest, senderVars
  <2>2. CASE t = cur
    <3>1. up[t] # <<>> /\ up'[t] = Tail(up[t])
      BY <1>16, <1>a, <2>2 DEF ReceiveRequest, ConnectionTypes
    <3>2. Expected(t)' => Expected(t) /\ Got(t)' = up[t][1].hi
      <4>1. SUFFICES ASSUME Expected(t)' PROVE Expected(t) /\ Got(t)' = up[t][1].hi
        OBVIOUS
      <4>2. t \notin backlog /\ rpc = "initial" /\ rpc' = "prompt"
        BY <1>16, <1>a, <2>1, <2>2, <4>1 DEF ReceiveRequest, Throw, Expected, ConnectionInv
      <4>3. Head(up[t]).type = "FileRequest" /\ Head(up[t]) = up[t][1] /\ 1 \in 1..Len(up[t])
        BY <1>16, <1>a, <2>2, <3>1, <4>2 DEF ReceiveRequest, Throw, ConnectionTypes
      <4>4. up[t][1].hi = up[t][1].lo /\ up[t][1].lo = 0
        BY <1>a, <2>2, <3>1, <4>2, <4>3 DEF ChainInv, Expected, Got
      <4> QED
        BY <2>1, <2>2, <4>2, <4>4 DEF Expected, Got
    <3> QED
      BY <1>a, <2>1, <3>1, <3>2, ChainTail
  <2>3. CASE t # cur
    <3>1. up'[t] = up[t]
      BY <1>16, <1>a, <2>3 DEF ReceiveRequest, ConnectionTypes
    <3> QED
      BY <1>a, <2>1, <2>3, <3>1, ChainSame DEF Expected, Got
  <2> QED
    BY <2>2, <2>3
<1>17. CASE ReceiveEof
  BY <1>17, <1>a DEF ReceiveEof, Throw, senderVars, connVars, receiverVars,
     historyVars, ChainInv, Got, Expected, ConnectionInv, ServerInv, Serving,
     SenderTypes, ConnectionTypes, ReceiverTypes
<1>18. CASE ConfirmYes
  BY <1>18, <1>a DEF ConfirmYes, senderVars, connVars, receiverVars,
     historyVars, ChainInv, Got, Expected, ConnectionInv, ServerInv, Serving,
     SenderTypes, ConnectionTypes, ReceiverTypes
<1>19. CASE ConfirmNo
  <2>1. CASE ReceiverCloses(cur, <<Ctl("FileReject", 0)>>) /\ NextConnection
    <3>1. CASE t = cur
      BY <1>a, <2>1, <3>1, ChainEmpty DEF ReceiverCloses, ConnectionTypes
    <3>2. CASE t # cur
      <4>1. up'[t] = up[t] /\ rEnd'[t] = rEnd[t]
        BY <1>a, <2>1, <3>2 DEF ReceiverCloses, ConnectionTypes
      <4>2. cur' = None /\ UNCHANGED <<pos, spc, backlog>>
        BY <1>19, <2>1 DEF ConfirmNo, NextConnection, senderVars
      <4> QED
        BY <1>a, <3>2, <4>1, <4>2, ChainSame, ConstantsAssumption DEF Expected, Got
    <3> QED
      BY <3>1, <3>2
  <2>2. CASE Throw /\ UNCHANGED <<up, rEnd, cur>>
    <3>1. UNCHANGED <<pos, spc, backlog, up, rEnd, cur>> /\ rpc' = "catch"
      BY <1>19, <2>2 DEF ConfirmNo, Throw, senderVars
    <3> QED
      BY <1>a, <3>1, ChainSame DEF Expected, Got, ConnectionInv
  <2> QED
    BY <1>19, <2>1, <2>2 DEF ConfirmNo
<1>20. CASE NameRefused
  BY <1>20, <1>a DEF NameRefused, Throw, senderVars, connVars, receiverVars,
     historyVars, ChainInv, Got, Expected, ConnectionInv, ServerInv, Serving,
     SenderTypes, ConnectionTypes, ReceiverTypes
<1>21. CASE RemoveStalePart
  BY <1>21, <1>a DEF RemoveStalePart, Throw, senderVars, connVars,
     receiverVars, historyVars, ChainInv, Got, Expected, ConnectionInv,
     ServerInv, Serving, SenderTypes, ConnectionTypes, ReceiverTypes
<1>22. CASE OpenPart
  BY <1>22, <1>a DEF OpenPart, Throw, senderVars, connVars, receiverVars,
     historyVars, ChainInv, Got, Expected, ConnectionInv, ServerInv, Serving,
     SenderTypes, ConnectionTypes, ReceiverTypes
<1>23. CASE ReceiveChunk
  <2>1. UNCHANGED <<pos, rEnd, spc, backlog, cur, declared>>
    BY <1>23 DEF ReceiveChunk, AllReceived, senderVars
  <2>2. CASE t = cur
    <3>1. up[t] # <<>> /\ up'[t] = Tail(up[t])
      BY <1>23, <1>a, <2>2 DEF ReceiveChunk, AllReceived, ConnectionTypes
    <3>2. Expected(t)' => Expected(t) /\ Got(t)' = up[t][1].hi
      <4>1. SUFFICES ASSUME Expected(t)' PROVE Expected(t) /\ Got(t)' = up[t][1].hi
        OBVIOUS
      <4>2. t \notin backlog /\ rpc = "body" /\ rpc' = "body"
        BY <1>23, <1>a, <2>1, <2>2, <4>1 DEF ReceiveChunk, AllReceived, Throw, Expected, ConnectionInv
      <4> DEFINE f == up[t][1]
      <4>3. f \in Frame /\ f = Head(up[t]) /\ f.lo \in Nat /\ f.hi \in Nat
        BY <1>a, <3>1, SeqFacts, FrameFacts DEF ConnectionTypes
      <4>4. remaining' = remaining - (f.hi - f.lo)
        BY <1>23, <2>2, <4>2, <4>3 DEF ReceiveChunk, AllReceived, Throw
      <4>5. f.lo = declared[t] - remaining
        BY <1>a, <2>2, <3>1, <4>2 DEF ChainInv, Expected, Got
      <4>6. declared[t] \in Nat /\ remaining \in Nat
        BY <1>a DEF SenderTypes, ReceiverTypes
      <4>7. declared[t] - remaining' = f.hi
        BY <4>3, <4>4, <4>5, <4>6
      <4> QED
        BY <2>1, <2>2, <4>2, <4>7 DEF Expected, Got
    <3> QED
      BY <1>a, <2>1, <3>1, <3>2, ChainTail
  <2>3. CASE t # cur
    <3>1. up'[t] = up[t]
      BY <1>23, <1>a, <2>3 DEF ReceiveChunk, AllReceived, ConnectionTypes
    <3> QED
      BY <1>a, <2>1, <2>3, <3>1, ChainSame DEF Expected, Got
  <2> QED
    BY <2>2, <2>3
<1>24. CASE ReceiveComplete
  <2>1. UNCHANGED <<pos, rEnd, spc, backlog, cur, declared>>
    BY <1>24 DEF ReceiveComplete, AllReceived, senderVars
  <2>2. CASE t = cur
    <3>1. up[t] # <<>> /\ up'[t] = Tail(up[t])
      BY <1>24, <1>a, <2>2 DEF ReceiveComplete, AllReceived, ConnectionTypes
    <3>2. Expected(t)' => Expected(t) /\ Got(t)' = up[t][1].hi
      BY <1>24, <1>a, <2>1, <2>2 DEF ReceiveComplete, AllReceived, Throw, Expected, ConnectionInv
    <3> QED
      BY <1>a, <2>1, <3>1, <3>2, ChainTail
  <2>3. CASE t # cur
    <3>1. up'[t] = up[t]
      BY <1>24, <1>a, <2>3 DEF ReceiveComplete, AllReceived, ConnectionTypes
    <3> QED
      BY <1>a, <2>1, <2>3, <3>1, ChainSame DEF Expected, Got
  <2> QED
    BY <2>2, <2>3
<1>25. CASE ClosePart
  BY <1>25, <1>a DEF ClosePart, senderVars, connVars, receiverVars,
     historyVars, ChainInv, Got, Expected, ConnectionInv, ServerInv, Serving,
     SenderTypes, ConnectionTypes, ReceiverTypes
<1>26. CASE RemoveOld
  BY <1>26, <1>a DEF RemoveOld, Throw, senderVars, connVars, receiverVars,
     historyVars, ChainInv, Got, Expected, ConnectionInv, ServerInv, Serving,
     SenderTypes, ConnectionTypes, ReceiverTypes
<1>27. CASE RenamePart
  <2>1. CASE t = cur
    BY <1>27, <1>a, <2>1, ChainEmpty DEF RenamePart, ReceiverCloses, ConnectionTypes
  <2>2. CASE t # cur
    <3>1. up'[t] = up[t] /\ rEnd'[t] = rEnd[t]
      BY <1>27, <1>a, <2>2 DEF RenamePart, ReceiverCloses, ConnectionTypes
    <3>2. cur' = None /\ UNCHANGED <<pos, spc, backlog>>
      BY <1>27 DEF RenamePart, NextConnection, senderVars
    <3> QED
      BY <1>a, <2>2, <3>1, <3>2, ChainSame, ConstantsAssumption DEF Expected, Got
  <2> QED
    BY <2>1, <2>2
<1>28. CASE RenameFails
  BY <1>28, <1>a DEF RenameFails, Throw, senderVars, connVars, receiverVars,
     historyVars, ChainInv, Got, Expected, ConnectionInv, ServerInv, Serving,
     SenderTypes, ConnectionTypes, ReceiverTypes
<1>29. CASE CleanUp
  <2>1. CASE t = cur
    BY <1>29, <1>a, <2>1, ChainEmpty DEF CleanUp, ReceiverCloses, ConnectionTypes
  <2>2. CASE t # cur
    <3>1. up'[t] = up[t] /\ rEnd'[t] = rEnd[t]
      BY <1>29, <1>a, <2>2 DEF CleanUp, ReceiverCloses, ConnectionTypes
    <3>2. cur' = None /\ UNCHANGED <<pos, spc, backlog>>
      BY <1>29 DEF CleanUp, NextConnection, senderVars
    <3> QED
      BY <1>a, <2>2, <3>1, <3>2, ChainSame, ConstantsAssumption DEF Expected, Got
  <2> QED
    BY <2>1, <2>2
<1>30. CASE CleanUpFails
  BY <1>30, <1>a, ConstantsAssumption DEF CleanUpFails, ServerDies,
     senderVars, connVars, receiverVars, historyVars, ChainInv, Got, Expected,
     ConnectionInv, ServerInv, Serving, SenderTypes, ConnectionTypes,
     ReceiverTypes, AllClose
<1>31. CASE KillReceiver
  BY <1>31, <1>a, ConstantsAssumption DEF KillReceiver, ServerDies,
     senderVars, connVars, receiverVars, historyVars, ChainInv, Got, Expected,
     ConnectionInv, ServerInv, Serving, SenderTypes, ConnectionTypes,
     ReceiverTypes, AllClose
<1>32. CASE StartReceiver
  BY <1>32, <1>a DEF StartReceiver, senderVars, connVars, receiverVars,
     historyVars, ChainInv, Got, Expected, ConnectionInv, ServerInv, Serving,
     SenderTypes, ConnectionTypes, ReceiverTypes
<1> QED
  BY <1>1, <1>2, <1>3, <1>4, <1>5, <1>6, <1>7, <1>8, <1>9, <1>10, <1>11,
     <1>12, <1>13, <1>14, <1>15, <1>16, <1>17, <1>18, <1>19, <1>20, <1>21,
     <1>22, <1>23, <1>24, <1>25, <1>26, <1>27, <1>28, <1>29, <1>30, <1>31,
     <1>32 DEF Next, SenderStep, ReceiverStep, Confirm, Environment

\* The file received up to its first byte is empty.
LEMMA NoBytes ==
    ASSUME NEW s \in Sender
    PROVE  Bytes(s, 0, 0) = <<>>
  BY BytesFromStart

\* The receiver's paths while it serves a request whose name is legal.
LEMMA ServedPaths ==
    ASSUME TypeOK, ServerInv, rpc \in {"open", "body", "close", "removeOld", "rename"}
    PROVE  /\ cur \in Sender /\ name[cur] \in FileName \ {Illegal}
           /\ OutPath \in Path /\ TempPath \in Path /\ OutPath # TempPath
<1>1. cur \in Sender /\ name[cur] \in FileName \ {Illegal}
  BY DEF TypeOK, ServerInv, Serving, SenderTypes, ReceiverTypes
<1> QED
  BY <1>1, PathFacts DEF OutPath, TempPath

\* The next chunk continues the temporary file.
LEMMA NextChunk ==
    ASSUME IInv, rpc = "body", up[cur] # <<>>
    PROVE  /\ cur \in Sender
           /\ up[cur][1] = Head(up[cur]) /\ up[cur][1] \in Frame
           /\ up[cur][1].lo \in Nat /\ up[cur][1].hi \in Nat
           /\ up[cur][1].lo = declared[cur] - remaining
           /\ up[cur][1].lo <= up[cur][1].hi
<1>1. cur \in Sender /\ up[cur] \in Seq(Frame)
  BY DEF IInv, TypeOK, ServerInv, Serving, ReceiverTypes, ConnectionTypes
<1>2. 1 \in 1..Len(up[cur]) /\ up[cur][1] = Head(up[cur])
  BY <1>1
<1>3. up[cur][1] \in Frame
  BY <1>1, <1>2, SeqFacts
<1>4. ChainInv(cur)
  BY <1>1 DEF IInv
<1>5. up[cur][1].lo = declared[cur] - remaining
  BY <1>4 DEF ChainInv, Expected, Got
<1> QED
  BY <1>1, <1>2, <1>3, <1>4, <1>5, FrameFacts DEF ChainInv

\* Every step keeps the temporary file equal to what was received.
LEMMA PartInvStep ==
    ASSUME IInv, Next
    PROVE  PartInv'
<1>a. /\ SenderTypes /\ ConnectionTypes /\ ReceiverTypes /\ DiskTypes /\ TypeOK
      /\ ServerInv /\ PartInv /\ SentInv
      /\ \A s \in Sender : ConnectionInv(s)
  BY DEF IInv, TypeOK
<1>1. ASSUME NEW s \in Sender, RefuseLocally(s)
      PROVE  PartInv'
  BY <1>1, <1>a DEF RefuseLocally, senderVars, connVars, receiverVars,
     historyVars, PartInv, Writing, TempPath
<1>2. ASSUME NEW s \in Sender, OpenSource(s)
      PROVE  PartInv'
  <2>1. s # cur
    BY <1>2, <1>a DEF OpenSource, ConnectionInv
  <2>2. UNCHANGED <<rpc, cur, name, remaining, disk>>
    BY <1>2 DEF OpenSource, receiverVars
  <2>3. rpc \in Writing => declared'[cur] = declared[cur]
    BY <1>2, <1>a, <2>1 DEF OpenSource, SenderTypes, ServerInv, Serving, ReceiverTypes, Writing
  <2> QED
    BY <1>a, <2>2, <2>3 DEF PartInv, TempPath
<1>3. ASSUME NEW s \in Sender, Connect(s)
      PROVE  PartInv'
  BY <1>3, <1>a DEF Connect, senderVars, connVars, receiverVars, historyVars,
     PartInv, Writing, TempPath
<1>4. ASSUME NEW s \in Sender, ConnectRefused(s)
      PROVE  PartInv'
  BY <1>4, <1>a DEF ConnectRefused, senderVars, connVars, receiverVars,
     historyVars, PartInv, Writing, TempPath
<1>5. ASSUME NEW s \in Sender, SendRequest(s)
      PROVE  PartInv'
  BY <1>5, <1>a DEF SendRequest, senderVars, connVars, receiverVars,
     historyVars, PartInv, Writing, TempPath
<1>6. ASSUME NEW s \in Sender, ReceiveResponse(s)
      PROVE  PartInv'
  BY <1>6, <1>a DEF ReceiveResponse, senderVars, connVars, receiverVars,
     historyVars, PartInv, Writing, TempPath
<1>7. ASSUME NEW s \in Sender, SendChunk(s)
      PROVE  PartInv'
  BY <1>7, <1>a DEF SendChunk, senderVars, connVars, receiverVars,
     historyVars, PartInv, Writing, TempPath
<1>8. ASSUME NEW s \in Sender, ReachEof(s)
      PROVE  PartInv'
  BY <1>8, <1>a DEF ReachEof, senderVars, connVars, receiverVars, historyVars,
     PartInv, Writing, TempPath
<1>9. ASSUME NEW s \in Sender, ReadError(s)
      PROVE  PartInv'
  BY <1>9, <1>a DEF ReadError, senderVars, connVars, receiverVars,
     historyVars, PartInv, Writing, TempPath
<1>10. ASSUME NEW s \in Sender, SendComplete(s)
      PROVE  PartInv'
  BY <1>10, <1>a DEF SendComplete, senderVars, connVars, receiverVars,
     historyVars, PartInv, Writing, TempPath
<1>11. ASSUME NEW s \in Sender, KillSender(s)
      PROVE  PartInv'
  BY <1>11, <1>a DEF KillSender, senderVars, connVars, receiverVars,
     historyVars, PartInv, Writing, TempPath
<1>12. ASSUME NEW s \in Sender, ResetConnection(s)
      PROVE  PartInv'
  BY <1>12, <1>a DEF ResetConnection, senderVars, connVars, receiverVars,
     historyVars, PartInv, Writing, TempPath
<1>13. ASSUME NEW s \in Sender, ResizeSource(s)
      PROVE  PartInv'
  BY <1>13, <1>a DEF ResizeSource, senderVars, connVars, receiverVars,
     historyVars, PartInv, Writing, TempPath
<1>14. CASE Accept
  BY <1>14, <1>a DEF Accept, senderVars, connVars, receiverVars, historyVars,
     PartInv, Writing, TempPath
<1>15. CASE AcceptFails
  BY <1>15, <1>a DEF AcceptFails, ServerDies, senderVars, connVars,
     receiverVars, historyVars, PartInv, Writing, TempPath
<1>16. CASE ReceiveRequest
  BY <1>16, <1>a DEF ReceiveRequest, RequestAllowed, Throw, senderVars,
     connVars, receiverVars, historyVars, PartInv, Writing, TempPath
<1>17. CASE ReceiveEof
  BY <1>17, <1>a DEF ReceiveEof, Throw, senderVars, connVars, receiverVars,
     historyVars, PartInv, Writing, TempPath
<1>18. CASE ConfirmYes
  BY <1>18, <1>a DEF ConfirmYes, senderVars, connVars, receiverVars,
     historyVars, PartInv, Writing, TempPath
<1>19. CASE ConfirmNo
  BY <1>19, <1>a DEF ConfirmNo, Throw, NextConnection, senderVars, connVars,
     receiverVars, historyVars, PartInv, Writing, TempPath
<1>20. CASE NameRefused
  BY <1>20, <1>a DEF NameRefused, Throw, senderVars, connVars, receiverVars,
     historyVars, PartInv, Writing, TempPath
<1>21. CASE RemoveStalePart
  BY <1>21, <1>a DEF RemoveStalePart, Throw, senderVars, connVars,
     receiverVars, historyVars, PartInv, Writing, TempPath
<1>22. CASE OpenPart
  <2>1. rpc = "open" /\ cur \in Sender /\ TempPath \in Path
    BY <1>22, <1>a, ServedPaths DEF OpenPart
  <2>2. UNCHANGED <<cur, name, declared>>
    BY <1>22 DEF OpenPart, senderVars
  <2>3. CASE rpc' = "body"
    <3>1. disk'[TempPath] = <<>> /\ remaining' = declared[cur]
      BY <1>22, <1>a, <2>1, <2>3 DEF OpenPart, DiskTypes, Throw
    <3>2. declared[cur] - remaining' = 0
      BY <1>a, <2>1, <3>1 DEF SenderTypes
    <3> QED
      BY <2>1, <2>2, <3>1, <3>2, NoBytes DEF PartInv, TempPath
  <2>4. CASE rpc' = "catch"
    BY <2>4 DEF PartInv, Writing
  <2> QED
    BY <1>22, <2>3, <2>4 DEF OpenPart, Throw
<1>23. CASE ReceiveChunk
  <2>1. rpc = "body" /\ TempPath \in Path /\ up[cur] # <<>>
    BY <1>23, <1>a, ServedPaths DEF ReceiveChunk, AllReceived
  <2>2. UNCHANGED <<cur, name, declared>>
    BY <1>23 DEF ReceiveChunk, AllReceived, senderVars
  <2> DEFINE f == up[cur][1]
  <2>3. /\ cur \in Sender /\ f = Head(up[cur]) /\ f.lo \in Nat /\ f.hi \in Nat
        /\ f.lo = declared[cur] - remaining /\ f.lo <= f.hi
    BY <2>1, NextChunk
  <2> HIDE DEF f
  <2>4. CASE rpc' = "body"
    <3>1. /\ disk' = [disk EXCEPT ![TempPath] = @ \o Bytes(cur, f.lo, f.hi)]
          /\ remaining' = remaining - (f.hi - f.lo)
      BY <1>23, <2>3, <2>4 DEF ReceiveChunk, AllReceived, Throw
    <3>2. disk[TempPath] = Bytes(cur, 0, f.lo)
      BY <1>a, <2>1, <2>3 DEF PartInv, Writing
    <3>3. disk'[TempPath] = Bytes(cur, 0, f.hi)
      BY <1>a, <2>1, <2>3, <3>1, <3>2, BytesExtend DEF DiskTypes
    <3>4. declared[cur] - remaining' = f.hi
      BY <1>a, <2>3, <3>1 DEF SenderTypes, ReceiverTypes
    <3> QED
      BY <2>2, <3>3, <3>4 DEF PartInv, TempPath
  <2>5. CASE rpc' = "catch"
    BY <2>5 DEF PartInv, Writing
  <2> QED
    BY <1>23, <2>1, <2>4, <2>5 DEF ReceiveChunk, AllReceived, Throw
<1>24. CASE ReceiveComplete
  BY <1>24, <1>a DEF ReceiveComplete, AllReceived, Throw, senderVars, connVars,
     receiverVars, historyVars, PartInv, Writing, TempPath
<1>25. CASE ClosePart
  BY <1>25, <1>a DEF ClosePart, senderVars, connVars, receiverVars,
     historyVars, PartInv, Writing, TempPath
<1>26. CASE RemoveOld
  BY <1>26, <1>a DEF RemoveOld, Throw, senderVars, connVars, receiverVars,
     historyVars, PartInv, Writing, TempPath
<1>27. CASE RenamePart
  BY <1>27, <1>a DEF RenamePart, NextConnection, senderVars, connVars,
     receiverVars, historyVars, PartInv, Writing, TempPath
<1>28. CASE RenameFails
  BY <1>28, <1>a DEF RenameFails, Throw, senderVars, connVars, receiverVars,
     historyVars, PartInv, Writing, TempPath
<1>29. CASE CleanUp
  BY <1>29, <1>a DEF CleanUp, NextConnection, senderVars, connVars,
     receiverVars, historyVars, PartInv, Writing, TempPath
<1>30. CASE CleanUpFails
  BY <1>30, <1>a DEF CleanUpFails, ServerDies, senderVars, connVars,
     receiverVars, historyVars, PartInv, Writing, TempPath
<1>31. CASE KillReceiver
  BY <1>31, <1>a DEF KillReceiver, ServerDies, senderVars, connVars,
     receiverVars, historyVars, PartInv, Writing, TempPath
<1>32. CASE StartReceiver
  BY <1>32, <1>a DEF StartReceiver, senderVars, connVars, receiverVars,
     historyVars, PartInv, Writing, TempPath
<1> QED
  BY <1>1, <1>2, <1>3, <1>4, <1>5, <1>6, <1>7, <1>8, <1>9, <1>10, <1>11,
     <1>12, <1>13, <1>14, <1>15, <1>16, <1>17, <1>18, <1>19, <1>20, <1>21,
     <1>22, <1>23, <1>24, <1>25, <1>26, <1>27, <1>28, <1>29, <1>30, <1>31,
     <1>32 DEF Next, SenderStep, ReceiverStep, Confirm, Environment

\* Every step keeps the conjuncts about complete and saved transfers.
LEMMA SentInvStep ==
    ASSUME IInv, Next
    PROVE  SentInv'
<1>a. /\ SenderTypes /\ ConnectionTypes /\ ReceiverTypes /\ DiskTypes /\ TypeOK
      /\ ServerInv /\ PartInv /\ SentInv
      /\ \A s \in Sender : ConnectionInv(s)
  BY DEF IInv, TypeOK
<1>1. ASSUME NEW s \in Sender, RefuseLocally(s)
      PROVE  SentInv'
  BY <1>1, <1>a DEF RefuseLocally, senderVars, connVars, receiverVars,
     historyVars, SentInv, SavedMeansSentWhole, Complete, SenderTypes,
     ReceiverTypes, DiskTypes, ServerInv, Serving, SenderFails
<1>2. ASSUME NEW s \in Sender, OpenSource(s)
      PROVE  SentInv'
  BY <1>2, <1>a DEF OpenSource, senderVars, connVars, receiverVars,
     historyVars, SentInv, SavedMeansSentWhole, Complete, SenderTypes,
     ReceiverTypes, DiskTypes, ServerInv, Serving, ConnectionInv
<1>3. ASSUME NEW s \in Sender, Connect(s)
      PROVE  SentInv'
  BY <1>3, <1>a DEF Connect, senderVars, connVars, receiverVars, historyVars,
     SentInv, SavedMeansSentWhole, Complete, SenderTypes, ReceiverTypes,
     DiskTypes, ServerInv, Serving
<1>4. ASSUME NEW s \in Sender, ConnectRefused(s)
      PROVE  SentInv'
  BY <1>4, <1>a DEF ConnectRefused, senderVars, connVars, receiverVars,
     historyVars, SentInv, SavedMeansSentWhole, Complete, SenderTypes,
     ReceiverTypes, DiskTypes, ServerInv, Serving, SenderFails
<1>5. ASSUME NEW s \in Sender, SendRequest(s)
      PROVE  SentInv'
  BY <1>5, <1>a DEF SendRequest, senderVars, connVars, receiverVars,
     historyVars, SentInv, SavedMeansSentWhole, Complete, SenderTypes,
     ReceiverTypes, DiskTypes, ServerInv, Serving, SenderSends, SenderFails
<1>6. ASSUME NEW s \in Sender, ReceiveResponse(s)
      PROVE  SentInv'
  BY <1>6, <1>a DEF ReceiveResponse, senderVars, connVars, receiverVars,
     historyVars, SentInv, SavedMeansSentWhole, Complete, SenderTypes,
     ReceiverTypes, DiskTypes, ServerInv, Serving, SenderFails
<1>7. ASSUME NEW s \in Sender, SendChunk(s)
      PROVE  SentInv'
  BY <1>7, <1>a DEF SendChunk, senderVars, connVars, receiverVars,
     historyVars, SentInv, SavedMeansSentWhole, Complete, SenderTypes,
     ReceiverTypes, DiskTypes, ServerInv, Serving, SenderSends, SenderFails
<1>8. ASSUME NEW s \in Sender, ReachEof(s)
      PROVE  SentInv'
  BY <1>8, <1>a DEF ReachEof, senderVars, connVars, receiverVars, historyVars,
     SentInv, SavedMeansSentWhole, Complete, SenderTypes, ReceiverTypes,
     DiskTypes, ServerInv, Serving
<1>9. ASSUME NEW s \in Sender, ReadError(s)
      PROVE  SentInv'
  BY <1>9, <1>a DEF ReadError, senderVars, connVars, receiverVars,
     historyVars, SentInv, SavedMeansSentWhole, Complete, SenderTypes,
     ReceiverTypes, DiskTypes, ServerInv, Serving, SenderFails
<1>10. ASSUME NEW s \in Sender, SendComplete(s)
      PROVE  SentInv'
  BY <1>10, <1>a DEF SendComplete, senderVars, connVars, receiverVars,
     historyVars, SentInv, SavedMeansSentWhole, Complete, SenderTypes,
     ReceiverTypes, DiskTypes, ServerInv, Serving, SenderSends, SenderFails
<1>11. ASSUME NEW s \in Sender, KillSender(s)
      PROVE  SentInv'
  BY <1>11, <1>a DEF KillSender, senderVars, connVars, receiverVars,
     historyVars, SentInv, SavedMeansSentWhole, Complete, SenderTypes,
     ReceiverTypes, DiskTypes, ServerInv, Serving, SenderFails
<1>12. ASSUME NEW s \in Sender, ResetConnection(s)
      PROVE  SentInv'
  BY <1>12, <1>a DEF ResetConnection, senderVars, connVars, receiverVars,
     historyVars, SentInv, SavedMeansSentWhole, Complete, SenderTypes,
     ReceiverTypes, DiskTypes, ServerInv, Serving
<1>13. ASSUME NEW s \in Sender, ResizeSource(s)
      PROVE  SentInv'
  BY <1>13, <1>a DEF ResizeSource, senderVars, connVars, receiverVars,
     historyVars, SentInv, SavedMeansSentWhole, Complete, SenderTypes,
     ReceiverTypes, DiskTypes, ServerInv, Serving
<1>14. CASE Accept
  BY <1>14, <1>a DEF Accept, senderVars, connVars, receiverVars, historyVars,
     SentInv, SavedMeansSentWhole, Complete, SenderTypes, ReceiverTypes,
     DiskTypes, ServerInv, Serving
<1>15. CASE AcceptFails
  BY <1>15, <1>a DEF AcceptFails, ServerDies, senderVars, connVars,
     receiverVars, historyVars, SentInv, SavedMeansSentWhole, Complete,
     SenderTypes, ReceiverTypes, DiskTypes, ServerInv, Serving
<1>16. CASE ReceiveRequest
  BY <1>16, <1>a DEF ReceiveRequest, RequestAllowed, Throw, senderVars,
     connVars, receiverVars, historyVars, SentInv, SavedMeansSentWhole,
     Complete, SenderTypes, ReceiverTypes, DiskTypes, ServerInv, Serving
<1>17. CASE ReceiveEof
  BY <1>17, <1>a DEF ReceiveEof, Throw, senderVars, connVars, receiverVars,
     historyVars, SentInv, SavedMeansSentWhole, Complete, SenderTypes,
     ReceiverTypes, DiskTypes, ServerInv, Serving
<1>18. CASE ConfirmYes
  BY <1>18, <1>a DEF ConfirmYes, senderVars, connVars, receiverVars,
     historyVars, SentInv, SavedMeansSentWhole, Complete, SenderTypes,
     ReceiverTypes, DiskTypes, ServerInv, Serving
<1>19. CASE ConfirmNo
  <2>1. cur \in Sender /\ outcome[cur] = "pending"
    BY <1>19, <1>a DEF ConfirmNo, ServerInv, Serving, ReceiverTypes, ConnectionInv
  <2>2. \A p \in Path : saved[p] # None => saved[p] # cur /\ saved[p] \in Sender
    BY <1>a, <2>1 DEF SentInv, DiskTypes
  <2>3. UNCHANGED <<spc, pos, declared, saved>>
    BY <1>19 DEF ConfirmNo, senderVars, historyVars
  <2>4. /\ rpc' \in {"accept", "catch"}
        /\ \/ outcome' = outcome
           \/ \E o \in {"failed", "rejected"} : outcome' = [outcome EXCEPT ![cur] = o]
    BY <1>19 DEF ConfirmNo, Throw, NextConnection
  <2> QED
    BY <1>a, <2>1, <2>2, <2>3, <2>4 DEF SentInv, SavedMeansSentWhole, Complete, ReceiverTypes
<1>20. CASE NameRefused
  BY <1>20, <1>a DEF NameRefused, Throw, senderVars, connVars, receiverVars,
     historyVars, SentInv, SavedMeansSentWhole, Complete, SenderTypes,
     ReceiverTypes, DiskTypes, ServerInv, Serving
<1>21. CASE RemoveStalePart
  BY <1>21, <1>a DEF RemoveStalePart, Throw, senderVars, connVars,
     receiverVars, historyVars, SentInv, SavedMeansSentWhole, Complete,
     SenderTypes, ReceiverTypes, DiskTypes, ServerInv, Serving
<1>22. CASE OpenPart
  BY <1>22, <1>a DEF OpenPart, Throw, senderVars, connVars, receiverVars,
     historyVars, SentInv, SavedMeansSentWhole, Complete, SenderTypes,
     ReceiverTypes, DiskTypes, ServerInv, Serving
<1>23. CASE ReceiveChunk
  BY <1>23, <1>a DEF ReceiveChunk, AllReceived, Throw, ChunkFits, senderVars, connVars,
     receiverVars, historyVars, SentInv, SavedMeansSentWhole, Complete,
     SenderTypes, ReceiverTypes, DiskTypes, ServerInv, Serving
<1>24. CASE ReceiveComplete
  <2>1. rpc = "body" /\ up[cur] # <<>> /\ remaining = 0
    BY <1>24, <1>a DEF ReceiveComplete, AllReceived, ReceiverTypes
  <2> DEFINE f == up[cur][1]
  <2>2. /\ cur \in Sender /\ f = Head(up[cur]) /\ f.lo \in Nat /\ f.hi \in Nat
        /\ f.lo = declared[cur] - remaining
    BY <2>1, NextChunk
  <2>3. UNCHANGED <<cur, spc, pos, declared, outcome, saved>>
    BY <1>24 DEF ReceiveComplete, AllReceived, senderVars, historyVars
  <2>4. CASE f.type = "TransferComplete"
    <3>1. ChainInv(cur) /\ ConnectionInv(cur)
      BY <2>2 DEF IInv
    <3>2. up[cur] \in Seq(Frame) /\ 1 \in 1..Len(up[cur])
      BY <1>a, <2>1, <2>2 DEF ConnectionTypes
    <3>3. 1 = Len(up[cur]) /\ spc[cur] = "done" /\ f.lo = f.hi
      BY <2>4, <3>1, <3>2 DEF ChainInv
    <3>4. rEnd[cur]
      BY <2>1, <3>1 DEF ConnectionInv
    <3>5. pos[cur] = f.hi
      BY <2>1, <3>1, <3>3, <3>4 DEF ChainInv, Expected
    <3>6. pos[cur] = declared[cur]
      BY <1>a, <2>1, <2>2, <3>3, <3>5 DEF SenderTypes
    <3> QED
      BY <1>a, <2>3, <3>3, <3>6 DEF SentInv, SavedMeansSentWhole
  <2>5. CASE f.type # "TransferComplete"
    BY <1>24, <1>a, <2>2, <2>3, <2>5 DEF ReceiveComplete, AllReceived, Throw, SentInv, SavedMeansSentWhole, Complete
  <2> QED
    BY <2>4, <2>5
<1>25. CASE ClosePart
  BY <1>25, <1>a DEF ClosePart, senderVars, connVars, receiverVars,
     historyVars, SentInv, SavedMeansSentWhole, Complete, SenderTypes,
     ReceiverTypes, DiskTypes, ServerInv, Serving
<1>26. CASE RemoveOld
  BY <1>26, <1>a, ConstantsAssumption DEF RemoveOld, Throw, senderVars,
     connVars, receiverVars, historyVars, SentInv, SavedMeansSentWhole,
     Complete, SenderTypes, ReceiverTypes, DiskTypes, ServerInv, Serving
<1>27. CASE RenamePart
  BY <1>27, <1>a DEF RenamePart, NextConnection, senderVars, connVars,
     receiverVars, historyVars, SentInv, SavedMeansSentWhole, Complete,
     SenderTypes, ReceiverTypes, DiskTypes, ServerInv, Serving, Outcome
<1>28. CASE RenameFails
  BY <1>28, <1>a DEF RenameFails, Throw, senderVars, connVars, receiverVars,
     historyVars, SentInv, SavedMeansSentWhole, Complete, SenderTypes,
     ReceiverTypes, DiskTypes, ServerInv, Serving
<1>29. CASE CleanUp
  <2>1. cur \in Sender /\ outcome[cur] = "pending"
    BY <1>29, <1>a DEF CleanUp, ServerInv, Serving, ReceiverTypes, ConnectionInv
  <2>2. \A p \in Path : saved[p] # None => saved[p] # cur /\ saved[p] \in Sender
    BY <1>a, <2>1 DEF SentInv, DiskTypes
  <2>3. UNCHANGED <<spc, pos, declared, saved>>
    BY <1>29 DEF CleanUp, senderVars, historyVars
  <2>4. /\ rpc' \in {"accept", "catch"}
        /\ \/ outcome' = outcome
           \/ \E o \in {"failed", "rejected"} : outcome' = [outcome EXCEPT ![cur] = o]
    BY <1>29 DEF CleanUp, Throw, NextConnection
  <2> QED
    BY <1>a, <2>1, <2>2, <2>3, <2>4 DEF SentInv, SavedMeansSentWhole, Complete, ReceiverTypes
<1>30. CASE CleanUpFails
  BY <1>30, <1>a DEF CleanUpFails, ServerDies, senderVars, connVars,
     receiverVars, historyVars, SentInv, SavedMeansSentWhole, Complete,
     SenderTypes, ReceiverTypes, DiskTypes, ServerInv, Serving
<1>31. CASE KillReceiver
  BY <1>31, <1>a DEF KillReceiver, ServerDies, senderVars, connVars,
     receiverVars, historyVars, SentInv, SavedMeansSentWhole, Complete,
     SenderTypes, ReceiverTypes, DiskTypes, ServerInv, Serving
<1>32. CASE StartReceiver
  BY <1>32, <1>a DEF StartReceiver, senderVars, connVars, receiverVars,
     historyVars, SentInv, SavedMeansSentWhole, Complete, SenderTypes,
     ReceiverTypes, DiskTypes, ServerInv, Serving
<1> QED
  BY <1>1, <1>2, <1>3, <1>4, <1>5, <1>6, <1>7, <1>8, <1>9, <1>10, <1>11,
     <1>12, <1>13, <1>14, <1>15, <1>16, <1>17, <1>18, <1>19, <1>20, <1>21,
     <1>22, <1>23, <1>24, <1>25, <1>26, <1>27, <1>28, <1>29, <1>30, <1>31,
     <1>32 DEF Next, SenderStep, ReceiverStep, Confirm, Environment

\* The inductive invariant holds at first.
LEMMA InitIInv == Init => IInv
<1> SUFFICES ASSUME Init PROVE IInv
  OBVIOUS
<1> USE ConstantsAssumption DEF Init
<1>1. SenderTypes
  <2>1. src \in [Sender -> Nat]
    OBVIOUS
  <2> QED
    BY <2>1 DEF SenderTypes, SenderState
<1>2. ConnectionTypes
  BY SeqFacts DEF ConnectionTypes
<1>3. ReceiverTypes
  BY DEF ReceiverTypes, ReceiverState, Outcome
<1>4. DiskTypes
  BY ContentFacts DEF DiskTypes
<1>5. ServerInv
  BY DEF ServerInv, Serving, Writing, Complete
<1>6. ConsentInv
  BY DEF ConsentInv, Agreed
<1>7. ASSUME NEW s \in Sender
      PROVE  ConnectionInv(s) /\ ChainInv(s)
  BY DEF ConnectionInv, ChainInv, Expected, Got
<1>8. PartInv
  BY DEF PartInv, Writing
<1>9. SentInv
  BY DEF SentInv, SavedMeansSentWhole, Complete
<1> QED
  BY <1>1, <1>2, <1>3, <1>4, <1>5, <1>6, <1>7, <1>8, <1>9 DEF IInv, TypeOK

\* A stuttering step keeps the inductive invariant.
LEMMA StutterIInv ==
    ASSUME IInv, UNCHANGED vars
    PROVE  IInv'
<1>1. UNCHANGED <<spc, src, name, declared, pos, trust>>
  BY DEF vars, senderVars
<1>2. UNCHANGED <<backlog, up, down, sEnd, rEnd>>
  BY DEF vars, connVars
<1>3. UNCHANGED <<rpc, cur, remaining, cleanup, kills, outcome, disk>>
  BY DEF vars, receiverVars
<1>4. UNCHANGED <<consent, saved>>
  BY DEF vars, historyVars
<1>5. TypeOK'
  BY <1>1, <1>2, <1>3, <1>4 DEF IInv, TypeOK, SenderTypes, ConnectionTypes,
     ReceiverTypes, DiskTypes
<1>6. ServerInv' /\ ConsentInv'
  BY <1>1, <1>3, <1>4 DEF IInv, ServerInv, ConsentInv, Serving
<1>7. ASSUME NEW s \in Sender
      PROVE  ConnectionInv(s)' /\ ChainInv(s)'
  BY <1>1, <1>2, <1>3 DEF IInv, ConnectionInv, ChainInv, Expected, Got
<1>8. PartInv' /\ SentInv'
  BY <1>1, <1>3, <1>4 DEF IInv, PartInv, SentInv, SavedMeansSentWhole, TempPath
<1> QED
  BY <1>5, <1>6, <1>7, <1>8 DEF IInv

\* Every step keeps the inductive invariant.
LEMMA StepIInv == IInv /\ [Next]_vars => IInv'
<1> SUFFICES ASSUME IInv, [Next]_vars PROVE IInv'
  OBVIOUS
<1>1. CASE Next
  <2>1. TypeOK'
    <3>1. SenderTypes'
      BY <1>1, SenderTypesStep DEF IInv, TypeOK
    <3> QED
      BY <1>1, <3>1, ConnectionTypesStep, ReceiverTypesStep, DiskTypesStep DEF TypeOK
  <2>2. ServerInv' /\ ConsentInv' /\ PartInv' /\ SentInv'
    BY <1>1, ServerInvStep, ConsentInvStep, PartInvStep, SentInvStep
  <2>3. \A s \in Sender : ConnectionInv(s)' /\ ChainInv(s)'
    BY <1>1, ConnectionInvStep, ChainInvStep
  <2> QED
    BY <2>1, <2>2, <2>3 DEF IInv
<1>2. CASE UNCHANGED vars
  BY <1>2, StutterIInv
<1> QED
  BY <1>1, <1>2

\* The invariant of every run, whatever fails.
THEOREM Invariance == Spec => []IInv
<1> QED
  BY InitIInv, StepIInv, PTL DEF Spec

\* Every variable keeps its type.
THEOREM TypeCorrect == Spec => []TypeOK
<1>1. IInv => TypeOK
  BY DEF IInv
<1> QED
  BY <1>1, Invariance, PTL

\* A transfer reported saved is one the sender completed.
THEOREM SavedWasSentWhole == Spec => []SavedMeansSentWhole
<1>1. IInv => SavedMeansSentWhole
  BY DEF IInv, SentInv
<1> QED
  BY <1>1, Invariance, PTL

-----------------------------------------------------------------------------
(* Who waits for whom *)

\* A queue to which a frame was appended holds one.
LEMMA NeverEmpty ==
    ASSUME NEW S, NEW q \in Seq(S), NEW e \in S
    PROVE  Append(q, e) # <<>>
<1>1. Len(Append(q, e)) = Len(q) + 1 /\ Len(q) \in Nat
  OBVIOUS
<1>2. Len(<<>>) = 0
  OBVIOUS
<1> QED
  BY <1>1, <1>2

\* Every step keeps the conjuncts about what the two ends of a connection wait for.
LEMMA WaitInvStep ==
    ASSUME IInv, NEW t \in Sender, WaitInv(t), Next
    PROVE  WaitInv(t)'
<1>a. /\ SenderTypes /\ ConnectionTypes /\ ReceiverTypes
      /\ ServerInv /\ ConnectionInv(t) /\ WaitInv(t)
  BY DEF IInv, TypeOK
<1>1. ASSUME NEW s \in Sender, RefuseLocally(s)
      PROVE  WaitInv(t)'
  BY <1>1, <1>a DEF RefuseLocally, senderVars, connVars, receiverVars,
     historyVars, ConnectionInv, WaitInv, Agreed, ServerInv, Serving, SenderTypes,
     ConnectionTypes, ReceiverTypes, SenderFails
<1>2. ASSUME NEW s \in Sender, OpenSource(s)
      PROVE  WaitInv(t)'
  BY <1>2, <1>a DEF OpenSource, senderVars, connVars, receiverVars,
     historyVars, ConnectionInv, WaitInv, Agreed, ServerInv, Serving, SenderTypes,
     ConnectionTypes, ReceiverTypes, SizeToSend
<1>3. ASSUME NEW s \in Sender, Connect(s)
      PROVE  WaitInv(t)'
  BY <1>3, <1>a DEF Connect, senderVars, connVars, receiverVars, historyVars,
     ConnectionInv, WaitInv, Agreed, ServerInv, Serving, SenderTypes, ConnectionTypes,
     ReceiverTypes
<1>4. ASSUME NEW s \in Sender, ConnectRefused(s)
      PROVE  WaitInv(t)'
  BY <1>4, <1>a DEF ConnectRefused, senderVars, connVars, receiverVars,
     historyVars, ConnectionInv, WaitInv, Agreed, ServerInv, Serving, SenderTypes,
     ConnectionTypes, ReceiverTypes, SenderFails
<1>5. ASSUME NEW s \in Sender, SendRequest(s)
      PROVE  WaitInv(t)'
  <2>1. Append(up[t], Ctl("FileRequest", 0)) # <<>>
    <3>1. Ctl("FileRequest", 0) \in Frame /\ up[t] \in Seq(Frame)
      BY <1>a, FrameFacts DEF ConnectionTypes, FrameType
    <3> QED
      BY <3>1, NeverEmpty
  <2>2. CASE rEnd[s]
    <3>1. /\ UNCHANGED <<rpc, cur, backlog, down, rEnd>>
          /\ spc[s] = "connected" /\ spc'[s] = "await" /\ sEnd'[s] = sEnd[s]
          /\ up'[s] = Append(up[s], Ctl("FileRequest", 0))
          /\ s # t => spc'[t] = spc[t] /\ up'[t] = up[t] /\ sEnd'[t] = sEnd[t]
      BY <1>5, <1>a, <2>2
      DEF SendRequest, SenderSends, receiverVars, SenderTypes, ConnectionTypes
    <3>2. CASE s = t
      <4>1. rEnd[t] => t \in backlog \/ t = cur
        BY <1>a DEF ConnectionInv
      <4> QED
        BY <1>a, <2>1, <2>2, <3>1, <3>2, <4>1 DEF WaitInv
    <3> QED
      BY <1>a, <3>1, <3>2 DEF WaitInv
  <2>3. CASE ~rEnd[s]
    BY <1>5, <1>a, <2>3 DEF SendRequest, senderVars, connVars, receiverVars,
       historyVars, ConnectionInv, WaitInv, Agreed, SenderTypes, ConnectionTypes,
       SenderSends, SenderFails
  <2> QED
    BY <2>2, <2>3
<1>6. ASSUME NEW s \in Sender, ReceiveResponse(s)
      PROVE  WaitInv(t)'
  BY <1>6, <1>a, SMTT(30) DEF ReceiveResponse, senderVars, connVars, receiverVars,
     historyVars, ConnectionInv, WaitInv, Agreed, ServerInv, Serving, SenderTypes,
     ConnectionTypes, ReceiverTypes, SenderFails
<1>7. ASSUME NEW s \in Sender, SendChunk(s)
      PROVE  WaitInv(t)'
  BY <1>7, <1>a, SMTT(30) DEF SendChunk, senderVars, connVars, receiverVars,
     historyVars, ConnectionInv, WaitInv, Agreed, ServerInv, Serving, SenderTypes,
     ConnectionTypes, ReceiverTypes, SenderSends, SenderFails
<1>8. ASSUME NEW s \in Sender, ReachEof(s)
      PROVE  WaitInv(t)'
  BY <1>8, <1>a DEF ReachEof, senderVars, connVars, receiverVars, historyVars,
     ConnectionInv, WaitInv, Agreed, ServerInv, Serving, SenderTypes, ConnectionTypes,
     ReceiverTypes
<1>9. ASSUME NEW s \in Sender, ReadError(s)
      PROVE  WaitInv(t)'
  BY <1>9, <1>a DEF ReadError, senderVars, connVars, receiverVars,
     historyVars, ConnectionInv, WaitInv, Agreed, ServerInv, Serving, SenderTypes,
     ConnectionTypes, ReceiverTypes, SenderFails
<1>10. ASSUME NEW s \in Sender, SendComplete(s)
      PROVE  WaitInv(t)'
  <2>1. /\ UNCHANGED <<rpc, cur, backlog, down, rEnd, trust>>
        /\ spc[s] = "finish" /\ spc'[s] \in {"done", "failed"} /\ ~sEnd'[s]
        /\ s # t => spc'[t] = spc[t] /\ up'[t] = up[t] /\ sEnd'[t] = sEnd[t]
    BY <1>10, <1>a DEF SendComplete, SenderSends, SenderFails, SenderTypes, ConnectionTypes,
       receiverVars
  <2> QED
    BY <1>a, <2>1 DEF WaitInv
<1>11. ASSUME NEW s \in Sender, KillSender(s)
      PROVE  WaitInv(t)'
  BY <1>11, <1>a DEF KillSender, senderVars, connVars, receiverVars,
     historyVars, ConnectionInv, WaitInv, Agreed, ServerInv, Serving, SenderTypes,
     ConnectionTypes, ReceiverTypes, SenderFails
<1>12. ASSUME NEW s \in Sender, ResetConnection(s)
      PROVE  WaitInv(t)'
  BY <1>12, <1>a DEF ResetConnection, senderVars, connVars, receiverVars,
     historyVars, ConnectionInv, WaitInv, Agreed, ServerInv, Serving, SenderTypes,
     ConnectionTypes, ReceiverTypes
<1>13. ASSUME NEW s \in Sender, ResizeSource(s)
      PROVE  WaitInv(t)'
  BY <1>13, <1>a DEF ResizeSource, senderVars, connVars, receiverVars,
     historyVars, ConnectionInv, WaitInv, Agreed, ServerInv, Serving, SenderTypes,
     ConnectionTypes, ReceiverTypes
<1>14. CASE Accept
  BY <1>14, <1>a, ConstantsAssumption DEF Accept, senderVars, connVars,
     receiverVars, historyVars, ConnectionInv, WaitInv, Agreed, ServerInv, Serving,
     SenderTypes, ConnectionTypes, ReceiverTypes
<1>15. CASE AcceptFails
  BY <1>15, <1>a, ConstantsAssumption DEF AcceptFails, ServerDies, senderVars,
     connVars, receiverVars, historyVars, ConnectionInv, WaitInv, Agreed, ServerInv, Serving,
     SenderTypes, ConnectionTypes, ReceiverTypes, AllClose
<1>16. CASE ReceiveRequest
  BY <1>16, <1>a DEF ReceiveRequest, RequestAllowed, Throw, senderVars,
     connVars, receiverVars, historyVars, ConnectionInv, WaitInv, Agreed, ServerInv, Serving,
     SenderTypes, ConnectionTypes, ReceiverTypes
<1>17. CASE ReceiveEof
  BY <1>17, <1>a DEF ReceiveEof, Throw, senderVars, connVars, receiverVars,
     historyVars, ConnectionInv, WaitInv, Agreed, ServerInv, Serving, SenderTypes,
     ConnectionTypes, ReceiverTypes
<1>18. CASE ConfirmYes
  BY <1>18, <1>a DEF ConfirmYes, senderVars, connVars, receiverVars,
     historyVars, ConnectionInv, WaitInv, Agreed, ServerInv, Serving, SenderTypes,
     ConnectionTypes, ReceiverTypes
<1>19. CASE ConfirmNo
  BY <1>19, <1>a, ConstantsAssumption DEF ConfirmNo, Throw, NextConnection,
     senderVars, connVars, receiverVars, historyVars, ConnectionInv, WaitInv, Agreed,
     ServerInv, Serving, SenderTypes, ConnectionTypes, ReceiverTypes,
     ReceiverCloses
<1>20. CASE NameRefused
  BY <1>20, <1>a DEF NameRefused, Throw, senderVars, connVars, receiverVars,
     historyVars, ConnectionInv, WaitInv, Agreed, ServerInv, Serving, SenderTypes,
     ConnectionTypes, ReceiverTypes
<1>21. CASE RemoveStalePart
  BY <1>21, <1>a DEF RemoveStalePart, Throw, senderVars, connVars,
     receiverVars, historyVars, ConnectionInv, WaitInv, Agreed, ServerInv, Serving,
     SenderTypes, ConnectionTypes, ReceiverTypes
<1>22. CASE OpenPart
  BY <1>22, <1>a DEF OpenPart, Throw, senderVars, connVars, receiverVars,
     historyVars, ConnectionInv, WaitInv, Agreed, ServerInv, Serving, SenderTypes,
     ConnectionTypes, ReceiverTypes
<1>23. CASE ReceiveChunk
  BY <1>23, <1>a DEF ReceiveChunk, AllReceived, Throw, ChunkFits, senderVars, connVars,
     receiverVars, historyVars, ConnectionInv, WaitInv, Agreed, ServerInv, Serving,
     SenderTypes, ConnectionTypes, ReceiverTypes
<1>24. CASE ReceiveComplete
  BY <1>24, <1>a DEF ReceiveComplete, AllReceived, Throw, senderVars, connVars,
     receiverVars, historyVars, ConnectionInv, WaitInv, Agreed, ServerInv, Serving,
     SenderTypes, ConnectionTypes, ReceiverTypes
<1>25. CASE ClosePart
  BY <1>25, <1>a DEF ClosePart, senderVars, connVars, receiverVars,
     historyVars, ConnectionInv, WaitInv, Agreed, ServerInv, Serving, SenderTypes,
     ConnectionTypes, ReceiverTypes
<1>26. CASE RemoveOld
  BY <1>26, <1>a DEF RemoveOld, Throw, senderVars, connVars, receiverVars,
     historyVars, ConnectionInv, WaitInv, Agreed, ServerInv, Serving, SenderTypes,
     ConnectionTypes, ReceiverTypes
<1>27. CASE RenamePart
  BY <1>27, <1>a, ConstantsAssumption, SMTT(60) DEF RenamePart, NextConnection,
     senderVars, connVars, receiverVars, historyVars, ConnectionInv, WaitInv, Agreed,
     ServerInv, Serving, SenderTypes, ConnectionTypes, ReceiverTypes,
     ReceiverCloses
<1>28. CASE RenameFails
  BY <1>28, <1>a DEF RenameFails, Throw, senderVars, connVars, receiverVars,
     historyVars, ConnectionInv, WaitInv, Agreed, ServerInv, Serving, SenderTypes,
     ConnectionTypes, ReceiverTypes
<1>29. CASE CleanUp
  BY <1>29, <1>a, ConstantsAssumption DEF CleanUp, NextConnection, senderVars,
     connVars, receiverVars, historyVars, ConnectionInv, WaitInv, Agreed, ServerInv, Serving,
     SenderTypes, ConnectionTypes, ReceiverTypes, ReceiverCloses
<1>30. CASE CleanUpFails
  BY <1>30, <1>a, ConstantsAssumption DEF CleanUpFails, ServerDies,
     senderVars, connVars, receiverVars, historyVars, ConnectionInv, WaitInv, Agreed,
     ServerInv, Serving, SenderTypes, ConnectionTypes, ReceiverTypes, AllClose
<1>31. CASE KillReceiver
  BY <1>31, <1>a, ConstantsAssumption DEF KillReceiver, ServerDies,
     senderVars, connVars, receiverVars, historyVars, ConnectionInv, WaitInv, Agreed,
     ServerInv, Serving, SenderTypes, ConnectionTypes, ReceiverTypes, AllClose
<1>32. CASE StartReceiver
  BY <1>32, <1>a DEF StartReceiver, senderVars, connVars, receiverVars,
     historyVars, ConnectionInv, WaitInv, Agreed, ServerInv, Serving, SenderTypes,
     ConnectionTypes, ReceiverTypes
<1> QED
  BY <1>1, <1>2, <1>3, <1>4, <1>5, <1>6, <1>7, <1>8, <1>9, <1>10, <1>11,
     <1>12, <1>13, <1>14, <1>15, <1>16, <1>17, <1>18, <1>19, <1>20, <1>21,
     <1>22, <1>23, <1>24, <1>25, <1>26, <1>27, <1>28, <1>29, <1>30, <1>31,
     <1>32 DEF Next, SenderStep, ReceiverStep, Confirm, Environment


\* WaitInv holds in every state, whatever fails.
THEOREM WaitInvariance == Spec => [](IInv /\ \A s \in Sender : WaitInv(s))
<1>1. Init => \A s \in Sender : WaitInv(s)
  BY ConstantsAssumption DEF Init, WaitInv
<1>2. IInv /\ (\A s \in Sender : WaitInv(s)) /\ [Next]_vars
         => (\A s \in Sender : WaitInv(s))'
  <2> SUFFICES ASSUME IInv, \A s \in Sender : WaitInv(s), [Next]_vars
               PROVE  \A s \in Sender : WaitInv(s)'
    OBVIOUS
  <2>1. CASE Next
    BY <2>1, WaitInvStep
  <2>2. CASE UNCHANGED vars
    BY <2>2 DEF vars, senderVars, connVars, receiverVars, WaitInv
  <2> QED
    BY <2>1, <2>2
<1> QED
  BY <1>1, <1>2, InitIInv, StepIInv, PTL DEF Spec

\* No two ends of a connection wait for one another, with any number of senders
\* and after any failure: what the runs find by fairness, that reads end, fails
\* for no other reason.
THEOREM SomebodyMoves == Spec => []NoMutualWait
<1>1. ASSUME IInv, \A s \in Sender : WaitInv(s)
      PROVE  NoMutualWait
  <2>1. /\ SenderTypes /\ ConnectionTypes /\ ReceiverTypes /\ ServerInv
        /\ \A s \in Sender : ConnectionInv(s) /\ WaitInv(s)
    BY <1>1 DEF IInv, TypeOK
  <2>2. cur # None => ReceiverMoves \/ SenderMoves(cur)
    <3> SUFFICES ASSUME cur # None, ~ReceiverMoves PROVE SenderMoves(cur)
      OBVIOUS
    <3>1. /\ cur \in Sender /\ rpc \in {"initial", "body"}
          /\ up[cur] = <<>> /\ sEnd[cur]
      BY <2>1 DEF ReceiverMoves, ServerInv, Serving, ReceiverTypes, ReceiverState
    <3>2. WaitInv(cur)
      BY <2>1, <3>1
    <3> QED
      BY <3>1, <3>2 DEF SenderMoves, WaitInv, Agreed
  <2>3. ASSUME NEW s \in Sender, spc[s] = "await", ~SenderMoves(s)
        PROVE  ReceiverMoves \/ (cur # None /\ SenderMoves(cur))
    <3>1. rEnd[s] /\ (s \in backlog \/ s = cur)
      BY <2>1, <2>3 DEF SenderMoves, ConnectionInv
    <3>2. CASE s = cur
      BY <2>2, <2>3, <3>2, ConstantsAssumption
    <3>3. CASE s \in backlog
      <4>1. rpc # "down" /\ backlog # {}
        BY <2>1, <3>3 DEF WaitInv
      <4> QED
        BY <2>1, <2>2, <4>1 DEF ReceiverMoves, ServerInv, Serving
    <3> QED
      BY <3>1, <3>2, <3>3
  <2> QED
    BY <2>2, <2>3 DEF NoMutualWait
<1> QED
  BY <1>1, WaitInvariance, PTL

-----------------------------------------------------------------------------
(* The download directory, and the refinement *)

\* No saved file lies where the receiver keeps its temporary file.
LEMMA SavedNotTemp ==
    ASSUME TypeOK, ServerInv, SavedInv, NamesSeparate, cur \in Sender,
           name[cur] # Illegal
    PROVE  \A p \in Path : saved[p] # None => p # TempPath
  BY DEF TypeOK, SenderTypes, SavedInv, NamesSeparate, TempPath

\* A file is a beginning of itself.
LEMMA WholeBegins ==
    ASSUME SenderTypes, NEW s \in Sender
    PROVE  Whole(s) \in Prefixes(Whole(s))
<1>1. Whole(s) \in Seq(Byte)
  BY BytesFromStart DEF Whole, SenderTypes
<1>2. \A c \in Seq(Byte) : c = SubSeq(c, 1, Len(c)) /\ Len(c) \in 0..Len(c)
  OBVIOUS
<1> QED
  BY <1>1, <1>2 DEF Prefixes

\* Every step keeps the stronger invariant about the saved files.
LEMMA SavedInvStep ==
    ASSUME IInv, SavedInv, Next, NamesSeparate
    PROVE  SavedInv'
<1>a. /\ SenderTypes /\ ConnectionTypes /\ ReceiverTypes /\ DiskTypes /\ TypeOK
      /\ ServerInv /\ ConsentInv /\ PartInv /\ SentInv
      /\ \A s \in Sender : ConnectionInv(s)
  BY DEF IInv, TypeOK
<1>1. ASSUME NEW s \in Sender, RefuseLocally(s)
      PROVE  SavedInv'
  BY <1>1 DEF RefuseLocally, senderVars, connVars, receiverVars, historyVars,
     SavedInv, Stored, Whole, OutPath, TempPath
<1>2. ASSUME NEW s \in Sender, OpenSource(s)
      PROVE  SavedInv'
  <2>1. s # cur /\ \A p \in Path : saved[p] # None => saved[p] # s
    BY <1>2, <1>a DEF OpenSource, ConnectionInv, SentInv, SavedMeansSentWhole, DiskTypes
  <2>2. UNCHANGED <<rpc, cur, name, disk, saved>>
    BY <1>2 DEF OpenSource, receiverVars, historyVars
  <2>3. \A u \in Sender : u # s => Whole(u)' = Whole(u)
    BY <1>2, <1>a DEF OpenSource, Whole, SenderTypes
  <2>4. rpc \in {"removeOld", "rename"} => cur \in Sender
    BY <1>a DEF ServerInv, Serving, ReceiverTypes
  <2> QED
    BY <1>a, <2>1, <2>2, <2>3, <2>4 DEF SavedInv, Stored, OutPath, TempPath, DiskTypes
<1>3. ASSUME NEW s \in Sender, Connect(s)
      PROVE  SavedInv'
  BY <1>3 DEF Connect, senderVars, connVars, receiverVars, historyVars,
     SavedInv, Stored, Whole, OutPath, TempPath
<1>4. ASSUME NEW s \in Sender, ConnectRefused(s)
      PROVE  SavedInv'
  BY <1>4 DEF ConnectRefused, senderVars, connVars, receiverVars, historyVars,
     SavedInv, Stored, Whole, OutPath, TempPath
<1>5. ASSUME NEW s \in Sender, SendRequest(s)
      PROVE  SavedInv'
  BY <1>5 DEF SendRequest, senderVars, connVars, receiverVars, historyVars,
     SavedInv, Stored, Whole, OutPath, TempPath
<1>6. ASSUME NEW s \in Sender, ReceiveResponse(s)
      PROVE  SavedInv'
  BY <1>6 DEF ReceiveResponse, senderVars, connVars, receiverVars,
     historyVars, SavedInv, Stored, Whole, OutPath, TempPath
<1>7. ASSUME NEW s \in Sender, SendChunk(s)
      PROVE  SavedInv'
  BY <1>7 DEF SendChunk, senderVars, connVars, receiverVars, historyVars,
     SavedInv, Stored, Whole, OutPath, TempPath
<1>8. ASSUME NEW s \in Sender, ReachEof(s)
      PROVE  SavedInv'
  BY <1>8 DEF ReachEof, senderVars, connVars, receiverVars, historyVars,
     SavedInv, Stored, Whole, OutPath, TempPath
<1>9. ASSUME NEW s \in Sender, ReadError(s)
      PROVE  SavedInv'
  BY <1>9 DEF ReadError, senderVars, connVars, receiverVars, historyVars,
     SavedInv, Stored, Whole, OutPath, TempPath
<1>10. ASSUME NEW s \in Sender, SendComplete(s)
      PROVE  SavedInv'
  BY <1>10 DEF SendComplete, senderVars, connVars, receiverVars, historyVars,
     SavedInv, Stored, Whole, OutPath, TempPath
<1>11. ASSUME NEW s \in Sender, KillSender(s)
      PROVE  SavedInv'
  BY <1>11 DEF KillSender, senderVars, connVars, receiverVars, historyVars,
     SavedInv, Stored, Whole, OutPath, TempPath
<1>12. ASSUME NEW s \in Sender, ResetConnection(s)
      PROVE  SavedInv'
  BY <1>12 DEF ResetConnection, senderVars, connVars, receiverVars,
     historyVars, SavedInv, Stored, Whole, OutPath, TempPath
<1>13. ASSUME NEW s \in Sender, ResizeSource(s)
      PROVE  SavedInv'
  BY <1>13 DEF ResizeSource, senderVars, connVars, receiverVars, historyVars,
     SavedInv, Stored, Whole, OutPath, TempPath
<1>14. CASE Accept
  BY <1>14 DEF Accept, senderVars, connVars, receiverVars, historyVars,
     SavedInv, Stored, Whole, OutPath, TempPath
<1>15. CASE AcceptFails
  BY <1>15 DEF AcceptFails, ServerDies, senderVars, connVars, receiverVars,
     historyVars, SavedInv, Stored, Whole, OutPath, TempPath, ServerDies
<1>16. CASE ReceiveRequest
  BY <1>16 DEF ReceiveRequest, RequestAllowed, Throw, senderVars, connVars,
     receiverVars, historyVars, SavedInv, Stored, Whole, OutPath,
     TempPath
<1>17. CASE ReceiveEof
  BY <1>17 DEF ReceiveEof, Throw, senderVars, connVars, receiverVars,
     historyVars, SavedInv, Stored, Whole, OutPath, TempPath
<1>18. CASE ConfirmYes
  BY <1>18 DEF ConfirmYes, senderVars, connVars, receiverVars, historyVars,
     SavedInv, Stored, Whole, OutPath, TempPath
<1>19. CASE ConfirmNo
  BY <1>19 DEF ConfirmNo, Throw, NextConnection, senderVars, connVars,
     receiverVars, historyVars, SavedInv, Stored, Whole, OutPath,
     TempPath
<1>20. CASE NameRefused
  BY <1>20 DEF NameRefused, Throw, senderVars, connVars, receiverVars,
     historyVars, SavedInv, Stored, Whole, OutPath, TempPath
<1>21. CASE RemoveStalePart
  <2>1. cur \in Sender /\ name[cur] # Illegal /\ TempPath \in Path
    BY <1>21, <1>a, PathFacts
       DEF RemoveStalePart, ServerInv, Serving, SenderTypes, ReceiverTypes, TempPath
  <2>2. \A p \in Path : saved[p] # None => p # TempPath
    BY <1>a, <2>1, SavedNotTemp
  <2>3. UNCHANGED <<declared, name, saved>>
    BY <1>21 DEF RemoveStalePart, senderVars, historyVars
  <2>4. \A p \in Path : p # TempPath => disk'[p] = disk[p]
    BY <1>21, <1>a, <2>1 DEF RemoveStalePart, DiskTypes
  <2>5. rpc' \notin {"removeOld", "rename"}
    BY <1>21 DEF RemoveStalePart, Throw, NextConnection
  <2> QED
    BY <2>2, <2>3, <2>4, <2>5 DEF SavedInv, Stored, Whole
<1>22. CASE OpenPart
  <2>1. cur \in Sender /\ name[cur] # Illegal /\ TempPath \in Path
    BY <1>22, <1>a, PathFacts
       DEF OpenPart, ServerInv, Serving, SenderTypes, ReceiverTypes, TempPath
  <2>2. \A p \in Path : saved[p] # None => p # TempPath
    BY <1>a, <2>1, SavedNotTemp
  <2>3. UNCHANGED <<declared, name, saved>>
    BY <1>22 DEF OpenPart, senderVars, historyVars
  <2>4. \A p \in Path : p # TempPath => disk'[p] = disk[p]
    BY <1>22, <1>a, <2>1 DEF OpenPart, DiskTypes
  <2>5. rpc' \notin {"removeOld", "rename"}
    BY <1>22 DEF OpenPart, Throw, NextConnection
  <2> QED
    BY <2>2, <2>3, <2>4, <2>5 DEF SavedInv, Stored, Whole
<1>23. CASE ReceiveChunk
  <2>1. cur \in Sender /\ name[cur] # Illegal /\ TempPath \in Path
    BY <1>23, <1>a, PathFacts
       DEF ReceiveChunk, AllReceived, ServerInv, Serving, SenderTypes, ReceiverTypes, TempPath
  <2>2. \A p \in Path : saved[p] # None => p # TempPath
    BY <1>a, <2>1, SavedNotTemp
  <2>3. UNCHANGED <<declared, name, saved>>
    BY <1>23 DEF ReceiveChunk, AllReceived, senderVars, historyVars
  <2>4. \A p \in Path : p # TempPath => disk'[p] = disk[p]
    BY <1>23, <1>a, <2>1 DEF ReceiveChunk, AllReceived, DiskTypes
  <2>5. rpc' \notin {"removeOld", "rename"}
    BY <1>23 DEF ReceiveChunk, AllReceived, Throw, NextConnection
  <2> QED
    BY <2>2, <2>3, <2>4, <2>5 DEF SavedInv, Stored, Whole
<1>24. CASE ReceiveComplete
  BY <1>24 DEF ReceiveComplete, AllReceived, Throw, senderVars, connVars, receiverVars,
     historyVars, SavedInv, Stored, Whole, OutPath, TempPath
<1>25. CASE ClosePart
  <2>1. /\ UNCHANGED <<declared, name, saved, cur>> /\ rpc' = "removeOld"
    BY <1>25 DEF ClosePart, senderVars, historyVars
  <2>2. /\ rpc = "close" /\ remaining = 0 /\ cur \in Sender /\ name[cur] # Illegal
        /\ TempPath \in Path
    BY <1>25, <1>a, PathFacts
    DEF ClosePart, ServerInv, Serving, SenderTypes, ReceiverTypes, Complete, TempPath
  <2>3. disk[TempPath] = Whole(cur)
    BY <1>a, <2>2 DEF PartInv, Writing, Whole, SenderTypes
  <2>4. Whole(cur) \in Prefixes(Whole(cur))
    BY <1>a, <2>2, WholeBegins
  <2>5. /\ disk'[TempPath] \in Stored(cur)
        /\ \A q \in Path : q # TempPath => disk'[q] = disk[q]
    BY <1>25, <1>a, <2>2, <2>3, <2>4 DEF ClosePart, Stored, DiskTypes
  <2>6. \A q \in Path : saved[q] # None => q # TempPath
    BY <1>a, <2>2, SavedNotTemp
  <2> QED
    BY <2>1, <2>5, <2>6 DEF SavedInv, Stored, Whole, TempPath
<1>26. CASE RemoveOld
  <2>1. /\ rpc = "removeOld" /\ cur \in Sender /\ OutPath \in Path /\ TempPath \in Path
        /\ OutPath # TempPath
    BY <1>26, <1>a, ServedPaths DEF RemoveOld
  <2>2. UNCHANGED <<declared, name, cur>>
    BY <1>26 DEF RemoveOld, senderVars
  <2>3. CASE rpc' = "rename"
    <3>1. /\ disk' = [disk EXCEPT ![OutPath] = Absent]
          /\ saved' = [saved EXCEPT ![OutPath] = None]
      BY <1>26, <2>3 DEF RemoveOld, Throw
    <3>2. disk'[TempPath] \in Stored(cur)
      BY <1>a, <2>1, <3>1 DEF SavedInv, DiskTypes
    <3>3. disk'[OutPath] = Absent /\ saved'[OutPath] = None
      BY <1>a, <2>1, <3>1 DEF DiskTypes
    <3>4. \A p \in Path : saved'[p] # None => disk'[p] = disk[p] /\ saved'[p] = saved[p]
      BY <1>a, <2>1, <3>1 DEF DiskTypes
    <3> QED
      BY <2>2, <3>2, <3>3, <3>4 DEF SavedInv, Stored, Whole, OutPath, TempPath
  <2>4. CASE rpc' = "catch"
    <3>1. UNCHANGED <<disk, saved>>
      BY <1>26, <2>4 DEF RemoveOld
    <3> QED
      BY <2>2, <2>4, <3>1 DEF SavedInv, Stored, Whole
  <2> QED
    BY <1>26, <2>3, <2>4 DEF RemoveOld, Throw
<1>27. CASE RenamePart
  <2>1. /\ rpc = "rename" /\ cur \in Sender /\ OutPath \in Path /\ TempPath \in Path
        /\ OutPath # TempPath /\ OutPath \in FileName \ {Illegal}
    BY <1>27, <1>a, ServedPaths DEF RenamePart, OutPath
  <2>2. \A p \in Path : saved[p] # None => p # TempPath
    BY <1>a, <2>1, SavedNotTemp DEF OutPath
  <2>3. /\ disk' = [disk EXCEPT ![OutPath] = disk[TempPath], ![TempPath] = Absent]
        /\ saved' = [saved EXCEPT ![OutPath] = cur]
        /\ rpc' = "accept" /\ UNCHANGED <<declared, name>>
    BY <1>27 DEF RenamePart, NextConnection, senderVars
  <2>4. disk'[OutPath] \in Stored(cur) /\ saved'[OutPath] = cur
    BY <1>a, <2>1, <2>3 DEF SavedInv, DiskTypes
  <2>5. ASSUME NEW p \in Path, p # OutPath, saved'[p] # None
        PROVE  disk'[p] = disk[p] /\ saved'[p] = saved[p]
    BY <1>a, <2>1, <2>2, <2>3, <2>5 DEF DiskTypes
  <2> QED
    BY <2>1, <2>3, <2>4, <2>5 DEF SavedInv, Stored, Whole
<1>28. CASE RenameFails
  BY <1>28 DEF RenameFails, Throw, senderVars, connVars, receiverVars,
     historyVars, SavedInv, Stored, Whole, OutPath, TempPath
<1>29. CASE CleanUp
  <2>1. CASE cleanup
    <3>1. cur \in Sender /\ name[cur] # Illegal /\ TempPath \in Path
      BY <1>29, <1>a, <2>1, PathFacts
         DEF CleanUp, ServerInv, Serving, SenderTypes, ReceiverTypes, TempPath
    <3>2. \A p \in Path : saved[p] # None => p # TempPath
      BY <1>a, <3>1, SavedNotTemp
    <3>3. UNCHANGED <<declared, name, saved>>
      BY <1>29 DEF CleanUp, senderVars, historyVars
    <3>4. \A p \in Path : p # TempPath => disk'[p] = disk[p]
      BY <1>29, <1>a, <3>1 DEF CleanUp, DiskTypes
    <3> QED
      BY <1>29, <3>2, <3>3, <3>4 DEF CleanUp, NextConnection, SavedInv, Stored, Whole
  <2>2. CASE ~cleanup
    <3>1. UNCHANGED <<declared, name, saved, disk>> /\ rpc' = "accept"
      BY <1>29, <2>2 DEF CleanUp, NextConnection, senderVars, historyVars
    <3> QED
      BY <3>1 DEF SavedInv, Stored, Whole
  <2> QED
    BY <2>1, <2>2
<1>30. CASE CleanUpFails
  BY <1>30 DEF CleanUpFails, ServerDies, senderVars, connVars, receiverVars,
     historyVars, SavedInv, Stored, Whole, OutPath, TempPath, ServerDies
<1>31. CASE KillReceiver
  <2>1. UNCHANGED <<declared, name, saved>> /\ rpc' = "down"
    BY <1>31 DEF KillReceiver, ServerDies, senderVars, historyVars
  <2>2. CASE rpc \in Writing
    <3>1. cur \in Sender /\ name[cur] # Illegal /\ TempPath \in Path
      BY <1>a, <2>2, ServedPaths DEF ServerInv, Writing
    <3>2. \A p \in Path : saved[p] # None => p # TempPath
      BY <1>a, <3>1, SavedNotTemp
    <3>3. \A p \in Path : p # TempPath => disk'[p] = disk[p]
      BY <1>31, <1>a, <2>2, <3>1 DEF KillReceiver, DiskTypes
    <3> QED
      BY <2>1, <3>2, <3>3 DEF SavedInv, Stored, Whole
  <2>3. CASE rpc \notin Writing
    BY <1>31, <2>1, <2>3 DEF KillReceiver, SavedInv, Stored, Whole
  <2> QED
    BY <2>2, <2>3
<1>32. CASE StartReceiver
  BY <1>32 DEF StartReceiver, senderVars, connVars, receiverVars, historyVars,
     SavedInv, Stored, Whole, OutPath, TempPath
<1> QED
  BY <1>1, <1>2, <1>3, <1>4, <1>5, <1>6, <1>7, <1>8, <1>9, <1>10, <1>11,
     <1>12, <1>13, <1>14, <1>15, <1>16, <1>17, <1>18, <1>19, <1>20, <1>21,
     <1>22, <1>23, <1>24, <1>25, <1>26, <1>27, <1>28, <1>29, <1>30, <1>31,
     <1>32 DEF Next, SenderStep, ReceiverStep, Confirm, Environment

\* The stronger invariant holds at first.
LEMMA InitSavedInv == Init => SavedInv
  BY DEF Init, SavedInv

\* A stuttering step keeps the stronger invariant.
LEMMA StutterSavedInv ==
    ASSUME SavedInv, UNCHANGED vars
    PROVE  SavedInv'
  BY DEF SavedInv, Stored, Whole, OutPath, TempPath, vars, senderVars,
     receiverVars, historyVars

\* The invariant of the runs in which no name is another's temporary path.
THEOREM SavedInvariance ==
    ASSUME NamesSeparate
    PROVE  Spec => [](IInv /\ SavedInv)
<1>1. Init => IInv /\ SavedInv
  BY InitIInv, InitSavedInv
<1>2. IInv /\ SavedInv /\ [Next]_vars => (IInv /\ SavedInv)'
  <2> SUFFICES ASSUME IInv, SavedInv, [Next]_vars PROVE (IInv /\ SavedInv)'
    OBVIOUS
  <2>1. IInv'
    BY StepIInv
  <2>2. CASE Next
    BY <2>1, <2>2, SavedInvStep
  <2>3. CASE UNCHANGED vars
    BY <2>1, <2>3, StutterSavedInv
  <2> QED
    BY <2>2, <2>3
<1> QED
  BY <1>1, <1>2, PTL DEF Spec

\* When no close() fails, what is stored is the whole file.
LEMMA StoredWhole ==
    ASSUME SavedInv, "close" \notin Fault
    PROVE  /\ SavedIntact
           /\ rpc \in {"removeOld", "rename"} => disk[TempPath] = Whole(cur)
  BY DEF SavedInv, SavedIntact, Stored

\* What the receiver reported saved is at least a beginning of the sender's
\* file, also when the last flush has failed and nobody noticed.
THEOREM SavedIsABeginning ==
    ASSUME NamesSeparate
    PROVE  Spec => []SavedBegins
<1>1. IInv /\ SavedInv => SavedBegins
  <2> SUFFICES ASSUME IInv, SavedInv, NEW p \in Path, saved[p] # None
               PROVE  disk[p] \in Prefixes(Whole(saved[p]))
    BY DEF SavedBegins
  <2>1. SenderTypes /\ saved[p] \in Sender /\ disk[p] \in Stored(saved[p])
    BY DEF IInv, TypeOK, DiskTypes, SavedInv
  <2> QED
    BY <2>1, WholeBegins DEF Stored
<1> QED
  BY <1>1, SavedInvariance, PTL

\* What the receiver reported saved stays on the disk, whole and in order,
\* when no final flush fails and no name is another's temporary path.
THEOREM SavedStaysIntact ==
    ASSUME NamesSeparate, "close" \notin Fault
    PROVE  Spec => []SavedIntact
<1>1. IInv /\ SavedInv => SavedIntact
  BY StoredWhole
<1> QED
  BY <1>1, SavedInvariance, PTL

\* The old file is never removed before the new one is complete.
THEOREM ReplacementIsReady ==
    ASSUME NamesSeparate, "close" \notin Fault
    PROVE  Spec => []ReplacementReady
<1>1. IInv /\ SavedInv => ReplacementReady
  BY StoredWhole DEF ReplacementReady
<1> QED
  BY <1>1, SavedInvariance, PTL

\* Consent once given to a request is about that request for ever.
LEMMA AllowedStays ==
    ASSUME IInv, Next, NEW u \in Sender, Allowed(u)
    PROVE  Allowed(u)'
<1>a. /\ SenderTypes /\ DiskTypes /\ ConsentInv
  BY DEF IInv, TypeOK
<1>1. ASSUME NEW s \in Sender, RefuseLocally(s)
      PROVE  Allowed(u)'
  BY <1>1, <1>a DEF RefuseLocally, senderVars, connVars, receiverVars,
     historyVars, Allowed, SenderTypes, DiskTypes
<1>2. ASSUME NEW s \in Sender, OpenSource(s)
      PROVE  Allowed(u)'
  BY <1>2, <1>a DEF OpenSource, senderVars, connVars, receiverVars,
     historyVars, Allowed, SenderTypes, DiskTypes, ConsentInv
<1>3. ASSUME NEW s \in Sender, Connect(s)
      PROVE  Allowed(u)'
  BY <1>3, <1>a DEF Connect, senderVars, connVars, receiverVars, historyVars,
     Allowed, SenderTypes, DiskTypes
<1>4. ASSUME NEW s \in Sender, ConnectRefused(s)
      PROVE  Allowed(u)'
  BY <1>4, <1>a DEF ConnectRefused, senderVars, connVars, receiverVars,
     historyVars, Allowed, SenderTypes, DiskTypes
<1>5. ASSUME NEW s \in Sender, SendRequest(s)
      PROVE  Allowed(u)'
  BY <1>5, <1>a DEF SendRequest, senderVars, connVars, receiverVars,
     historyVars, Allowed, SenderTypes, DiskTypes
<1>6. ASSUME NEW s \in Sender, ReceiveResponse(s)
      PROVE  Allowed(u)'
  BY <1>6, <1>a DEF ReceiveResponse, senderVars, connVars, receiverVars,
     historyVars, Allowed, SenderTypes, DiskTypes
<1>7. ASSUME NEW s \in Sender, SendChunk(s)
      PROVE  Allowed(u)'
  BY <1>7, <1>a DEF SendChunk, senderVars, connVars, receiverVars,
     historyVars, Allowed, SenderTypes, DiskTypes
<1>8. ASSUME NEW s \in Sender, ReachEof(s)
      PROVE  Allowed(u)'
  BY <1>8, <1>a DEF ReachEof, senderVars, connVars, receiverVars, historyVars,
     Allowed, SenderTypes, DiskTypes
<1>9. ASSUME NEW s \in Sender, ReadError(s)
      PROVE  Allowed(u)'
  BY <1>9, <1>a DEF ReadError, senderVars, connVars, receiverVars,
     historyVars, Allowed, SenderTypes, DiskTypes
<1>10. ASSUME NEW s \in Sender, SendComplete(s)
      PROVE  Allowed(u)'
  BY <1>10, <1>a DEF SendComplete, senderVars, connVars, receiverVars,
     historyVars, Allowed, SenderTypes, DiskTypes
<1>11. ASSUME NEW s \in Sender, KillSender(s)
      PROVE  Allowed(u)'
  BY <1>11, <1>a DEF KillSender, senderVars, connVars, receiverVars,
     historyVars, Allowed, SenderTypes, DiskTypes
<1>12. ASSUME NEW s \in Sender, ResetConnection(s)
      PROVE  Allowed(u)'
  BY <1>12, <1>a DEF ResetConnection, senderVars, connVars, receiverVars,
     historyVars, Allowed, SenderTypes, DiskTypes
<1>13. ASSUME NEW s \in Sender, ResizeSource(s)
      PROVE  Allowed(u)'
  BY <1>13, <1>a DEF ResizeSource, senderVars, connVars, receiverVars,
     historyVars, Allowed, SenderTypes, DiskTypes
<1>14. CASE Accept
  BY <1>14, <1>a DEF Accept, senderVars, connVars, receiverVars, historyVars,
     Allowed, SenderTypes, DiskTypes
<1>15. CASE AcceptFails
  BY <1>15, <1>a DEF AcceptFails, ServerDies, senderVars, connVars,
     receiverVars, historyVars, Allowed, SenderTypes, DiskTypes
<1>16. CASE ReceiveRequest
  BY <1>16, <1>a DEF ReceiveRequest, RequestAllowed, Throw, senderVars,
     connVars, receiverVars, historyVars, Allowed, SenderTypes, DiskTypes
<1>17. CASE ReceiveEof
  BY <1>17, <1>a DEF ReceiveEof, Throw, senderVars, connVars, receiverVars,
     historyVars, Allowed, SenderTypes, DiskTypes
<1>18. CASE ConfirmYes
  BY <1>18, <1>a DEF ConfirmYes, senderVars, connVars, receiverVars,
     historyVars, Allowed, SenderTypes, DiskTypes
<1>19. CASE ConfirmNo
  BY <1>19, <1>a DEF ConfirmNo, Throw, NextConnection, senderVars, connVars,
     receiverVars, historyVars, Allowed, SenderTypes, DiskTypes
<1>20. CASE NameRefused
  BY <1>20, <1>a DEF NameRefused, Throw, senderVars, connVars, receiverVars,
     historyVars, Allowed, SenderTypes, DiskTypes
<1>21. CASE RemoveStalePart
  BY <1>21, <1>a DEF RemoveStalePart, Throw, senderVars, connVars,
     receiverVars, historyVars, Allowed, SenderTypes, DiskTypes
<1>22. CASE OpenPart
  BY <1>22, <1>a DEF OpenPart, Throw, senderVars, connVars, receiverVars,
     historyVars, Allowed, SenderTypes, DiskTypes
<1>23. CASE ReceiveChunk
  BY <1>23, <1>a DEF ReceiveChunk, AllReceived, Throw, ChunkFits, senderVars, connVars,
     receiverVars, historyVars, Allowed, SenderTypes, DiskTypes
<1>24. CASE ReceiveComplete
  BY <1>24, <1>a DEF ReceiveComplete, AllReceived, Throw, senderVars, connVars,
     receiverVars, historyVars, Allowed, SenderTypes, DiskTypes
<1>25. CASE ClosePart
  BY <1>25, <1>a DEF ClosePart, senderVars, connVars, receiverVars,
     historyVars, Allowed, SenderTypes, DiskTypes
<1>26. CASE RemoveOld
  BY <1>26, <1>a DEF RemoveOld, Throw, senderVars, connVars, receiverVars,
     historyVars, Allowed, SenderTypes, DiskTypes
<1>27. CASE RenamePart
  BY <1>27, <1>a DEF RenamePart, NextConnection, senderVars, connVars,
     receiverVars, historyVars, Allowed, SenderTypes, DiskTypes
<1>28. CASE RenameFails
  BY <1>28, <1>a DEF RenameFails, Throw, senderVars, connVars, receiverVars,
     historyVars, Allowed, SenderTypes, DiskTypes
<1>29. CASE CleanUp
  BY <1>29, <1>a DEF CleanUp, NextConnection, senderVars, connVars,
     receiverVars, historyVars, Allowed, SenderTypes, DiskTypes
<1>30. CASE CleanUpFails
  BY <1>30, <1>a DEF CleanUpFails, ServerDies, senderVars, connVars,
     receiverVars, historyVars, Allowed, SenderTypes, DiskTypes
<1>31. CASE KillReceiver
  BY <1>31, <1>a DEF KillReceiver, ServerDies, senderVars, connVars,
     receiverVars, historyVars, Allowed, SenderTypes, DiskTypes
<1>32. CASE StartReceiver
  BY <1>32, <1>a DEF StartReceiver, senderVars, connVars, receiverVars,
     historyVars, Allowed, SenderTypes, DiskTypes
<1> QED
  BY <1>1, <1>2, <1>3, <1>4, <1>5, <1>6, <1>7, <1>8, <1>9, <1>10, <1>11,
     <1>12, <1>13, <1>14, <1>15, <1>16, <1>17, <1>18, <1>19, <1>20, <1>21,
     <1>22, <1>23, <1>24, <1>25, <1>26, <1>27, <1>28, <1>29, <1>30, <1>31,
     <1>32 DEF Next, SenderStep, ReceiverStep, Confirm, Environment

\* Contents of which every byte is allowed: what the steps make of them.
LEMMA AllowedContents ==
    ASSUME NEW c \in Seq(Byte), \A i \in DOMAIN c : Allowed(c[i][1])
    PROVE  /\ \A d \in Prefixes(c) : \A i \in DOMAIN d : Allowed(d[i][1])
           /\ \A s \in Sender, lo, hi \in Nat : lo <= hi /\ Allowed(s) =>
                 LET e == c \o Bytes(s, lo, hi) IN
                 \A i \in DOMAIN e : Allowed(e[i][1])
<1>1. ASSUME NEW d \in Prefixes(c), NEW i \in DOMAIN d
      PROVE  Allowed(d[i][1])
  <2>1. PICK k \in 0..Len(c) : d = SubSeq(c, 1, k)
    BY DEF Prefixes
  <2>2. i \in 1..k /\ d[i] = c[i] /\ i \in DOMAIN c
    BY <2>1
  <2> QED
    BY <2>2
<1>2. ASSUME NEW s \in Sender, NEW lo \in Nat, NEW hi \in Nat, lo <= hi, Allowed(s),
             NEW i \in DOMAIN (c \o Bytes(s, lo, hi))
      PROVE  Allowed((c \o Bytes(s, lo, hi))[i][1])
  <2> DEFINE b == Bytes(s, lo, hi)
  <2>1. b \in Seq(Byte) /\ Len(b) = hi - lo
    BY <1>2, BytesType
  <2>2. i \in 1..(Len(c) + Len(b))
    BY <2>1
  <2>3. CASE i <= Len(c)
    <3>1. (c \o b)[i] = c[i] /\ i \in DOMAIN c
      BY <2>1, <2>2, <2>3
    <3> QED
      BY <3>1
  <2>4. CASE i > Len(c)
    <3>1. (c \o b)[i] = b[i - Len(c)] /\ i - Len(c) \in 1..(hi - lo)
      BY <2>1, <2>2, <2>4
    <3>2. b[i - Len(c)] = <<s, lo + (i - Len(c))>>
      BY <3>1 DEF Bytes
    <3>3. b[i - Len(c)][1] = s
      BY <3>2
    <3> QED
      BY <1>2, <3>1, <3>3
  <2>5. i <= Len(c) \/ i > Len(c)
    BY <2>2
  <2> QED
    BY <2>3, <2>4, <2>5, Zenon
<1> QED
  BY <1>1, <1>2

\* What the temporary file holds while it is written.
LEMMA PartAllowed ==
    ASSUME IInv, OnlyConsented, rpc \in Writing
    PROVE  /\ cur \in Sender /\ TempPath \in Path /\ disk[TempPath] \in Seq(Byte)
           /\ \A i \in DOMAIN disk[TempPath] : Allowed(disk[TempPath][i][1])
<1>1. cur \in Sender /\ TempPath \in Path
  BY ServedPaths DEF IInv, Writing
<1>2. declared[cur] - remaining \in Nat
  BY <1>1 DEF IInv, TypeOK, ServerInv, SenderTypes, ReceiverTypes
<1>3. disk[TempPath] \in Seq(Byte)
  BY <1>1, <1>2, BytesFromStart DEF IInv, PartInv
<1>4. disk[TempPath] # Absent
  BY <1>3, ConstantsAssumption
<1> QED
  BY <1>1, <1>3, <1>4 DEF OnlyConsented

\* Every step that writes the disk writes bytes of requests agreed to.
LEMMA AllowedWrites ==
    ASSUME IInv, OnlyConsented, Next, NEW p \in Path, disk'[p] # Absent
    PROVE  \A i \in DOMAIN disk'[p] : Allowed(disk'[p][i][1])
<1>a. /\ SenderTypes /\ ConnectionTypes /\ ReceiverTypes /\ DiskTypes /\ TypeOK
      /\ ServerInv /\ ConsentInv /\ PartInv
  BY DEF IInv, TypeOK
<1>1. ASSUME NEW s \in Sender, RefuseLocally(s)
      PROVE  \A i \in DOMAIN disk'[p] : Allowed(disk'[p][i][1])
  BY <1>1, <1>a DEF RefuseLocally, senderVars, connVars, receiverVars,
     historyVars, OnlyConsented
<1>2. ASSUME NEW s \in Sender, OpenSource(s)
      PROVE  \A i \in DOMAIN disk'[p] : Allowed(disk'[p][i][1])
  BY <1>2, <1>a DEF OpenSource, senderVars, connVars, receiverVars,
     historyVars, OnlyConsented
<1>3. ASSUME NEW s \in Sender, Connect(s)
      PROVE  \A i \in DOMAIN disk'[p] : Allowed(disk'[p][i][1])
  BY <1>3, <1>a DEF Connect, senderVars, connVars, receiverVars, historyVars,
     OnlyConsented
<1>4. ASSUME NEW s \in Sender, ConnectRefused(s)
      PROVE  \A i \in DOMAIN disk'[p] : Allowed(disk'[p][i][1])
  BY <1>4, <1>a DEF ConnectRefused, senderVars, connVars, receiverVars,
     historyVars, OnlyConsented
<1>5. ASSUME NEW s \in Sender, SendRequest(s)
      PROVE  \A i \in DOMAIN disk'[p] : Allowed(disk'[p][i][1])
  BY <1>5, <1>a DEF SendRequest, senderVars, connVars, receiverVars,
     historyVars, OnlyConsented
<1>6. ASSUME NEW s \in Sender, ReceiveResponse(s)
      PROVE  \A i \in DOMAIN disk'[p] : Allowed(disk'[p][i][1])
  BY <1>6, <1>a DEF ReceiveResponse, senderVars, connVars, receiverVars,
     historyVars, OnlyConsented
<1>7. ASSUME NEW s \in Sender, SendChunk(s)
      PROVE  \A i \in DOMAIN disk'[p] : Allowed(disk'[p][i][1])
  BY <1>7, <1>a DEF SendChunk, senderVars, connVars, receiverVars,
     historyVars, OnlyConsented
<1>8. ASSUME NEW s \in Sender, ReachEof(s)
      PROVE  \A i \in DOMAIN disk'[p] : Allowed(disk'[p][i][1])
  BY <1>8, <1>a DEF ReachEof, senderVars, connVars, receiverVars, historyVars,
     OnlyConsented
<1>9. ASSUME NEW s \in Sender, ReadError(s)
      PROVE  \A i \in DOMAIN disk'[p] : Allowed(disk'[p][i][1])
  BY <1>9, <1>a DEF ReadError, senderVars, connVars, receiverVars,
     historyVars, OnlyConsented
<1>10. ASSUME NEW s \in Sender, SendComplete(s)
      PROVE  \A i \in DOMAIN disk'[p] : Allowed(disk'[p][i][1])
  BY <1>10, <1>a DEF SendComplete, senderVars, connVars, receiverVars,
     historyVars, OnlyConsented
<1>11. ASSUME NEW s \in Sender, KillSender(s)
      PROVE  \A i \in DOMAIN disk'[p] : Allowed(disk'[p][i][1])
  BY <1>11, <1>a DEF KillSender, senderVars, connVars, receiverVars,
     historyVars, OnlyConsented
<1>12. ASSUME NEW s \in Sender, ResetConnection(s)
      PROVE  \A i \in DOMAIN disk'[p] : Allowed(disk'[p][i][1])
  BY <1>12, <1>a DEF ResetConnection, senderVars, connVars, receiverVars,
     historyVars, OnlyConsented
<1>13. ASSUME NEW s \in Sender, ResizeSource(s)
      PROVE  \A i \in DOMAIN disk'[p] : Allowed(disk'[p][i][1])
  BY <1>13, <1>a DEF ResizeSource, senderVars, connVars, receiverVars,
     historyVars, OnlyConsented
<1>14. CASE Accept
  BY <1>14, <1>a DEF Accept, senderVars, connVars, receiverVars, historyVars,
     OnlyConsented
<1>15. CASE AcceptFails
  BY <1>15, <1>a DEF AcceptFails, ServerDies, senderVars, connVars,
     receiverVars, historyVars, OnlyConsented
<1>16. CASE ReceiveRequest
  BY <1>16, <1>a DEF ReceiveRequest, RequestAllowed, Throw, senderVars,
     connVars, receiverVars, historyVars, OnlyConsented
<1>17. CASE ReceiveEof
  BY <1>17, <1>a DEF ReceiveEof, Throw, senderVars, connVars, receiverVars,
     historyVars, OnlyConsented
<1>18. CASE ConfirmYes
  BY <1>18, <1>a DEF ConfirmYes, senderVars, connVars, receiverVars,
     historyVars, OnlyConsented
<1>19. CASE ConfirmNo
  BY <1>19, <1>a DEF ConfirmNo, Throw, NextConnection, senderVars, connVars,
     receiverVars, historyVars, OnlyConsented
<1>20. CASE NameRefused
  BY <1>20, <1>a DEF NameRefused, Throw, senderVars, connVars, receiverVars,
     historyVars, OnlyConsented
<1>21. CASE RemoveStalePart
  <2>1. disk'[p] = disk[p] \/ disk'[p] = Absent
    BY <1>21, <1>a DEF RemoveStalePart, DiskTypes
  <2> QED
    BY <1>a, <2>1 DEF OnlyConsented
<1>22. CASE OpenPart
  <2>1. disk'[p] = disk[p] \/ disk'[p] = Absent \/ disk'[p] = <<>>
    BY <1>22, <1>a DEF OpenPart, DiskTypes
  <2> QED
    BY <1>a, <2>1 DEF OnlyConsented
<1>23. CASE ReceiveChunk
  <2>1. rpc = "body" /\ up[cur] # <<>> /\ rpc \in Writing
    BY <1>23 DEF ReceiveChunk, AllReceived, Writing
  <2> DEFINE f == up[cur][1]
  <2>2. /\ cur \in Sender /\ f = Head(up[cur]) /\ f.lo \in Nat /\ f.hi \in Nat
        /\ f.lo <= f.hi
    BY <2>1, NextChunk
  <2> HIDE DEF f
  <2>3. /\ TempPath \in Path /\ disk[TempPath] \in Seq(Byte)
        /\ \A i \in DOMAIN disk[TempPath] : Allowed(disk[TempPath][i][1])
    BY <2>1, PartAllowed
  <2>4. Allowed(cur)
    BY <1>a, <2>1 DEF ConsentInv, Agreed, Allowed
  <2> DEFINE e == disk[TempPath] \o Bytes(cur, f.lo, f.hi)
  <2>5. \A i \in DOMAIN e : Allowed(e[i][1])
    BY <2>2, <2>3, <2>4, AllowedContents
  <2>6. disk'[p] = disk[p] \/ disk'[p] = e
    BY <1>23, <1>a, <2>2 DEF ReceiveChunk, AllReceived, DiskTypes
  <2> HIDE DEF e
  <2> QED
    BY <2>5, <2>6 DEF OnlyConsented
<1>24. CASE ReceiveComplete
  BY <1>24, <1>a DEF ReceiveComplete, AllReceived, Throw, senderVars, connVars,
     receiverVars, historyVars, OnlyConsented
<1>25. CASE ClosePart
  <2>1. rpc \in Writing
    BY <1>25 DEF ClosePart, Writing
  <2>2. /\ disk[TempPath] \in Seq(Byte)
        /\ \A i \in DOMAIN disk[TempPath] : Allowed(disk[TempPath][i][1])
    BY <2>1, PartAllowed
  <2>3. disk'[p] = disk[p] \/ disk'[p] \in Prefixes(disk[TempPath])
    BY <1>25, <1>a DEF ClosePart, DiskTypes
  <2>4. \A d \in Prefixes(disk[TempPath]) : \A i \in DOMAIN d : Allowed(d[i][1])
    BY <2>2, AllowedContents
  <2> QED
    BY <2>3, <2>4 DEF OnlyConsented
<1>26. CASE RemoveOld
  <2>1. disk'[p] = disk[p] \/ disk'[p] = Absent
    BY <1>26, <1>a DEF RemoveOld, DiskTypes
  <2> QED
    BY <1>a, <2>1 DEF OnlyConsented
<1>27. CASE RenamePart
  <2>1. TempPath \in Path
    BY <1>27, <1>a, ServedPaths DEF RenamePart
  <2>2. disk'[p] \in {disk[p], disk[TempPath], Absent}
    BY <1>27, <1>a, <2>1 DEF RenamePart, DiskTypes
  <2> QED
    BY <1>a, <2>1, <2>2 DEF OnlyConsented
<1>28. CASE RenameFails
  BY <1>28, <1>a DEF RenameFails, Throw, senderVars, connVars, receiverVars,
     historyVars, OnlyConsented
<1>29. CASE CleanUp
  <2>1. disk'[p] = disk[p] \/ disk'[p] = Absent
    BY <1>29, <1>a DEF CleanUp, DiskTypes
  <2> QED
    BY <1>a, <2>1 DEF OnlyConsented
<1>30. CASE CleanUpFails
  BY <1>30, <1>a DEF CleanUpFails, ServerDies, senderVars, connVars,
     receiverVars, historyVars, OnlyConsented
<1>31. CASE KillReceiver
  <2>2. rpc \in Writing =>
        /\ disk[TempPath] \in Seq(Byte)
        /\ \A i \in DOMAIN disk[TempPath] : Allowed(disk[TempPath][i][1])
    BY PartAllowed
  <2>3. disk'[p] = disk[p] \/ (rpc \in Writing /\ disk'[p] \in Prefixes(disk[TempPath]))
    BY <1>31, <1>a DEF KillReceiver, DiskTypes
  <2>4. rpc \in Writing => \A d \in Prefixes(disk[TempPath]) : \A i \in DOMAIN d : Allowed(d[i][1])
    BY <2>2, AllowedContents
  <2> QED
    BY <2>3, <2>4 DEF OnlyConsented
<1>32. CASE StartReceiver
  BY <1>32, <1>a DEF StartReceiver, senderVars, connVars, receiverVars,
     historyVars, OnlyConsented
<1> QED
  BY <1>1, <1>2, <1>3, <1>4, <1>5, <1>6, <1>7, <1>8, <1>9, <1>10, <1>11,
     <1>12, <1>13, <1>14, <1>15, <1>16, <1>17, <1>18, <1>19, <1>20, <1>21,
     <1>22, <1>23, <1>24, <1>25, <1>26, <1>27, <1>28, <1>29, <1>30, <1>31,
     <1>32 DEF Next, SenderStep, ReceiverStep, Confirm, Environment

\* Every step keeps every byte on the disk one of a request agreed to.
LEMMA StepOnlyConsented ==
    IInv /\ OnlyConsented /\ [Next]_vars => OnlyConsented'
<1> SUFFICES ASSUME IInv, OnlyConsented, [Next]_vars PROVE OnlyConsented'
  OBVIOUS
<1>1. CASE Next
  <2> SUFFICES ASSUME NEW p \in Path, disk'[p] # Absent, NEW i \in DOMAIN disk'[p]
               PROVE  /\ consent'[disk'[p][i][1]] /\ trust'[disk'[p][i][1]] = "paired"
                      /\ declared'[disk'[p][i][1]] <= ReceiverMax
    BY DEF OnlyConsented, Allowed
  <2>1. Allowed(disk'[p][i][1])
    BY <1>1, AllowedWrites
  <2>2. disk'[p] \in Seq(Byte)
    BY StepIInv DEF IInv, TypeOK, DiskTypes, Content
  <2>3. disk'[p][i] \in Byte
    BY <2>2
  <2>4. disk'[p][i][1] \in Sender
    BY <2>3 DEF Byte
  <2> DEFINE u == disk'[p][i][1]
  <2> HIDE DEF u
  <2>5. Allowed(u) /\ u \in Sender
    BY <2>1, <2>4 DEF u
  <2>6. /\ consent'[u] /\ trust'[u] = "paired" /\ declared'[u] <= ReceiverMax
    BY <1>1, <2>5, AllowedStays DEF Allowed
  <2> QED
    BY <2>6 DEF u
<1>2. CASE UNCHANGED vars
  BY <1>2 DEF OnlyConsented, Allowed, vars, senderVars, receiverVars, historyVars
<1> QED
  BY <1>1, <1>2

\* Nothing is written that the user did not agree to receive from a paired
\* device within the limit, whatever fails.
THEOREM NothingUnasked == Spec => []OnlyConsented
<1>1. Init => OnlyConsented
  BY DEF Init, OnlyConsented
<1> QED
  BY <1>1, Invariance, StepOnlyConsented, PTL DEF Spec

\* Every step accounts for each file in the download directory.
LEMMA LitterStep ==
    ASSUME IInv, LitterInv, Next
    PROVE  LitterInv'
<1>a. /\ SenderTypes /\ ConnectionTypes /\ ReceiverTypes /\ DiskTypes /\ TypeOK
      /\ ServerInv /\ ConsentInv /\ PartInv
  BY DEF IInv, TypeOK
<1>1. ASSUME NEW s \in Sender, RefuseLocally(s)
      PROVE  LitterInv'
  BY <1>1, <1>a DEF RefuseLocally, senderVars, connVars, receiverVars,
     historyVars, LitterInv, ServerInv, Serving, TempPath, SenderTypes,
     ReceiverTypes, DiskTypes
<1>2. ASSUME NEW s \in Sender, OpenSource(s)
      PROVE  LitterInv'
  BY <1>2, <1>a DEF OpenSource, senderVars, connVars, receiverVars,
     historyVars, LitterInv, ServerInv, Serving, TempPath, SenderTypes,
     ReceiverTypes, DiskTypes
<1>3. ASSUME NEW s \in Sender, Connect(s)
      PROVE  LitterInv'
  BY <1>3, <1>a DEF Connect, senderVars, connVars, receiverVars, historyVars,
     LitterInv, ServerInv, Serving, TempPath, SenderTypes, ReceiverTypes,
     DiskTypes
<1>4. ASSUME NEW s \in Sender, ConnectRefused(s)
      PROVE  LitterInv'
  BY <1>4, <1>a DEF ConnectRefused, senderVars, connVars, receiverVars,
     historyVars, LitterInv, ServerInv, Serving, TempPath, SenderTypes,
     ReceiverTypes, DiskTypes
<1>5. ASSUME NEW s \in Sender, SendRequest(s)
      PROVE  LitterInv'
  BY <1>5, <1>a DEF SendRequest, senderVars, connVars, receiverVars,
     historyVars, LitterInv, ServerInv, Serving, TempPath, SenderTypes,
     ReceiverTypes, DiskTypes
<1>6. ASSUME NEW s \in Sender, ReceiveResponse(s)
      PROVE  LitterInv'
  BY <1>6, <1>a DEF ReceiveResponse, senderVars, connVars, receiverVars,
     historyVars, LitterInv, ServerInv, Serving, TempPath, SenderTypes,
     ReceiverTypes, DiskTypes
<1>7. ASSUME NEW s \in Sender, SendChunk(s)
      PROVE  LitterInv'
  BY <1>7, <1>a DEF SendChunk, senderVars, connVars, receiverVars,
     historyVars, LitterInv, ServerInv, Serving, TempPath, SenderTypes,
     ReceiverTypes, DiskTypes
<1>8. ASSUME NEW s \in Sender, ReachEof(s)
      PROVE  LitterInv'
  BY <1>8, <1>a DEF ReachEof, senderVars, connVars, receiverVars, historyVars,
     LitterInv, ServerInv, Serving, TempPath, SenderTypes, ReceiverTypes,
     DiskTypes
<1>9. ASSUME NEW s \in Sender, ReadError(s)
      PROVE  LitterInv'
  BY <1>9, <1>a DEF ReadError, senderVars, connVars, receiverVars,
     historyVars, LitterInv, ServerInv, Serving, TempPath, SenderTypes,
     ReceiverTypes, DiskTypes
<1>10. ASSUME NEW s \in Sender, SendComplete(s)
      PROVE  LitterInv'
  BY <1>10, <1>a DEF SendComplete, senderVars, connVars, receiverVars,
     historyVars, LitterInv, ServerInv, Serving, TempPath, SenderTypes,
     ReceiverTypes, DiskTypes
<1>11. ASSUME NEW s \in Sender, KillSender(s)
      PROVE  LitterInv'
  BY <1>11, <1>a DEF KillSender, senderVars, connVars, receiverVars,
     historyVars, LitterInv, ServerInv, Serving, TempPath, SenderTypes,
     ReceiverTypes, DiskTypes
<1>12. ASSUME NEW s \in Sender, ResetConnection(s)
      PROVE  LitterInv'
  BY <1>12, <1>a DEF ResetConnection, senderVars, connVars, receiverVars,
     historyVars, LitterInv, ServerInv, Serving, TempPath, SenderTypes,
     ReceiverTypes, DiskTypes
<1>13. ASSUME NEW s \in Sender, ResizeSource(s)
      PROVE  LitterInv'
  BY <1>13, <1>a DEF ResizeSource, senderVars, connVars, receiverVars,
     historyVars, LitterInv, ServerInv, Serving, TempPath, SenderTypes,
     ReceiverTypes, DiskTypes
<1>14. CASE Accept
  BY <1>14, <1>a DEF Accept, senderVars, connVars, receiverVars, historyVars,
     LitterInv, ServerInv, Serving, TempPath, SenderTypes, ReceiverTypes,
     DiskTypes
<1>15. CASE AcceptFails
  BY <1>15, <1>a DEF AcceptFails, ServerDies, senderVars, connVars,
     receiverVars, historyVars, LitterInv, ServerInv, Serving, TempPath,
     SenderTypes, ReceiverTypes, DiskTypes, ServerDies, ReceiverTypes
<1>16. CASE ReceiveRequest
  BY <1>16, <1>a DEF ReceiveRequest, RequestAllowed, Throw, senderVars,
     connVars, receiverVars, historyVars, LitterInv, ServerInv, Serving,
     TempPath, SenderTypes, ReceiverTypes, DiskTypes
<1>17. CASE ReceiveEof
  BY <1>17, <1>a DEF ReceiveEof, Throw, senderVars, connVars, receiverVars,
     historyVars, LitterInv, ServerInv, Serving, TempPath, SenderTypes,
     ReceiverTypes, DiskTypes
<1>18. CASE ConfirmYes
  BY <1>18, <1>a DEF ConfirmYes, senderVars, connVars, receiverVars,
     historyVars, LitterInv, ServerInv, Serving, TempPath, SenderTypes,
     ReceiverTypes, DiskTypes
<1>19. CASE ConfirmNo
  BY <1>19, <1>a DEF ConfirmNo, Throw, NextConnection, senderVars, connVars,
     receiverVars, historyVars, LitterInv, ServerInv, Serving, TempPath,
     SenderTypes, ReceiverTypes, DiskTypes
<1>20. CASE NameRefused
  BY <1>20, <1>a DEF NameRefused, Throw, senderVars, connVars, receiverVars,
     historyVars, LitterInv, ServerInv, Serving, TempPath, SenderTypes,
     ReceiverTypes, DiskTypes
<1>21. CASE RemoveStalePart
  BY <1>21, <1>a DEF RemoveStalePart, Throw, senderVars, connVars,
     receiverVars, historyVars, LitterInv, ServerInv, Serving, TempPath,
     SenderTypes, ReceiverTypes, DiskTypes
<1>22. CASE OpenPart
  BY <1>22, <1>a DEF OpenPart, Throw, senderVars, connVars, receiverVars,
     historyVars, LitterInv, ServerInv, Serving, TempPath, SenderTypes,
     ReceiverTypes, DiskTypes
<1>23. CASE ReceiveChunk
  BY <1>23, <1>a DEF ReceiveChunk, AllReceived, Throw, ChunkFits, senderVars, connVars,
     receiverVars, historyVars, LitterInv, ServerInv, Serving, TempPath,
     SenderTypes, ReceiverTypes, DiskTypes
<1>24. CASE ReceiveComplete
  BY <1>24, <1>a DEF ReceiveComplete, AllReceived, Throw, senderVars, connVars,
     receiverVars, historyVars, LitterInv, ServerInv, Serving, TempPath,
     SenderTypes, ReceiverTypes, DiskTypes
<1>25. CASE ClosePart
  BY <1>25, <1>a DEF ClosePart, senderVars, connVars, receiverVars,
     historyVars, LitterInv, ServerInv, Serving, TempPath, SenderTypes,
     ReceiverTypes, DiskTypes
<1>26. CASE RemoveOld
  BY <1>26, <1>a DEF RemoveOld, Throw, senderVars, connVars, receiverVars,
     historyVars, LitterInv, ServerInv, Serving, TempPath, SenderTypes,
     ReceiverTypes, DiskTypes
<1>27. CASE RenamePart
  BY <1>27, <1>a DEF RenamePart, NextConnection, senderVars, connVars,
     receiverVars, historyVars, LitterInv, ServerInv, Serving, TempPath,
     SenderTypes, ReceiverTypes, DiskTypes
<1>28. CASE RenameFails
  BY <1>28, <1>a DEF RenameFails, Throw, senderVars, connVars, receiverVars,
     historyVars, LitterInv, ServerInv, Serving, TempPath, SenderTypes,
     ReceiverTypes, DiskTypes
<1>29. CASE CleanUp
  BY <1>29, <1>a DEF CleanUp, NextConnection, senderVars, connVars,
     receiverVars, historyVars, LitterInv, ServerInv, Serving, TempPath,
     SenderTypes, ReceiverTypes, DiskTypes
<1>30. CASE CleanUpFails
  BY <1>30, <1>a DEF CleanUpFails, ServerDies, senderVars, connVars,
     receiverVars, historyVars, LitterInv, ServerInv, Serving, TempPath,
     SenderTypes, ReceiverTypes, DiskTypes, ServerDies, ReceiverTypes
<1>31. CASE KillReceiver
  BY <1>31, <1>a DEF KillReceiver, ServerDies, senderVars, connVars,
     receiverVars, historyVars, LitterInv, ServerInv, Serving, TempPath,
     SenderTypes, ReceiverTypes, DiskTypes, ServerDies, ReceiverTypes
<1>32. CASE StartReceiver
  BY <1>32, <1>a DEF StartReceiver, senderVars, connVars, receiverVars,
     historyVars, LitterInv, ServerInv, Serving, TempPath, SenderTypes,
     ReceiverTypes, DiskTypes
<1> QED
  BY <1>1, <1>2, <1>3, <1>4, <1>5, <1>6, <1>7, <1>8, <1>9, <1>10, <1>11,
     <1>12, <1>13, <1>14, <1>15, <1>16, <1>17, <1>18, <1>19, <1>20, <1>21,
     <1>22, <1>23, <1>24, <1>25, <1>26, <1>27, <1>28, <1>29, <1>30, <1>31,
     <1>32 DEF Next, SenderStep, ReceiverStep, Confirm, Environment

\* A receiver that never died keeps nothing but saved files while it waits.
THEOREM NoLitterIsLeft == Spec => []NoLitter
<1>1. Init => LitterInv
  BY DEF Init, LitterInv
<1>2. IInv /\ LitterInv /\ [Next]_vars => LitterInv'
  <2>1. IInv /\ LitterInv /\ Next => LitterInv'
    BY LitterStep
  <2>2. LitterInv /\ UNCHANGED vars => LitterInv'
    BY DEF LitterInv, TempPath, vars, senderVars, receiverVars, historyVars
  <2> QED
    BY <2>1, <2>2
<1>3. IInv /\ LitterInv => NoLitter
  BY DEF IInv, ServerInv, Serving, LitterInv, NoLitter
<1> QED
  BY <1>1, <1>2, <1>3, Invariance, PTL DEF Spec

\* Every step but RemoveOld leaves the saved files as they are.
LEMMA ReplaceStep ==
    ASSUME IInv, SavedInv, Next, NamesSeparate, "close" \notin Fault,
           NEW p \in Path, saved[p] # None, disk'[p] # disk[p]
    PROVE  rpc = "removeOld" /\ p = OutPath /\ disk[TempPath] = Whole(cur)
<1>a. /\ SenderTypes /\ ConnectionTypes /\ ReceiverTypes /\ DiskTypes /\ TypeOK
      /\ ServerInv /\ ConsentInv /\ PartInv
  BY DEF IInv, TypeOK
<1>1. ASSUME NEW s \in Sender, RefuseLocally(s)
      PROVE  rpc = "removeOld" /\ p = OutPath /\ disk[TempPath] = Whole(cur)
  BY <1>1, <1>a DEF RefuseLocally, senderVars, connVars, receiverVars,
     historyVars
<1>2. ASSUME NEW s \in Sender, OpenSource(s)
      PROVE  rpc = "removeOld" /\ p = OutPath /\ disk[TempPath] = Whole(cur)
  BY <1>2, <1>a DEF OpenSource, senderVars, connVars, receiverVars,
     historyVars
<1>3. ASSUME NEW s \in Sender, Connect(s)
      PROVE  rpc = "removeOld" /\ p = OutPath /\ disk[TempPath] = Whole(cur)
  BY <1>3, <1>a DEF Connect, senderVars, connVars, receiverVars, historyVars
<1>4. ASSUME NEW s \in Sender, ConnectRefused(s)
      PROVE  rpc = "removeOld" /\ p = OutPath /\ disk[TempPath] = Whole(cur)
  BY <1>4, <1>a DEF ConnectRefused, senderVars, connVars, receiverVars,
     historyVars
<1>5. ASSUME NEW s \in Sender, SendRequest(s)
      PROVE  rpc = "removeOld" /\ p = OutPath /\ disk[TempPath] = Whole(cur)
  BY <1>5, <1>a DEF SendRequest, senderVars, connVars, receiverVars,
     historyVars
<1>6. ASSUME NEW s \in Sender, ReceiveResponse(s)
      PROVE  rpc = "removeOld" /\ p = OutPath /\ disk[TempPath] = Whole(cur)
  BY <1>6, <1>a DEF ReceiveResponse, senderVars, connVars, receiverVars,
     historyVars
<1>7. ASSUME NEW s \in Sender, SendChunk(s)
      PROVE  rpc = "removeOld" /\ p = OutPath /\ disk[TempPath] = Whole(cur)
  BY <1>7, <1>a DEF SendChunk, senderVars, connVars, receiverVars, historyVars
<1>8. ASSUME NEW s \in Sender, ReachEof(s)
      PROVE  rpc = "removeOld" /\ p = OutPath /\ disk[TempPath] = Whole(cur)
  BY <1>8, <1>a DEF ReachEof, senderVars, connVars, receiverVars, historyVars
<1>9. ASSUME NEW s \in Sender, ReadError(s)
      PROVE  rpc = "removeOld" /\ p = OutPath /\ disk[TempPath] = Whole(cur)
  BY <1>9, <1>a DEF ReadError, senderVars, connVars, receiverVars, historyVars
<1>10. ASSUME NEW s \in Sender, SendComplete(s)
      PROVE  rpc = "removeOld" /\ p = OutPath /\ disk[TempPath] = Whole(cur)
  BY <1>10, <1>a DEF SendComplete, senderVars, connVars, receiverVars,
     historyVars
<1>11. ASSUME NEW s \in Sender, KillSender(s)
      PROVE  rpc = "removeOld" /\ p = OutPath /\ disk[TempPath] = Whole(cur)
  BY <1>11, <1>a DEF KillSender, senderVars, connVars, receiverVars,
     historyVars
<1>12. ASSUME NEW s \in Sender, ResetConnection(s)
      PROVE  rpc = "removeOld" /\ p = OutPath /\ disk[TempPath] = Whole(cur)
  BY <1>12, <1>a DEF ResetConnection, senderVars, connVars, receiverVars,
     historyVars
<1>13. ASSUME NEW s \in Sender, ResizeSource(s)
      PROVE  rpc = "removeOld" /\ p = OutPath /\ disk[TempPath] = Whole(cur)
  BY <1>13, <1>a DEF ResizeSource, senderVars, connVars, receiverVars,
     historyVars
<1>14. CASE Accept
  BY <1>14, <1>a DEF Accept, senderVars, connVars, receiverVars, historyVars
<1>15. CASE AcceptFails
  BY <1>15, <1>a DEF AcceptFails, ServerDies, senderVars, connVars,
     receiverVars, historyVars
<1>16. CASE ReceiveRequest
  BY <1>16, <1>a DEF ReceiveRequest, RequestAllowed, Throw, senderVars,
     connVars, receiverVars, historyVars
<1>17. CASE ReceiveEof
  BY <1>17, <1>a DEF ReceiveEof, Throw, senderVars, connVars, receiverVars,
     historyVars
<1>18. CASE ConfirmYes
  BY <1>18, <1>a DEF ConfirmYes, senderVars, connVars, receiverVars,
     historyVars
<1>19. CASE ConfirmNo
  BY <1>19, <1>a DEF ConfirmNo, Throw, NextConnection, senderVars, connVars,
     receiverVars, historyVars
<1>20. CASE NameRefused
  BY <1>20, <1>a DEF NameRefused, Throw, senderVars, connVars, receiverVars,
     historyVars
<1>21. CASE RemoveStalePart
  <2>1. cur \in Sender /\ name[cur] # Illegal
    BY <1>21, <1>a DEF RemoveStalePart, ServerInv, Serving, SenderTypes, ReceiverTypes, Writing
  <2>2. p # TempPath
    BY <1>a, <2>1, SavedNotTemp
  <2> QED
    BY <1>21, <1>a, <2>2 DEF RemoveStalePart, DiskTypes
<1>22. CASE OpenPart
  <2>1. cur \in Sender /\ name[cur] # Illegal
    BY <1>22, <1>a DEF OpenPart, ServerInv, Serving, SenderTypes, ReceiverTypes, Writing
  <2>2. p # TempPath
    BY <1>a, <2>1, SavedNotTemp
  <2> QED
    BY <1>22, <1>a, <2>2 DEF OpenPart, DiskTypes
<1>23. CASE ReceiveChunk
  <2>1. cur \in Sender /\ name[cur] # Illegal
    BY <1>23, <1>a DEF ReceiveChunk, AllReceived, ServerInv, Serving, SenderTypes, ReceiverTypes, Writing
  <2>2. p # TempPath
    BY <1>a, <2>1, SavedNotTemp
  <2> QED
    BY <1>23, <1>a, <2>2 DEF ReceiveChunk, AllReceived, DiskTypes
<1>24. CASE ReceiveComplete
  BY <1>24, <1>a DEF ReceiveComplete, AllReceived, Throw, senderVars, connVars,
     receiverVars, historyVars
<1>25. CASE ClosePart
  <2>1. cur \in Sender /\ name[cur] # Illegal
    BY <1>25, <1>a DEF ClosePart, ServerInv, Serving, SenderTypes, ReceiverTypes, Writing
  <2>2. p # TempPath
    BY <1>a, <2>1, SavedNotTemp
  <2> QED
    BY <1>25, <1>a, <2>2 DEF ClosePart, DiskTypes
<1>26. CASE RemoveOld
  <2>1. rpc = "removeOld" /\ p = OutPath
    BY <1>26, <1>a DEF RemoveOld, DiskTypes
  <2> QED
    BY <2>1, StoredWhole
<1>27. CASE RenamePart
  <2>1. cur \in Sender /\ name[cur] # Illegal /\ rpc = "rename"
    BY <1>27, <1>a DEF RenamePart, ServerInv, Serving, SenderTypes, ReceiverTypes
  <2>2. p # TempPath /\ p # OutPath
    BY <1>a, <2>1, SavedNotTemp DEF SavedInv
  <2> QED
    BY <1>27, <1>a, <2>2 DEF RenamePart, DiskTypes
<1>28. CASE RenameFails
  BY <1>28, <1>a DEF RenameFails, Throw, senderVars, connVars, receiverVars,
     historyVars
<1>29. CASE CleanUp
  <2>1. cleanup
    BY <1>29 DEF CleanUp
  <2>2. cur \in Sender /\ name[cur] # Illegal
    BY <1>29, <1>a, <2>1 DEF CleanUp, ServerInv, Serving, SenderTypes, ReceiverTypes
  <2>3. p # TempPath
    BY <1>a, <2>2, SavedNotTemp
  <2> QED
    BY <1>29, <1>a, <2>3 DEF CleanUp, DiskTypes
<1>30. CASE CleanUpFails
  BY <1>30, <1>a DEF CleanUpFails, ServerDies, senderVars, connVars,
     receiverVars, historyVars
<1>31. CASE KillReceiver
  <2>1. rpc \in Writing
    BY <1>31 DEF KillReceiver
  <2>2. cur \in Sender /\ name[cur] # Illegal
    BY <1>a, <2>1 DEF ServerInv, Serving, SenderTypes, ReceiverTypes, Writing
  <2>3. p # TempPath
    BY <1>a, <2>2, SavedNotTemp
  <2> QED
    BY <1>31, <1>a, <2>3 DEF KillReceiver, DiskTypes
<1>32. CASE StartReceiver
  BY <1>32, <1>a DEF StartReceiver, senderVars, connVars, receiverVars,
     historyVars
<1> QED
  BY <1>1, <1>2, <1>3, <1>4, <1>5, <1>6, <1>7, <1>8, <1>9, <1>10, <1>11,
     <1>12, <1>13, <1>14, <1>15, <1>16, <1>17, <1>18, <1>19, <1>20, <1>21,
     <1>22, <1>23, <1>24, <1>25, <1>26, <1>27, <1>28, <1>29, <1>30, <1>31,
     <1>32 DEF Next, SenderStep, ReceiverStep, Confirm, Environment

\* A file reported saved is touched only to be replaced by a complete one.
THEOREM SavedIsOnlyReplaced ==
    ASSUME NamesSeparate, "close" \notin Fault
    PROVE  Spec => SavedOnlyReplaced
<1> DEFINE Step == \A p \in Path :
                      saved[p] # None /\ disk'[p] # disk[p] =>
                         /\ rpc = "removeOld" /\ p = OutPath
                         /\ disk[TempPath] = Whole(cur)
<1>1. IInv /\ SavedInv /\ [Next]_vars => [Step]_vars
  BY ReplaceStep
<1> QED
  BY <1>1, SavedInvariance, PTL DEF Spec, SavedOnlyReplaced

-----------------------------------------------------------------------------
(* Transfer implements Delivery *)

Views == <<OfferView, AgreedView, StoreView, TentativeView>>
\* The states in which the user's agreement has not been acted upon.
Pending == {"prepare", "open", "body", "close", "removeOld"}

\* The transfer the abstract directory waits for.
LEMMA AgreedIs ==
    ASSUME IInv
    PROVE  /\ AgreedView = IF rpc \in Pending THEN {cur} ELSE {}
           /\ rpc \in Pending => cur \in Sender /\ OfferView[cur] = Whole(cur)
<1>1. rpc \in Pending => cur \in Sender /\ consent[cur]
  BY DEF IInv, TypeOK, ServerInv, ConsentInv, Serving, Agreed, ReceiverTypes, Pending
<1>2. rpc \in Pending => declared[cur] # 0
  BY <1>1 DEF IInv, TypeOK, ConnectionInv, SenderTypes
<1>3. AgreedView = IF rpc \in Pending THEN {cur} ELSE {}
  BY <1>1 DEF AgreedView, Pending
<1> QED
  BY <1>1, <1>2, <1>3 DEF OfferView

\* The same after a step.
LEMMA AgreedIsNext ==
    ASSUME IInv'
    PROVE  AgreedView' = IF rpc' \in Pending THEN {cur'} ELSE {}
<1>1. rpc' \in Pending => cur' \in Sender /\ consent'[cur']
  BY DEF IInv, TypeOK, ServerInv, ConsentInv, Serving, Agreed, ReceiverTypes, Pending
<1> QED
  BY <1>1 DEF AgreedView, Pending

\* Steps that settle no size leave the offers as they are.
LEMMA OfferSame ==
    ASSUME UNCHANGED declared
    PROVE  OfferView' = OfferView
  BY DEF OfferView, Whole

\* Steps that leave the saved files alone leave the abstract store as it is.
LEMMA StoreSame ==
    ASSUME rpc # "rename", rpc' # "rename", UNCHANGED saved,
           \A p \in Path : saved[p] # None => disk'[p] = disk[p]
    PROVE  StoreView' = StoreView /\ TentativeView' = TentativeView
  BY DEF StoreView, TentativeView

\* A step that touches no view.
LEMMA QuietStep ==
    ASSUME UNCHANGED <<rpc, cur, name, declared, disk, saved, consent>>
    PROVE  UNCHANGED Views
  BY DEF Views, OfferView, AgreedView, StoreView, TentativeView, Whole, OutPath, TempPath

\* A step away from the rename, within the handling of a request or out of it.
LEMMA ReceiverView ==
    ASSUME IInv, IInv', UNCHANGED <<declared, saved>>,
           rpc # "rename", rpc' # "rename",
           rpc' \in Pending => rpc \in Pending /\ cur' = cur,
           \A p \in Path : saved[p] # None => disk'[p] = disk[p]
    PROVE  UNCHANGED Views \/ Promise!Next
<1>1. OfferView' = OfferView /\ StoreView' = StoreView /\ TentativeView' = TentativeView
  BY OfferSame, StoreSame
<1>2. CASE rpc \in Pending /\ rpc' \in Pending
  <2>1. AgreedView' = AgreedView
    <3>1. AgreedView = {cur}
      BY <1>2, AgreedIs
    <3>2. AgreedView' = {cur'}
      BY <1>2, AgreedIsNext
    <3> QED
      BY <1>2, <3>1, <3>2
  <2> QED
    BY <1>1, <2>1 DEF Views
<1>3. CASE rpc \in Pending /\ rpc' \notin Pending
  <2>1. AgreedView = {cur} /\ cur \in Sender /\ AgreedView' = {}
    BY <1>3, AgreedIs, AgreedIsNext
  <2>2. Promise!Withdraw(cur)
    BY <1>1, <2>1 DEF Promise!Withdraw
  <2> QED
    BY <2>1, <2>2 DEF Promise!Next
<1>4. CASE rpc \notin Pending
  <2>1. AgreedView = {} /\ AgreedView' = {}
    BY <1>4, AgreedIs, AgreedIsNext
  <2> QED
    BY <1>1, <2>1 DEF Views
<1> QED
  BY <1>2, <1>3, <1>4

\* The rename did not happen: the one way in which a file is lost.
LEMMA LoseStep ==
    ASSUME IInv, SavedInv, IInv', rpc = "rename", rpc' \notin Pending, rpc' # "rename",
           UNCHANGED <<declared, saved, disk>>
    PROVE  Promise!Next
<1>1. OutPath \in Path
  BY ServedPaths DEF IInv
<1>2. AgreedView = {} /\ AgreedView' = {}
  BY AgreedIs, AgreedIsNext DEF Pending
<1>3. TentativeView = {OutPath} /\ TentativeView' = {}
  BY DEF TentativeView
<1>4. saved[OutPath] = None
  BY DEF SavedInv
<1>5. StoreView' = [StoreView EXCEPT ![OutPath] = Absent]
  <2>1. ASSUME NEW p \in Path
        PROVE  StoreView'[p] = IF p = OutPath THEN Absent ELSE StoreView[p]
    BY <1>4 DEF StoreView
  <2> QED
    BY <2>1 DEF StoreView
<1>6. Promise!Lose(OutPath)
  BY <1>2, <1>3, <1>5, OfferSame DEF Promise!Lose
<1> QED
  BY <1>1, <1>6 DEF Promise!Next

\* Every step is a step of Delivery or leaves the views as they are.
LEMMA PromiseStep ==
    ASSUME IInv, SavedInv, Next, NamesSeparate, "close" \notin Fault
    PROVE  UNCHANGED Views \/ Promise!Next
<1>a. /\ SenderTypes /\ ConnectionTypes /\ ReceiverTypes /\ DiskTypes /\ TypeOK
      /\ ServerInv /\ ConsentInv /\ PartInv /\ SentInv
      /\ \A s \in Sender : ConnectionInv(s)
  BY DEF IInv, TypeOK
<1>b. IInv'
  BY StepIInv
<1>1. ASSUME NEW s \in Sender, RefuseLocally(s)
      PROVE  UNCHANGED Views \/ Promise!Next
  <2>1. UNCHANGED <<rpc, cur, name, declared, disk, saved, consent>>
    BY <1>1 DEF RefuseLocally, senderVars, receiverVars, historyVars
  <2> QED
    BY <2>1, QuietStep
<1>2. ASSUME NEW s \in Sender, OpenSource(s)
      PROVE  UNCHANGED Views \/ Promise!Next
  <2>1. UNCHANGED <<rpc, cur, name, disk, saved, consent>>
    BY <1>2 DEF OpenSource, receiverVars, historyVars
  <2>2. /\ declared[s] = 0 /\ src[s] \in Nat /\ src[s] # 0
        /\ declared' = [declared EXCEPT ![s] = src[s]]
    BY <1>2, <1>a DEF OpenSource, SizeToSend, ConnectionInv, SenderTypes
  <2>3. AgreedView' = AgreedView /\ StoreView' = StoreView /\ TentativeView' = TentativeView
    BY <2>1 DEF AgreedView, StoreView, TentativeView, OutPath, TempPath
  <2>4. OfferView[s] = Absent
    BY <2>2 DEF OfferView
  <2>5. OfferView'[s] = Bytes(s, 0, src[s])
    BY <1>a, <2>2 DEF OfferView, Whole, SenderTypes
  <2>6. OfferView'[s] # Absent
    BY <2>2, <2>5, BytesFromStart, ConstantsAssumption
  <2>7. OfferView' = [OfferView EXCEPT ![s] = OfferView'[s]]
    <3>1. \A t \in Sender : t # s => OfferView'[t] = OfferView[t]
      BY <1>a, <2>2 DEF OfferView, Whole, SenderTypes
    <3> QED
      BY <3>1 DEF OfferView
  <2>8. Promise!Offer(s)
    BY <2>3, <2>4, <2>6, <2>7 DEF Promise!Offer
  <2> QED
    BY <2>8 DEF Promise!Next
<1>3. ASSUME NEW s \in Sender, Connect(s)
      PROVE  UNCHANGED Views \/ Promise!Next
  <2>1. UNCHANGED <<rpc, cur, name, declared, disk, saved, consent>>
    BY <1>3 DEF Connect, senderVars, receiverVars, historyVars
  <2> QED
    BY <2>1, QuietStep
<1>4. ASSUME NEW s \in Sender, ConnectRefused(s)
      PROVE  UNCHANGED Views \/ Promise!Next
  <2>1. UNCHANGED <<rpc, cur, name, declared, disk, saved, consent>>
    BY <1>4 DEF ConnectRefused, senderVars, receiverVars, historyVars
  <2> QED
    BY <2>1, QuietStep
<1>5. ASSUME NEW s \in Sender, SendRequest(s)
      PROVE  UNCHANGED Views \/ Promise!Next
  <2>1. UNCHANGED <<rpc, cur, name, declared, disk, saved, consent>>
    BY <1>5 DEF SendRequest, senderVars, receiverVars, historyVars
  <2> QED
    BY <2>1, QuietStep
<1>6. ASSUME NEW s \in Sender, ReceiveResponse(s)
      PROVE  UNCHANGED Views \/ Promise!Next
  <2>1. UNCHANGED <<rpc, cur, name, declared, disk, saved, consent>>
    BY <1>6 DEF ReceiveResponse, senderVars, receiverVars, historyVars
  <2> QED
    BY <2>1, QuietStep
<1>7. ASSUME NEW s \in Sender, SendChunk(s)
      PROVE  UNCHANGED Views \/ Promise!Next
  <2>1. UNCHANGED <<rpc, cur, name, declared, disk, saved, consent>>
    BY <1>7 DEF SendChunk, senderVars, receiverVars, historyVars
  <2> QED
    BY <2>1, QuietStep
<1>8. ASSUME NEW s \in Sender, ReachEof(s)
      PROVE  UNCHANGED Views \/ Promise!Next
  <2>1. UNCHANGED <<rpc, cur, name, declared, disk, saved, consent>>
    BY <1>8 DEF ReachEof, senderVars, receiverVars, historyVars
  <2> QED
    BY <2>1, QuietStep
<1>9. ASSUME NEW s \in Sender, ReadError(s)
      PROVE  UNCHANGED Views \/ Promise!Next
  <2>1. UNCHANGED <<rpc, cur, name, declared, disk, saved, consent>>
    BY <1>9 DEF ReadError, senderVars, receiverVars, historyVars
  <2> QED
    BY <2>1, QuietStep
<1>10. ASSUME NEW s \in Sender, SendComplete(s)
      PROVE  UNCHANGED Views \/ Promise!Next
  <2>1. UNCHANGED <<rpc, cur, name, declared, disk, saved, consent>>
    BY <1>10 DEF SendComplete, senderVars, receiverVars, historyVars
  <2> QED
    BY <2>1, QuietStep
<1>11. ASSUME NEW s \in Sender, KillSender(s)
      PROVE  UNCHANGED Views \/ Promise!Next
  <2>1. UNCHANGED <<rpc, cur, name, declared, disk, saved, consent>>
    BY <1>11 DEF KillSender, senderVars, receiverVars, historyVars
  <2> QED
    BY <2>1, QuietStep
<1>12. ASSUME NEW s \in Sender, ResetConnection(s)
      PROVE  UNCHANGED Views \/ Promise!Next
  <2>1. UNCHANGED <<rpc, cur, name, declared, disk, saved, consent>>
    BY <1>12 DEF ResetConnection, senderVars, receiverVars, historyVars
  <2> QED
    BY <2>1, QuietStep
<1>13. ASSUME NEW s \in Sender, ResizeSource(s)
      PROVE  UNCHANGED Views \/ Promise!Next
  <2>1. UNCHANGED <<rpc, cur, name, declared, disk, saved, consent>>
    BY <1>13 DEF ResizeSource, senderVars, receiverVars, historyVars
  <2> QED
    BY <2>1, QuietStep
<1>14. CASE Accept
  <2>1. UNCHANGED <<declared, saved, disk>> /\ rpc # "rename" /\ rpc' # "rename"
    BY <1>14 DEF Accept, Throw, senderVars, historyVars
  <2>2. rpc' \in Pending => rpc \in Pending /\ cur' = cur
    BY <1>14 DEF Accept, Throw, Pending
  <2> QED
    BY <1>b, <2>1, <2>2, ReceiverView
<1>15. CASE AcceptFails
  <2>1. UNCHANGED <<declared, saved, disk>> /\ rpc # "rename" /\ rpc' # "rename"
    BY <1>15 DEF AcceptFails, Throw, ServerDies, senderVars, historyVars
  <2>2. rpc' \in Pending => rpc \in Pending /\ cur' = cur
    BY <1>15 DEF AcceptFails, Throw, ServerDies, Pending
  <2> QED
    BY <1>b, <2>1, <2>2, ReceiverView
<1>16. CASE ReceiveRequest
  <2>1. UNCHANGED <<declared, saved, disk>> /\ rpc # "rename" /\ rpc' # "rename"
    BY <1>16 DEF ReceiveRequest, Throw, RequestAllowed, senderVars, historyVars
  <2>2. rpc' \in Pending => rpc \in Pending /\ cur' = cur
    BY <1>16 DEF ReceiveRequest, Throw, RequestAllowed, Pending
  <2> QED
    BY <1>b, <2>1, <2>2, ReceiverView
<1>17. CASE ReceiveEof
  <2>1. UNCHANGED <<declared, saved, disk>> /\ rpc # "rename" /\ rpc' # "rename"
    BY <1>17 DEF ReceiveEof, Throw, senderVars, historyVars
  <2>2. rpc' \in Pending => rpc \in Pending /\ cur' = cur
    BY <1>17 DEF ReceiveEof, Throw, Pending
  <2> QED
    BY <1>b, <2>1, <2>2, ReceiverView
<1>18. CASE ConfirmYes
  <2>1. UNCHANGED <<declared, saved, disk, cur>> /\ rpc = "prompt" /\ rpc' \in {"prepare", "catch"}
    BY <1>18 DEF ConfirmYes, senderVars
  <2>2. OfferView' = OfferView /\ StoreView' = StoreView /\ TentativeView' = TentativeView
    BY <2>1, OfferSame, StoreSame
  <2>3. AgreedView = {}
    BY <2>1, AgreedIs DEF Pending
  <2>4. CASE rpc' = "catch"
    <3>1. AgreedView' = {}
      BY <1>b, <2>4, AgreedIsNext DEF Pending
    <3> QED
      BY <2>2, <2>3, <3>1 DEF Views
  <2>5. CASE rpc' = "prepare"
    <3>1. AgreedView' = {cur}
      BY <1>b, <2>1, <2>5, AgreedIsNext DEF Pending
    <3>2. cur \in Sender /\ OfferView[cur] # Absent
      <4>1. cur \in Sender /\ declared[cur] \in Nat /\ declared[cur] # 0
        BY <1>a, <2>1 DEF ServerInv, Serving, ReceiverTypes, SenderTypes, ConnectionInv
      <4>2. Bytes(cur, 0, declared[cur]) # Absent
        BY <4>1, BytesFromStart, ConstantsAssumption
      <4> QED
        BY <4>1, <4>2 DEF OfferView, Whole
    <3>3. Promise!Agree(cur)
      BY <2>2, <2>3, <3>1, <3>2 DEF Promise!Agree
    <3> QED
      BY <3>2, <3>3 DEF Promise!Next
  <2> QED
    BY <2>1, <2>4, <2>5
<1>19. CASE ConfirmNo
  <2>1. UNCHANGED <<declared, saved, disk>> /\ rpc # "rename" /\ rpc' # "rename"
    BY <1>19 DEF ConfirmNo, Throw, NextConnection, senderVars, historyVars
  <2>2. rpc' \in Pending => rpc \in Pending /\ cur' = cur
    BY <1>19 DEF ConfirmNo, Throw, NextConnection, Pending
  <2> QED
    BY <1>b, <2>1, <2>2, ReceiverView
<1>20. CASE NameRefused
  <2>1. UNCHANGED <<declared, saved, disk>> /\ rpc # "rename" /\ rpc' # "rename"
    BY <1>20 DEF NameRefused, Throw, senderVars, historyVars
  <2>2. rpc' \in Pending => rpc \in Pending /\ cur' = cur
    BY <1>20 DEF NameRefused, Throw, Pending
  <2> QED
    BY <1>b, <2>1, <2>2, ReceiverView
<1>21. CASE RemoveStalePart
  <2>1. UNCHANGED <<declared, saved>> /\ rpc # "rename" /\ rpc' # "rename"
    BY <1>21 DEF RemoveStalePart, Throw, NextConnection, senderVars, historyVars
  <2>2. rpc' \in Pending => rpc \in Pending /\ cur' = cur
    BY <1>21 DEF RemoveStalePart, Throw, NextConnection, Pending
  <2>3. \A p \in Path : saved[p] # None => disk'[p] = disk[p]
    BY <1>21, ReplaceStep DEF RemoveStalePart, Next, ReceiverStep
  <2> QED
    BY <1>b, <2>1, <2>2, <2>3, ReceiverView
<1>22. CASE OpenPart
  <2>1. UNCHANGED <<declared, saved>> /\ rpc # "rename" /\ rpc' # "rename"
    BY <1>22 DEF OpenPart, Throw, NextConnection, senderVars, historyVars
  <2>2. rpc' \in Pending => rpc \in Pending /\ cur' = cur
    BY <1>22 DEF OpenPart, Throw, NextConnection, Pending
  <2>3. \A p \in Path : saved[p] # None => disk'[p] = disk[p]
    BY <1>22, ReplaceStep DEF OpenPart, Next, ReceiverStep
  <2> QED
    BY <1>b, <2>1, <2>2, <2>3, ReceiverView
<1>23. CASE ReceiveChunk
  <2>1. UNCHANGED <<declared, saved>> /\ rpc # "rename" /\ rpc' # "rename"
    BY <1>23 DEF ReceiveChunk, AllReceived, Throw, NextConnection, senderVars, historyVars
  <2>2. rpc' \in Pending => rpc \in Pending /\ cur' = cur
    BY <1>23 DEF ReceiveChunk, AllReceived, Throw, NextConnection, Pending
  <2>3. \A p \in Path : saved[p] # None => disk'[p] = disk[p]
    BY <1>23, ReplaceStep DEF ReceiveChunk, AllReceived, Next, ReceiverStep
  <2> QED
    BY <1>b, <2>1, <2>2, <2>3, ReceiverView
<1>24. CASE ReceiveComplete
  <2>1. UNCHANGED <<declared, saved, disk>> /\ rpc # "rename" /\ rpc' # "rename"
    BY <1>24 DEF ReceiveComplete, AllReceived, Throw, senderVars, historyVars
  <2>2. rpc' \in Pending => rpc \in Pending /\ cur' = cur
    BY <1>24 DEF ReceiveComplete, AllReceived, Throw, Pending
  <2> QED
    BY <1>b, <2>1, <2>2, ReceiverView
<1>25. CASE ClosePart
  <2>1. UNCHANGED <<declared, saved>> /\ rpc # "rename" /\ rpc' # "rename"
    BY <1>25 DEF ClosePart, Throw, NextConnection, senderVars, historyVars
  <2>2. rpc' \in Pending => rpc \in Pending /\ cur' = cur
    BY <1>25 DEF ClosePart, Throw, NextConnection, Pending
  <2>3. \A p \in Path : saved[p] # None => disk'[p] = disk[p]
    BY <1>25, ReplaceStep DEF ClosePart, Next, ReceiverStep
  <2> QED
    BY <1>b, <2>1, <2>2, <2>3, ReceiverView
<1>26. CASE RemoveOld
  <2>1. /\ rpc = "removeOld" /\ cur \in Sender /\ OutPath \in Path /\ TempPath \in Path
        /\ OutPath # TempPath
    BY <1>26, <1>a, ServedPaths DEF RemoveOld
  <2>2. UNCHANGED <<declared, name, cur>>
    BY <1>26 DEF RemoveOld, senderVars
  <2>3. CASE rpc' = "rename"
    <3>1. /\ disk' = [disk EXCEPT ![OutPath] = Absent]
          /\ saved' = [saved EXCEPT ![OutPath] = None]
      BY <1>26, <2>3 DEF RemoveOld, Throw
    <3>2. OutPath' = OutPath /\ TempPath' = TempPath
      BY <2>2 DEF OutPath, TempPath
    <3>3. disk'[TempPath] = Whole(cur)
      BY <1>a, <2>1, <3>1, StoredWhole DEF DiskTypes
    <3>4. AgreedView = {cur} /\ AgreedView' = {} /\ OfferView[cur] = Whole(cur)
      BY <1>b, <2>1, <2>3, AgreedIs, AgreedIsNext DEF Pending
    <3>5. StoreView' = [StoreView EXCEPT ![OutPath] = OfferView[cur]]
      <4>1. ASSUME NEW p \in Path
            PROVE  StoreView'[p] = IF p = OutPath THEN Whole(cur) ELSE StoreView[p]
        BY <1>a, <2>1, <2>3, <3>1, <3>2, <3>3 DEF StoreView, DiskTypes
      <4> QED
        BY <3>4, <4>1 DEF StoreView
    <3>6. TentativeView' = {OutPath}
      BY <2>3, <3>2 DEF TentativeView
    <3>7. Promise!Deliver(cur, OutPath)
      BY <2>2, <3>4, <3>5, <3>6, OfferSame DEF Promise!Deliver
    <3> QED
      BY <2>1, <3>7 DEF Promise!Next
  <2>4. CASE rpc' = "catch"
    <3>1. UNCHANGED <<disk, saved>> /\ rpc' \notin Pending /\ rpc # "rename"
      BY <1>26, <2>4 DEF RemoveOld, Pending
    <3> QED
      BY <1>b, <2>2, <2>4, <3>1, ReceiverView
  <2> QED
    BY <1>26, <2>3, <2>4 DEF RemoveOld, Throw
<1>27. CASE RenamePart
  <2>1. /\ rpc = "rename" /\ cur \in Sender /\ OutPath \in Path /\ TempPath \in Path
        /\ OutPath # TempPath /\ name[cur] # Illegal
    BY <1>27, <1>a, ServedPaths DEF RenamePart
  <2>2. \A p \in Path : saved[p] # None => p # TempPath
    BY <1>a, <2>1, SavedNotTemp
  <2>3. /\ disk' = [disk EXCEPT ![OutPath] = disk[TempPath], ![TempPath] = Absent]
        /\ saved' = [saved EXCEPT ![OutPath] = cur]
        /\ rpc' = "accept" /\ UNCHANGED declared
    BY <1>27 DEF RenamePart, NextConnection, senderVars
  <2>4. cur # None
    BY <2>1, ConstantsAssumption
  <2>5. StoreView' = StoreView
    <3>1. ASSUME NEW p \in Path
          PROVE  StoreView'[p] = StoreView[p]
      <4>1. CASE p = OutPath
        BY <1>a, <2>1, <2>3, <2>4, <4>1 DEF StoreView, DiskTypes
      <4>2. CASE p # OutPath
        BY <1>a, <2>1, <2>2, <2>3, <4>2 DEF StoreView, DiskTypes
      <4> QED
        BY <4>1, <4>2
    <3> QED
      BY <3>1 DEF StoreView
  <2>6. AgreedView = {} /\ AgreedView' = {}
    BY <1>b, <2>1, <2>3, AgreedIs, AgreedIsNext DEF Pending
  <2>7. TentativeView = {OutPath} /\ TentativeView' = {}
    BY <2>1, <2>3 DEF TentativeView
  <2>8. Promise!Confirm(OutPath)
    BY <2>3, <2>5, <2>6, <2>7, OfferSame DEF Promise!Confirm
  <2> QED
    BY <2>1, <2>8 DEF Promise!Next
<1>28. CASE RenameFails
  <2>1. UNCHANGED <<declared, saved, disk>> /\ rpc = "rename" /\ rpc' = "catch"
    BY <1>28 DEF RenameFails, Throw, senderVars, historyVars
  <2>2. rpc' # "rename" /\ rpc' \notin Pending
    BY <2>1 DEF Pending
  <2> QED
    BY <1>b, <2>1, <2>2, LoseStep
<1>29. CASE CleanUp
  <2>1. UNCHANGED <<declared, saved>> /\ rpc # "rename" /\ rpc' # "rename"
    BY <1>29 DEF CleanUp, Throw, NextConnection, senderVars, historyVars
  <2>2. rpc' \in Pending => rpc \in Pending /\ cur' = cur
    BY <1>29 DEF CleanUp, Throw, NextConnection, Pending
  <2>3. \A p \in Path : saved[p] # None => disk'[p] = disk[p]
    BY <1>29, ReplaceStep DEF CleanUp, Next, ReceiverStep
  <2> QED
    BY <1>b, <2>1, <2>2, <2>3, ReceiverView
<1>30. CASE CleanUpFails
  <2>1. UNCHANGED <<declared, saved, disk>> /\ rpc # "rename" /\ rpc' # "rename"
    BY <1>30 DEF CleanUpFails, Throw, ServerDies, senderVars, historyVars
  <2>2. rpc' \in Pending => rpc \in Pending /\ cur' = cur
    BY <1>30 DEF CleanUpFails, Throw, ServerDies, Pending
  <2> QED
    BY <1>b, <2>1, <2>2, ReceiverView
<1>31. CASE KillReceiver
  <2>1. UNCHANGED <<declared, saved>> /\ rpc' = "down" /\ rpc' \notin Pending
    BY <1>31 DEF KillReceiver, ServerDies, senderVars, historyVars, Pending
  <2>2. \A p \in Path : saved[p] # None => disk'[p] = disk[p]
    <3>1. \A p \in Path : saved[p] # None /\ disk'[p] # disk[p] => rpc = "removeOld"
      BY ReplaceStep
    <3> QED
      BY <1>31, <3>1 DEF KillReceiver, Writing
  <2>3. CASE rpc # "rename"
    BY <1>b, <2>1, <2>2, <2>3, ReceiverView
  <2>4. CASE rpc = "rename"
    <3>1. UNCHANGED disk
      BY <1>31, <2>4 DEF KillReceiver, Writing
    <3> QED
      BY <1>b, <2>1, <2>4, <3>1, LoseStep
  <2> QED
    BY <2>3, <2>4
<1>32. CASE StartReceiver
  <2>1. UNCHANGED <<declared, saved, disk>> /\ rpc # "rename" /\ rpc' # "rename"
    BY <1>32 DEF StartReceiver, Throw, senderVars, historyVars
  <2>2. rpc' \in Pending => rpc \in Pending /\ cur' = cur
    BY <1>32 DEF StartReceiver, Throw, Pending
  <2> QED
    BY <1>b, <2>1, <2>2, ReceiverView
<1> QED
  BY <1>1, <1>2, <1>3, <1>4, <1>5, <1>6, <1>7, <1>8, <1>9, <1>10, <1>11,
     <1>12, <1>13, <1>14, <1>15, <1>16, <1>17, <1>18, <1>19, <1>20, <1>21,
     <1>22, <1>23, <1>24, <1>25, <1>26, <1>27, <1>28, <1>29, <1>30, <1>31,
     <1>32 DEF Next, SenderStep, ReceiverStep, Confirm, Environment

\* The initial states are initial states of Delivery.
LEMMA PromiseInit == Init => Promise!Init
<1> SUFFICES ASSUME Init PROVE Promise!Init
  OBVIOUS
<1>1. OfferView = [s \in Sender |-> Absent]
  BY DEF Init, OfferView
<1>2. AgreedView = {} /\ TentativeView = {}
  BY DEF Init, AgreedView, TentativeView
<1>3. StoreView = [p \in Path |-> Absent]
  BY DEF Init, StoreView
<1> QED
  BY <1>1, <1>2, <1>3 DEF Promise!Init

\* When no close() fails and no name is another's temporary path, the receiver
\* does what Delivery promises: whole files, replaced at once.
THEOREM TransferImplementsDelivery ==
    ASSUME NamesSeparate, "close" \notin Fault
    PROVE  Spec => ImplementsDelivery
<1>1. Init => Promise!Init
  BY PromiseInit
<1>2. IInv /\ SavedInv /\ [Next]_vars => [Promise!Next]_Views
  <2> SUFFICES ASSUME IInv, SavedInv, [Next]_vars PROVE [Promise!Next]_Views
    OBVIOUS
  <2>1. CASE Next
    BY <2>1, PromiseStep
  <2>2. CASE UNCHANGED vars
    BY <2>2, QuietStep DEF vars, senderVars, receiverVars, historyVars
  <2> QED
    BY <2>1, <2>2
<1>3. [Promise!Next]_Views => [Promise!Next]_<<OfferView, AgreedView, StoreView, TentativeView>>
  BY DEF Views
<1> QED
  BY <1>1, <1>2, <1>3, SavedInvariance, PTL DEF Spec, ImplementsDelivery, Promise!Spec
===============================================================================
