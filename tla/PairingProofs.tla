--------------------------- MODULE PairingProofs ---------------------------
(***************************************************************************)
(* Nobody is paired without the consent of both users, without a fault     *)
(* both devices have the record or neither, and in every attempt somebody  *)
(* may move: the proofs, for any devices, any attempts between them at     *)
(* once and any failures.                                                  *)
(***************************************************************************)
EXTENDS Pairing, TLAPS

\* Every PairFinalize in the queues q is of an attempt in set f, every
\* PairAccept in the queues p of one in set a.
FinalizeIn(q, f) ==
    \A r \in Run : \A i \in 1..Len(q[r]) : q[r][i] = "PairFinalize" => r \in f
AcceptIn(p, a) ==
    \A r \in Run : \A i \in 1..Len(p[r]) : p[r][i] = "PairAccept" => r \in a

\* What the operators on sequences do to what the queues hold.
LEMMA QueueFacts ==
    /\ <<>> \in Seq(FrameType) /\ Len(<<>>) = 0
    /\ \A x \in FrameType : <<x>> \in Seq(FrameType)
    /\ \A q \in Seq(FrameType), x \in FrameType :
          /\ Append(q, x) \in Seq(FrameType)
          /\ Len(Append(q, x)) = Len(q) + 1
          /\ \A i \in 1..Len(Append(q, x)) :
                Append(q, x)[i] = IF i <= Len(q) THEN q[i] ELSE x
    /\ \A q \in Seq(FrameType) : q # <<>> =>
          /\ Tail(q) \in Seq(FrameType) /\ Len(Tail(q)) = Len(q) - 1
          /\ Head(q) = q[1] /\ 1 \in 1..Len(q)
          /\ \A i \in 1..Len(Tail(q)) : i + 1 \in 1..Len(q) /\ Tail(q)[i] = q[i + 1]
  OBVIOUS

\* Sending a frame whose consent has been given.
LEMMA SendsStep ==
    ASSUME TypeOK, NEW r \in Run, NEW type \in FrameType, NEW next \in InitiatorState,
           Sends(r, type, next), NEW f, FinalizeIn(up, f),
           type = "PairFinalize" => r \in f
    PROVE  /\ up' \in [Run -> Seq(FrameType)] /\ pc' \in [Run -> InitiatorState]
           /\ iEnd' \in [Run -> BOOLEAN]
           /\ FinalizeIn(up', f)
           /\ \A s \in Run : s # r => pc'[s] = pc[s]
           /\ pc'[r] \in {next, "failed"}
<1>1. /\ iEnd' \in [Run -> BOOLEAN] /\ pc' \in [Run -> InitiatorState]
      /\ \A s \in Run : s # r => pc'[s] = pc[s]
      /\ pc'[r] \in {next, "failed"}
  BY DEF Sends, Fails, TypeOK, InitiatorState
<1>2. CASE UNCHANGED up
  BY <1>1, <1>2 DEF TypeOK
<1>3. CASE up' = [up EXCEPT ![r] = Append(@, type)]
  <2>1. up[r] \in Seq(FrameType)
    BY DEF TypeOK
  <2>2. up' \in [Run -> Seq(FrameType)]
    BY <1>3, <2>1, QueueFacts DEF TypeOK
  <2>3. ASSUME NEW s \in Run, NEW i \in 1..Len(up'[s]), up'[s][i] = "PairFinalize"
        PROVE  s \in f
    <3>1. CASE s = r
      <4>1. up'[s] = Append(up[r], type)
        BY <1>3, <3>1 DEF TypeOK
      <4>2. CASE i <= Len(up[r])
        <5>1. i \in 1..Len(up[r]) /\ up[r][i] = "PairFinalize"
          BY <2>1, <2>3, <4>1, <4>2, QueueFacts
        <5> QED
          BY <3>1, <5>1 DEF FinalizeIn
      <4>3. CASE ~(i <= Len(up[r]))
        BY <2>1, <2>3, <3>1, <4>1, <4>3, QueueFacts
      <4> QED
        BY <4>2, <4>3
    <3>2. CASE s # r
      BY <1>3, <2>3, <3>2 DEF FinalizeIn, TypeOK
    <3> QED
      BY <3>1, <3>2
  <2> QED
    BY <1>1, <2>2, <2>3 DEF FinalizeIn
<1> QED
  BY <1>2, <1>3 DEF Sends

\* A last frame, or none, at the end of a queue.
LEMMA LastFrame ==
    ASSUME NEW q \in Seq(FrameType)
    PROVE  /\ q \o <<>> = q
           /\ \A x \in FrameType : q \o <<x>> = Append(q, x)
  OBVIOUS

\* Closing a connection with a last frame that is no PairAccept.
LEMMA ClosesStep ==
    ASSUME TypeOK, ServerInv, NEW d \in Device, cur[d] \in Run,
           NEW last \in {<<>>, <<"Error">>, <<"PairReject">>}, Closes(d, last),
           NEW f, FinalizeIn(up, f), NEW a, AcceptIn(down, a)
    PROVE  /\ up' \in [Run -> Seq(FrameType)] /\ down' \in [Run -> Seq(FrameType)]
           /\ aEnd' \in [Run -> BOOLEAN]
           /\ rpc' \in [Device -> ServerState] /\ cur' \in [Device -> Run \cup {None}]
           /\ FinalizeIn(up', f) /\ AcceptIn(down', a) /\ ServerInv'
<1> DEFINE r == cur[d]
<1>1. r \in Run /\ down[r] \in Seq(FrameType)
  BY DEF TypeOK
<1>0. \/ down[r] \o last = down[r]
      \/ \E x \in FrameType \ {"PairAccept"} : down[r] \o last = Append(down[r], x)
  <2>1. CASE last = <<>>
    BY <1>1, <2>1, LastFrame
  <2>2. CASE last = <<"Error">>
    BY <1>1, <2>2, LastFrame DEF FrameType
  <2>3. CASE last = <<"PairReject">>
    BY <1>1, <2>3, LastFrame DEF FrameType
  <2> QED
    BY <2>1, <2>2, <2>3
<1>2. /\ aEnd' \in [Run -> BOOLEAN] /\ rpc' \in [Device -> ServerState]
      /\ cur' \in [Device -> Run \cup {None}]
  BY DEF Closes, TypeOK, ServerState
<1>3. ServerInv'
  BY DEF Closes, ServerInv, TypeOK, ServerState
<1>4. up' \in [Run -> Seq(FrameType)] /\ FinalizeIn(up', f)
  BY <1>1, QueueFacts DEF Closes, TypeOK, FinalizeIn
<1>5. down[r] \o last \in Seq(FrameType)
  <2>1. CASE down[r] \o last = down[r]
    BY <1>1, <2>1
  <2>2. ASSUME NEW x \in FrameType, down[r] \o last = Append(down[r], x)
        PROVE  down[r] \o last \in Seq(FrameType)
    <3>1. Append(down[r], x) \in Seq(FrameType)
      BY <1>1
    <3> QED
      BY <2>2, <3>1
  <2> QED
    BY <1>0, <2>1, <2>2
<1>6. down' \in [Run -> Seq(FrameType)]
  BY <1>1, <1>5 DEF Closes, TypeOK
<1>7. ASSUME NEW s \in Run, NEW i \in 1..Len(down'[s]), down'[s][i] = "PairAccept"
      PROVE  s \in a
  <2>1. CASE down'[s] = down[s]
    BY <1>7, <2>1 DEF AcceptIn
  <2>2. CASE s = r /\ down'[s] = down[r] \o last
    <3>1. i \in 1..Len(down[r]) /\ down[r][i] = "PairAccept"
      <4>1. CASE down[r] \o last = down[r]
        BY <1>7, <2>2, <4>1
      <4>2. ASSUME NEW x \in FrameType \ {"PairAccept"},
                   down[r] \o last = Append(down[r], x)
            PROVE  i \in 1..Len(down[r]) /\ down[r][i] = "PairAccept"
        BY <1>1, <1>7, <2>2, <4>2, QueueFacts
      <4> QED
        BY <1>0, <4>1, <4>2
    <3> QED
      BY <2>2, <3>1 DEF AcceptIn
  <2> QED
    BY <2>1, <2>2 DEF Closes, TypeOK
<1> QED
  BY <1>2, <1>3, <1>4, <1>6, <1>7 DEF AcceptIn

\* What the invariant says of the queues.
LEMMA ConsentMeans ==
    ConsentInv <=> /\ final \subseteq agreed
                   /\ FinalizeIn(up, final) /\ AcceptIn(down, agreed)
                   /\ \A r \in Run :
                         /\ pc[r] \in {"confirm", "record", "done"} => r \in agreed
                         /\ pc[r] \in {"record", "done"} => r \in final
  BY DEF ConsentInv, FinalizeIn, AcceptIn

\* One more record in one device's file.
LEMMA OneRecord ==
    ASSUME NEW p \in [Device -> SUBSET Device], NEW x \in Device, NEW y \in Device
    PROVE  /\ [p EXCEPT ![x] = @ \cup {y}] \in [Device -> SUBSET Device]
           /\ \A a, b \in Device : b \in [p EXCEPT ![x] = @ \cup {y}][a] =>
                 b \in p[a] \/ (a = x /\ b = y)
  OBVIOUS

\* A step of an initiator keeps the invariant.
LEMMA InitiatorInv ==
    ASSUME IInv, NEW r \in Run, InitiatorStep(r)
    PROVE  IInv'
<1> USE DEF IInv
<1>a. /\ final \subseteq agreed /\ FinalizeIn(up, final) /\ AcceptIn(down, agreed)
      /\ \A s \in Run : /\ pc[s] \in {"confirm", "record", "done"} => s \in agreed
                        /\ pc[s] \in {"record", "done"} => s \in final
  BY ConsentMeans
<1>1. CASE GiveUp(r)
  BY <1>1 DEF GiveUp, Fails, TypeOK, InitiatorState, ServerInv, ConsentInv,
     PairedByConsent, serverVars, historyVars
<1>2. CASE Connect(r)
  BY <1>2 DEF Connect, TypeOK, InitiatorState, ServerInv, ConsentInv,
     PairedByConsent, serverVars, historyVars
<1>3. CASE Request(r)
  <2>1. /\ up' \in [Run -> Seq(FrameType)] /\ pc' \in [Run -> InitiatorState]
        /\ iEnd' \in [Run -> BOOLEAN] /\ FinalizeIn(up', final)
        /\ \A s \in Run : s # r => pc'[s] = pc[s]
        /\ pc'[r] \in {"await", "failed"}
    BY <1>3, <1>a, SendsStep DEF Request, FrameType, InitiatorState
  <2>2. TypeOK' /\ ServerInv' /\ PairedByConsent'
    BY <1>3, <2>1 DEF Request, TypeOK, ServerInv, PairedByConsent, serverVars,
       historyVars
  <2>3. ConsentInv'
    BY <1>3, <1>a, <2>1, ConsentMeans DEF Request, historyVars, ConsentInv,
       FinalizeIn, AcceptIn
  <2> QED
    BY <2>2, <2>3
<1>4. CASE Response(r)
  <2>1. down[r] \in Seq(FrameType)
    BY DEF TypeOK
  <2>2. down' \in [Run -> Seq(FrameType)] /\ AcceptIn(down', agreed)
    <3>1. CASE UNCHANGED down
      BY <1>a, <3>1 DEF TypeOK
    <3>2. CASE down[r] # <<>> /\ down' = [down EXCEPT ![r] = Tail(@)]
      BY <1>a, <2>1, <3>2, QueueFacts DEF TypeOK, AcceptIn
    <3> QED
      BY <1>4, <3>1, <3>2 DEF Response
  <2>3. pc'[r] = "confirm" => r \in agreed
    BY <1>4, <1>a, <2>1, QueueFacts DEF Response, Fails, AcceptIn, TypeOK
  <2>4. /\ pc' \in [Run -> InitiatorState] /\ iEnd' \in [Run -> BOOLEAN]
        /\ \A s \in Run : s # r => pc'[s] = pc[s]
        /\ pc'[r] \in {"confirm", "failed"}
    BY <1>4 DEF Response, Fails, TypeOK, InitiatorState
  <2>5. TypeOK' /\ ServerInv' /\ PairedByConsent'
    BY <1>4, <2>2, <2>4 DEF Response, TypeOK, ServerInv, PairedByConsent,
       serverVars, historyVars
  <2>6. ConsentInv'
    BY <1>4, <1>a, <2>2, <2>3, <2>4 DEF Response, historyVars, ConsentInv,
       FinalizeIn, AcceptIn
  <2> QED
    BY <2>5, <2>6
<1>5. CASE Cancel(r)
  <2>1. /\ up' \in [Run -> Seq(FrameType)] /\ pc' \in [Run -> InitiatorState]
        /\ iEnd' \in [Run -> BOOLEAN] /\ FinalizeIn(up', final)
        /\ \A s \in Run : s # r => pc'[s] = pc[s]
        /\ pc'[r] \in {"failed"}
    BY <1>5, <1>a, SendsStep DEF Cancel, FrameType, InitiatorState
  <2>2. TypeOK' /\ ServerInv' /\ PairedByConsent'
    BY <1>5, <2>1 DEF Cancel, TypeOK, ServerInv, PairedByConsent, serverVars,
       historyVars
  <2>3. ConsentInv'
    BY <1>5, <1>a, <2>1 DEF Cancel, historyVars, ConsentInv, FinalizeIn, AcceptIn
  <2> QED
    BY <2>2, <2>3
<1>6. CASE Finalize(r)
  <2>1. /\ r \in agreed /\ final' = final \cup {r} /\ agreed' = agreed
        /\ FinalizeIn(up, final')
    BY <1>6, <1>a DEF Finalize, FinalizeIn
  <2>2. /\ up' \in [Run -> Seq(FrameType)] /\ pc' \in [Run -> InitiatorState]
        /\ iEnd' \in [Run -> BOOLEAN] /\ FinalizeIn(up', final')
        /\ \A s \in Run : s # r => pc'[s] = pc[s]
        /\ pc'[r] \in {"record", "failed"}
    BY <1>6, <2>1, SendsStep DEF Finalize, FrameType, InitiatorState
  <2>3. TypeOK' /\ ServerInv'
    BY <1>6, <2>1, <2>2 DEF Finalize, TypeOK, ServerInv, serverVars
  <2>4. PairedByConsent'
    BY <1>6, <2>1 DEF Finalize, PairedByConsent
  <2>5. ConsentInv'
    BY <1>6, <1>a, <2>1, <2>2 DEF Finalize, ConsentInv, FinalizeIn, AcceptIn
  <2> QED
    BY <2>3, <2>4, <2>5
<1>7. CASE Record(r)
  <2>1. r \in agreed /\ r \in final /\ r[1] \in Device /\ r[2] \in Device
        /\ r = <<r[1], r[2]>>
    BY <1>7, <1>a, PairingAssumption DEF Record
  <2>2. /\ pc' \in [Run -> InitiatorState] /\ iEnd' \in [Run -> BOOLEAN]
        /\ \A s \in Run : s # r => pc'[s] = pc[s]
        /\ broken' \in BOOLEAN
        /\ paired' = paired \/ paired' = [paired EXCEPT ![r[1]] = @ \cup {r[2]}]
    BY <1>7 DEF Record, Fails, TypeOK, InitiatorState
  <2>a. paired \in [Device -> SUBSET Device]
    BY DEF TypeOK
  <2>b. /\ [paired EXCEPT ![r[1]] = @ \cup {r[2]}] \in [Device -> SUBSET Device]
        /\ \A a, b \in Device : b \in [paired EXCEPT ![r[1]] = @ \cup {r[2]}][a] =>
              b \in paired[a] \/ (a = r[1] /\ b = r[2])
    BY ONLY <2>1, <2>a, OneRecord
  <2>3. paired' \in [Device -> SUBSET Device]
    BY <2>2, <2>a, <2>b
  <2>4. TypeOK' /\ ServerInv'
    BY <1>7, <2>2, <2>3 DEF Record, TypeOK, ServerInv, serverVars
  <2>5. ConsentInv'
    BY <1>7, <1>a, <2>1, <2>2 DEF Record, ConsentInv, FinalizeIn, AcceptIn
  <2>6. \A a, b \in Device :
           b \in paired'[a] => b \in paired[a] \/ (a = r[1] /\ b = r[2])
    BY <2>2, <2>b
  <2>7. PairedByConsent'
    BY <1>7, <2>1, <2>6 DEF Record, PairedByConsent
  <2> QED
    BY <2>4, <2>5, <2>7
<1> QED
  BY <1>1, <1>2, <1>3, <1>4, <1>5, <1>6, <1>7 DEF InitiatorStep

\* A connection closed in the middle of the handshake.
LEMMA ClosesKeeps ==
    ASSUME IInv, NEW d \in Device, cur[d] \in Run,
           NEW last \in {<<>>, <<"Error">>, <<"PairReject">>}, Closes(d, last),
           agreed' \in SUBSET Run, agreed \subseteq agreed', broken' \in BOOLEAN,
           UNCHANGED <<pc, iEnd, backlog, paired, kills, final>>
    PROVE  IInv'
<1> USE DEF IInv
<1>a. /\ final \subseteq agreed /\ FinalizeIn(up, final) /\ AcceptIn(down, agreed)
      /\ \A s \in Run : /\ pc[s] \in {"confirm", "record", "done"} => s \in agreed
                        /\ pc[s] \in {"record", "done"} => s \in final
  BY ConsentMeans
<1>1. AcceptIn(down, agreed')
  BY <1>a DEF AcceptIn
<1>2. /\ up' \in [Run -> Seq(FrameType)] /\ down' \in [Run -> Seq(FrameType)]
      /\ aEnd' \in [Run -> BOOLEAN]
      /\ rpc' \in [Device -> ServerState] /\ cur' \in [Device -> Run \cup {None}]
      /\ FinalizeIn(up', final) /\ AcceptIn(down', agreed') /\ ServerInv'
  BY <1>a, <1>1, ClosesStep
<1>3. TypeOK'
  BY <1>2 DEF TypeOK
<1>4. PairedByConsent'
  BY DEF PairedByConsent
<1>5. ConsentInv'
  BY <1>a, <1>2 DEF ConsentInv, FinalizeIn, AcceptIn
<1> QED
  BY <1>2, <1>3, <1>4, <1>5

\* A receiver that serves a run is the one the run is against.
LEMMA ServedRun ==
    ASSUME TypeOK, ServerInv, NEW d \in Device,
           rpc[d] \in {"initial", "prompt", "final"}
    PROVE  cur[d] \in Run /\ cur[d][2] = d
  BY DEF ServerInv, TypeOK

\* A step of a receiver keeps the invariant.
LEMMA ServerKeeps ==
    ASSUME IInv, NEW d \in Device, ServerStep(d)
    PROVE  IInv'
<1> USE DEF IInv
<1>a. /\ final \subseteq agreed /\ FinalizeIn(up, final) /\ AcceptIn(down, agreed)
      /\ \A s \in Run : /\ pc[s] \in {"confirm", "record", "done"} => s \in agreed
                        /\ pc[s] \in {"record", "done"} => s \in final
  BY ConsentMeans
<1>c. rpc[d] \in {"initial", "prompt", "final"} => cur[d] \in Run /\ cur[d][2] = d
  BY ServedRun
<1>1. CASE Accept(d)
  <2>1. PICK r \in backlog : /\ r[2] = d
                             /\ cur' = [cur EXCEPT ![d] = r]
                             /\ backlog' = backlog \ {r}
    BY <1>1 DEF Accept
  <2>2. r \in Run /\ r # None
    BY PairingAssumption DEF TypeOK
  <2>3. TypeOK'
    BY <1>1, <2>1, <2>2 DEF Accept, TypeOK, ServerState, historyVars
  <2>4. ServerInv'
    BY <1>1, <2>1, <2>2 DEF Accept, TypeOK, ServerInv
  <2>5. ConsentInv' /\ PairedByConsent'
    BY <1>1 DEF Accept, ConsentInv, PairedByConsent, historyVars
  <2> QED
    BY <2>3, <2>4, <2>5
<1>2. CASE ReceiveRequest(d)
  <2>1. CASE Throws(d)
    BY <1>2, ClosesKeeps, <1>c, <2>1 DEF ReceiveRequest, Throws, historyVars, TypeOK
  <2>2. CASE /\ rpc' = [rpc EXCEPT ![d] = "prompt"]
             /\ up' = [up EXCEPT ![cur[d]] = Tail(@)]
             /\ UNCHANGED <<down, aEnd, cur>>
    <3>1. cur[d] \in Run /\ up[cur[d]] \in Seq(FrameType) /\ up[cur[d]] # <<>>
      BY <1>2, <1>c DEF ReceiveRequest, TypeOK
    <3>2. up' \in [Run -> Seq(FrameType)] /\ FinalizeIn(up', final)
      BY <1>a, <2>2, <3>1, QueueFacts DEF FinalizeIn, TypeOK
    <3>3. TypeOK' /\ ServerInv' /\ PairedByConsent'
      BY <1>2, <2>2, <3>1, <3>2 DEF ReceiveRequest, TypeOK, ServerState, ServerInv,
         PairedByConsent, historyVars
    <3>4. ConsentInv'
      BY <1>2, <1>a, <2>2, <3>2 DEF ReceiveRequest, historyVars, ConsentInv,
         FinalizeIn, AcceptIn
    <3> QED
      BY <3>3, <3>4
  <2> QED
    BY <1>2, <2>1, <2>2 DEF ReceiveRequest
<1>3. CASE EndOfStream(d)
  BY <1>3, ClosesKeeps, <1>c DEF EndOfStream, Throws, historyVars, TypeOK
<1>4. CASE Agree(d)
  <2>1. cur[d] \in Run /\ agreed' = agreed \cup {cur[d]} /\ final' = final
    BY <1>4, <1>c DEF Agree
  <2>2. CASE Throws(d)
    BY <1>4, ClosesKeeps, <2>1, <2>2 DEF Agree, Throws, TypeOK
  <2>3. CASE /\ down' = [down EXCEPT ![cur[d]] =
                            IF iEnd[cur[d]] THEN Append(@, "PairAccept") ELSE @]
             /\ rpc' = [rpc EXCEPT ![d] = "final"]
             /\ UNCHANGED <<up, aEnd, cur>>
    <3>1. down[cur[d]] \in Seq(FrameType) /\ "PairAccept" \in FrameType
      BY <2>1 DEF TypeOK, FrameType
    <3>2. down' \in [Run -> Seq(FrameType)]
      BY <2>1, <2>3, <3>1, QueueFacts DEF TypeOK
    <3>3. AcceptIn(down', agreed')
      BY <1>a, <2>1, <2>3 DEF AcceptIn, TypeOK
    <3>4. TypeOK' /\ ServerInv'
      BY <1>4, <2>1, <2>3, <3>2 DEF Agree, TypeOK, ServerState, ServerInv
    <3>5. PairedByConsent'
      BY <1>4, <2>1 DEF Agree, PairedByConsent
    <3>6. ConsentInv'
      BY <1>4, <1>a, <2>1, <2>3, <3>3 DEF Agree, ConsentInv, FinalizeIn, AcceptIn
    <3> QED
      BY <3>4, <3>5, <3>6
  <2> QED
    BY <1>4, <2>2, <2>3 DEF Agree
<1>5. CASE Decline(d)
  BY <1>5, ClosesKeeps, <1>c DEF Decline, historyVars, TypeOK
<1>6. CASE ReceiveFinal(d)
  <2>1. /\ cur[d] \in Run /\ cur[d][2] = d /\ up[cur[d]] \in Seq(FrameType)
        /\ up[cur[d]] # <<>>
    BY <1>6, <1>c DEF ReceiveFinal, TypeOK
  <2>2. CASE Throws(d) /\ UNCHANGED paired /\ broken' \in BOOLEAN
    BY <1>6, ClosesKeeps, <2>1, <2>2 DEF ReceiveFinal, Throws, TypeOK
  <2>3. CASE /\ Head(up[cur[d]]) = "PairFinalize"
             /\ Closes(d, <<>>)
             /\ paired' = [paired EXCEPT ![d] = @ \cup {cur[d][1]}]
             /\ UNCHANGED broken
    <3>1. cur[d] \in final /\ cur[d] \in agreed
      BY <1>a, <2>1, <2>3, QueueFacts DEF FinalizeIn
    <3>2. cur[d][1] \in Device /\ cur[d] = <<cur[d][1], d>>
      BY <2>1, PairingAssumption
    <3>3. /\ up' \in [Run -> Seq(FrameType)] /\ down' \in [Run -> Seq(FrameType)]
          /\ aEnd' \in [Run -> BOOLEAN]
          /\ rpc' \in [Device -> ServerState] /\ cur' \in [Device -> Run \cup {None}]
          /\ FinalizeIn(up', final) /\ AcceptIn(down', agreed) /\ ServerInv'
      BY <1>a, <2>1, <2>3, ClosesStep
    <3>4. TypeOK'
      BY <1>6, <2>3, <3>2, <3>3 DEF ReceiveFinal, TypeOK
    <3>5. PairedByConsent'
      BY <1>6, <2>3, <3>1, <3>2 DEF ReceiveFinal, PairedByConsent, TypeOK
    <3>6. ConsentInv'
      BY <1>6, <1>a, <3>3 DEF ReceiveFinal, ConsentInv, FinalizeIn, AcceptIn
    <3> QED
      BY <3>3, <3>4, <3>5, <3>6
  <2> QED
    BY <1>6, <2>2, <2>3 DEF ReceiveFinal, TypeOK
<1> QED
  BY <1>1, <1>2, <1>3, <1>4, <1>5, <1>6 DEF ServerStep, Answer

\* A failure of the environment keeps the invariant.
LEMMA EnvironmentKeeps ==
    ASSUME IInv, Environment
    PROVE  IInv'
<1> USE DEF IInv
<1>1. ASSUME NEW d \in Device, KillServer(d)
      PROVE  IInv'
  <2>1. up' \in [Run -> Seq(FrameType)] /\ aEnd' \in [Run -> BOOLEAN]
        /\ \A r \in Run : up'[r] = up[r] \/ up'[r] = <<>>
    BY <1>1, QueueFacts DEF KillServer, TypeOK
  <2>2. TypeOK' /\ ServerInv' /\ PairedByConsent'
    BY <1>1, <2>1 DEF KillServer, TypeOK, ServerState, ServerInv, PairedByConsent
  <2>3. ConsentInv'
    BY <1>1, <2>1, QueueFacts DEF KillServer, ConsentInv
  <2> QED
    BY <2>2, <2>3
<1>2. ASSUME NEW d \in Device, StartServer(d)
      PROVE  IInv'
  BY <1>2 DEF StartServer, TypeOK, ServerState, ServerInv, ConsentInv,
     PairedByConsent, connVars, historyVars
<1>3. ASSUME NEW r \in Run, KillInitiator(r)
      PROVE  IInv'
  BY <1>3 DEF KillInitiator, Fails, TypeOK, InitiatorState, ServerInv, ConsentInv,
     PairedByConsent, serverVars
<1>4. ASSUME NEW r \in Run, Reset(r)
      PROVE  IInv'
  <2>1. /\ up' \in [Run -> Seq(FrameType)] /\ down' \in [Run -> Seq(FrameType)]
        /\ \A s \in Run : /\ up'[s] = up[s] \/ up'[s] = <<>>
                          /\ down'[s] = down[s] \/ down'[s] = <<>>
    BY <1>4, QueueFacts DEF Reset, TypeOK
  <2>2. TypeOK' /\ ServerInv' /\ PairedByConsent'
    BY <1>4, <2>1 DEF Reset, TypeOK, ServerInv, PairedByConsent, serverVars
  <2>3. ConsentInv'
    BY <1>4, <2>1, QueueFacts DEF Reset, ConsentInv
  <2> QED
    BY <2>2, <2>3
<1>5. ASSUME NEW d \in Device, ReadTimesOut(d)
      PROVE  IInv'
  <2>1. cur[d] \in Run
    BY <1>5, ServedRun DEF ReadTimesOut
  <2> QED
    BY <1>5, <2>1, ClosesKeeps DEF ReadTimesOut, Throws, TypeOK
<1>6. ASSUME NEW r \in Run, ResponseTimesOut(r)
      PROVE  IInv'
  BY <1>6 DEF ResponseTimesOut, Fails, TypeOK, InitiatorState, ServerInv, ConsentInv,
     PairedByConsent, serverVars
<1> QED
  BY <1>1, <1>2, <1>3, <1>4, <1>5, <1>6 DEF Environment

\* The invariant holds at first.
LEMMA InitInv == Init => IInv
<1> SUFFICES ASSUME Init PROVE IInv
  OBVIOUS
<1>1. TypeOK
  BY QueueFacts DEF Init, TypeOK, InitiatorState, ServerState
<1>2. ServerInv
  BY DEF Init, ServerInv
<1>3. \A r \in Run : 1..Len(up[r]) = {} /\ 1..Len(down[r]) = {}
  BY QueueFacts DEF Init
<1>4. ConsentInv
  BY <1>3 DEF Init, ConsentInv
<1>5. PairedByConsent
  BY DEF Init, PairedByConsent
<1> QED
  BY <1>1, <1>2, <1>4, <1>5 DEF IInv

\* Every step keeps it.
LEMMA StepInv == IInv /\ [Next]_vars => IInv'
<1> SUFFICES ASSUME IInv, [Next]_vars PROVE IInv'
  OBVIOUS
<1>1. CASE UNCHANGED vars
  BY <1>1 DEF vars, connVars, serverVars, historyVars, IInv, TypeOK, ServerInv,
     ConsentInv, PairedByConsent
<1> QED
  BY <1>1, InitiatorInv, ServerKeeps, EnvironmentKeeps DEF Next

\* The invariant of every run.
THEOREM Invariance == Spec => []IInv
<1> QED
  BY InitInv, StepInv, PTL DEF Spec

\* Every variable keeps its type.
THEOREM TypeCorrect == Spec => []TypeOK
<1>1. IInv => TypeOK
  BY DEF IInv
<1> QED
  BY <1>1, Invariance, PTL

\* No device counts another as paired without both users' consent.
THEOREM PairingNeedsConsent == Spec => []PairedByConsent
<1>1. IInv => PairedByConsent
  BY DEF IInv
<1> QED
  BY <1>1, Invariance, PTL
-----------------------------------------------------------------------------
(* Without a fault neither device is left alone with the record.           *)

Running == {"connected", "await", "confirm", "record"}

\* What the receiver of the other device is doing with r.
Waiting(r)  == r \in backlog \/ (cur[r[2]] = r /\ rpc[r[2]] = "initial")
Prompted(r) == cur[r[2]] = r /\ rpc[r[2]] = "prompt"
Deciding(r) == cur[r[2]] = r /\ rpc[r[2]] = "final"

\* The two ends of r are at matching places of the handshake: while the
\* initiator's user is asked, the accepter waits for the answer with an open
\* connection, and a PairFinalize that was sent is in front of it until its
\* record is made.
Matches(r) ==
    /\ iEnd[r] <=> pc[r] \in Running
    /\ aEnd[r] <=> Waiting(r) \/ Prompted(r) \/ Deciding(r)
    /\ r \in backlog => cur[r[2]] # r
    /\ pc[r] = "idle" => ~aEnd[r] /\ up[r] = <<>> /\ down[r] = <<>>
    /\ pc[r] = "connected" => Waiting(r) /\ up[r] = <<>> /\ down[r] = <<>>
    /\ pc[r] = "await" =>
          \/ Waiting(r) /\ up[r] = <<"PairRequest">> /\ down[r] = <<>>
          \/ Prompted(r) /\ up[r] = <<>> /\ down[r] = <<>>
          \/ Deciding(r) /\ up[r] = <<>> /\ down[r] = <<"PairAccept">>
          \/ ~aEnd[r] /\ down[r] \in {<<"Error">>, <<"PairReject">>}
    /\ pc[r] = "confirm" => Deciding(r) /\ up[r] = <<>>
    /\ r \in final <=> pc[r] \in {"record", "done"}
    /\ r \in final => \/ Deciding(r) /\ up[r] = <<"PairFinalize">>
                      \/ r[1] \in paired[r[2]]
    /\ pc[r] = "done" => r[2] \in paired[r[1]]

HandshakeInv == ~broken => \A r \in Run : Matches(r)

\* Sequences of no frame and of one.
LEMMA ShortQueues ==
    /\ \A x \in FrameType : /\ Append(<<>>, x) = <<x>> /\ <<>> \o <<x>> = <<x>>
                            /\ Tail(<<x>>) = <<>> /\ Head(<<x>>) = x /\ <<x>> # <<>>
  OBVIOUS

\* A run is of two different devices, and is not None.
LEMMA RunFacts ==
    ASSUME NEW r \in Run
    PROVE  r[1] \in Device /\ r[2] \in Device /\ r # None
  BY PairingAssumption

\* A step that concerns other runs, and at most makes more records.
LEMMA Untouched ==
    ASSUME NEW r \in Run, Matches(r),
           pc'[r] = pc[r], up'[r] = up[r], down'[r] = down[r],
           iEnd'[r] = iEnd[r], aEnd'[r] = aEnd[r],
           r \in backlog' <=> r \in backlog, r \in final' <=> r \in final,
           paired[r[1]] \subseteq paired'[r[1]], paired[r[2]] \subseteq paired'[r[2]],
           \/ cur'[r[2]] = cur[r[2]] /\ rpc'[r[2]] = rpc[r[2]]
           \/ cur'[r[2]] # r /\ cur[r[2]] # r
    PROVE  Matches(r)'
<1>1. /\ Waiting(r)' <=> Waiting(r)
      /\ Prompted(r)' <=> Prompted(r)
      /\ Deciding(r)' <=> Deciding(r)
  BY DEF Waiting, Prompted, Deciding
<1>2. r \in backlog' => cur'[r[2]] # r
  BY DEF Matches
<1> QED
  BY <1>1, <1>2 DEF Matches

\* A step that changes nothing but one run's initiator, up and down.
LEMMA OthersMatch ==
    ASSUME TypeOK, NEW r \in Run, NEW s \in Run, s # r, Matches(s),
           UNCHANGED <<serverVars>>,
           pc'[s] = pc[s], up'[s] = up[s], down'[s] = down[s],
           iEnd'[s] = iEnd[s], aEnd'[s] = aEnd[s],
           s \in backlog' <=> s \in backlog, s \in final' <=> s \in final,
           \A d \in Device : paired[d] \subseteq paired'[d]
    PROVE  Matches(s)'
  BY RunFacts, Untouched DEF serverVars

\* Sending to an end that is open appends the frame.
LEMMA SendsOpen ==
    ASSUME TypeOK, NEW r \in Run, NEW type \in FrameType, NEW next \in InitiatorState,
           Sends(r, type, next), aEnd[r], iEnd[r]
    PROVE  /\ up'[r] = Append(up[r], type) /\ pc'[r] = next
           /\ iEnd'[r] = (next # "failed")
           /\ \A s \in Run : s # r => /\ up'[s] = up[s] /\ pc'[s] = pc[s]
                                      /\ iEnd'[s] = iEnd[s]
  BY DEF Sends, TypeOK

\* The steps of an initiator.
LEMMA InitiatorMatches ==
    ASSUME IInv, HandshakeInv, NEW r \in Run, InitiatorStep(r)
    PROVE  HandshakeInv'
<1> SUFFICES ASSUME ~broken' PROVE \A s \in Run : Matches(s)'
  BY DEF HandshakeInv
<1>0. /\ TypeOK /\ ServerInv /\ ~broken
      /\ \A s \in Run : Matches(s)
  <2>1. ~broken
    BY DEF InitiatorStep, GiveUp, Connect, Request, Response, Cancel, Finalize, Record,
           historyVars
  <2> QED
    BY <2>1 DEF HandshakeInv, IInv
<1>1. CASE GiveUp(r)
  <2>1. pc[r] = "idle" /\ Matches(r)
    BY <1>0, <1>1 DEF GiveUp
  <2>2. /\ pc'[r] = "failed" /\ ~iEnd'[r]
        /\ \A s \in Run : s # r => pc'[s] = pc[s] /\ iEnd'[s] = iEnd[s]
    BY <1>0, <1>1 DEF GiveUp, Fails, TypeOK
  <2>3. Matches(r)'
    BY <1>1, <2>1, <2>2
    DEF GiveUp, Matches, Waiting, Prompted, Deciding, Running, serverVars, historyVars
  <2>4. \A s \in Run : s # r => Matches(s)'
    BY <1>0, <1>1, <2>2, OthersMatch DEF GiveUp, serverVars, historyVars
  <2> QED
    BY <2>3, <2>4
<1>2. CASE Connect(r)
  <2>1. Matches(r)'
    <3>1. pc[r] = "idle" /\ ~aEnd[r] /\ up[r] = <<>> /\ down[r] = <<>> /\ r \notin final
      BY <1>0, <1>2 DEF Connect, Matches
    <3>2. cur[r[2]] # r
      BY <1>0, <3>1, RunFacts DEF Matches, Waiting, Prompted, Deciding, ServerInv
    <3> QED
      BY <1>0, <1>2, <3>1, <3>2
      DEF Connect, Matches, Waiting, Prompted, Deciding, Running, TypeOK,
          serverVars, historyVars
  <2>2. \A s \in Run : s # r => Matches(s)'
    BY <1>0, <1>2, OthersMatch DEF Connect, TypeOK, serverVars, historyVars
  <2> QED
    BY <2>1, <2>2
<1>3. CASE Request(r)
  <2>1. pc[r] = "connected" /\ Waiting(r) /\ aEnd[r] /\ up[r] = <<>> /\ down[r] = <<>>
        /\ r \notin final /\ iEnd[r]
    BY <1>0, <1>3 DEF Request, Matches, Running
  <2>2. /\ up'[r] = <<"PairRequest">> /\ pc'[r] = "await" /\ iEnd'[r]
        /\ \A s \in Run : s # r => /\ up'[s] = up[s] /\ pc'[s] = pc[s]
                                   /\ iEnd'[s] = iEnd[s]
    BY <1>0, <1>3, <2>1, SendsOpen, ShortQueues DEF Request, FrameType, InitiatorState
  <2>3. Matches(r)'
    BY <1>0, <1>3, <2>1, <2>2
    DEF Request, Matches, Waiting, Prompted, Deciding, Running, serverVars, historyVars
  <2>4. \A s \in Run : s # r => Matches(s)'
    BY <1>0, <1>3, <2>2, OthersMatch DEF Request, serverVars, historyVars
  <2> QED
    BY <2>3, <2>4
<1>4. CASE Response(r)
  <2>1. /\ pc[r] = "await" /\ iEnd[r] /\ r \notin final
        /\ \/ ~aEnd[r] /\ down[r] \in {<<"Error">>, <<"PairReject">>}
           \/ aEnd[r] /\ down[r] = <<>>
           \/ Deciding(r) /\ up[r] = <<>> /\ down[r] = <<"PairAccept">>
    BY <1>0, <1>4 DEF Response, Matches, Running
  <2>2. CASE ~aEnd[r] /\ down[r] \in {<<"Error">>, <<"PairReject">>}
    <3>1. down[r] # <<>> /\ Head(down[r]) # "PairAccept"
      BY <2>2, ShortQueues DEF FrameType
    <3>2. /\ pc'[r] = "failed" /\ ~iEnd'[r]
          /\ \A s \in Run : s # r => /\ pc'[s] = pc[s] /\ iEnd'[s] = iEnd[s]
                                     /\ down'[s] = down[s]
      BY <1>0, <1>4, <3>1 DEF Response, Fails, TypeOK
    <3>3. Matches(r)'
      BY <1>0, <1>4, <2>1, <3>2
      DEF Response, Matches, Waiting, Prompted, Deciding, Running, serverVars, historyVars
    <3>4. \A s \in Run : s # r => Matches(s)'
      BY <1>0, <1>4, <3>2, OthersMatch DEF Response, serverVars, historyVars
    <3> QED
      BY <3>3, <3>4
  <2>3. CASE aEnd[r] /\ down[r] = <<>>
    BY <1>4, <2>3 DEF Response
  <2>4. CASE Deciding(r) /\ up[r] = <<>> /\ down[r] = <<"PairAccept">>
    <3>1. down[r] # <<>> /\ Head(down[r]) = "PairAccept"
      BY <2>4, ShortQueues DEF FrameType
    <3>2. /\ pc'[r] = "confirm" /\ iEnd'[r]
          /\ \A s \in Run : s # r => /\ pc'[s] = pc[s] /\ iEnd'[s] = iEnd[s]
                                     /\ down'[s] = down[s]
      BY <1>0, <1>4, <2>1, <3>1 DEF Response, TypeOK
    <3>3. Matches(r)'
      BY <1>0, <1>4, <2>1, <2>4, <3>2
      DEF Response, Matches, Waiting, Prompted, Deciding, Running, serverVars, historyVars
    <3>4. \A s \in Run : s # r => Matches(s)'
      BY <1>0, <1>4, <3>2, OthersMatch DEF Response, serverVars, historyVars
    <3> QED
      BY <3>3, <3>4
  <2> QED
    BY <2>1, <2>2, <2>3, <2>4
<1>5. CASE Cancel(r)
  <2>1. pc[r] = "confirm" /\ Deciding(r) /\ aEnd[r] /\ up[r] = <<>> /\ r \notin final
        /\ iEnd[r]
    BY <1>0, <1>5 DEF Cancel, Matches, Running
  <2>2. /\ pc'[r] = "failed" /\ ~iEnd'[r]
        /\ \A s \in Run : s # r => /\ up'[s] = up[s] /\ pc'[s] = pc[s]
                                   /\ iEnd'[s] = iEnd[s]
    BY <1>0, <1>5, <2>1, SendsOpen DEF Cancel, FrameType, InitiatorState
  <2>3. Matches(r)'
    BY <1>0, <1>5, <2>1, <2>2
    DEF Cancel, Matches, Waiting, Prompted, Deciding, Running, serverVars, historyVars
  <2>4. \A s \in Run : s # r => Matches(s)'
    BY <1>0, <1>5, <2>2, OthersMatch DEF Cancel, serverVars, historyVars
  <2> QED
    BY <2>3, <2>4
<1>6. CASE Finalize(r)
  <2>1. pc[r] = "confirm" /\ Deciding(r) /\ aEnd[r] /\ up[r] = <<>> /\ iEnd[r]
    BY <1>0, <1>6 DEF Finalize, Matches, Running
  <2>2. /\ up'[r] = <<"PairFinalize">> /\ pc'[r] = "record" /\ iEnd'[r]
        /\ \A s \in Run : s # r => /\ up'[s] = up[s] /\ pc'[s] = pc[s]
                                   /\ iEnd'[s] = iEnd[s]
    BY <1>0, <1>6, <2>1, SendsOpen, ShortQueues DEF Finalize, FrameType, InitiatorState
  <2>3. Matches(r)'
    BY <1>0, <1>6, <2>1, <2>2
    DEF Finalize, Matches, Waiting, Prompted, Deciding, Running, serverVars
  <2>4. \A s \in Run : s # r => Matches(s)'
    BY <1>0, <1>6, <2>2, OthersMatch DEF Finalize, serverVars
  <2> QED
    BY <2>3, <2>4
<1>7. CASE Record(r)
  <2>1. pc[r] = "record" /\ r \in final /\ r[1] \in Device /\ r[2] \in Device
    BY <1>0, <1>7, RunFacts DEF Record, Matches
  <2>2. /\ paired' = [paired EXCEPT ![r[1]] = @ \cup {r[2]}]
        /\ pc' = [pc EXCEPT ![r] = "done"]
        /\ iEnd' = [iEnd EXCEPT ![r] = FALSE]
    BY <1>7 DEF Record
  <2>3. /\ pc'[r] = "done" /\ ~iEnd'[r] /\ r[2] \in paired'[r[1]]
        /\ \A d \in Device : paired[d] \subseteq paired'[d]
        /\ \A s \in Run : s # r => pc'[s] = pc[s] /\ iEnd'[s] = iEnd[s]
    BY <1>0, <2>1, <2>2 DEF TypeOK
  <2>4. Matches(r)'
    BY <1>0, <1>7, <2>1, <2>3
    DEF Record, Matches, Waiting, Prompted, Deciding, Running, serverVars
  <2>5. \A s \in Run : s # r => Matches(s)'
    BY <1>0, <1>7, <2>3, OthersMatch DEF Record, serverVars
  <2> QED
    BY <2>4, <2>5
<1> QED
  BY <1>1, <1>2, <1>3, <1>4, <1>5, <1>6, <1>7 DEF InitiatorStep

\* Closing a connection: the initiator that waits for an answer finds the last
\* frame, and one that has finalized has left its record.
LEMMA ClosesMatches ==
    ASSUME TypeOK, ServerInv, NEW d \in Device, cur[d] \in Run, cur[d][2] = d,
           NEW last \in {<<>>, <<"Error">>, <<"PairReject">>}, Closes(d, last),
           \A s \in Run : Matches(s),
           UNCHANGED <<pc, iEnd, backlog, final>>,
           \A e \in Device : paired[e] \subseteq paired'[e],
           pc[cur[d]] \notin {"connected", "confirm"},
           pc[cur[d]] = "await" => down[cur[d]] = <<>> /\ last # <<>>,
           cur[d] \in final => cur[d][1] \in paired'[d]
    PROVE  \A s \in Run : Matches(s)'
<1>0. PICK r \in Run : r = cur[d]
  OBVIOUS
<1>1. /\ r \in Run /\ r[2] = d /\ r[1] \in Device
      /\ up'[r] = <<>> /\ ~aEnd'[r] /\ rpc'[d] = "accept" /\ cur'[d] = None
      /\ down'[r] = IF iEnd[r] THEN down[r] \o last ELSE down[r]
      /\ \A s \in Run : s # r => /\ up'[s] = up[s] /\ aEnd'[s] = aEnd[s]
                                 /\ down'[s] = down[s]
      /\ \A e \in Device : e # d => cur'[e] = cur[e] /\ rpc'[e] = rpc[e]
  BY <1>0, RunFacts DEF Closes, TypeOK
<1>2. r # None /\ Matches(r) /\ r \notin backlog
  BY <1>0, <1>1, RunFacts DEF Matches
<1>3. pc[r] = "await" => down'[r] \in {<<"Error">>, <<"PairReject">>}
  <2> SUFFICES ASSUME pc[r] = "await" PROVE down'[r] \in {<<"Error">>, <<"PairReject">>}
    OBVIOUS
  <2>1. iEnd[r] /\ down[r] = <<>> /\ last \in {<<"Error">>, <<"PairReject">>}
    BY <1>0, <1>2 DEF Matches, Running
  <2> QED
    BY <1>1, <2>1, ShortQueues DEF FrameType
<1>4. /\ ~Waiting(r)'
      /\ ~Prompted(r)'
      /\ ~Deciding(r)'
  BY <1>1, <1>2 DEF Waiting, Prompted, Deciding
<1>5. aEnd[r] /\ pc[r] \notin {"connected", "confirm", "idle"}
  <2>1. rpc[d] \in {"initial", "prompt", "final"}
    BY <1>0, <1>1, <1>2 DEF ServerInv
  <2> QED
    BY <1>0, <1>1, <1>2, <2>1 DEF Matches, Waiting, Prompted, Deciding
<1>6. pc[r] = "done" => r[2] \in paired'[r[1]]
  BY <1>1, <1>2 DEF Matches
<1>7. r \in final => r[1] \in paired'[r[2]]
  BY <1>0, <1>1
<1>8. Matches(r)'
  BY <1>1, <1>2, <1>3, <1>4, <1>5, <1>6, <1>7 DEF Matches
<1>9. ASSUME NEW s \in Run, s # r
      PROVE  Matches(s)'
  <2>1. /\ s[1] \in Device /\ s[2] \in Device /\ s # None
        /\ \/ cur'[s[2]] = cur[s[2]] /\ rpc'[s[2]] = rpc[s[2]]
           \/ cur'[s[2]] # s /\ cur[s[2]] # s
    BY <1>0, <1>1, <1>9, RunFacts
  <2> QED
    BY <1>1, <1>9, <2>1, Untouched
<1> QED
  BY <1>8, <1>9

\* The steps of a receiver.
LEMMA ServerMatches ==
    ASSUME IInv, HandshakeInv, NEW d \in Device, ServerStep(d)
    PROVE  HandshakeInv'
<1> SUFFICES ASSUME ~broken' PROVE \A s \in Run : Matches(s)'
  BY DEF HandshakeInv
<1>0. /\ TypeOK /\ ServerInv /\ ~broken
      /\ \A s \in Run : Matches(s)
  <2>1. ~broken
    BY DEF ServerStep, Accept, ReceiveRequest, EndOfStream, Answer, Agree, Decline,
           ReceiveFinal, historyVars
  <2> QED
    BY <2>1 DEF HandshakeInv, IInv
<1>c. rpc[d] \in {"initial", "prompt", "final"} =>
        /\ cur[d] \in Run /\ cur[d][2] = d /\ cur[d] \notin backlog
        /\ Matches(cur[d]) /\ aEnd[cur[d]]
  <2>1. rpc[d] \in {"initial", "prompt", "final"} => cur[d] \in Run /\ cur[d][2] = d
    BY <1>0, ServedRun
  <2> QED
    BY <1>0, <2>1 DEF Matches, Waiting, Prompted, Deciding
<1>p. \A e \in Device : paired[e] \subseteq paired[e]
  OBVIOUS
<1>1. CASE Accept(d)
  <2>1. PICK r \in backlog : /\ r[2] = d
                             /\ cur' = [cur EXCEPT ![d] = r]
                             /\ backlog' = backlog \ {r}
    BY <1>1 DEF Accept
  <2>2. r \in Run /\ rpc[d] = "accept" /\ rpc' = [rpc EXCEPT ![d] = "initial"]
        /\ UNCHANGED <<pc, up, down, iEnd, aEnd, paired, final>>
    BY <1>0, <1>1 DEF Accept, TypeOK, historyVars
  <2>3. cur[d] = None
    BY <1>0, <2>2 DEF ServerInv
  <2>4. cur'[d] = r /\ rpc'[d] = "initial"
        /\ \A e \in Device : e # d => cur'[e] = cur[e] /\ rpc'[e] = rpc[e]
    BY <1>0, <2>1, <2>2 DEF TypeOK
  <2>5. Matches(r)'
    <3>1. /\ Waiting(r) /\ Waiting(r)'
          /\ ~Prompted(r) /\ ~Prompted(r)'
          /\ ~Deciding(r) /\ ~Deciding(r)'
          /\ r \notin backlog'
      BY <2>1, <2>2, <2>4 DEF Waiting, Prompted, Deciding
    <3> QED
      BY <1>0, <2>2, <3>1 DEF Matches
  <2>6. ASSUME NEW s \in Run, s # r
        PROVE  Matches(s)'
    <3>1. /\ s[1] \in Device /\ s[2] \in Device /\ s # None
          /\ \/ cur'[s[2]] = cur[s[2]] /\ rpc'[s[2]] = rpc[s[2]]
             \/ cur'[s[2]] # s /\ cur[s[2]] # s
      BY <2>3, <2>4, <2>6, RunFacts
    <3> QED
      BY <1>0, <2>1, <2>2, <2>6, <3>1, Untouched
  <2> QED
    BY <2>5, <2>6
<1>2. CASE ReceiveRequest(d)
  <2>0. PICK r \in Run : r = cur[d]
    BY <1>2, <1>c DEF ReceiveRequest
  <2>1. /\ r \in Run /\ r[2] = d /\ r \notin backlog /\ Matches(r) /\ aEnd[r]
        /\ rpc[d] = "initial" /\ up[r] # <<>>
        /\ UNCHANGED <<pc, iEnd, backlog, paired, final>>
    BY <1>2, <1>c, <2>0 DEF ReceiveRequest, historyVars
  <2>2. /\ pc[r] \notin {"idle", "connected", "confirm"}
        /\ pc[r] = "await" => up[r] = <<"PairRequest">> /\ down[r] = <<>>
        /\ r \in final => r[1] \in paired[d]
    BY <2>0, <2>1 DEF Matches, Prompted, Deciding
  <2>3. CASE Throws(d)
    <3>1. <<"Error">> # <<>>
      OBVIOUS
    <3> QED
      BY <1>0, <1>p, <2>0, <2>1, <2>2, <2>3, <3>1, ClosesMatches DEF Throws
  <2>4. CASE /\ rpc' = [rpc EXCEPT ![d] = "prompt"]
             /\ up' = [up EXCEPT ![cur[d]] = Tail(@)]
             /\ UNCHANGED <<down, aEnd, cur>>
    <3>1. /\ rpc'[d] = "prompt" /\ up'[r] = Tail(up[r])
          /\ \A s \in Run : s # r => up'[s] = up[s]
          /\ \A e \in Device : e # d => rpc'[e] = rpc[e]
      BY <1>0, <2>0, <2>1, <2>4 DEF TypeOK
    <3>2. pc[r] = "await" => up'[r] = <<>>
      BY <2>2, <3>1, ShortQueues DEF FrameType
    <3>3. /\ Prompted(r)'
          /\ ~Waiting(r)'
          /\ ~Deciding(r)'
      BY <2>0, <2>1, <2>4, <3>1 DEF Waiting, Prompted, Deciding
    <3>4. Matches(r)'
      BY <2>0, <2>1, <2>2, <2>4, <3>2, <3>3 DEF Matches
    <3>5. ASSUME NEW s \in Run, s # r
          PROVE  Matches(s)'
      <4>1. /\ s[1] \in Device /\ s[2] \in Device
            /\ \/ cur'[s[2]] = cur[s[2]] /\ rpc'[s[2]] = rpc[s[2]]
               \/ cur'[s[2]] # s /\ cur[s[2]] # s
        BY <2>0, <2>4, <3>1, <3>5, RunFacts
      <4> QED
        BY <1>0, <2>0, <2>1, <2>4, <3>1, <3>5, <4>1, Untouched
    <3> QED
      BY <3>4, <3>5
  <2> QED
    BY <1>2, <2>3, <2>4 DEF ReceiveRequest
<1>3. CASE EndOfStream(d)
  <2>0. PICK r \in Run : r = cur[d]
    BY <1>3, <1>c DEF EndOfStream
  <2>1. /\ r \in Run /\ r[2] = d /\ Matches(r) /\ aEnd[r]
        /\ up[r] = <<>> /\ ~iEnd[r] /\ Closes(d, <<"Error">>)
        /\ UNCHANGED <<pc, iEnd, backlog, paired, final>>
    BY <1>3, <1>c, <2>0 DEF EndOfStream, Throws, historyVars
  <2>2. /\ pc[r] \notin Running
        /\ r \in final => r[1] \in paired[d]
    BY <2>0, <2>1, ShortQueues DEF Matches, FrameType
  <2> QED
    BY <1>0, <1>p, <2>0, <2>1, <2>2, ClosesMatches DEF Running
<1>4. CASE Agree(d)
  <2>0. PICK r \in Run : r = cur[d]
    BY <1>4, <1>c DEF Agree
  <2>1. /\ r \in Run /\ r[2] = d /\ r \notin backlog /\ Matches(r) /\ aEnd[r]
        /\ rpc[d] = "prompt"
        /\ UNCHANGED <<pc, iEnd, backlog, paired, final>>
    BY <1>4, <1>c, <2>0 DEF Agree
  <2>2. /\ pc[r] \notin {"idle", "connected", "confirm"}
        /\ pc[r] = "await" => up[r] = <<>> /\ down[r] = <<>>
        /\ r \in final => r[1] \in paired[d]
    BY <2>0, <2>1 DEF Matches, Waiting, Deciding
  <2>3. CASE ~iEnd[r] /\ Throws(d)
    <3>1. pc[r] \notin Running
      BY <2>0, <2>1, <2>3 DEF Matches
    <3> QED
      BY <1>0, <1>p, <2>0, <2>1, <2>2, <2>3, <3>1, ClosesMatches DEF Running, Throws
  <2>4. CASE /\ down' = [down EXCEPT ![cur[d]] =
                            IF iEnd[cur[d]] THEN Append(@, "PairAccept") ELSE @]
             /\ rpc' = [rpc EXCEPT ![d] = "final"]
             /\ UNCHANGED <<up, aEnd, cur>>
    <3>1. /\ rpc'[d] = "final"
          /\ down'[r] = IF iEnd[r] THEN Append(down[r], "PairAccept") ELSE down[r]
          /\ \A s \in Run : s # r => down'[s] = down[s]
          /\ \A e \in Device : e # d => rpc'[e] = rpc[e]
      BY <1>0, <2>0, <2>1, <2>4 DEF TypeOK
    <3>2. pc[r] = "await" => down'[r] = <<"PairAccept">>
      <4>1. pc[r] = "await" => iEnd[r]
        BY <2>0, <2>1 DEF Matches, Running
      <4> QED
        BY <2>2, <3>1, <4>1, ShortQueues DEF FrameType
    <3>3. /\ ~Prompted(r)'
          /\ ~Waiting(r)'
          /\ Deciding(r)'
      BY <2>0, <2>1, <2>4, <3>1 DEF Waiting, Prompted, Deciding
    <3>4. Matches(r)'
      BY <2>0, <2>1, <2>2, <2>4, <3>2, <3>3 DEF Matches
    <3>5. ASSUME NEW s \in Run, s # r
          PROVE  Matches(s)'
      <4>1. /\ s[1] \in Device /\ s[2] \in Device
            /\ \/ cur'[s[2]] = cur[s[2]] /\ rpc'[s[2]] = rpc[s[2]]
               \/ cur'[s[2]] # s /\ cur[s[2]] # s
        BY <2>0, <2>4, <3>1, <3>5, RunFacts
      <4> QED
        BY <1>0, <2>0, <2>1, <2>4, <3>1, <3>5, <4>1, Untouched
    <3> QED
      BY <3>4, <3>5
  <2>5. \/ ~iEnd[r] /\ Throws(d)
        \/ /\ down' = [down EXCEPT ![cur[d]] =
                          IF iEnd[cur[d]] THEN Append(@, "PairAccept") ELSE @]
           /\ rpc' = [rpc EXCEPT ![d] = "final"]
           /\ UNCHANGED <<up, aEnd, cur>>
    BY <1>4, <2>0 DEF Agree
  <2> QED
    BY <2>3, <2>4, <2>5
<1>5. CASE Decline(d)
  <2>0. PICK r \in Run : r = cur[d]
    BY <1>5, <1>c DEF Decline
  <2>1. /\ r \in Run /\ r[2] = d /\ r \notin backlog /\ Matches(r) /\ aEnd[r]
        /\ rpc[d] = "prompt" /\ Closes(d, <<"PairReject">>)
        /\ UNCHANGED <<pc, iEnd, backlog, paired, final>>
    BY <1>5, <1>c, <2>0 DEF Decline, historyVars
  <2>2. /\ pc[r] \notin {"connected", "confirm"}
        /\ pc[r] = "await" => down[r] = <<>>
        /\ r \in final => r[1] \in paired[d]
        /\ <<"PairReject">> # <<>>
    BY <2>0, <2>1 DEF Matches, Waiting, Deciding
  <2> QED
    BY <1>0, <1>p, <2>0, <2>1, <2>2, ClosesMatches
<1>6. CASE ReceiveFinal(d)
  <2>0. PICK r \in Run : r = cur[d]
    BY <1>6, <1>c DEF ReceiveFinal
  <2>1. /\ r \in Run /\ r[2] = d /\ r \notin backlog /\ Matches(r) /\ aEnd[r]
        /\ rpc[d] = "final" /\ up[r] # <<>>
        /\ UNCHANGED <<pc, iEnd, backlog, final>>
    BY <1>6, <1>c, <2>0 DEF ReceiveFinal
  <2>2. /\ pc[r] \notin {"connected", "confirm", "await"}
        /\ r \in final => up[r] = <<"PairFinalize">> \/ r[1] \in paired[d]
    BY <2>0, <2>1 DEF Matches, Waiting, Prompted
  <2>3. CASE /\ Head(up[cur[d]]) = "PairFinalize"
             /\ Closes(d, <<>>)
             /\ paired' = [paired EXCEPT ![d] = @ \cup {cur[d][1]}]
    <3>1. /\ \A e \in Device : paired[e] \subseteq paired'[e]
          /\ r[1] \in paired'[d]
      BY <1>0, <2>0, <2>3 DEF TypeOK
    <3> QED
      BY <1>0, <2>0, <2>1, <2>2, <2>3, <3>1, ClosesMatches
  <2>4. CASE /\ Head(up[cur[d]]) # "PairFinalize"
             /\ Throws(d) /\ UNCHANGED paired
    <3>1. up[r] # <<"PairFinalize">>
      BY <2>0, <2>4, ShortQueues DEF FrameType
    <3> QED
      BY <1>0, <1>p, <2>0, <2>1, <2>2, <2>4, <3>1, ClosesMatches DEF Throws
  <2> QED
    BY <1>6, <2>3, <2>4 DEF ReceiveFinal
<1> QED
  BY <1>1, <1>2, <1>3, <1>4, <1>5, <1>6 DEF ServerStep, Answer

\* As long as nothing fails, the two ends of every attempt match.
THEOREM EndsMatch == Spec => []HandshakeInv
<1>1. Init => HandshakeInv
  BY RunFacts DEF Init, HandshakeInv, Matches, Waiting, Prompted, Deciding, Running
<1>2. IInv /\ HandshakeInv /\ [Next]_vars => HandshakeInv'
  <2> SUFFICES ASSUME IInv, HandshakeInv, [Next]_vars PROVE HandshakeInv'
    OBVIOUS
  <2>1. CASE UNCHANGED vars
    BY <2>1 DEF vars, connVars, serverVars, historyVars, HandshakeInv, Matches, Waiting,
       Prompted, Deciding
  <2>2. ASSUME NEW d \in Device, StartServer(d)
        PROVE  HandshakeInv'
    <3> SUFFICES ASSUME ~broken' PROVE \A s \in Run : Matches(s)'
      BY DEF HandshakeInv
    <3>1. /\ TypeOK /\ ServerInv /\ \A s \in Run : Matches(s)
      BY <2>2 DEF StartServer, historyVars, HandshakeInv, IInv
    <3>2. cur[d] = None /\ \A e \in Device : e # d => rpc'[e] = rpc[e]
      BY <2>2, <3>1 DEF StartServer, ServerInv, TypeOK
    <3>3. ASSUME NEW s \in Run
          PROVE  Matches(s)'
      <4>1. /\ s[1] \in Device /\ s[2] \in Device
            /\ \/ cur'[s[2]] = cur[s[2]] /\ rpc'[s[2]] = rpc[s[2]]
               \/ cur'[s[2]] # s /\ cur[s[2]] # s
        BY <2>2, <3>2, RunFacts DEF StartServer
      <4> QED
        BY <2>2, <3>1, <4>1, Untouched DEF StartServer, connVars, historyVars
    <3> QED
      BY <3>3
  <2>3. CASE Environment /\ ~(\E d \in Device : StartServer(d))
    BY <2>3 DEF Environment, KillServer, ReadTimesOut, KillInitiator, Reset,
       ResponseTimesOut, HandshakeInv
  <2> QED
    BY <2>1, <2>2, <2>3, InitiatorMatches, ServerMatches DEF Next
<1> QED
  BY <1>1, <1>2, Invariance, PTL DEF Spec

\* Only a fault leaves one of two devices with a record the other has not.
THEOREM RecordsAgree == Spec => []HalfOnlyByFault
<1>1. IInv /\ HandshakeInv => HalfOnlyByFault
  <2> SUFFICES ASSUME IInv, HandshakeInv, Quiet, ~broken,
                      NEW d \in Device, NEW e \in Device, e \in paired[d]
               PROVE  d \in paired[e]
    BY DEF HalfOnlyByFault
  <2>1. PICK r \in final : r \in {<<d, e>>, <<e, d>>}
    BY DEF IInv, PairedByConsent
  <2>2. r \in Run /\ Matches(r) /\ r[1] \in Device /\ r[2] \in Device
    BY RunFacts DEF IInv, TypeOK, HandshakeInv
  <2>3. pc[r] = "done" /\ ~Deciding(r)
    BY <2>2 DEF Quiet, Matches, Deciding
  <2>4. r[1] \in paired[r[2]] /\ r[2] \in paired[r[1]]
    BY <2>2, <2>3 DEF Matches
  <2> QED
    BY <2>1, <2>4
<1> QED
  BY <1>1, Invariance, EndsMatch, PTL

-----------------------------------------------------------------------------
(* Who waits for whom.                                                     *)

\* A queue to which a frame was appended holds one.
LEMMA NeverEmpty ==
    ASSUME NEW q \in Seq(FrameType), NEW x \in FrameType
    PROVE  Append(q, x) # <<>>
<1>1. Len(Append(q, x)) = Len(q) + 1 /\ Len(q) \in Nat
  OBVIOUS
<1>2. Len(<<>>) = 0
  OBVIOUS
<1> QED
  BY <1>1, <1>2

\* Every step keeps what the two ends of an attempt wait for.
LEMMA WaitStep ==
    ASSUME IInv, NEW t \in Run, WaitInv(t), Next
    PROVE  WaitInv(t)'
<1>a. /\ TypeOK /\ ServerInv /\ WaitInv(t)
      /\ t # None /\ t[1] \in Device /\ t[2] \in Device
  BY RunFacts DEF IInv
<1>b. \A d \in Device : rpc[d] \in {"initial", "prompt", "final"} =>
         cur[d] \in Run /\ cur[d][2] = d /\ cur[d] # None
  BY <1>a, ServedRun, RunFacts
<1>1. ASSUME NEW r \in Run, GiveUp(r)
      PROVE  WaitInv(t)'
  BY <1>1, <1>a, <1>b, RunFacts DEF GiveUp, Fails, TypeOK, ServerInv, WaitInv, connVars, serverVars, historyVars
<1>2. ASSUME NEW r \in Run, Connect(r)
      PROVE  WaitInv(t)'
  BY <1>2, <1>a, <1>b, RunFacts DEF Connect, TypeOK, ServerInv, WaitInv, connVars, serverVars, historyVars
<1>3. ASSUME NEW r \in Run, Request(r)
      PROVE  WaitInv(t)'
  BY <1>3, <1>a, <1>b, RunFacts DEF Request, Sends, Fails, TypeOK, ServerInv, WaitInv, connVars, serverVars, historyVars
<1>4. ASSUME NEW r \in Run, Response(r)
      PROVE  WaitInv(t)'
  BY <1>4, <1>a, <1>b, RunFacts DEF Response, Fails, TypeOK, ServerInv, WaitInv, connVars, serverVars, historyVars
<1>5. ASSUME NEW r \in Run, Cancel(r)
      PROVE  WaitInv(t)'
  <2>1. /\ UNCHANGED <<rpc, cur, backlog, down, aEnd>>
        /\ pc[r] = "confirm" /\ pc'[r] = "failed" /\ ~iEnd'[r]
        /\ r # t => pc'[t] = pc[t] /\ up'[t] = up[t] /\ iEnd'[t] = iEnd[t]
    BY <1>5, <1>a DEF Cancel, Sends, Fails, TypeOK, serverVars
  <2> QED
    BY <1>a, <2>1 DEF WaitInv
<1>6. ASSUME NEW r \in Run, Finalize(r)
      PROVE  WaitInv(t)'
  BY <1>6, <1>a, <1>b, RunFacts DEF Finalize, Sends, Fails, TypeOK, ServerInv, WaitInv, connVars, serverVars, historyVars
<1>7. ASSUME NEW r \in Run, Record(r)
      PROVE  WaitInv(t)'
  BY <1>7, <1>a, <1>b, RunFacts DEF Record, Fails, TypeOK, ServerInv, WaitInv, connVars, serverVars, historyVars
<1>8. ASSUME NEW d \in Device, Accept(d)
      PROVE  WaitInv(t)'
  BY <1>8, <1>a, <1>b, RunFacts DEF Accept, TypeOK, ServerInv, WaitInv, connVars, serverVars, historyVars
<1>9. ASSUME NEW d \in Device, ReceiveRequest(d)
      PROVE  WaitInv(t)'
  BY <1>9, <1>a, <1>b, RunFacts DEF ReceiveRequest, Throws, Closes, TypeOK, ServerInv, WaitInv, connVars, serverVars, historyVars
<1>10. ASSUME NEW d \in Device, EndOfStream(d)
      PROVE  WaitInv(t)'
  BY <1>10, <1>a, <1>b, RunFacts DEF EndOfStream, Throws, Closes, TypeOK, ServerInv, WaitInv, connVars, serverVars, historyVars
<1>11. ASSUME NEW d \in Device, Agree(d)
      PROVE  WaitInv(t)'
  <2>1. cur[d] \in Run /\ cur[d][2] = d /\ rpc[d] = "prompt"
    BY <1>11, <1>b DEF Agree
  <2>2. CASE Throws(d)
    BY <1>11, <1>a, <2>1, <2>2 DEF Agree, Throws, Closes, TypeOK, ServerInv, WaitInv
  <2>3. CASE /\ down' = [down EXCEPT ![cur[d]] =
                            IF iEnd[cur[d]] THEN Append(@, "PairAccept") ELSE @]
             /\ rpc' = [rpc EXCEPT ![d] = "final"]
             /\ UNCHANGED <<up, aEnd, cur>>
    <3>1. /\ UNCHANGED <<pc, up, iEnd, aEnd, cur, backlog>>
          /\ rpc'[d] = "final" /\ \A e \in Device : e # d => rpc'[e] = rpc[e]
      BY <1>11, <1>a, <2>3 DEF Agree, TypeOK
    <3>2. t # cur[d] => down'[t] = down[t]
      BY <1>a, <2>3 DEF TypeOK
    <3>3. t = cur[d] /\ iEnd[t] => down'[t] # <<>>
      <4>1. down[cur[d]] \in Seq(FrameType) /\ "PairAccept" \in FrameType
        BY <1>a, <2>1 DEF TypeOK, FrameType
      <4> QED
        BY <1>a, <2>1, <2>3, <4>1, NeverEmpty DEF TypeOK
    <3> QED
      BY <1>a, <2>1, <3>1, <3>2, <3>3 DEF WaitInv
  <2> QED
    BY <1>11, <2>2, <2>3 DEF Agree
<1>12. ASSUME NEW d \in Device, Decline(d)
      PROVE  WaitInv(t)'
  BY <1>12, <1>a, <1>b, RunFacts DEF Decline, Closes, TypeOK, ServerInv, WaitInv, connVars, serverVars, historyVars
<1>13. ASSUME NEW d \in Device, ReceiveFinal(d)
      PROVE  WaitInv(t)'
  BY <1>13, <1>a, <1>b, RunFacts DEF ReceiveFinal, Throws, Closes, TypeOK, ServerInv, WaitInv, connVars, serverVars, historyVars
<1>14. ASSUME NEW d \in Device, KillServer(d)
      PROVE  WaitInv(t)'
  <2>1. PICK gone \in SUBSET Run :
           /\ backlog' = backlog \ gone
           /\ up' = [r \in Run |-> IF r \in gone THEN <<>> ELSE up[r]]
           /\ aEnd' = [r \in Run |-> aEnd[r] /\ r \notin gone]
           /\ gone = {r \in backlog : r[2] = d} \cup ({cur[d]} \ {None})
    BY <1>14, <1>a DEF KillServer, TypeOK
  <2>2. /\ rpc' = [rpc EXCEPT ![d] = "down"]
        /\ cur' = [cur EXCEPT ![d] = None]
        /\ UNCHANGED <<pc, down, iEnd>>
    BY <1>14 DEF KillServer
  <2>3. up'[t] = IF t \in gone THEN <<>> ELSE up[t]
    BY <2>1
  <2>4. aEnd'[t] = (aEnd[t] /\ t \notin gone)
    BY <2>1
  <2>5. rpc'[t[2]] = IF t[2] = d THEN "down" ELSE rpc[t[2]]
    BY <1>a, <2>2 DEF TypeOK
  <2>6. cur'[t[2]] = IF t[2] = d THEN None ELSE cur[t[2]]
    BY <1>a, <2>2 DEF TypeOK
  <2>7. CASE t[2] = d
    <3>1. t \notin backlog' /\ t # cur'[t[2]]
      BY <1>a, <2>1, <2>6, <2>7
    <3>2. ~aEnd'[t]
      BY <1>a, <2>1, <2>4, <2>7 DEF WaitInv
    <3> QED
      BY <1>a, <2>2, <2>3, <3>1, <3>2 DEF WaitInv
  <2>8. CASE t[2] # d
    <3>1. t \notin gone
      BY <1>a, <2>1, <2>8 DEF ServerInv
    <3>2. t \in backlog' <=> t \in backlog
      BY <2>1, <3>1
    <3> QED
      BY <1>a, <2>2, <2>3, <2>4, <2>5, <2>6, <2>8, <3>1, <3>2 DEF WaitInv
  <2> QED
    BY <2>7, <2>8
<1>15. ASSUME NEW d \in Device, StartServer(d)
      PROVE  WaitInv(t)'
  BY <1>15, <1>a, <1>b, RunFacts DEF StartServer, TypeOK, ServerInv, WaitInv, connVars, serverVars, historyVars
<1>16. ASSUME NEW d \in Device, ReadTimesOut(d)
      PROVE  WaitInv(t)'
  BY <1>16, <1>a, <1>b, RunFacts DEF ReadTimesOut, Throws, Closes, TypeOK, ServerInv, WaitInv, connVars, serverVars, historyVars
<1>17. ASSUME NEW r \in Run, KillInitiator(r)
      PROVE  WaitInv(t)'
  BY <1>17, <1>a, <1>b, RunFacts DEF KillInitiator, Fails, TypeOK, ServerInv, WaitInv, connVars, serverVars, historyVars
<1>18. ASSUME NEW r \in Run, Reset(r)
      PROVE  WaitInv(t)'
  BY <1>18, <1>a, <1>b, RunFacts DEF Reset, TypeOK, ServerInv, WaitInv, connVars, serverVars, historyVars
<1>19. ASSUME NEW r \in Run, ResponseTimesOut(r)
      PROVE  WaitInv(t)'
  BY <1>19, <1>a, <1>b, RunFacts DEF ResponseTimesOut, Fails, TypeOK, ServerInv, WaitInv, connVars, serverVars, historyVars
<1> QED
  BY <1>1, <1>2, <1>3, <1>4, <1>5, <1>6, <1>7, <1>8, <1>9, <1>10, <1>11, <1>12, <1>13, <1>14, <1>15, <1>16, <1>17, <1>18, <1>19
  DEF Next, InitiatorStep, ServerStep, Answer, Environment

\* WaitInv holds in every state, whatever fails.
THEOREM WaitInvariance == Spec => [](IInv /\ \A r \in Run : WaitInv(r))
<1>1. Init => IInv /\ \A r \in Run : WaitInv(r)
  BY InitInv, RunFacts DEF Init, WaitInv
<1>2. IInv /\ (\A r \in Run : WaitInv(r)) /\ [Next]_vars
         => (IInv /\ \A r \in Run : WaitInv(r))'
  <2> SUFFICES ASSUME IInv, \A r \in Run : WaitInv(r), [Next]_vars
               PROVE  (IInv /\ \A r \in Run : WaitInv(r))'
    OBVIOUS
  <2>1. CASE Next
    BY <2>1, WaitStep, StepInv
  <2>2. CASE UNCHANGED vars
    BY <2>2, StepInv DEF vars, connVars, serverVars, WaitInv
  <2> QED
    BY <2>1, <2>2
<1> QED
  BY <1>1, <1>2, PTL DEF Spec

\* No two ends wait for one another, for any devices and any attempts between
\* them at once, also two devices that pair with each other.
THEOREM SomebodyMoves == Spec => []NoMutualWait
<1>1. IInv /\ (\A r \in Run : WaitInv(r)) => NoMutualWait
  <2> SUFFICES ASSUME IInv, \A r \in Run : WaitInv(r) PROVE NoMutualWait
    OBVIOUS
  <2>1. TypeOK /\ ServerInv
    BY DEF IInv
  <2>2. ASSUME NEW d \in Device, cur[d] # None
        PROVE  ServerMoves(d) \/ InitiatorMoves(cur[d])
    <3>1. /\ cur[d] \in Run /\ cur[d][2] = d /\ WaitInv(cur[d])
          /\ rpc[d] \in {"initial", "prompt", "final"}
      BY <2>1, <2>2 DEF TypeOK, ServerInv
    <3> QED
      BY <3>1 DEF ServerMoves, InitiatorMoves, WaitInv
  <2>3. ASSUME NEW r \in Run, pc[r] = "await", ~InitiatorMoves(r)
        PROVE  \/ ServerMoves(r[2])
               \/ cur[r[2]] # None /\ InitiatorMoves(cur[r[2]])
    <3>1. r # None /\ r[2] \in Device
      BY RunFacts
    <3>2. /\ r \in backlog \/ r = cur[r[2]]
          /\ r \in backlog => rpc[r[2]] # "down"
      BY <2>3 DEF InitiatorMoves, WaitInv
    <3>3. CASE cur[r[2]] # None
      BY <2>2, <3>1, <3>3
    <3>4. CASE cur[r[2]] = None
      <4>1. r \in backlog /\ rpc[r[2]] = "accept"
        BY <2>1, <3>1, <3>2, <3>4 DEF ServerInv, TypeOK, ServerState
      <4> QED
        BY <4>1 DEF ServerMoves
    <3> QED
      BY <3>3, <3>4
  <2> QED
    BY <2>2, <2>3 DEF NoMutualWait
<1> QED
  BY <1>1, WaitInvariance, PTL
=============================================================================
