------------------------------ MODULE Pairing ------------------------------
(***************************************************************************)
(* Pairing: the process `lan_transfer pair` on one device                  *)
(* (PairingManager::initiate_pairing) against the single-threaded receiver *)
(* of another (PairingManager::handle_incoming_pair_request inside         *)
(* FileReceiver::run_server).  A phone plays both parts as well            *)
(* (DesktopTransferClient.pair and AndroidReceiverServer), with a time     *)
(* limit on every read and no second question to its user.                 *)
(*                                                                         *)
(* A run <<a, b>> is one such process on a device a against b.  Both sides *)
(* write the other's identifier to their own paired_devices.json, each at  *)
(* its own moment, and nothing acknowledges the last frame.                *)
(*                                                                         *)
(* Connections are as in Transfer: queues up and down, iEnd and aEnd for   *)
(* the ends of the initiator and the accepter.  What becomes of the file   *)
(* when several processes of one device write it is PairStore's subject.   *)
(***************************************************************************)
EXTENDS Integers, Sequences, FiniteSets

CONSTANTS Device,
          Phone,      \* the devices that are phones
          Run,        \* the attempts to pair, one each
          None,       \* no run
          MaxKills,   \* bound: how many processes are killed
          Fault       \* the failures of the environment that may happen

FaultKind == {"kill", "reset", "store", "refuse"}

ASSUME PairingAssumption ==
    /\ Run \subseteq {r \in Device \X Device : r[1] # r[2]}
    /\ Phone \subseteq Device
    /\ None \notin Run
    /\ MaxKills \in Nat
    /\ Fault \subseteq FaultKind

VARIABLES
    pc,         \* where initiate_pairing is
    up, down, iEnd, aEnd, backlog,
    rpc,        \* where the receiver of each device is
    cur,        \* the run it serves
    paired,     \* paired_devices.json of each device
    kills,
    \* history
    agreed,     \* the runs the accepter's user agreed to
    final,      \* the runs the initiator's user finalized
    broken      \* a process died, a connection broke, a write failed or a
                \* phone stopped waiting

connVars  == <<up, down, iEnd, aEnd, backlog>>
serverVars == <<rpc, cur>>
historyVars == <<agreed, final, broken>>
vars == <<pc, connVars, serverVars, paired, kills, historyVars>>

FrameType == {"PairRequest", "PairAccept", "PairReject", "PairFinalize", "Error"}
InitiatorState == {"idle", "connected", "await", "confirm", "record", "done",
                   "failed"}
ServerState == {"accept", "initial", "prompt", "final", "down"}

Init ==
    /\ pc = [r \in Run |-> "idle"]
    /\ up = [r \in Run |-> <<>>]
    /\ down = [r \in Run |-> <<>>]
    /\ iEnd = [r \in Run |-> FALSE]
    /\ aEnd = [r \in Run |-> FALSE]
    /\ backlog = {}
    /\ rpc = [d \in Device |-> "accept"]
    /\ cur = [d \in Device |-> None]
    /\ paired = [d \in Device |-> {}]
    /\ kills = 0
    /\ agreed = {}
    /\ final = {}
    /\ broken = FALSE

-----------------------------------------------------------------------------
(* The initiator: PairingManager::initiate_pairing *)

\* An exception: the process ends and its socket is closed.
Fails(r) ==
    /\ pc' = [pc EXCEPT ![r] = "failed"]
    /\ iEnd' = [iEnd EXCEPT ![r] = FALSE]

\* One frame is sent.  To an end that is gone it may still seem to succeed.
Sends(r, type, next) ==
    \/ /\ aEnd[r]
       /\ up' = [up EXCEPT ![r] = Append(@, type)]
       /\ pc' = [pc EXCEPT ![r] = next]
       /\ iEnd' = [iEnd EXCEPT ![r] = @ /\ next # "failed"]
    \/ /\ ~aEnd[r]
       /\ UNCHANGED up
       /\ \/ /\ pc' = [pc EXCEPT ![r] = next]
             /\ iEnd' = [iEnd EXCEPT ![r] = @ /\ next # "failed"]
          \/ Fails(r)

\* The user declines at once, or nobody listens at the address.
GiveUp(r) ==
    /\ pc[r] = "idle"
    /\ Fails(r)
    /\ UNCHANGED <<up, down, aEnd, backlog, serverVars, paired, kills, historyVars>>

Connect(r) ==
    /\ pc[r] = "idle"
    /\ rpc[r[2]] # "down"
    /\ pc' = [pc EXCEPT ![r] = "connected"]
    /\ iEnd' = [iEnd EXCEPT ![r] = TRUE]
    /\ aEnd' = [aEnd EXCEPT ![r] = TRUE]
    /\ backlog' = backlog \cup {r}
    /\ UNCHANGED <<up, down, serverVars, paired, kills, historyVars>>

Request(r) ==
    /\ pc[r] = "connected"
    /\ Sends(r, "PairRequest", "await")
    /\ UNCHANGED <<down, aEnd, backlog, serverVars, paired, kills, historyVars>>

\* Mutant: the end of the stream is not noticed.
ResponseOnly(r) ==
    /\ pc[r] = "await"
    /\ down[r] # <<>>
    /\ down' = [down EXCEPT ![r] = Tail(@)]
    /\ \/ /\ Head(down[r]) = "PairAccept"
          /\ pc' = [pc EXCEPT ![r] = "confirm"]
          /\ UNCHANGED iEnd
       \/ /\ Head(down[r]) # "PairAccept"
          /\ Fails(r)
    /\ UNCHANGED <<up, aEnd, backlog, serverVars, paired, kills, historyVars>>

Response(r) ==
    /\ pc[r] = "await"
    /\ \/ /\ down[r] # <<>>
          /\ down' = [down EXCEPT ![r] = Tail(@)]
          /\ \/ /\ Head(down[r]) = "PairAccept"
                /\ pc' = [pc EXCEPT ![r] = "confirm"]
                /\ UNCHANGED iEnd
             \/ /\ Head(down[r]) # "PairAccept"
                /\ Fails(r)
       \/ /\ down[r] = <<>>
          /\ ~aEnd[r]
          /\ Fails(r)
          /\ UNCHANGED down
    /\ UNCHANGED <<up, aEnd, backlog, serverVars, paired, kills, historyVars>>

\* A phone waits for the answer no longer than its socket's timeout.
ResponseTimesOut(r) ==
    /\ r[1] \in Phone
    /\ pc[r] = "await"
    /\ down[r] = <<>>
    /\ Fails(r)
    /\ broken' = TRUE
    /\ UNCHANGED <<up, down, aEnd, backlog, serverVars, paired, kills, agreed, final>>

\* The user is asked a second time on the desktop, not on the phone.
Cancel(r) ==
    /\ pc[r] = "confirm"
    /\ r[1] \notin Phone
    /\ Sends(r, "PairReject", "failed")
    /\ UNCHANGED <<down, aEnd, backlog, serverVars, paired, kills, historyVars>>

Finalize(r) ==
    /\ pc[r] = "confirm"
    /\ Sends(r, "PairFinalize", "record")
    /\ final' = final \cup {r}
    /\ UNCHANGED <<down, aEnd, backlog, serverVars, paired, kills, agreed, broken>>

\* upsert_paired_device, after the last frame was sent and whatever became of
\* it.  The socket is closed and main reports success.
Record(r) ==
    /\ pc[r] = "record"
    /\ \/ /\ paired' = [paired EXCEPT ![r[1]] = @ \cup {r[2]}]
          /\ pc' = [pc EXCEPT ![r] = "done"]
          /\ iEnd' = [iEnd EXCEPT ![r] = FALSE]
          /\ UNCHANGED broken
       \/ /\ "store" \in Fault
          /\ Fails(r)
          /\ broken' = TRUE
          /\ UNCHANGED paired
    /\ UNCHANGED <<up, down, aEnd, backlog, serverVars, kills, agreed, final>>

InitiatorStep(r) ==
    \/ GiveUp(r) \/ Connect(r) \/ Request(r) \/ Response(r)
    \/ Cancel(r) \/ Finalize(r) \/ Record(r)

-----------------------------------------------------------------------------
(* The accepter: handle_incoming_pair_request, called by run_server *)

\* A last frame is sent if it still can be, the connection is closed and the
\* receiver goes back to accept_connection.
Closes(d, last) ==
    /\ down' = [down EXCEPT ![cur[d]] = IF iEnd[cur[d]] THEN @ \o last ELSE @]
    /\ up' = [up EXCEPT ![cur[d]] = <<>>]
    /\ aEnd' = [aEnd EXCEPT ![cur[d]] = FALSE]
    /\ rpc' = [rpc EXCEPT ![d] = "accept"]
    /\ cur' = [cur EXCEPT ![d] = None]

\* The catch block of run_server, or of handleClient.
Throws(d) == Closes(d, <<"Error">>)

Accept(d) ==
    /\ rpc[d] = "accept"
    /\ \E r \in backlog :
          /\ r[2] = d
          /\ cur' = [cur EXCEPT ![d] = r]
          /\ backlog' = backlog \ {r}
    /\ rpc' = [rpc EXCEPT ![d] = "initial"]
    /\ UNCHANGED <<pc, up, down, iEnd, aEnd, paired, kills, historyVars>>

\* The blacklist and the rate limiter may refuse the request.
ReceiveRequest(d) ==
    /\ rpc[d] = "initial"
    /\ up[cur[d]] # <<>>
    /\ \/ /\ rpc' = [rpc EXCEPT ![d] = "prompt"]
          /\ up' = [up EXCEPT ![cur[d]] = Tail(@)]
          /\ UNCHANGED <<down, aEnd, cur>>
       \/ /\ "refuse" \in Fault
          /\ Throws(d)
    /\ UNCHANGED <<pc, iEnd, backlog, paired, kills, historyVars>>

\* Mutant: the end of the stream is noticed before the first frame only.
EndOfStreamAtFirst(d) ==
    /\ rpc[d] = "initial"
    /\ up[cur[d]] = <<>>
    /\ ~iEnd[cur[d]]
    /\ Throws(d)
    /\ UNCHANGED <<pc, iEnd, backlog, paired, kills, historyVars>>

EndOfStream(d) ==
    /\ rpc[d] \in {"initial", "final"}
    /\ up[cur[d]] = <<>>
    /\ ~iEnd[cur[d]]
    /\ Throws(d)
    /\ UNCHANGED <<pc, iEnd, backlog, paired, kills, historyVars>>

\* A phone waits for a frame no longer than its socket's timeout: also while
\* the initiator's user thinks about the second question.
ReadTimesOut(d) ==
    /\ d \in Phone
    /\ rpc[d] \in {"initial", "final"}
    /\ up[cur[d]] = <<>>
    /\ Throws(d)
    /\ broken' = TRUE
    /\ UNCHANGED <<pc, iEnd, backlog, paired, kills, agreed, final>>

Agree(d) ==
    /\ rpc[d] = "prompt"
    /\ agreed' = agreed \cup {cur[d]}
    /\ \/ /\ down' = [down EXCEPT ![cur[d]] =
                         IF iEnd[cur[d]] THEN Append(@, "PairAccept") ELSE @]
          /\ rpc' = [rpc EXCEPT ![d] = "final"]
          /\ UNCHANGED <<up, aEnd, cur>>
       \/ /\ ~iEnd[cur[d]]
          /\ Throws(d)
    /\ UNCHANGED <<pc, iEnd, backlog, paired, kills, final, broken>>

Decline(d) ==
    /\ rpc[d] = "prompt"
    /\ Closes(d, <<"PairReject">>)
    /\ UNCHANGED <<pc, iEnd, backlog, paired, kills, historyVars>>

\* Mutant: any last frame will do.
ReceiveFinalAny(d) ==
    /\ rpc[d] = "final"
    /\ up[cur[d]] # <<>>
    /\ Closes(d, <<>>)
    /\ paired' = [paired EXCEPT ![d] = @ \cup {cur[d][1]}]
    /\ UNCHANGED <<pc, iEnd, backlog, kills, historyVars>>

\* Mutant: the accepter relies on a record it made before.
ReceiveFinalUnrecorded(d) ==
    /\ rpc[d] = "final"
    /\ up[cur[d]] # <<>>
    /\ \/ Head(up[cur[d]]) = "PairFinalize" /\ Closes(d, <<>>)
       \/ Head(up[cur[d]]) # "PairFinalize" /\ Throws(d)
    /\ UNCHANGED <<pc, iEnd, backlog, paired, kills, historyVars>>

\* The pairing is recorded when the initiator's PairFinalize has come.
ReceiveFinal(d) ==
    /\ rpc[d] = "final"
    /\ up[cur[d]] # <<>>
    /\ \/ /\ Head(up[cur[d]]) = "PairFinalize"
          /\ Closes(d, <<>>)
          /\ paired' = [paired EXCEPT ![d] = @ \cup {cur[d][1]}]
          /\ UNCHANGED broken
       \/ /\ Head(up[cur[d]]) # "PairFinalize"
          /\ Throws(d)
          /\ UNCHANGED <<paired, broken>>
       \/ /\ "store" \in Fault
          /\ Throws(d)
          /\ broken' = TRUE
          /\ UNCHANGED paired
    /\ UNCHANGED <<pc, iEnd, backlog, kills, agreed, final>>

\* The user answers each question once.
Answer(d) == Agree(d) \/ Decline(d)

ServerStep(d) ==
    \/ Accept(d) \/ ReceiveRequest(d) \/ EndOfStream(d) \/ Answer(d)
    \/ ReceiveFinal(d)

-----------------------------------------------------------------------------
(* The environment *)

KillServer(d) ==
    /\ "kill" \in Fault
    /\ kills < MaxKills
    /\ rpc[d] # "down"
    /\ LET gone == {r \in backlog : r[2] = d} \cup ({cur[d]} \ {None}) IN
       /\ backlog' = backlog \ gone
       /\ up' = [r \in Run |-> IF r \in gone THEN <<>> ELSE up[r]]
       /\ aEnd' = [r \in Run |-> aEnd[r] /\ r \notin gone]
    /\ rpc' = [rpc EXCEPT ![d] = "down"]
    /\ cur' = [cur EXCEPT ![d] = None]
    /\ kills' = kills + 1
    /\ broken' = TRUE
    /\ UNCHANGED <<pc, down, iEnd, paired, agreed, final>>

StartServer(d) ==
    /\ rpc[d] = "down"
    /\ rpc' = [rpc EXCEPT ![d] = "accept"]
    /\ UNCHANGED <<pc, connVars, cur, paired, kills, historyVars>>

KillInitiator(r) ==
    /\ "kill" \in Fault
    /\ kills < MaxKills
    /\ pc[r] \notin {"idle", "done", "failed"}
    /\ Fails(r)
    /\ kills' = kills + 1
    /\ broken' = TRUE
    /\ UNCHANGED <<up, down, aEnd, backlog, serverVars, paired, agreed, final>>

Reset(r) ==
    /\ "reset" \in Fault
    /\ iEnd[r] \/ aEnd[r]
    /\ up' = [up EXCEPT ![r] = <<>>]
    /\ down' = [down EXCEPT ![r] = <<>>]
    /\ iEnd' = [iEnd EXCEPT ![r] = FALSE]
    /\ aEnd' = [aEnd EXCEPT ![r] = FALSE]
    /\ broken' = TRUE
    /\ UNCHANGED <<pc, backlog, serverVars, paired, kills, agreed, final>>

Environment ==
    \/ \E d \in Device : KillServer(d) \/ StartServer(d) \/ ReadTimesOut(d)
    \/ \E r \in Run : KillInitiator(r) \/ Reset(r) \/ ResponseTimesOut(r)

Next ==
    \/ \E r \in Run : InitiatorStep(r)
    \/ \E d \in Device : ServerStep(d)
    \/ Environment

Spec == Init /\ [][Next]_vars

\* Every process runs and every user answers.  No phone is relied upon to run
\* out of patience.
Fairness ==
    /\ \A r \in Run : WF_vars(InitiatorStep(r))
    /\ \A d \in Device : WF_vars(ServerStep(d))

FairSpec == Spec /\ Fairness

-----------------------------------------------------------------------------
(* Properties *)

\* Every variable has its type.
TypeOK ==
    /\ pc \in [Run -> InitiatorState]
    /\ up \in [Run -> Seq(FrameType)]
    /\ down \in [Run -> Seq(FrameType)]
    /\ iEnd \in [Run -> BOOLEAN]
    /\ aEnd \in [Run -> BOOLEAN]
    /\ backlog \subseteq Run
    /\ rpc \in [Device -> ServerState]
    /\ cur \in [Device -> Run \cup {None}]
    /\ paired \in [Device -> SUBSET Device]
    /\ kills \in Nat
    /\ agreed \subseteq Run
    /\ final \subseteq Run
    /\ broken \in BOOLEAN

\* A device counts another as paired only when, in one and the same attempt
\* between the two, the user of the one agreed and the user of the other
\* finalized it after that (both sides of the three-frame handshake).
PairedByConsent ==
    \A d, e \in Device : e \in paired[d] =>
        \E r \in agreed \cap final : r \in {<<d, e>>, <<e, d>>}

\* No frame is in flight and no process has more to do.
Quiet ==
    /\ \A r \in Run : pc[r] \in {"idle", "done", "failed"}
    /\ \A d \in Device : rpc[d] \in {"accept", "down"}
    /\ backlog = {}

\* As long as no process dies, no connection breaks, no write fails and no
\* phone stops waiting, two devices that have finished agree on whether they
\* are paired: there is no order of answers and frames that leaves one of them
\* alone with the record.
HalfOnlyByFault ==
    Quiet /\ ~broken =>
        \A d, e \in Device : e \in paired[d] <=> d \in paired[e]

\* What main reports as "Pairing completed successfully." is recorded on both
\* devices, or will be: the accepter still has the PairFinalize to read.
SuccessIsMutual ==
    \A r \in Run : pc[r] = "done" =>
        \/ r[1] \in paired[r[2]]
        \/ r = cur[r[2]] /\ rpc[r[2]] = "final"

\* Who is not held up: it has something to do or its user to ask, or what it
\* waits for, a frame or the end of the stream, is there.
InitiatorMoves(r) ==
    \/ pc[r] \in {"connected", "confirm", "record"}
    \/ pc[r] = "await" /\ (down[r] # <<>> \/ ~aEnd[r])
ServerMoves(d) ==
    \/ rpc[d] = "accept" /\ \E r \in backlog : r[2] = d
    \/ rpc[d] = "prompt"
    \/ rpc[d] \in {"initial", "final"} /\ (up[cur[d]] # <<>> \/ ~iEnd[cur[d]])

\* No two ends wait for one another, whatever has failed and however many
\* devices pair with each other at once: an accepter that waits for a frame
\* waits for an initiator that is not held up, and an initiator that waits,
\* also behind other attempts, has somebody before it who is not.
NoMutualWait ==
    /\ \A d \in Device : cur[d] # None => ServerMoves(d) \/ InitiatorMoves(cur[d])
    /\ \A r \in Run : pc[r] = "await" =>
          \/ InitiatorMoves(r) \/ ServerMoves(r[2])
          \/ cur[r[2]] # None /\ InitiatorMoves(cur[r[2]])

\* An attempt that both users agreed to ends with both records, unless
\* something failed.
AgreedIsRecorded ==
    \A r \in Run : r \in final ~>
        broken \/ (r[2] \in paired[r[1]] /\ r[1] \in paired[r[2]])

\* Every attempt ends, and no receiver stays in the middle of one: whatever
\* one side waits for comes, or the other side's end is seen to be gone.
AttemptsEnd ==
    \A r \in Run : pc[r] = "connected" ~> pc[r] \in {"done", "failed"}

ServersReturn ==
    \A d \in Device : []<>(rpc[d] \in {"accept", "down"})

-----------------------------------------------------------------------------
(* The inductive invariant behind PairedByConsent *)

ServerInv ==
    \A d \in Device :
        /\ cur[d] # None <=> rpc[d] \in {"initial", "prompt", "final"}
        /\ cur[d] # None => cur[d][2] = d

\* Consent comes before each frame that tells of it, and is never withdrawn.
ConsentInv ==
    /\ final \subseteq agreed
    /\ \A r \in Run :
          /\ pc[r] \in {"confirm", "record", "done"} => r \in agreed
          /\ pc[r] \in {"record", "done"} => r \in final
          /\ \A i \in 1..Len(up[r]) : up[r][i] = "PairFinalize" => r \in final
          /\ \A i \in 1..Len(down[r]) : down[r][i] = "PairAccept" => r \in agreed

IInv == TypeOK /\ ServerInv /\ ConsentInv /\ PairedByConsent

\* What each end of an attempt may wait for.  An open end has an open end at the
\* other side, a request is under way to a receiver that reads one, and a
\* PairAccept to an initiator whose receiver waits for its last frame.
WaitInv(r) ==
    /\ rpc[r[2]] = "down" => r \notin backlog
    /\ aEnd[r] => r \in backlog \/ r = cur[r[2]]
    /\ r \in backlog => r # cur[r[2]]
    /\ r \in backlog \/ r = cur[r[2]] => pc[r] # "idle" /\ (iEnd[r] => aEnd[r])
    /\ iEnd[r] => pc[r] \in {"connected", "await", "confirm", "record"}
    /\ aEnd[r] /\ pc[r] \in {"connected", "await"} => iEnd[r]
    /\ pc[r] \in {"idle", "connected"} => up[r] = <<>>
    /\ pc[r] = "connected" => ~(r = cur[r[2]] /\ rpc[r[2]] \in {"prompt", "final"})
    /\ pc[r] = "await" /\ iEnd[r] =>
          /\ r \in backlog \/ (r = cur[r[2]] /\ rpc[r[2]] = "initial") => up[r] # <<>>
          /\ r = cur[r[2]] /\ rpc[r[2]] = "final" => down[r] # <<>>
=============================================================================
