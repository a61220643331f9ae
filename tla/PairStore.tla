----------------------------- MODULE PairStore -----------------------------
(***************************************************************************)
(* The two files of a device, device_info.json and paired_devices.json,    *)
(* and the processes that read and write them without a lock: the receiver *)
(* and `lan_transfer pair` (class PairStore) and the form, which removes   *)
(* devices (RemoveSelectedPairedDevice).                                   *)
(*                                                                         *)
(* A writer loads the file, changes its copy, truncates the file and, when *)
(* the stream is closed, writes the copy over what the file then begins    *)
(* with.  What overlapping writers, a kill or a failing flush leave behind *)
(* is a sequence of cells: whole records, the closing bracket, and bytes   *)
(* that are no record.  Two bounds on the data: a text fits the buffer of  *)
(* the stream, which holds some thirty records, and records have one       *)
(* length, except that what is left behind a closing bracket may begin in  *)
(* the middle of a record.                                                 *)
(*                                                                         *)
(* On the phone (DeviceStore, prefs = TRUE) the threads of one process do  *)
(* the same to a preference, which is replaced in one step.                *)
(***************************************************************************)
EXTENDS Integers, Sequences, FiniteSets

CONSTANTS Process,    \* the processes, or threads, of one device
          Form,       \* those that remove devices
          Peer,       \* the identifiers of other devices
          Port,       \* the ports recorded with them; 0 is "not known"
          None,       \* no process
          MaxStarts,  \* bound: how many processes are started
          MaxCalls,   \* bound: how many calls change the pairings
          Fault       \* "kill": a process dies; "disk": a flush fails

ASSUME PairStoreAssumption ==
    /\ Form \subseteq Process /\ None \notin Process
    /\ Port \subseteq Nat \ {0}
    /\ Peer \cap {"end", "junk"} = {}
    /\ MaxStarts \in Nat /\ MaxCalls \in Nat
    /\ Fault \subseteq {"kill", "disk"}

VARIABLES
    prefs,      \* this is the phone
    pc,         \* what each process does
    idFile,     \* device_info.json: the identity in it
    self,       \* the identity a process goes by
    starts,     \* how many processes have been started
    file,       \* paired_devices.json
    list,       \* the copy a process is about to write
    calls,      \* how many calls have been made
    \* history
    given,      \* the records anyone asked for
    alone,      \* the processes whose call nobody else has overlapped
    expect,     \* what the call makes of the records it found
    clean,      \* whose call was the last, and ran alone and without failure
    raced       \* identities were made at once, or one was cut short

idVars   == <<idFile, self, starts, raced>>
fileVars == <<file, list, calls, given, alone, expect, clean>>
vars == <<prefs, pc, idVars, fileVars>>

NoFile == 0
Cut == -1       \* device_info.json while it holds no identity
Identity == 1..MaxStarts

Record == [dev : Peer, port : Port \cup {0}]
End  == [dev |-> "end", port |-> 0]       \* the closing bracket
Junk == [dev |-> "junk", port |-> 0]      \* bytes that match no record

\* What is left of s without the elements that are not in T.  (A recursive
\* function, for the proofs; it is SelectSeq.)
Kept(s, T) ==
    LET kept[i \in 0..Len(s)] ==
          IF i = 0 THEN <<>>
          ELSE IF s[i] \in T THEN Append(kept[i - 1], s[i]) ELSE kept[i - 1]
    IN kept[Len(s)]

\* load_paired_devices: what the pattern finds, in order.
Records(f) == Kept(f, Record)
\* The whole text, as one writer alone leaves it.
Text(recs) == Append(recs, End)
Valid(f) == f = Text(Records(f))

\* find_paired_device: the first record of a device counts.
Of(recs, d) == Kept(recs, {c \in Record : c.dev = d})
Known(recs) == {recs[i].dev : i \in 1..Len(recs)}
Absent == -1
AsMap(recs) == [d \in Peer |-> IF d \in Known(recs) THEN Of(recs, d)[1].port ELSE Absent]

Init ==
    /\ prefs \in BOOLEAN
    /\ pc = [p \in Process |-> "off"]
    /\ idFile = NoFile
    /\ self = [p \in Process |-> NoFile]
    /\ starts = 0
    /\ file = <<>>
    /\ list = [p \in Process |-> <<>>]
    /\ calls = 0
    /\ given = {}
    /\ alone = {}
    /\ expect = [p \in Process |-> AsMap(<<>>)]
    /\ clean = None
    /\ raced = FALSE

Goes(p, s) == pc' = [pc EXCEPT ![p] = s]

-----------------------------------------------------------------------------
(* get_or_create_local_device_info *)

\* 128 random bits: no two calls give the same.
Generated == starts + 1

Start(p) ==
    /\ pc[p] = "off"
    /\ starts < MaxStarts
    /\ starts' = starts + 1
    /\ Goes(p, IF p \in Form THEN "ready" ELSE "look")
    /\ self' = [self EXCEPT ![p] = Generated]
    /\ UNCHANGED <<prefs, idFile, raced, fileVars>>

\* Mutant: the identity in the file is not taken.
LookOnly(p) ==
    /\ pc[p] = "look"
    /\ \/ /\ idFile = NoFile
          /\ Goes(p, "create")
          /\ UNCHANGED self
       \/ /\ idFile \in Identity
          /\ Goes(p, "ready")
          /\ UNCHANGED self
       \/ /\ idFile = Cut
          /\ self' = [self EXCEPT ![p] = NoFile]
          /\ Goes(p, "off")
    /\ UNCHANGED <<prefs, idFile, starts, raced, fileVars>>

\* The file is looked up and read: an identity in it is taken, a file without
\* one is an error.  (A file of an older version, with an identity and no name,
\* is written anew with a name: that is left out.)  Otherwise the process goes by one it has generated.
Look(p) ==
    /\ pc[p] = "look"
    /\ \/ /\ idFile = NoFile
          /\ Goes(p, "create")
          /\ UNCHANGED self
       \/ /\ idFile \in Identity
          /\ self' = [self EXCEPT ![p] = idFile]
          /\ Goes(p, "ready")
       \/ /\ idFile = Cut
          /\ self' = [self EXCEPT ![p] = NoFile]
          /\ Goes(p, "off")
    /\ UNCHANGED <<prefs, idFile, starts, raced, fileVars>>

\* write_text_file truncates the file and writes it when the stream is closed;
\* a preference changes at once.
CreateId(p) ==
    /\ pc[p] = "create"
    /\ idFile' = IF prefs THEN self[p] ELSE Cut
    /\ Goes(p, IF prefs THEN "ready" ELSE "flush")
    /\ raced' = (raced \/ idFile # NoFile)
    /\ UNCHANGED <<prefs, self, starts, fileVars>>

FlushId(p) ==
    /\ pc[p] = "flush"
    /\ \/ idFile' = self[p] /\ UNCHANGED raced
       \/ "disk" \in Fault /\ raced' = TRUE /\ UNCHANGED idFile
    /\ Goes(p, "ready")
    /\ UNCHANGED <<prefs, self, starts, fileVars>>

-----------------------------------------------------------------------------
(* upsert_paired_device and RemoveSelectedPairedDevice *)

\* Mutant: every record is updated, not the device's own.
UpsertedAll(recs, d, q) ==
    IF d \in Known(recs)
      THEN [i \in 1..Len(recs) |-> [recs[i] EXCEPT !.port = IF q # 0 THEN q ELSE @]]
      ELSE Append(recs, [dev |-> d, port |-> q])

\* Mutant: a port that is not known replaces one that is.
UpsertedZero(recs, d, q) ==
    IF d \in Known(recs)
      THEN [i \in 1..Len(recs) |-> IF recs[i].dev = d THEN [recs[i] EXCEPT !.port = q]
                                                      ELSE recs[i]]
      ELSE Append(recs, [dev |-> d, port |-> q])

\* The first record of the device keeps its place and, if none is given, its
\* port; a new device goes to the end.
Upserted(recs, d, q) ==
    IF d \in Known(recs)
      THEN LET k == CHOOSE i \in 1..Len(recs) :
                      recs[i].dev = d /\ \A j \in 1..(i - 1) : recs[j].dev # d
           IN [recs EXCEPT ![k].port = IF q # 0 THEN q ELSE @]
      ELSE Append(recs, [dev |-> d, port |-> q])

Removed(recs, d) == Kept(recs, {c \in Record : c.dev # d})

Writing(p) == pc[p] = "write"
Busy(p) == pc[p] \in {"loaded", "write"}

\* The call begins: others under way are no longer alone, nor is this one.
Loads(p, recs, map) ==
    /\ calls < MaxCalls
    /\ calls' = calls + 1
    /\ list' = [list EXCEPT ![p] = recs]
    /\ expect' = [expect EXCEPT ![p] = map]
    /\ alone' = IF \E q \in Process : Busy(q) THEN {} ELSE {p}
    /\ clean' = None
    /\ Goes(p, "loaded")

Upsert(p) ==
    /\ pc[p] = "ready"
    /\ p \notin Form
    /\ \E d \in Peer, q \in Port \cup {0} :
          /\ given' = given \cup {[dev |-> d, port |-> q]}
          /\ LET recs == Records(file)
                 old  == AsMap(recs)[d] IN
             Loads(p, Upserted(recs, d, q),
                   [AsMap(recs) EXCEPT ![d] = IF q = 0 /\ old # Absent THEN old ELSE q])
    /\ UNCHANGED <<prefs, idVars, file>>

\* The form reads the file as JSON and changes nothing when it is not.
Remove(p) ==
    /\ pc[p] = "ready"
    /\ p \in Form
    /\ Valid(file) \/ prefs
    /\ \E d \in Peer :
          Loads(p, Removed(Records(file), d), [AsMap(Records(file)) EXCEPT ![d] = Absent])
    /\ UNCHANGED <<prefs, idVars, file, given>>

Ends(p) == Goes(p, "ready") /\ alone' = alone \ {p}

\* The file is truncated when it is opened for writing.  The form opens it for
\* itself alone, so it and the other writers fail to open it at the same time.
Open(p) ==
    /\ pc[p] = "loaded"
    /\ ~prefs
    /\ \/ /\ \A q \in Process : Writing(q) => {p, q} \cap Form = {}
          /\ file' = <<>>
          /\ Goes(p, "write")
          /\ UNCHANGED alone
       \/ /\ \E q \in Process : Writing(q) /\ {p, q} \cap Form # {}
          /\ Ends(p)
          /\ UNCHANGED file
    /\ UNCHANGED <<prefs, idVars, list, calls, given, expect, clean>>

\* File f after the text c was written over its beginning; broken says that
\* what follows c begins in the middle of a record.
Overlay(f, c, broken) ==
    [i \in 1..(IF Len(c) > Len(f) THEN Len(c) ELSE Len(f)) |->
        IF i <= Len(c) THEN c[i]
        ELSE IF broken /\ i = Len(c) + 1 THEN Junk
        ELSE f[i]]

\* The stream is closed and hands its buffer to the system.
Flush(p) ==
    /\ Writing(p)
    /\ \E broken \in BOOLEAN :
          /\ broken => Len(file) > Len(list[p]) + 1
          /\ file' = Overlay(file, Text(list[p]), broken)
    /\ clean' = IF p \in alone THEN p ELSE None
    /\ Ends(p)
    /\ UNCHANGED <<prefs, idVars, list, calls, given, expect>>

\* The flush happens in the stream's destructor, which tells nobody that it
\* failed: nothing was written, or as much as the disk had room for.
FlushFails(p) ==
    /\ "disk" \in Fault
    /\ Writing(p)
    /\ \/ UNCHANGED file
       \/ \E k \in Len(file)..Len(list[p]) : file' = SubSeq(list[p], 1, k)
    /\ Ends(p)
    /\ UNCHANGED <<prefs, idVars, list, calls, given, expect, clean>>

\* On the phone the edited preference is applied at once.
Apply(p) ==
    /\ prefs
    /\ pc[p] = "loaded"
    /\ file' = Text(list[p])
    /\ clean' = IF p \in alone THEN p ELSE None
    /\ Ends(p)
    /\ UNCHANGED <<prefs, idVars, list, calls, given, expect>>

Save(p) == Open(p) \/ Flush(p) \/ FlushFails(p) \/ Apply(p)

\* The process ends when its work is done, or is killed in the middle of it.
Exit(p) ==
    /\ ~prefs
    /\ pc[p] # "off"
    /\ pc[p] # "ready" => "kill" \in Fault
    /\ Goes(p, "off")
    /\ self' = [self EXCEPT ![p] = NoFile]
    /\ raced' = (raced \/ pc[p] = "flush")
    /\ alone' = alone \ {p}
    /\ UNCHANGED <<prefs, idFile, starts, file, list, calls, given, expect, clean>>

Next == \E p \in Process :
    \/ Start(p) \/ Look(p) \/ CreateId(p) \/ FlushId(p)
    \/ Upsert(p) \/ Remove(p) \/ Save(p) \/ Exit(p)

Spec == Init /\ [][Next]_vars

-----------------------------------------------------------------------------
(* Properties *)

\* Every variable has its type.
TypeOK ==
    /\ prefs \in BOOLEAN
    /\ pc \in [Process -> {"off", "look", "create", "flush", "ready", "loaded", "write"}]
    /\ idFile \in Identity \cup {NoFile, Cut}
    /\ self \in [Process -> Identity \cup {NoFile}]
    /\ starts \in Nat /\ calls \in Nat
    /\ file \in Seq(Record \cup {End, Junk})
    /\ list \in [Process -> Seq(Record)]
    /\ given \subseteq Record
    /\ alone \subseteq Process
    /\ expect \in [Process -> [Peer -> Port \cup {0, Absent}]]
    /\ clean \in Process \cup {None} /\ raced \in BOOLEAN

\* Whoever reads the file, at whatever moment, after whatever overlap, kill or
\* failed flush, finds no record that some call did not put there: a torn file
\* may forget a device but never makes one known (is_device_paired).
NothingInvented ==
    \A i \in 1..Len(Records(file)) : Records(file)[i] \in given

\* When nobody is writing and the last call to end ran alone and without
\* failure, the file is whole again, whatever it was before, and holds what
\* that call found with its own change, nothing more and nothing less.
ExactWhenAlone ==
    clean # None => Valid(file) /\ AsMap(Records(file)) = expect[clean]

\* Unless two processes made an identity at once, or one was cut short in it,
\* every process of the device goes by the identity in the file, and no file
\* without one is left to stop all later processes.
IdentityAgrees ==
    ~raced =>
        /\ \A p \in Process \ Form :
              pc[p] \in {"ready", "loaded", "write"} => self[p] = idFile
        /\ idFile = Cut => \E p \in Process : pc[p] = "flush"
=============================================================================
