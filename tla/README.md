# lan_transfer: models, checks and proofs

`lan_transfer` moves files between computers and phones on one network. A
desktop executable (`src/src`, C++) pairs, sends and receives; a Windows form
(`src/desktop-gui`, C#) and a launcher script start it; an Android application
(`src/android-app`, Kotlin) speaks the same protocol. This directory holds TLA+
modules of the program's own logic, the TLC configurations that check them on
small instances, and TLAPS proofs of what matters most, for every instance.

## 1. Inventory

| component | code | state it keeps | operations | talks to |
|---|---|---|---|---|
| file transfer | `app/file_sender.cpp`, `app/file_receiver.cpp`, `main.cpp` | source file, download directory, `*.part` files, position in the loop | `send_file`, `run_server` (file branch) | peer over one TCP connection; user through a prompt; admission, pair store, sanitizer |
| pairing | `pairing/pairing_manager.cpp`; `AndroidReceiverServer.handlePairRequest`, `DesktopTransferClient.pair` | none of its own between calls; the record at each side | `initiate_pairing`, `handle_incoming_pair_request` | peer over TCP; both users; pair store |
| admission | `security/security_manager.cpp`, `rate_limiter.cpp` | blacklist read at start, one deque of times per key | `enforce_pair_request_allowed`, `enforce_file_request_allowed`, `allow` | called by the receiver |
| path sanitizer | `security/path_sanitizer.cpp` | none | `build_output_path`, `build_temp_path` | called by the receiver |
| codec | `common/protocol.cpp` | none | encode, decode, read and write a frame | sockets |
| sockets | `net/socket.cpp` | a descriptor | connect, accept, `send_all`, `receive_exact`, close | the system |
| pair store and identity | `pairing/pair_store.cpp` | `paired_devices.json`, `device_info.json` | `load`, `upsert`, `is_paired`, `get_or_create_local_device_info` | receiver, `pair`, `send` and the GUI, each a process |
| discovery | `discovery/device_discovery.cpp`, `presence_announcer.cpp` | devices seen with times; a thread and a stop flag | announce, receive, prune, `discover` | UDP broadcast |
| connection codes | `discovery/code_lookup_service.cpp`, `connection_code.cpp`; `ConnectionCodeResolver.kt` | a thread and a stop flag | answer a lookup, resolve a code | UDP broadcast |
| desktop GUI | `MainForm.cs` | the receiver process, the queue of its output lines, the lists shown | start, stop, relay questions and answers, pair by code, remove a device | the executable's stdin, stdout; the pair store |
| receiver process | `app/file_receiver.cpp` (`run_server`), `presence_announcer.cpp`, `code_lookup_service.cpp`, `main.cpp` | the server socket, two threads with their flags, standard input | bind, start and join the threads, serve, ask, end | the threads; the form or a console |
| phone receiver | `AndroidReceiverServer.kt` | a flag, server sockets, three threads | `start`, `stop`, accept loop, `handleFileRequest`, presence, lookup | TCP, UDP, the activity, `DeviceStore` |
| phone client and activity | `DesktopTransferClient.kt`, `MainActivity.kt` | what is on the screen | `pair`, `sendFile`, confirm | the receiver, the store |
| phone storage | `DeviceStore.kt` | preferences | load, upsert, remove | activity and receiver threads |
| settings, launcher | `config/settings.cpp`, `LanTransferLauncher.ps1` | one number; one process | load; start, stop | |

The behaviours that are hard: two processes at the ends of a stream that either
may leave at any moment; a server that serves one connection at a time and asks
a user in the middle of it; a last frame nobody acknowledges; file operations
that fail, or are cut off by `Process.Kill`, between steps that belong together;
one JSON file written by several processes; threads that end late or silently;
questions that reach a user after the one who asked has gone. `PROJECT.json`
lists every hazard at its line.

What makes each component correct:

* *file transfer*: a file reported saved is the whole file of one sender the
  user agreed to; a failure, a kill or a refused request damages nothing that
  was received before; both processes end.
* *pairing*: a record means that both users agreed to one attempt; without a
  fault both devices agree; nobody waits for ever.
* *admission*: no more than the limit in any window, no refusal without cause,
  no listed device.
* *pair store*: no torn file makes a device known; a call that runs alone is
  exact; one device has one identity.
* *discovery and codes*: lists are neither stale nor incomplete; names arrive as
  they were given; a code leads to the device that has it.
* *phone receiver*: flag, threads, sockets and records fit together over any
  sequence of starts and stops; files received are kept.
* *receiver process and desktop GUI*: the answer a user gives reaches the question
  it was given to, and every question gets one; a receiver that serves can be
  found, and what is announced is open; an exception ends the process, not half
  of it.
* *codec*: what one program encodes the other decodes; a stream cut anywhere
  yields a prefix of the frames that were sent.

## 2. Plan

Written, in this order:

1. `Transfer`, its abstract specification `Delivery`, and `MCTransfer`: the core.
2. `Admission`, `Pairing` and their MC modules.
3. `TransferProofs`, `AdmissionProofs`, `PairingProofs`.
4. `PhoneReceiver`, `PairStore`, `Discovery` and their MC modules.
5. `FrameStream`, the bytes below the queues of frames, and its abstract
   specification `FrameQueue`; `FrameStreamProofs`.
6. `ReceiverProcess`, the receiver with its threads and its questions under the
   form; `ReceiverProcessProofs`.
7. `PhoneReceiverProofs`, `PairStoreProofs`, and in `AdmissionProofs` and
   `PairingProofs` the properties that had been left: `BlockedNeverAdmitted`,
   `HalfOnlyByFault`.
8. `DiscoveryProofs`, the files of `PairStoreProofs`, and who waits for whom:
   `NoMutualWait` of `Transfer` and `Pairing`, `NobodyForgotten` of
   `ReceiverProcess`, `NothingHalfRead` of `FrameStream`.

To come:

1. The composition of `Pairing` and `Transfer`: `Pairing`'s record as the `trust`
   of `Transfer`, with devices removed while a transfer waits for its user.
   `PhoneReceiver` has this on the phone (`NotRevived`).
2. The phone's `sendFile`, with its timeout, as a second kind of sender.

`Transfer` is the module everything else leans on: `Pairing` decides what its
`trust` may be, `Admission` its refusals (fault `refuse`), `PairStore` what the
record is worth after a crash, `FrameStream` what its queues are made of and
`ReceiverProcess` how its question reaches a user. `MCTransfer` instantiates `Transfer`;
`Transfer` instantiates `Delivery`, and `FrameStream` `FrameQueue`, under their
refinement mappings.

## 3. The modules and the code

`PROJECT.json` maps every definition to its lines. In general a process is a
program counter, one action stands for the code between two calls that may wait
or fail, and an action includes everything the code does up to the next of them.

**Transfer**: `FileSender::send_file` (`spc`, `src`, `name`, `declared`, `pos`)
against the file branch of `FileReceiver::run_server` (`rpc`, `cur`,
`remaining`, `cleanup`). A connection is two queues of frames and two ends that
may be gone; a chunk is the range of the sender's bytes it carries, and a file a
sequence of bytes that know whose they are, so that a mixed, truncated or
doubled file is told from a whole one. A path is a base name with a number of
suffixes `.part`. The faults are the failures of every system call the code
makes, the death of either process, a reset connection, and a source file that
changes. `close` is a fault of its own because the code does not look at it.

**Delivery**: the same directory as its users see it: offers, agreement, one
atomic delivery, a confirmation, and the one weakness left, a file lost between
the removal of the old one and the rename.

**Admission**: `SecurityManager` with two `RateLimiter`s: `history` is the deque
of the code, `admitted` the log the properties speak of.

**Pairing**: `initiate_pairing` and the phone's `pair` against
`handle_incoming_pair_request` and `handlePairRequest`. The members of `Phone`
have the phone's timeouts and are not asked a second time.

**PhoneReceiver**: `AndroidReceiverServer`. Thread `i` is the one the `i`-th
`start()` made, and keeps its own socket; `running`, `ref` (`serverSocket`) and
`latest` (`serverThread`) are shared by all of them. `stop()` is the steps
close, join, report, taken by the activity or by a server thread that ends.
`Destroy` is `onDestroy`: it calls `stop()` too, the dialog and the buttons are gone
after it, and a question that is open is never answered. Files are received to the
first free name, as `buildUniqueFile` finds it. In the application's own folder
the temporary path is that path with `.part` added (`PartOf`), an ordinary name in
the same folder, and a file found there is deleted, whoever wrote it
(`OpenPrivate`). In a folder the user has chosen (`tree`) both names are free ones,
found when they are needed (`OpenTree`, `Commit`). `asked` is what the request of a
thread asks for: the device whose record was looked up, and the name.

**PairStore**: the two JSON files. A write is what the stream does: truncate at
the opening, write at the closing. `file` is a sequence of records, the closing
bracket and bytes that match nothing, so that what two overlapping writers leave
is read the way the regular expression of `load_paired_devices` reads it.

**Discovery**: announcing threads, searches, lookup threads and resolvers. A
broadcast reaches any subset of the sockets that listen, an answer may be
arbitrarily late. The escaping of names is modelled character by character,
because a property is about it: the desktop's and the phone's decoders unescape
twice, the form's once. A name is a sequence over the constant `Char`; the loops
over its characters are recursive functions on the places of the sequence.

**FrameStream**: one direction of a connection. The writer is `make_*_frame`,
`send_frame` and the loop of `send_all` (`calls` is what its calls have still to
hand over); the stream gives `recv` any part of what is under way; the reader is
`receive_frame` with the loop of `receive_exact` (`buf`), the checks of the
header and `parse_*_frame`. Writer and reader are a desktop or a phone: the
limits that one checks and the other does not are `Writable` and `Readable`. A desktop
keeps the bytes of a text; a phone makes a `String` of them, in which bytes that are
not UTF-8 are another character (`Text`, `AsRead`), and so writes nothing but UTF-8.
The unit of the stream is a number of the header, a length, a file size, or one byte
of text or data, so that a unit read in the wrong place is taken for something
else.

**FrameQueue**: what `Transfer` and `Pairing` are written over: whole messages, in
order, readable after the writer has gone, lost only with the connection.

**ReceiverProcess**: `main` walks through `run_server`: bind, start of the two
threads, serving, and, when an exception leaves it, the destructors in their
order. `thread` and `running` are the threads and their flags. A question is a
line in `pipe` (what the process has printed), in `queue` (what the form's reader
thread has posted), in `boxes` (message boxes, the newest first, because a box
runs the form's queue and another may open over it), and its answer is in
`stdin`. A line is known by how it begins (`Recognized`), and the texts in it are the
peer's: one with a line break may begin another line like a question. `Ask` then
prints two for one question (`split`). A box and an answer are for the question
whose line they came from (`SubjectOf`). The form disables itself behind a box
(`Enabled`). `mixed` records that a line of one receiver was handled while another
was running.

## 4. The runs

| run | result | distinct states |
|---|---|---|
| `transfer_disk` | holds | 1 022 000 |
| `transfer_live` | holds | 163 000 |
| `transfer_success` | violated | |
| `transfer_close` | violated | |
| `admission` | holds | 420 000 |
| `pairing` | holds | 25 000 |
| `phone` | holds | 990 000 |
| `pair_store` | holds | 456 000 |
| `discovery` | holds | 1 467 000 |
| `discovery_lookup` | violated | |
| `frames` | holds | 53 000 |
| `receiver` | holds | 590 000 |

Deadlock is not checked: every instance ends, when its transfers, attempts,
starts, calls, messages or questions are used up.

**transfer_disk**: two senders, every failure of the receiver's machine (but
`close`), its kill, a source that cannot be read or changes its size, all three
kinds of trust and an illegal name. Two senders and one name are enough for a
file to be replaced, for one transfer to wait while another runs, and for one to
meet what the other has left behind. A chunk is two bytes and a file up to three:
a full and a partial chunk; the receiver's limit is two, so the limits of both
sides are met and differ. `SavedIntact`, `ReplacementReady`, `OnlyConsented`,
`NoLitter`, `SavedMeansSentWhole`, `SavedOnlyReplaced`, and `ImplementsDelivery`,
the refinement.

**transfer_live**: the same two senders with one-byte chunks, and every fault
that may leave one side waiting, a removal of the temporary file that fails in the
catch block and so ends the receiver among them. `ReceiverReturns`, `RunEnds`, and the safety half of
both, `NoMutualWait`: whoever waits has somebody before it who is not held up.

**admission**: one device and requests without a device identifier, one host,
limits 1 and 2, a window of one tick and three ticks: a request at each edge of
the window, and restarts that forget the deque. Limits 0 and larger ones are for
the theorems.

**pairing**: a desktop and a phone pair with one phone at the same time, so both
kinds of initiator, both users' answers, the queue at the single-threaded
server, two kills and every other fault. `PairedByConsent`, `HalfOnlyByFault`,
`AgreedIsRecorded`, `AttemptsEnd`, `ServersReturn`.

**phone**: two starts and two requests for the names `x` and `x.part`, in either kind
of folder: the second thread is what the first may get in the way of, the second
request meets the files of the first, also where one's temporary path is the
other's name. The activity may be destroyed at any moment. A file is one chunk;
the states before and after it are those a longer one has. `RunningHasThread`,
`SavedUnlessCrowded`, `NotRevived`, `FilesKept`, `OffByReason`, `Stops`.

**pair_store**: two programs and the form, two peers, three calls: two that
overlap and one to find what they left. `NothingInvented`, `ExactWhenAlone`,
`IdentityAgrees`. The data are bounded: a text fits the stream's buffer (about
thirty records), so one write brings it to the system, and records have one
length.

**discovery**: a phone and a desktop, three uses (a receiver, a search or a
lookup each), a search of two seconds and a memory of one: a device may come, go
and be forgotten within a search. The names are one with a bar and ones that a
second decoding changes or refuses. The two devices have codes of their own or one
code between them, in which case either may be found. `NoGhosts`, `UpIsListed`,
`NamesSurvive`, `ResolvedRight`.

**frames**: every pair of desktop and phone, two messages one after the other,
out of twelve that cover every kind of payload: strings that are empty, as long as
allowed and longer, bytes that could be lengths, a byte that is not UTF-8 in a name,
in a text of an error and in a size, a chunk longer than a payload may be. A payload is at most eight units, a header four, and each is cut
everywhere. The second message is what a misread first one would spoil.
`DecodedAsSent`, `RefusedByLimits`, `ImplementsFrameQueue`, `CatchesUp`.

**receiver**: two receivers one after the other, each of which asks up to twice: a
question of the one before and a question of its own may meet, a second answer may
overtake, and one text of a peer may begin a line of its own. `NoAnswerAstray`,
`AnnouncedIsOpen`, `FoundWhileServing`, `QuestionsAreAnswered`, `ExceptionEnds`.
`NoAnswerAstray` excuses the runs in which a line of one receiver was handled
while another was running, and those in which a peer's text came out as a question;
what happens then is below.

### What the code does and its texts do not say

Three runs look for a disagreement and find it; `PROJECT.json` quotes the lines.

* `transfer_success`: "File sent successfully." is printed although the receiver
  refused the file after it had accepted it.
* `transfer_close`: a last flush that fails is not noticed, and the truncated
  file replaces the old one and is reported saved.
* `discovery_lookup`: any lookup of a connection code ends the search of every
  desktop that is searching.

Other things met while modelling, which no text of the repository contradicts:

* With names `x` and `x.part` the temporary file of one is the file of the
  other, and `SavedIntact` fails: replace `OneNameOrIllegal` by `PartNames` in
  `MCTransferDisk.cfg`. The runs have, and the theorems about saved files assume,
  separate names (`NamesSeparate`).
* A line of a stopped receiver that the form handles after the next start opens a
  box, and its answer goes to the new receiver, which takes it for the answer to
  its own next question: without `mixed`, `NoAnswerAstray` fails.
* A device id or file name with a line break, followed by what the form takes for
  the beginning of a question, opens two boxes for one question; the second answer
  waits in the receiver's standard input and is taken for the answer to its next
  question: without `split`, `NoAnswerAstray` fails.
* After a stop of the phone's receiver whose join ran into its limit, and a new
  start, two threads may receive the same name through one temporary file:
  `SavedIntact` of `PhoneReceiver`, without the condition of `SavedUnlessCrowded`,
  fails.
* In the phone's own folder a file saved as `x.part` is deleted when `x` is received
  next, with one thread and no fault (`OpenPrivate`): `SavedIntact` and `FilesKept`
  leave out the paths that are temporary paths of others (`AtRisk`), and fail
  without that.
* A question that is open when the phone's activity is destroyed is never answered,
  and its thread never ends: `Stops` leaves out exactly that thread.
* A desktop sends a file name as the bytes `path.filename().string()` gives
  (`file_sender.cpp:58`), on Windows those of the ANSI code page; a phone reads them
  as UTF-8, and a name that is not UTF-8 is another name there (`DecodedAsSent`
  compares with `AsRead`).
* `SuccessIsMutual` of `Pairing`, which no run checks, fails when the accepter is a phone: its 15 s also
  run while the initiator's user is asked the second time, and "Pairing
  completed successfully." may be printed by one side alone.
* `PairStore` loses records: two calls that overlap, or a kill between truncation
  and write. Only invention is excluded.
* The decoders of desktop and phone unescape a field that splitting has already
  unescaped: a backslash in a name is lost, or ends the search.
* A desktop that searches announces itself although it does not receive, so it is
  listed by others (`AnnounceSearch`).
* A phone cannot scan while its own receiver answers lookups: the scanner binds
  the port before it asks to share it (`Search`).
* The form gives up a lookup after 800 ms of silence, whatever its four seconds
  (`GiveUp`).
* The buttons of the phone may show a status that an old thread posted late
  (`shown`).
* An exception in an announcing or a lookup thread, of its socket or of a datagram
  that ends in a lone backslash, ends it silently
  (`AnnouncerDies`, `LookupDies`, `Fails`): the receiver serves on and cannot be
  found. `FoundWhileServing` says that this is the only way.
* A phone writes strings that a desktop refuses, and the desktop ends the
  connection (`RefusedByLimits` says that nothing else is refused).

## 5. Fairness

`Transfer`, `Pairing`, `PhoneReceiver`, `FrameStream` and `ReceiverProcess` state
liveness. Weak fairness is
assumed of each process, thread and user as a whole: processes are scheduled, the
system's calls return, and a user who is asked answers, with yes or no, as long as
there is something to answer in: on the phone the dialog goes with the activity
(`Agree` and `Decline` have `~gone`), and then nobody answers. It is not
assumed of faults, of starts and stops, of new requests, nor of the phone's
timeouts in `Pairing`. For `PhoneReceiver` a read ends within its 15 s, with a
frame or a failure, because its sockets have that timeout. No socket of a desktop
has one: that its reads end is what the runs show, from the other side's end
being closed when its process ends. A peer that is up and silent for ever would
stop it; a user who never answers is the one way the programs can be so, and
that is excluded. In `FrameStream` a
program that writes goes on until `send_all` returns, and one that reads reads what
has arrived; that a message is sent is not assumed. In `ReceiverProcess` the main
thread and the two others run, each wait in them has a timeout (a second's sleep,
half a second of `select`) or a partner that ends, the form's reader threads and
its message queue go on, and the user answers the newest box. `Admission`,
`PairStore` and `Discovery` promise nothing that must happen.

## 6. What is proved

`tlapm` checks, for all constants that satisfy the named assumptions:

* *TransferProofs.* `TypeCorrect` and `SavedWasSentWhole`. The
  invariant `IInv` is typing, `ServerInv` (what the control state says of the
  connection served), `ConsentInv`, and for each sender `ConnectionInv` and
  `ChainInv`: the chunks in flight continue one another from what the receiver
  has to what the sender has sent. Without the chain nothing relates `remaining`
  at the one end to `pos` at the other, and `SavedMeansSentWhole` is not
  inductive. `PartInv` says what is in the temporary file.

  `SomebodyMoves` (`NoMutualWait`) goes through `WaitInv`: for each place a sender
  may be at, which places of the receiver and which frames under way go with it.
  It is needed because a sender that waits behind others at the single-threaded
  receiver says nothing about the one being served.

  `SavedStaysIntact`, `ReplacementIsReady` and `SavedIsOnlyReplaced` come from
  `SavedInv`, which adds what the temporary file is worth once it was closed, that
  the final path is free before the rename and that only names that are separate
  from temporary paths are saved. `SavedInv` speaks of `Stored`, what a file is on
  the disk, and assumes `NamesSeparate` alone (`SavedIntact` fails with
  `PartNames`); so does `SavedIsABeginning` (`SavedBegins`): even when a last flush
  fails, a saved file is a beginning of one sender's file and nothing else. That
  it is the whole file assumes that `close` does not fail (`transfer_close` is
  why). `NothingUnasked` and `NoLitterIsLeft` need neither assumption; the latter
  goes through `LitterInv`. `TransferImplementsDelivery` maps every step to a step
  of `Delivery` or a stutter, one lemma step per action.
* *AdmissionProofs.* `RateIsLimited` and `RefusalIsDeserved`, through
  `DequeInv`: the deque is the end of the log, and what is before it has expired.
  The log and the refusal both name their kind of request, so a refusal is
  justified by the window of that kind alone.
  `ListedAreRefused`: no listed device or address is admitted.
* *PairingProofs.* `TypeCorrect` and `PairingNeedsConsent`, through `ConsentInv`:
  consent comes before each frame that tells of it. `EndsMatch` is the second
  invariant, `HandshakeInv`: without a fault, initiator and accepter of an attempt
  are at matching places, and what is in its two queues is what lies between them.
  `RecordsAgree` (`HalfOnlyByFault`) needs it, because a record is made at each
  side by what that side alone has seen. `SomebodyMoves` (`NoMutualWait`) is for
  every fault, and also for devices that pair with each other at once; its
  `WaitInv` says of each place of the initiator what may be under way or closed.
* *FrameStreamProofs.* `RoundTrip`: for every message, all limits and both
  programs, decoding an encoded payload gives the message as this reader's program has its
  texts (`AsRead`: the same bytes, but for a phone that reads what is not UTF-8), or
  an error exactly when this reader does not accept one of its strings. The invariant of the stream
  is `UnderWay`: what the reader has and the stream carries, together with the
  part `cut` that the writer has not handed over, is the chain of the frames of
  the messages not yet decoded. It is needed because no variable says where a
  frame begins: only the lengths read so far do. From it `DecodesWhatWasSent`,
  `RefusesByLimits`, `NoReadIsLeft` (`NothingHalfRead`: a read that finds the
  stream empty has everything that was handed over, and is within a frame only
  while its writer is, or has left it there) and `StreamIsAQueue`, the refinement to `FrameQueue`.
* *ReceiverProcessProofs.* `ThreadInv`, where the main thread is says what the port
  and the threads are, gives `PortIsOpen` and `StaysFindable`; `AskInv`, the question asked is in one place at a time, gives `AnswersFindTheirQuestion`.
  It holds until a line is `mixed` or a text of a peer is a question of its own
  (`split`): one question may then be in two places.
  `NobodyIsForgotten` (`NobodyForgotten`) is the other half and excuses nothing:
  the question asked is in one place at least, and a thread that is joined is
  there and has been told to end, whatever was killed and started before.
* *PhoneReceiverProofs.* `ThreadInv` ties socket, request and paths to the place
  of each thread, `CountInv` the chunks still to come; with it `RunningIsServed` is
  inductive. Three parts stand on them. `TrustInv`, a request past the look at the
  records is of a device that is not among the removed, gives
  `RemovedStaysRemoved`. `SaveInv`, one thread receives, what it has received is at
  its temporary path and its final path is still free, gives
  `SavedStaysWhole` and `FilesAreKept`; both leave out the paths that are temporary
  paths of others (`AtRisk`), for which the code does not keep it. `InOrder`, while
  nothing has failed at most one thread is alive and a stop waits for it, gives
  `OnlyTheUserStops`: the user, or the end of the activity.
* *PairStoreProofs.* `OneIdentity` from `MakerInv`: unless identities were made at
  once the identity file is empty exactly while its one maker has it open.
  `TypeCorrect`, `NoneInvented` and `AloneIsExact` from `FileInv`: every record in
  the file and in a process's copy is one that was given for its peer
  (`GivenInv`); the copy of a call that is alone is what it makes of the records it
  found, and the file it leaves is those records and nothing else (`AloneInv`).
  What somebody reads in a file that is cut, overlaid or whole is `Kept` of it; the
  lemmas on `Kept`, `Overlay` and `Upserted` say what that is for sequences of any
  length.
* *DiscoveryProofs.* First the codec: escaping, splitting and unescaping are
  automata over characters, and `SplittingEscape` says that splitting an escaped
  text gives one field, the text; from it what the decoders read of an
  announcement, a lookup and a match, and `NamesAreKept`. The invariant has one
  part for each thing a search or a lookup relies on: an entry has the name a
  decoder makes of its device's (`ListInv`); who does not search has nothing to
  read (`InboxInv`); who may announce itself, or has been heard this second, is not
  down (`DownInv`); no entry is younger than its device has been down (`AgeInv`,
  for `Forgotten`); who has announced itself all through a search was heard in
  every second of it or is about to be (`HeardInv`, for `ListedWhenUp`); a lookup
  or an answer under way belongs to the lookup that waits, and its device has had a
  receiver since (`AnswerInv` and `FoundInv`, for `FoundRight`).

What a recursive function does with a sequence is proved by induction over
sequences in which the hypothesis is a set (the sequences for which it holds)
instead of an operator: `SeqInduction`, from the library's theorem that finite
sets are well founded by inclusion.

The assumptions are those on the constants, each named in its module, and:

* `NamesSeparate`, and that `close` does not fail, where named above for the saved
  files.
* `Duration > 1` for `ListedWhenUp`: a search of one second, which the command
  line lets the user choose, may begin after this second's announcement and end
  before the next.

`NoMutualWait` of `Pairing`, `NobodyForgotten`, `NothingHalfRead` and `SavedBegins`
are stated by theorems and by no configuration; TLC finds them true on the
instances of the runs `pairing`, `receiver`, `frames` and `transfer_close`.

Only model-checked is liveness, which is out of the prover's reach:
`ReceiverReturns`, `RunEnds`, `AgreedIsRecorded`, `AttemptsEnd`, `ServersReturn`,
`Stops`, `CatchesUp`, `QuestionsAreAnswered`, `ExceptionEnds`. What liveness rests on
is proved where it is safety: that no two sides wait for one another, and that
what is waited for exists (`SomebodyMoves`, `NobodyIsForgotten`, `NoReadIsLeft`).

## 7. What is not modelled

* The extent of what is replaced: a phone's `String` has one character for some
  stretches of malformed bytes where `Utf8` has one for each byte. Half a surrogate
  pair in a text that a phone writes.
* A second peer's text that begins a line in the output of one receiver: one makes
  `NoAnswerAstray` fail already. What is left in a receiver's buffer, the report of
  a pairing, is printed with its next question; what is flushed when the process
  ends is not, because nobody waits for an answer then.
* An activity made anew after `Destroy`, with a receiver object of its own. A
  question that comes after the activity has gone is, as the open one is, never
  answered; that showing its dialog may fail instead, and end the application, is
  left out.
* The bytes of a number: a length, a size or a field of the header is one unit of
  the stream, and its network byte order is left out.
* `DesktopTransferClient.sendFile`: the phone's sender. It follows the desktop's,
  with a timeout of 15 s on the answer, after which it closes the connection: to
  the receiver it is a sender that was killed (`killSender`). What it reports to
  its user is not modelled.
* The moment between `Kill` and the end of the process, for which the form waits:
  one step in `ReceiverProcess`.
* The branch of `StartReceiver` that restarts a running receiver with other
  settings (`MainForm.cs:784-796`): a method that begins by returning when one runs
  never gets there.
* The characters of file names: `PathSanitizer` gives a path in the download
  directory or refuses. The phone's `sanitizeFileName` never refuses.
* The hash behind a connection code: a code is any value.
* The JSON text inside a record, its escapes, and the migration of an old
  `device_info.json`.
* Hosts and broadcast addresses: the candidates that `connect_to` tries in turn,
  `get_peer_ip`.
* Settings (a number read once), the launcher script, the activity's and the
  form's layout, progress and wording.
* The threads that announce a phone and answer its lookups outlive no `stop()`;
  they are in `Discovery` and not in `PhoneReceiver`.
