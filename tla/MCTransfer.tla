----------------------------- MODULE MCTransfer -----------------------------
(* Instances of Transfer for TLC. *)
EXTENDS Transfer, TLC

\* One name, so that a second transfer replaces the file of the first.
OneName == {<<"a", 0>>}
OneNameOrIllegal == OneName \cup {Illegal}
\* A name that is the temporary path of the other.
PartNames == {<<"a", 0>>, <<"a", 1>>}

NoFault == {}
\* Every failure on the receiver's machine that the code checks for, and those
\* of the senders' source files.
DiskFaults == {"open", "write", "remove", "rename", "refuse", "accept",
               "killReceiver", "read", "resize"}
UncheckedClose == {"close"}
\* The failures that may leave one side waiting for the other.
HangFaults == {"write", "remove", "accept", "reset", "killSender", "killReceiver"}

AnyTrust == {"paired", "unpaired", "misdirected"}

Senders == Permutations(Sender)
=============================================================================
