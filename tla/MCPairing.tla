----------------------------- MODULE MCPairing -----------------------------
(* Instances of Pairing for TLC. *)
EXTENDS Pairing

CONSTANTS d1, d2, d3

\* Two devices pair with a third at the same time.
RunsAtOne == {<<d1, d2>>, <<d3, d2>>}
OneRun == {<<d1, d2>>}

NoFault == {}
AllFaults == FaultKind
=============================================================================
