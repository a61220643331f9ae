---------------------------- MODULE MCPairStore ----------------------------
(* Instances of PairStore for TLC. *)
EXTENDS PairStore, TLC

CONSTANTS p1, p2, g, d1, d2

NoFault == {}
AllFaults == {"kill", "disk"}

\* The programs are alike, and so are the other devices.
Alike == Permutations({p1, p2}) \cup Permutations({d1, d2})
=============================================================================
