------------------------- MODULE MCReceiverProcess -------------------------
(* An instance of ReceiverProcess for TLC. *)
EXTENDS ReceiverProcess
=============================================================================
