---------------------------- MODULE MCDiscovery ----------------------------
(* Instances of Discovery for TLC. *)
EXTENDS Discovery

CONSTANTS p, w

Chars == {"x", Backslash, Bar}

\* A name that needs an escape; one that a second decoding changes and one that
\* it refuses.
Namings == {[d \in Device |-> IF d = p THEN <<Bar>> ELSE <<Backslash, "x">>],
            [d \in Device |-> IF d = p THEN <<"x", Backslash>> ELSE <<Bar>>]}
PlainNames == {[d \in Device |-> <<"x">>]}

Codes == {"111111", "222222"}
\* A code of its own for each device, or one that both have.
OwnCodes == {[d \in Device |-> IF d = p THEN "111111" ELSE "222222"]}
AnyCodes == OwnCodes \cup {[d \in Device |-> "111111"]}
=============================================================================
