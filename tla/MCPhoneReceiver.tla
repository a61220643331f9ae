-------------------------- MODULE MCPhoneReceiver --------------------------
(***************************************************************************)
(* Instances of PhoneReceiver for TLC.  The names are those of a file and  *)
(* of another file whose name is that file's temporary name.               *)
(***************************************************************************)
EXTENDS PhoneReceiver, TLC

\* buildUniqueFile("x"), buildUniqueFile("x.part")
MCCandidate ==
    <<"x", 1>> :> "x"           @@ <<"x", 2>> :> "x (2)" @@
    <<"x.part", 1>> :> "x.part" @@ <<"x.part", 2>> :> "x (2).part"

\* buildUniqueDocumentName("x.part"), buildUniqueDocumentName("x.part.part")
MCTreePart ==
    <<"x", 1>> :> "x.part"           @@ <<"x", 2>> :> "x (2).part" @@
    <<"x.part", 1>> :> "x.part.part" @@ <<"x.part", 2>> :> "x.part (2).part"

MCPath == {MCCandidate[c] : c \in DOMAIN MCCandidate} \cup
          {MCTreePart[c] : c \in DOMAIN MCTreePart} \cup {"x (2).part.part"}

\* Nothing asks for the temporary path of a temporary path; those are cut off.
MCPartOf ==
    [p \in MCPath |->
        CASE p = "x" -> "x.part"           [] p = "x (2)" -> "x (2).part"
          [] p = "x.part" -> "x.part.part" [] p = "x (2).part" -> "x (2).part.part"
          [] p = "x.part.part" -> "x (2).part.part"
          [] OTHER -> "x.part.part"]
=============================================================================
