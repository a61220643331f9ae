------------------------------ MODULE Delivery ------------------------------
(***************************************************************************)
(* What the receiver promises about its download directory, with no        *)
(* frames, no temporary file and no step in between: at every moment, the  *)
(* file at a path is the whole file of one sender its user agreed to, a    *)
(* new file replaces the old one at once, and no failure touches a file    *)
(* that was confirmed.  The one weakness that remains is named: between    *)
(* its delivery and its confirmation a file can be lost, and then neither  *)
(* the old nor the new one is left.  Transfer implements this module.      *)
(***************************************************************************)
CONSTANTS Sender, Path, Absent

VARIABLES
    offer,      \* the file a sender offers
    agreed,     \* the senders whose offer the user agreed to
    store,      \* what is at each path
    tentative   \* the paths delivered and not yet confirmed

Init ==
    /\ offer = [s \in Sender |-> Absent]
    /\ agreed = {}
    /\ store = [p \in Path |-> Absent]
    /\ tentative = {}

\* A sender settles on the file it offers, once.
Offer(s) ==
    /\ offer[s] = Absent
    /\ offer'[s] # Absent
    /\ offer' = [offer EXCEPT ![s] = offer'[s]]
    /\ UNCHANGED <<agreed, store, tentative>>

Agree(s) ==
    /\ offer[s] # Absent
    /\ agreed' = agreed \cup {s}
    /\ UNCHANGED <<offer, store, tentative>>

\* The transfer fails, and nothing else has happened.
Withdraw(s) ==
    /\ s \in agreed
    /\ agreed' = agreed \ {s}
    /\ UNCHANGED <<offer, store, tentative>>

Deliver(s, p) ==
    /\ s \in agreed
    /\ agreed' = agreed \ {s}
    /\ store' = [store EXCEPT ![p] = offer[s]]
    /\ tentative' = {p}
    /\ UNCHANGED offer

Confirm(p) ==
    /\ p \in tentative
    /\ tentative' = {}
    /\ UNCHANGED <<offer, agreed, store>>

Lose(p) ==
    /\ p \in tentative
    /\ tentative' = {}
    /\ store' = [store EXCEPT ![p] = Absent]
    /\ UNCHANGED <<offer, agreed>>

Next ==
    \/ \E s \in Sender : Offer(s) \/ Agree(s) \/ Withdraw(s)
    \/ \E s \in Sender, p \in Path : Deliver(s, p)
    \/ \E p \in Path : Confirm(p) \/ Lose(p)

Spec == Init /\ [][Next]_<<offer, agreed, store, tentative>>
=============================================================================
