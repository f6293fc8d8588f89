---------------------------- MODULE CommissionRow ----------------------------
(***************************************************************************)
(* What the rest of the system may rely on about a commission, whatever    *)
(* the payout does in between: it is raised once and never goes away, it   *)
(* is paid only while it waits for its payout, and only an unlock that was *)
(* disputed has a paid or cancelled commission waiting again.              *)
(***************************************************************************)
CONSTANT Commission  \* commissions, each of one unlock

VARIABLES
    status,   \* missing, waiting for its payout, paid, cancelled
    disputed  \* the commissions whose unlock has a dispute, over or not

Init ==
    /\ status \in [Commission -> {"none", "PENDING"}]
    /\ disputed = {}

Become(c, s) == status' = [status EXCEPT ![c] = s] /\ UNCHANGED disputed

Arise(c) == status[c] = "none" /\ Become(c, "PENDING")

Pay(c) == status[c] = "PENDING" /\ Become(c, "PAID")

\* A refund cancels what it read as unpaid, paid since or not.
Cancel(c) == status[c] # "none" /\ Become(c, "CANCELLED")

\* The payout's release for a dispute.
Reopen(c) == /\ c \in disputed
             /\ status[c] \in {"PAID", "CANCELLED"}
             /\ Become(c, "PENDING")

Dispute(c) == disputed' = disputed \cup {c} /\ UNCHANGED status

Next == \E c \in Commission :
    Arise(c) \/ Pay(c) \/ Cancel(c) \/ Reopen(c) \/ Dispute(c)

Spec == Init /\ [][Next]_<<status, disputed>>
=============================================================================
