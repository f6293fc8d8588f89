------------------------------- MODULE Ledger -------------------------------
(***************************************************************************)
(* What a wallet promises: a balance that is never negative and a log of   *)
(* the movements in which each starts from where the last one ended.       *)
(***************************************************************************)
EXTENDS Integers, Sequences

CONSTANT Amount  \* what a movement may be worth

VARIABLES balance, log

Init == balance = 0 /\ log = <<>>

Post(a) ==
    /\ balance + a >= 0
    /\ balance' = balance + a
    /\ log' = Append(log, [amount |-> a, before |-> balance,
                           after |-> balance + a])

Next == \E a \in Amount : Post(a) \/ Post(-a)

Spec == Init /\ [][Next]_<<balance, log>>
=============================================================================
