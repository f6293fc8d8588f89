---------------------------- MODULE MCSuccessFee ----------------------------
(* Small instances of SuccessFee for TLC. *)
EXTENDS SuccessFee, TLC
CONSTANTS u1, u2, w1, w2
TwoUnlocks == {u1, u2}
TwoWorkers == {w1, w2}
\* 45 * 0.7 is 31.499999999999996 in a double; u2's credits cover its fee.
Fees == u1 :> 45 @@ u2 :> 5
Costs == u1 :> 40 @@ u2 :> 6
Doubles == {45, 85, 165, 175} \X {70}
Splits == {60, 70}
Symmetric == Permutations(TwoWorkers)
=============================================================================
