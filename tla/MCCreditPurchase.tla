------------------------- MODULE MCCreditPurchase -------------------------
(* Small instances of CreditPurchase for TLC. *)
EXTENDS CreditPurchase, TLC
CONSTANTS k1, k2, r1, r2, s1
TwoKeys == {k1, k2}
TwoRequests == {r1, r2}
OneSweeper == {s1}
=============================================================================
