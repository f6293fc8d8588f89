------------------------------ MODULE MCWallet ------------------------------
(* A small instance of Wallet for TLC. *)
EXTENDS Wallet, TLC
CONSTANTS w1, w2, w3
Workers == {w1, w2, w3}
Amounts == {1, 2}
Symmetric == Permutations(Workers)
=============================================================================
