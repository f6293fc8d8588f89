----------------------------- MODULE MCListing -----------------------------
(* A small instance of Listing for TLC. *)
EXTENDS Listing, TLC
CONSTANTS w1, w2
Workers == {w1, w2}
Pages == {"browse"}
OwnerPage == {"owner"}
Symmetric == Permutations(Workers)
=============================================================================
