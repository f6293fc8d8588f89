------------------------- MODULE MCUnlockLifecycle -------------------------
(* Small instances of UnlockLifecycle for TLC. *)
EXTENDS UnlockLifecycle, TLC
CONSTANTS l1, b1, b2, w1, w2
OneListing == {l1}
TwoBuyers == {b1, b2}
TwoWorkers == {w1, w2}
NoUnlock == {}
OneUnlock == {<<l1, b1>>}
Symmetric == Permutations(TwoWorkers)
=============================================================================
