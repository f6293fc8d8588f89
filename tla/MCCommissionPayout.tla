------------------------- MODULE MCCommissionPayout -------------------------
(* Small instances of CommissionPayout for TLC. *)
EXTENDS CommissionPayout
CONSTANTS c1, a1
MCCommission == {c1}
MCAdmin == {a1}
MCNobody == {}
=============================================================================
