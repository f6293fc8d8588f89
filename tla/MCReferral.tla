----------------------------- MODULE MCReferral -----------------------------
(* A small instance of Referral for TLC. *)
EXTENDS Referral, TLC
CONSTANTS p1, p2, p3, r1, r2, c1, c2, c3
People == {p1, p2, p3}
Founders == {p1, p2}
Invites == {<<p1, p3>>, <<p2, p3>>, <<p3, p1>>}
Replicas == {r1, r2}
Conns == {c1, c2, c3}
Pools == c1 :> r1 @@ c2 :> r1 @@ c3 :> r2
=============================================================================
