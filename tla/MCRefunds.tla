----------------------------- MODULE MCRefunds -----------------------------
(* A small instance of Refunds: two administrators, a payment of three.    *)
EXTENDS Refunds, TLC
Symmetry == Permutations(Admins)
=============================================================================
