-------------------------- MODULE MCOrderPayments --------------------------
(***************************************************************************)
(* Small instances of OrderPayments.                                       *)
(***************************************************************************)
EXTENDS OrderPayments, TLC

HandlerSymmetry == Permutations(Handlers)
=============================================================================
