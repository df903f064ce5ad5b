----------------------------- MODULE MCRowLocks -----------------------------
(***************************************************************************)
(* A small instance of RowLocks: a basket of one line and one of two, which *)
(* takes the same variant second.                                          *)
(***************************************************************************)
EXTENDS RowLocks, TLC

Permuted == Permutations(Transactions)

TwoBaskets == (1 :> <<7>>) @@ (2 :> <<8, 7>>)
=============================================================================
