----------------------------- MODULE MCAccounts -----------------------------
(* A small instance of Accounts: two overlapping requests. *)
EXTENDS Accounts, TLC
Symmetry == Permutations(Clients) \cup Permutations(Passwords) \cup Permutations(Emails)
=============================================================================
