----------------------------- MODULE MCAccounts -----------------------------
(***************************************************************************)
(* Accounts for TLC: accounts, requests and sessions are interchangeable.  *)
(***************************************************************************)
EXTENDS Accounts, TLC

Symmetry == Permutations(Users) \cup Permutations(Handlers) \cup Permutations(Sessions)
=============================================================================
