----------------------------- MODULE MCAccounts -----------------------------
(* A small instance of Accounts for TLC. *)
EXTENDS Accounts, TLC

AccountSymmetry ==
  Permutations(Email) \cup Permutations(User) \cup Permutations(Code) \cup Permutations(Caller)
=============================================================================
