----------------------------- MODULE MCAccounts -----------------------------
(* Small instances of Accounts. *)
EXTENDS AccountsInv, TLC

MCSymmetry == Permutations(Sessions) \cup Permutations(Requests)
=============================================================================
