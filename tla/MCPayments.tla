----------------------------- MODULE MCPayments -----------------------------
(* Small instances of Payments. All charges belong to one user. *)
EXTENDS PaymentsInv, TLC

OneUser == [p \in Payments |-> "user"]

\* Sound: nothing tells two charges, hours or handlers apart.
Interchangeable ==
    Permutations(Payments) \cup Permutations(Hours) \cup Permutations(Handlers)
=============================================================================
