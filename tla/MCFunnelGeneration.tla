------------------------- MODULE MCFunnelGeneration -------------------------
(***************************************************************************)
(* Small instances of FunnelGeneration. All funnels belong to one user.    *)
(***************************************************************************)
EXTENDS FunnelGenerationInv, TLC

OneUser == [f \in Funnels |-> "user"]

\* Sound for the safety runs: nothing tells two funnels, keys or workers apart.
Interchangeable ==
    Permutations(Funnels) \cup Permutations(Keys) \cup Permutations(Workers)
=============================================================================
