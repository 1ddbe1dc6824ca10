------------------------- MODULE MCStageProgression -------------------------
(* Small instances of StageProgression. *)
EXTENDS StageProgressionInv, TLC

\* Sound: requests are only told apart by what they do.
Interchangeable == Permutations(Requests)
=============================================================================
