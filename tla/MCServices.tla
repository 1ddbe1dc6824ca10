------------------------------ MODULE MCServices ------------------------------
(***************************************************************************)
(* A small instance of module Services.                                    *)
(***************************************************************************)
EXTENDS Services, TLC

\* Sound: nothing tells two requests or two recordings apart.
Interchangeable == Permutations(Requests) \cup Permutations(Recordings)

\* Once a known loss has happened, NothingLost says no more.
BeforeLoss == ~excused
=============================================================================
