------------------------------- MODULE MCOutputs -------------------------------
(***************************************************************************)
(* Instances of Outputs for TLC: three jobs on one name and its variant.   *)
(***************************************************************************)
EXTENDS Outputs, TLC

CONSTANTS j1, j2, j3

ThreeJobs == {j1, j2, j3}

Interchangeable == Permutations(ThreeJobs)

=============================================================================
