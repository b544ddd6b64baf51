------------------------------- MODULE MCJobs -------------------------------
(***************************************************************************)
(* Instances of Jobs for TLC.                                              *)
(***************************************************************************)
EXTENDS Jobs, TLC

CONSTANTS j1, j2, r1, r2, c1, c2, x1

JobSymmetry == Permutations({j1, j2})

=============================================================================
