------------------------------- MODULE MCRuns -------------------------------
(***************************************************************************)
(* Instances of Runs for TLC: leaf modules below one parent.               *)
(***************************************************************************)
EXTENDS Runs, TLC

CONSTANTS n1, n2, n3, l1, l2, top, g1, a1

MCParent == [m \in Modules |-> IF m = top THEN NoModule ELSE top]
TopSelection == {{}, {top}}
WholePlan == {{}}
RunSymmetry == Permutations(RunIds)

=============================================================================
