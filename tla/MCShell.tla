------------------------------ MODULE MCShell -------------------------------
(***************************************************************************)
(* An instance of Shell for TLC: one repository that is registered and one *)
(* that may be, with a job at work.                                        *)
(***************************************************************************)
EXTENDS Shell

CONSTANTS r1, r2

MCJobs == {<<[repo |-> r1, status |-> "running", ended |-> FALSE]>>}

=============================================================================
