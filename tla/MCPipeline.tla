----------------------------- MODULE MCPipeline -----------------------------
(* Small instances of Pipeline: two or three leaf modules below one        *)
(* subsystem, and the repository guide above it.                           *)
EXTENDS Pipeline

CONSTANTS l1, l2, l3, sub, guide

MCChildren ==
  [t \in {l1, l2, l3, sub, guide} |->
     CASE t = sub -> {l1, l2} [] t = guide -> {sub, l3} [] OTHER -> {}]

MCRank ==
  [t \in {l1, l2, l3, sub, guide} |->
     CASE t = l1 -> 1 [] t = l2 -> 2 [] t = sub -> 3 [] t = l3 -> 4 [] t = guide -> 5]

\* "leaf-module", "module-summary", and a selection that names no task.
MCRequests == {{l1, l2, l3}, {sub}, {}}

\* A change below sub, and one in l3.
MCAffected == {{l1, sub, guide}, {l3, guide}}

=============================================================================
