----------------------------- MODULE WikiBuild ------------------------------
(***************************************************************************)
(* What the generation of one repository's documents promises, without     *)
(* its threads, its files and its model calls: the record of finished      *)
(* documents (checkpoint.json) grows bottom-up and only grows, an attempt  *)
(* that stops can be continued from the record, and it is complete only    *)
(* when the record covers the plan.                                        *)
(***************************************************************************)
CONSTANTS Tasks, Children

VARIABLES plan, built, outcome

vars == <<plan, built, outcome>>

Outcomes == {"none", "building", "complete", "stopped"}

Init == plan = {} /\ built = {} /\ outcome = "none"

\* A new run forgets what earlier runs recorded.
Begin(tasks) ==
  /\ outcome # "building"
  /\ outcome' = "building"
  /\ plan' = tasks
  /\ built' = {}

\* A continuation keeps the record; it may be asked for more, never for less.
Continue(tasks) ==
  /\ outcome = "stopped"
  /\ outcome' = "building"
  /\ plan \subseteq tasks
  /\ plan' = tasks
  /\ UNCHANGED built

\* Documents are recorded after the planned documents they summarise.
Record(tasks) ==
  /\ outcome = "building"
  /\ \A t \in tasks : Children[t] \cap plan \subseteq built
  /\ built' = built \cup tasks
  /\ UNCHANGED <<plan, outcome>>

Complete ==
  /\ outcome = "building"
  /\ plan \subseteq built
  /\ outcome' = "complete"
  /\ UNCHANGED <<plan, built>>

Stop ==
  /\ outcome = "building"
  /\ outcome' = "stopped"
  /\ UNCHANGED <<plan, built>>

Next ==
  \/ \E tasks \in SUBSET Tasks : Begin(tasks) \/ Continue(tasks)
  \/ \E tasks \in SUBSET plan : Record(tasks)
  \/ Complete
  \/ Stop

Spec == Init /\ [][Next]_vars

=============================================================================
