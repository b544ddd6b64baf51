------------------------------- MODULE MCIndex -------------------------------
(***************************************************************************)
(* Instances of Index for TLC: two runs that share a section, two symbols  *)
(* of which one is embedded.                                               *)
(***************************************************************************)
EXTENDS Index, TLC

CONSTANTS shared, own, note, f, g, a, b, p, q, t1, t2

MCNode == [s \in {f, g} |-> s]
MCImportance == [s \in {f, g} |-> IF s = f THEN 1 ELSE 0]
MCYields == [r \in {a, b} |-> IF r = a THEN {shared, own, f} ELSE {shared, f, g}]
MCPages == {{}, {note}}

ThreadSymmetry == Permutations(Threads)

\* Either one thread at a time, or no faults, edits and changes of the profile.
OneKindOfTrouble ==
  \/ overlapped = {} /\ Cardinality({t \in Threads : at[t] # "idle"}) <= 1
  \/ faults = 0 /\ page = {} /\ used \subseteq {p}

=============================================================================
