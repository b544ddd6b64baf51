------------------------------ MODULE JobLanes ------------------------------
(***************************************************************************)
(* What the job queue promises, without its threads, its statements and    *)
(* its memory: a scope has one job at a time, a lane runs its jobs one by  *)
(* one in the order in which they were accepted, a cancellation decides    *)
(* the outcome, an outcome is final, and the start of the service closes   *)
(* what the last one left open.                                            *)
(***************************************************************************)
EXTENDS Sequences

CONSTANTS Jobs, Scopes, Lanes

VARIABLES
  status, scope, lane,
  line,  \* lane -> the accepted jobs that have not begun, in their order
  asked  \* the jobs that a cancellation has reached

vars == <<status, scope, lane, line, asked>>

Active == {"queued", "running"}
Outcomes == {"completed", "failed", "cancelled"}

Init ==
  /\ status = [j \in Jobs |-> "none"]
  /\ scope \in [Jobs -> Scopes]
  /\ lane \in [Jobs -> Lanes]
  /\ line = [l \in Lanes |-> <<>>]
  /\ asked = {}

Accept(j, s, l) ==
  /\ status[j] = "none"
  /\ \A k \in Jobs : scope[k] = s => status[k] \notin Active
  /\ status' = [status EXCEPT ![j] = "queued"]
  /\ scope' = [scope EXCEPT ![j] = s]
  /\ lane' = [lane EXCEPT ![j] = l]
  /\ line' = [line EXCEPT ![l] = Append(@, j)]
  /\ UNCHANGED asked

Begin(j) ==
  /\ status[j] = "queued"
  /\ status' = [status EXCEPT ![j] = "running"]
  /\ \A k \in Jobs : lane[k] = lane[j] => status[k] # "running"
  /\ line[lane[j]] # <<>> /\ Head(line[lane[j]]) = j
  /\ line' = [line EXCEPT ![lane[j]] = Tail(@)]
  /\ UNCHANGED <<scope, lane, asked>>

Ask(j) ==
  /\ status[j] \in Active
  /\ asked' = asked \cup {j}
  /\ UNCHANGED <<status, scope, lane, line>>

End(j, outcome) ==
  /\ status[j] = "running"
  /\ j \in asked => outcome = "cancelled"
  /\ status' = [status EXCEPT ![j] = outcome]
  /\ UNCHANGED <<scope, lane, line, asked>>

Interrupt ==
  /\ status' = [j \in Jobs |-> IF status[j] \in Active THEN "interrupted" ELSE status[j]]
  /\ line' = [l \in Lanes |-> <<>>]
  /\ asked' = {}
  /\ UNCHANGED <<scope, lane>>

Next ==
  \/ \E j \in Jobs, s \in Scopes, l \in Lanes : Accept(j, s, l)
  \/ \E j \in Jobs : Begin(j) \/ Ask(j) \/ \E outcome \in Outcomes : End(j, outcome)
  \/ Interrupt

Spec == Init /\ [][Next]_vars

=============================================================================
