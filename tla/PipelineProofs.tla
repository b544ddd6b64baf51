--------------------------- MODULE PipelineProofs ---------------------------
(***************************************************************************)
(* The safety properties of Pipeline, proved for every set of tasks and    *)
(* every bound.                                                            *)
(***************************************************************************)
EXTENDS Pipeline, FiniteSetTheorems, TLAPS

\* A thread moves its own task only, from the point the action names.
LEMMA StepTypeOK ==
  ASSUME TypeOK, NEW t \in Tasks, TaskStep(t)
  PROVE  TypeOK'
<1> USE DEF Points, Busy, Finished, BeforeLastCheck, PastLastCheck, ModelCalls, Docs
<1> USE DEF TypeOK, Goto, Step, Checked, run, disk, memory
<1>1. CASE (t \in Leaves /\ StartLeaf(t)) \/ (t \in Aggregates /\ StartAggregate(t))
  BY <1>1 DEF StartLeaf, StartAggregate, BeginTask
<1>2. CASE BuildContext(t) \/ CallModel(t)
  BY <1>2 DEF BuildContext, CallModel
<1>3. CASE Validate(t)
  BY <1>3 DEF Validate
<1>4. CASE OpenDocument(t) \/ CloseDocument(t) \/ WriteFails(t)
  BY <1>4 DEF OpenDocument, CloseDocument, WriteFails
<1>5. CASE CheckpointAdd(t)
  BY <1>5 DEF CheckpointAdd
<1>6. CASE CheckpointReplace(t) \/ CheckpointFails(t)
  BY <1>6 DEF CheckpointReplace, CheckpointFails, ReleaseLock
<1> QED BY <1>1, <1>2, <1>3, <1>4, <1>5, <1>6 DEF TaskStep

LEMMA NewRunTypeOK ==
  ASSUME TypeOK, NewRun
  PROVE  /\ phase' \in Phases /\ runs' \in Nat
         /\ cancel' \in BOOLEAN /\ late' \in SUBSET Tasks
         /\ st' \in [Tasks -> Points]
         /\ completedTaskIds' \in SUBSET Tasks
         /\ checkpointLock' \in Tasks \cup {NoTask}
         /\ payload' \in [Tasks -> SUBSET Tasks]
<1>1. phase' \in Phases /\ runs' \in Nat
  BY DEF NewRun, Phases, Running, TypeOK
<1>2. st' \in [Tasks -> Points]
  BY DEF NewRun, FreshMemory, Points
<1> QED BY <1>1, <1>2 DEF NewRun, FreshMemory

LEMMA StartRunTypeOK ==
  ASSUME TypeOK, NEW k \in Kinds, NEW tasks \in SUBSET Tasks, NEW output \in Docs,
         StartRun(k, tasks, output)
  PROVE  TypeOK'
<1>1. NewRun
  BY DEF StartRun
<1>2. doc' \in [Tasks -> Docs]
  BY DEF StartRun, Docs
<1>3. /\ kind' \in Kinds /\ plan' \in SUBSET Tasks /\ source' \in SUBSET Tasks
      /\ resume' \in BOOLEAN /\ planned' \in BOOLEAN /\ snapshot' \in BOOLEAN
      /\ checkpoint' \in SUBSET Tasks
  BY DEF StartRun, TypeOK
<1> QED BY <1>1, <1>2, <1>3, NewRunTypeOK DEF TypeOK

LEMMA StartTypeOK ==
  ASSUME TypeOK, StartFull \/ StartExplicit \/ StartIncremental \/ ResumeRun
  PROVE  TypeOK'
<1> USE RequestAssumption DEF Kinds, Docs, PreviousOutput
<1>1. CASE StartFull
  BY <1>1, StartRunTypeOK DEF StartFull
<1>2. CASE StartExplicit
  BY <1>2, StartRunTypeOK DEF StartExplicit
<1>3. CASE StartIncremental
  BY <1>3, StartRunTypeOK DEF StartIncremental
<1>4. CASE ResumeRun
  <2>1. NewRun
    BY <1>4 DEF ResumeRun
  <2>2. kind' \in Kinds /\ plan' \in SUBSET Tasks
    BY <1>4 DEF ResumeRun, ContinuedPlan, Kinds, TypeOK
  <2>3. /\ source' \in SUBSET Tasks /\ resume' \in BOOLEAN
        /\ planned' \in BOOLEAN /\ snapshot' \in BOOLEAN
        /\ doc' \in [Tasks -> Docs] /\ checkpoint' \in SUBSET Tasks
    BY <1>4 DEF ResumeRun, disk, TypeOK
  <2> QED BY <2>1, <2>2, <2>3, NewRunTypeOK DEF TypeOK
<1> QED BY <1>1, <1>2, <1>3, <1>4

LEMMA OtherTypeOK ==
  ASSUME TypeOK, RunStep \/ RequestCancel \/ Crash \/ UNCHANGED vars
  PROVE  TypeOK'
<1> USE DEF TypeOK, run, disk, memory, Points, Phases, Running
<1>1. CASE RunStep
  BY <1>1 DEF RunStep, Prepare, PrepareFails, PlanDocuments, LoadedCheckpoint,
              JoinLeaves, AggregateRaises, ReturnDocuments
<1>2. CASE RequestCancel
  BY <1>2 DEF RequestCancel, At
<1>3. CASE Crash
  <2>1. st' \in [Tasks -> Points]
    BY <1>3 DEF Crash, FreshMemory
  <2> QED BY <1>3, <2>1 DEF Crash, FreshMemory
<1>4. CASE UNCHANGED vars
  BY <1>4 DEF vars
<1> QED BY <1>1, <1>2, <1>3, <1>4

LEMMA InitTypeOK == Init => TypeOK
<1> SUFFICES ASSUME Init PROVE TypeOK
  OBVIOUS
<1>1. phase \in Phases /\ kind \in Kinds /\ runs \in Nat
  BY DEF Init, Phases, Kinds
<1>2. /\ st \in [Tasks -> Points] /\ doc \in [Tasks -> Docs]
      /\ payload \in [Tasks -> SUBSET Tasks]
  BY DEF Init, Points, Docs
<1> QED BY <1>1, <1>2 DEF Init, TypeOK

\* Every variable keeps its type.
THEOREM TypeCorrect == Spec => []TypeOK
<1>1. TypeOK /\ [Next]_vars => TypeOK'
  BY StepTypeOK, StartTypeOK, OtherTypeOK DEF Next
<1> QED BY <1>1, InitTypeOK, PTL DEF Spec

-----------------------------------------------------------------------------
(***************************************************************************)
(* The inductive invariant.                                                *)
(***************************************************************************)

\* A thread in generate_task runs in a run that is generating.
LEMMA BusyPhase ==
  ASSUME IInv, NEW t \in Tasks, st[t] \in Busy
  PROVE  /\ phase \in {"leaves", "aggregates"}
         /\ t \in plan
         /\ checkpoint \subseteq completedTaskIds
<1>1. phase \in {"leaves", "aggregates"}
  BY DEF IInv, JoinedBeforeEnd, At
<1>2. t \in plan
  BY DEF IInv, Taken, At, Busy, BeforeLastCheck, PastLastCheck, ModelCalls
<1> QED BY <1>1, <1>2 DEF IInv, Shared

\* A thread that advances from one point of generate_task to the next, or
\* leaves it, disturbs neither the barrier nor the order of the aggregates.
LEMMA AdvanceOrder ==
  ASSUME IInv, NEW t \in Tasks, st[t] \in Busy,
         NEW p \in Busy \cup {"failed", "done"},
         st' = [st EXCEPT ![t] = p], UNCHANGED <<phase, run, cancel, late>>,
         p \in PastLastCheck => st[t] \in PastLastCheck \/ ~cancel
  PROVE  Idle' /\ Taken' /\ Ordered' /\ JoinedBeforeEnd' /\ CancelIsFinal'
<1> USE DEF At, Busy, BeforeLastCheck, PastLastCheck, ModelCalls
<1>0. st \in [Tasks -> Points] /\ phase \in {"leaves", "aggregates"} /\ t \in plan
  BY BusyPhase DEF IInv, TypeOK
<1>1. Idle' /\ JoinedBeforeEnd'
  BY <1>0 DEF Idle, JoinedBeforeEnd
<1>2. Taken'
  BY <1>0 DEF IInv, Taken, run
<1>3. CancelIsFinal'
  BY <1>0 DEF IInv, CancelIsFinal
<1>4. (phase = "leaves" => Aggregates \subseteq At({"idle", "pending"}))'
  BY <1>0 DEF IInv, Ordered
<1>5. (phase \in {"aggregates", "returned"} => Leaves \subseteq At({"idle", "done", "reused"}))'
  BY <1>0 DEF IInv, Ordered
<1>6. (\A a, b \in Aggregates \ At({"idle"}) :
         Rank[b] < Rank[a] /\ st[a] # "pending" => st[b] \in {"done", "reused"})'
  BY <1>0 DEF IInv, Ordered
<1>7. (phase = "leaves" /\ Serial => \A s, u \in At(Busy \cup {"failed"}) : s = u)'
  BY <1>0 DEF IInv, Ordered, Serial, PoolSize, PlannedLeaves, run
<1>8. (phase = "returned" => plan \subseteq At({"done", "reused"}))'
  BY <1>0
<1> QED BY <1>1, <1>2, <1>3, <1>4, <1>5, <1>6, <1>7, <1>8 DEF Ordered

\* What the steps between the cancel checks, the model calls and the
\* validation have in common: only the thread's own position changes.
LEMMA AdvanceData ==
  ASSUME IInv, NEW t \in Tasks, st[t] \in Busy \ {"checkpointing"},
         NEW p \in (Busy \ {"written", "checkpointing"}) \cup {"failed"},
         st' = [st EXCEPT ![t] = p], UNCHANGED <<disk, memory, phase, run>>
  PROVE  RecordedIsComplete' /\ Locked' /\ Shared' /\ Positions'
<1> USE DEF At, Busy, BeforeLastCheck, PastLastCheck, ModelCalls, disk, memory, run
<1>0. st \in [Tasks -> Points] /\ t \notin completedTaskIds
  BY DEF IInv, TypeOK, Shared
<1>1. RecordedIsComplete'
  BY DEF IInv, RecordedIsComplete
<1>2. Locked'
  BY <1>0 DEF IInv, Locked
<1>3. Shared'
  BY <1>0 DEF IInv, Shared
<1>4. Positions'
  BY <1>0 DEF IInv, Positions
<1> QED BY <1>1, <1>2, <1>3, <1>4

LEMMA AdvanceIInv ==
  ASSUME IInv, TypeOK', NEW t \in Tasks, st[t] \in Busy \ {"checkpointing"},
         NEW p \in (Busy \ {"written", "checkpointing"}) \cup {"failed"},
         st' = [st EXCEPT ![t] = p],
         UNCHANGED <<phase, run, cancel, late, disk, memory>>,
         p \in PastLastCheck => st[t] \in PastLastCheck \/ ~cancel
  PROVE  IInv'
<1>1. Idle' /\ Taken' /\ Ordered' /\ JoinedBeforeEnd' /\ CancelIsFinal'
  BY AdvanceOrder
<1>2. RecordedIsComplete' /\ Locked' /\ Shared' /\ Positions'
  BY AdvanceData
<1> QED BY <1>1, <1>2 DEF IInv

\* A task is taken by a thread: it is reused, refused because of a
\* cancellation, or its context is built.
LEMMA BeginIInv ==
  ASSUME IInv, TypeOK', NEW t \in Tasks,
         (t \in Leaves /\ StartLeaf(t)) \/ (t \in Aggregates /\ StartAggregate(t))
  PROVE  IInv'
<1> USE DEF At, Busy, BeforeLastCheck, PastLastCheck, ModelCalls, disk, memory, run
<1>0. /\ st \in [Tasks -> Points] /\ st[t] = "pending"
      /\ phase \in {"leaves", "aggregates"}
      /\ UNCHANGED <<phase, run, cancel, late, disk, memory>>
  BY DEF IInv, TypeOK, StartLeaf, StartAggregate, FirstPending, BeginTask
<1>1. PICK p \in {"failed", "reused", "context"} :
        /\ st' = [st EXCEPT ![t] = p]
        /\ p = "reused" => t \in completedTaskIds
        /\ p = "context" => t \notin completedTaskIds
  <2>1. BeginTask(t)
    BY DEF StartLeaf, StartAggregate
  <2>2. t \in completedTaskIds => doc[t] # "absent"
    BY DEF IInv, Shared
  <2> QED BY <2>1, <2>2 DEF BeginTask, Reusable, Checked, Goto
<1>2. t \in completedTaskIds => t \in checkpoint
  BY <1>0 DEF IInv, Shared
<1>3. RecordedIsComplete' /\ Locked' /\ Positions'
  BY <1>0, <1>1, <1>2 DEF IInv, RecordedIsComplete, Locked, Positions
<1>4. Shared'
  BY <1>0, <1>1, <1>2 DEF IInv, Shared
<1>5. Idle' /\ JoinedBeforeEnd' /\ CancelIsFinal' /\ Taken'
  BY <1>0, <1>1 DEF IInv, Idle, JoinedBeforeEnd, CancelIsFinal, Taken
<1>6. Ordered'
  <2>1. CASE t \in Leaves /\ StartLeaf(t)
    <3>0. phase = "leaves" /\ phase' = "leaves" /\ t \notin Aggregates
      BY <1>0, <2>1, TaskAssumption DEF StartLeaf
    <3>1. (Aggregates \subseteq At({"idle", "pending"}))'
      BY <1>0, <1>1, <3>0 DEF IInv, Ordered
    <3>2. (\A a, b \in Aggregates \ At({"idle"}) :
             Rank[b] < Rank[a] /\ st[a] # "pending" => st[b] \in {"done", "reused"})'
      BY <3>1
    <3>3. ASSUME Serial' PROVE (\A s, u \in At(Busy \cup {"failed"}) : s = u)'
      <4>1. Serial /\ At({"failed"}) = {}
        BY <1>0, <2>1, <3>3 DEF StartLeaf, Serial, PoolSize, PlannedLeaves
      <4>2. Cardinality(At(Busy)) < 1
        BY <2>1, <4>1 DEF StartLeaf, FreeThread
      <4>3. IsFiniteSet(At(Busy))
        BY TaskAssumption, FS_Subset, FS_Union DEF Tasks
      <4>4. At(Busy) = {}
        BY <4>2, <4>3, FS_EmptySet, FS_CardinalityType
      <4> QED BY <1>0, <1>1, <4>1, <4>4
    <3> QED BY <3>0, <3>1, <3>2, <3>3 DEF Ordered
  <2>2. CASE t \in Aggregates /\ StartAggregate(t)
    <3>0. phase = "aggregates" /\ phase' = "aggregates" /\ t \notin Leaves
      BY <1>0, <2>2, TaskAssumption DEF StartAggregate
    <3>1. (Leaves \subseteq At({"idle", "done", "reused"}))'
      BY <1>0, <1>1, <3>0 DEF IInv, Ordered
    <3>2. ASSUME NEW a \in Aggregates, NEW b \in Aggregates,
                 st[a]' # "idle", st[b]' # "idle", Rank[b] < Rank[a], st[a]' # "pending"
          PROVE  st[b]' \in {"done", "reused"}
      <4>0. a \in Tasks /\ b \in Tasks /\ Rank[a] \in Nat /\ Rank[b] \in Nat /\ a # b
        BY <3>2, TaskAssumption DEF Tasks
      <4>1. \A u \in Aggregates : st[u] \in {"idle", "pending", "done", "reused"}
        BY <1>0, <2>2 DEF StartAggregate, Points, Finished, Tasks
      <4>2. \A u \in Aggregates : st[u] = "pending" => Rank[t] <= Rank[u]
        BY <2>2 DEF StartAggregate, FirstPending
      <4>3. CASE a = t
        BY <1>0, <1>1, <3>2, <4>0, <4>1, <4>2, <4>3
      <4>4. CASE a # t
        BY <1>0, <1>1, <3>2, <4>0, <4>4 DEF IInv, Ordered
      <4> QED BY <4>3, <4>4
    <3>3. (\A a, b \in Aggregates \ At({"idle"}) :
             Rank[b] < Rank[a] /\ st[a] # "pending" => st[b] \in {"done", "reused"})'
      BY <3>2 DEF Tasks
    <3> QED BY <3>0, <3>1, <3>3 DEF Ordered
  <2> QED BY <2>1, <2>2
<1> QED BY <1>3, <1>4, <1>5, <1>6 DEF IInv

LEMMA OpenIInv ==
  ASSUME IInv, TypeOK', NEW t \in Tasks, OpenDocument(t)
  PROVE  IInv'
<1> USE DEF OpenDocument, Step, Goto
<1>0. /\ st \in [Tasks -> Points] /\ doc \in [Tasks -> Docs] /\ st[t] \in Busy
      /\ t \notin completedTaskIds /\ t \notin checkpoint
  <2>1. st[t] \in Busy /\ t \notin completedTaskIds
    BY DEF IInv, Shared, Busy, PastLastCheck
  <2> QED BY <2>1, BusyPhase DEF IInv, TypeOK
<1>1. Idle' /\ Taken' /\ Ordered' /\ JoinedBeforeEnd' /\ CancelIsFinal'
  BY <1>0, AdvanceOrder DEF PastLastCheck, Busy
<1>2. RecordedIsComplete' /\ Locked'
  BY <1>0 DEF IInv, RecordedIsComplete, Locked, At, memory
<1>3. Shared'
  BY <1>0 DEF IInv, Shared, At, memory, run, Busy, BeforeLastCheck, PastLastCheck, ModelCalls
<1>4. Positions'
  BY <1>0 DEF IInv, Positions, At, memory
<1> QED BY <1>1, <1>2, <1>3, <1>4 DEF IInv

LEMMA CloseIInv ==
  ASSUME IInv, TypeOK', NEW t \in Tasks, CloseDocument(t)
  PROVE  IInv'
<1> USE DEF CloseDocument, Step, Goto
<1>0. st \in [Tasks -> Points] /\ doc \in [Tasks -> Docs] /\ st[t] \in Busy
  BY DEF IInv, TypeOK, Busy, PastLastCheck
<1>1. Idle' /\ Taken' /\ Ordered' /\ JoinedBeforeEnd' /\ CancelIsFinal'
  BY <1>0, AdvanceOrder DEF PastLastCheck, Busy
<1>2. RecordedIsComplete' /\ Locked'
  BY <1>0 DEF IInv, RecordedIsComplete, Locked, At, memory
<1>3. Shared'
  BY <1>0 DEF IInv, Shared, At, memory, run, Busy, BeforeLastCheck, PastLastCheck, ModelCalls
<1>4. Positions'
  BY <1>0 DEF IInv, Positions, At, memory
<1> QED BY <1>1, <1>2, <1>3, <1>4 DEF IInv

LEMMA AddIInv ==
  ASSUME IInv, TypeOK', NEW t \in Tasks, CheckpointAdd(t)
  PROVE  IInv'
<1> USE DEF CheckpointAdd, LockFree, Step, Goto
<1>0. /\ st \in [Tasks -> Points] /\ payload \in [Tasks -> SUBSET Tasks]
      /\ st[t] \in Busy /\ doc[t] = "fresh"
  BY DEF IInv, TypeOK, Positions, At, Busy, PastLastCheck
<1>1. Idle' /\ Taken' /\ Ordered' /\ JoinedBeforeEnd' /\ CancelIsFinal'
  BY <1>0, AdvanceOrder DEF PastLastCheck, Busy
<1>2. RecordedIsComplete'
  BY DEF IInv, RecordedIsComplete, disk
<1>3. Locked'
  <2>1. At({"checkpointing"}) = {}
    BY TaskAssumption DEF IInv, Locked, At
  <2> QED BY <1>0, <2>1 DEF Locked, At
<1>4. Shared'
  BY <1>0 DEF IInv, Shared, At, disk, run, Busy, BeforeLastCheck, PastLastCheck, ModelCalls
<1>5. Positions'
  <2>1. t \notin checkpoint
    BY <1>0, BusyPhase DEF IInv, Shared, Busy, PastLastCheck
  <2> QED BY <1>0, <2>1 DEF IInv, Positions, At, disk
<1> QED BY <1>1, <1>2, <1>3, <1>4, <1>5 DEF IInv

\* The checkpoint moved into place holds what it held before and the new task.
LEMMA ReplaceGrows ==
  ASSUME IInv, NEW t \in Tasks, CheckpointReplace(t)
  PROVE  /\ checkpoint' = completedTaskIds
         /\ checkpoint \subseteq checkpoint'
         /\ t \in checkpoint'
<1>1. st[t] \in Busy /\ t \in At({"checkpointing"})
  BY DEF CheckpointReplace, Step, At, Busy, PastLastCheck
<1>2. payload[t] = completedTaskIds /\ t \in completedTaskIds
  BY <1>1 DEF IInv, Locked, Positions
<1> QED BY <1>1, <1>2, BusyPhase DEF CheckpointReplace

LEMMA ReplaceIInv ==
  ASSUME IInv, TypeOK', NEW t \in Tasks, CheckpointReplace(t)
  PROVE  IInv'
<1> USE DEF CheckpointReplace, ReleaseLock, Step, Goto
<1>0. st \in [Tasks -> Points] /\ st[t] \in Busy
  BY DEF IInv, TypeOK, Busy, PastLastCheck
<1>1. Idle' /\ Taken' /\ Ordered' /\ JoinedBeforeEnd' /\ CancelIsFinal'
  BY <1>0, AdvanceOrder DEF PastLastCheck
<1>2. RecordedIsComplete'
  BY ReplaceGrows DEF IInv, RecordedIsComplete, Shared
<1>3. Locked'
  BY <1>0 DEF IInv, Locked, At
<1>4. Shared'
  <2>1. completedTaskIds' = completedTaskIds /\ checkpoint' = completedTaskIds
    BY ReplaceGrows
  <2>2. phase' \in {"leaves", "aggregates"}
    BY <1>0, BusyPhase
  <2>3. (\A u \in completedTaskIds : doc[u] = "fresh" /\ st[u] \notin Busy \ {"checkpointing"})'
    <3>1. st'[t] \notin Busy /\ \A u \in Tasks \ {t} : st'[u] = st[u]
      BY <1>0 DEF Busy, BeforeLastCheck, PastLastCheck, ModelCalls
    <3>2. doc' = doc /\ completedTaskIds \subseteq Tasks
      BY DEF IInv, TypeOK
    <3> QED
      BY <2>1, <3>1, <3>2 DEF IInv, Shared
  <2> QED BY <2>1, <2>2, <2>3 DEF Shared
<1>5. Positions'
  <2>1. \A u \in At({"checkpointing"}) : u = t
    BY DEF IInv, Locked, At
  <2> QED BY <1>0, <2>1, ReplaceGrows DEF IInv, Positions, At
<1> QED BY <1>1, <1>2, <1>3, <1>4, <1>5 DEF IInv

LEMMA FailIInv ==
  ASSUME IInv, TypeOK', NEW t \in Tasks, CheckpointFails(t)
  PROVE  IInv'
<1> USE DEF CheckpointFails, ReleaseLock, Step, Goto
<1>0. st \in [Tasks -> Points] /\ st[t] \in Busy
  BY DEF IInv, TypeOK, Busy, PastLastCheck
<1>1. Idle' /\ Taken' /\ Ordered' /\ JoinedBeforeEnd' /\ CancelIsFinal'
  BY <1>0, AdvanceOrder DEF PastLastCheck
<1>2. RecordedIsComplete' /\ Locked'
  BY <1>0 DEF IInv, RecordedIsComplete, Locked, At, disk
<1>3. Shared'
  BY <1>0 DEF IInv, Shared, At, disk, run, Busy, BeforeLastCheck, PastLastCheck, ModelCalls
<1>4. Positions'
  BY <1>0 DEF IInv, Positions, At, disk
<1> QED BY <1>1, <1>2, <1>3, <1>4 DEF IInv

LEMMA TaskStepIInv ==
  ASSUME IInv, NEW t \in Tasks, TaskStep(t)
  PROVE  IInv'
<1>0. TypeOK /\ TypeOK'
  BY StepTypeOK DEF IInv
<1>1. CASE (t \in Leaves /\ StartLeaf(t)) \/ (t \in Aggregates /\ StartAggregate(t))
  BY <1>0, <1>1, BeginIInv
<1>2. CASE BuildContext(t) \/ CallModel(t)
  BY <1>0, <1>2, AdvanceIInv
  DEF BuildContext, CallModel, Step, Goto, Busy, BeforeLastCheck, PastLastCheck, ModelCalls
<1>3. CASE Validate(t)
  BY <1>0, <1>3, AdvanceIInv
  DEF Validate, Checked, Step, Goto, Busy, BeforeLastCheck, PastLastCheck, ModelCalls
<1>4. CASE WriteFails(t)
  BY <1>0, <1>4, AdvanceIInv DEF WriteFails, Step, Goto, Busy, PastLastCheck
<1> QED BY <1>0, <1>1, <1>2, <1>3, <1>4, OpenIInv, CloseIInv, AddIInv, ReplaceIInv, FailIInv
        DEF TaskStep

-----------------------------------------------------------------------------
(***************************************************************************)
(* The steps of the calling thread and of the environment.                 *)
(***************************************************************************)

\* No thread is at work when a run starts.
LEMMA NewRunIInv ==
  ASSUME IInv, TypeOK', NewRun,
         checkpoint' = {} \/ (resume' /\ UNCHANGED <<doc, checkpoint>>)
  PROVE  IInv'
<1> USE DEF NewRun, FreshMemory, At
<1>1. RecordedIsComplete'
  BY DEF IInv, RecordedIsComplete
<1>2. Idle' /\ JoinedBeforeEnd' /\ CancelIsFinal'
  BY DEF Idle, JoinedBeforeEnd, CancelIsFinal, Busy, BeforeLastCheck, PastLastCheck, ModelCalls
<1>3. Taken' /\ Locked' /\ Positions'
  BY DEF Taken, Locked, Positions
<1>4. Shared'
  BY DEF Shared
<1>5. Ordered'
  BY TaskAssumption DEF Ordered, Tasks
<1> QED BY <1>1, <1>2, <1>3, <1>4, <1>5 DEF IInv

LEMMA StartIInv ==
  ASSUME IInv, StartFull \/ StartExplicit \/ StartIncremental \/ ResumeRun
  PROVE  IInv'
<1>1. TypeOK'
  BY StartTypeOK DEF IInv
<1>2. NewRun /\ (checkpoint' = {} \/ (resume' /\ UNCHANGED <<doc, checkpoint>>))
  BY DEF StartFull, StartExplicit, StartIncremental, StartRun, ResumeRun, disk
<1> QED BY <1>1, <1>2, NewRunIInv

LEMMA PlanIInv ==
  ASSUME IInv, TypeOK', PlanDocuments
  PROVE  IInv'
<1> USE DEF PlanDocuments, LoadedCheckpoint, At
<1>0. \A t \in Tasks : st'[t] \in {"idle", "pending"}
  OBVIOUS
<1>1. RecordedIsComplete'
  BY DEF IInv, RecordedIsComplete
<1>2. Idle' /\ JoinedBeforeEnd'
  BY <1>0 DEF Idle, JoinedBeforeEnd, Busy, BeforeLastCheck, PastLastCheck, ModelCalls
<1>3. CancelIsFinal'
  BY <1>0 DEF CancelIsFinal, PastLastCheck
<1>4. Taken'
  BY DEF Taken, run
<1>5. Locked' /\ Positions'
  BY <1>0 DEF Locked, Positions
<1>6. Shared'
  <2>1. completedTaskIds' \subseteq checkpoint /\ checkpoint \subseteq completedTaskIds'
    BY DEF IInv, Shared
  <2>2. \A t \in checkpoint : doc[t] = "fresh" /\ t \in Tasks
    BY DEF IInv, RecordedIsComplete, TypeOK
  <2> QED BY <1>0, <2>1, <2>2
          DEF Shared, run, Busy, BeforeLastCheck, PastLastCheck, ModelCalls
<1>7. Ordered'
  BY <1>0, TaskAssumption
  DEF Ordered, Tasks, Busy, BeforeLastCheck, PastLastCheck, ModelCalls
<1> QED BY <1>1, <1>2, <1>3, <1>4, <1>5, <1>6, <1>7 DEF IInv

LEMMA JoinIInv ==
  ASSUME IInv, TypeOK', JoinLeaves
  PROVE  IInv'
<1> USE DEF JoinLeaves, At, run, disk, memory
<1>0. /\ st \in [Tasks -> Points] /\ phase = "leaves"
      /\ phase' \in {"aggregates", "raised"}
      /\ phase' = "aggregates" => At({"failed"}) = {}
  BY DEF IInv, TypeOK
<1>1. RecordedIsComplete' /\ Idle' /\ Locked' /\ Positions' /\ CancelIsFinal'
  BY <1>0 DEF IInv, RecordedIsComplete, Idle, Locked, Positions, CancelIsFinal
<1>2. Taken' /\ Shared'
  BY <1>0 DEF IInv, Taken, Shared
<1>3. At(Busy) = {}
  <2>1. Aggregates \cap At(Busy) = {}
    BY <1>0 DEF IInv, Ordered, Busy, BeforeLastCheck, PastLastCheck, ModelCalls
  <2>2. CASE Leaves \cap At(Busy \cup {"pending"}) = {}
    BY <2>1, <2>2 DEF Tasks
  <2>3. CASE Serial /\ At({"failed"}) # {}
    BY <1>0, <2>3 DEF IInv, Ordered, Busy, BeforeLastCheck, PastLastCheck, ModelCalls
  <2> QED BY <2>2, <2>3 DEF Joined
<1>4. JoinedBeforeEnd'
  BY <1>0, <1>3 DEF JoinedBeforeEnd
<1>5. Ordered'
  <2>1. (\A a, b \in Aggregates \ At({"idle"}) :
           Rank[b] < Rank[a] /\ st[a] # "pending" => st[b] \in {"done", "reused"})'
    BY DEF IInv, Ordered
  <2>2. phase' = "aggregates" => Leaves \subseteq At({"idle", "done", "reused"})
    BY <1>0 DEF Joined, Points, Finished, Tasks
  <2> QED BY <1>0, <2>1, <2>2 DEF Ordered
<1> QED BY <1>1, <1>2, <1>4, <1>5 DEF IInv

LEMMA EndIInv ==
  ASSUME IInv, TypeOK', AggregateRaises \/ ReturnDocuments
  PROVE  IInv'
<1> USE DEF AggregateRaises, ReturnDocuments, At, run, disk, memory
<1>0. /\ st \in [Tasks -> Points] /\ phase = "aggregates"
      /\ phase' \in {"returned", "raised"}
      /\ UNCHANGED <<run, cancel, late, st, doc, checkpoint, planned, memory>>
      /\ phase' = "returned" => AllDone
  BY DEF IInv, TypeOK
<1>1. RecordedIsComplete' /\ Idle' /\ Locked' /\ Positions' /\ CancelIsFinal'
  BY <1>0 DEF IInv, RecordedIsComplete, Idle, Locked, Positions, CancelIsFinal
<1>2. Taken' /\ Shared'
  BY <1>0 DEF IInv, Taken, Shared
<1>3. At(Busy) = {}
  <2>1. CASE AllDone
    BY <2>1 DEF AllDone
  <2>2. CASE At({"failed"}) # {}
    <3>1. PICK f \in Tasks : st[f] = "failed"
      BY <2>2
    <3>2. SUFFICES ASSUME NEW b \in Tasks, st[b] \in Busy PROVE FALSE
      OBVIOUS
    <3>3. f \in Aggregates /\ b \in Aggregates
      BY <1>0, <3>1, <3>2
      DEF IInv, Ordered, Tasks, Busy, BeforeLastCheck, PastLastCheck, ModelCalls
    <3>4. b # f /\ Rank[b] # Rank[f] /\ Rank[b] \in Nat /\ Rank[f] \in Nat
      BY <3>1, <3>2, TaskAssumption DEF Busy, BeforeLastCheck, PastLastCheck, ModelCalls
    <3>5. Rank[b] < Rank[f] \/ Rank[f] < Rank[b]
      BY <3>4
    <3> QED BY <3>1, <3>2, <3>3, <3>5
            DEF IInv, Ordered, Busy, BeforeLastCheck, PastLastCheck, ModelCalls
  <2> QED BY <2>1, <2>2
<1>4. JoinedBeforeEnd'
  BY <1>0, <1>3 DEF JoinedBeforeEnd
<1>5. Ordered'
  <2>1. (\A a, b \in Aggregates \ At({"idle"}) :
           Rank[b] < Rank[a] /\ st[a] # "pending" => st[b] \in {"done", "reused"})'
    BY <1>0 DEF IInv, Ordered
  <2>2. phase' = "returned" => plan \subseteq At({"done", "reused"})
    <3>1. plan \subseteq Tasks /\ At({"idle"}) \cap plan = {}
      BY <1>0 DEF IInv, Taken, TypeOK
    <3> QED BY <1>0, <3>1 DEF AllDone, Points, Finished
  <2>3. phase' = "returned" => Leaves \subseteq At({"idle", "done", "reused"})
    BY <1>0 DEF IInv, Ordered
  <2> QED BY <1>0, <2>1, <2>2, <2>3 DEF Ordered
<1> QED BY <1>1, <1>2, <1>4, <1>5 DEF IInv

LEMMA PrepareIInv ==
  ASSUME IInv, TypeOK', Prepare \/ PrepareFails
  PROVE  IInv'
<1> USE DEF Prepare, PrepareFails, At, run, disk, memory
<1>0. /\ phase \in {"prepare", "planning"} /\ phase' \in {"planning", "raised"}
      /\ phase' = "planning" => phase = "prepare"
      /\ UNCHANGED <<run, cancel, late, st, disk, memory>>
  OBVIOUS
<1>1. RecordedIsComplete' /\ Locked' /\ Positions' /\ CancelIsFinal' /\ Taken' /\ Shared'
  BY <1>0 DEF IInv, RecordedIsComplete, Locked, Positions, CancelIsFinal, Taken, Shared
<1>2. Idle' /\ JoinedBeforeEnd'
  BY <1>0 DEF IInv, Idle, JoinedBeforeEnd
<1>3. Ordered'
  BY <1>0 DEF IInv, Ordered
<1> QED BY <1>1, <1>2, <1>3 DEF IInv

LEMMA CancelIInv ==
  ASSUME IInv, TypeOK', RequestCancel \/ UNCHANGED vars
  PROVE  IInv'
<1> USE DEF RequestCancel, At, vars, run, disk, memory
<1>0. UNCHANGED <<phase, run, st, disk, memory>>
  OBVIOUS
<1>1. RecordedIsComplete' /\ Locked' /\ Positions' /\ Taken' /\ Shared' /\ Idle' /\ JoinedBeforeEnd'
  BY <1>0 DEF IInv, RecordedIsComplete, Locked, Positions, Taken, Shared, Idle, JoinedBeforeEnd
<1>2. CancelIsFinal'
  BY DEF IInv, CancelIsFinal
<1>3. Ordered'
  BY <1>0 DEF IInv, Ordered, Serial, PoolSize, PlannedLeaves
<1> QED BY <1>1, <1>2, <1>3 DEF IInv

LEMMA CrashIInv ==
  ASSUME IInv, TypeOK', Crash
  PROVE  IInv'
<1> USE DEF Crash, FreshMemory, At, run, disk
<1>1. RecordedIsComplete'
  BY DEF IInv, RecordedIsComplete
<1>2. Idle' /\ JoinedBeforeEnd' /\ CancelIsFinal'
  BY DEF Idle, JoinedBeforeEnd, CancelIsFinal, Busy, BeforeLastCheck, PastLastCheck, ModelCalls
<1>3. Taken' /\ Locked' /\ Positions'
  BY DEF Taken, Locked, Positions
<1>4. Shared'
  BY DEF Shared
<1>5. Ordered'
  BY TaskAssumption DEF Ordered, Tasks
<1> QED BY <1>1, <1>2, <1>3, <1>4, <1>5 DEF IInv

LEMMA StepIInv ==
  ASSUME IInv, [Next]_vars
  PROVE  IInv'
<1>1. TypeOK'
  BY StepTypeOK, StartTypeOK, OtherTypeOK DEF IInv, Next
<1>2. CASE RunStep
  BY <1>1, <1>2, PrepareIInv, PlanIInv, JoinIInv, EndIInv DEF RunStep
<1> QED BY <1>1, <1>2, StartIInv, TaskStepIInv, CancelIInv, CrashIInv DEF Next

LEMMA InitIInv == Init => IInv
<1> SUFFICES ASSUME Init PROVE IInv
  OBVIOUS
<1> USE DEF Init, At
<1>1. TypeOK
  BY InitTypeOK
<1>2. RecordedIsComplete /\ Idle /\ Taken /\ Locked /\ Shared /\ Positions
  BY DEF RecordedIsComplete, Idle, Taken, Locked, Shared, Positions
<1>3. JoinedBeforeEnd /\ CancelIsFinal
  BY DEF JoinedBeforeEnd, CancelIsFinal, Busy, BeforeLastCheck, PastLastCheck, ModelCalls
<1>4. Ordered
  BY TaskAssumption DEF Ordered, Tasks
<1> QED BY <1>1, <1>2, <1>3, <1>4 DEF IInv

\* The invariant from which the safety properties follow.
THEOREM Invariance == Spec => []IInv
  BY InitIInv, StepIInv, PTL DEF Spec

-----------------------------------------------------------------------------
(***************************************************************************)
(* The safety properties.                                                  *)
(***************************************************************************)

\* When an aggregate is in work its planned children are recorded.
LEMMA ChildrenRecorded ==
  ASSUME IInv, NEW a \in Aggregates, st[a] \in Busy, NEW c \in Children[a], c \in plan
  PROVE  c \in checkpoint
<1>0. a \in Tasks /\ c \in Tasks /\ st[c] # "idle"
  BY BusyPhase, TaskAssumption DEF Tasks, IInv, Taken, At
<1>1. phase = "aggregates"
  BY <1>0, BusyPhase
  DEF IInv, Ordered, At, Busy, BeforeLastCheck, PastLastCheck, ModelCalls
<1>2. st[c] \in {"done", "reused"}
  <2>1. CASE c \in Leaves
    BY <1>0, <1>1, <2>1 DEF IInv, Ordered, At
  <2>2. CASE c \in Aggregates
    BY <1>0, <2>2, OrderAssumption
    DEF IInv, Ordered, At, Busy, BeforeLastCheck, PastLastCheck, ModelCalls
  <2> QED BY <1>0, <2>1, <2>2 DEF Tasks
<1> QED BY <1>0, <1>2 DEF IInv, Positions, At

LEMMA ImpliesBottomUp == IInv => BottomUp
  BY ChildrenRecorded DEF BottomUp, At, IInv, RecordedIsComplete

LEMMA ImpliesReturned == IInv => ReturnedIsComplete
  BY DEF IInv, ReturnedIsComplete, Ordered, Positions, RecordedIsComplete, TypeOK, At

LEMMA ImpliesNoRepeatedWork == IInv => NoRepeatedWork
<1> SUFFICES ASSUME IInv, NEW t \in Tasks, st[t] \in Busy, t \in checkpoint
             PROVE  FALSE
  BY DEF NoRepeatedWork, At
<1>1. t \in completedTaskIds
  BY BusyPhase
<1>2. st[t] = "checkpointing"
  BY <1>1 DEF IInv, Shared
<1> QED BY <1>2 DEF IInv, Positions, At

\* Nothing recorded is generated again.
THEOREM RecordedOnce == Spec => []NoRepeatedWork
  BY ImpliesNoRepeatedWork, Invariance, PTL

\* A recorded document is complete at every instant, an aggregate reads only
\* complete documents, a run that returns has its whole plan complete and
\* recorded, and no thread outlives its run.
THEOREM DocumentSafety ==
  Spec => [](RecordedIsComplete /\ BottomUp /\ ReturnedIsComplete /\ JoinedBeforeEnd)
<1>1. IInv => RecordedIsComplete /\ BottomUp /\ ReturnedIsComplete /\ JoinedBeforeEnd
  BY ImpliesBottomUp, ImpliesReturned DEF IInv
<1> QED BY <1>1, Invariance, PTL

\* A run that has returned, failed or been cancelled has no thread left that
\* writes into its directory: the pool is joined on every way out.
THEOREM ThreadsAreJoined == Spec => []JoinedBeforeEnd
<1>1. IInv => JoinedBeforeEnd
  BY DEF IInv
<1> QED BY <1>1, Invariance, PTL

\* Nothing is written after a cancellation but what was past its last check.
THEOREM CancelSafety == Spec => []CancelIsFinal
<1>1. IInv => CancelIsFinal
  BY DEF IInv
<1> QED BY <1>1, Invariance, PTL

\* A step changes the checkpoint by starting a new run or by adding to it.
LEMMA CheckpointStep ==
  ASSUME IInv, [Next]_vars, checkpoint' # checkpoint
  PROVE  \/ StartFull \/ StartExplicit \/ StartIncremental
         \/ \E t \in Tasks : CheckpointReplace(t)
<1>1. CASE RunStep \/ RequestCancel \/ Crash \/ ResumeRun \/ UNCHANGED vars
  BY <1>1 DEF RunStep, Prepare, PrepareFails, PlanDocuments, JoinLeaves, AggregateRaises,
              ReturnDocuments, RequestCancel, Crash, ResumeRun, disk, vars
<1>2. ASSUME NEW t \in Tasks, TaskStep(t) PROVE CheckpointReplace(t)
  BY <1>2 DEF TaskStep, StartLeaf, StartAggregate, BeginTask, BuildContext, CallModel,
              Validate, OpenDocument, CloseDocument, WriteFails, CheckpointAdd,
              CheckpointFails, disk
<1> QED BY <1>1, <1>2 DEF Next

\* Nothing recorded is lost, but by starting a new run.
THEOREM RecordsAreKept == Spec => RecordsKept
<1> DEFINE Kept == \/ checkpoint \subseteq checkpoint'
                   \/ runs' # runs /\ ~resume' /\ checkpoint' = {}
<1>1. IInv /\ [Next]_vars => [Kept]_vars
  <2> SUFFICES ASSUME IInv, [Next]_vars, checkpoint' # checkpoint PROVE Kept
    OBVIOUS
  <2>1. CASE StartFull \/ StartExplicit \/ StartIncremental
    <3>1. runs \in Nat /\ runs' = runs + 1
      BY <2>1 DEF IInv, TypeOK, StartFull, StartExplicit, StartIncremental, StartRun, NewRun
    <3>2. ~resume' /\ checkpoint' = {}
      BY <2>1 DEF StartFull, StartExplicit, StartIncremental, StartRun
    <3> QED BY <3>1, <3>2
  <2>2. CASE \E t \in Tasks : CheckpointReplace(t)
    BY <2>2, ReplaceGrows
  <2> QED BY <2>1, <2>2, CheckpointStep
<1>2. Spec => [][Kept]_vars
  BY <1>1, Invariance, PTL DEF Spec
<1> QED BY <1>2 DEF RecordsKept

-----------------------------------------------------------------------------
(***************************************************************************)
(* The bound on the documents in work.                                     *)
(***************************************************************************)

LEMMA BusyFinite == IsFiniteSet(Tasks) /\ \A p : IsFiniteSet(At(p))
<1>1. IsFiniteSet(Tasks)
  BY TaskAssumption, FS_Union DEF Tasks
<1>2. ASSUME NEW p PROVE IsFiniteSet(At(p))
  BY <1>1, FS_Subset DEF At
<1> QED BY <1>1, <1>2

\* A step takes at most one task into work, with a thread to spare.
LEMMA BusyStep ==
  ASSUME IInv, [Next]_vars
  PROVE  \/ At(Busy)' \subseteq At(Busy)
         \/ \E t \in Tasks : /\ StartLeaf(t) \/ StartAggregate(t)
                             /\ At(Busy)' \subseteq At(Busy) \cup {t}
<1> USE DEF At, Busy, BeforeLastCheck, PastLastCheck, ModelCalls
<1>0. st \in [Tasks -> Points]
  BY DEF IInv, TypeOK
<1>1. CASE StartFull \/ StartExplicit \/ StartIncremental \/ ResumeRun \/ Crash
  BY <1>1 DEF StartFull, StartExplicit, StartIncremental, StartRun, ResumeRun, NewRun,
              Crash, FreshMemory
<1>2. CASE RunStep
  BY <1>0, <1>2 DEF RunStep, Prepare, PrepareFails, PlanDocuments, JoinLeaves,
                    AggregateRaises, ReturnDocuments
<1>3. CASE RequestCancel \/ UNCHANGED vars
  BY <1>3 DEF RequestCancel, vars
<1>4. ASSUME NEW t \in Tasks, TaskStep(t)
      PROVE  \/ At(Busy)' \subseteq At(Busy)
             \/ (StartLeaf(t) \/ StartAggregate(t)) /\ At(Busy)' \subseteq At(Busy) \cup {t}
  <2>1. CASE StartLeaf(t) \/ StartAggregate(t)
    BY <1>0, <2>1 DEF StartLeaf, StartAggregate, BeginTask, Checked, Goto
  <2>2. CASE BuildContext(t) \/ CallModel(t) \/ Validate(t)
    BY <1>0, <2>2 DEF BuildContext, CallModel, Validate, Checked, Step, Goto
  <2>3. CASE OpenDocument(t) \/ CloseDocument(t) \/ WriteFails(t)
    BY <1>0, <2>3 DEF OpenDocument, CloseDocument, WriteFails, Step, Goto
  <2>4. CASE CheckpointAdd(t) \/ CheckpointReplace(t) \/ CheckpointFails(t)
    BY <1>0, <2>4 DEF CheckpointAdd, CheckpointReplace, CheckpointFails, Step, Goto
  <2> QED BY <1>4, <2>1, <2>2, <2>3, <2>4 DEF TaskStep
<1> QED BY <1>1, <1>2, <1>3, <1>4 DEF Next

\* The second part of PoolBound needs no induction of its own: the leaves are
\* over, and of two aggregates in work one would have to be done.
LEMMA OneAggregate ==
  ASSUME IInv, NEW a \in Aggregates, st[a] \in Busy
  PROVE  At(Busy) = {a}
<1> USE DEF At, Busy, BeforeLastCheck, PastLastCheck, ModelCalls
<1>0. a \in Tasks /\ phase = "aggregates"
  BY BusyPhase DEF IInv, Ordered, Tasks
<1>1. SUFFICES ASSUME NEW b \in Tasks, st[b] \in Busy PROVE b = a
  BY <1>0
<1>2. b \in Aggregates
  BY <1>0, <1>1 DEF IInv, Ordered, Tasks
<1>3. Rank[a] \in Nat /\ Rank[b] \in Nat /\ (Rank[a] = Rank[b] => a = b)
  BY <1>0, TaskAssumption
<1>4. ~(Rank[a] < Rank[b]) /\ ~(Rank[b] < Rank[a])
  BY <1>1, <1>2 DEF IInv, Ordered
<1> QED BY <1>3, <1>4

LEMMA PoolStep ==
  ASSUME IInv, IInv', Cardinality(At(Busy)) <= ModuleGenerationConcurrency, [Next]_vars
  PROVE  Cardinality(At(Busy))' <= ModuleGenerationConcurrency
<1> DEFINE B == At(Busy)
           N == At(Busy)'
<1>0. /\ IsFiniteSet(B) /\ Cardinality(B) \in Nat
      /\ ModuleGenerationConcurrency \in Nat /\ 1 <= ModuleGenerationConcurrency
  BY BusyFinite, FS_CardinalityType, RequestAssumption
<1>1. CASE N \subseteq B
  <2>1. IsFiniteSet(N) /\ Cardinality(N) <= Cardinality(B) /\ Cardinality(N) \in Nat
    BY <1>0, <1>1, FS_Subset, FS_CardinalityType
  <2> QED BY <1>0, <2>1
<1>2. ASSUME NEW t \in Tasks, N \subseteq B \cup {t}, Cardinality(B) < ModuleGenerationConcurrency
      PROVE  Cardinality(N) <= ModuleGenerationConcurrency
  <2>1. /\ IsFiniteSet(B \cup {t})
        /\ Cardinality(B \cup {t}) = Cardinality(B) \/ Cardinality(B \cup {t}) = Cardinality(B) + 1
    BY <1>0, FS_AddElement
  <2>2. Cardinality(N) <= Cardinality(B \cup {t}) /\ Cardinality(N) \in Nat
    BY <1>2, <2>1, FS_Subset, FS_CardinalityType
  <2> QED BY <1>0, <1>2, <2>1, <2>2
<1>3. ASSUME NEW t \in Tasks, StartLeaf(t) PROVE Cardinality(B) < ModuleGenerationConcurrency
  <2>1. Cardinality(PlannedLeaves) \in Nat
    <3>1. IsFiniteSet(PlannedLeaves)
      BY TaskAssumption, FS_Subset DEF PlannedLeaves
    <3> QED BY <3>1, FS_CardinalityType
  <2>2. PoolSize \in Nat /\ PoolSize <= ModuleGenerationConcurrency
    BY <1>0, <2>1 DEF PoolSize
  <2> QED BY <1>0, <1>3, <2>2 DEF StartLeaf, FreeThread, Serial
<1>4. ASSUME NEW t \in Tasks, StartAggregate(t) PROVE Cardinality(B) < ModuleGenerationConcurrency
  <2>1. \A l \in Leaves : st[l] \notin Busy
    BY <1>4
    DEF StartAggregate, IInv, Ordered, At, Tasks, Busy, BeforeLastCheck, PastLastCheck, ModelCalls
  <2>2. B = {}
    BY <1>4, <2>1 DEF StartAggregate, At, Tasks
  <2> QED BY <1>0, <2>2, FS_EmptySet
<1> QED BY <1>1, <1>2, <1>3, <1>4, BusyStep

\* Never more than module_generation_concurrency documents in work, and an
\* aggregate's only alone.
THEOREM PoolIsBounded == Spec => []PoolBound
<1> DEFINE Few == Cardinality(At(Busy)) <= ModuleGenerationConcurrency
<1>1. Init => Few
  <2> SUFFICES ASSUME Init PROVE Few
    OBVIOUS
  <2>1. At(Busy) = {}
    BY DEF Init, At, Busy, BeforeLastCheck, PastLastCheck, ModelCalls
  <2> QED BY <2>1, FS_EmptySet, RequestAssumption
<1>2. IInv /\ IInv' /\ Few /\ [Next]_vars => Few'
  BY PoolStep
<1>3. IInv /\ Few => PoolBound
  <2> SUFFICES ASSUME IInv, NEW a \in Aggregates, st[a] \in Busy
               PROVE  Cardinality(At(Busy)) = 1
    BY DEF PoolBound, At
  <2> QED BY OneAggregate, FS_Singleton
<1>4. Spec => []Few
  BY <1>1, <1>2, Invariance, PTL DEF Spec
<1> QED BY <1>3, <1>4, Invariance, PTL

-----------------------------------------------------------------------------
(***************************************************************************)
(* Pipeline implements WikiBuild.                                          *)
(***************************************************************************)

LEMMA BeginStep ==
  ASSUME TypeOK, TypeOK', StartFull \/ StartExplicit \/ StartIncremental
  PROVE  \E tasks \in SUBSET Tasks : Build!Begin(tasks)
<1>1. NewRun /\ checkpoint' = {} /\ plan' \in SUBSET Tasks
  BY DEF StartFull, StartExplicit, StartIncremental, StartRun, TypeOK
<1>2. Outcome # "building" /\ Outcome' = "building"
  BY <1>1 DEF NewRun, Outcome, Running
<1> QED BY <1>1, <1>2 DEF Build!Begin

LEMMA ContinueStep ==
  ASSUME TypeOK, TypeOK', ResumeRun
  PROVE  \E tasks \in SUBSET Tasks : Build!Continue(tasks)
<1>1. /\ plan' \in SUBSET Tasks /\ plan \subseteq plan' /\ checkpoint' = checkpoint
  BY DEF ResumeRun, ContinuedPlan, TypeOK, disk
<1>2. Outcome = "stopped" /\ Outcome' = "building"
  BY DEF ResumeRun, NewRun, Outcome, Running
<1> QED BY <1>1, <1>2 DEF Build!Continue

LEMMA RecordStep ==
  ASSUME IInv, NEW t \in Tasks, CheckpointReplace(t)
  PROVE  \E tasks \in SUBSET plan : Build!Record(tasks)
<1> DEFINE S == completedTaskIds \ checkpoint
<1>0. /\ st \in [Tasks -> Points] /\ phase \in {"leaves", "aggregates"}
      /\ st[t] \in Busy /\ t \in plan
  BY BusyPhase DEF IInv, TypeOK, CheckpointReplace, Step, Busy, PastLastCheck
<1>1. \A s \in S : s \in Tasks /\ st[s] \in {"checkpointing", "failed"} /\ s \in plan
  BY DEF IInv, TypeOK, Shared, Taken, At
<1>2. \A s \in S : Children[s] \cap plan \subseteq checkpoint
  <2>1. CASE phase = "leaves"
    BY <1>1, <2>1, OrderAssumption DEF IInv, Ordered, At, Tasks
  <2>2. CASE phase = "aggregates"
    <3>1. SUFFICES ASSUME NEW s \in S PROVE Children[s] \cap plan \subseteq checkpoint
      OBVIOUS
    <3>2. s \in Aggregates /\ t \in Aggregates
      BY <1>0, <1>1, <2>2
      DEF IInv, Ordered, At, Tasks, Busy, BeforeLastCheck, PastLastCheck, ModelCalls
    <3>3. Rank[s] \in Nat /\ Rank[t] \in Nat /\ (Rank[s] = Rank[t] => s = t)
      BY <1>1, TaskAssumption
    <3>4. ~(Rank[s] < Rank[t]) /\ ~(Rank[t] < Rank[s])
      BY <1>0, <1>1, <3>2
      DEF IInv, Ordered, At, Busy, BeforeLastCheck, PastLastCheck, ModelCalls
    <3>5. s = t
      BY <3>3, <3>4
    <3> QED BY <1>0, <3>2, <3>5, ChildrenRecorded
  <2> QED BY <1>0, <2>1, <2>2
<1>3. checkpoint' = checkpoint \cup S
  BY ReplaceGrows
<1>4. Outcome = "building" /\ Outcome' = "building" /\ plan' = plan
  BY <1>0 DEF CheckpointReplace, Outcome, Running, run
<1>5. S \in SUBSET plan
  BY <1>1
<1> QED BY <1>2, <1>3, <1>4, <1>5 DEF Build!Record

LEMMA CompleteStep ==
  ASSUME IInv', ReturnDocuments
  PROVE  Build!Complete
<1>1. plan' \subseteq checkpoint'
  BY DEF ReturnDocuments, IInv, Ordered, Positions
<1> QED BY <1>1 DEF ReturnDocuments, run, Build!Complete, Outcome, Running

LEMMA StopStep ==
  ASSUME PrepareFails \/ AggregateRaises \/ Crash \/ (JoinLeaves /\ phase' = "raised")
  PROVE  Build!Stop
<1>1. /\ phase \in Running /\ phase' \in {"raised", "crashed"}
      /\ UNCHANGED <<plan, checkpoint>>
  BY DEF PrepareFails, AggregateRaises, Crash, JoinLeaves, Running, run, disk
<1> QED BY <1>1 DEF Build!Stop, Outcome, Running

LEMMA QuietStep ==
  ASSUME \/ Prepare \/ PlanDocuments \/ RequestCancel \/ UNCHANGED vars
         \/ JoinLeaves /\ phase' # "raised"
         \/ \E t \in Tasks : TaskStep(t) /\ ~CheckpointReplace(t)
  PROVE  UNCHANGED <<plan, checkpoint, Outcome>>
<1> USE DEF run, disk
<1>1. CASE Prepare \/ PlanDocuments \/ (JoinLeaves /\ phase' # "raised")
  BY <1>1 DEF Prepare, PlanDocuments, JoinLeaves, Outcome, Running
<1>2. CASE RequestCancel \/ UNCHANGED vars
  BY <1>2 DEF RequestCancel, vars, Outcome
<1>3. ASSUME NEW t \in Tasks, TaskStep(t), ~CheckpointReplace(t)
      PROVE  UNCHANGED <<plan, checkpoint, Outcome>>
  <2>1. UNCHANGED <<plan, checkpoint, phase>>
    BY <1>3 DEF TaskStep, StartLeaf, StartAggregate, BeginTask, BuildContext, CallModel,
                Validate, OpenDocument, CloseDocument, WriteFails, CheckpointAdd,
                CheckpointFails
  <2> QED BY <2>1 DEF Outcome
<1> QED BY <1>1, <1>2, <1>3

\* Every step of the threaded, crash-prone pipeline is a step of the bottom-up
\* build or leaves it alone.
THEOREM Refinement == Spec => BuildsBottomUp
<1>1. Init => Build!Init
  BY DEF Init, Build!Init, Outcome, Running
<1>2. IInv /\ IInv' /\ [Next]_vars => [Build!Next]_(Build!vars)
  <2> SUFFICES ASSUME IInv, IInv', [Next]_vars
               PROVE  Build!Next \/ UNCHANGED <<plan, checkpoint, Outcome>>
    BY DEF Build!vars
  <2> USE DEF Build!Next
  <2>0. TypeOK /\ TypeOK'
    BY DEF IInv
  <2>1. CASE StartFull \/ StartExplicit \/ StartIncremental
    BY <2>0, <2>1, BeginStep
  <2>2. CASE ResumeRun
    BY <2>0, <2>2, ContinueStep
  <2>3. CASE RunStep
    BY <2>3, CompleteStep, StopStep, QuietStep DEF RunStep
  <2>4. ASSUME NEW t \in Tasks, TaskStep(t)
        PROVE  Build!Next \/ UNCHANGED <<plan, checkpoint, Outcome>>
    BY <2>4, RecordStep, QuietStep
  <2>5. CASE RequestCancel \/ Crash \/ UNCHANGED vars
    BY <2>5, StopStep, QuietStep
  <2> QED BY <2>1, <2>2, <2>3, <2>4, <2>5 DEF Next
<1>3. Spec => Build!Init /\ [][Build!Next]_(Build!vars)
  BY <1>1, <1>2, Invariance, PTL DEF Spec
<1> QED BY <1>3 DEF BuildsBottomUp, Build!Spec

=============================================================================
