------------------------------ MODULE Pipeline ------------------------------
(***************************************************************************)
(* Document generation of one repository: GenerationPipeline.run and       *)
(* _generate_documents of clangwiki/pipeline.py, with the resume copy of   *)
(* PlatformGenerationService.generate_repository that feeds it.            *)
(*                                                                         *)
(* A run plans a set of document tasks.  Leaf tasks are generated by a     *)
(* pool of threads, the aggregates one by one after the pool has joined.   *)
(* Every finished task is recorded in checkpoint.json.  A failed,          *)
(* cancelled or interrupted run can be continued by a new run that starts  *)
(* from a copy of its output directory and of its checkpoint, so one copy  *)
(* of the disk state is enough here: the newest run's.                     *)
(***************************************************************************)
EXTENDS Naturals, FiniteSets

CONSTANTS
  Leaves,       \* tasks with hierarchy_role "leaf"
  Aggregates,   \* channel, subsystem and repository tasks
  Children,     \* task -> tasks whose documents it reads (child_document_paths)
  Rank,         \* task -> its position in the planner's list
  ModuleGenerationConcurrency,
  Requests,     \* task sets a caller may select with "only" / "module_ids"
  Affected,     \* task sets an incremental run may plan (_affected_modules)
  MaxRuns       \* bound: runs started in one behaviour

Tasks == Leaves \cup Aggregates
NoTask == "no task"

ASSUME TaskAssumption ==
  /\ IsFiniteSet(Leaves)
  /\ IsFiniteSet(Aggregates)
  /\ Leaves \cap Aggregates = {}
  /\ NoTask \notin Tasks
  /\ Children \in [Tasks -> SUBSET Tasks]
  /\ Rank \in [Tasks -> Nat]
  /\ \A s, t \in Tasks : Rank[s] = Rank[t] => s = t

\* plan_documents sorts the modules by decreasing depth and appends the
\* repository documents, Architecture before README: an aggregate follows the
\* aggregates it reads, and a leaf reads none.
ASSUME OrderAssumption ==
  /\ \A l \in Leaves : Children[l] = {}
  /\ \A a \in Aggregates : \A c \in Children[a] \cap Aggregates : Rank[c] < Rank[a]

ASSUME RequestAssumption ==
  /\ ModuleGenerationConcurrency \in 1..4
  /\ Requests \subseteq SUBSET Tasks
  /\ Affected \subseteq SUBSET Tasks
  /\ MaxRuns \in Nat

VARIABLES
  phase,            \* where the newest run is
  kind,             \* how its plan was chosen
  plan,             \* the tasks plan_documents returned for it
  resume,           \* RunConfig.resume
  source,           \* plan of the run it continues (history)
  planned,          \* tasks/tasks.json exists in its directory
  snapshot,         \* the repository has an active completed run
  runs,             \* runs started so far (bound)
  cancel,           \* the cancel event is set
  late,             \* tasks past their last cancel check when it was set (history)
  st,               \* task -> where its thread is in generate_task
  doc,              \* task -> its file under output/
  completedTaskIds, \* the set shared by the threads
  checkpoint,       \* completed_task_ids of checkpoint.json on disk
  checkpointLock,   \* the task whose thread holds checkpoint_lock, if any
  payload           \* task -> the value its thread is about to write

run == <<kind, plan, resume, source, runs>>
disk == <<doc, checkpoint, planned, snapshot>>
memory == <<completedTaskIds, checkpointLock, payload>>
vars == <<phase, run, cancel, late, st, disk, memory>>

Running == {"prepare", "planning", "leaves", "aggregates"}
Phases == Running \cup {"none", "returned", "raised", "crashed"}
Kinds == {"full", "incremental", "explicit"}
Docs == {"absent", "stale", "torn", "fresh"}

\* The points of generate_task, in program order.
ModelCalls == {"model", "repair"}
BeforeLastCheck == {"context", "answered", "invalid", "repaired"} \cup ModelCalls
PastLastCheck == {"validated", "writing", "written", "checkpointing"}
Busy == BeforeLastCheck \cup PastLastCheck
Finished == {"done", "reused", "failed"}
Points == Busy \cup Finished \cup {"idle", "pending"}

TypeOK ==
  /\ phase \in Phases
  /\ kind \in Kinds
  /\ plan \in SUBSET Tasks
  /\ resume \in BOOLEAN
  /\ source \in SUBSET Tasks
  /\ planned \in BOOLEAN
  /\ snapshot \in BOOLEAN
  /\ runs \in Nat
  /\ cancel \in BOOLEAN
  /\ late \in SUBSET Tasks
  /\ st \in [Tasks -> Points]
  /\ doc \in [Tasks -> Docs]
  /\ completedTaskIds \in SUBSET Tasks
  /\ checkpoint \in SUBSET Tasks
  /\ checkpointLock \in Tasks \cup {NoTask}
  /\ payload \in [Tasks -> SUBSET Tasks]

At(p) == {t \in Tasks : st[t] \in p}

\* A repository is first seen here with or without a completed snapshot.
Init ==
  /\ phase = "none"
  /\ kind = "full"
  /\ plan = {}
  /\ resume = FALSE
  /\ source = {}
  /\ planned = FALSE
  /\ snapshot \in BOOLEAN
  /\ runs = 0
  /\ cancel = FALSE
  /\ late = {}
  /\ st = [t \in Tasks |-> "idle"]
  /\ doc = [t \in Tasks |-> "absent"]
  /\ completedTaskIds = {}
  /\ checkpoint = {}
  /\ checkpointLock = NoTask
  /\ payload = [t \in Tasks |-> {}]

-----------------------------------------------------------------------------
(***************************************************************************)
(* Starting a run.                                                         *)
(***************************************************************************)

FreshMemory ==
  /\ cancel' = FALSE
  /\ late' = {}
  /\ st' = [t \in Tasks |-> "idle"]
  /\ completedTaskIds' = {}
  /\ checkpointLock' = NoTask
  /\ payload' = [t \in Tasks |-> {}]

NewRun ==
  /\ phase \notin Running
  /\ runs < MaxRuns
  /\ runs' = runs + 1
  /\ phase' = "prepare"
  /\ FreshMemory

\* A new run gets an empty directory.  Only a document-only or an incremental
\* run is given a copy of the previous snapshot's output; a change outside of every
\* module makes the run incremental and its plan full.
StartRun(k, tasks, output) ==
  /\ NewRun
  /\ kind' = k
  /\ plan' = tasks
  /\ resume' = FALSE
  /\ source' = {}
  /\ planned' = FALSE
  /\ checkpoint' = {}
  /\ doc' = [t \in Tasks |-> output]
  /\ UNCHANGED snapshot

PreviousOutput == IF snapshot THEN "stale" ELSE "absent"

StartFull == \E output \in {"absent", PreviousOutput} : StartRun("full", Tasks, output)

StartExplicit == \E tasks \in Requests : StartRun("explicit", tasks, PreviousOutput)

StartIncremental ==
  /\ snapshot
  /\ \E tasks \in Affected : StartRun("incremental", tasks, PreviousOutput)

\* The continuation re-applies the request's own selection; the modules an
\* incremental run was restricted to are not part of it (changed_paths is []).
ContinuedPlan == IF kind = "explicit" THEN plan ELSE Tasks

ResumeRun ==
  /\ phase \in {"raised", "crashed"}
  /\ planned
  /\ NewRun
  /\ plan' = ContinuedPlan
  /\ kind' = IF kind = "explicit" THEN "explicit" ELSE "full"
  /\ resume' = TRUE
  /\ source' = plan
  /\ UNCHANGED disk

-----------------------------------------------------------------------------
(***************************************************************************)
(* GenerationPipeline.run up to the plan.                                  *)
(***************************************************************************)

Prepare ==
  /\ phase = "prepare"
  /\ ~cancel
  /\ phase' = "planning"
  /\ UNCHANGED <<run, cancel, late, st, disk, memory>>

PrepareFails ==
  /\ phase \in {"prepare", "planning"}
  /\ phase' = "raised"
  /\ UNCHANGED <<run, cancel, late, st, disk, memory>>

\* Mutant: the continuation does not load the checkpoint it was given.
LoadedCheckpointForgotten == {}

\* Mutant: an entry of the checkpoint that names no task is kept.
LoadedCheckpointUntyped == {NoTask}

\* _read_checkpoint, when the run is a continuation and the file can be read.
LoadedCheckpoint == IF resume THEN checkpoint ELSE {}

PlanDocuments ==
  /\ phase = "planning"
  /\ phase' = "leaves"
  /\ planned' = TRUE
  /\ completedTaskIds' = LoadedCheckpoint
  /\ st' = [t \in Tasks |-> IF t \in plan THEN "pending" ELSE "idle"]
  /\ UNCHANGED <<run, cancel, late, doc, checkpoint, snapshot, checkpointLock, payload>>

-----------------------------------------------------------------------------
(***************************************************************************)
(* generate_task, one step per operation another thread can see.           *)
(***************************************************************************)

Goto(t, p) == st' = [st EXCEPT ![t] = p]
Step(t, from, to) == st[t] = from /\ Goto(t, to)

\* Mutant: overwrite = True is taken to mean that everything is generated.
ReusableNever(t) == FALSE

\* Mutant: a document left in the output directory is taken for a finished one.
ReusableIfPresent(t) == doc[t] # "absent"

Reusable(t) == t \in completedTaskIds /\ doc[t] # "absent"

\* Mutant: the check is skipped.
Unchecked(t, p) == Goto(t, p)

\* _check_cancelled raises in the thread when the event is set.
Checked(t, p) == Goto(t, IF cancel THEN "failed" ELSE p)

BeginTask(t) ==
  /\ IF Reusable(t) THEN Checked(t, "reused") ELSE Checked(t, "context")
  /\ UNCHANGED <<phase, run, cancel, late, disk, memory>>

FirstPending(t, S) ==
  /\ st[t] = "pending"
  /\ \A u \in S : st[u] = "pending" => Rank[t] <= Rank[u]

PlannedLeaves == Leaves \cap plan

PoolSize ==
  IF Cardinality(PlannedLeaves) < ModuleGenerationConcurrency
  THEN Cardinality(PlannedLeaves) ELSE ModuleGenerationConcurrency

\* Without a pool the loop runs in the calling thread and stops at the first
\* failure; the threads of a pool keep taking tasks whatever the others do.
Serial == PoolSize <= 1

\* Mutant: one thread too many.
FreeThreadPlusOne == Cardinality(At(Busy)) <= IF Serial THEN 1 ELSE PoolSize

FreeThread == Cardinality(At(Busy)) < IF Serial THEN 1 ELSE PoolSize

StartLeaf(t) ==
  /\ phase = "leaves"
  /\ FirstPending(t, Leaves)
  /\ FreeThread
  /\ Serial => At({"failed"}) = {}
  /\ BeginTask(t)

StartAggregate(t) ==
  /\ phase = "aggregates"
  /\ FirstPending(t, Aggregates)
  /\ Aggregates \cap At(Busy) = {}
  /\ At({"failed"}) = {}
  /\ BeginTask(t)

BuildContext(t) ==
  /\ Step(t, "context", "model") \/ Step(t, "context", "failed")
  /\ UNCHANGED <<phase, run, cancel, late, disk, memory>>

\* OpenCodeRunner: an answer, or an error (missing executable, timeout, exit
\* status, empty output).
CallModel(t) ==
  /\ \/ Step(t, "model", "answered")
     \/ Step(t, "repair", "repaired")
     \/ \E p \in ModelCalls : Step(t, p, "failed")
  /\ UNCHANGED <<phase, run, cancel, late, disk, memory>>

\* Whether the answer passes validate_markdown is the model's choice.
Validate(t) ==
  /\ \/ st[t] = "answered" /\ Checked(t, "validated")
     \/ st[t] = "answered" /\ Checked(t, "invalid")
     \/ st[t] = "invalid" /\ Checked(t, "repair")
     \/ st[t] = "repaired" /\ Checked(t, "validated")
     \/ Step(t, "repaired", "failed")
  /\ UNCHANGED <<phase, run, cancel, late, disk, memory>>

\* write_document opens the file, which truncates it, and then fills it.
OpenDocument(t) ==
  /\ Step(t, "validated", "writing")
  /\ doc' = [doc EXCEPT ![t] = "torn"]
  /\ UNCHANGED <<phase, run, cancel, late, checkpoint, planned, snapshot, memory>>

CloseDocument(t) ==
  /\ Step(t, "writing", "written")
  /\ doc' = [doc EXCEPT ![t] = "fresh"]
  /\ UNCHANGED <<phase, run, cancel, late, checkpoint, planned, snapshot, memory>>

WriteFails(t) ==
  /\ \E p \in {"validated", "writing"} : Step(t, p, "failed")
  /\ UNCHANGED <<phase, run, cancel, late, disk, memory>>

\* Mutant: the checkpoint is written without the lock.
LockIgnored == TRUE

LockFree == checkpointLock = NoTask

CheckpointAdd(t) ==
  /\ Step(t, "written", "checkpointing")
  /\ LockFree
  /\ checkpointLock' = t
  /\ completedTaskIds' = completedTaskIds \cup {t}
  /\ payload' = [payload EXCEPT ![t] = completedTaskIds \cup {t}]
  /\ UNCHANGED <<phase, run, cancel, late, disk>>

\* Mutant: the lock is not a context manager, and an error leaves it held.
ReleaseLockOnSuccess(t) ==
  /\ checkpointLock' = IF st'[t] = "done" THEN NoTask ELSE checkpointLock
  /\ payload' = [payload EXCEPT ![t] = {}]

ReleaseLock(t) ==
  /\ checkpointLock' = NoTask
  /\ payload' = [payload EXCEPT ![t] = {}]

\* The messages that follow may raise.
CheckpointReplace(t) ==
  /\ Step(t, "checkpointing", "done") \/ Step(t, "checkpointing", "failed")
  /\ checkpoint' = payload[t]
  /\ ReleaseLock(t)
  /\ UNCHANGED <<phase, run, cancel, late, doc, planned, snapshot, completedTaskIds>>

\* The temporary file cannot be written, or not be moved over the checkpoint.
CheckpointFails(t) ==
  /\ Step(t, "checkpointing", "failed")
  /\ ReleaseLock(t)
  /\ UNCHANGED <<phase, run, cancel, late, disk, completedTaskIds>>

TaskStep(t) ==
  \/ t \in Leaves /\ StartLeaf(t)
  \/ t \in Aggregates /\ StartAggregate(t)
  \/ BuildContext(t)
  \/ CallModel(t)
  \/ Validate(t)
  \/ OpenDocument(t)
  \/ CloseDocument(t)
  \/ WriteFails(t)
  \/ CheckpointAdd(t)
  \/ CheckpointReplace(t)
  \/ CheckpointFails(t)

-----------------------------------------------------------------------------
(***************************************************************************)
(* The calling thread: the leaf barrier, the aggregates, the end.          *)
(***************************************************************************)

\* Mutant: a failure leaves the pool without waiting for its threads.
JoinedOrFailed == Leaves \cap At(Busy \cup {"pending"}) = {} \/ At({"failed"}) # {}

\* Mutant: the barrier is passed when every leaf has been taken.
JoinedWhenTaken == Leaves \cap At({"pending"}) = {} \/ At({"failed"}) # {}

\* Leaving the "with" block joins the pool, also when a future has raised.
Joined ==
  \/ Leaves \cap At(Busy \cup {"pending"}) = {}
  \/ Serial /\ At({"failed"}) # {}

JoinLeaves ==
  /\ phase = "leaves"
  /\ Joined
  /\ phase' = IF At({"failed"}) = {} THEN "aggregates" ELSE "raised"
  /\ UNCHANGED <<run, cancel, late, st, disk, memory>>

AggregateRaises ==
  /\ phase = "aggregates"
  /\ At({"failed"}) # {}
  /\ phase' = "raised"
  /\ UNCHANGED <<run, cancel, late, st, disk, memory>>

\* Mutant: an aggregate's failure is logged and passed over.
AllTaken == At(Busy \cup {"pending"}) = {}

AllDone == At(Busy \cup {"pending", "failed"}) = {}

ReturnDocuments ==
  /\ phase = "aggregates"
  /\ AllDone
  /\ phase' = "returned"
  /\ snapshot' = TRUE
  /\ UNCHANGED <<run, cancel, late, st, doc, checkpoint, planned, memory>>

RunStep ==
  \/ Prepare
  \/ PrepareFails
  \/ PlanDocuments
  \/ JoinLeaves
  \/ AggregateRaises
  \/ ReturnDocuments

-----------------------------------------------------------------------------
(***************************************************************************)
(* What may happen to a run from outside.                                  *)
(***************************************************************************)

RequestCancel ==
  /\ phase \in Running
  /\ ~cancel
  /\ cancel' = TRUE
  /\ late' = At(PastLastCheck)
  /\ UNCHANGED <<phase, run, st, disk, memory>>

\* The process dies: its threads and memory go, its files stay as they are.
Crash ==
  /\ phase \in Running
  /\ phase' = "crashed"
  /\ FreshMemory
  /\ UNCHANGED <<run, disk>>

Next ==
  \/ StartFull
  \/ StartExplicit
  \/ StartIncremental
  \/ ResumeRun
  \/ RunStep
  \/ \E t \in Tasks : TaskStep(t)
  \/ RequestCancel
  \/ Crash

Spec == Init /\ [][Next]_vars

\* Threads are scheduled, a model call ends because subprocess.run has a
\* timeout.  Nobody is obliged to start, cancel or kill a run.
Fairness == WF_vars(RunStep) /\ \A t \in Tasks : WF_vars(TaskStep(t))

FairSpec == Spec /\ Fairness

-----------------------------------------------------------------------------
(***************************************************************************)
(* Properties.                                                             *)
(***************************************************************************)

\* A task listed in checkpoint.json has its complete document on disk, at
\* every instant at which the process may die: a continuation never reuses a
\* truncated or an outdated file (write_document is not atomic).
RecordedIsComplete == \A t \in checkpoint : doc[t] = "fresh"

\* While an aggregate reads its children, for the context and again for the
\* validation, those of the plan are complete: no thread of the pool is still
\* writing one, and none is the previous snapshot's.
BottomUp ==
  \A a \in Aggregates \cap At(Busy) : \A c \in Children[a] \cap plan : doc[c] = "fresh"

\* The pipeline returns only when every planned document is complete and
\* recorded, whatever was reused, repaired or failed and retried on the way.
ReturnedIsComplete ==
  phase = "returned" => plan \subseteq checkpoint /\ \A t \in plan : doc[t] = "fresh"

\* No thread is left in generate_task once the run has ended: the run's status
\* and its error are stored, and a continuation copies its directory, only
\* after the last write to that directory.
JoinedBeforeEnd == phase \notin {"leaves", "aggregates"} => At(Busy) = {}

\* At most module_generation_concurrency documents are in work at once, and an
\* aggregate's is then the only one.
PoolBound ==
  /\ Cardinality(At(Busy)) <= ModuleGenerationConcurrency
  /\ Aggregates \cap At(Busy) # {} => Cardinality(At(Busy)) = 1

\* A task recorded in the checkpoint is not generated again, by this run or by
\* a continuation: what is in work is never recorded.
NoRepeatedWork == At(Busy) \cap checkpoint = {}

\* Two threads that finish together do not overwrite each other's record, and
\* continuing a run keeps what it recorded.
RecordsKept ==
  [][\/ checkpoint \subseteq checkpoint'
     \/ runs' # runs /\ ~resume' /\ checkpoint' = {}]_vars

\* After a cancellation no further document is written: the tasks past their
\* last check are those that were past it when the event was set.
CancelIsFinal == cancel => At(PastLastCheck) \subseteq late

\* Every run ends, cancelled or not: no lock, barrier or dead thread keeps it.
EveryRunEnds == phase \in Running ~> phase \notin Running

-----------------------------------------------------------------------------
(***************************************************************************)
(* The inductive invariant of PipelineProofs.                              *)
(***************************************************************************)

\* Threads run only between the plan and the end of the run.
Idle == phase \in {"none", "prepare", "planning", "crashed"} => At({"idle"}) = Tasks

\* The tasks that take part are those of the plan, and all of them do.
Taken ==
  /\ Tasks \ At({"idle"}) \subseteq plan
  /\ phase \in {"leaves", "aggregates", "returned"} => At({"idle"}) \cap plan = {}

\* One thread writes the checkpoint at a time, and what it writes is current.
Locked ==
  /\ \A t \in At({"checkpointing"}) : checkpointLock = t /\ payload[t] = completedTaskIds

\* The shared set holds complete documents, and besides those on disk only the
\* ones being recorded or whose recording failed.
Shared ==
  /\ \A t \in completedTaskIds : doc[t] = "fresh" /\ st[t] \notin Busy \ {"checkpointing"}
  /\ completedTaskIds \ checkpoint \subseteq At({"checkpointing", "failed"})
  /\ phase \in {"leaves", "aggregates"} => checkpoint \subseteq completedTaskIds
  /\ phase \in {"prepare", "planning"} /\ ~resume => checkpoint = {}

\* A thread's position tells what is on disk for its task.
Positions ==
  /\ \A t \in At({"written", "checkpointing"}) : doc[t] = "fresh"
  /\ At({"checkpointing"}) \subseteq completedTaskIds \ checkpoint
  /\ At({"done", "reused"}) \subseteq checkpoint

\* The leaves first, then the aggregates in the planner's order.
Ordered ==
  /\ phase = "leaves" => Aggregates \subseteq At({"idle", "pending"})
  /\ phase \in {"aggregates", "returned"} => Leaves \subseteq At({"idle", "done", "reused"})
  /\ \A a, b \in Aggregates \ At({"idle"}) :
       Rank[b] < Rank[a] /\ st[a] # "pending" => st[b] \in {"done", "reused"}
  /\ phase = "leaves" /\ Serial =>
       \A s, t \in At(Busy \cup {"failed"}) : s = t
  /\ phase = "returned" => plan \subseteq At({"done", "reused"})

IInv ==
  /\ TypeOK
  /\ RecordedIsComplete
  /\ Idle
  /\ Taken
  /\ Locked
  /\ Shared
  /\ Positions
  /\ Ordered
  /\ JoinedBeforeEnd
  /\ CancelIsFinal

-----------------------------------------------------------------------------
(***************************************************************************)
(* Pipeline implements WikiBuild: the checkpoint on disk is the record.    *)
(***************************************************************************)

Outcome ==
  CASE phase = "none" -> "none"
    [] phase \in Running -> "building"
    [] phase = "returned" -> "complete"
    [] OTHER -> "stopped"

Build == INSTANCE WikiBuild WITH built <- checkpoint, outcome <- Outcome

\* The threads, the crash points and the checkpoint file implement the
\* bottom-up build: every step is one of WikiBuild's or leaves the record, the
\* plan and the outcome alone.
BuildsBottomUp == Build!Spec

=============================================================================
