-------------------------------- MODULE Runs --------------------------------
(***************************************************************************)
(* The snapshots of one repository: PlatformGenerationService of           *)
(* clangwiki/platform.py (generate_repository, _validate_resume_source,    *)
(* activate_run, the constructor) over the tables runs and repositories.   *)
(*                                                                         *)
(* A call of generate_repository reuses the active snapshot, continues the *)
(* latest failed run or fills a new run directory, in whole or for the     *)
(* modules a change affects.  It then makes the run the active one and     *)
(* ingests it into the graph, the wiki and the index.  The pipeline that   *)
(* writes the documents is module Pipeline; here a document is what it     *)
(* reflects: the version of its module's sources and its children's        *)
(* documents as they were.                                                 *)
(***************************************************************************)
EXTENDS Naturals, Sequences

CONSTANTS
  RunIds,        \* the run ids a behaviour may use (bound)
  Modules,       \* the modules of the repository, each with a document
  Parent,        \* module -> its parent module, or NoModule
  NoModule,
  Selections,    \* the module_ids a request may carry; {} is the whole plan
  Generators,    \* threads that call generate_repository
  Activators,    \* request threads that call activate_run
  Versions,      \* the contents a module's source files may have
  MaxEdits,      \* bound: edits of the sources
  MaxRestarts,   \* bound: how often the service is killed and started again
  MaxOthers,     \* bound: how many other processes build the services
  MaxIngestFailures \* bound: failures of an ingestion or of the index

NoRun == "no run"

ASSUME RunsAssumption ==
  /\ NoRun \notin RunIds
  /\ NoModule \notin Modules
  /\ Parent \in [Modules -> Modules \cup {NoModule}]
  /\ Generators \cap Activators = {}
  /\ Versions # {}
  /\ {} \in Selections
  /\ Selections \subseteq SUBSET Modules
  /\ {MaxEdits, MaxRestarts, MaxOthers, MaxIngestFailures} \subseteq Nat

VARIABLES
  source,      \* module -> the content of its source files
  edits,
  created,     \* the rows of runs by created_at
  status,      \* run -> runs.status, "none" before the row exists
  manifest,    \* run -> file_hashes, config_hash and resume_from_run_id
  docs,        \* run -> module -> what its file under output/ reflects
  recorded,    \* run -> completed_task_ids of its checkpoint.json
  planned,     \* runs with analysis and tasks/tasks.json in their directory
  steady,      \* runs with documents written from the hashed sources only (history)
  repoStatus,  \* repositories.status
  active,      \* repositories.active_run_id
  graph,       \* the run whose facts knowledge_nodes holds
  wiki,        \* the runs whose documents are in the table documents
  index,       \* the run whose documents the index holds
  at,          \* thread -> where it is
  run,         \* thread -> the run it generates or activates
  previous,    \* generator -> whether it read a completed active run at its start
  plan,        \* generator -> the modules the plan is restricted to
  held,        \* thread -> the document it has read and is writing back
  restarts, others, failures

sources == <<source, edits>>
rows == <<created, status, manifest>>
files == <<docs, recorded, planned>>
repo == <<repoStatus, active>>
views == <<graph, wiki, index>>
locals == <<at, run, previous, plan, held>>
faults == <<restarts, others, failures>>
vars == <<sources, rows, files, steady, repo, views, locals, faults>>

Threads == Generators \cup Activators
Resumable == {"failed", "cancelled", "interrupted"}
Ended == Resumable \cup {"completed"}
InPipeline == {"pipeline"}
Ingesting == {"publish", "graph", "wiki", "rewrite", "index"}
InTry == InPipeline \cup {"complete"} \cup Ingesting
Points == {"idle", "insert", "mark", "fail", "restore"} \cup InTry

Absent == {}
Truncated == {NoModule}
NoDocument == <<NoModule, Absent>>
NoManifest == [hashes |-> source, selection |-> {}, from |-> NoRun]

Contents == SUBSET ((Modules \X Versions) \cup Truncated)

Manifests ==
  [hashes : [Modules -> Versions], selection : Selections, from : RunIds \cup {NoRun}]

TypeOK ==
  /\ source \in [Modules -> Versions]
  /\ created \in Seq(RunIds)
  /\ status \in [RunIds -> Ended \cup {"none", "running"}]
  /\ manifest \in [RunIds -> Manifests]
  /\ docs \in [RunIds -> [Modules -> Contents]]
  /\ recorded \in [RunIds -> SUBSET Modules]
  /\ planned \in SUBSET RunIds
  /\ steady \in SUBSET RunIds
  /\ repoStatus \in {"registered", "generating", "ready", "failed"}
  /\ {active, graph, index} \subseteq RunIds \cup {NoRun}
  /\ wiki \in SUBSET RunIds
  /\ at \in [Threads -> Points]
  /\ run \in [Threads -> RunIds \cup {NoRun}]
  /\ previous \in [Generators -> BOOLEAN]
  /\ plan \in [Generators -> SUBSET Modules]
  /\ held \in [Threads -> (Modules \cup {NoModule}) \X Contents]
  /\ \A t \in Threads : at[t] = "idle" <=> run[t] = NoRun
  /\ {edits, restarts, others, failures} \subseteq Nat

Init ==
  /\ source \in [Modules -> {CHOOSE v \in Versions : TRUE}]
  /\ edits = 0
  /\ created = <<>>
  /\ status = [r \in RunIds |-> "none"]
  /\ manifest = [r \in RunIds |-> NoManifest]
  /\ docs = [r \in RunIds |-> [m \in Modules |-> Absent]]
  /\ recorded = [r \in RunIds |-> {}]
  /\ planned = {}
  /\ steady = {}
  /\ repoStatus = "registered"
  /\ active = NoRun
  /\ graph = NoRun
  /\ wiki = {}
  /\ index = NoRun
  /\ at = [t \in Threads |-> "idle"]
  /\ run = [t \in Threads |-> NoRun]
  /\ previous = [g \in Generators |-> FALSE]
  /\ plan = [g \in Generators |-> {}]
  /\ held = [t \in Threads |-> NoDocument]
  /\ restarts = 0
  /\ others = 0
  /\ failures = 0

-----------------------------------------------------------------------------
(***************************************************************************)
(* What a request starts from.                                             *)
(***************************************************************************)

Step(t, from, to) == at[t] = from /\ at' = [at EXCEPT ![t] = to]

\* Mutant: the thread is still said to work on its run.
ReleaseKeepsRun(t) == at' = [at EXCEPT ![t] = "idle"] /\ UNCHANGED run

Release(t) ==
  /\ at' = [at EXCEPT ![t] = "idle"]
  /\ run' = [run EXCEPT ![t] = NoRun]

ReleaseGenerator(g) ==
  /\ Release(g)
  /\ previous' = [previous EXCEPT ![g] = FALSE]
  /\ plan' = [plan EXCEPT ![g] = {}]

Owned(r) == \E t \in Threads : run[t] = r
Unused == {r \in RunIds : status[r] = "none" /\ ~Owned(r)}

\* _changed_paths against the active run's file_hashes.
Changed == {m \in Modules : manifest[active].hashes[m] # source[m]}

\* A module and everything above it.
Chain[m \in Modules] ==
  {m} \cup (IF Parent[m] = NoModule THEN {} ELSE Chain[Parent[m]])

\* The modules are a tree: what is above a module is above all that is below
\* it, and a module above another is reached through one of its children.
ASSUME ModuleTreeAssumption ==
  \A m \in Modules :
    /\ Chain[m] = {m} \cup (IF Parent[m] = NoModule THEN {} ELSE Chain[Parent[m]])
    /\ \A a \in Chain[m] : Chain[a] \subseteq Chain[m]
    /\ \A a \in Chain[m] \ {m} : \E c \in Modules : Parent[c] = a /\ c \in Chain[m]

\* Mutant: the parents' aggregate documents are left as they are.
AffectedWithoutParents(changed) == changed

\* _affected_modules: the owners of the changed files and their parents.
Affected(changed) == {a \in Modules : \E m \in changed : a \in Chain[m]}

\* Mutant: the selected modules are not part of the hashed configuration.
AnyConfig(selection) == TRUE

\* config_hash: of the request's options, only the selection is told apart here.
SameConfig(selection) == manifest[active].selection = selection

\* The plan of a run that does not continue another.
PlanOf(selection) ==
  IF selection # {} THEN selection
  ELSE IF active # NoRun /\ SameConfig(selection) /\ Changed # {}
       THEN Affected(Changed)
       ELSE Modules

\* Mutant: the documents outside the plan are not brought over.
EmptyOutput(selection) == [m \in Modules |-> Absent]

\* An incremental run and one of selected documents begin with a copy of the
\* active snapshot's output, every other run with an empty directory.
Copying(selection) ==
  /\ active # NoRun
  /\ selection # {} \/ (Changed # {} /\ SameConfig(selection))

CopiedOutput(selection) ==
  IF Copying(selection) THEN docs[active] ELSE [m \in Modules |-> Absent]

Reusable(selection) ==
  /\ active # NoRun
  /\ Changed = {}
  /\ SameConfig(selection)

-----------------------------------------------------------------------------
(***************************************************************************)
(* generate_repository.                                                    *)
(***************************************************************************)

Reuse(g) ==
  /\ at[g] = "idle"
  /\ \E selection \in Selections : Reusable(selection)
  /\ repoStatus' = "ready"
  /\ UNCHANGED <<sources, rows, files, steady, active, views, locals, faults>>

\* Everything up to the INSERT: the directory, the copies, the manifest.
Prepare(g, r, selection, from, tasks, output, checkpoint) ==
  /\ at[g] = "idle"
  /\ r \in Unused
  /\ at' = [at EXCEPT ![g] = "insert"]
  /\ run' = [run EXCEPT ![g] = r]
  /\ previous' = [previous EXCEPT ![g] = active # NoRun /\ status[active] = "completed"]
  /\ plan' = [plan EXCEPT ![g] = tasks]
  /\ manifest' =
       [manifest EXCEPT ![r] = [hashes |-> source, selection |-> selection, from |-> from]]
  /\ docs' = [docs EXCEPT ![r] = output]
  /\ recorded' = [recorded EXCEPT ![r] = checkpoint]
  /\ UNCHANGED <<sources, created, status, repo, views, held, faults>>

\* "force" only skips the reuse of an unchanged snapshot.
Generate(g) ==
  \E r \in RunIds, selection \in Selections, force \in BOOLEAN :
    /\ ~Reusable(selection) \/ force
    /\ Prepare(g, r, selection, NoRun, PlanOf(selection), CopiedOutput(selection), {})
    /\ steady' = IF Copying(selection) /\ active \notin steady THEN steady \ {r} ELSE steady \cup {r}
    /\ UNCHANGED planned

\* Mutant: a checkpoint is accepted whatever happened to the sources.
ValidWhateverSource(r) ==
  /\ created # <<>> /\ created[Len(created)] = r
  /\ status[r] \in Resumable
  /\ r \in planned

\* Mutant: any failed run can be continued, not only the latest.
ValidIfFailed(r) ==
  /\ status[r] \in Resumable
  /\ manifest[r].hashes = source
  /\ r \in planned

\* _validate_resume_source: of this repository, the latest, ended without
\* success, of the same sources, and past its planning.
ValidResumeSource(r) ==
  /\ created # <<>> /\ created[Len(created)] = r
  /\ status[r] \in Resumable
  /\ manifest[r].hashes = source
  /\ r \in planned

\* The request's own selection comes back with it; an incremental run's does not.
Resume(g) ==
  \E r, from \in RunIds :
    /\ ValidResumeSource(from)
    /\ LET selection == manifest[from].selection
       IN Prepare(g, r, selection, from,
                  IF selection = {} THEN Modules ELSE selection,
                  docs[from], recorded[from])
    /\ steady' = IF from \in steady THEN steady \cup {r} ELSE steady \ {r}
    /\ planned' = planned \cup {r}

InsertRun(g) ==
  /\ Step(g, "insert", "mark")
  /\ created' = Append(created, run[g])
  /\ status' = [status EXCEPT ![run[g]] = "running"]
  /\ UNCHANGED <<sources, manifest, files, steady, repo, views, run, previous, plan, held, faults>>

MarkGenerating(g) ==
  /\ Step(g, "mark", "pipeline")
  /\ repoStatus' = "generating"
  /\ UNCHANGED <<sources, rows, files, steady, active, views, run, previous, plan, held, faults>>

PlanTasks(g) ==
  /\ at[g] = "pipeline"
  /\ run[g] \notin planned
  /\ planned' = planned \cup {run[g]}
  /\ UNCHANGED <<sources, rows, docs, recorded, steady, repo, views, locals, faults>>

Children(m) == {c \in Modules : Parent[c] = m}

\* What a document written now reflects.  The model's wording is left out: a
\* document that is written again from the same sources is the same value.
Reflected(m, output) == {<<m, source[m]>>} \cup UNION {output[c] : c \in Children(m)}

\* The pipeline writes and records the planned documents bottom-up and skips
\* the recorded ones.
WriteDocument(g) ==
  /\ at[g] = "pipeline"
  /\ run[g] \in planned
  /\ \E m \in plan[g] \ recorded[run[g]] :
       /\ Children(m) \cap plan[g] \subseteq recorded[run[g]]
       /\ docs' = [docs EXCEPT ![run[g]][m] = Reflected(m, docs[run[g]])]
       /\ recorded' = [recorded EXCEPT ![run[g]] = @ \cup {m}]
  /\ UNCHANGED <<sources, rows, planned, steady, repo, views, locals, faults>>

PipelineReturns(g) ==
  /\ Step(g, "pipeline", "complete")
  /\ run[g] \in planned
  /\ plan[g] \subseteq recorded[run[g]]
  /\ UNCHANGED <<sources, rows, files, steady, repo, views, run, previous, plan, held, faults>>

SetRun(r, s) == status' = [status EXCEPT ![r] = s]

CompleteRun(g) ==
  /\ Step(g, "complete", "publish")
  /\ SetRun(run[g], "completed")
  /\ UNCHANGED <<sources, created, manifest, files, steady, repo, views, run, previous, plan, held, faults>>

PublishRun(g) ==
  /\ Step(g, "publish", "graph")
  /\ repoStatus' = "ready"
  /\ active' = run[g]
  /\ UNCHANGED <<sources, rows, files, steady, views, run, previous, plan, held, faults>>

\* The pipeline raises: an error, or a cancellation.
PipelineFails(g) ==
  /\ Step(g, "pipeline", "fail")
  /\ UNCHANGED <<sources, rows, files, steady, repo, views, run, previous, plan, held, faults>>

\* Which of the two it is depends on the cancel event alone.
FailRun(g) ==
  /\ Step(g, "fail", "restore")
  /\ \E s \in {"failed", "cancelled"} : SetRun(run[g], s)
  /\ UNCHANGED <<sources, created, manifest, files, steady, repo, views, run, previous, plan, held, faults>>

\* "previous" is the row read at the start; it is not read again.
FailedStatus(g) == IF previous[g] THEN "ready" ELSE "failed"

RestoreStatus(g) ==
  /\ at[g] = "restore"
  /\ repoStatus' = FailedStatus(g)
  /\ ReleaseGenerator(g)
  /\ UNCHANGED <<sources, rows, files, steady, active, views, held, faults>>

-----------------------------------------------------------------------------
(***************************************************************************)
(* The views of the active run, in generate_repository and activate_run.   *)
(***************************************************************************)

IngestGraph(t) ==
  /\ Step(t, "graph", "wiki")
  /\ graph' = run[t]
  /\ UNCHANGED <<sources, rows, files, steady, repo, wiki, index, run, previous, plan, held, faults>>

\* ingest_generated reads each document of the run's output directory and
\* writes it back in place, which truncates the file first.  One of them is
\* followed; the others are read and written in the step that ends it.
RewriteDocument(t) ==
  /\ Step(t, "wiki", "rewrite")
  /\ \E m \in Modules :
       /\ docs[run[t]][m] # Absent
       /\ held' = [held EXCEPT ![t] = <<m, docs[run[t]][m]>>]
       /\ docs' = [docs EXCEPT ![run[t]][m] = Truncated]
  /\ UNCHANGED <<sources, rows, recorded, planned, steady, repo, views, run, previous, plan, faults>>

IngestWiki(t) ==
  /\ Step(t, "rewrite", "index")
  /\ docs' = [docs EXCEPT ![run[t]][held[t][1]] = held[t][2]]
  /\ held' = [held EXCEPT ![t] = NoDocument]
  /\ wiki' = wiki \cup {run[t]}
  /\ UNCHANGED <<sources, rows, recorded, planned, steady, repo, graph, index, run, previous, plan, faults>>

\* index_repository reads the active run anew.
IndexRepository(t) ==
  /\ at[t] = "index"
  /\ index' = active
  /\ IF t \in Generators THEN ReleaseGenerator(t) ELSE Release(t) /\ UNCHANGED <<previous, plan>>
  /\ UNCHANGED <<sources, rows, files, steady, repo, graph, wiki, held, faults>>

\* In a generation the exception is handled like the pipeline's, also when it is
\* the publishing statement that times out.
IngestFails(t) ==
  /\ failures < MaxIngestFailures
  /\ failures' = failures + 1
  /\ at[t] \in {"publish", "graph", "wiki", "rewrite", "index"}
  /\ held' = [held EXCEPT ![t] = NoDocument]
  /\ IF t \in Generators
     THEN at' = [at EXCEPT ![t] = "fail"] /\ UNCHANGED run
     ELSE Release(t)
  /\ UNCHANGED <<sources, rows, files, steady, repo, views, previous, plan, restarts, others>>

\* Mutant: any run with documents can be activated.
ActivateAnyRun(a) ==
  /\ at[a] = "idle"
  /\ \E r \in RunIds :
       /\ status[r] # "none"
       /\ active' = r
       /\ run' = [run EXCEPT ![a] = r]
  /\ repoStatus' = "ready"
  /\ at' = [at EXCEPT ![a] = "graph"]
  /\ UNCHANGED <<sources, rows, files, steady, views, previous, plan, held, faults>>

ActivateRun(a) ==
  /\ at[a] = "idle"
  /\ \E r \in RunIds :
       /\ status[r] = "completed"
       /\ active' = r
       /\ run' = [run EXCEPT ![a] = r]
  /\ repoStatus' = "ready"
  /\ at' = [at EXCEPT ![a] = "graph"]
  /\ UNCHANGED <<sources, rows, files, steady, views, previous, plan, held, faults>>

-----------------------------------------------------------------------------
(***************************************************************************)
(* What happens from outside.                                              *)
(***************************************************************************)

\* The user edits a file, or puts an earlier content back.
Edit ==
  /\ edits < MaxEdits
  /\ edits' = edits + 1
  /\ \E m \in Modules, v \in Versions :
       /\ v # source[m]
       /\ source' = [source EXCEPT ![m] = v]
  /\ steady' = {r \in steady : status[r] = "completed"}
  /\ UNCHANGED <<rows, files, repo, views, locals, faults>>

\* Mutant: ended runs are marked as well.
MarkAllInterrupted ==
  status' = [r \in RunIds |-> IF status[r] \in {"running", "failed"} THEN "interrupted" ELSE status[r]]

\* Mutant: the constructor leaves the table alone.
MarkNothing == UNCHANGED status

\* The UPDATE of the constructor.
MarkInterrupted ==
  status' = [r \in RunIds |-> IF status[r] = "running" THEN "interrupted" ELSE status[r]]

Restart ==
  /\ restarts < MaxRestarts
  /\ restarts' = restarts + 1
  /\ MarkInterrupted
  /\ at' = [t \in Threads |-> "idle"]
  /\ run' = [t \in Threads |-> NoRun]
  /\ previous' = [g \in Generators |-> FALSE]
  /\ plan' = [g \in Generators |-> {}]
  /\ held' = [t \in Threads |-> NoDocument]
  /\ UNCHANGED <<sources, created, manifest, files, steady, repo, views, others, failures>>

OtherProcess ==
  /\ others < MaxOthers
  /\ others' = others + 1
  /\ MarkInterrupted
  /\ UNCHANGED <<sources, created, manifest, files, steady, repo, views, locals, restarts, failures>>

GeneratorStep(g) ==
  \/ InsertRun(g)
  \/ MarkGenerating(g)
  \/ PlanTasks(g)
  \/ WriteDocument(g)
  \/ PipelineReturns(g)
  \/ PipelineFails(g)
  \/ CompleteRun(g)
  \/ PublishRun(g)
  \/ FailRun(g)
  \/ RestoreStatus(g)

Next ==
  \/ \E g \in Generators : Reuse(g) \/ Generate(g) \/ Resume(g) \/ GeneratorStep(g)
  \/ \E a \in Activators : ActivateRun(a)
  \/ \E t \in Threads : IngestGraph(t) \/ RewriteDocument(t) \/ IngestWiki(t) \/ IndexRepository(t) \/ IngestFails(t)
  \/ Edit
  \/ Restart
  \/ OtherProcess

Spec == Init /\ [][Next]_vars

-----------------------------------------------------------------------------
(***************************************************************************)
(* Properties.                                                             *)
(***************************************************************************)

Owns(r) == \E g \in Generators : run[g] = r

Whole(r) == \A m \in Modules : NoModule \notin docs[r][m]

\* Every document of a completed run of the whole plan reflects the sources the
\* run was hashed with and the current documents of its children, however the
\* run came about: afresh, incrementally over a snapshot that was itself
\* incremental, selected or re-activated, or as a continuation.  Excluded are
\* sources edited while a run is working, with the runs that take its documents
\* over (steady), and files a crash leaves truncated, with what was read of them.
SnapshotIsCurrent ==
  \A r \in steady :
    status[r] = "completed" /\ manifest[r].selection = {} /\ Whole(r) =>
      \A m \in Modules :
        docs[r][m] =
          {<<m, manifest[r].hashes[m]>>} \cup UNION {docs[r][c] : c \in Children(m)}

\* DEPLOYMENT_AND_USAGE.zh-CN.md:164: the active run is the snapshot of a
\* successful generation.
CurrentIsCompleted == active # NoRun => status[active] = "completed"

\* A run that has ended and that no thread works on any more never changes: a
\* snapshot is immutable, and a continuation leaves the run it continues alone.
EndedRunsAreImmutable ==
  [][\A r \in RunIds : status[r] \in Ended /\ ~Owns(r) =>
       status'[r] = status[r] /\ docs'[r] = docs[r] /\ recorded'[r] = recorded[r]]_vars

\* The comment of platform.py:44: after a restart no run is left running.
NoRunLeftRunning == \A r \in RunIds : status[r] = "running" => Owns(r)

\* A checkpoint is continued at most once, so two runs never finish the same
\* partial wiki (the comment of platform.py:293).
ContinuedOnce ==
  \A r, s \in RunIds :
    /\ status[r] # "none" /\ status[s] # "none"
    /\ manifest[r].from # NoRun /\ manifest[r].from = manifest[s].from
    => r = s

=============================================================================
