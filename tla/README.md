# ClangWiki in TLA+

ClangWiki documents C++ repositories: it analyses a repository with CMake and
Clang, lets a language model write one Markdown document per module, publishes
the result as a snapshot, and serves it as a wiki, a code graph, a search index
and a question-answering service. The Python package is `src/clangwiki`, the
browser client `src/frontend`.

This directory holds TLA+ specifications of its core, TLC configurations that
check them on small instances, and TLAPS proofs.

    tlc -config MCPipeline.cfg MCPipeline      # any MC*.cfg with its module
    tlapm PipelineProofs.tla                   # any *Proofs.tla

## 1. The system

| Component | State | Operations | Talks to |
|---|---|---|---|
| Document pipeline (`pipeline.py`, `output.py`, `opencode.py`) | a run directory: `output/*.md`, `tasks/tasks.json`, `checkpoint.json`; in memory the set of finished tasks and its lock | `run`, `generate_task` in a pool of threads, the serial aggregates, cancellation, continuation from a checkpoint | called by Snapshots; reads the planner's tasks; calls the model as a subprocess |
| Planner and hierarchy (`planner.py`, `knowledge.py`) | none (pure functions) | paths to a module tree; tree to an ordered task list | pipeline, Snapshots |
| Snapshots (`platform.py`) | tables `runs`, `repositories`; run directories | `generate_repository`, continue, incremental plan, `activate_run`, start-up repair | pipeline, graph, wiki, index |
| Collections (`platform.py`, `registry.py`) | tables `collections`, `collection_documents` | register, update, remove, generate across repositories | model, graph, index |
| Job queue (`jobs.py`) | tables `jobs`, `job_events`; two executors and a dictionary of cancel events in memory | start, retry, resume, cancel, the worker's `_run`, start-up repair | HTTP handlers above, Snapshots/index/graph handlers below |
| Wiki store (`wiki.py`) | tables `documents`, `manual_pages`, revisions, tags, annotations; it also rewrites `output/*.md` | ingest, edit and restore manual pages, annotate | Snapshots, index |
| Code graph (`graph.py`, `graph_analytics.py`) | tables of nodes, edges, confirmations | ingest a run, rebuild a collection, confirm an edge | Snapshots |
| Retrieval index (`indexing.py`), question answering (`rag.py`) | table `chunks`, full-text table, vector files with a manifest; conversations | re-index, search; ask, repair, persist a turn | Snapshots, model |
| Database (`database.py`) | SQLite in WAL mode, one connection per thread, autocommit outside `transaction()` | execute, transaction, migrate | everything |
| Browser shell (`frontend/src/App.tsx`) | React state: lists of repositories and jobs, the selection, a cached detail per page | poll every 2.5 s, refresh, choose, generate, resume, cancel, retry, register, remove | HTTP API |
| Graph workbench (`GraphWorkbench.tsx`, `GraphCanvas.tsx`, `Graph3D.tsx`) | React state: view, level, mode, selection, the graph on the screen, the spinner | views and presets, select, expand, find a path, analyse an impact, compare, tap and click | code graph, through the API |
| HTTP API, command line (`api.py`, `cli.py`) | none of their own; a publication marker in the source repository | requests and commands; publish; event stream | everything |

**How they interact.** A request inserts a job. A worker thread runs the job's
handler, `generate_repository`, which creates a run, runs the pipeline in it,
marks the run completed, makes it the repository's `active_run_id`, and then
ingests it into graph, wiki and index. The database and the run directories are
shared by the request threads, the workers, the pool's threads and any
command-line process started beside the service: every command builds the same
services, and their constructors "repair" rows left by a dead process.

**What is hard.** The statements of one operation are separate commits, so
requests, workers and processes interleave between any two of them. Files are
written in place or replaced. The service may be killed anywhere, and then
resumes from what is on disk. A model call may fail, be repaired once, or run
into a timeout. Sources change while a run is working. Only the pool has a lock.
The browser learns of all this from answers that arrive late, in any order or not
at all, while the user goes on clicking and React runs effects after each commit.

**What makes each component correct.**

- Pipeline: recorded documents are complete at every instant, aggregates read
  only complete children, a continuation repeats nothing, a run ends after all
  its threads, cancellation is final, the pool is bounded.
- Snapshots: a completed snapshot reflects one state of the sources through all
  levels, snapshots are immutable, the active one is usable, a failed run is
  continued once, nobody but its owner ends a run.
- Job queue: no forgotten active row, one job per lane at a time, one writer per
  repository, cancellation decides, outcomes are final, jobs end.
- Retrieval index: rows, full text, vectors and their manifests agree after every
  index call that nothing disturbed, whatever came before; nothing is found twice.
- Browser: an overtaken answer is never shown, every spinner stops, the 3D mode
  is only on where it is offered, a canvas gets both ends of every edge, a tap opens
  the inspector, cached runs follow the jobs, a stale page heals.
- Wiki, graph, publication (not modelled): user input survives re-ingestion;
  publishing is repeatable after a crash and never touches foreign files.

`PROJECT.json` lists the hazards at their lines, with the properties that cover
them or the reason none does. Hazards of the parts that are not modelled are
in section 5.

## 2. The modules

```
WikiBuild      what a build promises: a record that grows bottom-up
   ^  refined by (Pipeline!BuildsBottomUp, proved)
Pipeline       threads, files, checkpoint, crash, continuation      MCPipeline
   ^  proofs
PipelineProofs

JobLanes       what the job queue promises: lanes, scopes, outcomes
   ^  refined by (Jobs!ServesInOrder, proved)
Jobs           persistent job queue                                 MCJobs
Runs           snapshots: runs, active run, views, sources          MCRuns
Index          retrieval index of one repository                    MCIndex
   ^  proofs (one module each)
RunsProofs, JobsProofs, IndexProofs

GraphViews     the graphs that are answered, merged, cut and drawn
   ^  EXTENDS
Workbench      the graph workbench over those graphs                MCWorkbench
   ^  proofs
GraphViewsProofs, WorkbenchProofs

Shell          lists, pages and polling beside a server at work      MCShell
   ^  proofs
ShellProofs
```

### Pipeline

| Model | Code |
|---|---|
| `phase` | where `GenerationPipeline.run` is: preparation (CMake, Clang, graph), planning, the leaf pool, the aggregates, and how it ended |
| `st[t]` | where the thread of task `t` is in `generate_task`; one step per operation another thread or a crash can tell apart |
| `doc[t]` | the file under `output/`: absent, copied from the previous snapshot (`stale`), opened and not yet filled (`torn`), complete (`fresh`) |
| `completedTaskIds`, `checkpointLock`, `payload` | the shared set, `checkpoint_lock`, and the list a thread has serialised for `write_json` |
| `checkpoint` | `completed_task_ids` of `checkpoint.json` (written to a temporary file and moved) |
| `StartFull`, `StartExplicit`, `StartIncremental`, `ResumeRun` | the run directory as `generate_repository` fills it before calling the pipeline |
| `StartLeaf` .. `CheckpointFails` | the statements of `generate_task` |
| `JoinLeaves`, `AggregateRaises`, `ReturnDocuments` | the caller's side |
| `RequestCancel`, `Crash` | the cancel event; a kill at any step |

A continuation copies the directory of the run it continues, and only the latest
run can be continued, so the model keeps the newest directory only. `WriteFails`
and `CheckpointFails` are I/O errors. CMake and Clang are one step that succeeds
or fails. Whether an answer passes `validate_markdown` is the model's choice. The
module follows a run up to the return of the pipeline; a run that fails after
that (an ingestion) and is continued is in Runs.

### Runs

| Model | Code |
|---|---|
| `status`, `created`, `manifest` | rows of `runs` and each run's `manifest.json` (source hashes, selected modules, the run it continues) |
| `docs[r][m]` | what the document of module `m` in run `r` reflects: the version of `m`'s sources, and everything its children's documents reflected when it was written; `Truncated` while `ingest_generated` writes it back |
| `recorded`, `planned` | the checkpoint and `tasks.json` in the run's directory |
| `active`, `repoStatus` | `repositories.active_run_id` and `status` |
| `graph`, `wiki`, `index` | which run each view holds |
| `Reuse`, `Generate`, `Resume` | the three ways into `generate_repository`; `Affected` and `CopiedOutput` are the incremental plan |
| `InsertRun` .. `RestoreStatus` | its statements, in order, with the failure path |
| `IngestGraph` .. `IndexRepository`, `ActivateRun` | the ingestion shared with `activate_run` |
| `Edit`, `Restart`, `OtherProcess` | the user, a kill, a command-line process |

Everything up to the INSERT is one step (`Prepare`), because nobody else can find
the new directory before its row exists, and the directories it copies from are
only written by the run's own thread or an ingestion. `ingest_generated` rewrites
the files one after another; the module follows one of them per ingestion
(`held`). Repository-wide documents are the document of the root module. The
pipeline is reduced to what Pipeline proves of it: planned documents are written
and recorded bottom-up. One generator is enough, because the model lane of the
job queue has one worker.

### Jobs

| Model | Code |
|---|---|
| `status`, `kind`, `scope`, `log` | rows of `jobs` and `job_events` |
| `cancelEvents`, `isSet` | the dictionary and its `threading.Event`s |
| `queue[l]`, `work[l]`, `at[l]` | the two single-thread executors and the point in `_run` |
| `req[c]` | a request thread between two of its commits |
| `Start`, `Retry`, `Resume` then `Insert`, `Register`, `Submit` | `start`, with the SELECT and the INSERT apart |
| `FindEvent`, `SetEvent`, `EmitCancel` | `cancel` |
| `Take` .. `Pop` | `_run`; `Announce` is `_update`'s status event, read back after the UPDATE |
| `StartLockedOut`, `FinishLockedOut`, `FailLockedOut` | a statement that waits for the database's write lock for 30 s and raises, at each place of `_run` |
| `Restart`, `OtherProcess` | the constructor after a kill, and in a second process |
| `Line` | what JobLanes calls the line of a lane: the job its worker has taken but not marked, the executor's queue, the job a request is about to submit |

### Index

| Model | Code |
|---|---|
| `active`, `ingested`, `graph`, `page` | the tables the index reads: active run, ingested documents, nodes, the manual page |
| a chunk | a heading's section or a symbol; its id and vector key are hashes of source and content, so a changed section is another chunk |
| `rows`, `fts` | table `chunks` (with the row its foreign key refers to) and `chunks_fts`, which has no foreign key |
| `file`, `vectors` | `chunks.usearch`, written in place, and which model computed each vector |
| `selected`, `profile` | `vector-manifest.json` (model, `selected_keys`), `index-manifest.json` |
| `Publish`, `IngestGraph`, `IngestWiki`, `StopIngestion` | the ingestion after a generation or `activate_run`, with the cascades it sets off |
| `Begin` .. `ReadExisting` | `index_repository`, one step per SELECT |
| `Store`, `StoreFails` | the transaction of `_store_and_embed`; it fails on the foreign key of a node deleted meanwhile |
| `ReadKeys` .. `WriteManifest` | `LocalVectorIndex.update` and the summary; `UpdateFails` is its swallowed exception |
| `Crash` | a kill, with what it leaves of the file being written |

Profiles stand for models of one dimension. The vector of a chunk is the profile
that computed it. Chunks of annotations behave as sections, chunks of edges as
symbols beyond the limit (full text only). `alone`, `settled`, `overlapped` and `used`
are history variables: which index call ran undisturbed, and what has happened.

### GraphViews and Workbench

| Model | Code |
|---|---|
| `neighbors` | `graph.py`'s bounded search: every edge at the frontier is taken, a node only below the limit |
| `mergeGraphs`, `focusedGraph`, `callflowProjection` | what the workbench does to an answer before it is drawn |
| `callflowModel`, `prepareGraph` | what the 2D call flow and the 3D view do to it |
| `ui` | the hooks that handlers, effects and canvases read |
| `effects` | what the effects that have run last depended on; `RunEffects` is their next run, in their order, each reading the committed state |
| `shown` | the hook `graph`, with the request that wrote it and, for a load, the settings it was loaded for |
| `loading`, `version` | the hook and the ref `loadVersion` |
| `pending` | requests in flight; any of them may be answered or fail next |
| `activateView` .. `compareVersions` | the handlers and controls of those names; `TapNode` .. `drill3DNode` are the canvases' callbacks |
| `LoadAnswer` .. `DiffAnswer` | the continuation of each handler after its `await` |

An event of the user finds the effects of earlier ones run (`Settled`), because React
flushes them before it delivers the next discrete event; answers may arrive between an
event and its effects. A graph is a set of ids of nodes and of edges; which ids a limit
keeps is a fixed order (`Place`). What is only displayed (details, snippets, insight lists,
the two ends of a path) is left out. The modules know one repository: the effect on a change of
scope resets everything and is not modelled.

### Shell

| Model | Code |
|---|---|
| `srv` | what the browser can learn: registered repositories, jobs, how often a repository's runs have changed |
| `TakeJob`, `EndRun`, `EndJob` | the worker: a run is over in the database before its job is |
| `ui` | page, scope, lists, the `detail` of `Repositories` and the panel of `Jobs` |
| `pending[k]` | requests of a kind in flight: sent, read by the server (`Serve`), answered (`Answer`) or failed (`Fail`) |
| `Commit` | a commit with the effects React runs after it: both effects of `Repositories`, the effect of `Jobs`, the state a page loses when it is left |
| `Poll`, `refresh`, `runAction`, `RepositoryPage`, `register`, `act` | the timer and the handlers; `PostAnswer` and `AfterRefresh` are what follows their `await`s |

A request for a detail outlives the page that asked for it: its answer is discarded, but the handler
that sent it goes on (`op = "gone"`). `DetailIsFresh` is about the requests whose answer is still awaited.
The server part abstracts the job queue: `start` refuses a repository with an active job,
jobs end as they please. A request to cancel changes no row: the job ends, with whatever status, when its worker
has seen the event. `missed` is history and guards nothing: it says whether the detail on the page came late.

## 3. What the runs show

| Run | Instance | Shows |
|---|---|---|
| `pipeline` | 3 leaves, subsystem, guide; pool of 2; 2 runs | all pipeline safety, the inductive invariant, refinement of WikiBuild, and that every run ends |
| `jobs` | 2 jobs, 2 lanes, 2 scopes, 1 submitter, 1 canceller, 1 restart | the queue's safety and its refinement of JobLanes (order of the lanes, final outcomes), while the database answers and nobody else starts the services |
| `jobs_faults` | 2 jobs, 1 lane, 1 lockout, 1 restart, 1 other process | no double execution and honoured cancellation under faults; the queue drains; jobs end |
| `runs` | 3 runs, leaf below root, 1 edit, 1 restart, 1 other process, 1 failing ingestion | contents and immutability of snapshots, continued once, nothing left running |
| `runs_activate` | 2 runs, 3 edits, requests for all documents or the root's, an activating thread | contents of snapshots over selected documents and reverted edits; activation during a generation; the active run while ingestions succeed |
| `index` | 2 runs, 3 sections, 2 symbols with a limit of 1, 2 profiles, 2 threads, 2 activations or edits, 1 crash or failed update | no chunk is found twice; the five parts of the index agree after an undisturbed call; no section is forgotten |
| `workbench` | 5 functions with calls and a callback, a module, a community; limits of 1 to 3; 3 events | no stale load, no orphaned spinner, 3D only where offered, closed cuts, true columns |
| `shell` | 2 repositories, one of them registered meanwhile; a running job, 2 events, 1 failed request | cached runs follow the jobs; the jobs' page heals |

Four runs look for a behaviour that contradicts the documentation, and find it:

| Run | Property | What happens |
|---|---|---|
| `jobs_writers` | `OneWriterPerScope` | two concurrent requests both pass the SELECT before either inserts |
| `runs_ingest` | `CurrentIsCompleted` | an ingestion fails after publication: the active run is a failed one |
| `workbench_tap` | `TapOpensInspector` | the canvas calls `onSelect(node)` and then `onSelectEdge(null)`, which closes the inspector; for an edge the other way round |
| `workbench_drawn` | `DrawnEdgesHaveEnds` | a neighbourhood at its limit has edges to nodes that were not admitted, and the 2D canvas, whose library throws on such an edge, is given them |

`PROJECT.json` quotes the contradicted lines. The passing runs state the same
properties under the conditions in which they hold: in place of `OneWriterPerScope`, that a repository has no more
active jobs than there are threads that start some (`WritersPerScope`), `CurrentIsCompleted` while no ingestion
fails, `SnapshotIsCurrent` for runs whose sources were not edited while they
worked and whose files are whole, `IndexIsCurrent` and
`NothingForgotten` as far as `Consistent` goes (section 5), with the vectors of symbols only while there was no fault.

Every property of a passing run has a mutant in `PROJECT.json`: a mapped definition with a
plausible bug, under which TLC finds the property violated. The mutants stand before the
definitions they replace.

**Bounds.** Two runs of the pipeline are one interruption and one continuation, or a
snapshot and an incremental run over it; the inductive proof covers any number.
Three leaves with two threads give a thread that takes a second task while the
first is still being written, and a leaf outside the subsystem that finishes after
the aggregate could have begun. Two jobs are a job and the one that waits for it,
replaces or retries it. Three runs are a snapshot, a run over it and a
continuation beside both; one parent and one leaf are the smallest
hierarchy in which an aggregate can be outdated. Three edits (`MaxEdits`) are a change during a
run, its reversal, and a change that a later run sees. One fault of each kind is allowed
in any place; its repetition starts from the same states. Two chunks of code with a
limit of one make a symbol lose and regain its place. The run
`index` is cut by `OneKindOfTrouble`: either one thread works at a time, with faults,
edits and both profiles, or two threads interleave without them. `MaxEvents` only bounds
progress reports and cancellations of a job; in Workbench it bounds the user: two events
start loads that overtake each other, the third acts between their answers. Its limits
are small so that each is exceeded: a neighbourhood of three nodes, two hits, a quota of one per
lane, three nodes and one edge in 3D. In Shell, `MaxFlight` and `MaxPolls` bound
requests in flight: one poll and one request of a handler or an effect overlap and overtake
each other, and the user or the timer waits beyond; answers and effects never
wait. `StartViews` opens the jobs' page, from which the other pages are one event away. The bounds
matter to the proved properties only as examples: their theorems have none.

**Fairness.** Threads that have work are scheduled, and a model call ends because
`subprocess.run` has a timeout: weak fairness of the run's own steps, of each
task's thread, of each worker and of requests that have begun. Nobody is obliged
to start, retry, cancel or kill anything, to edit a file or to lock the database. In
`EveryJobEnds` a worker's timed-out statement is the exception: the first `_update`
is outside the `try`, and that row stays active until the next start. In Shell the timer
ticks, and the oldest request of each kind is read and answered or fails, as `fetch` always
settles; at most `MaxFaults` fail. Users need not act and jobs need not progress.

## 4. What is proved

Seven modules hold the proofs; all are theorems of the specifications that TLC checks, for every
value of the constants that meets the named assumptions. TLC evaluates these on each instance.

`PipelineProofs` proves for every finite set of tasks, every hierarchy that
satisfies `OrderAssumption`, every pool size from 1 to 4 and any number of runs:

- `TypeCorrect`, `Invariance`: `Spec => []IInv`;
- `DocumentSafety`: recorded documents are complete, aggregates read complete
  children, a returned run is complete, no thread outlives its run;
- `RecordedOnce`, `RecordsAreKept`: nothing recorded is generated again, and no
  interleaving or crash drops a record;
- `ThreadsAreJoined`, `CancelSafety`, `PoolIsBounded`;
- `Refinement`: `Spec => BuildsBottomUp`, the pipeline implements `WikiBuild`.

The properties are not inductive by themselves. `RecordedIsComplete` needs to know
that whoever is about to write the checkpoint writes only complete documents: so
`Locked` (the lock's holder is the only writer and its list is current), `Shared`
(the shared set names complete documents that no thread works on) and `Positions`
(what a thread's position says of its file). `BottomUp` needs `Ordered` (the
barrier and the planner's order) and `Taken` (every planned task takes part);
`Idle`, `JoinedBeforeEnd` and `CancelIsFinal` close the cases of a new run, a
failing pool and a cancellation. Each action has a lemma with one step per
conjunct it can disturb. TLC checks `IInv` in the run `pipeline`.

Assumptions: `TaskAssumption` (finite, disjoint sets, distinct ranks),
`OrderAssumption` (what `plan_documents` guarantees: leaves read no document,
an aggregate follows the aggregates it reads), `RequestAssumption` (the pool size that
`RunConfig` accepts, selections of known tasks). TLC evaluates them on the
instance.

`IndexProofs` proves for any chunks, runs, pages, profiles and threads and any number of changes and
faults, from `IndexAssumption`:

- `FullTextIsExact`: `Spec => []FoundOnce`. Here the invariant is inductive: every step but `Store` at most
  deletes rows and keeps the full text (`Cascades`), and `Store` leaves one entry of what it inserts;
- `Typed`, `UpdatesAreComplete` (`IndexIsCurrent`) and `SectionsAreKept` (`NothingForgotten`).

The last two say of a call that has ended what no thread can see any more, so the invariant follows the
call from its first SELECT. `Known` ties the history to the threads: what the history has not recorded as
overlapping is one thread. `ReadIsAll` says that a call without company has read every row that is left, since
others only delete, and `Undisturbed` that the variables of a call nobody disturbed are the tables. The heart is
`Tracked`: the manifest of the vectors may list what the file lacks (`Lost`), but never a section that has a row,
unless a call is about to embed it (`Recovered`), and a thread between reading the file and
marking the manifest carries every vector it promises (`Complete`). `Finished` transfers this to the summary and to the state
after it. `NothingForgotten` had to name the profile the manifest was written for, not merely a vector, before
this went through: a vector of another model counts as none. TLC checks the invariant (1.6 million states
with the bounds of `MCIndex`).

`JobsProofs` proves for any jobs, threads and restarts:

- `Typed`; `CancellationsHold`; `PlacesAreOne`: `Spec => []OnePlace`, under all faults;
- while no other process starts (`MaxOthers = 0`): `WritersAreBounded`, for any number of submitting threads;
- while besides no statement times out (`MaxLockouts = 0`): `OutcomesAreFinal`, `NothingOrphaned`, `LanesAreSerial`,
  `TimelinesAreTrue`;
- with one submitting thread besides: `QueueServesInOrder`: Jobs implements JobLanes.

The conditions are needed: two submitters bring two jobs into one scope (`jobs_writers`), and a second
process marks rows of the first. `WritersAreBounded` is what the two statements of `start` do guarantee: `Bounded`
counts a scope's active rows together with the requests that have found it free and not yet inserted theirs. A
request joins them only while there is no active row, its `INSERT` exchanges one for the other, and no ended row becomes active
again, since what waits for a worker is `queued` (`Unstarted`). So two active jobs come of two requests that overlap, never
of a retry, a cancellation or a restart. TLC checks it with one submitter in `jobs`; with two, a third job and a timed-out
statement it holds as well (1.6 million states). `CancelHonoured` becomes inductive with
`Promises` (a worker about to write the outcome of a job cancelled in time writes `cancelled`),
`OnePlace` with `Apart` (what a request holds, a queue lists and a worker has differ pairwise, and a
queue has no repetition). `Settled` says that a queued place means a queued row
(`Waiting`), a worker's position fixes its row's status (`Manned`), and every active row
has a place (`Accounted`); the next four follow from it. `Alone` adds that the scope of a request
about to insert is free. In the refinement, `Insert` accepts a job at the end of its lane's line, `MarkRunning`
begins the one at its head, and `Submit` and `Take` only move a job from one piece of the line to the next, so JobLanes
stutters: jobs begin in the order of their rows. `Promises` gives the outcome after a cancellation, `Settled` that
the lane is free, `Alone` that the scope is. Two submitters could commit their rows in one
order and submit in the other.

`RunsProofs` proves for any modules, runs, generators, activations and faults:

- `Typed`, `NoneLeftRunning`;
- `SnapshotsAreCurrent`: `Spec => []SnapshotIsCurrent`, the main result: a document of a
  completed, steady, whole snapshot reflects the sources its manifest names, through all levels;
- `CurrentRunIsCompleted` while no ingestion fails, `EndedAreImmutable` without activations,
  and `ContinuationsAreUnique` with one generator (the model lane has one worker).

`SnapshotsAreCurrent` rests on `InOrder`, about steady and whole runs: what a checkpoint records
is current (`RecordedOk`), so is everything in a completed run (`DoneOk`), a generation under way works for
the present sources and what it does not plan is current already (`EarlyOk`), and what an ingestion is
writing back is what it read (`HeldOk`). That the plan of an incremental run suffices follows from `Affected`:
a module outside it has no changed module below. This uses `ModuleTreeAssumption` (a module's chain is
the module with its parent's chain) and `RunsAssumption`. The other invariants are `Mine` (each run
under way has one generator, and no activation works on it) and `Continued` (only the newest run is
continued).

`GraphViewsProofs` and `WorkbenchProofs` prove for any graph, order of ids, limits, quotas and any number of
events: `CutsAreClosed`, `ColumnsAreChains`, `SpinnerStops`, `ThreeDNeedsReason` and
`NoStaleLoad`. The first two are lemmas about the cuts (`First` keeps a subset, a projection
keeps the anchor and only edges among what it keeps, and a role read off the kept
edges is witnessed by them). `NoOrphanSpinner` is inductive because a newer load always takes over the
spinner or turns it off; `LoadedIsCurrent` needs in addition that a request in flight with the current
version carries the settings the effects have seen.

`TypesAreKept` adds `Spec => []TypeOK`: whatever answers are
merged, filtered and cut, a tap finds a node or an edge of the repository. It needs that a request in flight
carries a node if its answer is drawn around one (`Sound`), that every cut of a graph is a graph (`CutsAreGraphs`), and
what `neighbors` computes: `NeighborsAreGraph` unrolls its recursion, which has at most two steps in the model.

`ShellProofs` proves for any repositories, earlier jobs, events, polls, faults and requests in flight:

- `Typed`: `Spec => []TypeOK`;
- `DetailStaysFresh`: `Spec => []DetailIsFresh`, in whatever order the answers of `loadDetail` arrive.

Nothing polls the runs of a repository: an effect reloads them when the client sees the newest job of
the repository change. That this suffices is not inductive. A list of jobs the client has or is being sent is
what the server once had (`Older`): it may lack the newest jobs, and the others have not moved backwards. A repository's
jobs follow each other (`Serial`), so a client that sees the last one ended (`Settled`) knows that no run will be
added. `Covered` is the promise of the effects, about the requests for a detail that are awaited and not overtaken (`Live`): the newest
has yet to be read by the server, or was read after the last run; if there is none, the detail shown is the last,
unless it is lost. Nothing in an answer of `loadDetail` says that it is late, so the history `missed`
records it: `late`, how many of the oldest requests have been overtaken by an awaited answer, and `lost`, that what is shown was one of
these, is another repository's, or was to be replaced by an answer that failed. `DetailIsFresh` is silent while `lost` holds, and
the next answer that comes in time ends it: an overtaken answer can leave an old list on the page, but no order
of answers does so without an answer that came late. `ShellAssumption` asks that
the service begins with at most one unfinished job per repository, its newest, which is what `start` keeps.

Only model-checked: liveness (`EveryRunEnds`, `QueueDrains`, `EveryJobEnds`, `PageHeals`), which is
beyond this prover. Every other property of a passing run is a theorem. Induction over data is
out of reach too: what a recursive definition computes for every input cannot be proved with these provers, so
`NeighborsAreGraph` is stated for the depths of the model, and the other proofs about the canvases take an arbitrary graph.

## 5. What is not modelled

- CMake, Clang and the model are outside: they succeed, fail or answer. The texts
  of documents, prompts, messages and percentages are left out.
- `stage` and `message` of a job, and the read-only decoration of jobs and runs.
- A module set that changes between runs (an incremental run copies the whole output
  directory, `platform.py:122`, and documents of vanished modules stay in the snapshot);
  per-request options other than the selected modules (they enter `config_hash` the same way).
- Generation started from the command line, which bypasses the job queue.
- Search, index_collection and the text of chunks; in Index nothing is claimed (`Consistent`) of the states
  after two updates of one index at once, or after a fault together with another profile, with an overlapping call or with a second
  fault: these leave a manifest that is not the file's. A second fault is enough with one profile: a kill between
  the vector file and its manifest, and then an update that fails, leave a section listed without its vector.
- The revisions, tags and annotations of the wiki: two updates of a page read the same
  maximal revision (`wiki.py:181`); `INSERT OR REPLACE` of a document deletes its annotations and
  tags when a snapshot is activated again (`wiki.py:57`).
- Publication to the source repository (`api.py:550-604`): the marker is written last.
- The event stream (`api.py:684`), which reads events before the row and can miss the last ones.
- The stored graph: a rebuild replaces edges a user has confirmed (`graph.py:911`); impact analysis, paths.
- Collections and their generation, question answering, the registry, schema migrations and
  connections (`database.py:51`: a statement that fails after an implicit BEGIN leaves it open), planner and
  hierarchy functions (recursive, pure; what others rely on is an assumption), graph
  analytics, installation scripts.
- In the browser: pages that fetch and display (overview, wiki, search, questions, collections, settings), the
  layout of the canvases, `reviewEdge`, the unused component `Graph` of `App.tsx`. `loadDetail` and the
  handlers beside it have no version (`App.tsx:215`, `:238`, `:439`): answers that overtake each other show an older
  detail, or one repository's under another's name. Shell models both, and `DetailIsFresh` names the moments in which
  it happens (`missed`). The two requests of one `loadDetail`, and of the two effects in one commit, are one request
  there, which is answered when the last of them is.
- Details of the data. A document that is written again from the same sources is the same value (`Reflected`), though
  the model words it anew: a parent that a continuation finds recorded may summarise an older wording of a leaf that
  this continuation has written again. An unreadable checkpoint, which the code takes for an empty one (`pipeline.py:276`), does
  not occur: the file is replaced whole. The limits of `neighbors` (40 and 80 nodes, four times as
  many rows in its SELECT), the kinds of edges and the path over projected edges are one limit on one set of edges.
- A lock timeout of the statements of a generation other than the publishing one. The first (`platform.py:172`) stands
  after the run's `INSERT` and before the `try`: if it fails, the run stays `running` until the next start. A timeout in
  the failure path (`platform.py:232`, `:244`) leaves the run's or the repository's status as it was.
- `src/clangwiki/web/assets` holds what the build makes of the client and its libraries. These
  bundles are three quarters of the repository's JavaScript and TypeScript; the specifications
  name the lines of their sources.

Some behaviour the modules do contain has no run of its own. A continuation of an interrupted incremental
run plans every document not yet recorded, not only the rest of its plan (`platform.py:82`
against `README.md:101`). A kill while `ingest_generated` writes a file back leaves it truncated in a completed
snapshot (`wiki.py:54`). A crash between the vector file and its manifest leaves a symbol listed that
no later call embeds (`indexing.py:541`). The failure path restores the repository's status from the active run it
read at its start (`platform.py:243`, against the comment two lines above). Let a first run complete and the ingestion of a second,
just published, fail: the active run is a failed one. A third run begins and finds no usable snapshot, the first run is activated, the
third fails: the status is `failed` beside a completed active run. TLC finds this with three runs, one failing ingestion
and one activation. A kill between the statements that complete and publish a run leads there too. Without either, the
row that was read cannot be stale in this way, so no property is stated under these conditions.

## 6. What could follow

1. `Wiki`: manual pages, revisions, annotations and tags against re-ingestion.
2. `Publish`: the copy to the source repository with a crash at each file.
3. `Service`: Jobs composed with Runs, so that cancelling, retrying and resuming a job meet the run
   they concern, and Shell over both.
4. A refinement: the index as a function of the tables it reads.
