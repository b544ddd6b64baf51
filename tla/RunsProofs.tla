----------------------------- MODULE RunsProofs -----------------------------
(***************************************************************************)
(* Proofs about the snapshots of a repository: the type invariant, that a  *)
(* generation owns its run, that a completed snapshot's documents reflect  *)
(* the sources it was hashed with, that a checkpoint is continued once,    *)
(* that a run nobody works on never changes, and that the active run is a  *)
(* completed one while no ingestion fails.                                 *)
(***************************************************************************)
EXTENDS Runs, TLAPS

-----------------------------------------------------------------------------
(***************************************************************************)
(* Types.                                                                  *)
(***************************************************************************)

LEMMA TypesInit == Init => TypeOK
<1> SUFFICES ASSUME Init PROVE TypeOK
  OBVIOUS
<1> USE RunsAssumption
<1>1. source \in [Modules -> Versions]
  <2>1. (CHOOSE v \in Versions : TRUE) \in Versions
    OBVIOUS
  <2> QED
    BY <2>1 DEF Init
<1>2. manifest \in [RunIds -> Manifests]
  BY <1>1 DEF Init, NoManifest, Manifests
<1>3. docs \in [RunIds -> [Modules -> Contents]]
  BY DEF Init, Contents, Absent
<1>4. held \in [Threads -> (Modules \cup {NoModule}) \X Contents]
  BY DEF Init, NoDocument, Contents, Absent
<1>5. at \in [Threads -> Points] /\ run \in [Threads -> RunIds \cup {NoRun}]
      /\ \A t \in Threads : at[t] = "idle" <=> run[t] = NoRun
  BY DEF Init, Points
<1> QED
  BY <1>1, <1>2, <1>3, <1>4, <1>5 DEF Init, TypeOK, Ended, Resumable

LEMMA TypesPrepare ==
  ASSUME TypeOK, NEW g \in Generators, NEW r \in RunIds, NEW selection \in Selections,
         NEW from \in RunIds \cup {NoRun}, NEW tasks \in SUBSET Modules,
         NEW output \in [Modules -> Contents], NEW checkpoint \in SUBSET Modules,
         Prepare(g, r, selection, from, tasks, output, checkpoint),
         steady' \in SUBSET RunIds, planned' \in SUBSET RunIds
  PROVE  TypeOK'
<1>1. [hashes |-> source, selection |-> selection, from |-> from] \in Manifests
  BY DEF Manifests, TypeOK
<1>2. manifest' \in [RunIds -> Manifests]
  BY <1>1 DEF Prepare, TypeOK
<1>3. at' \in [Threads -> Points] /\ run' \in [Threads -> RunIds \cup {NoRun}]
      /\ \A t \in Threads : at'[t] = "idle" <=> run'[t] = NoRun
  BY RunsAssumption DEF Prepare, TypeOK, Points, Threads
<1>4. docs' \in [RunIds -> [Modules -> Contents]] /\ recorded' \in [RunIds -> SUBSET Modules]
      /\ previous' \in [Generators -> BOOLEAN] /\ plan' \in [Generators -> SUBSET Modules]
  BY DEF Prepare, TypeOK
<1> QED
  BY <1>2, <1>3, <1>4 DEF Prepare, TypeOK, sources, repo, views, faults

LEMMA TypesGenerate ==
  ASSUME TypeOK, NEW g \in Generators, Generate(g) \/ Resume(g)
  PROVE  TypeOK'
<1>1. CASE Generate(g)
  <2>1. PICK r \in RunIds, selection \in Selections :
          /\ Prepare(g, r, selection, NoRun, PlanOf(selection), CopiedOutput(selection), {})
          /\ steady' \in {steady \ {r}, steady \cup {r}}
          /\ UNCHANGED planned
    BY <1>1 DEF Generate
  <2>2. PlanOf(selection) \in SUBSET Modules
    BY RunsAssumption DEF PlanOf, Affected, TypeOK
  <2>3. CopiedOutput(selection) \in [Modules -> Contents]
    BY DEF CopiedOutput, Copying, TypeOK, Contents, Absent
  <2>4. steady' \in SUBSET RunIds /\ planned' \in SUBSET RunIds
    BY <2>1 DEF TypeOK
  <2>5. NoRun \in RunIds \cup {NoRun} /\ {} \in SUBSET Modules
    OBVIOUS
  <2> QED
    BY <2>1, <2>2, <2>3, <2>4, <2>5, TypesPrepare
<1>2. CASE Resume(g)
  <2>1. PICK r, from \in RunIds :
          /\ Prepare(g, r, manifest[from].selection, from,
                     IF manifest[from].selection = {} THEN Modules ELSE manifest[from].selection,
                     docs[from], recorded[from])
          /\ steady' \in {steady \ {r}, steady \cup {r}}
          /\ planned' = planned \cup {r}
    BY <1>2 DEF Resume
  <2>2. manifest[from].selection \in Selections /\ manifest[from].selection \in SUBSET Modules
    BY RunsAssumption DEF TypeOK, Manifests
  <2>3. docs[from] \in [Modules -> Contents] /\ recorded[from] \in SUBSET Modules
    BY DEF TypeOK
  <2> DEFINE tasks == IF manifest[from].selection = {} THEN Modules ELSE manifest[from].selection
  <2>4. tasks \in SUBSET Modules /\ from \in RunIds \cup {NoRun}
    BY <2>2
  <2>5. steady' \in SUBSET RunIds /\ planned' \in SUBSET RunIds
    BY <2>1 DEF TypeOK
  <2>6. Prepare(g, r, manifest[from].selection, from, tasks, docs[from], recorded[from])
    BY <2>1
  <2> HIDE DEF tasks
  <2> QED
    BY <2>2, <2>3, <2>4, <2>5, <2>6, TypesPrepare
<1> QED
  BY <1>1, <1>2

\* A thread that moves on keeps its run.
LEMMA TypesMove ==
  ASSUME TypeOK, NEW t \in Threads, NEW from \in Points \ {"idle"}, NEW to \in Points \ {"idle"},
         Step(t, from, to), UNCHANGED run
  PROVE  /\ at' \in [Threads -> Points]
         /\ run[t] \in RunIds
         /\ \A u \in Threads : at'[u] = "idle" <=> run'[u] = NoRun
BY DEF TypeOK, Step

LEMMA TypesRelease ==
  ASSUME TypeOK, NEW t \in Threads, Release(t)
  PROVE  /\ at' \in [Threads -> Points]
         /\ run' \in [Threads -> RunIds \cup {NoRun}]
         /\ \A u \in Threads : at'[u] = "idle" <=> run'[u] = NoRun
BY DEF TypeOK, Release, Points

LEMMA ReflectedType ==
  ASSUME TypeOK, NEW m \in Modules, NEW output \in [Modules -> Contents]
  PROVE  Reflected(m, output) \in Contents
<1>1. <<m, source[m]>> \in Modules \X Versions
  BY DEF TypeOK
<1>2. \A c \in Children(m) : output[c] \in Contents
  BY DEF Children
<1> QED
  BY <1>1, <1>2 DEF Reflected, Contents

LEMMA TypesGenerator ==
  ASSUME TypeOK, NEW g \in Generators, GeneratorStep(g)
  PROVE  TypeOK'
<1> USE DEF Points, InTry, InPipeline, Ingesting, sources, rows, files, repo, views, locals, faults
<1>0. g \in Threads
  BY DEF Threads
<1>1. CASE InsertRun(g)
  <2>1. at' \in [Threads -> Points] /\ run[g] \in RunIds
        /\ \A u \in Threads : at'[u] = "idle" <=> run'[u] = NoRun
    BY <1>0, <1>1, TypesMove DEF InsertRun
  <2>2. created' \in Seq(RunIds) /\ status' \in [RunIds -> Ended \cup {"none", "running"}]
    BY <1>1, <2>1 DEF InsertRun, TypeOK
  <2> QED
    BY <1>1, <2>1, <2>2 DEF InsertRun, TypeOK
<1>2. CASE MarkGenerating(g) \/ PipelineReturns(g) \/ PipelineFails(g)
  <2>1. at' \in [Threads -> Points] /\ \A u \in Threads : at'[u] = "idle" <=> run'[u] = NoRun
    BY <1>0, <1>2, TypesMove DEF MarkGenerating, PipelineReturns, PipelineFails
  <2> QED
    BY <1>2, <2>1 DEF MarkGenerating, PipelineReturns, PipelineFails, TypeOK
<1>3. CASE PlanTasks(g)
  <2>1. run[g] \in RunIds
    BY <1>0, <1>3 DEF PlanTasks, TypeOK
  <2> QED
    BY <1>3, <2>1 DEF PlanTasks, TypeOK
<1>4. CASE WriteDocument(g)
  <2>1. run[g] \in RunIds
    BY <1>0, <1>4 DEF WriteDocument, TypeOK
  <2>2. PICK m \in plan[g] :
          /\ docs' = [docs EXCEPT ![run[g]][m] = Reflected(m, docs[run[g]])]
          /\ recorded' = [recorded EXCEPT ![run[g]] = @ \cup {m}]
    BY <1>4 DEF WriteDocument
  <2>3. m \in Modules
    BY DEF TypeOK
  <2>4. Reflected(m, docs[run[g]]) \in Contents
    BY <2>1, <2>3, ReflectedType DEF TypeOK
  <2>5. docs' \in [RunIds -> [Modules -> Contents]] /\ recorded' \in [RunIds -> SUBSET Modules]
    BY <2>1, <2>2, <2>3, <2>4 DEF TypeOK
  <2> QED
    BY <1>4, <2>5 DEF WriteDocument, TypeOK
<1>5. CASE CompleteRun(g) \/ PublishRun(g) \/ FailRun(g)
  <2>1. at' \in [Threads -> Points] /\ run[g] \in RunIds
        /\ \A u \in Threads : at'[u] = "idle" <=> run'[u] = NoRun
    BY <1>0, <1>5, TypesMove DEF CompleteRun, PublishRun, FailRun
  <2>2. CASE CompleteRun(g)
    BY <2>1, <2>2 DEF CompleteRun, SetRun, TypeOK, Ended
  <2>3. CASE PublishRun(g)
    BY <2>1, <2>3 DEF PublishRun, TypeOK
  <2>4. CASE FailRun(g)
    BY <2>1, <2>4 DEF FailRun, SetRun, TypeOK, Ended, Resumable
  <2> QED
    BY <1>5, <2>2, <2>3, <2>4
<1>6. CASE RestoreStatus(g)
  <2>1. Release(g) /\ FailedStatus(g) \in {"ready", "failed"}
    BY <1>6 DEF RestoreStatus, ReleaseGenerator, FailedStatus
  <2> QED
    BY <1>0, <1>6, <2>1, TypesRelease DEF RestoreStatus, ReleaseGenerator, TypeOK
<1> QED
  BY <1>1, <1>2, <1>3, <1>4, <1>5, <1>6 DEF GeneratorStep

\* One step of the ingestion of a run, whoever calls it.
IngestStep(t) ==
  IngestGraph(t) \/ RewriteDocument(t) \/ IngestWiki(t) \/ IndexRepository(t) \/ IngestFails(t)

LEMMA TypesIngest ==
  ASSUME TypeOK, NEW t \in Threads, IngestStep(t)
  PROVE  TypeOK'
<1> USE DEF Points, InTry, InPipeline, Ingesting, sources, rows, files, repo, views, locals, faults
<1>1. CASE IngestGraph(t)
  <2>1. at' \in [Threads -> Points] /\ run[t] \in RunIds
        /\ \A u \in Threads : at'[u] = "idle" <=> run'[u] = NoRun
    BY <1>1, TypesMove DEF IngestGraph
  <2> QED
    BY <1>1, <2>1 DEF IngestGraph, TypeOK
<1>2. CASE RewriteDocument(t)
  <2>1. at' \in [Threads -> Points] /\ run[t] \in RunIds
        /\ \A u \in Threads : at'[u] = "idle" <=> run'[u] = NoRun
    BY <1>2, TypesMove DEF RewriteDocument
  <2>2. PICK m \in Modules : /\ held' = [held EXCEPT ![t] = <<m, docs[run[t]][m]>>]
                             /\ docs' = [docs EXCEPT ![run[t]][m] = Truncated]
    BY <1>2 DEF RewriteDocument
  <2>3. docs[run[t]][m] \in Contents /\ Truncated \in Contents
    BY <2>1 DEF TypeOK, Contents, Truncated
  <2>4. docs' \in [RunIds -> [Modules -> Contents]]
    BY <2>1, <2>2, <2>3 DEF TypeOK
  <2>5. held' \in [Threads -> (Modules \cup {NoModule}) \X Contents]
    BY <2>2, <2>3 DEF TypeOK
  <2> QED
    BY <1>2, <2>1, <2>4, <2>5 DEF RewriteDocument, TypeOK
<1>3. CASE IngestWiki(t)
  <2>1. at' \in [Threads -> Points] /\ run[t] \in RunIds
        /\ \A u \in Threads : at'[u] = "idle" <=> run'[u] = NoRun
    BY <1>3, TypesMove DEF IngestWiki
  <2>2. held[t] \in (Modules \cup {NoModule}) \X Contents
    BY DEF TypeOK
  <2>3. docs' \in [RunIds -> [Modules -> Contents]]
    <3>1. docs' = [docs EXCEPT ![run[t]][held[t][1]] = held[t][2]]
      BY <1>3 DEF IngestWiki
    <3> QED
      BY <2>1, <2>2, <3>1, RunsAssumption DEF TypeOK
  <2>4. held' \in [Threads -> (Modules \cup {NoModule}) \X Contents]
    BY <1>3 DEF IngestWiki, NoDocument, Absent, Contents, TypeOK
  <2> QED
    BY <1>3, <2>1, <2>3, <2>4 DEF IngestWiki, TypeOK
<1>4. CASE IndexRepository(t)
  <2>1. Release(t)
    BY <1>4 DEF IndexRepository, ReleaseGenerator
  <2>2. previous' \in [Generators -> BOOLEAN] /\ plan' \in [Generators -> SUBSET Modules]
    BY <1>4 DEF IndexRepository, ReleaseGenerator, TypeOK
  <2> QED
    BY <1>4, <2>1, <2>2, TypesRelease DEF IndexRepository, TypeOK
<1>5. CASE IngestFails(t)
  <2>1. held' \in [Threads -> (Modules \cup {NoModule}) \X Contents]
    BY <1>5 DEF IngestFails, NoDocument, Absent, Contents, TypeOK
  <2>2. /\ at' \in [Threads -> Points]
        /\ run' \in [Threads -> RunIds \cup {NoRun}]
        /\ \A u \in Threads : at'[u] = "idle" <=> run'[u] = NoRun
    BY <1>5, TypesRelease DEF IngestFails, TypeOK
  <2> QED
    BY <1>5, <2>1, <2>2 DEF IngestFails, TypeOK
<1> QED
  BY <1>1, <1>2, <1>3, <1>4, <1>5 DEF IngestStep

LEMMA TypesOutside ==
  ASSUME TypeOK, (\E a \in Activators : ActivateRun(a)) \/ Edit \/ Restart \/ OtherProcess
  PROVE  TypeOK'
<1> USE DEF sources, rows, files, repo, views, locals, faults
<1>1. ASSUME NEW a \in Activators, ActivateRun(a) PROVE TypeOK'
  BY <1>1, RunsAssumption DEF ActivateRun, TypeOK, Threads, Points, InTry, Ingesting
<1>2. CASE Edit
  BY <1>2 DEF Edit, TypeOK
<1>3. MarkInterrupted => status' \in [RunIds -> Ended \cup {"none", "running"}]
  BY DEF MarkInterrupted, TypeOK, Ended, Resumable
<1>4. CASE Restart
  <2>1. held' \in [Threads -> (Modules \cup {NoModule}) \X Contents]
    BY <1>4 DEF Restart, NoDocument, Absent, Contents
  <2>2. /\ at' \in [Threads -> Points]
        /\ run' \in [Threads -> RunIds \cup {NoRun}]
        /\ \A u \in Threads : at'[u] = "idle" <=> run'[u] = NoRun
    BY <1>4 DEF Restart, Points
  <2> QED
    BY <1>3, <1>4, <2>1, <2>2 DEF Restart, TypeOK
<1>5. CASE OtherProcess
  BY <1>3, <1>5 DEF OtherProcess, TypeOK
<1> QED
  BY <1>1, <1>2, <1>4, <1>5

\* Every variable keeps its type, and a thread without a run is idle.
THEOREM Typed == Spec => []TypeOK
<1>1. TypeOK /\ [Next]_vars => TypeOK'
  <2> SUFFICES ASSUME TypeOK, [Next]_vars PROVE TypeOK'
    OBVIOUS
  <2>1. CASE UNCHANGED vars
    BY <2>1 DEF TypeOK, vars, sources, rows, files, repo, views, locals, faults
  <2>2. ASSUME NEW g \in Generators, Reuse(g) PROVE TypeOK'
    BY <2>2 DEF Reuse, TypeOK, sources, rows, files, views, locals, faults
  <2> QED
    BY <2>1, <2>2, TypesGenerate, TypesGenerator, TypesIngest, TypesOutside DEF Next, IngestStep
<1> QED
  BY TypesInit, <1>1, PTL DEF Spec

-----------------------------------------------------------------------------
(***************************************************************************)
(* Ownership.                                                              *)
(***************************************************************************)

\* What a generation's run may be at each of its points; an interruption comes
\* from another process.
StatusAt(p) ==
  IF p = "insert" THEN {"none"}
  ELSE IF p \in {"mark", "pipeline", "complete"} THEN {"running", "interrupted"}
  ELSE IF p = "fail" THEN {"running", "interrupted", "completed"}
  ELSE IF p = "restore" THEN {"failed", "cancelled"}
  ELSE {"completed"}

ActivatorPoints == {"idle", "graph", "wiki", "rewrite", "index"}

\* A generation's run is its own and as far as the generation.
GeneratorsOwn ==
  \A g \in Generators : run[g] # NoRun =>
    /\ status[run[g]] \in StatusAt(at[g])
    /\ \A h \in Generators : run[h] = run[g] => h = g

\* Activations and the repository's current run are of runs that have ended.
OthersEnded ==
  /\ \A a \in Activators : at[a] \in ActivatorPoints
  /\ \A a \in Activators : run[a] # NoRun => status[run[a]] \in Ended
  /\ active # NoRun => status[active] \in Ended

Mine == GeneratorsOwn /\ OthersEnded /\ NoRunLeftRunning

\* A step that lets a thread move on, or leave a run that has ended.
LEMMA MineMoves ==
  ASSUME TypeOK, Mine, NEW t \in Threads, UNCHANGED <<status, active>>,
         \/ /\ UNCHANGED run
            /\ \E to \in Points : /\ at' = [at EXCEPT ![t] = to]
                                  /\ t \in Generators => StatusAt(at[t]) \subseteq StatusAt(to)
                                  /\ t \in Activators => to \in ActivatorPoints
         \/ Release(t) /\ (t \in Generators => "running" \notin StatusAt(at[t]))
  PROVE  Mine'
<1>1. NoRun \notin RunIds
  BY RunsAssumption
<1>2. CASE UNCHANGED run
  <2>1. PICK to \in Points : /\ at' = [at EXCEPT ![t] = to]
                             /\ t \in Generators => StatusAt(at[t]) \subseteq StatusAt(to)
                             /\ t \in Activators => to \in ActivatorPoints
    <3>1. CASE Release(t)
      BY <1>1, <1>2, <3>1 DEF Release, TypeOK, Points, ActivatorPoints, StatusAt
    <3> QED
      BY <3>1
  <2>2. GeneratorsOwn'
    BY <1>2, <2>1 DEF Mine, GeneratorsOwn, TypeOK, Threads
  <2>3. OthersEnded'
    BY <1>2, <2>1 DEF Mine, OthersEnded, TypeOK, Threads
  <2>4. NoRunLeftRunning'
    BY <1>2 DEF Mine, NoRunLeftRunning, Owns
  <2> QED
    BY <2>2, <2>3, <2>4 DEF Mine
<1>3. CASE Release(t) /\ (t \in Generators => "running" \notin StatusAt(at[t]))
  <2>1. /\ run'[t] = NoRun /\ at'[t] = "idle"
        /\ \A u \in Threads \ {t} : run'[u] = run[u] /\ at'[u] = at[u]
    BY <1>3 DEF Release, TypeOK
  <2>2. GeneratorsOwn'
    BY <1>1, <2>1 DEF Mine, GeneratorsOwn, Threads
  <2>3. OthersEnded'
    BY <2>1 DEF Mine, OthersEnded, Threads, ActivatorPoints
  <2>4. NoRunLeftRunning'
    <3> SUFFICES ASSUME NEW r \in RunIds, status[r] = "running" PROVE Owns(r)'
      BY DEF NoRunLeftRunning
    <3>1. PICK g \in Generators : run[g] = r
      BY DEF Mine, NoRunLeftRunning, Owns
    <3>2. g # t
      BY <1>1, <1>3, <3>1 DEF Mine, GeneratorsOwn
    <3> QED
      BY <2>1, <3>1, <3>2 DEF Owns, Threads
  <2> QED
    BY <2>2, <2>3, <2>4 DEF Mine
<1> QED
  BY <1>2, <1>3

\* A generation begins with an id nobody uses.
LEMMA MinePrepare ==
  ASSUME TypeOK, Mine, NEW g \in Generators, Generate(g) \/ Resume(g)
  PROVE  Mine'
<1>1. PICK r \in RunIds :
        /\ at[g] = "idle" /\ r \in Unused
        /\ at' = [at EXCEPT ![g] = "insert"]
        /\ run' = [run EXCEPT ![g] = r]
        /\ UNCHANGED <<status, active>>
  BY DEF Generate, Resume, Prepare, repo
<1>2. g \in Threads /\ g \notin Activators /\ r # NoRun /\ run[g] = NoRun
  BY <1>1, RunsAssumption DEF Threads, TypeOK
<1>3. status[r] = "none" /\ \A u \in Threads : run[u] # r
  BY <1>1 DEF Unused, Owned
<1>4. /\ run'[g] = r /\ at'[g] = "insert"
      /\ \A u \in Threads \ {g} : run'[u] = run[u] /\ at'[u] = at[u]
  BY <1>1, <1>2 DEF TypeOK
<1>5. GeneratorsOwn'
  BY <1>1, <1>3, <1>4 DEF Mine, GeneratorsOwn, StatusAt, Threads
<1>6. OthersEnded'
  BY <1>1, <1>2, <1>4 DEF Mine, OthersEnded, Threads
<1>7. NoRunLeftRunning'
  BY <1>1, <1>2, <1>4, RunsAssumption DEF Mine, NoRunLeftRunning, Owns, Threads
<1> QED
  BY <1>5, <1>6, <1>7 DEF Mine

\* A generation that writes its row or makes its run the current one.
LEMMA MineRow ==
  ASSUME TypeOK, Mine, NEW g \in Generators,
         InsertRun(g) \/ CompleteRun(g) \/ PublishRun(g) \/ FailRun(g)
  PROVE  Mine'
<1>1. PICK to \in Points, s \in Ended \cup {"none", "running"} :
        /\ at[g] # "idle" /\ at' = [at EXCEPT ![g] = to]
        /\ status' = [status EXCEPT ![run[g]] = s]
        /\ s \in StatusAt(to)
        /\ status[run[g]] \in Ended => s \in Ended
        /\ active' = active \/ (active' = run[g] /\ s \in Ended)
  <2>1. CASE InsertRun(g)
    BY <2>1 DEF InsertRun, Step, repo, StatusAt, Points, InTry, Mine, GeneratorsOwn, TypeOK, Threads, Ended, Resumable
  <2>2. CASE CompleteRun(g)
    BY <2>2 DEF CompleteRun, SetRun, Step, repo, StatusAt, Points, InTry, Ingesting, Ended
  <2>3. CASE PublishRun(g)
    <3>1. run[g] \in RunIds /\ status[run[g]] = "completed"
      BY <2>3, RunsAssumption DEF PublishRun, Step, TypeOK, Threads, Mine, GeneratorsOwn, StatusAt
    <3>2. status' = [status EXCEPT ![run[g]] = "completed"]
      BY <2>3, <3>1 DEF PublishRun, rows, TypeOK
    <3> QED
      BY <2>3, <3>2 DEF PublishRun, Step, StatusAt, Points, InTry, Ingesting, Ended
  <2>4. CASE FailRun(g)
    BY <2>4 DEF FailRun, SetRun, Step, repo, StatusAt, Points, Ended, Resumable
  <2> QED
    BY <2>1, <2>2, <2>3, <2>4
<1>2. UNCHANGED run
  BY DEF InsertRun, CompleteRun, PublishRun, FailRun
<1>3. g \in Threads /\ g \notin Activators /\ run[g] \in RunIds /\ NoRun \notin RunIds
  BY <1>1, RunsAssumption DEF Threads, TypeOK
<1>4. /\ status'[run[g]] = s
      /\ \A r \in RunIds \ {run[g]} : status'[r] = status[r]
      /\ \A u \in Threads \ {g} : at'[u] = at[u]
      /\ at'[g] = to
  BY <1>1, <1>3 DEF TypeOK
<1>5. GeneratorsOwn'
  BY <1>1, <1>2, <1>3, <1>4 DEF Mine, GeneratorsOwn, Threads, TypeOK
<1>6. OthersEnded'
  BY <1>1, <1>2, <1>3, <1>4 DEF Mine, OthersEnded, Threads, TypeOK
<1>7. NoRunLeftRunning'
  BY <1>2, <1>4 DEF Mine, NoRunLeftRunning, Owns
<1> QED
  BY <1>5, <1>6, <1>7 DEF Mine

LEMMA MineGenerator ==
  ASSUME TypeOK, Mine, NEW g \in Generators, GeneratorStep(g)
  PROVE  Mine'
<1>1. g \in Threads /\ g \notin Activators
  BY RunsAssumption DEF Threads
<1>2. CASE MarkGenerating(g) \/ PipelineReturns(g) \/ PipelineFails(g)
  <2>1. PICK to \in Points : at' = [at EXCEPT ![g] = to] /\ StatusAt(at[g]) \subseteq StatusAt(to)
    BY <1>2 DEF MarkGenerating, PipelineReturns, PipelineFails, Step, StatusAt, Points, InTry, InPipeline
  <2>2. UNCHANGED <<status, active, run>>
    BY <1>2 DEF MarkGenerating, PipelineReturns, PipelineFails, rows, repo
  <2> QED
    BY <1>1, <2>1, <2>2, MineMoves
<1>3. CASE PlanTasks(g) \/ WriteDocument(g)
  BY <1>3 DEF PlanTasks, WriteDocument, rows, repo, locals, Mine, GeneratorsOwn, OthersEnded, NoRunLeftRunning, Owns
<1>4. CASE RestoreStatus(g)
  <2>1. Release(g) /\ UNCHANGED <<status, active>> /\ "running" \notin StatusAt(at[g])
    BY <1>4 DEF RestoreStatus, ReleaseGenerator, StatusAt, rows
  <2> QED
    BY <1>1, <2>1, MineMoves
<1> QED
  BY <1>2, <1>3, <1>4, MineRow DEF GeneratorStep

LEMMA MineIngest ==
  ASSUME TypeOK, Mine, NEW t \in Threads, IngestStep(t)
  PROVE  Mine'
<1>1. CASE IngestGraph(t) \/ RewriteDocument(t) \/ IngestWiki(t)
  <2>1. PICK to \in ActivatorPoints \cap Points :
          at' = [at EXCEPT ![t] = to] /\ StatusAt(at[t]) \subseteq StatusAt(to)
    BY <1>1 DEF IngestGraph, RewriteDocument, IngestWiki, Step, StatusAt, ActivatorPoints, Points, InTry, Ingesting
  <2>2. UNCHANGED <<status, active, run>>
    BY <1>1 DEF IngestGraph, RewriteDocument, IngestWiki, rows, repo
  <2> QED
    BY <2>1, <2>2, MineMoves
<1>2. CASE IndexRepository(t)
  <2>1. Release(t) /\ UNCHANGED <<status, active>> /\ "running" \notin StatusAt(at[t])
    BY <1>2 DEF IndexRepository, ReleaseGenerator, StatusAt, rows, repo
  <2> QED
    BY <2>1, MineMoves
<1>3. CASE IngestFails(t)
  <2>1. UNCHANGED <<status, active>> /\ "running" \notin StatusAt(at[t]) /\ StatusAt(at[t]) \subseteq StatusAt("fail")
    BY <1>3 DEF IngestFails, StatusAt, rows, repo
  <2>2. CASE t \in Generators
    <3>1. UNCHANGED run /\ at' = [at EXCEPT ![t] = "fail"] /\ "fail" \in Points /\ t \notin Activators
      BY <1>3, <2>2, RunsAssumption DEF IngestFails, Points
    <3> QED
      BY <2>1, <3>1, MineMoves
  <2>3. CASE t \notin Generators
    BY <1>3, <2>1, <2>3, MineMoves DEF IngestFails
  <2> QED
    BY <2>2, <2>3
<1> QED
  BY <1>1, <1>2, <1>3 DEF IngestStep

LEMMA MineOutside ==
  ASSUME TypeOK, Mine, (\E a \in Activators : ActivateRun(a)) \/ Edit \/ Restart \/ OtherProcess
  PROVE  Mine'
<1>1. ASSUME NEW a \in Activators, ActivateRun(a) PROVE Mine'
  <2>1. a \in Threads /\ a \notin Generators
    BY RunsAssumption DEF Threads
  <2>2. PICK r \in RunIds :
          /\ status[r] = "completed" /\ active' = r
          /\ run' = [run EXCEPT ![a] = r] /\ at' = [at EXCEPT ![a] = "graph"]
          /\ UNCHANGED status
    BY <1>1 DEF ActivateRun, rows
  <2>3. /\ run'[a] = r /\ at'[a] = "graph"
        /\ \A u \in Threads \ {a} : run'[u] = run[u] /\ at'[u] = at[u]
    BY <2>1, <2>2 DEF TypeOK
  <2>4. GeneratorsOwn' /\ NoRunLeftRunning'
    BY <2>1, <2>2, <2>3 DEF Mine, GeneratorsOwn, NoRunLeftRunning, Owns, Threads
  <2>5. OthersEnded'
    BY <2>1, <2>2, <2>3 DEF Mine, OthersEnded, Threads, ActivatorPoints, Ended
  <2> QED
    BY <2>4, <2>5 DEF Mine
<1>2. CASE Edit
  BY <1>2 DEF Edit, rows, repo, locals, Mine, GeneratorsOwn, OthersEnded, NoRunLeftRunning, Owns
<1>3. CASE Restart
  <2>1. \A r \in RunIds : status'[r] = IF status[r] = "running" THEN "interrupted" ELSE status[r]
    BY <1>3 DEF Restart, MarkInterrupted
  <2>2. at' = [t \in Threads |-> "idle"] /\ run' = [t \in Threads |-> NoRun] /\ UNCHANGED active
    BY <1>3 DEF Restart, repo
  <2> QED
    BY <2>1, <2>2 DEF Mine, GeneratorsOwn, OthersEnded, NoRunLeftRunning, Threads, ActivatorPoints, Ended,
           Resumable, TypeOK
<1>4. CASE OtherProcess
  <2>1. \A r \in RunIds : status'[r] = IF status[r] = "running" THEN "interrupted" ELSE status[r]
    BY <1>4 DEF OtherProcess, MarkInterrupted
  <2>2. UNCHANGED <<at, run, active>>
    BY <1>4 DEF OtherProcess, locals, repo
  <2>3. GeneratorsOwn'
    <3> SUFFICES ASSUME NEW g \in Generators, run[g] # NoRun PROVE status'[run[g]] \in StatusAt(at[g])
      BY <2>2 DEF Mine, GeneratorsOwn
    <3>1. run[g] \in RunIds /\ status[run[g]] \in StatusAt(at[g])
      BY DEF TypeOK, Threads, Mine, GeneratorsOwn
    <3> QED
      BY <2>1, <3>1 DEF StatusAt
  <2>4. OthersEnded' /\ NoRunLeftRunning'
    BY <2>1, <2>2 DEF Mine, OthersEnded, NoRunLeftRunning, Ended, Resumable, TypeOK, Threads
  <2> QED
    BY <2>3, <2>4 DEF Mine
<1> QED
  BY <1>1, <1>2, <1>3, <1>4

LEMMA MineAlways == Spec => []Mine
<1>1. Init => Mine
  BY DEF Init, Mine, GeneratorsOwn, OthersEnded, NoRunLeftRunning, Threads, ActivatorPoints
<1>2. TypeOK /\ Mine /\ [Next]_vars => Mine'
  <2> SUFFICES ASSUME TypeOK, Mine, [Next]_vars PROVE Mine'
    OBVIOUS
  <2>1. CASE UNCHANGED vars
    BY <2>1 DEF vars, rows, repo, locals, Mine, GeneratorsOwn, OthersEnded, NoRunLeftRunning, Owns
  <2>2. ASSUME NEW g \in Generators, Reuse(g) PROVE Mine'
    BY <2>2 DEF Reuse, rows, locals, Mine, GeneratorsOwn, OthersEnded, NoRunLeftRunning, Owns
  <2> QED
    BY <2>1, <2>2, MinePrepare, MineGenerator, MineIngest, MineOutside DEF Next, IngestStep
<1> QED
  BY Typed, <1>1, <1>2, PTL DEF Spec

\* No run is left running: only a generation at work has one, through
\* restarts, failures and other processes.
THEOREM NoneLeftRunning == Spec => []NoRunLeftRunning
<1>1. Mine => NoRunLeftRunning
  BY DEF Mine
<1> QED
  BY MineAlways, <1>1, PTL

\* Where no activation rewrites documents, a run that has ended and that no
\* generation works on is never changed.
THEOREM EndedAreImmutable ==
  ASSUME Activators = {}
  PROVE  Spec => EndedRunsAreImmutable
<1>1. TypeOK /\ [Next]_vars =>
        [\A r \in RunIds : status[r] \in Ended /\ ~Owns(r) =>
           status'[r] = status[r] /\ docs'[r] = docs[r] /\ recorded'[r] = recorded[r]]_vars
  <2> SUFFICES ASSUME TypeOK, [Next]_vars, NEW r \in RunIds, status[r] \in Ended, ~Owns(r)
               PROVE  status'[r] = status[r] /\ docs'[r] = docs[r] /\ recorded'[r] = recorded[r]
    OBVIOUS
  <2>1. status[r] # "none" /\ status[r] # "running" /\ \A g \in Generators : run[g] # r
    BY DEF Ended, Resumable, Owns
  <2> USE <2>1 DEF TypeOK
  <2>2. CASE UNCHANGED vars
    BY <2>2 DEF vars, rows, files
  <2>3. ASSUME NEW g \in Generators, Reuse(g) \/ Generate(g) \/ Resume(g)
        PROVE  status'[r] = status[r] /\ docs'[r] = docs[r] /\ recorded'[r] = recorded[r]
    BY <2>3 DEF Reuse, Generate, Resume, Prepare, Unused, rows, files
  <2>4. ASSUME NEW g \in Generators, GeneratorStep(g)
        PROVE  status'[r] = status[r] /\ docs'[r] = docs[r] /\ recorded'[r] = recorded[r]
    BY <2>4 DEF GeneratorStep, InsertRun, MarkGenerating, PlanTasks, WriteDocument, PipelineReturns,
           PipelineFails, CompleteRun, PublishRun, FailRun, SetRun, RestoreStatus, rows, files
  <2>5. ASSUME NEW t \in Threads, IngestStep(t)
        PROVE  status'[r] = status[r] /\ docs'[r] = docs[r] /\ recorded'[r] = recorded[r]
    BY <2>5 DEF IngestStep, IngestGraph, RewriteDocument, IngestWiki, IndexRepository, IngestFails,
           rows, files, Threads
  <2>6. CASE Edit \/ Restart \/ OtherProcess
    BY <2>6 DEF Edit, Restart, OtherProcess, MarkInterrupted, rows, files
  <2> QED
    BY <2>2, <2>3, <2>4, <2>5, <2>6 DEF Next, IngestStep
<1> QED
  BY Typed, <1>1, PTL DEF Spec, EndedRunsAreImmutable

\* While no ingestion fails, the repository's current run is a completed one.
THEOREM CurrentRunIsCompleted ==
  ASSUME MaxIngestFailures = 0
  PROVE  Spec => []CurrentIsCompleted
<1> DEFINE Sound == /\ CurrentIsCompleted
                    /\ \A g \in Generators : at[g] = "fail" => status[run[g]] # "completed"
<1>1. Init => Sound
  BY DEF Init, CurrentIsCompleted, Threads
<1>2. TypeOK /\ Mine /\ Mine' /\ Sound /\ [Next]_vars => Sound'
  <2> SUFFICES ASSUME TypeOK, Mine, Mine', Sound, [Next]_vars PROVE Sound'
    OBVIOUS
  <2>1. NoRun \notin RunIds
    BY RunsAssumption
  <2>2. CASE UNCHANGED vars
    BY <2>2 DEF vars, rows, repo, locals, CurrentIsCompleted
  <2>3. ASSUME NEW g \in Generators, Reuse(g) \/ Generate(g) \/ Resume(g) PROVE Sound'
    <3>1. CASE Reuse(g)
      BY <3>1 DEF Reuse, rows, locals, CurrentIsCompleted
    <3>2. CASE Generate(g) \/ Resume(g)
      <4>1. PICK r \in RunIds : /\ at' = [at EXCEPT ![g] = "insert"]
                                /\ run' = [run EXCEPT ![g] = r]
                                /\ UNCHANGED <<status, active>>
        BY <3>2 DEF Generate, Resume, Prepare, repo
      <4>2. \A h \in Generators : at'[h] = "fail" => at[h] = "fail" /\ run'[h] = run[h]
        BY <4>1 DEF TypeOK, Threads
      <4> QED
        BY <4>1, <4>2 DEF CurrentIsCompleted
    <3> QED
      BY <2>3, <3>1, <3>2
  <2>4. ASSUME NEW g \in Generators, GeneratorStep(g) PROVE Sound'
    <3>1. at[g] # "idle" /\ run[g] \in RunIds /\ status[run[g]] \in StatusAt(at[g])
          /\ \A h \in Generators : run[h] = run[g] => h = g
      BY <2>1, <2>4 DEF GeneratorStep, InsertRun, MarkGenerating, PlanTasks, WriteDocument, PipelineReturns,
             PipelineFails, CompleteRun, PublishRun, FailRun, RestoreStatus, Step, TypeOK, Threads, Mine, GeneratorsOwn
    <3>2. CASE InsertRun(g) \/ CompleteRun(g) \/ FailRun(g)
      <4>1. PICK s \in {"running", "completed", "failed", "cancelled"} :
              /\ status' = [status EXCEPT ![run[g]] = s]
              /\ status[run[g]] = "completed" => s = "completed"
        BY <3>1, <3>2 DEF InsertRun, CompleteRun, FailRun, SetRun, Step, StatusAt
      <4>2. UNCHANGED <<active, run>> /\ at'[g] # "fail" /\ \A u \in Threads \ {g} : at'[u] = at[u]
        BY <3>2 DEF InsertRun, CompleteRun, FailRun, Step, repo, TypeOK, Threads
      <4>3. \A r \in RunIds : status[r] = "completed" => status'[r] = "completed"
        BY <3>1, <4>1 DEF TypeOK
      <4>4. \A h \in Generators \ {g} : at[h] = "fail" => status'[run[h]] = status[run[h]]
        BY <2>1, <3>1, <4>1 DEF TypeOK, Threads
      <4>5. CurrentIsCompleted'
        BY <4>2, <4>3 DEF CurrentIsCompleted, TypeOK
      <4>6. \A h \in Generators : at'[h] = "fail" => status'[run'[h]] # "completed"
        BY <4>2, <4>4 DEF Threads
      <4> QED
        BY <4>5, <4>6
    <3>3. CASE PublishRun(g)
      BY <3>1, <3>3 DEF PublishRun, Step, rows, CurrentIsCompleted, TypeOK, Threads, StatusAt
    <3>4. CASE MarkGenerating(g) \/ PipelineReturns(g) \/ PipelineFails(g)
      BY <3>1, <3>4 DEF MarkGenerating, PipelineReturns, PipelineFails, Step, rows, repo, CurrentIsCompleted,
             TypeOK, Threads, StatusAt
    <3>5. CASE PlanTasks(g) \/ WriteDocument(g)
      BY <3>5 DEF PlanTasks, WriteDocument, rows, repo, locals, CurrentIsCompleted
    <3>6. CASE RestoreStatus(g)
      BY <3>6 DEF RestoreStatus, ReleaseGenerator, Release, rows, CurrentIsCompleted, TypeOK, Threads
    <3> QED
      BY <2>4, <3>2, <3>3, <3>4, <3>5, <3>6 DEF GeneratorStep
  <2>5. ASSUME NEW t \in Threads, IngestStep(t) PROVE Sound'
    <3>1. ~IngestFails(t)
      BY DEF IngestFails, TypeOK
    <3>2. UNCHANGED <<status, active>>
      BY <2>5, <3>1 DEF IngestStep, IngestGraph, RewriteDocument, IngestWiki, IndexRepository, rows, repo
    <3>3. \A g \in Generators : at'[g] = "fail" => at[g] = "fail" /\ run'[g] = run[g]
      BY <2>5, <3>1 DEF IngestStep, IngestGraph, RewriteDocument, IngestWiki, IndexRepository, Step,
             ReleaseGenerator, Release, TypeOK, Threads
    <3> QED
      BY <3>2, <3>3 DEF CurrentIsCompleted
  <2>6. ASSUME NEW a \in Activators, ActivateRun(a) PROVE Sound'
    BY <2>6, RunsAssumption DEF ActivateRun, rows, CurrentIsCompleted, TypeOK, Threads
  <2>7. CASE Edit
    BY <2>7 DEF Edit, rows, repo, locals, CurrentIsCompleted
  <2>8. CASE Restart \/ OtherProcess
    <3>1. \A r \in RunIds : status'[r] = IF status[r] = "running" THEN "interrupted" ELSE status[r]
      BY <2>8 DEF Restart, OtherProcess, MarkInterrupted
    <3>2. \A g \in Generators : at'[g] = "fail" => at[g] = "fail" /\ run'[g] = run[g] /\ run[g] \in RunIds
      BY <2>8 DEF Restart, OtherProcess, locals, TypeOK, Threads
    <3> QED
      BY <2>8, <3>1, <3>2 DEF Restart, OtherProcess, repo, CurrentIsCompleted, TypeOK
  <2> QED
    BY <2>2, <2>3, <2>4, <2>5, <2>6, <2>7, <2>8 DEF Next, IngestStep
<1>3. Sound => CurrentIsCompleted
  OBVIOUS
<1> QED
  BY Typed, MineAlways, <1>1, <1>2, <1>3, PTL DEF Spec

-----------------------------------------------------------------------------
(***************************************************************************)
(* Documents.                                                              *)
(***************************************************************************)

\* The module and those below it, whose sources its document reflects.
Below(m) == {x \in Modules : m \in Chain[x]}
Faithful(h, m) == {<<x, h[x]>> : x \in Below(m)}

\* A document is truncated, or made of one that was, or reflects the sources.
Ok(h, m, d) == NoModule \in d \/ d = Faithful(h, m)

LEMMA BelowSplits ==
  ASSUME NEW m \in Modules
  PROVE  Below(m) = {m} \cup UNION {Below(c) : c \in Children(m)}
<1>1. ASSUME NEW x \in Below(m) PROVE x = m \/ \E c \in Children(m) : x \in Below(c)
  BY <1>1, ModuleTreeAssumption DEF Below, Children
<1>2. m \in Below(m)
  BY ModuleTreeAssumption DEF Below
<1>3. ASSUME NEW c \in Children(m), NEW x \in Below(c) PROVE x \in Below(m)
  <2>1. c \in Modules /\ Parent[c] = m /\ m # NoModule /\ x \in Modules /\ c \in Chain[x]
    BY RunsAssumption DEF Children, Below
  <2>2. m \in Chain[m] /\ Chain[m] \subseteq Chain[c] /\ Chain[c] \subseteq Chain[x]
    BY <2>1, ModuleTreeAssumption
  <2> QED
    BY <2>1, <2>2 DEF Below
<1> QED
  BY <1>1, <1>2, <1>3

LEMMA FaithfulSplits ==
  ASSUME NEW m \in Modules, NEW h
  PROVE  Faithful(h, m) = {<<m, h[m]>>} \cup UNION {Faithful(h, c) : c \in Children(m)}
<1>1. \A x : x \in Below(m) <=> x = m \/ \E c \in Children(m) : x \in Below(c)
  BY BelowSplits
<1> QED
  BY <1>1 DEF Faithful

\* What the pipeline writes below children that are in order is in order.
LEMMA ReflectedIsOk ==
  ASSUME NEW m \in Modules, NEW output, \A c \in Children(m) : Ok(source, c, output[c])
  PROVE  Ok(source, m, Reflected(m, output))
<1>1. CASE \E c \in Children(m) : NoModule \in output[c]
  BY <1>1 DEF Ok, Reflected
<1>2. CASE \A c \in Children(m) : output[c] = Faithful(source, c)
  <2>1. {output[c] : c \in Children(m)} = {Faithful(source, c) : c \in Children(m)}
    BY <1>2
  <2> QED
    BY <2>1, FaithfulSplits DEF Ok, Reflected
<1> QED
  BY <1>1, <1>2 DEF Ok

\* A document outside of what a change affects reflects the new sources too.
LEMMA UnaffectedIsOk ==
  ASSUME NEW m \in Modules \ Affected(Changed), NEW d, Ok(manifest[active].hashes, m, d)
  PROVE  Ok(source, m, d)
<1>1. \A x \in Below(m) : manifest[active].hashes[x] = source[x]
  BY DEF Below, Affected, Changed
<1>2. Faithful(manifest[active].hashes, m) = Faithful(source, m)
  BY <1>1 DEF Faithful
<1> QED
  BY <1>2 DEF Ok

\* The runs the property is about, and those of them that have all documents.
Kept(r) == r \in steady /\ manifest[r].selection = {}
Done(r) ==
  \/ status[r] = "completed" \/ active = r
  \/ \E t \in Threads : run[t] = r /\ at[t] \in {"graph", "wiki", "rewrite", "index"}
Early == {"insert", "mark", "pipeline", "complete"}
DocOk(r, m) == Ok(manifest[r].hashes, m, docs[r][m])

RecordedOk == \A r \in RunIds : Kept(r) => \A m \in recorded[r] : DocOk(r, m)
DoneOk == \A r \in RunIds : Kept(r) /\ Done(r) => \A m \in Modules : DocOk(r, m)

\* Until its run is completed a generation works for the present sources, and
\* what it does not plan is in order.
EarlyOk ==
  \A g \in Generators : at[g] \in Early =>
    /\ Kept(run[g]) =>
         manifest[run[g]].hashes = source /\ \A m \in Modules \ plan[g] : DocOk(run[g], m)
    /\ at[g] = "complete" => plan[g] \subseteq recorded[run[g]]

\* What ingest_generated writes back is what it read.
HeldOk ==
  \A t \in Threads : at[t] = "rewrite" /\ Kept(run[t]) /\ held[t][1] \in Modules =>
    Ok(manifest[run[t]].hashes, held[t][1], held[t][2])

InOrder == RecordedOk /\ DoneOk /\ EarlyOk /\ HeldOk

\* A step that keeps manifests and makes documents, records and completed runs
\* only where they are in order.
LEMMA InOrderKept ==
  ASSUME TypeOK, InOrder, UNCHANGED manifest, steady' \in SUBSET steady,
         \A r \in RunIds : Kept(r)' =>
           /\ \A m \in Modules : docs'[r][m] = docs[r][m] \/ Ok(manifest[r].hashes, m, docs'[r][m])
           /\ \A m \in recorded'[r] \ recorded[r] : Ok(manifest[r].hashes, m, docs'[r][m])
           /\ recorded'[r] \in SUBSET Modules
           /\ Done(r)' => Done(r) \/ \A m \in Modules : DocOk(r, m)',
         \A g \in Generators : at'[g] \in Early =>
           /\ at[g] \in Early /\ run'[g] = run[g] /\ plan'[g] = plan[g]
           /\ recorded[run[g]] \subseteq recorded'[run[g]]
           /\ at'[g] = "complete" => at[g] = "complete" \/ plan[g] \subseteq recorded'[run[g]]
           /\ source' = source \/ run[g] \notin steady',
         \A t \in Threads : at'[t] = "rewrite" =>
           /\ run'[t] = run[t]
           /\ \/ at[t] = "rewrite" /\ held'[t] = held[t]
              \/ Kept(run[t]) /\ held'[t][1] \in Modules =>
                   Ok(manifest[run[t]].hashes, held'[t][1], held'[t][2])
  PROVE  InOrder'
<1>1. \A r \in RunIds : Kept(r)' => Kept(r)
  BY DEF Kept
<1>2. \A r \in RunIds, m \in Modules : Kept(r)' /\ DocOk(r, m) => DocOk(r, m)'
  BY <1>1 DEF DocOk
<1>3. RecordedOk'
  <2> SUFFICES ASSUME NEW r \in RunIds, Kept(r)', NEW m \in recorded'[r] PROVE DocOk(r, m)'
    BY DEF RecordedOk
  <2>1. m \in Modules
    OBVIOUS
  <2>2. CASE m \in recorded[r]
    BY <1>1, <1>2, <2>1, <2>2 DEF InOrder, RecordedOk
  <2>3. CASE m \notin recorded[r]
    BY <2>3 DEF DocOk
  <2> QED
    BY <2>2, <2>3
<1>4. DoneOk'
  BY <1>1, <1>2 DEF InOrder, DoneOk
<1>5. EarlyOk'
  <2> SUFFICES ASSUME NEW g \in Generators, at'[g] \in Early
               PROVE  /\ Kept(run[g])' =>
                           /\ manifest'[run'[g]].hashes = source'
                           /\ \A m \in Modules \ plan'[g] : DocOk(run[g], m)'
                      /\ at'[g] = "complete" => plan'[g] \subseteq recorded'[run'[g]]
    BY DEF EarlyOk
  <2>1. at[g] \in Early /\ run'[g] = run[g] /\ plan'[g] = plan[g] /\ run[g] \in RunIds
    BY DEF Early, TypeOK, Threads
  <2>2. at'[g] = "complete" => plan'[g] \subseteq recorded'[run'[g]]
    BY <2>1 DEF InOrder, EarlyOk
  <2>3. ASSUME Kept(run[g])'
        PROVE  /\ manifest'[run'[g]].hashes = source'
               /\ \A m \in Modules \ plan'[g] : DocOk(run[g], m)'
    <3>1. PICK r \in RunIds : r = run[g]
      BY <2>1
    <3>2. Kept(r)' /\ Kept(r)
      BY <1>1, <2>1, <2>3, <3>1 DEF Kept
    <3>3. source' = source
      BY <2>1, <3>1, <3>2 DEF Kept
    <3>4. manifest[r].hashes = source /\ \A m \in Modules \ plan[g] : DocOk(r, m)
      BY <2>1, <3>1, <3>2 DEF InOrder, EarlyOk
    <3>5. \A m \in Modules \ plan[g] : DocOk(r, m)'
      BY <1>2, <3>2, <3>4
    <3> QED
      BY <2>1, <3>1, <3>3, <3>4, <3>5 DEF DocOk
  <2> QED
    BY <2>2, <2>3
<1>6. HeldOk'
  <2> SUFFICES ASSUME NEW t \in Threads, at'[t] = "rewrite", Kept(run[t])', held'[t][1] \in Modules
               PROVE  Ok(manifest'[run'[t]].hashes, held'[t][1], held'[t][2])
    BY DEF HeldOk
  <2>1. run'[t] = run[t]
    OBVIOUS
  <2>2. Kept(run[t])
    BY <2>1 DEF Kept
  <2> QED
    BY <2>1, <2>2 DEF InOrder, HeldOk
<1> QED
  BY <1>3, <1>4, <1>5, <1>6 DEF InOrder

\* What a generation starts from: the records and the documents outside of its
\* plan are in order, for the sources it has just hashed.
LEMMA StartIsOk ==
  ASSUME TypeOK, Mine, InOrder, NEW g \in Generators, Generate(g) \/ Resume(g)
  PROVE  \E r \in RunIds, selection \in Selections, from \in RunIds \cup {NoRun} :
         \E tasks, output, checkpoint :
           /\ Prepare(g, r, selection, from, tasks, output, checkpoint)
           /\ steady' \in {steady \ {r}, steady \cup {r}}
           /\ r \in steady' /\ selection = {} =>
                /\ \A m \in checkpoint : m \in Modules /\ Ok(source, m, output[m])
                /\ \A m \in Modules \ tasks : Ok(source, m, output[m])
<1>1. CASE Generate(g)
  <2>1. PICK r \in RunIds, selection \in Selections :
          /\ Prepare(g, r, selection, NoRun, PlanOf(selection), CopiedOutput(selection), {})
          /\ steady' = IF Copying(selection) /\ active \notin steady THEN steady \ {r} ELSE steady \cup {r}
    BY <1>1 DEF Generate
  <2>2. ASSUME r \in steady', selection = {}, NEW m \in Modules \ PlanOf(selection)
        PROVE  Ok(source, m, CopiedOutput(selection)[m])
    <3>1. /\ active # NoRun /\ Changed # {} /\ SameConfig({})
          /\ PlanOf(selection) = Affected(Changed)
      BY <2>2 DEF PlanOf
    <3>2. Copying(selection) /\ CopiedOutput(selection) = docs[active]
      BY <2>2, <3>1 DEF Copying, CopiedOutput
    <3>3. Kept(active) /\ Done(active) /\ active \in RunIds
      BY <2>1, <2>2, <3>1, <3>2 DEF Kept, Done, SameConfig, TypeOK
    <3>4. Ok(manifest[active].hashes, m, docs[active][m])
      BY <3>3 DEF InOrder, DoneOk, DocOk
    <3> QED
      BY <2>2, <3>1, <3>2, <3>4, UnaffectedIsOk
  <2>3. steady' \in {steady \ {r}, steady \cup {r}} /\ NoRun \in RunIds \cup {NoRun}
    BY <2>1
  <2>4. /\ Prepare(g, r, selection, NoRun, PlanOf(selection), CopiedOutput(selection), {})
        /\ steady' \in {steady \ {r}, steady \cup {r}}
        /\ r \in steady' /\ selection = {} =>
             /\ \A m \in {} : m \in Modules /\ Ok(source, m, CopiedOutput(selection)[m])
             /\ \A m \in Modules \ PlanOf(selection) : Ok(source, m, CopiedOutput(selection)[m])
    BY <2>1, <2>2, <2>3
  <2> WITNESS r \in RunIds, selection \in Selections, NoRun \in RunIds \cup {NoRun}
  <2> WITNESS PlanOf(selection), CopiedOutput(selection), {}
  <2> QED
    BY <2>4
<1>2. CASE Resume(g)
  <2>1. PICK r, from \in RunIds :
          /\ ValidResumeSource(from)
          /\ Prepare(g, r, manifest[from].selection, from,
                     IF manifest[from].selection = {} THEN Modules ELSE manifest[from].selection,
                     docs[from], recorded[from])
          /\ steady' = IF from \in steady THEN steady \cup {r} ELSE steady \ {r}
    BY <1>2 DEF Resume
  <2>2. manifest[from].selection \in Selections /\ recorded[from] \in SUBSET Modules
    BY DEF TypeOK, Manifests
  <2>3. ASSUME r \in steady', manifest[from].selection = {}, NEW m \in recorded[from]
        PROVE  Ok(source, m, docs[from][m])
    BY <2>1, <2>3 DEF Kept, InOrder, RecordedOk, DocOk, ValidResumeSource
  <2> QED
    BY <2>1, <2>2, <2>3
<1> QED
  BY <1>1, <1>2

LEMMA InOrderStart ==
  ASSUME TypeOK, Mine, InOrder, NEW g \in Generators, Generate(g) \/ Resume(g)
  PROVE  InOrder'
<1>1. PICK r \in RunIds, selection \in Selections, from \in RunIds \cup {NoRun} :
      \E tasks, output, checkpoint :
           /\ Prepare(g, r, selection, from, tasks, output, checkpoint)
           /\ steady' \in {steady \ {r}, steady \cup {r}}
           /\ r \in steady' /\ selection = {} =>
                /\ \A m \in checkpoint : m \in Modules /\ Ok(source, m, output[m])
                /\ \A m \in Modules \ tasks : Ok(source, m, output[m])
  BY StartIsOk
<1>2. PICK tasks, output, checkpoint :
           /\ Prepare(g, r, selection, from, tasks, output, checkpoint)
           /\ steady' \in {steady \ {r}, steady \cup {r}}
           /\ r \in steady' /\ selection = {} =>
                /\ \A m \in checkpoint : m \in Modules /\ Ok(source, m, output[m])
                /\ \A m \in Modules \ tasks : Ok(source, m, output[m])
  BY <1>1
<1>3. g \in Threads /\ status[r] = "none" /\ \A t \in Threads : run[t] # r
  BY <1>2 DEF Prepare, Unused, Owned, Threads
<1>4. /\ run'[g] = r /\ at'[g] = "insert" /\ plan'[g] = tasks
      /\ \A t \in Threads \ {g} : run'[t] = run[t] /\ at'[t] = at[t]
      /\ \A h \in Generators \ {g} : plan'[h] = plan[h]
      /\ UNCHANGED <<source, status, active, held>>
  BY <1>2, <1>3 DEF Prepare, TypeOK, sources, repo
<1>5. /\ manifest'[r].hashes = source /\ manifest'[r].selection = selection
      /\ docs'[r] = output /\ recorded'[r] = checkpoint
  BY <1>2 DEF Prepare, TypeOK
<1>6. \A s \in RunIds \ {r} :
        manifest'[s] = manifest[s] /\ docs'[s] = docs[s] /\ recorded'[s] = recorded[s]
  BY <1>2 DEF Prepare, TypeOK
<1>7. \A s \in RunIds \ {r} : Kept(s)' <=> Kept(s)
  BY <1>2, <1>6 DEF Kept
<1>8. \A s \in RunIds \ {r}, m \in Modules : DocOk(s, m)' <=> DocOk(s, m)
  BY <1>6 DEF DocOk
<1>9. ASSUME Kept(r)'
      PROVE  /\ \A m \in recorded'[r] : DocOk(r, m)'
             /\ \A m \in Modules \ tasks : DocOk(r, m)'
  BY <1>2, <1>5, <1>9 DEF Kept, DocOk
<1>10. ~Done(r)'
  <2>1. active # r
    BY <1>3, RunsAssumption DEF Mine, OthersEnded, Ended, Resumable
  <2> QED
    BY <1>3, <1>4, <2>1 DEF Done
<1>11. \A s \in RunIds \ {r} : Done(s)' => Done(s)
  BY <1>3, <1>4 DEF Done
<1>12. RecordedOk'
  BY <1>6, <1>7, <1>8, <1>9 DEF InOrder, RecordedOk, TypeOK
<1>13. DoneOk'
  BY <1>7, <1>8, <1>10, <1>11 DEF InOrder, DoneOk
<1>14. EarlyOk'
  <2> SUFFICES ASSUME NEW h \in Generators, at'[h] \in Early
               PROVE  /\ Kept(run[h])' =>
                           /\ manifest'[run'[h]].hashes = source'
                           /\ \A m \in Modules \ plan'[h] : DocOk(run[h], m)'
                      /\ at'[h] = "complete" => plan'[h] \subseteq recorded'[run'[h]]
    BY DEF EarlyOk
  <2>1. CASE h = g
    <3>1. Kept(run[h])' => Kept(r)'
      BY <1>4, <2>1 DEF Kept
    <3>2. \A m \in Modules : DocOk(run[h], m)' <=> DocOk(r, m)'
      BY <1>4, <2>1 DEF DocOk
    <3> QED
      BY <1>4, <1>5, <1>9, <2>1, <3>1, <3>2
  <2>2. CASE h # g
    <3>1. PICK s \in RunIds \ {r} : s = run[h]
      BY <1>3, <1>4, <2>2 DEF Early, TypeOK, Threads
    <3>2. at[h] \in Early /\ run'[h] = s /\ plan'[h] = plan[h] /\ at'[h] = at[h]
      BY <1>4, <2>2, <3>1 DEF Threads
    <3>3. /\ Kept(s) => manifest[s].hashes = source /\ \A m \in Modules \ plan[h] : DocOk(s, m)
          /\ at[h] = "complete" => plan[h] \subseteq recorded[s]
      BY <3>1, <3>2 DEF InOrder, EarlyOk
    <3>4. Kept(run[h])' => Kept(s)
      BY <1>7, <3>2 DEF Kept
    <3>5. \A m \in Modules : DocOk(run[h], m)' <=> DocOk(s, m)
      BY <1>8, <3>2 DEF DocOk
    <3> QED
      BY <1>4, <1>6, <3>2, <3>3, <3>4, <3>5
  <2> QED
    BY <2>1, <2>2
<1>15. HeldOk'
  <2> SUFFICES ASSUME NEW t \in Threads, at'[t] = "rewrite", Kept(run[t])', held'[t][1] \in Modules
               PROVE  Ok(manifest'[run'[t]].hashes, held'[t][1], held'[t][2])
    BY DEF HeldOk
  <2>1. t # g /\ run'[t] = run[t] /\ at[t] = "rewrite" /\ run[t] \in RunIds \ {r}
    BY <1>3, <1>4 DEF TypeOK
  <2>2. Kept(run[t])
    BY <1>2, <1>6, <2>1 DEF Kept
  <2> QED
    BY <1>4, <1>6, <2>1, <2>2 DEF InOrder, HeldOk
<1> QED
  BY <1>12, <1>13, <1>14, <1>15 DEF InOrder

\* A document goes to disk below children that are in order.
LEMMA InOrderWrite ==
  ASSUME TypeOK, Mine, InOrder, NEW g \in Generators, WriteDocument(g)
  PROVE  InOrder'
<1>1. g \in Threads /\ at[g] = "pipeline" /\ run[g] \in RunIds
  BY DEF WriteDocument, TypeOK, Threads
<1>2. PICK r \in RunIds : r = run[g]
  BY <1>1
<1>3. PICK m \in plan[g] \ recorded[r] :
        /\ Children(m) \cap plan[g] \subseteq recorded[r]
        /\ docs' = [docs EXCEPT ![r][m] = Reflected(m, docs[r])]
        /\ recorded' = [recorded EXCEPT ![r] = @ \cup {m}]
  BY <1>2 DEF WriteDocument
<1>4. m \in Modules
  BY DEF TypeOK
<1>5. UNCHANGED <<manifest, steady, source, status, active, locals>>
  BY DEF WriteDocument, rows, sources, repo
<1>6. Kept(r) => Ok(manifest[r].hashes, m, Reflected(m, docs[r]))
  <2> SUFFICES ASSUME Kept(r) PROVE Ok(source, m, Reflected(m, docs[r]))
    BY <1>1, <1>2 DEF InOrder, EarlyOk, Early
  <2>1. manifest[r].hashes = source /\ \A c \in Modules \ plan[g] : DocOk(r, c)
    BY <1>1, <1>2 DEF InOrder, EarlyOk, Early
  <2>2. \A c \in recorded[r] : DocOk(r, c)
    BY DEF InOrder, RecordedOk
  <2>3. \A c \in Children(m) : Ok(source, c, docs[r][c])
    BY <1>3, <2>1, <2>2 DEF Children, DocOk
  <2> QED
    BY <1>4, <2>3, ReflectedIsOk
<1>7. \A s \in RunIds, n \in Modules :
        docs'[s][n] = IF s = r /\ n = m THEN Reflected(m, docs[r]) ELSE docs[s][n]
  BY <1>3, <1>4 DEF TypeOK
<1>8. \A s \in RunIds : recorded'[s] = IF s = r THEN recorded[r] \cup {m} ELSE recorded[s]
  BY <1>3 DEF TypeOK
<1>9. \A s \in RunIds : (Kept(s)' <=> Kept(s)) /\ (Done(s)' <=> Done(s))
  BY <1>5 DEF Kept, Done, locals
<1>10. \A s \in RunIds : Kept(s)' =>
         /\ \A n \in Modules : docs'[s][n] = docs[s][n] \/ Ok(manifest[s].hashes, n, docs'[s][n])
         /\ \A n \in recorded'[s] \ recorded[s] : Ok(manifest[s].hashes, n, docs'[s][n])
         /\ recorded'[s] \in SUBSET Modules
         /\ Done(s)' => Done(s) \/ \A n \in Modules : DocOk(s, n)'
  BY <1>4, <1>6, <1>7, <1>8, <1>9 DEF TypeOK
<1>11. \A h \in Generators : at[h] \in Early => recorded[run[h]] \subseteq recorded'[run[h]]
  BY <1>8 DEF TypeOK, Early, Threads
<1> QED
  BY <1>5, <1>10, <1>11, InOrderKept DEF locals

\* The completed run has every document: those of its plan are recorded.
LEMMA InOrderComplete ==
  ASSUME TypeOK, Mine, InOrder, NEW g \in Generators, CompleteRun(g)
  PROVE  InOrder'
<1>1. g \in Threads /\ at[g] = "complete" /\ run[g] \in RunIds
  BY DEF CompleteRun, Step, TypeOK, Threads
<1>2. PICK r \in RunIds : r = run[g]
  BY <1>1
<1>3. /\ at' = [at EXCEPT ![g] = "publish"] /\ status' = [status EXCEPT ![r] = "completed"]
      /\ UNCHANGED <<manifest, docs, recorded, steady, source, active, run, plan, held>>
  BY <1>2 DEF CompleteRun, Step, SetRun, files, sources, repo
<1>4. Kept(r) => \A m \in Modules : DocOk(r, m)
  BY <1>1, <1>2 DEF InOrder, EarlyOk, RecordedOk, Early
<1>5. \A s \in RunIds : Kept(s)' <=> Kept(s)
  BY <1>3 DEF Kept
<1>6. \A s \in RunIds, m \in Modules : DocOk(s, m)' <=> DocOk(s, m)
  BY <1>3 DEF DocOk
<1>7. \A t \in Threads : at'[t] = at[t] \/ (t = g /\ at'[t] = "publish")
  BY <1>3 DEF TypeOK
<1>8. \A s \in RunIds \ {r} : Done(s)' => Done(s)
  BY <1>3, <1>7 DEF Done, TypeOK
<1>9. \A s \in RunIds : Kept(s)' /\ Done(s)' => Done(s) \/ \A n \in Modules : DocOk(s, n)'
  BY <1>4, <1>5, <1>6, <1>8
<1>10. \A h \in Generators : at'[h] \in Early => at'[h] = at[h]
  BY <1>7 DEF Early, Threads
<1>11. \A t \in Threads : at'[t] = "rewrite" => at[t] = "rewrite"
  BY <1>7
<1> QED
  BY <1>3, <1>9, <1>10, <1>11, InOrderKept DEF TypeOK

\* The other steps of a generation.
LEMMA InOrderGenerator ==
  ASSUME TypeOK, Mine, InOrder, NEW g \in Generators, GeneratorStep(g)
  PROVE  InOrder'
<1> DEFINE Rest == \/ InsertRun(g) \/ MarkGenerating(g) \/ PlanTasks(g) \/ PipelineReturns(g)
                   \/ PipelineFails(g) \/ PublishRun(g) \/ FailRun(g) \/ RestoreStatus(g)
<1>1. CASE Rest
  <2>1. g \in Threads /\ at[g] # "idle" /\ run[g] \in RunIds
    BY <1>1 DEF InsertRun, MarkGenerating, PlanTasks, PipelineReturns, PipelineFails, PublishRun, FailRun,
           RestoreStatus, Step, TypeOK, Threads
  <2>2. UNCHANGED <<manifest, docs, recorded, steady, source, held>>
    BY <1>1 DEF InsertRun, MarkGenerating, PlanTasks, PipelineReturns, PipelineFails, PublishRun, FailRun,
           RestoreStatus, rows, files, sources, locals
  <2>3. \A r \in RunIds : status'[r] = "completed" => status[r] = "completed"
    BY <1>1 DEF InsertRun, MarkGenerating, PlanTasks, PipelineReturns, PipelineFails, PublishRun, FailRun,
           RestoreStatus, SetRun, rows, TypeOK
  <2>4. active' = active \/ (active' = run[g] /\ status[run[g]] = "completed")
    <3>1. PublishRun(g) => status[run[g]] = "completed"
      BY <2>1, RunsAssumption DEF PublishRun, Step, Mine, GeneratorsOwn, StatusAt
    <3> QED
      BY <1>1, <3>1 DEF InsertRun, MarkGenerating, PlanTasks, PipelineReturns, PipelineFails, PublishRun,
             FailRun, RestoreStatus, repo
  <2>5. \A t \in Threads \ {g} : at'[t] = at[t] /\ run'[t] = run[t] /\ (t \in Generators => plan'[t] = plan[t])
    BY <1>1, <2>1 DEF InsertRun, MarkGenerating, PlanTasks, PipelineReturns, PipelineFails, PublishRun,
           FailRun, RestoreStatus, ReleaseGenerator, Release, Step, locals, TypeOK
  <2>6. /\ at'[g] \in Early => at[g] \in Early /\ run'[g] = run[g] /\ plan'[g] = plan[g]
        /\ at'[g] = "complete" => at[g] = "complete" \/ plan[g] \subseteq recorded[run[g]]
        /\ at'[g] # "rewrite"
        /\ at'[g] \in {"graph", "wiki", "index"} => run'[g] = run[g] /\ status[run[g]] = "completed"
    <3>1. CASE InsertRun(g) \/ MarkGenerating(g)
      BY <2>1, <3>1 DEF InsertRun, MarkGenerating, Step, Early, TypeOK
    <3>2. CASE PlanTasks(g) \/ PipelineReturns(g)
      BY <2>1, <3>2 DEF PlanTasks, PipelineReturns, Step, Early, locals, TypeOK
    <3>3. CASE PipelineFails(g) \/ FailRun(g) \/ RestoreStatus(g)
      BY <2>1, <3>3 DEF PipelineFails, FailRun, RestoreStatus, ReleaseGenerator, Release, Step, Early, TypeOK
    <3>4. CASE PublishRun(g)
      BY <2>1, <3>4, RunsAssumption DEF PublishRun, Step, Early, TypeOK, Mine, GeneratorsOwn, StatusAt
    <3> QED
      BY <1>1, <3>1, <3>2, <3>3, <3>4
  <2>7. \A r \in RunIds : Kept(r)' <=> Kept(r)
    BY <2>2 DEF Kept
  <2>8. \A r \in RunIds : Done(r)' => Done(r)
    BY <2>3, <2>4, <2>5, <2>6 DEF Done, Threads
  <2>9. \A h \in Generators : at'[h] \in Early =>
          /\ at[h] \in Early /\ run'[h] = run[h] /\ plan'[h] = plan[h]
          /\ at'[h] = "complete" => at[h] = "complete" \/ plan[h] \subseteq recorded'[run[h]]
    BY <2>2, <2>5, <2>6 DEF Threads
  <2>10. \A t \in Threads : at'[t] = "rewrite" => run'[t] = run[t] /\ at[t] = "rewrite"
    BY <2>5, <2>6
  <2> HIDE DEF Rest
  <2> QED
    BY <2>2, <2>8, <2>9, <2>10, InOrderKept DEF TypeOK
<1> QED
  BY <1>1, InOrderWrite, InOrderComplete DEF GeneratorStep

\* Ingestion reads, truncates and writes back what is in order.
LEMMA InOrderIngest ==
  ASSUME TypeOK, Mine, InOrder, NEW t \in Threads, IngestStep(t)
  PROVE  InOrder'
<1>1. at[t] # "idle" /\ run[t] \in RunIds
  BY DEF IngestStep, IngestGraph, RewriteDocument, IngestWiki, IndexRepository, IngestFails, Step, TypeOK
<1>2. PICK r \in RunIds : r = run[t]
  BY <1>1
<1>3. UNCHANGED <<manifest, recorded, steady, source, status, active>>
  BY DEF IngestStep, IngestGraph, RewriteDocument, IngestWiki, IndexRepository, IngestFails, rows, files,
     sources, repo
<1>4. \A u \in Threads \ {t} :
        at'[u] = at[u] /\ run'[u] = run[u] /\ held'[u] = held[u] /\ (u \in Generators => plan'[u] = plan[u])
  BY <1>1 DEF IngestStep, IngestGraph, RewriteDocument, IngestWiki, IndexRepository, IngestFails,
     ReleaseGenerator, Release, Step, TypeOK
<1>5. /\ at'[t] \notin Early
      /\ at'[t] \in {"graph", "wiki", "rewrite", "index"} =>
           at[t] \in {"graph", "wiki", "rewrite", "index"} /\ run'[t] = run[t]
      /\ at'[t] = "rewrite" => RewriteDocument(t)
  BY <1>1 DEF IngestStep, IngestGraph, RewriteDocument, IngestWiki, IndexRepository, IngestFails,
     ReleaseGenerator, Release, Step, Early, TypeOK
<1>6. \A s \in RunIds : (Kept(s)' <=> Kept(s)) /\ (Done(s)' => Done(s))
  BY <1>3, <1>4, <1>5 DEF Kept, Done
<1>7. \A h \in Generators : at'[h] \in Early => at'[h] = at[h] /\ run'[h] = run[h] /\ plan'[h] = plan[h]
  BY <1>4, <1>5 DEF Threads
<1>8. \A s \in RunIds : Kept(s) =>
        \A m \in Modules : docs'[s][m] = docs[s][m] \/ Ok(manifest[s].hashes, m, docs'[s][m])
  <2>1. CASE RewriteDocument(t)
    <3>1. PICK m \in Modules : docs' = [docs EXCEPT ![r][m] = Truncated]
      BY <1>2, <2>1 DEF RewriteDocument
    <3> QED
      BY <3>1 DEF TypeOK, Ok, Truncated
  <2>2. CASE IngestWiki(t)
    <3>1. docs' = [docs EXCEPT ![r][held[t][1]] = held[t][2]] /\ at[t] = "rewrite"
      BY <1>2, <2>2 DEF IngestWiki, Step
    <3>2. \A s \in RunIds, m \in Modules :
            docs'[s][m] = IF s = r /\ m = held[t][1] THEN held[t][2] ELSE docs[s][m]
      BY <3>1 DEF TypeOK
    <3>3. Kept(r) /\ held[t][1] \in Modules => Ok(manifest[r].hashes, held[t][1], held[t][2])
      BY <1>2, <3>1 DEF InOrder, HeldOk
    <3> QED
      BY <3>2, <3>3
  <2>3. CASE IngestGraph(t) \/ IndexRepository(t) \/ IngestFails(t)
    BY <2>3 DEF IngestGraph, IndexRepository, IngestFails, files
  <2> QED
    BY <2>1, <2>2, <2>3 DEF IngestStep
<1>9. ASSUME at'[t] = "rewrite", Kept(r), held'[t][1] \in Modules
      PROVE  Ok(manifest[r].hashes, held'[t][1], held'[t][2])
  <2>1. PICK m \in Modules : held'[t] = <<m, docs[r][m]>> /\ at[t] = "wiki"
    BY <1>2, <1>5, <1>9 DEF RewriteDocument, Step, TypeOK
  <2>2. Done(r)
    BY <1>2, <2>1 DEF Done
  <2> QED
    BY <1>9, <2>1, <2>2 DEF InOrder, DoneOk, DocOk
<1>10. \A u \in Threads : at'[u] = "rewrite" =>
         /\ run'[u] = run[u]
         /\ \/ at[u] = "rewrite" /\ held'[u] = held[u]
            \/ Kept(run[u]) /\ held'[u][1] \in Modules =>
                 Ok(manifest[run[u]].hashes, held'[u][1], held'[u][2])
  BY <1>2, <1>4, <1>5, <1>9
<1> QED
  BY <1>3, <1>6, <1>7, <1>8, <1>10, InOrderKept DEF TypeOK

LEMMA InOrderOutside ==
  ASSUME TypeOK, Mine, InOrder, (\E a \in Activators : ActivateRun(a)) \/ Edit \/ Restart \/ OtherProcess
  PROVE  InOrder'
<1>1. ASSUME NEW a \in Activators, ActivateRun(a) PROVE InOrder'
  <2>1. a \in Threads /\ a \notin Generators
    BY RunsAssumption DEF Threads
  <2>2. PICK r \in RunIds :
          /\ status[r] = "completed" /\ active' = r
          /\ run' = [run EXCEPT ![a] = r] /\ at' = [at EXCEPT ![a] = "graph"]
    BY <1>1 DEF ActivateRun
  <2>3. UNCHANGED <<manifest, docs, recorded, steady, source, status, held, plan>>
    BY <1>1 DEF ActivateRun, rows, files, sources
  <2>4. /\ run'[a] = r /\ at'[a] = "graph"
        /\ \A u \in Threads \ {a} : run'[u] = run[u] /\ at'[u] = at[u]
    BY <2>1, <2>2 DEF TypeOK
  <2>5. \A s \in RunIds : (Kept(s)' <=> Kept(s)) /\ (Done(s)' => Done(s))
    BY <2>2, <2>3, <2>4 DEF Kept, Done
  <2> QED
    BY <2>1, <2>3, <2>4, <2>5, InOrderKept DEF TypeOK, Threads
<1>2. CASE Edit
  <2>1. /\ UNCHANGED <<manifest, docs, recorded, status, active, at, run, plan, held>>
        /\ steady' = {r \in steady : status[r] = "completed"}
    BY <1>2 DEF Edit, rows, files, repo, locals
  <2>2. \A g \in Generators : at[g] \in Early => run[g] \notin steady'
    BY <2>1, RunsAssumption DEF Mine, GeneratorsOwn, StatusAt, Early, TypeOK, Threads
  <2>3. \A s \in RunIds : Done(s)' => Done(s)
    BY <2>1 DEF Done
  <2> QED
    BY <2>1, <2>2, <2>3, InOrderKept DEF TypeOK
<1>3. CASE Restart
  <2>1. /\ UNCHANGED <<manifest, docs, recorded, steady, source, active>>
        /\ at' = [t \in Threads |-> "idle"]
        /\ \A r \in RunIds : status'[r] = "completed" => status[r] = "completed"
    BY <1>3 DEF Restart, MarkInterrupted, rows, files, sources, repo
  <2>2. \A s \in RunIds : Done(s)' => Done(s)
    BY <2>1 DEF Done
  <2> QED
    BY <2>1, <2>2, InOrderKept DEF TypeOK, Early, Threads
<1>4. CASE OtherProcess
  <2>1. /\ UNCHANGED <<manifest, docs, recorded, steady, source, active, at, run, plan, held>>
        /\ \A r \in RunIds : status'[r] = "completed" => status[r] = "completed"
    BY <1>4 DEF OtherProcess, MarkInterrupted, rows, files, sources, repo, locals
  <2>2. \A s \in RunIds : Done(s)' => Done(s)
    BY <2>1 DEF Done
  <2> QED
    BY <2>1, <2>2, InOrderKept DEF TypeOK
<1> QED
  BY <1>1, <1>2, <1>3, <1>4

\* Every document of a completed snapshot reflects the sources the run was
\* hashed with, for every tree of modules and any number of runs, edits,
\* restarts, failed ingestions, concurrent generations and activations.
THEOREM SnapshotsAreCurrent == Spec => []SnapshotIsCurrent
<1>1. Init => InOrder
  BY DEF Init, InOrder, RecordedOk, DoneOk, EarlyOk, HeldOk, Kept, Early, Threads
<1>2. TypeOK /\ Mine /\ InOrder /\ [Next]_vars => InOrder'
  <2> SUFFICES ASSUME TypeOK, Mine, InOrder, [Next]_vars PROVE InOrder'
    OBVIOUS
  <2>1. CASE UNCHANGED vars
    <3>1. \A s \in RunIds : Done(s)' => Done(s)
      BY <2>1 DEF Done, vars, rows, repo, locals
    <3> QED
      BY <2>1, <3>1, InOrderKept DEF vars, sources, rows, files, locals, TypeOK
  <2>2. ASSUME NEW g \in Generators, Reuse(g) PROVE InOrder'
    <3>1. \A s \in RunIds : Done(s)' => Done(s)
      BY <2>2 DEF Done, Reuse, rows, locals
    <3> QED
      BY <2>2, <3>1, InOrderKept DEF Reuse, sources, rows, files, locals, TypeOK
  <2> QED
    BY <2>1, <2>2, InOrderStart, InOrderGenerator, InOrderIngest, InOrderOutside DEF Next, IngestStep
<1>3. TypeOK /\ InOrder => SnapshotIsCurrent
  <2> SUFFICES ASSUME TypeOK, InOrder, NEW r \in RunIds, r \in steady, status[r] = "completed",
                      manifest[r].selection = {}, Whole(r), NEW m \in Modules
               PROVE  docs[r][m] = {<<m, manifest[r].hashes[m]>>} \cup UNION {docs[r][c] : c \in Children(m)}
    BY DEF SnapshotIsCurrent, TypeOK
  <2>1. \A n \in Modules : docs[r][n] = Faithful(manifest[r].hashes, n)
    BY DEF InOrder, DoneOk, Kept, Done, DocOk, Ok, Whole
  <2>2. {docs[r][c] : c \in Children(m)} = {Faithful(manifest[r].hashes, c) : c \in Children(m)}
    BY <2>1 DEF Children
  <2> QED
    BY <2>1, <2>2, FaithfulSplits
<1> QED
  BY Typed, MineAlways, <1>1, <1>2, <1>3, PTL DEF Spec

-----------------------------------------------------------------------------
(***************************************************************************)
(* Continuations.                                                          *)
(***************************************************************************)

Latest == created[Len(created)]
From(r) == manifest[r].from

\* The run a continuation comes from has a row and is no longer the latest; the
\* one of a continuation that is about to begin is the latest and has no other.
Continued(g) ==
  /\ created # <<>> => status[Latest] # "none"
  /\ \A r \in RunIds : status[r] # "none" /\ From(r) # NoRun =>
       /\ From(r) \in RunIds /\ status[From(r)] # "none"
       /\ created # <<>> /\ From(r) # Latest
  /\ at[g] = "insert" /\ From(run[g]) # NoRun =>
       /\ created # <<>> /\ From(run[g]) = Latest
  /\ ContinuedOnce

\* While generations do not overlap, a checkpoint is continued at most once.
THEOREM ContinuationsAreUnique ==
  ASSUME NEW g \in Generators, Generators = {g}
  PROVE  Spec => []ContinuedOnce
<1>1. Init => Continued(g)
  BY DEF Init, Continued, ContinuedOnce, Threads
<1>2. TypeOK /\ Mine /\ Continued(g) /\ [Next]_vars => Continued(g)'
  <2> SUFFICES ASSUME TypeOK, Mine, Continued(g), [Next]_vars PROVE Continued(g)'
    OBVIOUS
  <2>0. g \in Threads
    BY DEF Threads
  <2>1. ASSUME UNCHANGED <<created, manifest>>,
               \A r \in RunIds : status'[r] = "none" <=> status[r] = "none",
               at'[g] = "insert" => at[g] = "insert" /\ run'[g] = run[g]
        PROVE  Continued(g)'
    <3>1. created # <<>> => Latest \in RunIds
      BY DEF Latest, TypeOK
    <3> QED
      BY <2>1, <3>1 DEF Continued, ContinuedOnce, Latest, From
  <2>2. CASE UNCHANGED vars
    BY <2>1, <2>2 DEF vars, rows, locals
  <2>3. CASE Reuse(g)
    BY <2>1, <2>3 DEF Reuse, rows, locals
  <2>4. CASE Generate(g) \/ Resume(g)
    <3>1. PICK r \in RunIds, from \in RunIds \cup {NoRun}, selection \in Selections :
            /\ r \in Unused
            /\ at' = [at EXCEPT ![g] = "insert"] /\ run' = [run EXCEPT ![g] = r]
            /\ manifest' =
                 [manifest EXCEPT ![r] = [hashes |-> source, selection |-> selection, from |-> from]]
            /\ UNCHANGED <<created, status>>
            /\ from # NoRun => created # <<>> /\ from = Latest
      <4>1. CASE Generate(g)
        BY <4>1 DEF Generate, Prepare
      <4>2. CASE Resume(g)
        BY <4>2 DEF Resume, Prepare, ValidResumeSource, Latest, TypeOK, Manifests
      <4> QED
        BY <2>4, <4>1, <4>2
    <3>2. status[r] = "none" /\ From(r)' = from
      BY <3>1 DEF Unused, From, TypeOK
    <3>3. \A s \in RunIds \ {r} : From(s)' = From(s)
      BY <3>1 DEF From, TypeOK
    <3>4. Latest' = Latest
      BY <3>1 DEF Latest
    <3>5. at'[g] = "insert" /\ run'[g] = r
      BY <2>0, <3>1 DEF TypeOK
    <3>6. manifest'[run'[g]].from = from
      BY <3>2, <3>5 DEF From
    <3>7. ContinuedOnce'
      BY <3>1, <3>2, <3>3 DEF Continued, ContinuedOnce, From
    <3> QED
      BY <3>1, <3>2, <3>3, <3>4, <3>6, <3>7 DEF Continued, From
  <2>5. CASE InsertRun(g)
    <3>1. PICK r \in RunIds : r = run[g]
      BY <2>0, <2>5, RunsAssumption DEF InsertRun, Step, TypeOK
    <3>2. status[r] = "none" /\ at[g] = "insert"
      BY <2>5, <3>1, RunsAssumption DEF InsertRun, Step, Mine, GeneratorsOwn, StatusAt
    <3>3. created' = Append(created, r) /\ status' = [status EXCEPT ![r] = "running"] /\ UNCHANGED manifest
      BY <2>5, <3>1 DEF InsertRun
    <3>4. created' # <<>> /\ Latest' = r
      BY <3>3 DEF Latest, TypeOK
    <3>5. status'[r] # "none" /\ \A s \in RunIds \ {r} : status'[s] = status[s]
      BY <3>3 DEF TypeOK
    <3>6. \A s \in RunIds : From(s)' = From(s)
      BY <3>3 DEF From
    <3>7. created # <<>> => Latest \in RunIds \ {r}
      BY <3>2 DEF Latest, TypeOK, Continued
    <3>8. From(r) # NoRun => created # <<>> /\ From(r) = Latest
      BY <3>1, <3>2 DEF Continued
    <3>9. \A s \in RunIds : status'[s] # "none" /\ From(s) # NoRun =>
            From(s) \in RunIds \ {r} /\ status[From(s)] # "none"
      BY <3>2, <3>5, <3>7, <3>8 DEF Continued
    <3>10. \A s \in RunIds \ {r} : status[s] # "none" /\ From(s) # NoRun => From(s) # From(r)
      BY <3>8 DEF Continued
    <3>11. ContinuedOnce'
      <4> SUFFICES ASSUME NEW s \in RunIds, NEW q \in RunIds, status'[s] # "none", status'[q] # "none",
                          From(s) # NoRun, From(s) = From(q)
                   PROVE  s = q
        BY <3>6 DEF ContinuedOnce, From
      <4> QED
        BY <3>5, <3>10 DEF Continued, ContinuedOnce, From
    <3>12. at'[g] # "insert"
      BY <2>0, <2>5 DEF InsertRun, Step, TypeOK
    <3>13. \A s \in RunIds : status'[s] # "none" /\ From(s)' # NoRun =>
             /\ From(s)' \in RunIds /\ status'[From(s)'] # "none"
             /\ created' # <<>> /\ From(s)' # Latest'
      BY <3>4, <3>5, <3>6, <3>9
    <3>14. status'[Latest'] # "none"
      BY <3>4, <3>5
    <3> QED
      BY <3>11, <3>12, <3>13, <3>14 DEF Continued
  <2>6. CASE GeneratorStep(g) /\ ~InsertRun(g)
    <3>1. UNCHANGED <<created, manifest>> /\ (at'[g] = "insert" => at[g] = "insert" /\ run'[g] = run[g])
      BY <2>0, <2>6 DEF GeneratorStep, MarkGenerating, PlanTasks, WriteDocument, PipelineReturns,
         PipelineFails, CompleteRun, PublishRun, FailRun, RestoreStatus, ReleaseGenerator, Release, Step,
         rows, locals, TypeOK
    <3>2. status' = status \/ (status[run[g]] # "none" /\
            \E s \in Ended : status' = [status EXCEPT ![run[g]] = s])
      <4>1. CASE CompleteRun(g) \/ FailRun(g)
        <5>1. run[g] # NoRun /\ status[run[g]] # "none"
          BY <2>0, <4>1 DEF CompleteRun, FailRun, Step, Mine, GeneratorsOwn, StatusAt, TypeOK
        <5> QED
          BY <4>1, <5>1 DEF CompleteRun, FailRun, SetRun, Ended, Resumable
      <4>2. CASE ~(CompleteRun(g) \/ FailRun(g))
        BY <2>6, <4>2 DEF GeneratorStep, MarkGenerating, PlanTasks, WriteDocument, PipelineReturns,
           PipelineFails, PublishRun, RestoreStatus, rows
      <4> QED
        BY <4>1, <4>2
    <3>3. \A r \in RunIds : status'[r] = "none" <=> status[r] = "none"
      BY <3>2 DEF TypeOK, Ended, Resumable
    <3> QED
      BY <2>1, <3>1, <3>3
  <2>7. ASSUME NEW t \in Threads, IngestStep(t) PROVE Continued(g)'
    <3>1. UNCHANGED rows /\ (at'[g] = "insert" => at[g] = "insert" /\ run'[g] = run[g])
      BY <2>0, <2>7 DEF IngestStep, IngestGraph, RewriteDocument, IngestWiki, IndexRepository, IngestFails,
         ReleaseGenerator, Release, Step, TypeOK
    <3> QED
      BY <2>1, <3>1 DEF rows
  <2>8. ASSUME NEW a \in Activators, ActivateRun(a) PROVE Continued(g)'
    <3>1. UNCHANGED rows /\ (at'[g] = "insert" => at[g] = "insert" /\ run'[g] = run[g])
      BY <2>0, <2>8, RunsAssumption DEF ActivateRun, TypeOK, Threads
    <3> QED
      BY <2>1, <3>1 DEF rows
  <2>9. CASE Edit
    BY <2>1, <2>9 DEF Edit, rows, locals
  <2>10. CASE Restart \/ OtherProcess
    <3>1. UNCHANGED <<created, manifest>> /\ (at'[g] = "insert" => at[g] = "insert" /\ run'[g] = run[g])
      BY <2>0, <2>10 DEF Restart, OtherProcess, locals
    <3>2. \A r \in RunIds : status'[r] = "none" <=> status[r] = "none"
      BY <2>10 DEF Restart, OtherProcess, MarkInterrupted
    <3> QED
      BY <2>1, <3>1, <3>2
  <2> QED
    BY <2>2, <2>3, <2>4, <2>5, <2>6, <2>7, <2>8, <2>9, <2>10 DEF Next, IngestStep
<1>3. Continued(g) => ContinuedOnce
  BY DEF Continued
<1> QED
  BY Typed, MineAlways, <1>1, <1>2, <1>3, PTL DEF Spec

=============================================================================
