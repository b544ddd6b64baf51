-------------------------------- MODULE Jobs --------------------------------
(***************************************************************************)
(* The persistent job queue: PersistentJobManager of clangwiki/jobs.py,    *)
(* as the request handlers of clangwiki/api.py call it.                    *)
(*                                                                         *)
(* A job is a row of the table jobs, a cancel event in memory and an entry *)
(* of one of two executors with one worker thread each.  Request threads   *)
(* insert, cancel, retry and resume jobs; every database statement is a    *)
(* commit of its own, so they interleave with the workers between any two  *)
(* of them.  The service may be killed, and a command-line process may     *)
(* construct the same manager over the same database.                      *)
(***************************************************************************)
EXTENDS Naturals, Sequences, FiniteSets

CONSTANTS
  Jobs,         \* the job ids a behaviour may use (bound)
  Scopes,       \* the (scope_type, scope_id) pairs
  Kinds,        \* the registered job kinds
  Submitters,   \* request threads that start, retry and resume jobs
  Cancellers,   \* request threads that cancel jobs
  MaxEvents,    \* bound: events of a job before no more is emitted or cancelled
  MaxRestarts,  \* bound: how often the service is killed and started again
  MaxOthers,    \* bound: how many other processes build the services
  MaxLockouts   \* bound: how often a worker's statement times out on the database

ModelKinds == {"generate", "collection_generate"}
CpuKinds == {"index", "graph"}
Lanes == {"model", "cpu"}
NoJob == "no job"

ASSUME JobsAssumption ==
  /\ NoJob \notin Jobs
  /\ Scopes # {}
  /\ Kinds # {}
  /\ Kinds \subseteq ModelKinds \cup CpuKinds
  /\ Submitters \cap Cancellers = {}
  /\ {MaxEvents, MaxRestarts, MaxOthers, MaxLockouts} \subseteq Nat

VARIABLES
  status,       \* jobs.status, "none" before the row exists
  kind, scope,  \* the other columns the code reads back
  log,          \* job_events of the job: statuses, "progress" and "cancel"
  cancelEvents, \* the jobs with an entry in the dictionary of that name
  isSet,        \* the jobs whose event is set
  inTime,       \* those whose event was set before their outcome was read (history)
  queue,        \* lane -> the executor's pending jobs
  work,         \* lane -> the job its worker runs
  at,           \* lane -> where the worker is in _run
  ending,       \* lane -> the outcome the worker has read and is writing
  req,          \* request thread -> what it is doing
  restarts, others, lockouts

rows == <<status, kind, scope>>
events == <<cancelEvents, isSet, inTime>>
worker == <<work, at, ending>>
faults == <<restarts, others, lockouts>>
vars == <<rows, log, events, queue, worker, req, faults>>

Active == {"queued", "running"}
Retryable == {"failed", "cancelled", "interrupted"}
Outcomes == {"completed", "failed", "cancelled"}
Ended == Outcomes \cup {"interrupted"}
Statuses == {"none"} \cup Active \cup Ended

\* The points of _run.  "finishing" and "failing" are before the UPDATE of the
\* outcome on the normal and on the exception path, "finished" and "failed"
\* before the INSERT of its status event.
Before == {"start", "started", "handler"}
After == {"finishing", "finished", "failing", "failed", "report", "pop"}
Points == {"idle"} \cup Before \cup After

Threads == Submitters \cup Cancellers
Idle == [at |-> "idle"]
Requests ==
  {Idle}
    \cup [at : {"insert"}, kind : Kinds, scope : Scopes]
    \cup [at : {"register", "submit", "set", "emit"}, job : Jobs]

TypeOK ==
  /\ status \in [Jobs -> Statuses]
  /\ kind \in [Jobs -> Kinds]
  /\ scope \in [Jobs -> Scopes]
  /\ log \in [Jobs -> Seq(Statuses \cup {"progress", "cancel"})]
  /\ cancelEvents \in SUBSET Jobs
  /\ isSet \in SUBSET Jobs
  /\ inTime \in SUBSET isSet
  /\ queue \in [Lanes -> Seq(Jobs)]
  /\ work \in [Lanes -> Jobs \cup {NoJob}]
  /\ at \in [Lanes -> Points]
  /\ ending \in [Lanes -> Outcomes]
  /\ \A l \in Lanes : at[l] = "idle" <=> work[l] = NoJob
  /\ req \in [Threads -> Requests]
  /\ {restarts, others, lockouts} \subseteq Nat

Init ==
  /\ status = [j \in Jobs |-> "none"]
  /\ kind = [j \in Jobs |-> CHOOSE k \in Kinds : TRUE]
  /\ scope = [j \in Jobs |-> CHOOSE s \in Scopes : TRUE]
  /\ log = [j \in Jobs |-> <<>>]
  /\ cancelEvents = {}
  /\ isSet = {}
  /\ inTime = {}
  /\ queue = [l \in Lanes |-> <<>>]
  /\ work = [l \in Lanes |-> NoJob]
  /\ at = [l \in Lanes |-> "idle"]
  /\ ending = [l \in Lanes |-> "completed"]
  /\ req = [c \in Threads |-> Idle]
  /\ restarts = 0
  /\ others = 0
  /\ lockouts = 0

-----------------------------------------------------------------------------
(***************************************************************************)
(* start, and retry and resume, which end in it.                           *)
(***************************************************************************)

Go(c, r) == req' = [req EXCEPT ![c] = r]

Lane(k) == IF k \in ModelKinds THEN "model" ELSE "cpu"

\* Mutant: a queued job does not count.
BusyWhileRunning(s) == \E j \in Jobs : scope[j] = s /\ status[j] = "running"

Busy(s) == \E j \in Jobs : scope[j] = s /\ status[j] \in Active

\* The SELECT that refuses a second job for the scope.
Check(c, k, s) ==
  /\ req[c] = Idle
  /\ ~Busy(s)
  /\ Go(c, [at |-> "insert", kind |-> k, scope |-> s])
  /\ UNCHANGED <<rows, log, events, queue, worker, faults>>

Start(c) == \E k \in Kinds, s \in Scopes : Check(c, k, s)

\* Mutant: the job's own row is queued again.
RetrySameRow(c) ==
  /\ req[c] = Idle
  /\ \E j \in Jobs :
       /\ status[j] \in Retryable
       /\ ~Busy(scope[j])
       /\ status' = [status EXCEPT ![j] = "queued"]
       /\ Go(c, [at |-> "register", job |-> j])
  /\ UNCHANGED <<kind, scope, log, events, queue, worker, faults>>

Retry(c) == \E j \in Jobs : status[j] \in Retryable /\ Check(c, kind[j], scope[j])

\* Whether the job left a run to continue is a matter of the table runs.
Resume(c) ==
  \E j \in Jobs :
    /\ kind[j] = "generate"
    /\ status[j] \in Retryable
    /\ Check(c, kind[j], scope[j])

Insert(c) ==
  /\ req[c].at = "insert"
  /\ \E j \in Jobs :
       /\ status[j] = "none"
       /\ status' = [status EXCEPT ![j] = "queued"]
       /\ kind' = [kind EXCEPT ![j] = req[c].kind]
       /\ scope' = [scope EXCEPT ![j] = req[c].scope]
       /\ Go(c, [at |-> "register", job |-> j])
  /\ UNCHANGED <<log, events, queue, worker, faults>>

Register(c) ==
  /\ req[c].at = "register"
  /\ cancelEvents' = cancelEvents \cup {req[c].job}
  /\ Go(c, [req[c] EXCEPT !.at = "submit"])
  /\ UNCHANGED <<rows, log, isSet, inTime, queue, worker, faults>>

Submit(c) ==
  /\ req[c].at = "submit"
  /\ LET j == req[c].job
     IN queue' = [queue EXCEPT ![Lane(kind[j])] = Append(@, j)]
  /\ Go(c, Idle)
  /\ UNCHANGED <<rows, log, events, worker, faults>>

SubmitterStep(c) == Insert(c) \/ Register(c) \/ Submit(c)

-----------------------------------------------------------------------------
(***************************************************************************)
(* cancel.                                                                 *)
(***************************************************************************)

Emit(j, e) == log' = [log EXCEPT ![j] = Append(@, e)]

\* A job without an entry is left alone: it has ended or is not yet registered.
FindEvent(c) ==
  /\ req[c] = Idle
  /\ \E j \in cancelEvents :
       /\ Len(log[j]) < MaxEvents
       /\ Go(c, [at |-> "set", job |-> j])
  /\ UNCHANGED <<rows, log, events, queue, worker, faults>>

Decided(j) == \E l \in Lanes : work[l] = j /\ at[l] \in After

SetEvent(c) ==
  /\ req[c].at = "set"
  /\ LET j == req[c].job
     IN /\ isSet' = isSet \cup {j}
        /\ inTime' =
             IF status[j] \in Active /\ ~Decided(j) THEN inTime \cup {j} ELSE inTime
  /\ Go(c, [req[c] EXCEPT !.at = "emit"])
  /\ UNCHANGED <<rows, log, cancelEvents, queue, worker, faults>>

EmitCancel(c) ==
  /\ req[c].at = "emit"
  /\ Emit(req[c].job, "cancel")
  /\ Go(c, Idle)
  /\ UNCHANGED <<rows, events, queue, worker, faults>>

CancellerStep(c) == SetEvent(c) \/ EmitCancel(c)

-----------------------------------------------------------------------------
(***************************************************************************)
(* _run, in the one worker thread of a lane.                               *)
(***************************************************************************)

Worker(l, from, to) == at[l] = from /\ at' = [at EXCEPT ![l] = to]

SetStatus(j, s) == status' = [status EXCEPT ![j] = s]

\* Mutant: the worker keeps its last job.
LeaveWithJob(l) ==
  /\ at' = [at EXCEPT ![l] = "idle"]
  /\ UNCHANGED <<work, ending>>

Leave(l) ==
  /\ at' = [at EXCEPT ![l] = "idle"]
  /\ work' = [work EXCEPT ![l] = NoJob]
  /\ ending' = [ending EXCEPT ![l] = "completed"]

\* Mutant: the newest job is taken first.
TakeNewest(l) ==
  /\ Worker(l, "idle", "start")
  /\ queue[l] # <<>>
  /\ work' = [work EXCEPT ![l] = queue[l][Len(queue[l])]]
  /\ queue' = [queue EXCEPT ![l] = SubSeq(@, 1, Len(@) - 1)]
  /\ UNCHANGED <<rows, log, events, ending, req, faults>>

Take(l) ==
  /\ Worker(l, "idle", "start")
  /\ queue[l] # <<>>
  /\ work' = [work EXCEPT ![l] = Head(queue[l])]
  /\ queue' = [queue EXCEPT ![l] = Tail(@)]
  /\ UNCHANGED <<rows, log, events, ending, req, faults>>

MarkRunning(l) ==
  /\ Worker(l, "start", "started")
  /\ SetStatus(work[l], "running")
  /\ UNCHANGED <<kind, scope, log, events, queue, work, ending, req, faults>>

\* The status event is a copy of the row, read after the UPDATE.
Announce(l, from, to) ==
  /\ Worker(l, from, to)
  /\ Emit(work[l], status[work[l]])
  /\ UNCHANGED <<rows, events, queue, work, ending, req, faults>>

AnnounceStart(l) == Announce(l, "started", "handler")

Progress(l) ==
  /\ at[l] = "handler"
  /\ Len(log[work[l]]) < MaxEvents
  /\ Emit(work[l], "progress")
  /\ UNCHANGED <<rows, events, queue, worker, req, faults>>

\* Mutant: the event is looked at only when the handler has raised.
OutcomeOfHandler(j, o) == IF o = "failed" /\ j \in isSet THEN "cancelled" ELSE o

Outcome(j, o) == IF j \in isSet THEN "cancelled" ELSE o

HandlerEnds(l, to, o) ==
  /\ Worker(l, "handler", to)
  /\ ending' = [ending EXCEPT ![l] = Outcome(work[l], o)]
  /\ UNCHANGED <<rows, log, events, queue, work, req, faults>>

HandlerReturns(l) == HandlerEnds(l, "finishing", "completed")
HandlerRaises(l) == HandlerEnds(l, "failing", "failed")

WriteOutcome(l, from, to) ==
  /\ Worker(l, from, to)
  /\ SetStatus(work[l], ending[l])
  /\ UNCHANGED <<kind, scope, log, events, queue, work, ending, req, faults>>

Finish(l) == WriteOutcome(l, "finishing", "finished")
Fail(l) == WriteOutcome(l, "failing", "failed")
AnnounceEnd(l) == Announce(l, "finished", "pop") \/ Announce(l, "failed", "report")

ReportFailure(l) ==
  /\ Worker(l, "report", "pop")
  /\ Emit(work[l], "progress")
  /\ UNCHANGED <<rows, events, queue, work, ending, req, faults>>

Pop(l) ==
  /\ at[l] = "pop"
  /\ cancelEvents' = cancelEvents \ {work[l]}
  /\ Leave(l)
  /\ UNCHANGED <<rows, log, isSet, inTime, queue, req, faults>>

WorkerStep(l) ==
  \/ Take(l)
  \/ MarkRunning(l)
  \/ AnnounceStart(l)
  \/ Progress(l)
  \/ HandlerReturns(l)
  \/ HandlerRaises(l)
  \/ Finish(l)
  \/ Fail(l)
  \/ AnnounceEnd(l)
  \/ ReportFailure(l)
  \/ Pop(l)

-----------------------------------------------------------------------------
(***************************************************************************)
(* Faults.                                                                 *)
(***************************************************************************)

Lockout(l) ==
  /\ lockouts < MaxLockouts
  /\ lockouts' = lockouts + 1
  /\ UNCHANGED <<rows, log, events, queue, req, restarts, others>>

\* Mutant: the exception ends the lane's thread with the call.
StartKillsThread(l) ==
  /\ at[l] \in {"start", "started"}
  /\ at' = [at EXCEPT ![l] = "dead"]
  /\ UNCHANGED <<work, ending>>
  /\ Lockout(l)

\* The first _update is outside the try statement: the exception ends the
\* executor's call, the row stays active and the entry stays in cancel_events.
StartLockedOut(l) ==
  /\ at[l] \in {"start", "started"}
  /\ Leave(l)
  /\ Lockout(l)

\* The second one is inside it: the work is done, the job takes the except path.
FinishLockedOut(l) ==
  /\ at[l] \in {"finishing", "finished"}
  /\ at' = [at EXCEPT ![l] = "failing"]
  /\ ending' = [ending EXCEPT ![l] = Outcome(work[l], "failed")]
  /\ UNCHANGED work
  /\ Lockout(l)

\* In the except branch only the finally clause is left.
FailLockedOut(l) ==
  /\ \E from \in {"failing", "failed", "report"} : Worker(l, from, "pop")
  /\ UNCHANGED <<work, ending>>
  /\ Lockout(l)

\* Mutant: only the jobs that were running are marked.
MarkRunningInterrupted ==
  status' = [j \in Jobs |-> IF status[j] = "running" THEN "interrupted" ELSE status[j]]

\* Mutant: only the jobs that were waiting are marked.
MarkQueuedInterrupted ==
  status' = [j \in Jobs |-> IF status[j] = "queued" THEN "interrupted" ELSE status[j]]

\* Mutant: failed jobs are marked again.
MarkEveryInterrupted ==
  status' = [j \in Jobs |-> IF status[j] \in Active \cup {"failed"} THEN "interrupted" ELSE status[j]]

\* The UPDATE of __init__.
MarkInterrupted ==
  status' = [j \in Jobs |-> IF status[j] \in Active THEN "interrupted" ELSE status[j]]

MemoryLost ==
  /\ cancelEvents' = {}
  /\ isSet' = {}
  /\ inTime' = {}
  /\ queue' = [l \in Lanes |-> <<>>]
  /\ work' = [l \in Lanes |-> NoJob]
  /\ at' = [l \in Lanes |-> "idle"]
  /\ ending' = [l \in Lanes |-> "completed"]
  /\ req' = [c \in Threads |-> Idle]

\* The service is killed and started again: what was in memory is gone.
Restart ==
  /\ restarts < MaxRestarts
  /\ restarts' = restarts + 1
  /\ MarkInterrupted
  /\ MemoryLost
  /\ UNCHANGED <<kind, scope, log, others, lockouts>>

\* Every command of the command line builds its own manager.
OtherProcess ==
  /\ others < MaxOthers
  /\ others' = others + 1
  /\ MarkInterrupted
  /\ UNCHANGED <<kind, scope, log, events, queue, worker, req, restarts, lockouts>>

Next ==
  \/ \E c \in Submitters : Start(c) \/ Retry(c) \/ Resume(c) \/ SubmitterStep(c)
  \/ \E c \in Cancellers : FindEvent(c) \/ CancellerStep(c)
  \/ \E l \in Lanes : WorkerStep(l)
  \/ \E l \in Lanes : StartLockedOut(l) \/ FinishLockedOut(l) \/ FailLockedOut(l)
  \/ Restart
  \/ OtherProcess

Spec == Init /\ [][Next]_vars

\* Requests that have begun are finished, workers are scheduled, and a handler
\* ends after finitely many progress reports.  Nobody is obliged to start,
\* cancel, kill or lock anything.
Fairness ==
  /\ \A c \in Submitters : WF_vars(SubmitterStep(c))
  /\ \A c \in Cancellers : WF_vars(CancellerStep(c))
  /\ \A l \in Lanes : WF_vars(WorkerStep(l))

FairSpec == Spec /\ Fairness

-----------------------------------------------------------------------------
(***************************************************************************)
(* Properties.                                                             *)
(***************************************************************************)

Held(j) == \E c \in Submitters : req[c].at \in {"register", "submit"} /\ req[c].job = j
Queued(j) == \E l \in Lanes : \E i \in DOMAIN queue[l] : queue[l][i] = j
AtWork(j) == \E l \in Lanes : work[l] = j

\* No active row is forgotten: a request, a queue or a worker of the running
\* process still has it.  A forgotten one would refuse every later job of its
\* scope (start's SELECT) until the next restart.
NoOrphans == \A j \in Jobs : status[j] \in Active => Held(j) \/ Queued(j) \/ AtWork(j)

\* A job is in one place at a time, so its handler runs at most once in the
\* process whatever is retried, cancelled or timed out meanwhile.
OnePlace ==
  \A j \in Jobs :
    /\ \A l, m \in Lanes : \A i \in DOMAIN queue[l], k \in DOMAIN queue[m] :
         queue[l][i] = j /\ queue[m][k] = j => l = m /\ i = k
    /\ \A l, m \in Lanes : work[l] = j /\ work[m] = j => l = m
    /\ Held(j) => ~Queued(j) /\ ~AtWork(j)
    /\ Queued(j) => ~AtWork(j)

\* PLATFORM_ARCHITECTURE.zh-CN.md:99: at most one document task and one CPU
\* task is running.
LaneSerial ==
  \A j, k \in Jobs :
    status[j] = "running" /\ status[k] = "running" /\ Lane(kind[j]) = Lane(kind[k]) => j = k

\* PLATFORM_ARCHITECTURE.zh-CN.md:99: no two write tasks for one repository.
OneWriterPerScope ==
  \A j, k \in Jobs :
    status[j] \in Active /\ status[k] \in Active /\ scope[j] = scope[k] => j = k

Writers(s) == {j \in Jobs : status[j] \in Active /\ scope[j] = s}

\* However the SELECTs and INSERTs of start interleave, a repository has no more
\* active jobs than there are threads that start some: whoever finds one active
\* adds none.  With one such thread it is OneWriterPerScope.
WritersPerScope == \A s \in Scopes : Cardinality(Writers(s)) <= Cardinality(Submitters)

\* A cancellation that arrives before the handler's end decides the outcome:
\* such a job is never recorded as completed or failed, whichever statement of
\* the worker times out.
CancelHonoured == \A j \in inTime : status[j] \notin {"completed", "failed"}

\* The timeline never announces an outcome that the row does not have: a status
\* event is inserted after the UPDATE it reports, and the row does not change
\* again, through restarts included.
TimelineIsTrue ==
  \A j \in Jobs : \A i \in DOMAIN log[j] : log[j][i] \in Ended => log[j][i] = status[j]

\* A queued job is taken, also after a worker's call has died on the database.
QueueDrains == \A j \in Jobs : Queued(j) ~> ~Queued(j)

\* Every job ends: its handler's, a cancellation's or a restart's way.  The
\* exception is a worker whose statement timed out on the database (jobs.py:62
\* is outside the try statement): its row may stay active.
EveryJobEnds ==
  \A j \in Jobs : status[j] \in Active ~> status[j] \in Ended \/ lockouts > 0

-----------------------------------------------------------------------------
(***************************************************************************)
(* With one submitting thread Jobs implements JobLanes.                    *)
(***************************************************************************)

\* The accepted jobs of a lane that have not begun: the one that its worker has
\* taken, those in the executor's queue, the one that a request is about to submit.
Beginning(l) == IF at[l] = "start" THEN <<work[l]>> ELSE <<>>
Single(S) == IF S = {} THEN <<>> ELSE <<CHOOSE j \in S : TRUE>>
Entering(l) == Single({j \in Jobs : Held(j) /\ Lane(kind[j]) = l})
Line == [l \in Lanes |-> Beginning(l) \o queue[l] \o Entering(l)]

LaneOf == [j \in Jobs |-> Lane(kind[j])]

Service == INSTANCE JobLanes WITH lane <- LaneOf, line <- Line, asked <- inTime

\* The rows, the executors and the events in memory keep the promise of JobLanes:
\* every step is one of its steps or changes nothing it knows of.  In particular a
\* lane begins its jobs in the order of their rows, an ended row is never written
\* again (retry and resume insert a new one), and a cancelled job ends cancelled.
ServesInOrder == Service!Spec

=============================================================================
