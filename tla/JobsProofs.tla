----------------------------- MODULE JobsProofs -----------------------------
(***************************************************************************)
(* Proofs about the job queue: its type invariant, that a job is in one    *)
(* place at a time and that a cancellation in time decides the outcome,    *)
(* all three whatever fails; when no other process builds the services,    *)
(* that a repository has no more active jobs than there are threads that   *)
(* start some; when besides no statement times out, that outcomes are      *)
(* final, that no active row is forgotten and that a lane runs one job at  *)
(* a time.  With one submitting thread the queue implements JobLanes.      *)
(***************************************************************************)
EXTENDS Jobs, FiniteSetTheorems, TLAPS

-----------------------------------------------------------------------------
(***************************************************************************)
(* Sequences and requests.                                                 *)
(***************************************************************************)

\* What submit leaves in an executor's queue.
LEMMA Appended ==
  ASSUME NEW S, NEW s \in Seq(S), NEW x \in S
  PROVE  /\ Append(s, x) \in Seq(S)
         /\ DOMAIN Append(s, x) = DOMAIN s \cup {Len(s) + 1}
         /\ Len(s) + 1 \notin DOMAIN s
         /\ Append(s, x)[Len(s) + 1] = x
         /\ \A i \in DOMAIN s : Append(s, x)[i] = s[i]
  OBVIOUS

\* What the worker finds in it, and what it leaves.
LEMMA Taken ==
  ASSUME NEW S, NEW s \in Seq(S), s # <<>>
  PROVE  /\ Head(s) \in S
         /\ Head(s) = s[1]
         /\ 1 \in DOMAIN s
         /\ Tail(s) \in Seq(S)
         /\ \A i \in DOMAIN Tail(s) :
              i \in Nat /\ i + 1 \in DOMAIN s /\ i + 1 # 1 /\ Tail(s)[i] = s[i + 1]
  OBVIOUS

\* A request that has passed its check knows the kind and the scope, one that
\* has a row or has found an event knows the job.
LEMMA Asked ==
  ASSUME TypeOK, NEW c \in Threads
  PROVE  /\ req[c] \in Requests
         /\ req[c].at = "insert" => req[c].kind \in Kinds /\ req[c].scope \in Scopes
         /\ req[c].at \in {"register", "submit", "set", "emit"} =>
              req[c] \in [at : {"register", "submit", "set", "emit"}, job : Jobs]
  BY DEF TypeOK, Requests, Idle

-----------------------------------------------------------------------------
(***************************************************************************)
(* Types.                                                                  *)
(***************************************************************************)

LEMMA TypesInit == Init => TypeOK
  <1> SUFFICES ASSUME Init PROVE TypeOK
    OBVIOUS
  <1>1. (CHOOSE k \in Kinds : TRUE) \in Kinds /\ (CHOOSE s \in Scopes : TRUE) \in Scopes
    BY JobsAssumption
  <1>2. req \in [Threads -> Requests]
    BY DEF Init, Requests
  <1>3. queue \in [Lanes -> Seq(Jobs)] /\ work \in [Lanes -> Jobs \cup {NoJob}]
        /\ at \in [Lanes -> Points] /\ ending \in [Lanes -> Outcomes]
        /\ \A l \in Lanes : at[l] = "idle" <=> work[l] = NoJob
    BY DEF Init, Points, Outcomes
  <1>4. log \in [Jobs -> Seq(Statuses \cup {"progress", "cancel"})]
    BY DEF Init
  <1>5. status \in [Jobs -> Statuses]
    BY DEF Init, Statuses
  <1> QED
    BY <1>1, <1>2, <1>3, <1>4, <1>5 DEF Init, TypeOK

LEMMA TypesCheck ==
  ASSUME TypeOK, NEW c \in Threads, NEW k \in Kinds, NEW s \in Scopes, Check(c, k, s)
  PROVE  TypeOK'
  <1>1. [at |-> "insert", kind |-> k, scope |-> s] \in Requests
    BY DEF Requests
  <1>2. req' \in [Threads -> Requests]
    BY <1>1 DEF TypeOK, Check, Go
  <1> QED
    BY <1>2 DEF TypeOK, Check, rows, events, worker, faults

LEMMA TypesSubmitter ==
  ASSUME TypeOK, NEW c \in Threads, SubmitterStep(c)
  PROVE  TypeOK'
  <1>1. CASE Insert(c)
    <2>1. PICK j \in Jobs : /\ status' = [status EXCEPT ![j] = "queued"]
                            /\ kind' = [kind EXCEPT ![j] = req[c].kind]
                            /\ scope' = [scope EXCEPT ![j] = req[c].scope]
                            /\ Go(c, [at |-> "register", job |-> j])
      BY <1>1 DEF Insert
    <2>2. [at |-> "register", job |-> j] \in Requests
      BY DEF Requests
    <2>3. req' \in [Threads -> Requests]
      BY <2>1, <2>2 DEF TypeOK, Go
    <2>4. kind' \in [Jobs -> Kinds] /\ scope' \in [Jobs -> Scopes]
      BY <1>1, <2>1, Asked DEF TypeOK, Insert
    <2>5. status' \in [Jobs -> Statuses]
      BY <2>1 DEF TypeOK, Statuses, Active
    <2> QED
      BY <1>1, <2>3, <2>4, <2>5 DEF TypeOK, Insert, events, worker, faults
  <1>2. CASE Register(c)
    <2>1. req[c].job \in Jobs /\ [req[c] EXCEPT !.at = "submit"] \in Requests
      BY <1>2, Asked DEF Register, Requests
    <2>2. req' \in [Threads -> Requests]
      BY <1>2, <2>1 DEF TypeOK, Register, Go
    <2> QED
      BY <1>2, <2>1, <2>2 DEF TypeOK, Register, rows, worker, faults
  <1>3. CASE Submit(c)
    <2>1. req[c].job \in Jobs
      BY <1>3, Asked DEF Submit
    <2>2. Lane(kind[req[c].job]) \in Lanes
      BY DEF Lane, Lanes
    <2>3. queue' \in [Lanes -> Seq(Jobs)]
      BY <1>3, <2>1, <2>2, Appended DEF TypeOK, Submit
    <2>4. req' \in [Threads -> Requests]
      BY <1>3 DEF TypeOK, Submit, Go, Requests
    <2> QED
      BY <1>3, <2>3, <2>4 DEF TypeOK, Submit, rows, events, worker, faults
  <1> QED
    BY <1>1, <1>2, <1>3 DEF SubmitterStep

\* An event of the timeline, a status among them, leaves it a sequence of events.
LEMMA TypesEmit ==
  ASSUME TypeOK, NEW j \in Jobs, NEW e \in Statuses \cup {"progress", "cancel"}, Emit(j, e)
  PROVE  log' \in [Jobs -> Seq(Statuses \cup {"progress", "cancel"})]
  BY Appended DEF TypeOK, Emit

LEMMA TypesCanceller ==
  ASSUME TypeOK, NEW c \in Threads, FindEvent(c) \/ CancellerStep(c)
  PROVE  TypeOK'
  <1>1. CASE FindEvent(c)
    <2>1. PICK j \in cancelEvents : Go(c, [at |-> "set", job |-> j])
      BY <1>1 DEF FindEvent
    <2>2. [at |-> "set", job |-> j] \in Requests
      BY DEF TypeOK, Requests
    <2>3. req' \in [Threads -> Requests]
      BY <2>1, <2>2 DEF TypeOK, Go
    <2> QED
      BY <1>1, <2>3 DEF TypeOK, FindEvent, rows, events, worker, faults
  <1>2. CASE SetEvent(c)
    <2>1. req[c].job \in Jobs /\ [req[c] EXCEPT !.at = "emit"] \in Requests
      BY <1>2, Asked DEF SetEvent, Requests
    <2>2. req' \in [Threads -> Requests]
      BY <1>2, <2>1 DEF TypeOK, SetEvent, Go
    <2>3. isSet' \in SUBSET Jobs /\ inTime' \in SUBSET isSet'
      BY <1>2, <2>1 DEF TypeOK, SetEvent
    <2> QED
      BY <1>2, <2>2, <2>3 DEF TypeOK, SetEvent, rows, worker, faults
  <1>3. CASE EmitCancel(c)
    <2>1. req[c].job \in Jobs
      BY <1>3, Asked DEF EmitCancel
    <2>2. log' \in [Jobs -> Seq(Statuses \cup {"progress", "cancel"})]
      BY <1>3, <2>1, TypesEmit DEF EmitCancel
    <2>3. req' \in [Threads -> Requests]
      BY <1>3 DEF TypeOK, EmitCancel, Go, Requests
    <2> QED
      BY <1>3, <2>2, <2>3 DEF TypeOK, EmitCancel, rows, events, worker, faults
  <1> QED
    BY <1>1, <1>2, <1>3 DEF CancellerStep

\* A worker that moves on keeps its job.
LEMMA TypesWorker ==
  ASSUME TypeOK, NEW l \in Lanes, NEW from \in Points \ {"idle"}, NEW to \in Points \ {"idle"},
         Worker(l, from, to), UNCHANGED work
  PROVE  /\ at' \in [Lanes -> Points]
         /\ \A m \in Lanes : at'[m] = "idle" <=> work'[m] = NoJob
         /\ work[l] \in Jobs
  BY DEF TypeOK, Worker

LEMMA TypesLeave ==
  ASSUME TypeOK, NEW l \in Lanes, Leave(l)
  PROVE  /\ work' \in [Lanes -> Jobs \cup {NoJob}]
         /\ at' \in [Lanes -> Points]
         /\ ending' \in [Lanes -> Outcomes]
         /\ \A m \in Lanes : at'[m] = "idle" <=> work'[m] = NoJob
  BY DEF TypeOK, Leave, Points, Outcomes

LEMMA TypesInterrupted ==
  ASSUME TypeOK, MarkInterrupted
  PROVE  status' \in [Jobs -> Statuses]
  BY DEF TypeOK, MarkInterrupted, Statuses, Ended

LEMMA TypesStep ==
  ASSUME TypeOK, NEW l \in Lanes, WorkerStep(l)
  PROVE  TypeOK'
  <1> USE DEF Before, After
  <1>1. CASE Take(l)
    <2>1. Head(queue[l]) \in Jobs /\ Tail(queue[l]) \in Seq(Jobs)
      BY <1>1, Taken DEF TypeOK, Take
    <2>2. Head(queue[l]) # NoJob
      BY <2>1, JobsAssumption
    <2>3. queue' \in [Lanes -> Seq(Jobs)] /\ work' \in [Lanes -> Jobs \cup {NoJob}]
      BY <1>1, <2>1 DEF TypeOK, Take
    <2>4. at' \in [Lanes -> Points] /\ \A m \in Lanes : at'[m] = "idle" <=> work'[m] = NoJob
      BY <1>1, <2>2 DEF TypeOK, Take, Worker, Points
    <2> QED
      BY <1>1, <2>3, <2>4 DEF TypeOK, Take, rows, events, faults
  <1>2. CASE MarkRunning(l)
    <2>1. /\ at' \in [Lanes -> Points]
          /\ \A m \in Lanes : at'[m] = "idle" <=> work'[m] = NoJob
          /\ work[l] \in Jobs
      BY <1>2, TypesWorker DEF MarkRunning, Points
    <2>2. status' \in [Jobs -> Statuses]
      BY <1>2, <2>1 DEF TypeOK, MarkRunning, SetStatus, Statuses, Active
    <2> QED
      BY <1>2, <2>1, <2>2 DEF TypeOK, MarkRunning, events, faults
  <1>3. CASE AnnounceStart(l) \/ AnnounceEnd(l)
    <2>1. PICK from, to \in Points \ {"idle"} : Announce(l, from, to)
      BY <1>3 DEF AnnounceStart, AnnounceEnd, Points
    <2>2. /\ at' \in [Lanes -> Points]
          /\ \A m \in Lanes : at'[m] = "idle" <=> work'[m] = NoJob
          /\ work[l] \in Jobs
      BY <2>1, TypesWorker DEF Announce
    <2>3. status[work[l]] \in Statuses \cup {"progress", "cancel"}
      BY <2>2 DEF TypeOK
    <2>4. log' \in [Jobs -> Seq(Statuses \cup {"progress", "cancel"})]
      BY <2>1, <2>2, <2>3, TypesEmit DEF Announce
    <2> QED
      BY <2>1, <2>2, <2>4 DEF TypeOK, Announce, rows, events, faults
  <1>4. CASE Progress(l)
    <2>1. work[l] \in Jobs
      BY <1>4 DEF TypeOK, Progress
    <2>2. log' \in [Jobs -> Seq(Statuses \cup {"progress", "cancel"})]
      BY <1>4, <2>1, TypesEmit DEF Progress
    <2> QED
      BY <1>4, <2>2 DEF TypeOK, Progress, rows, events, worker, faults
  <1>5. CASE HandlerReturns(l) \/ HandlerRaises(l)
    <2>1. PICK to \in Points \ {"idle"}, o \in Outcomes : HandlerEnds(l, to, o)
      BY <1>5 DEF HandlerReturns, HandlerRaises, Points, Outcomes
    <2>2. /\ at' \in [Lanes -> Points]
          /\ \A m \in Lanes : at'[m] = "idle" <=> work'[m] = NoJob
      BY <2>1, TypesWorker DEF HandlerEnds, Points
    <2>3. ending' \in [Lanes -> Outcomes]
      BY <2>1 DEF TypeOK, HandlerEnds, Outcome, Outcomes
    <2> QED
      BY <2>1, <2>2, <2>3 DEF TypeOK, HandlerEnds, rows, events, faults
  <1>6. CASE Finish(l) \/ Fail(l)
    <2>1. PICK from, to \in Points \ {"idle"} : WriteOutcome(l, from, to)
      BY <1>6 DEF Finish, Fail, Points
    <2>2. /\ at' \in [Lanes -> Points]
          /\ \A m \in Lanes : at'[m] = "idle" <=> work'[m] = NoJob
          /\ work[l] \in Jobs
      BY <2>1, TypesWorker DEF WriteOutcome
    <2>3. status' \in [Jobs -> Statuses]
      BY <2>1, <2>2 DEF TypeOK, WriteOutcome, SetStatus, Statuses, Ended
    <2> QED
      BY <2>1, <2>2, <2>3 DEF TypeOK, WriteOutcome, events, faults
  <1>7. CASE ReportFailure(l)
    <2>1. /\ at' \in [Lanes -> Points]
          /\ \A m \in Lanes : at'[m] = "idle" <=> work'[m] = NoJob
          /\ work[l] \in Jobs
      BY <1>7, TypesWorker DEF ReportFailure, Points
    <2>2. log' \in [Jobs -> Seq(Statuses \cup {"progress", "cancel"})]
      BY <1>7, <2>1, TypesEmit DEF ReportFailure
    <2> QED
      BY <1>7, <2>1, <2>2 DEF TypeOK, ReportFailure, rows, events, faults
  <1>8. CASE Pop(l)
    BY <1>8, TypesLeave DEF TypeOK, Pop, rows, faults
  <1> QED
    BY <1>1, <1>2, <1>3, <1>4, <1>5, <1>6, <1>7, <1>8 DEF WorkerStep

LEMMA TypesFault ==
  ASSUME TypeOK,
         \/ \E l \in Lanes : StartLockedOut(l) \/ FinishLockedOut(l) \/ FailLockedOut(l)
         \/ Restart
         \/ OtherProcess
  PROVE  TypeOK'
  <1>1. ASSUME NEW l \in Lanes, StartLockedOut(l) PROVE TypeOK'
    BY <1>1, TypesLeave DEF TypeOK, StartLockedOut, Lockout, rows, events
  <1>2. ASSUME NEW l \in Lanes, FinishLockedOut(l) PROVE TypeOK'
    <2>1. /\ at' \in [Lanes -> Points]
          /\ \A m \in Lanes : at'[m] = "idle" <=> work'[m] = NoJob
      BY <1>2 DEF TypeOK, FinishLockedOut, Points, After
    <2>2. ending' \in [Lanes -> Outcomes]
      BY <1>2 DEF TypeOK, FinishLockedOut, Outcome, Outcomes
    <2> QED
      BY <1>2, <2>1, <2>2 DEF TypeOK, FinishLockedOut, Lockout, rows, events
  <1>3. ASSUME NEW l \in Lanes, FailLockedOut(l) PROVE TypeOK'
    <2>1. PICK from \in {"failing", "failed", "report"} : Worker(l, from, "pop")
      BY <1>3 DEF FailLockedOut
    <2>2. /\ at' \in [Lanes -> Points]
          /\ \A m \in Lanes : at'[m] = "idle" <=> work'[m] = NoJob
      BY <1>3, <2>1, TypesWorker DEF FailLockedOut, Points, After
    <2> QED
      BY <1>3, <2>2 DEF TypeOK, FailLockedOut, Lockout, rows, events
  <1>4. CASE Restart
    <2>1. status' \in [Jobs -> Statuses]
      BY <1>4, TypesInterrupted DEF Restart
    <2>2. req' \in [Threads -> Requests]
      BY <1>4 DEF Restart, MemoryLost, Requests
    <2>3. queue' \in [Lanes -> Seq(Jobs)] /\ work' \in [Lanes -> Jobs \cup {NoJob}]
          /\ at' \in [Lanes -> Points] /\ ending' \in [Lanes -> Outcomes]
          /\ \A l \in Lanes : at'[l] = "idle" <=> work'[l] = NoJob
      BY <1>4 DEF Restart, MemoryLost, Points, Outcomes
    <2>4. cancelEvents' \in SUBSET Jobs /\ isSet' \in SUBSET Jobs /\ inTime' \in SUBSET isSet'
      BY <1>4 DEF Restart, MemoryLost
    <2> QED
      BY <1>4, <2>1, <2>2, <2>3, <2>4 DEF TypeOK, Restart
  <1>5. CASE OtherProcess
    BY <1>5, TypesInterrupted DEF TypeOK, OtherProcess, events, worker
  <1> QED
    BY <1>1, <1>2, <1>3, <1>4, <1>5

\* Every variable keeps its type, and a worker without a job is idle.
THEOREM Typed == Spec => []TypeOK
  <1>1. TypeOK /\ [Next]_vars => TypeOK'
    <2> SUFFICES ASSUME TypeOK, [Next]_vars PROVE TypeOK'
      OBVIOUS
    <2>1. CASE UNCHANGED vars
      BY <2>1 DEF TypeOK, vars, rows, events, worker, faults
    <2>2. ASSUME NEW c \in Submitters, Start(c) \/ Retry(c) \/ Resume(c) PROVE TypeOK'
      <3>1. PICK k \in Kinds, s \in Scopes : Check(c, k, s)
        BY <2>2 DEF Start, Retry, Resume, TypeOK
      <3> QED
        BY <3>1, TypesCheck DEF Threads
    <2>3. ASSUME NEW c \in Submitters, SubmitterStep(c) PROVE TypeOK'
      BY <2>3, TypesSubmitter DEF Threads
    <2>4. ASSUME NEW c \in Cancellers, FindEvent(c) \/ CancellerStep(c) PROVE TypeOK'
      BY <2>4, TypesCanceller DEF Threads
    <2>5. ASSUME NEW l \in Lanes, WorkerStep(l) PROVE TypeOK'
      BY <2>5, TypesStep
    <2> QED
      BY <2>1, <2>2, <2>3, <2>4, <2>5, TypesFault DEF Next
  <1> QED
    BY TypesInit, <1>1, PTL DEF Spec

-----------------------------------------------------------------------------
(***************************************************************************)
(* Cancellations.                                                          *)
(***************************************************************************)

\* A worker about to write the outcome of a job cancelled in time has read the
\* event, whichever way it came there.
Promised(j) ==
  /\ status[j] \notin {"completed", "failed"}
  /\ \A l \in Lanes : work[l] = j /\ at[l] \in {"finishing", "failing"} => ending[l] = "cancelled"

Promises == \A j \in inTime : Promised(j)

LEMMA PromisesStep ==
  ASSUME TypeOK, Promises, NEW l \in Lanes, WorkerStep(l), NEW j \in inTime'
  PROVE  Promised(j)'
<1>1. j \in inTime /\ j \in isSet /\ j \in Jobs /\ Promised(j)
  BY DEF WorkerStep, Take, MarkRunning, AnnounceStart, AnnounceEnd, Announce, Progress, HandlerReturns,
         HandlerRaises, HandlerEnds, Finish, Fail, WriteOutcome, ReportFailure, Pop, events, TypeOK, Promises
<1> USE <1>1 DEF TypeOK, Promised, Worker, rows
<1>2. CASE Take(l)
  BY <1>2 DEF Take
<1>3. CASE MarkRunning(l)
  BY <1>3 DEF MarkRunning, SetStatus
<1>4. CASE AnnounceStart(l) \/ AnnounceEnd(l)
  BY <1>4 DEF AnnounceStart, AnnounceEnd, Announce
<1>5. CASE Progress(l)
  BY <1>5 DEF Progress, worker
<1>6. CASE HandlerReturns(l) \/ HandlerRaises(l)
  <2>1. PICK to \in Points, o \in Outcomes : HandlerEnds(l, to, o)
    BY <1>6 DEF HandlerReturns, HandlerRaises, Points, After, Outcomes
  <2>2. work' = work /\ status' = status /\ at' = [at EXCEPT ![l] = to]
    BY <2>1 DEF HandlerEnds
  <2>3. ending' = [ending EXCEPT ![l] = Outcome(work[l], o)] /\ at[l] = "handler"
    BY <2>1 DEF HandlerEnds
  <2>4. work[l] = j => ending'[l] = "cancelled"
    BY <2>3 DEF Outcome
  <2>5. \A m \in Lanes \ {l} : ending'[m] = ending[m] /\ at'[m] = at[m]
    BY <2>2, <2>3
  <2> QED
    BY <2>2, <2>4, <2>5
<1>7. CASE Finish(l) \/ Fail(l)
  BY <1>7 DEF Finish, Fail, WriteOutcome, SetStatus
<1>8. CASE ReportFailure(l)
  BY <1>8 DEF ReportFailure
<1>9. CASE Pop(l)
  BY <1>9 DEF Pop, Leave
<1> QED
  BY <1>2, <1>3, <1>4, <1>5, <1>6, <1>7, <1>8, <1>9 DEF WorkerStep

LEMMA PromisesFault ==
  ASSUME TypeOK, Promises, NEW l \in Lanes,
         StartLockedOut(l) \/ FinishLockedOut(l) \/ FailLockedOut(l),
         NEW j \in inTime'
  PROVE  Promised(j)'
<1>1. j \in inTime /\ j \in isSet /\ j \in Jobs /\ Promised(j) /\ UNCHANGED status
  BY DEF StartLockedOut, FinishLockedOut, FailLockedOut, Lockout, events, rows, TypeOK, Promises
<1> USE <1>1 DEF TypeOK, Promised
<1>2. CASE StartLockedOut(l)
  BY <1>2 DEF StartLockedOut, Leave
<1>3. CASE FinishLockedOut(l)
  BY <1>3 DEF FinishLockedOut, Outcome
<1>4. CASE FailLockedOut(l)
  BY <1>4 DEF FailLockedOut, Worker
<1> QED
  BY <1>2, <1>3, <1>4

LEMMA PromisesRequest ==
  ASSUME TypeOK, Promises, NEW c \in Threads,
         \/ \E k \in Kinds, s \in Scopes : Check(c, k, s)
         \/ SubmitterStep(c) \/ FindEvent(c) \/ CancellerStep(c)
  PROVE  Promises'
<1> USE DEF Promises, Promised
<1>1. CASE \E k \in Kinds, s \in Scopes : Check(c, k, s)
  BY <1>1 DEF Check, rows, events, worker
<1>2. CASE Insert(c)
  BY <1>2 DEF Insert, TypeOK, events, worker
<1>3. CASE Register(c) \/ Submit(c) \/ FindEvent(c) \/ EmitCancel(c)
  BY <1>3 DEF Register, Submit, FindEvent, EmitCancel, rows, events, worker
<1>4. CASE SetEvent(c)
  <2>1. UNCHANGED <<status, work, at, ending>>
    BY <1>4 DEF SetEvent, rows, worker
  <2>2. CASE inTime' = inTime
    BY <2>1, <2>2
  <2>3. CASE inTime' # inTime
    <3>1. /\ inTime' = inTime \cup {req[c].job}
          /\ status[req[c].job] \in Active
          /\ ~Decided(req[c].job)
      BY <1>4, <2>3 DEF SetEvent
    <3> QED
      BY <2>1, <3>1 DEF Active, Decided, After
  <2> QED
    BY <2>2, <2>3
<1> QED
  BY <1>1, <1>2, <1>3, <1>4 DEF SubmitterStep, CancellerStep

LEMMA PromisesAlways == Spec => []Promises
<1>1. Init => Promises
  BY DEF Init, Promises
<1>2. TypeOK /\ Promises /\ [Next]_vars => Promises'
  <2> SUFFICES ASSUME TypeOK, Promises, [Next]_vars PROVE Promises'
    OBVIOUS
  <2>1. CASE UNCHANGED vars
    BY <2>1 DEF vars, rows, events, worker, Promises, Promised
  <2>2. ASSUME NEW c \in Submitters, Start(c) \/ Retry(c) \/ Resume(c) \/ SubmitterStep(c)
        PROVE  Promises'
    BY <2>2, PromisesRequest DEF Start, Retry, Resume, TypeOK, Threads
  <2>3. ASSUME NEW c \in Cancellers, FindEvent(c) \/ CancellerStep(c) PROVE Promises'
    BY <2>3, PromisesRequest DEF Threads
  <2>4. ASSUME NEW l \in Lanes,
               WorkerStep(l) \/ StartLockedOut(l) \/ FinishLockedOut(l) \/ FailLockedOut(l)
        PROVE  Promises'
    BY <2>4, PromisesStep, PromisesFault DEF Promises
  <2>5. CASE Restart
    BY <2>5 DEF Restart, MemoryLost, Promises
  <2>6. CASE OtherProcess
    BY <2>6 DEF OtherProcess, MarkInterrupted, TypeOK, events, worker, Promises, Promised
  <2> QED
    BY <2>1, <2>2, <2>3, <2>4, <2>5, <2>6 DEF Next
<1> QED
  BY Typed, <1>1, <1>2, PTL DEF Spec

\* Nothing that fails or is interrupted turns a cancellation in time into a
\* job recorded as completed or failed.
THEOREM CancellationsHold == Spec => []CancelHonoured
<1>1. Promises => CancelHonoured
  BY DEF Promises, Promised, CancelHonoured
<1> QED
  BY PromisesAlways, <1>1, PTL

-----------------------------------------------------------------------------
(***************************************************************************)
(* Places.                                                                 *)
(***************************************************************************)

HeldBy(c, j) == req[c].at \in {"register", "submit"} /\ req[c].job = j

\* Requests are in the place of at most one thread, have a row and are neither
\* queued nor at work.
HeldApart ==
  \A c \in Submitters, j \in Jobs : HeldBy(c, j) =>
    /\ status[j] # "none"
    /\ \A d \in Submitters : HeldBy(d, j) => d = c
    /\ \A l \in Lanes : work[l] # j /\ \A i \in DOMAIN queue[l] : queue[l][i] # j

\* Queued jobs have a row, are queued once and are not at work.
QueuedApart ==
  \A l \in Lanes : \A i \in DOMAIN queue[l] :
    /\ status[queue[l][i]] # "none"
    /\ \A m \in Lanes : work[m] # queue[l][i]
    /\ \A m \in Lanes : \A k \in DOMAIN queue[m] : queue[m][k] = queue[l][i] => m = l /\ k = i

\* Jobs at work have a row and one worker.
AtWorkApart ==
  \A l \in Lanes : work[l] # NoJob =>
    /\ status[work[l]] # "none"
    /\ \A m \in Lanes : work[m] = work[l] => m = l

\* OnePlace, with what keeps a new row out of every place.
Apart == HeldApart /\ QueuedApart /\ AtWorkApart

\* A step that gives no job a new place and takes no row away keeps them apart.
LEMMA ApartKept ==
  ASSUME TypeOK, Apart,
         \A j \in Jobs : status[j] # "none" => status'[j] # "none",
         \A c \in Submitters, j \in Jobs : HeldBy(c, j)' => HeldBy(c, j),
         queue' = queue \/ queue' = [l \in Lanes |-> <<>>],
         \A l \in Lanes : work'[l] = work[l] \/ work'[l] = NoJob
  PROVE  Apart'
<1>1. NoJob \notin Jobs
  BY JobsAssumption
<1>2. \A l \in Lanes : \A i \in DOMAIN queue'[l] : i \in DOMAIN queue[l] /\ queue'[l][i] = queue[l][i]
  OBVIOUS
<1>3. \A l \in Lanes : \A i \in DOMAIN queue[l] : queue[l][i] \in Jobs
  BY DEF TypeOK
<1>4. HeldApart'
  BY <1>1, <1>2 DEF Apart, HeldApart
<1>5. QueuedApart'
  BY <1>1, <1>2, <1>3 DEF Apart, QueuedApart
<1>6. AtWorkApart'
  BY DEF Apart, AtWorkApart, TypeOK
<1> QED
  BY <1>4, <1>5, <1>6 DEF Apart

\* The row a request inserts was in no place.
LEMMA ApartInsert ==
  ASSUME TypeOK, Apart, NEW c \in Submitters, Insert(c)
  PROVE  Apart'
<1>1. PICK j \in Jobs : /\ status[j] = "none"
                        /\ status' = [status EXCEPT ![j] = "queued"]
                        /\ Go(c, [at |-> "register", job |-> j])
  BY DEF Insert
<1>2. UNCHANGED <<queue, work>>
  BY DEF Insert, worker
<1>3. \A i \in Jobs : status[i] # "none" => status'[i] # "none"
  BY <1>1 DEF TypeOK
<1>4. \A d \in Submitters, i \in Jobs : HeldBy(d, i)' <=> (IF d = c THEN i = j ELSE HeldBy(d, i))
  BY <1>1 DEF Go, HeldBy, TypeOK, Threads
<1>5. \A d \in Submitters : ~HeldBy(d, j)
  BY <1>1 DEF Apart, HeldApart
<1>6. \A l \in Lanes : work[l] # j /\ \A i \in DOMAIN queue[l] : queue[l][i] # j
  BY <1>1, JobsAssumption DEF Apart, QueuedApart, AtWorkApart
<1>7. HeldApart'
  BY <1>1, <1>2, <1>3, <1>4, <1>5, <1>6 DEF Apart, HeldApart, TypeOK
<1>8. QueuedApart' /\ AtWorkApart'
  BY <1>2, <1>3 DEF Apart, QueuedApart, AtWorkApart, TypeOK
<1> QED
  BY <1>7, <1>8 DEF Apart

\* The job that is submitted is the request's.
LEMMA ApartSubmit ==
  ASSUME TypeOK, Apart, NEW c \in Submitters, Submit(c)
  PROVE  Apart'
<1> DEFINE j == req[c].job
           n == Lane(kind[j])
<1>1. j \in Jobs /\ HeldBy(c, j)
  BY Asked DEF Submit, HeldBy, Threads
<1>2. n \in Lanes
  BY DEF Lane, Lanes
<1>3. queue' = [queue EXCEPT ![n] = Append(@, j)] /\ UNCHANGED <<status, work>>
  BY DEF Submit, rows, worker
<1>4. \A d \in Submitters, i \in Jobs : HeldBy(d, i)' <=> d # c /\ HeldBy(d, i)
  BY DEF Submit, Go, HeldBy, Idle, TypeOK, Threads
<1>5. /\ status[j] # "none"
      /\ \A d \in Submitters : HeldBy(d, j) => d = c
      /\ \A l \in Lanes : work[l] # j /\ \A i \in DOMAIN queue[l] : queue[l][i] # j
  BY <1>1 DEF Apart, HeldApart
<1> HIDE DEF j, n
<1>6. /\ \A l \in Lanes \ {n} : queue'[l] = queue[l]
      /\ DOMAIN queue'[n] = DOMAIN queue[n] \cup {Len(queue[n]) + 1}
      /\ queue'[n][Len(queue[n]) + 1] = j
      /\ \A i \in DOMAIN queue[n] : queue'[n][i] = queue[n][i]
  BY <1>1, <1>2, <1>3, Appended DEF TypeOK
<1>7. \A l \in Lanes : \A i \in DOMAIN queue'[l] :
        \/ i \in DOMAIN queue[l] /\ queue'[l][i] = queue[l][i]
        \/ l = n /\ i = Len(queue[n]) + 1 /\ queue'[l][i] = j
  BY <1>6
<1>8. HeldApart'
  BY <1>3, <1>4, <1>5, <1>7 DEF Apart, HeldApart
<1>9. QueuedApart'
  BY <1>3, <1>5, <1>7 DEF Apart, QueuedApart
<1>10. AtWorkApart'
  BY <1>3 DEF Apart, AtWorkApart
<1> QED
  BY <1>8, <1>9, <1>10 DEF Apart

\* The job a worker takes was the head of its queue.
LEMMA ApartTake ==
  ASSUME TypeOK, Apart, NEW l \in Lanes, Take(l)
  PROVE  Apart'
<1> DEFINE j == Head(queue[l])
<1>1. queue[l] \in Seq(Jobs) /\ queue[l] # <<>>
  BY DEF Take, TypeOK
<1>2. j \in Jobs /\ 1 \in DOMAIN queue[l] /\ queue[l][1] = j
  BY <1>1, Taken
<1>3. /\ work' = [work EXCEPT ![l] = j]
      /\ queue' = [queue EXCEPT ![l] = Tail(@)]
      /\ UNCHANGED <<status, req>>
  BY DEF Take, rows
<1>4. /\ status[j] # "none"
      /\ \A m \in Lanes : work[m] # j
      /\ \A m \in Lanes : \A k \in DOMAIN queue[m] : queue[m][k] = j => m = l /\ k = 1
  BY <1>2 DEF Apart, QueuedApart
<1>5. \A c \in Submitters : ~HeldBy(c, j)
  BY <1>2 DEF Apart, HeldApart
<1> HIDE DEF j
<1>6. \A i \in DOMAIN queue'[l] :
        i \in Nat /\ i + 1 \in DOMAIN queue[l] /\ i + 1 # 1 /\ queue'[l][i] = queue[l][i + 1]
  BY <1>1, <1>3, Taken DEF TypeOK
<1>7. \A m \in Lanes \ {l} : queue'[m] = queue[m] /\ work'[m] = work[m]
  BY <1>3 DEF TypeOK
<1>8. work'[l] = j
  BY <1>3 DEF TypeOK
<1>9. \A m \in Lanes : \A i \in DOMAIN queue'[m] :
        /\ queue'[m][i] # j
        /\ \E k \in DOMAIN queue[m] : queue'[m][i] = queue[m][k]
  BY <1>4, <1>6, <1>7
<1>10. HeldApart'
  BY <1>3, <1>5, <1>7, <1>8, <1>9 DEF Apart, HeldApart, HeldBy
<1>11. QueuedApart'
  <2> SUFFICES ASSUME NEW m \in Lanes, NEW i \in DOMAIN queue'[m]
               PROVE  /\ status[queue'[m][i]] # "none"
                      /\ \A o \in Lanes : work'[o] # queue'[m][i]
                      /\ \A o \in Lanes : \A k \in DOMAIN queue'[o] :
                           queue'[o][k] = queue'[m][i] => o = m /\ k = i
    BY <1>3 DEF QueuedApart
  <2>1. status[queue'[m][i]] # "none" /\ \A o \in Lanes : work'[o] # queue'[m][i]
    BY <1>7, <1>8, <1>9 DEF Apart, QueuedApart
  <2>2. ASSUME NEW o \in Lanes, NEW k \in DOMAIN queue'[o], queue'[o][k] = queue'[m][i]
        PROVE  o = m /\ k = i
    <3>1. CASE o = l /\ m = l
      <4>1. k + 1 = i + 1
        BY <1>6, <2>2, <3>1 DEF Apart, QueuedApart
      <4> QED
        BY <1>6, <3>1, <4>1
    <3>2. CASE o # l /\ m = l
      BY <1>6, <1>7, <2>2, <3>2 DEF Apart, QueuedApart
    <3>3. CASE o = l /\ m # l
      BY <1>6, <1>7, <2>2, <3>3 DEF Apart, QueuedApart
    <3>4. CASE o # l /\ m # l
      BY <1>7, <2>2, <3>4 DEF Apart, QueuedApart
    <3> QED
      BY <3>1, <3>2, <3>3, <3>4
  <2> QED
    BY <2>1, <2>2
<1>12. AtWorkApart'
  BY <1>3, <1>4, <1>7, <1>8 DEF Apart, AtWorkApart
<1> QED
  BY <1>10, <1>11, <1>12 DEF Apart

LEMMA ApartWorker ==
  ASSUME TypeOK, Apart, NEW l \in Lanes,
         WorkerStep(l) \/ StartLockedOut(l) \/ FinishLockedOut(l) \/ FailLockedOut(l)
  PROVE  Apart'
<1>1. CASE Take(l)
  BY <1>1, ApartTake
<1>2. CASE ~Take(l)
  <2>1. req' = req /\ queue' = queue
    BY <1>2 DEF WorkerStep, MarkRunning, AnnounceStart, AnnounceEnd, Announce, Progress, HandlerReturns,
           HandlerRaises, HandlerEnds, Finish, Fail, WriteOutcome, ReportFailure, Pop,
           StartLockedOut, FinishLockedOut, FailLockedOut, Lockout
  <2>2. work' = work \/ work' = [work EXCEPT ![l] = NoJob]
    BY <1>2 DEF WorkerStep, MarkRunning, AnnounceStart, AnnounceEnd, Announce, Progress, HandlerReturns,
           HandlerRaises, HandlerEnds, Finish, Fail, WriteOutcome, ReportFailure, Pop, Leave, worker,
           StartLockedOut, FinishLockedOut, FailLockedOut
  <2>3. \A m \in Lanes : work'[m] = work[m] \/ work'[m] = NoJob
    BY <2>2 DEF TypeOK
  <2>4. status' = status \/ status' = [status EXCEPT ![work[l]] = "running"]
          \/ status' = [status EXCEPT ![work[l]] = ending[l]]
    BY <1>2 DEF WorkerStep, MarkRunning, AnnounceStart, AnnounceEnd, Announce, Progress, HandlerReturns,
           HandlerRaises, HandlerEnds, Finish, Fail, WriteOutcome, ReportFailure, Pop, SetStatus, rows,
           StartLockedOut, FinishLockedOut, FailLockedOut, Lockout
  <2>5. \A j \in Jobs : status[j] # "none" => status'[j] # "none"
    BY <2>4 DEF TypeOK, Outcomes
  <2> QED
    BY <2>1, <2>3, <2>5, ApartKept DEF HeldBy
<1> QED
  BY <1>1, <1>2

LEMMA ApartRequest ==
  ASSUME TypeOK, Apart,
         \/ \E c \in Submitters : \E k \in Kinds, s \in Scopes : Check(c, k, s)
         \/ \E c \in Submitters : SubmitterStep(c)
         \/ \E c \in Cancellers : FindEvent(c) \/ CancellerStep(c)
  PROVE  Apart'
<1>1. ASSUME NEW c \in Submitters, NEW k \in Kinds, NEW s \in Scopes, Check(c, k, s) PROVE Apart'
  <2>1. \A d \in Submitters, j \in Jobs : HeldBy(d, j)' => HeldBy(d, j)
    BY <1>1 DEF Check, Go, HeldBy, TypeOK, Threads
  <2> QED
    BY <1>1, <2>1, ApartKept DEF Check, rows, worker
<1>2. ASSUME NEW c \in Submitters, Register(c) PROVE Apart'
  <2>1. req[c] \in [at : {"register", "submit", "set", "emit"}, job : Jobs]
    BY <1>2, Asked DEF Register, Threads
  <2>2. \A d \in Submitters, j \in Jobs : HeldBy(d, j)' => HeldBy(d, j)
    BY <1>2, <2>1 DEF Register, Go, HeldBy, TypeOK, Threads
  <2> QED
    BY <1>2, <2>2, ApartKept DEF Register, rows, worker
<1>3. ASSUME NEW c \in Cancellers, FindEvent(c) \/ CancellerStep(c) PROVE Apart'
  <2>1. \E r : Go(c, r)
    BY <1>3 DEF FindEvent, CancellerStep, SetEvent, EmitCancel
  <2>2. \A d \in Submitters : req'[d] = req[d]
    BY <2>1, JobsAssumption DEF Go, TypeOK, Threads
  <2>3. UNCHANGED <<status, queue, work>>
    BY <1>3 DEF FindEvent, CancellerStep, SetEvent, EmitCancel, rows, worker
  <2> QED
    BY <2>2, <2>3, ApartKept DEF HeldBy
<1> QED
  BY <1>1, <1>2, <1>3, ApartInsert, ApartSubmit DEF SubmitterStep

LEMMA ApartAlways == Spec => []Apart
<1>1. Init => Apart
  BY JobsAssumption DEF Init, Idle, Apart, HeldApart, QueuedApart, AtWorkApart, HeldBy, Threads
<1>2. TypeOK /\ Apart /\ [Next]_vars => Apart'
  <2> SUFFICES ASSUME TypeOK, Apart, [Next]_vars PROVE Apart'
    OBVIOUS
  <2>1. CASE UNCHANGED vars
    BY <2>1, ApartKept DEF vars, rows, worker, HeldBy
  <2>2. ASSUME NEW c \in Submitters, Start(c) \/ Retry(c) \/ Resume(c) PROVE Apart'
    BY <2>2, ApartRequest DEF Start, Retry, Resume, TypeOK
  <2>3. CASE MarkInterrupted /\ (Restart \/ OtherProcess)
    <3>1. \A j \in Jobs : status[j] # "none" => status'[j] # "none"
      BY <2>3 DEF MarkInterrupted, TypeOK
    <3>2. \A c \in Submitters, j \in Jobs : HeldBy(c, j)' => HeldBy(c, j)
      BY <2>3 DEF Restart, MemoryLost, OtherProcess, HeldBy, Idle, Threads
    <3>3. /\ queue' = queue \/ queue' = [l \in Lanes |-> <<>>]
          /\ \A l \in Lanes : work'[l] = work[l] \/ work'[l] = NoJob
      BY <2>3 DEF Restart, MemoryLost, OtherProcess, worker
    <3> QED
      BY <3>1, <3>2, <3>3, ApartKept
  <2> QED
    BY <2>1, <2>2, <2>3, ApartRequest, ApartWorker DEF Next, Restart, OtherProcess
<1> QED
  BY Typed, <1>1, <1>2, PTL DEF Spec

\* A job is in one place at a time whatever is retried, cancelled, killed or
\* timed out, so its handler runs at most once in a process.
THEOREM PlacesAreOne == Spec => []OnePlace
<1>1. TypeOK /\ Apart => OnePlace
  <2> SUFFICES ASSUME TypeOK, Apart, NEW j \in Jobs
               PROVE  /\ \A l, m \in Lanes : \A i \in DOMAIN queue[l], k \in DOMAIN queue[m] :
                           queue[l][i] = j /\ queue[m][k] = j => l = m /\ i = k
                      /\ \A l, m \in Lanes : work[l] = j /\ work[m] = j => l = m
                      /\ Held(j) => ~Queued(j) /\ ~AtWork(j)
                      /\ Queued(j) => ~AtWork(j)
    BY DEF OnePlace
  <2>1. \A l, m \in Lanes : \A i \in DOMAIN queue[l], k \in DOMAIN queue[m] :
          queue[l][i] = j /\ queue[m][k] = j => l = m /\ i = k
    BY DEF Apart, QueuedApart
  <2>2. \A l, m \in Lanes : work[l] = j /\ work[m] = j => l = m
    BY JobsAssumption DEF Apart, AtWorkApart
  <2>3. Held(j) => ~Queued(j) /\ ~AtWork(j)
    BY DEF Apart, HeldApart, HeldBy, Held, Queued, AtWork
  <2>4. Queued(j) => ~AtWork(j)
    BY DEF Apart, QueuedApart, Queued, AtWork
  <2> QED
    BY <2>1, <2>2, <2>3, <2>4
<1> QED
  BY Typed, ApartAlways, <1>1, PTL

-----------------------------------------------------------------------------
(***************************************************************************)
(* Rows, while the database answers and nobody else builds the services.   *)
(***************************************************************************)

\* What the row of a worker's job says at each point of _run.
StatusAt(p) ==
  IF p = "start" THEN {"queued"}
  ELSE IF p \in {"started", "handler", "finishing", "failing"} THEN {"running"} ELSE Ended

\* A job that waits is queued, in its own lane.
Waiting ==
  /\ \A c \in Submitters, j \in Jobs : HeldBy(c, j) => status[j] = "queued"
  /\ \A l \in Lanes : \A i \in DOMAIN queue[l] :
       status[queue[l][i]] = "queued" /\ Lane(kind[queue[l][i]]) = l

\* A job at work is in its own lane and as far as its worker.
Manned ==
  \A l \in Lanes : work[l] # NoJob => Lane(kind[work[l]]) = l /\ status[work[l]] \in StatusAt(at[l])

\* NoOrphans, and a running job has a worker.
Accounted ==
  \A j \in Jobs :
    /\ status[j] = "queued" => Held(j) \/ Queued(j) \/ AtWork(j)
    /\ status[j] = "running" => AtWork(j)

Settled == Waiting /\ Manned /\ Accounted

\* What each step may do to the rows: insert one, move the row of a worker's
\* job on, or close every active one.
LEMMA RowsStep ==
  ASSUME MaxOthers = 0, MaxLockouts = 0, TypeOK, [Next]_vars
  PROVE  \/ UNCHANGED <<status, kind>>
         \/ \E c \in Submitters : Insert(c)
         \/ \E l \in Lanes : MarkRunning(l) \/ Finish(l) \/ Fail(l)
         \/ Restart
<1>1. ~(others < MaxOthers) /\ ~(lockouts < MaxLockouts)
  BY DEF TypeOK
<1>2. CASE UNCHANGED vars
  BY <1>2 DEF vars, rows
<1>3. ASSUME NEW c \in Submitters, Start(c) \/ Retry(c) \/ Resume(c) PROVE UNCHANGED <<status, kind>>
  BY <1>3 DEF Start, Retry, Resume, Check, rows
<1>4. ASSUME NEW c \in Submitters, SubmitterStep(c), ~Insert(c) PROVE UNCHANGED <<status, kind>>
  BY <1>4 DEF SubmitterStep, Register, Submit, rows
<1>5. ASSUME NEW c \in Cancellers, FindEvent(c) \/ CancellerStep(c) PROVE UNCHANGED <<status, kind>>
  BY <1>5 DEF FindEvent, CancellerStep, SetEvent, EmitCancel, rows
<1>6. ASSUME NEW l \in Lanes, WorkerStep(l), ~(MarkRunning(l) \/ Finish(l) \/ Fail(l))
      PROVE  UNCHANGED <<status, kind>>
  BY <1>6 DEF WorkerStep, Take, AnnounceStart, AnnounceEnd, Announce, Progress, HandlerReturns,
         HandlerRaises, HandlerEnds, ReportFailure, Pop, rows
<1>7. ASSUME NEW l \in Lanes PROVE ~(StartLockedOut(l) \/ FinishLockedOut(l) \/ FailLockedOut(l))
  BY <1>1 DEF StartLockedOut, FinishLockedOut, FailLockedOut, Lockout
<1>8. ~OtherProcess
  BY <1>1 DEF OtherProcess
<1> QED
  BY <1>2, <1>3, <1>4, <1>5, <1>6, <1>7, <1>8 DEF Next

LEMMA SettledSubmitter ==
  ASSUME TypeOK, Apart, Settled, NEW c \in Submitters, SubmitterStep(c)
  PROVE  Settled'
<1>1. CASE Insert(c)
  <2>1. PICK j \in Jobs : /\ status[j] = "none"
                          /\ status' = [status EXCEPT ![j] = "queued"]
                          /\ kind' = [kind EXCEPT ![j] = req[c].kind]
                          /\ Go(c, [at |-> "register", job |-> j])
    BY <1>1 DEF Insert
  <2>2. UNCHANGED <<queue, work, at>>
    BY <1>1 DEF Insert, worker
  <2>3. \A d \in Submitters, i \in Jobs : HeldBy(d, i)' <=> (IF d = c THEN i = j ELSE HeldBy(d, i))
    BY <2>1 DEF Go, HeldBy, TypeOK, Threads
  <2>4. \A d \in Submitters, i \in Jobs : d = c => ~HeldBy(d, i)
    BY <1>1 DEF Insert, HeldBy
  <2>5. \A l \in Lanes : work[l] # j /\ \A i \in DOMAIN queue[l] : queue[l][i] # j
    BY <2>1, JobsAssumption DEF Apart, QueuedApart, AtWorkApart
  <2>6. \A i \in Jobs \ {j} : status'[i] = status[i] /\ kind'[i] = kind[i]
    BY <2>1 DEF TypeOK
  <2>7. status'[j] = "queued" /\ Held(j)'
    BY <2>1, <2>3 DEF TypeOK, Held, HeldBy
  <2>8. \A i \in Jobs \ {j} : (Held(i) => Held(i)') /\ (Queued(i) => Queued(i)') /\ (AtWork(i) => AtWork(i)')
    BY <2>2, <2>3, <2>4 DEF Held, HeldBy, Queued, AtWork
  <2>9. Waiting'
    <3>1. \A d \in Submitters, i \in Jobs : HeldBy(d, i)' => status'[i] = "queued"
      BY <2>3, <2>6, <2>7 DEF Settled, Waiting
    <3>2. \A l \in Lanes : \A i \in DOMAIN queue[l] : queue[l][i] \in Jobs \ {j}
      BY <2>5 DEF TypeOK
    <3>3. \A l \in Lanes : \A i \in DOMAIN queue'[l] :
            status'[queue'[l][i]] = "queued" /\ Lane(kind'[queue'[l][i]]) = l
      BY <2>2, <2>6, <3>2 DEF Settled, Waiting
    <3> QED
      BY <3>1, <3>3 DEF Waiting
  <2>10. Manned'
    BY <2>2, <2>5, <2>6 DEF Settled, Manned, TypeOK
  <2>11. Accounted'
    BY <2>6, <2>7, <2>8 DEF Settled, Accounted
  <2> QED
    BY <2>9, <2>10, <2>11 DEF Settled
<1>2. CASE Register(c)
  <2>1. req[c] \in [at : {"register", "submit", "set", "emit"}, job : Jobs]
    BY <1>2, Asked DEF Register, Threads
  <2>2. \A d \in Submitters, j \in Jobs : HeldBy(d, j)' <=> HeldBy(d, j)
    BY <1>2, <2>1 DEF Register, Go, HeldBy, TypeOK, Threads
  <2>3. UNCHANGED <<status, kind, queue, work, at>>
    BY <1>2 DEF Register, rows, worker
  <2>4. \A j \in Jobs : (Held(j) => Held(j)') /\ (Queued(j) => Queued(j)') /\ (AtWork(j) => AtWork(j)')
    BY <2>2, <2>3 DEF Held, HeldBy, Queued, AtWork
  <2> QED
    BY <2>2, <2>3, <2>4 DEF Settled, Waiting, Manned, Accounted
<1>3. CASE Submit(c)
  <2>0. PICK j \in Jobs : j = req[c].job
    BY <1>3, Asked DEF Submit, Threads
  <2> DEFINE n == Lane(kind[j])
  <2>1. HeldBy(c, j) /\ n \in Lanes
    BY <1>3, <2>0 DEF Submit, HeldBy, Lane, Lanes
  <2>2. queue' = [queue EXCEPT ![n] = Append(@, j)] /\ UNCHANGED <<status, kind, work, at>>
    BY <1>3, <2>0 DEF Submit, rows, worker
  <2>3. \A d \in Submitters, i \in Jobs : HeldBy(d, i)' <=> d # c /\ HeldBy(d, i)
    BY <1>3 DEF Submit, Go, HeldBy, Idle, TypeOK, Threads
  <2>4. status[j] = "queued" /\ \A i \in Jobs : HeldBy(c, i) => i = j
    BY <2>1 DEF Settled, Waiting, HeldBy
  <2>5. n = Lane(kind[j])
    OBVIOUS
  <2> HIDE DEF n
  <2>6. /\ \A l \in Lanes \ {n} : queue'[l] = queue[l]
        /\ DOMAIN queue'[n] = DOMAIN queue[n] \cup {Len(queue[n]) + 1}
        /\ queue'[n][Len(queue[n]) + 1] = j
        /\ \A i \in DOMAIN queue[n] : queue'[n][i] = queue[n][i]
    BY <2>1, <2>2, Appended DEF TypeOK
  <2>7. \A l \in Lanes : \A i \in DOMAIN queue'[l] :
          \/ i \in DOMAIN queue[l] /\ queue'[l][i] = queue[l][i]
          \/ l = n /\ queue'[l][i] = j
    BY <2>6
  <2>8. Queued(j)'
    <3>1. Len(queue[n]) + 1 \in DOMAIN queue'[n] /\ queue'[n][Len(queue[n]) + 1] = j
      BY <2>6
    <3> QED
      BY <2>1, <3>1 DEF Queued
  <2>9. \A i \in Jobs : Queued(i) => Queued(i)'
    BY <2>6 DEF Queued
  <2>10. \A i \in Jobs : Held(i) => Held(i)' \/ i = j
    BY <2>3, <2>4 DEF Held, HeldBy
  <2>11. Waiting'
    BY <2>2, <2>3, <2>4, <2>5, <2>7 DEF Settled, Waiting
  <2>12. Manned'
    BY <2>2 DEF Settled, Manned
  <2>13. Accounted'
    <3>1. \A i \in Jobs : Held(i) \/ Queued(i) => Held(i)' \/ Queued(i)'
      BY <2>8, <2>9, <2>10
    <3>2. \A i \in Jobs : AtWork(i)' <=> AtWork(i)
      BY <2>2 DEF AtWork
    <3> QED
      BY <2>2, <3>1, <3>2 DEF Settled, Accounted
  <2> QED
    BY <2>11, <2>12, <2>13 DEF Settled
<1> QED
  BY <1>1, <1>2, <1>3 DEF SubmitterStep

\* A step that leaves rows and places alone, and workers no further than their rows.
LEMMA SettledKept ==
  ASSUME TypeOK, Settled, UNCHANGED <<status, kind, queue, work>>,
         \A d \in Submitters : req'[d] = req[d] \/ (req[d] = Idle /\ req'[d].at = "insert"),
         \A l \in Lanes : work[l] # NoJob => StatusAt(at'[l]) = StatusAt(at[l])
  PROVE  Settled'
<1>1. \A d \in Submitters, j \in Jobs : HeldBy(d, j)' <=> HeldBy(d, j)
  BY DEF HeldBy, Idle
<1>2. \A j \in Jobs : (Held(j) => Held(j)') /\ (Queued(j) => Queued(j)') /\ (AtWork(j) => AtWork(j)')
  BY <1>1 DEF Held, HeldBy, Queued, AtWork
<1> QED
  BY <1>1, <1>2 DEF Settled, Waiting, Manned, Accounted

LEMMA SettledWorker ==
  ASSUME TypeOK, Apart, Settled, NEW l \in Lanes, WorkerStep(l)
  PROVE  Settled'
<1>1. CASE Take(l)
  <2> DEFINE j == Head(queue[l])
  <2>1. queue[l] \in Seq(Jobs) /\ queue[l] # <<>> /\ l \in Lanes
    BY <1>1 DEF Take, TypeOK
  <2>2. j \in Jobs /\ 1 \in DOMAIN queue[l] /\ queue[l][1] = j
    BY <2>1, Taken
  <2>3. /\ work' = [work EXCEPT ![l] = j] /\ at' = [at EXCEPT ![l] = "start"]
        /\ work[l] = NoJob
        /\ queue' = [queue EXCEPT ![l] = Tail(@)]
        /\ UNCHANGED <<status, kind, req>>
    BY <1>1 DEF Take, rows, Worker, TypeOK
  <2>4. status[j] = "queued" /\ Lane(kind[j]) = l
    BY <2>2 DEF Settled, Waiting
  <2> HIDE DEF j
  <2>5. \A i \in DOMAIN queue'[l] :
          i \in Nat /\ i + 1 \in DOMAIN queue[l] /\ i + 1 # 1 /\ queue'[l][i] = queue[l][i + 1]
    BY <2>1, <2>3, Taken DEF TypeOK
  <2>6. \A i \in DOMAIN queue[l] : i = 1 \/ (i - 1 \in DOMAIN queue'[l] /\ queue'[l][i - 1] = queue[l][i])
    BY <2>1, <2>3 DEF TypeOK
  <2>7. \A m \in Lanes \ {l} : queue'[m] = queue[m] /\ work'[m] = work[m] /\ at'[m] = at[m]
    BY <2>3 DEF TypeOK
  <2>8. work'[l] = j /\ at'[l] = "start"
    BY <2>3 DEF TypeOK
  <2>9. \A i \in Jobs : /\ Held(i) => Held(i)'
                        /\ Queued(i) => Queued(i)' \/ AtWork(i)'
                        /\ AtWork(i) => AtWork(i)'
    <3> SUFFICES ASSUME NEW i \in Jobs
                 PROVE  /\ Held(i) => Held(i)'
                        /\ Queued(i) => Queued(i)' \/ AtWork(i)'
                        /\ AtWork(i) => AtWork(i)'
      OBVIOUS
    <3>1. Held(i) => Held(i)'
      BY <2>3 DEF Held
    <3>2. Queued(i) => Queued(i)' \/ AtWork(i)'
      BY <2>2, <2>6, <2>7, <2>8 DEF Queued, AtWork
    <3>3. AtWork(i) => AtWork(i)'
      BY <2>3, <2>7, JobsAssumption DEF AtWork
    <3> QED
      BY <3>1, <3>2, <3>3
  <2>10. Waiting'
    BY <2>3, <2>5, <2>7 DEF Settled, Waiting, HeldBy
  <2>11. Manned'
    BY <2>3, <2>4, <2>7, <2>8 DEF Settled, Manned, StatusAt
  <2>12. Accounted'
    BY <2>3, <2>9 DEF Settled, Accounted
  <2> QED
    BY <2>10, <2>11, <2>12 DEF Settled
<1>2. CASE MarkRunning(l) \/ Finish(l) \/ Fail(l)
  <2> DEFINE j == work[l]
  <2>1. PICK v \in Statuses, to \in Points :
          /\ status' = [status EXCEPT ![j] = v] /\ at' = [at EXCEPT ![l] = to]
          /\ v \in StatusAt(to) /\ v # "queued" /\ at[l] # "idle"
    BY <1>2 DEF MarkRunning, Finish, Fail, WriteOutcome, SetStatus, Worker, TypeOK, StatusAt, Ended,
           Outcomes, Statuses, Active, Points, Before, After
  <2>2. UNCHANGED <<kind, queue, work, req>>
    BY <1>2 DEF MarkRunning, Finish, Fail, WriteOutcome
  <2>3. j \in Jobs /\ j # NoJob
    BY <2>1, JobsAssumption DEF TypeOK
  <2>4. /\ \A m \in Lanes : work[m] = j => m = l
        /\ \A m \in Lanes : \A i \in DOMAIN queue[m] : queue[m][i] # j
        /\ \A c \in Submitters : ~HeldBy(c, j)
    BY <2>3 DEF Apart, HeldApart, QueuedApart, AtWorkApart
  <2>5. AtWork(j)
    BY DEF AtWork
  <2>6. work[l] = j
    OBVIOUS
  <2> HIDE DEF j
  <2>7. status'[j] = v /\ \A i \in Jobs \ {j} : status'[i] = status[i]
    BY <2>1, <2>3 DEF TypeOK
  <2>8. Waiting'
    BY <2>2, <2>4, <2>7 DEF Settled, Waiting, HeldBy, TypeOK
  <2>9. Manned'
    BY <2>1, <2>2, <2>4, <2>6, <2>7 DEF Settled, Manned, TypeOK
  <2>10. Accounted'
    BY <2>1, <2>2, <2>5, <2>7 DEF Settled, Accounted, Held, Queued, AtWork
  <2> QED
    BY <2>8, <2>9, <2>10 DEF Settled
<1>3. CASE AnnounceStart(l) \/ AnnounceEnd(l) \/ HandlerReturns(l) \/ HandlerRaises(l) \/ ReportFailure(l)
  <2>1. UNCHANGED <<status, kind, queue, work, req>>
    BY <1>3 DEF AnnounceStart, AnnounceEnd, Announce, HandlerReturns, HandlerRaises, HandlerEnds,
           ReportFailure, rows
  <2>2. PICK to \in Points : at' = [at EXCEPT ![l] = to] /\ StatusAt(at[l]) = StatusAt(to)
    BY <1>3 DEF AnnounceStart, AnnounceEnd, Announce, HandlerReturns, HandlerRaises, HandlerEnds,
           ReportFailure, Worker, StatusAt, Points, Before, After
  <2> QED
    BY <2>1, <2>2, SettledKept DEF TypeOK
<1>4. CASE Progress(l)
  BY <1>4, SettledKept DEF Progress, rows, worker
<1>5. CASE Pop(l)
  <2>1. /\ work' = [work EXCEPT ![l] = NoJob] /\ at' = [at EXCEPT ![l] = "idle"]
        /\ UNCHANGED <<status, kind, queue, req>>
    BY <1>5 DEF Pop, Leave, rows
  <2>2. work[l] \in Jobs /\ status[work[l]] \in Ended
    BY <1>5 DEF Pop, TypeOK, Settled, Manned, StatusAt
  <2>3. \A m \in Lanes \ {l} : work'[m] = work[m] /\ at'[m] = at[m]
    BY <2>1 DEF TypeOK
  <2>4. \A i \in Jobs : AtWork(i) => AtWork(i)' \/ status[i] \in Ended
    BY <2>2, <2>3 DEF AtWork
  <2>5. Waiting'
    BY <2>1 DEF Settled, Waiting, HeldBy
  <2>6. Manned'
    BY <2>1, <2>3 DEF Settled, Manned, TypeOK
  <2>7. Accounted'
    BY <2>1, <2>4 DEF Settled, Accounted, Held, Queued, Ended, Outcomes
  <2> QED
    BY <2>5, <2>6, <2>7 DEF Settled
<1> QED
  BY <1>1, <1>2, <1>3, <1>4, <1>5 DEF WorkerStep

LEMMA SettledStep ==
  ASSUME MaxOthers = 0, MaxLockouts = 0, TypeOK, Apart, Settled, [Next]_vars
  PROVE  Settled'
<1>1. CASE UNCHANGED vars
  BY <1>1, SettledKept DEF vars, rows, worker
<1>2. ASSUME NEW c \in Submitters, NEW k \in Kinds, NEW s \in Scopes, Check(c, k, s) PROVE Settled'
  BY <1>2, SettledKept DEF Check, Go, TypeOK, Threads, rows, worker
<1>3. ASSUME NEW c \in Submitters, Start(c) \/ Retry(c) \/ Resume(c) PROVE Settled'
  BY <1>2, <1>3 DEF Start, Retry, Resume, TypeOK
<1>4. ASSUME NEW c \in Cancellers, FindEvent(c) \/ CancellerStep(c) PROVE Settled'
  <2>1. \E r : Go(c, r)
    BY <1>4 DEF FindEvent, CancellerStep, SetEvent, EmitCancel
  <2>2. \A d \in Submitters : req'[d] = req[d]
    BY <2>1, JobsAssumption DEF Go, TypeOK, Threads
  <2>3. UNCHANGED <<status, kind, queue, work, at>>
    BY <1>4 DEF FindEvent, CancellerStep, SetEvent, EmitCancel, rows, worker
  <2> QED
    BY <2>2, <2>3, SettledKept
<1>5. ~(others < MaxOthers) /\ ~(lockouts < MaxLockouts)
  BY DEF TypeOK
<1>6. ~OtherProcess /\ \A l \in Lanes : ~(StartLockedOut(l) \/ FinishLockedOut(l) \/ FailLockedOut(l))
  BY <1>5 DEF OtherProcess, StartLockedOut, FinishLockedOut, FailLockedOut, Lockout
<1>7. CASE Restart
  <2>1. \A j \in Jobs : status'[j] \notin Active
    BY <1>7 DEF Restart, MarkInterrupted, Active
  <2>2. /\ queue' = [l \in Lanes |-> <<>>] /\ work' = [l \in Lanes |-> NoJob]
        /\ req' = [c \in Threads |-> Idle]
    BY <1>7 DEF Restart, MemoryLost
  <2> QED
    BY <2>1, <2>2 DEF Settled, Waiting, Manned, Accounted, HeldBy, Idle, Threads, Active
<1> QED
  BY <1>1, <1>3, <1>4, <1>6, <1>7, SettledSubmitter, SettledWorker DEF Next

LEMMA SettledInit == Init => Settled
  BY DEF Init, Settled, Waiting, Manned, Accounted, HeldBy, Idle, Threads

LEMMA SettledAlways ==
  ASSUME MaxOthers = 0, MaxLockouts = 0
  PROVE  Spec => []Settled
<1>1. TypeOK /\ Apart /\ Settled /\ [Next]_vars => Settled'
  BY SettledStep
<1> QED
  BY Typed, ApartAlways, SettledInit, <1>1, PTL DEF Spec

\* Rows of ended jobs are not written again.
LEMMA EndedKept ==
  ASSUME MaxOthers = 0, MaxLockouts = 0, TypeOK, Settled, [Next]_vars, NEW j \in Jobs,
         status[j] \in Ended
  PROVE  status'[j] = status[j]
<1>1. CASE UNCHANGED <<status, kind>>
  BY <1>1
<1>2. CASE \E c \in Submitters : Insert(c)
  BY <1>2 DEF Insert, TypeOK, Ended, Outcomes
<1>3. ASSUME NEW l \in Lanes, MarkRunning(l) \/ Finish(l) \/ Fail(l) PROVE status'[j] = status[j]
  <2>1. at[l] \in {"start", "finishing", "failing"} /\ work[l] # NoJob
    BY <1>3 DEF MarkRunning, Finish, Fail, WriteOutcome, Worker, TypeOK
  <2>2. status[work[l]] \in Active
    BY <2>1 DEF Settled, Manned, StatusAt, Active
  <2>3. work[l] # j
    BY <2>2 DEF Active, Ended, Outcomes
  <2> QED
    BY <1>3, <2>3 DEF MarkRunning, Finish, Fail, WriteOutcome, SetStatus, TypeOK
<1>4. CASE Restart
  BY <1>4 DEF Restart, MarkInterrupted, Active, Ended, Outcomes
<1> QED
  BY <1>1, <1>2, <1>3, <1>4, RowsStep

\* While no statement times out and no other process builds the services, the
\* row of an ended job is never written again.
THEOREM OutcomesAreFinal ==
  ASSUME MaxOthers = 0, MaxLockouts = 0
  PROVE  Spec => [][\A j \in Jobs : status[j] \in Ended => status'[j] = status[j]]_vars
<1>1. TypeOK /\ Settled /\ [Next]_vars =>
        [\A j \in Jobs : status[j] \in Ended => status'[j] = status[j]]_vars
  BY EndedKept
<1> QED
  BY SettledAlways, Typed, <1>1, PTL DEF Spec

\* Under the same assumptions no active row is forgotten: a request, a queue or
\* a worker of the running process has it.
THEOREM NothingOrphaned ==
  ASSUME MaxOthers = 0, MaxLockouts = 0
  PROVE  Spec => []NoOrphans
<1>1. Settled => NoOrphans
  BY DEF Settled, Accounted, NoOrphans, Active
<1> QED
  BY SettledAlways, <1>1, PTL

\* Under the same assumptions a lane runs one job at a time.
THEOREM LanesAreSerial ==
  ASSUME MaxOthers = 0, MaxLockouts = 0
  PROVE  Spec => []LaneSerial
<1>1. TypeOK /\ Settled => LaneSerial
  <2> SUFFICES ASSUME TypeOK, Settled, NEW j \in Jobs, NEW k \in Jobs,
                      status[j] = "running", status[k] = "running", Lane(kind[j]) = Lane(kind[k])
               PROVE  j = k
    BY DEF LaneSerial
  <2>1. PICK l \in Lanes : work[l] = j
    BY DEF Settled, Accounted, AtWork
  <2>2. PICK m \in Lanes : work[m] = k
    BY DEF Settled, Accounted, AtWork
  <2>3. l = Lane(kind[j]) /\ m = Lane(kind[k])
    BY <2>1, <2>2, JobsAssumption DEF Settled, Manned
  <2> QED
    BY <2>1, <2>2, <2>3
<1> QED
  BY SettledAlways, Typed, <1>1, PTL

\* What a step adds to the timeline of a job: nothing, an event that is not a
\* status, or the status of the row.
LEMMA TimelineStep ==
  ASSUME MaxOthers = 0, MaxLockouts = 0, TypeOK, [Next]_vars
  PROVE  \/ UNCHANGED log
         \/ UNCHANGED status /\ \E j \in Jobs, e \in {"progress", "cancel"} : Emit(j, e)
         \/ UNCHANGED status /\ \E j \in Jobs : Emit(j, status[j])
<1>1. ~(others < MaxOthers) /\ ~(lockouts < MaxLockouts)
  BY DEF TypeOK
<1>2. CASE UNCHANGED vars
  BY <1>2 DEF vars
<1>3. ASSUME NEW c \in Submitters, Start(c) \/ Retry(c) \/ Resume(c) \/ SubmitterStep(c)
      PROVE  UNCHANGED log
  BY <1>3 DEF Start, Retry, Resume, Check, SubmitterStep, Insert, Register, Submit
<1>4. ASSUME NEW c \in Cancellers, FindEvent(c) \/ SetEvent(c) PROVE UNCHANGED log
  BY <1>4 DEF FindEvent, SetEvent
<1>5. ASSUME NEW c \in Cancellers, EmitCancel(c)
      PROVE  UNCHANGED status /\ \E j \in Jobs : Emit(j, "cancel")
  BY <1>5, Asked DEF EmitCancel, Threads, rows
<1>6. ASSUME NEW l \in Lanes, WorkerStep(l)
      PROVE  \/ UNCHANGED log
             \/ UNCHANGED status /\ \E j \in Jobs : Emit(j, "progress")
             \/ UNCHANGED status /\ \E j \in Jobs : Emit(j, status[j])
  <2>1. at[l] # "idle" => work[l] \in Jobs
    BY DEF TypeOK
  <2>2. CASE AnnounceStart(l) \/ AnnounceEnd(l)
    BY <2>1, <2>2 DEF AnnounceStart, AnnounceEnd, Announce, Worker, rows
  <2>3. CASE Progress(l) \/ ReportFailure(l)
    BY <2>1, <2>3 DEF Progress, ReportFailure, Worker, rows
  <2> QED
    BY <1>6, <2>2, <2>3 DEF WorkerStep, Take, MarkRunning, HandlerReturns, HandlerRaises, HandlerEnds,
       Finish, Fail, WriteOutcome, Pop
<1>7. ~OtherProcess /\ \A l \in Lanes : ~(StartLockedOut(l) \/ FinishLockedOut(l) \/ FailLockedOut(l))
  BY <1>1 DEF OtherProcess, StartLockedOut, FinishLockedOut, FailLockedOut, Lockout
<1>8. CASE Restart
  BY <1>8 DEF Restart
<1> QED
  BY <1>2, <1>3, <1>4, <1>5, <1>6, <1>7, <1>8 DEF Next, CancellerStep

\* Under the same assumptions the timeline never announces an outcome that the
\* row does not have.
THEOREM TimelinesAreTrue ==
  ASSUME MaxOthers = 0, MaxLockouts = 0
  PROVE  Spec => []TimelineIsTrue
<1>1. Init => TimelineIsTrue
  BY DEF Init, TimelineIsTrue
<1>2. TypeOK /\ Settled /\ TimelineIsTrue /\ [Next]_vars => TimelineIsTrue'
  <2> SUFFICES ASSUME TypeOK, Settled, TimelineIsTrue, [Next]_vars,
                      NEW j \in Jobs, NEW i \in DOMAIN log'[j], log'[j][i] \in Ended
               PROVE  log'[j][i] = status'[j]
    BY DEF TimelineIsTrue
  <2>1. CASE i \in DOMAIN log[j] /\ log'[j][i] = log[j][i]
    BY <2>1, EndedKept DEF TimelineIsTrue
  <2>2. CASE UNCHANGED log
    BY <2>1, <2>2
  <2>3. ASSUME NEW k \in Jobs, NEW e \in Statuses \cup {"progress", "cancel"}, Emit(k, e),
               UNCHANGED status, k = j /\ e \in Ended => e = status[j]
        PROVE  log'[j][i] = status'[j]
    <3>1. CASE k # j
      BY <2>1, <2>3, <3>1 DEF Emit, TypeOK
    <3>2. CASE k = j
      <4>1. log[j] \in Seq(Statuses \cup {"progress", "cancel"}) /\ log'[j] = Append(log[j], e)
        BY <2>3, <3>2 DEF Emit, TypeOK
      <4>2. (i \in DOMAIN log[j] /\ log'[j][i] = log[j][i]) \/ log'[j][i] = e
        BY <4>1, Appended
      <4> QED
        BY <2>1, <2>3, <3>2, <4>2
    <3> QED
      BY <3>1, <3>2
  <2>4. \A k \in Jobs : status[k] \in Statuses
    BY DEF TypeOK
  <2> QED
    BY <2>2, <2>3, <2>4, TimelineStep DEF Ended, Outcomes
<1> QED
  BY SettledAlways, Typed, <1>1, <1>2, PTL DEF Spec

\* A job that waits, or that its worker has only taken, is queued in its row.
Unstarted ==
  /\ \A c \in Submitters, j \in Jobs : HeldBy(c, j) => status[j] = "queued"
  /\ \A l \in Lanes : \A i \in DOMAIN queue[l] : status[queue[l][i]] = "queued"
  /\ \A l \in Lanes : at[l] = "start" => status[work[l]] = "queued"

\* A step that changes no row and gives no job a new place.
LEMMA UnstartedKept ==
  ASSUME TypeOK, Unstarted, UNCHANGED <<status, queue>>,
         \A d \in Submitters, j \in Jobs : HeldBy(d, j)' => HeldBy(d, j),
         \A l \in Lanes : at'[l] = "start" => at[l] = "start" /\ work'[l] = work[l]
  PROVE  Unstarted'
BY DEF Unstarted

LEMMA UnstartedSubmitter ==
  ASSUME TypeOK, Apart, Unstarted, NEW c \in Submitters, SubmitterStep(c)
  PROVE  Unstarted'
<1>1. CASE Insert(c)
  <2>1. PICK j \in Jobs : /\ status[j] = "none"
                          /\ status' = [status EXCEPT ![j] = "queued"]
                          /\ Go(c, [at |-> "register", job |-> j])
    BY <1>1 DEF Insert
  <2>2. UNCHANGED <<queue, work, at>>
    BY <1>1 DEF Insert, worker
  <2>3. \A d \in Submitters, i \in Jobs : HeldBy(d, i)' => IF d = c THEN i = j ELSE HeldBy(d, i)
    BY <2>1 DEF Go, HeldBy, TypeOK, Threads
  <2>4. \A i \in Jobs : status'[i] = IF i = j THEN "queued" ELSE status[i]
    BY <2>1 DEF TypeOK
  <2>5. \A l \in Lanes : at[l] = "start" => work[l] \in Jobs
    BY DEF TypeOK
  <2>6. \A l \in Lanes : \A i \in DOMAIN queue[l] : queue[l][i] \in Jobs
    BY DEF TypeOK
  <2> QED
    BY <2>2, <2>3, <2>4, <2>5, <2>6 DEF Unstarted
<1>2. CASE Register(c)
  <2>1. req[c] \in [at : {"register", "submit", "set", "emit"}, job : Jobs]
    BY <1>2, Asked DEF Register, Threads
  <2>2. \A d \in Submitters, j \in Jobs : HeldBy(d, j)' => HeldBy(d, j)
    BY <1>2, <2>1 DEF Register, Go, HeldBy, TypeOK, Threads
  <2> QED
    BY <1>2, <2>2, UnstartedKept DEF Register, rows, worker
<1>3. CASE Submit(c)
  <2>1. PICK j \in Jobs : j = req[c].job
    BY <1>3, Asked DEF Submit, Threads
  <2> DEFINE n == Lane(kind[j])
  <2>2. HeldBy(c, j) /\ n \in Lanes
    BY <1>3, <2>1 DEF Submit, HeldBy, Lane, Lanes
  <2>3. queue' = [queue EXCEPT ![n] = Append(@, j)] /\ UNCHANGED <<status, work, at>>
    BY <1>3, <2>1 DEF Submit, rows, worker
  <2>4. \A d \in Submitters, i \in Jobs : HeldBy(d, i)' => HeldBy(d, i)
    BY <1>3 DEF Submit, Go, HeldBy, Idle, TypeOK, Threads
  <2>5. status[j] = "queued"
    BY <2>2 DEF Unstarted
  <2> HIDE DEF n
  <2>6. \A l \in Lanes : \A i \in DOMAIN queue'[l] :
          \/ i \in DOMAIN queue[l] /\ queue'[l][i] = queue[l][i]
          \/ queue'[l][i] = j
    BY <2>2, <2>3, Appended DEF TypeOK
  <2> QED
    BY <2>3, <2>4, <2>5, <2>6 DEF Unstarted
<1> QED
  BY <1>1, <1>2, <1>3 DEF SubmitterStep

LEMMA UnstartedWorker ==
  ASSUME TypeOK, Apart, Unstarted, NEW l \in Lanes,
         WorkerStep(l) \/ StartLockedOut(l) \/ FinishLockedOut(l) \/ FailLockedOut(l)
  PROVE  Unstarted'
<1>1. CASE Take(l)
  <2>1. queue[l] \in Seq(Jobs) /\ queue[l] # <<>>
    BY <1>1 DEF Take, TypeOK
  <2>2. /\ work' = [work EXCEPT ![l] = Head(queue[l])] /\ at' = [at EXCEPT ![l] = "start"]
        /\ queue' = [queue EXCEPT ![l] = Tail(@)] /\ UNCHANGED <<status, req>>
    BY <1>1 DEF Take, rows, Worker
  <2>3. Head(queue[l]) = queue[l][1] /\ 1 \in DOMAIN queue[l]
    BY <2>1, Taken
  <2>4. \A i \in DOMAIN queue'[l] : i + 1 \in DOMAIN queue[l] /\ queue'[l][i] = queue[l][i + 1]
    BY <2>1, <2>2, Taken DEF TypeOK
  <2>5. \A m \in Lanes \ {l} : queue'[m] = queue[m] /\ work'[m] = work[m] /\ at'[m] = at[m]
    BY <2>2 DEF TypeOK
  <2>6. work'[l] = queue[l][1]
    BY <2>2, <2>3 DEF TypeOK
  <2> QED
    BY <2>2, <2>3, <2>4, <2>5, <2>6 DEF Unstarted, HeldBy
<1>2. CASE MarkRunning(l) \/ Finish(l) \/ Fail(l)
  <2> DEFINE j == work[l]
  <2>1. PICK v, to : /\ status' = [status EXCEPT ![j] = v] /\ at' = [at EXCEPT ![l] = to]
                     /\ to # "start" /\ at[l] # "idle"
    BY <1>2 DEF MarkRunning, Finish, Fail, WriteOutcome, SetStatus, Worker
  <2>2. UNCHANGED <<queue, work, req>>
    BY <1>2 DEF MarkRunning, Finish, Fail, WriteOutcome
  <2>3. j \in Jobs /\ j # NoJob
    BY <2>1, JobsAssumption DEF TypeOK
  <2>4. /\ \A m \in Lanes : work[m] = j => m = l
        /\ \A m \in Lanes : \A i \in DOMAIN queue[m] : queue[m][i] # j
        /\ \A c \in Submitters : ~HeldBy(c, j)
    BY <2>3 DEF Apart, HeldApart, QueuedApart, AtWorkApart
  <2> HIDE DEF j
  <2>5. \A i \in Jobs \ {j} : status'[i] = status[i]
    BY <2>1 DEF TypeOK
  <2>6. at'[l] # "start" /\ \A m \in Lanes \ {l} : at'[m] = at[m]
    BY <2>1 DEF TypeOK
  <2>7. \A m \in Lanes \ {l} : at[m] = "start" => work[m] \in Jobs \ {j}
    BY <2>4 DEF TypeOK
  <2>8. \A m \in Lanes : \A i \in DOMAIN queue[m] : queue[m][i] \in Jobs \ {j}
    BY <2>4 DEF TypeOK
  <2> QED
    BY <2>2, <2>4, <2>5, <2>6, <2>7, <2>8 DEF Unstarted, HeldBy
<1>3. CASE /\ ~Take(l) /\ ~(MarkRunning(l) \/ Finish(l) \/ Fail(l))
  <2>1. UNCHANGED <<status, queue, req>>
    BY <1>3 DEF WorkerStep, AnnounceStart, AnnounceEnd, Announce, Progress, HandlerReturns, HandlerRaises,
           HandlerEnds, ReportFailure, Pop, StartLockedOut, FinishLockedOut, FailLockedOut, Lockout, rows
  <2>2. \/ \E to : at' = [at EXCEPT ![l] = to] /\ to # "start"
        \/ UNCHANGED at /\ UNCHANGED work
    BY <1>3 DEF WorkerStep, AnnounceStart, AnnounceEnd, Announce, Progress, HandlerReturns, HandlerRaises,
           HandlerEnds, ReportFailure, Pop, Leave, Worker, StartLockedOut, FinishLockedOut, FailLockedOut,
           worker
  <2>3. work' = work \/ work' = [work EXCEPT ![l] = NoJob]
    BY <1>3 DEF WorkerStep, AnnounceStart, AnnounceEnd, Announce, Progress, HandlerReturns, HandlerRaises,
           HandlerEnds, ReportFailure, Pop, Leave, StartLockedOut, FinishLockedOut, FailLockedOut, worker
  <2>4. \A m \in Lanes : at'[m] = "start" => at[m] = "start" /\ work'[m] = work[m]
    BY <2>2, <2>3 DEF TypeOK
  <2> QED
    BY <2>1, <2>4, UnstartedKept DEF HeldBy
<1> QED
  BY <1>1, <1>2, <1>3

LEMMA UnstartedAlways ==
  ASSUME MaxOthers = 0
  PROVE  Spec => []Unstarted
<1>1. Init => Unstarted
  BY DEF Init, Unstarted, HeldBy, Idle, Threads
<1>2. TypeOK /\ Apart /\ Unstarted /\ [Next]_vars => Unstarted'
  <2> SUFFICES ASSUME TypeOK, Apart, Unstarted, [Next]_vars PROVE Unstarted'
    OBVIOUS
  <2>1. CASE UNCHANGED vars
    BY <2>1, UnstartedKept DEF vars, rows, worker, HeldBy
  <2>2. ASSUME NEW c \in Submitters, NEW k \in Kinds, NEW s \in Scopes, Check(c, k, s)
        PROVE  Unstarted'
    BY <2>2, UnstartedKept DEF Check, Go, HeldBy, TypeOK, Threads, rows, worker
  <2>3. ASSUME NEW c \in Submitters, Start(c) \/ Retry(c) \/ Resume(c) PROVE Unstarted'
    BY <2>2, <2>3 DEF Start, Retry, Resume, TypeOK
  <2>4. ASSUME NEW c \in Cancellers, FindEvent(c) \/ CancellerStep(c) PROVE Unstarted'
    <3>1. \E r : Go(c, r)
      BY <2>4 DEF FindEvent, CancellerStep, SetEvent, EmitCancel
    <3>2. \A d \in Submitters : req'[d] = req[d]
      BY <3>1, JobsAssumption DEF Go, TypeOK, Threads
    <3>3. UNCHANGED <<status, queue, work, at>>
      BY <2>4 DEF FindEvent, CancellerStep, SetEvent, EmitCancel, rows, worker
    <3> QED
      BY <3>2, <3>3, UnstartedKept DEF HeldBy
  <2>5. CASE Restart
    <3>1. /\ queue' = [l \in Lanes |-> <<>>] /\ at' = [l \in Lanes |-> "idle"]
          /\ req' = [c \in Threads |-> Idle]
      BY <2>5 DEF Restart, MemoryLost
    <3> QED
      BY <3>1 DEF Unstarted, HeldBy, Idle, Threads
  <2>6. ~OtherProcess
    BY DEF OtherProcess, TypeOK
  <2> QED
    BY <2>1, <2>3, <2>4, <2>5, <2>6, UnstartedSubmitter, UnstartedWorker DEF Next
<1> QED
  BY Typed, ApartAlways, <1>1, <1>2, PTL DEF Spec

\* The requests for a scope between their check and their INSERT.
Starters(s) == {c \in Submitters : req[c].at = "insert" /\ req[c].scope = s}

\* Who is past its check may still add a job, and nobody passes one beside an
\* active job: together they are no more than the threads.
Bounded ==
  \A s \in Scopes :
    /\ IsFiniteSet(Writers(s))
    /\ Cardinality(Writers(s)) + Cardinality(Starters(s)) <= Cardinality(Submitters)

LEMMA WritersStep ==
  ASSUME MaxOthers = 0, TypeOK, Unstarted, [Next]_vars
  PROVE  \/ \E c \in Submitters : Insert(c)
         \/ \A s \in Scopes : Writers(s)' \subseteq Writers(s)
<1>1. CASE UNCHANGED <<status, scope>>
  BY <1>1 DEF Writers
<1>2. ASSUME NEW l \in Lanes, MarkRunning(l) \/ Finish(l) \/ Fail(l)
      PROVE  \A s \in Scopes : Writers(s)' \subseteq Writers(s)
  <2>1. UNCHANGED scope /\ work[l] \in Jobs
    BY <1>2 DEF MarkRunning, Finish, Fail, WriteOutcome, Worker, TypeOK
  <2>2. \/ status' = [status EXCEPT ![work[l]] = "running"] /\ status[work[l]] = "queued"
        \/ status' = [status EXCEPT ![work[l]] = ending[l]] /\ ending[l] \notin Active
    BY <1>2 DEF MarkRunning, Finish, Fail, WriteOutcome, SetStatus, Worker, Unstarted, TypeOK, Outcomes,
           Active
  <2>3. \A j \in Jobs : status'[j] \in Active => status[j] \in Active
    BY <2>1, <2>2 DEF TypeOK, Active
  <2> QED
    BY <2>1, <2>3 DEF Writers
<1>3. CASE Restart
  BY <1>3 DEF Restart, MarkInterrupted, Active, Writers
<1>4. ~OtherProcess
  BY DEF OtherProcess, TypeOK
<1>5. ASSUME NEW c \in Submitters, Start(c) \/ Retry(c) \/ Resume(c) PROVE UNCHANGED <<status, scope>>
  BY <1>5 DEF Start, Retry, Resume, Check, rows
<1>6. ASSUME NEW c \in Submitters, SubmitterStep(c), ~Insert(c) PROVE UNCHANGED <<status, scope>>
  BY <1>6 DEF SubmitterStep, Register, Submit, rows
<1>7. ASSUME NEW c \in Cancellers, FindEvent(c) \/ CancellerStep(c) PROVE UNCHANGED <<status, scope>>
  BY <1>7 DEF FindEvent, CancellerStep, SetEvent, EmitCancel, rows
<1>8. ASSUME NEW l \in Lanes,
             WorkerStep(l) \/ StartLockedOut(l) \/ FinishLockedOut(l) \/ FailLockedOut(l),
             ~(MarkRunning(l) \/ Finish(l) \/ Fail(l))
      PROVE  UNCHANGED <<status, scope>>
  BY <1>8 DEF WorkerStep, Take, AnnounceStart, AnnounceEnd, Announce, Progress, HandlerReturns,
         HandlerRaises, HandlerEnds, ReportFailure, Pop, StartLockedOut, FinishLockedOut, FailLockedOut,
         Lockout, rows
<1>9. UNCHANGED vars => UNCHANGED <<status, scope>>
  BY DEF vars, rows
<1> QED
  BY <1>1, <1>2, <1>3, <1>4, <1>5, <1>6, <1>7, <1>8, <1>9 DEF Next

LEMMA StartersStep ==
  ASSUME TypeOK, [Next]_vars
  PROVE  \/ \E c \in Submitters : Insert(c)
         \/ \E c \in Submitters, k \in Kinds, s \in Scopes : Check(c, k, s)
         \/ \A s \in Scopes : Starters(s)' \subseteq Starters(s)
<1>1. SUFFICES ASSUME \A c \in Submitters : ~Insert(c),
                      \A c \in Submitters, k \in Kinds, s \in Scopes : ~Check(c, k, s)
               PROVE  \A c \in Submitters : req'[c].at = "insert" => req'[c] = req[c]
  BY DEF Starters
<1>2. ASSUME NEW c \in Submitters, Register(c) \/ Submit(c), NEW d \in Submitters,
             req'[d].at = "insert"
      PROVE  req'[d] = req[d]
  <2>1. req[c] \in [at : {"register", "submit", "set", "emit"}, job : Jobs]
    BY <1>2, Asked DEF Register, Submit, Threads
  <2> QED
    BY <1>2, <2>1 DEF Register, Submit, Go, Idle, TypeOK, Threads
<1>3. ASSUME NEW x \in Cancellers, FindEvent(x) \/ CancellerStep(x), NEW d \in Submitters
      PROVE  req'[d] = req[d]
  <2>1. \E r : Go(x, r)
    BY <1>3 DEF FindEvent, CancellerStep, SetEvent, EmitCancel
  <2> QED
    BY <2>1, JobsAssumption DEF Go, TypeOK, Threads
<1>4. CASE Restart
  BY <1>4 DEF Restart, MemoryLost, Idle, Threads
<1>5. ASSUME NEW l \in Lanes,
             WorkerStep(l) \/ StartLockedOut(l) \/ FinishLockedOut(l) \/ FailLockedOut(l)
      PROVE  UNCHANGED req
  BY <1>5 DEF WorkerStep, Take, MarkRunning, AnnounceStart, AnnounceEnd, Announce, Progress,
         HandlerReturns, HandlerRaises, HandlerEnds, Finish, Fail, WriteOutcome, ReportFailure, Pop,
         StartLockedOut, FinishLockedOut, FailLockedOut, Lockout
<1>6. UNCHANGED vars \/ OtherProcess => UNCHANGED req
  BY DEF vars, OtherProcess
<1>7. \A c \in Submitters : ~(Start(c) \/ Retry(c) \/ Resume(c))
  BY <1>1 DEF Start, Retry, Resume, TypeOK
<1> QED
  BY <1>1, <1>2, <1>3, <1>4, <1>5, <1>6, <1>7 DEF Next, SubmitterStep

LEMMA Fewer ==
  ASSUME NEW S, IsFiniteSet(S), NEW T, T \subseteq S
  PROVE  /\ IsFiniteSet(T) /\ Cardinality(T) \in Nat /\ Cardinality(S) \in Nat
         /\ Cardinality(T) <= Cardinality(S)
BY FS_Subset, FS_CardinalityType

LEMMA BoundedStep ==
  ASSUME MaxOthers = 0, IsFiniteSet(Submitters), TypeOK, Unstarted, Bounded, [Next]_vars
  PROVE  Bounded'
<1>1. \A s \in Scopes : /\ IsFiniteSet(Starters(s)) /\ Cardinality(Starters(s)) \in Nat
                        /\ Starters(s)' \subseteq Submitters
                        /\ IsFiniteSet(Writers(s)) /\ Cardinality(Writers(s)) \in Nat
  BY Fewer, FS_CardinalityType DEF Starters, Bounded
<1>2. Cardinality(Submitters) \in Nat
  BY FS_CardinalityType
<1>3. CASE \E c \in Submitters : Insert(c)
  <2>1. PICK c \in Submitters : Insert(c)
    BY <1>3
  <2>2. PICK j \in Jobs : /\ status[j] = "none"
                          /\ status' = [status EXCEPT ![j] = "queued"]
                          /\ scope' = [scope EXCEPT ![j] = req[c].scope]
                          /\ req' = [req EXCEPT ![c] = [at |-> "register", job |-> j]]
    BY <2>1 DEF Insert, Go
  <2>3. req[c].at = "insert" /\ \E t \in Scopes : t = req[c].scope
    BY <2>1, Asked DEF Insert, Threads
  <2>4. PICK t \in Scopes : t = req[c].scope
    BY <2>3
  <2>5. c \in Starters(t)
    BY <2>3, <2>4 DEF Starters
  <2>6. \A s \in Scopes : Starters(s)' = Starters(s) \ {c}
    <3>1. \A d \in Submitters : req'[d] = IF d = c THEN [at |-> "register", job |-> j] ELSE req[d]
      BY <2>2 DEF TypeOK, Threads
    <3> QED
      BY <3>1 DEF Starters
  <2>7. \A i \in Jobs : /\ status'[i] = IF i = j THEN "queued" ELSE status[i]
                        /\ scope'[i] = IF i = j THEN t ELSE scope[i]
    BY <2>4, <2>2 DEF TypeOK
  <2>8. j \notin Writers(t) /\ Writers(t)' = Writers(t) \cup {j}
    BY <2>2, <2>7 DEF Writers, Active
  <2>9. \A s \in Scopes \ {t} : Writers(s)' = Writers(s) /\ c \notin Starters(s)
    BY <2>4, <2>2, <2>7 DEF Writers, Active, Starters
  <2>10. \A s \in Scopes \ {t} : Starters(s)' = Starters(s)
    BY <2>6, <2>9
  <2>11. /\ IsFiniteSet(Writers(t)') /\ Cardinality(Writers(t)') = Cardinality(Writers(t)) + 1
        /\ Cardinality(Starters(t)') = Cardinality(Starters(t)) - 1
    BY <1>1, <2>5, <2>6, <2>8, FS_AddElement, FS_RemoveElement
  <2>12. Cardinality(Writers(t)') + Cardinality(Starters(t)') <= Cardinality(Submitters)
    BY <1>1, <1>2, <2>5, <2>11 DEF Bounded
  <2> QED
    BY <2>9, <2>10, <2>11, <2>12 DEF Bounded
<1>4. CASE /\ \A s \in Scopes : Writers(s)' \subseteq Writers(s)
           /\ \E c \in Submitters, k \in Kinds, s \in Scopes : Check(c, k, s)
  <2>1. PICK c \in Submitters, k \in Kinds, t \in Scopes : Check(c, k, t)
    BY <1>4
  <2>2. Writers(t) = {} /\ Cardinality(Writers(t)') = 0 /\ IsFiniteSet(Writers(t)')
    <3>1. Writers(t) = {} /\ Writers(t)' = {}
      BY <1>4, <2>1 DEF Check, Busy, Writers
    <3> QED
      BY <3>1, FS_EmptySet
  <2>3. Cardinality(Starters(t)') <= Cardinality(Submitters) /\ Cardinality(Starters(t)') \in Nat
    BY <1>1, Fewer
  <2>4. \A s \in Scopes \ {t} : Starters(s)' = Starters(s)
    <3>1. \A d \in Submitters :
            req'[d] = IF d = c THEN [at |-> "insert", kind |-> k, scope |-> t] ELSE req[d]
      BY <2>1 DEF Check, Go, TypeOK, Threads
    <3>2. req[c].at # "insert"
      BY <2>1 DEF Check, Idle
    <3> QED
      BY <3>1, <3>2 DEF Starters
  <2>5. \A s \in Scopes : Writers(s)' = Writers(s)
    BY <2>1 DEF Check, rows, Writers
  <2> QED
    BY <1>2, <2>2, <2>3, <2>4, <2>5 DEF Bounded
<1>5. CASE /\ \A s \in Scopes : Writers(s)' \subseteq Writers(s)
           /\ \A s \in Scopes : Starters(s)' \subseteq Starters(s)
  <2> SUFFICES ASSUME NEW s \in Scopes
               PROVE  /\ IsFiniteSet(Writers(s)')
                      /\ Cardinality(Writers(s)') + Cardinality(Starters(s)') <= Cardinality(Submitters)
    BY DEF Bounded
  <2>1. /\ IsFiniteSet(Writers(s)') /\ Cardinality(Writers(s)') \in Nat
        /\ Cardinality(Writers(s)') <= Cardinality(Writers(s))
    BY <1>1, <1>5, Fewer
  <2>2. Cardinality(Starters(s)') \in Nat /\ Cardinality(Starters(s)') <= Cardinality(Starters(s))
    BY <1>1, <1>5, Fewer
  <2> QED
    BY <1>1, <1>2, <2>1, <2>2 DEF Bounded
<1> QED
  BY <1>3, <1>4, <1>5, WritersStep, StartersStep

LEMMA BoundedAlways ==
  ASSUME MaxOthers = 0, IsFiniteSet(Submitters)
  PROVE  Spec => []Bounded
<1>1. Init => Bounded
  <2> SUFFICES ASSUME Init, NEW s \in Scopes
               PROVE  /\ IsFiniteSet(Writers(s))
                      /\ Cardinality(Writers(s)) + Cardinality(Starters(s)) <= Cardinality(Submitters)
    BY DEF Bounded
  <2>1. Writers(s) = {} /\ Starters(s) = {}
    BY DEF Init, Writers, Starters, Active, Idle, Threads
  <2> QED
    BY <2>1, FS_EmptySet, FS_CardinalityType
<1>2. TypeOK /\ Unstarted /\ Bounded /\ [Next]_vars => Bounded'
  BY BoundedStep
<1> QED
  BY UnstartedAlways, Typed, <1>1, <1>2, PTL DEF Spec

\* Whatever the threads of the API start at once, cancel, retry or resume, whichever
\* statement times out and whenever the service is killed: two active jobs of a
\* repository come of two requests that overlap, and there are never more of them
\* than threads.  Only another process, which takes the rows of live jobs for
\* left-overs, is excluded.
THEOREM WritersAreBounded ==
  ASSUME MaxOthers = 0, IsFiniteSet(Submitters)
  PROVE  Spec => []WritersPerScope
<1>1. Bounded => WritersPerScope
  <2> SUFFICES ASSUME Bounded, NEW s \in Scopes
               PROVE  Cardinality(Writers(s)) <= Cardinality(Submitters)
    BY DEF WritersPerScope
  <2>1. IsFiniteSet(Writers(s)) /\ IsFiniteSet(Starters(s))
    BY Fewer DEF Bounded, Starters
  <2>2. /\ Cardinality(Writers(s)) \in Nat /\ Cardinality(Starters(s)) \in Nat
        /\ Cardinality(Submitters) \in Nat
    BY <2>1, FS_CardinalityType
  <2> QED
    BY <2>2 DEF Bounded
<1> QED
  BY BoundedAlways, <1>1, PTL

\* With one thread that starts jobs, a request between its check and its INSERT
\* still finds the scope free.
Alone(c) ==
  /\ OneWriterPerScope
  /\ req[c].at = "insert" => ~Busy(req[c].scope)

LEMMA AloneAlways ==
  ASSUME MaxOthers = 0, NEW c \in Submitters, Submitters = {c}
  PROVE  Spec => []Alone(c)
<1>1. IsFiniteSet(Submitters) /\ Cardinality(Submitters) = 1
  BY FS_Singleton
<1>2. TypeOK /\ Bounded => Alone(c)
  <2> SUFFICES ASSUME TypeOK, Bounded PROVE Alone(c)
    OBVIOUS
  <2>1. ASSUME NEW s \in Scopes
        PROVE  /\ IsFiniteSet(Writers(s)) /\ IsFiniteSet(Starters(s))
               /\ Cardinality(Writers(s)) \in Nat /\ Cardinality(Starters(s)) \in Nat
               /\ Cardinality(Writers(s)) + Cardinality(Starters(s)) <= 1
    BY <1>1, Fewer, FS_CardinalityType DEF Bounded, Starters
  <2>2. ASSUME NEW j \in Jobs, NEW k \in Jobs, j # k,
               status[j] \in Active, status[k] \in Active, scope[j] = scope[k]
        PROVE  FALSE
    <3>1. scope[j] \in Scopes /\ {j, k} \subseteq Writers(scope[j])
      BY <2>2 DEF Writers, TypeOK
    <3>2. Cardinality({j, k}) = 2
      <4>1. IsFiniteSet({j}) /\ Cardinality({j}) = 1 /\ k \notin {j} /\ {j, k} = {j} \cup {k}
        BY <2>2, FS_Singleton
      <4> QED
        BY <4>1, FS_AddElement
    <3>3. Cardinality({j, k}) <= Cardinality(Writers(scope[j]))
      BY <2>1, <3>1, Fewer
    <3> QED
      BY <2>1, <3>1, <3>2, <3>3
  <2>3. ASSUME req[c].at = "insert"
        PROVE  ~Busy(req[c].scope)
    <3> DEFINE s == req[c].scope
    <3>1. s \in Scopes
      BY <2>3, Asked DEF Threads
    <3>2. Starters(s) = {c}
      BY <2>3 DEF Starters
    <3>3. Cardinality(Writers(s)) = 0
      <4>1. Cardinality(Starters(s)) = 1
        BY <3>2, FS_Singleton
      <4> HIDE DEF s
      <4> QED
        BY <2>1, <3>1, <4>1
    <3>4. Writers(s) = {}
      BY <2>1, <3>1, <3>3, FS_EmptySet
    <3> QED
      BY <3>4 DEF Busy, Writers
  <2> QED
    BY <2>2, <2>3 DEF Alone, OneWriterPerScope
<1> QED
  BY BoundedAlways, Typed, <1>1, <1>2, PTL

-----------------------------------------------------------------------------
(***************************************************************************)
(* Jobs implements JobLanes.                                               *)
(***************************************************************************)

\* A line grows at its end, in two steps, and shrinks at its head.
LEMMA LineGrows ==
  ASSUME NEW S, NEW s \in Seq(S), NEW t \in Seq(S), NEW x \in S
  PROVE  /\ (s \o t) \o <<x>> = Append((s \o t) \o <<>>, x)
         /\ (s \o Append(t, x)) \o <<>> = (s \o t) \o <<x>>
OBVIOUS

LEMMA LineMoves ==
  ASSUME NEW S, NEW t \in Seq(S), NEW u \in Seq(S), t # <<>>
  PROVE  (<<Head(t)>> \o Tail(t)) \o u = (<<>> \o t) \o u
OBVIOUS

LEMMA LineShrinks ==
  ASSUME NEW S, NEW t \in Seq(S), NEW u \in Seq(S), NEW x \in S
  PROVE  /\ (<<x>> \o t) \o u # <<>>
         /\ Head((<<x>> \o t) \o u) = x
         /\ Tail((<<x>> \o t) \o u) = (<<>> \o t) \o u
<1>1. (<<x>> \o t) \o u # <<>>
  OBVIOUS
<1>2. Head((<<x>> \o t) \o u) = x
  OBVIOUS
<1>3. Tail((<<x>> \o t) \o u) = (<<>> \o t) \o u
  OBVIOUS
<1> QED
  BY <1>1, <1>2, <1>3

LEMMA Singles ==
  ASSUME NEW x
  PROVE  Single({}) = <<>> /\ Single({x}) = <<x>>
<1>1. (CHOOSE j \in {x} : TRUE) = x
  OBVIOUS
<1> QED
  BY <1>1 DEF Single

\* With one submitting thread at most one job is about to be submitted.
LEMMA HeldIs ==
  ASSUME NEW c \in Submitters, Submitters = {c}
  PROVE  \A j \in Jobs : Held(j) <=> HeldBy(c, j)
BY DEF Held, HeldBy

LEMMA EnteringIs ==
  ASSUME TypeOK, NEW c \in Submitters, Submitters = {c}, NEW l \in Lanes
  PROVE  /\ \A j \in Jobs : HeldBy(c, j) =>
              Entering(l) = IF Lane(kind[j]) = l THEN <<j>> ELSE <<>>
         /\ (\A j \in Jobs : ~HeldBy(c, j)) => Entering(l) = <<>>
         /\ Entering(l) \in Seq(Jobs)
<1> DEFINE held == {j \in Jobs : Held(j) /\ Lane(kind[j]) = l}
<1>1. ASSUME NEW j \in Jobs, HeldBy(c, j)
      PROVE Entering(l) = IF Lane(kind[j]) = l THEN <<j>> ELSE <<>>
  <2>1. \A k \in Jobs : Held(k) <=> k = j
    BY <1>1, HeldIs DEF HeldBy
  <2>2. held = IF Lane(kind[j]) = l THEN {j} ELSE {}
    BY <2>1
  <2> HIDE DEF held
  <2>3. Single(held) = IF Lane(kind[j]) = l THEN <<j>> ELSE <<>>
    BY <2>2, Singles
  <2> QED
    BY <2>3 DEF Entering, held
<1>2. ASSUME \A j \in Jobs : ~HeldBy(c, j) PROVE Entering(l) = <<>>
  <2>1. held = {}
    BY <1>2, HeldIs
  <2> QED
    BY <2>1, Singles DEF Entering
<1>3. Entering(l) \in Seq(Jobs)
  <2>1. ASSUME NEW j \in Jobs, HeldBy(c, j) PROVE Entering(l) \in Seq(Jobs)
    <3>1. CASE Lane(kind[j]) = l
      <4>1. Entering(l) = <<j>>
        BY <1>1, <2>1, <3>1
      <4> QED
        BY <4>1
    <3>2. CASE Lane(kind[j]) # l
      <4>1. Entering(l) = <<>>
        BY <1>1, <2>1, <3>2
      <4> QED
        BY <4>1
    <3> QED
      BY <3>1, <3>2
  <2>2. Entering(l) = <<>> => Entering(l) \in Seq(Jobs)
    OBVIOUS
  <2> QED
    BY <1>2, <2>1, <2>2
<1> QED
  BY <1>1, <1>2, <1>3

LEMMA LinesAreTyped ==
  ASSUME TypeOK, NEW c \in Submitters, Submitters = {c}, NEW l \in Lanes
  PROVE  /\ Beginning(l) \in Seq(Jobs) /\ queue[l] \in Seq(Jobs) /\ Entering(l) \in Seq(Jobs)
         /\ Line[l] = (Beginning(l) \o queue[l]) \o Entering(l)
<1>1. at[l] = "start" => work[l] \in Jobs
  BY DEF TypeOK
<1>2. Beginning(l) \in Seq(Jobs)
  BY <1>1 DEF Beginning
<1>3. queue[l] \in Seq(Jobs)
  BY DEF TypeOK
<1> QED
  BY <1>2, <1>3, EnteringIs DEF Line

\* What JobLanes knows of.
Known == <<status, scope, LaneOf, Line, inTime>>

\* A step that takes no job from a request, a queue or a worker's start to another
\* of these places keeps the lines.
LEMMA LinesKept ==
  ASSUME UNCHANGED <<kind, queue>>,
         \A l \in Lanes : Beginning(l)' = Beginning(l),
         \A j \in Jobs : Held(j)' <=> Held(j)
  PROVE  Line' = Line /\ LaneOf' = LaneOf
<1>1. ASSUME NEW l \in Lanes PROVE Entering(l)' = Entering(l)
  BY DEF Entering
<1>2. \A l \in Lanes : Line'[l] = Line[l]
  BY <1>1 DEF Line
<1>3. Line' = [l \in Lanes |-> Line'[l]] /\ Line = [l \in Lanes |-> Line[l]]
  BY DEF Line
<1> QED
  BY <1>2, <1>3 DEF LaneOf

\* An INSERT accepts the job at the end of its lane's line.
LEMMA InsertAccepts ==
  ASSUME TypeOK, NEW c \in Submitters, Submitters = {c}, Alone(c), Insert(c)
  PROVE  \E j \in Jobs, s \in Scopes, l \in Lanes : Service!Accept(j, s, l)
<1> DEFINE s == req[c].scope
           m == Lane(req[c].kind)
<1>1. PICK j \in Jobs : /\ status[j] = "none"
                        /\ status' = [status EXCEPT ![j] = "queued"]
                        /\ kind' = [kind EXCEPT ![j] = req[c].kind]
                        /\ scope' = [scope EXCEPT ![j] = s]
                        /\ req' = [req EXCEPT ![c] = [at |-> "register", job |-> j]]
  BY DEF Insert, Go
<1>2. /\ req[c].at = "insert" /\ req[c].kind \in Kinds /\ s \in Scopes /\ c \in Threads
      /\ UNCHANGED <<queue, worker, events>>
  BY Asked DEF Insert, Threads
<1>3. m \in Lanes
  BY DEF Lane, Lanes
<1>4. \A k \in Jobs : scope[k] = s => status[k] \notin Active
  BY <1>2 DEF Alone, Busy
<1>5. \A k \in Jobs : HeldBy(c, k)' <=> k = j
  BY <1>1, <1>2 DEF HeldBy, TypeOK
<1>6. \A k \in Jobs : (Held(k)' <=> k = j) /\ ~HeldBy(c, k)
  BY <1>2, <1>5 DEF Held, HeldBy
<1>7. kind'[j] = req[c].kind
  BY <1>1 DEF TypeOK
<1>8. LaneOf' = [LaneOf EXCEPT ![j] = m]
  <2>1. \A k \in Jobs \ {j} : kind'[k] = kind[k]
    BY <1>1 DEF TypeOK
  <2>2. \A k \in Jobs : Lane(kind'[k]) = IF k = j THEN m ELSE Lane(kind[k])
    BY <1>7, <2>1
  <2> QED
    BY <2>2 DEF LaneOf
<1>9. ASSUME NEW l \in Lanes
      PROVE  Line'[l] = IF l = m THEN Append(Line[l], j) ELSE Line[l]
  <2>1. Entering(l)' = IF l = m THEN <<j>> ELSE <<>>
    <3> DEFINE held == {k \in Jobs : Held(k)' /\ Lane(kind'[k]) = l}
    <3>1. held = IF l = m THEN {j} ELSE {}
      BY <1>6, <1>7
    <3>2. Entering(l)' = Single(held)
      BY DEF Entering
    <3> HIDE DEF held
    <3> QED
      BY <3>1, <3>2, Singles
  <2>2. Entering(l) = <<>>
    BY <1>6, EnteringIs
  <2>3. Line'[l] = (Beginning(l) \o queue[l]) \o Entering(l)'
    BY <1>2 DEF Line, Beginning, worker
  <2> HIDE DEF m
  <2>4. CASE l = m
    <3>1. Line'[l] = (Beginning(l) \o queue[l]) \o <<j>>
      BY <2>1, <2>3, <2>4
    <3>2. Line[l] = (Beginning(l) \o queue[l]) \o <<>>
      BY <2>2, LinesAreTyped
    <3> QED
      BY <2>4, <3>1, <3>2, LinesAreTyped, LineGrows
  <2>5. CASE l # m
    <3>1. Line'[l] = (Beginning(l) \o queue[l]) \o <<>>
      BY <2>1, <2>3, <2>5
    <3> QED
      BY <2>2, <2>5, <3>1, LinesAreTyped
  <2> QED
    BY <2>4, <2>5
<1>10. Line' = [Line EXCEPT ![m] = Append(@, j)]
  <2>1. Line' = [l \in Lanes |-> Line'[l]] /\ Line = [l \in Lanes |-> Line[l]]
    BY DEF Line
  <2> HIDE DEF m
  <2> QED
    BY <1>3, <1>9, <2>1
<1>11. Service!Accept(j, s, m)
  BY <1>1, <1>2, <1>4, <1>8, <1>10 DEF Service!Accept, Service!Active, Active, events
<1> QED
  BY <1>2, <1>3, <1>11

\* The hand-over to the executor and the worker's taking of a job move it along
\* the line, which stays what it is.
LEMMA SubmitIsQuiet ==
  ASSUME TypeOK, NEW c \in Submitters, Submitters = {c}, Submit(c)
  PROVE  UNCHANGED Known
<1> DEFINE j == req[c].job
           m == Lane(kind[j])
<1>1. /\ req[c].at = "submit" /\ c \in Threads /\ j \in Jobs
      /\ queue' = [queue EXCEPT ![m] = Append(@, j)]
      /\ req' = [req EXCEPT ![c] = Idle]
      /\ UNCHANGED <<rows, events, worker>>
  BY Asked DEF Submit, Go, Threads
<1>2. HeldBy(c, j) /\ \A k \in Jobs : ~Held(k)'
  BY <1>1 DEF HeldBy, Held, Idle, TypeOK
<1>3. ASSUME NEW l \in Lanes PROVE Line'[l] = Line[l]
  <2>1. Entering(l)' = <<>>
    <3> DEFINE held == {k \in Jobs : Held(k)' /\ Lane(kind'[k]) = l}
    <3>1. held = {}
      BY <1>2
    <3>2. Entering(l)' = Single(held)
      BY DEF Entering
    <3> HIDE DEF held
    <3> QED
      BY <3>1, <3>2, Singles
  <2>2. Entering(l) = IF m = l THEN <<j>> ELSE <<>>
    BY <1>1, <1>2, EnteringIs
  <2>3. queue'[l] = IF m = l THEN Append(queue[l], j) ELSE queue[l]
    BY <1>1 DEF TypeOK
  <2>4. Line'[l] = (Beginning(l) \o queue'[l]) \o <<>>
    BY <1>1, <2>1 DEF Line, Beginning, worker
  <2> HIDE DEF m, j
  <2>5. CASE m = l
    <3>1. Line[l] = (Beginning(l) \o queue[l]) \o <<j>>
      BY <2>2, <2>5, LinesAreTyped
    <3>2. Line'[l] = (Beginning(l) \o Append(queue[l], j)) \o <<>>
      BY <2>3, <2>4, <2>5
    <3> QED
      BY <1>1, <3>1, <3>2, LinesAreTyped, LineGrows
  <2>6. CASE m # l
    BY <2>2, <2>3, <2>4, <2>6, LinesAreTyped
  <2> QED
    BY <2>5, <2>6
<1>4. Line' = Line
  <2>1. Line' = [l \in Lanes |-> Line'[l]] /\ Line = [l \in Lanes |-> Line[l]]
    BY DEF Line
  <2> QED
    BY <1>3, <2>1
<1> QED
  BY <1>1, <1>4 DEF Known, LaneOf, rows, events

LEMMA TakeIsQuiet ==
  ASSUME TypeOK, NEW c \in Submitters, Submitters = {c}, NEW m \in Lanes, Take(m)
  PROVE  UNCHANGED Known
<1>1. /\ at[m] = "idle" /\ at' = [at EXCEPT ![m] = "start"]
      /\ work' = [work EXCEPT ![m] = Head(queue[m])]
      /\ queue' = [queue EXCEPT ![m] = Tail(@)]
      /\ queue[m] # <<>>
      /\ UNCHANGED <<rows, events, req>>
  BY DEF Take, Worker
<1>2. ASSUME NEW l \in Lanes PROVE Line'[l] = Line[l]
  <2>1. Entering(l)' = Entering(l)
    BY <1>1 DEF Entering, Held, rows
  <2>2. Line'[l] = (Beginning(l)' \o queue'[l]) \o Entering(l)
    BY <2>1 DEF Line
  <2>3. CASE l = m
    <3>1. Beginning(l) = <<>>
      BY <1>1, <2>3 DEF Beginning
    <3>2. Beginning(l)' = <<Head(queue[l])>> /\ queue'[l] = Tail(queue[l])
      BY <1>1, <2>3 DEF Beginning, TypeOK
    <3>3. Line[l] = (<<>> \o queue[l]) \o Entering(l)
      BY <3>1, LinesAreTyped
    <3>4. Line'[l] = (<<Head(queue[l])>> \o Tail(queue[l])) \o Entering(l)
      BY <2>2, <3>2
    <3>5. queue[l] \in Seq(Jobs) /\ Entering(l) \in Seq(Jobs) /\ queue[l] # <<>> /\ Head(queue[l]) \in Jobs
      BY <1>1, <2>3, LinesAreTyped
    <3> QED
      BY <3>3, <3>4, <3>5, LineMoves
  <2>4. CASE l # m
    <3>1. at'[l] = at[l] /\ work'[l] = work[l] /\ queue'[l] = queue[l]
      BY <1>1, <2>4 DEF TypeOK
    <3> QED
      BY <2>2, <3>1, LinesAreTyped DEF Beginning
  <2> QED
    BY <2>3, <2>4
<1>3. Line' = Line
  <2>1. Line' = [l \in Lanes |-> Line'[l]] /\ Line = [l \in Lanes |-> Line[l]]
    BY DEF Line
  <2> QED
    BY <1>2, <2>1
<1> QED
  BY <1>1, <1>3 DEF Known, LaneOf, rows, events

\* The row becomes running: the first of the line begins.
LEMMA MarkRunningBegins ==
  ASSUME TypeOK, Settled, NEW c \in Submitters, Submitters = {c}, NEW m \in Lanes, MarkRunning(m)
  PROVE  \E j \in Jobs : Service!Begin(j)
<1> DEFINE j == work[m]
<1>1. /\ at[m] = "start" /\ at' = [at EXCEPT ![m] = "started"]
      /\ status' = [status EXCEPT ![j] = "running"]
      /\ UNCHANGED <<kind, scope, events, queue, work, req>>
  BY DEF MarkRunning, Worker, SetStatus
<1>2. j \in Jobs /\ status[j] = "queued" /\ LaneOf[j] = m
  BY <1>1 DEF TypeOK, Settled, Manned, StatusAt, LaneOf
<1>3. ASSUME NEW k \in Jobs, LaneOf[k] = m, status[k] = "running" PROVE FALSE
  <2>1. PICK l \in Lanes : work[l] = k
    BY <1>3 DEF Settled, Accounted, AtWork
  <2>2. l = m
    BY <1>3, <2>1, JobsAssumption DEF Settled, Manned, LaneOf
  <2> QED
    BY <1>2, <1>3, <2>1, <2>2
<1>4. Line[m] = (<<j>> \o queue[m]) \o Entering(m)
  BY <1>1, LinesAreTyped DEF Beginning
<1>5. Line[m] # <<>> /\ Head(Line[m]) = j /\ Tail(Line[m]) = (<<>> \o queue[m]) \o Entering(m)
  <2> HIDE DEF j
  <2>1. queue[m] \in Seq(Jobs) /\ Entering(m) \in Seq(Jobs)
    BY LinesAreTyped
  <2> DEFINE Behind(x, t, u) == (<<x>> \o t) \o u
             Shrinks(x, t, u) == /\ Behind(x, t, u) # <<>> /\ Head(Behind(x, t, u)) = x
                                 /\ Tail(Behind(x, t, u)) = (<<>> \o t) \o u
  <2>2. \A x \in Jobs, t, u \in Seq(Jobs) : Shrinks(x, t, u)
    BY LineShrinks
  <2> HIDE DEF Shrinks
  <2>3. Shrinks(j, queue[m], Entering(m))
    BY <1>2, <2>1, <2>2
  <2> USE DEF Shrinks
  <2> QED
    BY <1>4, <2>3
<1>6. ASSUME NEW l \in Lanes PROVE Line'[l] = IF l = m THEN Tail(Line[l]) ELSE Line[l]
  <2>1. Entering(l)' = Entering(l)
    BY <1>1 DEF Entering, Held
  <2>2. Line'[l] = (Beginning(l)' \o queue[l]) \o Entering(l)
    BY <1>1, <2>1 DEF Line
  <2>3. CASE l = m
    <3>1. Beginning(l)' = <<>>
      BY <1>1, <2>3 DEF Beginning, TypeOK
    <3> QED
      BY <1>5, <2>2, <2>3, <3>1
  <2>4. CASE l # m
    <3>1. Beginning(l)' = Beginning(l)
      BY <1>1, <2>4 DEF Beginning, TypeOK
    <3> QED
      BY <2>2, <2>4, <3>1, LinesAreTyped
  <2> QED
    BY <2>3, <2>4
<1>7. Line' = [Line EXCEPT ![m] = Tail(@)]
  <2>1. Line' = [l \in Lanes |-> Line'[l]] /\ Line = [l \in Lanes |-> Line[l]]
    BY DEF Line
  <2> QED
    BY <1>6, <2>1
<1>8. LaneOf' = LaneOf /\ inTime' = inTime
  BY <1>1 DEF LaneOf, events
<1>9. Service!Begin(j)
  BY <1>1, <1>2, <1>3, <1>5, <1>7, <1>8 DEF Service!Begin
<1> QED
  BY <1>2, <1>9

\* The UPDATE of the outcome ends the job, as a cancellation in time demands.
LEMMA OutcomeEnds ==
  ASSUME TypeOK, Settled, Promises, NEW m \in Lanes, Finish(m) \/ Fail(m)
  PROVE  \E j \in Jobs, o \in Service!Outcomes : Service!End(j, o)
<1> DEFINE j == work[m]
<1>1. /\ at[m] \in {"finishing", "failing"}
      /\ \E to \in {"finished", "failed"} : at' = [at EXCEPT ![m] = to]
      /\ status' = [status EXCEPT ![j] = ending[m]]
      /\ UNCHANGED <<kind, scope, events, queue, work, req>>
  BY DEF Finish, Fail, WriteOutcome, Worker, SetStatus
<1>2. j \in Jobs /\ status[j] = "running"
  BY <1>1 DEF TypeOK, Settled, Manned, StatusAt
<1>3. ending[m] \in Outcomes
  BY DEF TypeOK
<1>4. j \in inTime => ending[m] = "cancelled"
  BY <1>1 DEF Promises, Promised
<1>5. Line' = Line /\ LaneOf' = LaneOf
  <2>1. \A l \in Lanes : Beginning(l)' = Beginning(l)
    BY <1>1 DEF Beginning, TypeOK
  <2>2. \A k \in Jobs : Held(k)' <=> Held(k)
    BY <1>1 DEF Held
  <2> QED
    BY <1>1, <2>1, <2>2, LinesKept
<1>6. Service!End(j, ending[m])
  BY <1>1, <1>2, <1>4, <1>5 DEF Service!End, events
<1> QED
  BY <1>2, <1>3, <1>6 DEF Service!Outcomes, Outcomes

\* A cancellation that sets the event of an undecided job has reached it.
LEMMA SetEventAsks ==
  ASSUME TypeOK, NEW x \in Cancellers, SetEvent(x)
  PROVE  UNCHANGED Known \/ \E j \in Jobs : Service!Ask(j)
<1> DEFINE j == req[x].job
<1>1. /\ j \in Jobs /\ x \in Threads /\ req[x].at = "set"
      /\ inTime' = IF status[j] \in Active /\ ~Decided(j) THEN inTime \cup {j} ELSE inTime
      /\ req' = [req EXCEPT ![x] = [req[x] EXCEPT !.at = "emit"]]
      /\ UNCHANGED <<rows, queue, worker>>
  BY Asked DEF SetEvent, Go, Threads
<1>2. Line' = Line /\ LaneOf' = LaneOf
  <2>1. \A c \in Submitters : req'[c] = req[c]
    BY <1>1, JobsAssumption DEF JobsAssumption, TypeOK, Threads
  <2>2. \A k \in Jobs : Held(k)' <=> Held(k)
    BY <2>1 DEF Held
  <2>3. \A l \in Lanes : Beginning(l)' = Beginning(l)
    BY <1>1 DEF Beginning, worker
  <2> QED
    BY <1>1, <2>2, <2>3, LinesKept DEF rows
<1>3. CASE status[j] \in Active /\ ~Decided(j)
  BY <1>1, <1>2, <1>3 DEF Service!Ask, Service!Active, Active, rows
<1>4. CASE ~(status[j] \in Active /\ ~Decided(j))
  BY <1>1, <1>2, <1>4 DEF Known, rows
<1> QED
  BY <1>3, <1>4

\* The other steps move no job.
LEMMA OtherStepsAreQuiet ==
  ASSUME TypeOK, NEW c \in Submitters, Submitters = {c},
         \/ \E k \in Kinds, s \in Scopes : Check(c, k, s)
         \/ Register(c)
         \/ \E x \in Cancellers : FindEvent(x) \/ EmitCancel(x)
         \/ \E l \in Lanes : \/ AnnounceStart(l) \/ Progress(l) \/ HandlerReturns(l) \/ HandlerRaises(l)
                             \/ AnnounceEnd(l) \/ ReportFailure(l) \/ Pop(l)
  PROVE  UNCHANGED Known
<1>1. ASSUME \A l \in Lanes : Beginning(l)' = Beginning(l), \A j \in Jobs : Held(j)' <=> Held(j),
             UNCHANGED <<rows, queue, inTime>>
      PROVE  UNCHANGED Known
  BY <1>1, LinesKept DEF Known, rows
<1>2. ASSUME NEW k \in Kinds, NEW s \in Scopes, Check(c, k, s) PROVE UNCHANGED Known
  <2>1. \A j \in Jobs : ~Held(j) /\ ~Held(j)'
    BY <1>2 DEF Check, Go, Held, Idle, TypeOK, Threads
  <2> QED
    BY <1>1, <1>2, <2>1 DEF Check, Beginning, worker, events
<1>3. CASE Register(c)
  <2>1. /\ req[c] \in [at : {"register", "submit", "set", "emit"}, job : Jobs]
        /\ req[c].at = "register" /\ req' = [req EXCEPT ![c] = [req[c] EXCEPT !.at = "submit"]]
    BY <1>3, Asked DEF Register, Go, Threads
  <2>2. req'[c].at = "submit" /\ req'[c].job = req[c].job
    BY <2>1 DEF TypeOK, Threads
  <2>3. \A j \in Jobs : Held(j)' <=> Held(j)
    BY <2>1, <2>2 DEF Held
  <2> QED
    BY <1>1, <1>3, <2>3 DEF Register, Beginning, worker
<1>4. ASSUME NEW x \in Cancellers, FindEvent(x) \/ EmitCancel(x) PROVE UNCHANGED Known
  <2>1. \A d \in Submitters : req'[d] = req[d]
    BY <1>4, JobsAssumption DEF FindEvent, EmitCancel, Go, TypeOK, Threads
  <2>2. \A j \in Jobs : Held(j)' <=> Held(j)
    BY <2>1 DEF Held
  <2> QED
    BY <1>1, <1>4, <2>2 DEF FindEvent, EmitCancel, Beginning, worker, events
<1>5. ASSUME NEW l \in Lanes,
             \/ AnnounceStart(l) \/ Progress(l) \/ HandlerReturns(l) \/ HandlerRaises(l)
             \/ AnnounceEnd(l) \/ ReportFailure(l) \/ Pop(l)
      PROVE  UNCHANGED Known
  <2>1. UNCHANGED <<rows, queue, inTime, req>>
    BY <1>5 DEF AnnounceStart, Announce, Progress, HandlerReturns, HandlerRaises, HandlerEnds, AnnounceEnd,
           ReportFailure, Pop, events
  <2>2. ASSUME NEW m \in Lanes PROVE Beginning(m)' = Beginning(m)
    <3>1. CASE Progress(l)
      BY <3>1 DEF Progress, Beginning, worker
    <3>2. CASE ~Progress(l)
      <4>1. at[l] # "start" /\ \E to \in Points \ {"start"} : at' = [at EXCEPT ![l] = to]
        BY <1>5, <3>2 DEF AnnounceStart, Announce, HandlerReturns, HandlerRaises, HandlerEnds, AnnounceEnd,
               ReportFailure, Pop, Leave, Worker, Points, Before, After
      <4>2. m # l => work'[m] = work[m]
        BY <1>5 DEF AnnounceStart, Announce, Progress, HandlerReturns, HandlerRaises, HandlerEnds, AnnounceEnd,
               ReportFailure, Pop, Leave, worker, TypeOK
      <4> QED
        BY <4>1, <4>2 DEF Beginning, TypeOK
    <3> QED
      BY <3>1, <3>2
  <2> QED
    BY <1>1, <2>1, <2>2 DEF Held
<1> QED
  BY <1>2, <1>3, <1>4, <1>5

LEMMA RestartInterrupts ==
  ASSUME TypeOK, Restart
  PROVE  Service!Interrupt
<1>1. /\ status' = [j \in Jobs |-> IF status[j] \in Active THEN "interrupted" ELSE status[j]]
      /\ inTime' = {} /\ UNCHANGED <<kind, scope>>
      /\ queue' = [l \in Lanes |-> <<>>] /\ at' = [l \in Lanes |-> "idle"]
      /\ req' = [c \in Threads |-> Idle]
  BY DEF Restart, MarkInterrupted, MemoryLost
<1>2. \A j \in Jobs : ~Held(j)'
  BY <1>1 DEF Held, Idle, Threads
<1>3. ASSUME NEW l \in Lanes PROVE Line'[l] = <<>>
  <2>1. Entering(l)' = <<>>
    <3> DEFINE held == {k \in Jobs : Held(k)' /\ Lane(kind'[k]) = l}
    <3>1. held = {}
      BY <1>2
    <3>2. Entering(l)' = Single(held)
      BY DEF Entering
    <3> HIDE DEF held
    <3> QED
      BY <3>1, <3>2, Singles
  <2>2. Beginning(l)' = <<>> /\ queue'[l] = <<>>
    BY <1>1 DEF Beginning
  <2>3. Line'[l] = (Beginning(l)' \o queue'[l]) \o Entering(l)'
    BY DEF Line
  <2> QED
    BY <2>1, <2>2, <2>3
<1>4. Line' = [l \in Lanes |-> <<>>]
  <2>1. Line' = [l \in Lanes |-> Line'[l]]
    BY DEF Line
  <2> QED
    BY <1>3, <2>1
<1> QED
  BY <1>1, <1>4 DEF Service!Interrupt, Service!Active, Active, LaneOf

\* While no statement times out and no other process builds the services, and with one
\* submitting thread, the queue implements JobLanes: whatever the threads, the two
\* executors, the events in memory and a kill of the service do, the table of jobs
\* changes by whole steps of a queue that runs the jobs of a lane one by one in the
\* order in which they were accepted.
THEOREM QueueServesInOrder ==
  ASSUME MaxOthers = 0, MaxLockouts = 0, NEW c \in Submitters, Submitters = {c}
  PROVE  Spec => ServesInOrder
<1>1. Init => Service!Init
  <2> SUFFICES ASSUME Init PROVE Service!Init
    OBVIOUS
  <2>1. scope \in [Jobs -> Scopes]
    BY TypesInit DEF TypeOK
  <2>2. LaneOf \in [Jobs -> Lanes]
    BY DEF LaneOf, Lane, Lanes
  <2>3. \A j \in Jobs : ~Held(j)
    BY DEF Init, Held, Idle, Threads
  <2>4. ASSUME NEW l \in Lanes PROVE Line[l] = <<>>
    <3>1. {j \in Jobs : Held(j) /\ Lane(kind[j]) = l} = {}
      BY <2>3
    <3>2. Entering(l) = <<>>
      BY <3>1, Singles DEF Entering
    <3>3. Beginning(l) = <<>> /\ queue[l] = <<>>
      BY DEF Init, Beginning
    <3> QED
      BY <3>2, <3>3 DEF Line
  <2>5. Line = [l \in Lanes |-> <<>>]
    <3>1. Line = [l \in Lanes |-> Line[l]]
      BY DEF Line
    <3> QED
      BY <2>4, <3>1
  <2> QED
    BY <2>1, <2>2, <2>5 DEF Init, Service!Init
<1>2. TypeOK /\ Settled /\ Promises /\ Alone(c) /\ [Next]_vars => [Service!Next]_(Service!vars)
  <2> SUFFICES ASSUME TypeOK, Settled, Promises, Alone(c), [Next]_vars
               PROVE  Service!Next \/ UNCHANGED Known
    BY DEF Service!vars, Known
  <2> USE DEF Service!Next
  <2>1. ~(others < MaxOthers) /\ ~(lockouts < MaxLockouts)
    BY DEF TypeOK
  <2>2. CASE Insert(c)
    BY <2>2, InsertAccepts
  <2>3. CASE Submit(c)
    BY <2>3, SubmitIsQuiet
  <2>4. CASE Start(c) \/ Retry(c) \/ Resume(c) \/ Register(c)
    <3>1. Start(c) \/ Retry(c) \/ Resume(c) => \E k \in Kinds, s \in Scopes : Check(c, k, s)
      BY DEF Start, Retry, Resume, TypeOK
    <3> QED
      BY <2>4, <3>1, OtherStepsAreQuiet
  <2>5. ASSUME NEW x \in Cancellers, FindEvent(x) \/ CancellerStep(x)
        PROVE  Service!Next \/ UNCHANGED Known
    BY <2>5, SetEventAsks, OtherStepsAreQuiet DEF CancellerStep
  <2>6. ASSUME NEW l \in Lanes, WorkerStep(l) PROVE Service!Next \/ UNCHANGED Known
    <3>1. CASE Take(l)
      BY <3>1, TakeIsQuiet
    <3>2. CASE MarkRunning(l)
      BY <3>2, MarkRunningBegins
    <3>3. CASE Finish(l) \/ Fail(l)
      BY <3>3, OutcomeEnds
    <3>4. CASE \/ AnnounceStart(l) \/ Progress(l) \/ HandlerReturns(l) \/ HandlerRaises(l)
               \/ AnnounceEnd(l) \/ ReportFailure(l) \/ Pop(l)
      BY <3>4, OtherStepsAreQuiet
    <3> QED
      BY <2>6, <3>1, <3>2, <3>3, <3>4 DEF WorkerStep
  <2>7. ASSUME NEW l \in Lanes PROVE ~(StartLockedOut(l) \/ FinishLockedOut(l) \/ FailLockedOut(l))
    BY <2>1 DEF StartLockedOut, FinishLockedOut, FailLockedOut, Lockout
  <2>8. CASE Restart
    BY <2>8, RestartInterrupts
  <2>9. ~OtherProcess
    BY <2>1 DEF OtherProcess
  <2>10. CASE UNCHANGED vars
    BY <2>10 DEF vars, rows, events, worker, Known, LaneOf, Line, Beginning, Entering, Held
  <2> QED
    BY <2>2, <2>3, <2>4, <2>5, <2>6, <2>7, <2>8, <2>9, <2>10 DEF Next, SubmitterStep
<1>3. Spec => Service!Init /\ [][Service!Next]_(Service!vars)
  BY <1>1, <1>2, Typed, SettledAlways, PromisesAlways, AloneAlways, PTL DEF Spec
<1> QED
  BY <1>3 DEF ServesInOrder, Service!Spec

=============================================================================
