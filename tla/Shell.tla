------------------------------- MODULE Shell --------------------------------
(***************************************************************************)
(* The browser's shell, frontend/src/App.tsx: the lists of repositories    *)
(* and jobs, the page of the selected repository with its cached runs and  *)
(* the page of the jobs, beside a server whose jobs make progress.         *)
(*                                                                         *)
(* The client learns of the server only from answers.  A request is read   *)
(* by the server at some moment and its answer arrives later; requests     *)
(* overtake each other.  A handler and the effects that React runs after   *)
(* it are one step.                                                        *)
(*                                                                         *)
(* Left out: the pages that only display what they fetch, collections, the *)
(* flags that disable buttons, and which of the ended jobs have been       *)
(* continued already.                                                      *)
(***************************************************************************)
EXTENDS Naturals, Sequences, Functions, SequencesExt

CONSTANTS
  Repos,        \* all repositories that may ever be registered
  Registered,   \* those registered at the start
  EarlierJobs,  \* jobs that the server may have at the start
  StartViews,   \* pages the user may have opened before the first answer
  None, Refused,
  MaxEvents,    \* bound: events of the user
  MaxFaults,    \* bound: requests that fail
  MaxPolls,     \* bound: polls and the timelines they cause, in flight
  MaxFlight     \* bound: requests in flight when the user or the timer sends one

Views == {"repositories", "jobs", "other"}
Kinds == {"poll", "refresh", "detail", "timeline", "post"}
Active == {"queued", "running"}
Ended == {"completed", "failed"}  \* failed stands for cancelled and interrupted
Ops == {"generate", "maintain", "resume", "remove", "patch", "register", "cancel", "again"}

\* A job that generates a repository's wiki, older ones first; ended tells
\* that its run is over already.  Only the newest of a repository is active.
Jobs == [repo : Repos, status : Active \cup Ended, ended : BOOLEAN]

ASSUME ShellAssumption ==
  /\ Registered \subseteq Repos
  /\ EarlierJobs \subseteq Seq(Jobs)
  /\ \A jobs \in EarlierJobs : \A i, j \in DOMAIN jobs :
       i < j /\ jobs[i].repo = jobs[j].repo => jobs[i].status \in Ended
  /\ StartViews \subseteq Views
  /\ None \notin Repos /\ Refused \notin Repos /\ None # Refused
  /\ MaxEvents \in Nat /\ MaxFaults \in Nat /\ {MaxPolls, MaxFlight} \subseteq Nat \ {0}

VARIABLES
  srv,      \* the server: registered repositories, jobs, changes of runs
  ui,       \* the client's state hooks
  pending,  \* requests in flight, per kind in the order they were sent
  missed,   \* what became of the newest detail (history)
  events, faults

vars == <<srv, ui, pending, missed, events, faults>>

-----------------------------------------------------------------------------
(***************************************************************************)
(* The server, as far as the client can tell.                              *)
(***************************************************************************)

ActiveOf(r) == {j \in DOMAIN srv.jobs : srv.jobs[j].repo = r /\ srv.jobs[j].status \in Active}

\* A POST is refused, or returns the server's new state.
Started(r) ==
  IF r \notin srv.repos \/ ActiveOf(r) # {} THEN Refused
  ELSE [srv EXCEPT !.jobs = Append(@, [repo |-> r, status |-> "queued", ended |-> FALSE])]

Posted(op, x) ==
  CASE op \in {"generate", "maintain", "resume"} -> Started(x)
    [] op = "again" -> IF srv.jobs[x].status \in Active THEN Refused ELSE Started(srv.jobs[x].repo)
    [] op = "cancel" -> srv  \* the job ends when its worker sees the event
    [] op = "remove" -> IF x \in srv.repos THEN [srv EXCEPT !.repos = @ \ {x}] ELSE Refused
    [] op = "patch" -> IF x \in srv.repos THEN srv ELSE Refused
    [] op = "register" -> IF x \in srv.repos THEN Refused ELSE [srv EXCEPT !.repos = @ \cup {x}]

\* A run is over in the database before its job is.
TakeJob(j) ==
  /\ srv.jobs[j].status = "queued"
  /\ srv' = [srv EXCEPT !.jobs[j].status = "running"]

EndRun(j) ==
  /\ srv.jobs[j].status = "running" /\ ~srv.jobs[j].ended
  /\ srv' = [srv EXCEPT !.jobs[j].ended = TRUE, !.runs[srv.jobs[j].repo] = @ + 1]

EndJob(j) ==
  /\ srv.jobs[j].status = "running" /\ srv.jobs[j].ended
  /\ \E s \in Ended : srv' = [srv EXCEPT !.jobs[j].status = s]

Work ==
  /\ \E j \in DOMAIN srv.jobs : TakeJob(j) \/ EndRun(j) \/ EndJob(j)
  /\ UNCHANGED <<ui, pending, missed, events, faults>>

-----------------------------------------------------------------------------
(***************************************************************************)
(* Commits of the client.                                                  *)
(***************************************************************************)

Request(op, of, after) == [op |-> op, of |-> of, after |-> after, reply |-> None]

selected(u) == IF u.view = "repositories" /\ u.scope \in u.repos THEN u.scope ELSE None

\* Mutant: the dependency on the status is forgotten.
latestGenerateJobById(u) ==
  LET own == {j \in DOMAIN u.jobs : u.jobs[j].repo = selected(u)}
  IN  IF own = {} THEN <<>> ELSE <<CHOOSE j \in own : \A i \in own : i <= j>>

latestGenerateJob(u) ==
  LET own == {j \in DOMAIN u.jobs : u.jobs[j].repo = selected(u)}
  IN  IF own = {} THEN <<>>
      ELSE LET j == CHOOSE j \in own : \A i \in own : i <= j IN <<j, u.jobs[j].status>>

\* Both effects of Repositories call loadDetail when the selection has changed.
\* Two equal requests of one commit are one here, which is answered when the last
\* of them is: until then the page waits.
detailEffects(u) ==
  LET load == Request("get", selected(u), None)
      moved == selected(u) # selected(ui)
      turned == latestGenerateJob(u) # latestGenerateJob(ui)
  IN  IF selected(u) # None /\ (moved \/ (turned /\ latestGenerateJob(u) # <<>>))
      THEN <<load>> ELSE <<>>

\* Mutant: the panel is reloaded only while its job is active.
timelineEffectWhileActive(u) ==
  IF u.panel # None /\ u.panel.job \in DOMAIN u.jobs /\ u.jobs[u.panel.job].status \in Active
  THEN <<Request("get", u.panel.job, None)>> ELSE <<>>

\* The effect of Jobs on a new list of jobs.
timelineEffect(u) ==
  IF u.panel # None /\ u.panel.job \in DOMAIN u.jobs
  THEN <<Request("get", u.panel.job, None)>> ELSE <<>>

\* The component of a page that is left has lost its state: the answers it
\* waits for show nothing, they only continue the handler.
Detached(requests) == [i \in DOMAIN requests |-> [requests[i] EXCEPT !.op = "gone"]]

\* Mutant: the jobs' page keeps its panel when it is left.
CommitKeepingPanel(u, flight, newJobs) ==
  /\ ui' = [u EXCEPT
       !.detail = IF u.view # "repositories" \/ (selected(u) = None /\ selected(ui) # None)
                  THEN None ELSE @]
  /\ pending' = [flight EXCEPT
       !["detail"] = IF u.view # "repositories" THEN Detached(@) ELSE @ \o detailEffects(u),
       !["timeline"] = IF u.view # "jobs" THEN <<>>
                       ELSE IF newJobs THEN @ \o timelineEffect(u) ELSE @]

Commit(u, flight, newJobs) ==
  /\ ui' = [u EXCEPT
       !.detail = IF u.view # "repositories" \/ (selected(u) = None /\ selected(ui) # None)
                  THEN None ELSE @,
       !.panel = IF u.view # "jobs" THEN None ELSE @]
  /\ pending' = [flight EXCEPT
       !["detail"] = IF u.view # "repositories" THEN Detached(@) ELSE @ \o detailEffects(u),
       !["timeline"] = IF u.view # "jobs" THEN <<>>
                       ELSE IF newJobs THEN @ \o timelineEffect(u) ELSE @]

Sending(kind, request) == [pending EXCEPT ![kind] = Append(@, request)]

Init ==
  /\ srv \in [repos : {Registered}, jobs : EarlierJobs, runs : {[r \in Repos |-> 0]}]
  /\ \E v \in StartViews :
       ui = [view |-> v, scope |-> None, repos |-> {}, jobs |-> <<>>, detail |-> None, panel |-> None]
  /\ pending = [k \in Kinds |-> IF k = "refresh" THEN <<Request("get", None, None)>> ELSE <<>>]
  /\ missed = [lost |-> FALSE, late |-> 0]
  /\ events = 0
  /\ faults = 0

-----------------------------------------------------------------------------
(***************************************************************************)
(* The user and the timer.                                                 *)
(***************************************************************************)

InFlight ==
  Len(pending["poll"]) + Len(pending["refresh"]) + Len(pending["detail"])
  + Len(pending["timeline"]) + Len(pending["post"])

Event ==
  /\ events < MaxEvents /\ InFlight < MaxFlight
  /\ events' = events + 1
  /\ UNCHANGED <<srv, missed, faults>>

Post(op, of) == Event /\ Commit(ui, Sending("post", Request(op, of, None)), FALSE)

chooseRepository(r) ==
  /\ r \in ui.repos
  /\ Event
  /\ Commit([ui EXCEPT !.scope = r, !.view = "repositories"], pending, FALSE)

setView(v) ==
  /\ v # ui.view
  /\ Event
  /\ Commit([ui EXCEPT !.view = v], pending, FALSE)

refresh == Event /\ Commit(ui, Sending("refresh", Request("get", None, None)), FALSE)

\* The button at the top of every page.
runAction == ui.scope # None /\ Post("generate", ui.scope)

\* The page of a repository is there when its detail is.
RepositoryPage ==
  /\ selected(ui) # None /\ ui.detail # None
  /\ \E op \in {"maintain", "resume", "remove", "patch"} : Post(op, selected(ui))

register(r) == r \in Repos \ Registered /\ Post("register", r)

loadTimeline(j) ==
  /\ ui.view = "jobs"
  /\ Event
  /\ Commit(ui, Sending("timeline", Request("get", j, None)), FALSE)

closePanel ==
  /\ ui.panel # None
  /\ Event
  /\ Commit([ui EXCEPT !.panel = None], pending, FALSE)

act(j) ==
  /\ ui.view = "jobs"
  /\ IF ui.jobs[j].status \in Active THEN Post("cancel", j)
     ELSE ui.jobs[j].status # "completed" /\ Post("again", j)

UserEvent ==
  \/ \E r \in Repos : chooseRepository(r) \/ register(r)
  \/ \E v \in Views : setView(v)
  \/ refresh \/ runAction \/ RepositoryPage \/ closePanel
  \/ \E j \in DOMAIN ui.jobs : loadTimeline(j) \/ act(j)

Poll ==
  /\ InFlight < MaxFlight /\ Len(pending["poll"]) + Len(pending["timeline"]) < MaxPolls
  /\ Commit(ui, Sending("poll", Request("get", None, None)), FALSE)
  /\ UNCHANGED <<srv, missed, events, faults>>

-----------------------------------------------------------------------------
(***************************************************************************)
(* Requests.                                                               *)
(***************************************************************************)

\* The server reads, or changes, its state and sends the answer.
Replied(kind, i, reply) ==
  /\ UNCHANGED <<ui, missed, events, faults>>
  /\ pending' = [pending EXCEPT ![kind][i].reply = reply]

Serve(kind, i) ==
  LET r == pending[kind][i]
      posted == Posted(r.op, r.of)
  IN  /\ r.reply = None
      /\ CASE kind = "poll" -> Replied(kind, i, srv.jobs) /\ UNCHANGED srv
           [] kind = "refresh" ->
                Replied(kind, i, [jobs |-> srv.jobs, repos |-> srv.repos]) /\ UNCHANGED srv
           [] kind = "detail" ->
                /\ Replied(kind, i, IF r.of \in srv.repos THEN srv.runs[r.of] ELSE Refused)
                /\ UNCHANGED srv
           [] kind = "timeline" -> Replied(kind, i, srv.jobs[r.of].status) /\ UNCHANGED srv
           [] kind = "post" ->
                IF posted = Refused THEN Replied(kind, i, Refused) /\ UNCHANGED srv
                ELSE Replied(kind, i, "done") /\ srv' = posted

Without(kind, i) == [pending EXCEPT ![kind] = RemoveAt(@, i)]
Then(flight, kind, request) == [flight EXCEPT ![kind] = Append(@, request)]

\* What remains of a handler when its refresh has returned, with or without
\* an error: resume goes to the jobs, a registration to its repository.
AfterRefresh(u, r) ==
  IF r.after = None THEN u
  ELSE IF r.after = "jobs" THEN [u EXCEPT !.view = "jobs"]
  ELSE [u EXCEPT !.scope = r.after, !.view = "repositories"]

PollAnswer(i) ==
  Commit([ui EXCEPT !.jobs = pending["poll"][i].reply], Without("poll", i), TRUE)

RefreshAnswer(i) ==
  LET r == pending["refresh"][i]
      listed == [ui EXCEPT !.jobs = r.reply.jobs, !.repos = r.reply.repos]
  IN  \E first \in IF ui.scope = None THEN r.reply.repos \cup {None} ELSE {ui.scope} :
        /\ ui.scope = None /\ r.reply.repos # {} => first # None
        /\ Commit(AfterRefresh([listed EXCEPT !.scope = first], r), Without("refresh", i), TRUE)

DetailAnswer(i) ==
  LET r == pending["detail"][i]
      u == IF r.op = "gone" THEN ui
           ELSE [ui EXCEPT !.detail = [repo |-> r.of, runs |-> r.reply]]
  IN  Commit(u, IF r.after = None THEN Without("detail", i)
                ELSE Then(Without("detail", i), "refresh", Request("get", None, None)), FALSE)

TimelineAnswer(i) ==
  LET r == pending["timeline"][i]
  IN  Commit([ui EXCEPT !.panel = [job |-> r.of, status |-> r.reply]],
             Without("timeline", i), FALSE)

PostAnswer(i) ==
  LET r == pending["post"][i]
      flight == Without("post", i)
      refreshing(after) == Then(flight, "refresh", Request("get", None, after))
      toJobs == [ui EXCEPT !.view = "jobs"]
  IN  CASE r.op = "generate" -> Commit(toJobs, refreshing(None), FALSE)
        [] r.op = "maintain" -> Commit(toJobs, flight, FALSE)
        [] r.op = "resume" -> Commit(ui, refreshing("jobs"), FALSE)
        [] r.op = "register" -> Commit(ui, refreshing(r.of), FALSE)
        [] r.op = "patch" ->
             Commit(ui, Then(flight, "detail", Request("get", r.of, "refresh")), FALSE)
        [] r.op \in {"remove", "cancel", "again"} -> Commit(ui, refreshing(None), FALSE)

\* History: no guard reads it.  "late" of the oldest details in flight have been overtaken by one
\* that the page was waiting for, and what is shown is "lost": it came late, is
\* another repository's, or an error has come in place of its successor.
Overtaken(i) == i <= missed.late

Missed(i, lost) ==
  LET awaited == pending["detail"][i].op # "gone"
  IN  missed' = [lost |-> IF awaited THEN lost ELSE missed.lost,
                 late |-> IF Overtaken(i) THEN missed.late - 1
                          ELSE IF awaited THEN i - 1 ELSE missed.late]

Answer(kind, i) ==
  /\ pending[kind][i].reply \notin {None, Refused}
  /\ UNCHANGED <<srv, events, faults>>
  /\ CASE kind = "poll" -> PollAnswer(i)
       [] kind = "refresh" -> RefreshAnswer(i)
       [] kind = "detail" -> DetailAnswer(i)
       [] kind = "timeline" -> TimelineAnswer(i)
       [] kind = "post" -> PostAnswer(i)
  /\ IF kind = "detail" THEN Missed(i, Overtaken(i) \/ pending[kind][i].of # selected(ui))
     ELSE UNCHANGED missed

\* An error: the server has refused, or the connection has failed before or
\* after the server did its part.
Fail(kind, i) ==
  LET r == pending[kind][i]
  IN  /\ UNCHANGED <<srv, events>>
      /\ IF r.reply = Refused THEN UNCHANGED faults
         ELSE faults < MaxFaults /\ faults' = faults + 1
      /\ Commit(IF kind = "refresh" THEN AfterRefresh(ui, r) ELSE ui, Without(kind, i), FALSE)
      /\ IF kind = "detail" THEN Missed(i, missed.lost \/ ~Overtaken(i)) ELSE UNCHANGED missed

Transport ==
  \E kind \in Kinds : \E i \in DOMAIN pending[kind] :
    Serve(kind, i) \/ Answer(kind, i) \/ Fail(kind, i)

Next == UserEvent \/ Poll \/ Work \/ Transport

\* The timer ticks, and every request is read and answered some time.  Jobs
\* need not make progress and users need not act.
First(kind) == pending[kind] # <<>> /\ (Serve(kind, 1) \/ Answer(kind, 1) \/ Fail(kind, 1))
Fairness ==
  /\ WF_pending(Poll)
  /\ \A kind \in Kinds : WF_pending(First(kind))

Spec == Init /\ [][Next]_vars /\ Fairness

-----------------------------------------------------------------------------
(***************************************************************************)
(* Properties.                                                             *)
(***************************************************************************)

Requests ==
  [op : Ops \cup {"get", "gone"}, of : Repos \cup Nat \cup {None},
   after : Repos \cup {"jobs", "refresh", None}]

TypeOK ==
  /\ srv.repos \subseteq Repos /\ srv.jobs \in Seq(Jobs) /\ srv.runs \in [Repos -> Nat]
  /\ ui.view \in Views /\ ui.scope \in Repos \cup {None}
  /\ ui.repos \subseteq Repos /\ ui.jobs \in Seq(Jobs)
  /\ ui.detail = None \/ (ui.view = "repositories" /\ ui.detail \in [repo : Repos, runs : Nat])
  /\ ui.panel = None \/ (ui.view = "jobs" /\ ui.panel.job \in DOMAIN srv.jobs)
  /\ DOMAIN pending = Kinds
  /\ \A kind \in Kinds : \A i \in DOMAIN pending[kind] :
       LET r == pending[kind][i]
       IN  [op |-> r.op, of |-> r.of, after |-> r.after] \in Requests
  /\ missed.lost \in BOOLEAN /\ missed.late \in 0..Len(pending["detail"])
  /\ events \in 0..MaxEvents /\ faults \in 0..MaxFaults

\* When the page of a repository waits for no detail, the list of jobs is up to
\* date and none of the repository's jobs is active, then the cached detail is
\* the repository's own and shows its last run.  The runs' list is not polled:
\* it is reloaded when the latest job turns.  Nothing in an answer tells whether it
\* is late (App.tsx:215), so excluded is the time in which what is shown was itself
\* overtaken, is another repository's (the answer to updateModel after a change of
\* the selection), or was to be replaced by an answer that failed; the next answer
\* in time ends it.
DetailIsFresh ==
  LET r == selected(ui)
  IN  /\ r # None /\ ~missed.lost
      /\ \A i \in DOMAIN pending["detail"] : pending["detail"][i].op = "gone"
      /\ ui.jobs = srv.jobs /\ ActiveOf(r) = {} /\ r \in srv.repos
      => ui.detail = [repo |-> r, runs |-> srv.runs[r]]

\* Whatever is lost or overtaken, the list of jobs and the open panel agree
\* with the server in the end.
PageHeals ==
  <>[](/\ ui.jobs = srv.jobs
       /\ ui.panel # None => ui.panel.status = srv.jobs[ui.panel.job].status)

=============================================================================
