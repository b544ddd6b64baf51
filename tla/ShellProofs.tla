----------------------------- MODULE ShellProofs ----------------------------
(***************************************************************************)
(* What holds of Shell for every set of repositories and of jobs, however  *)
(* many events, polls and faults there are.                                *)
(***************************************************************************)
EXTENDS Shell, WellFoundedInduction, TLAPS

(***************************************************************************)
(* The invariant.                                                          *)
(***************************************************************************)

Statuses == Active \cup Ended

\* The shapes of the state.
Servers == [repos : SUBSET Repos, jobs : Seq(Jobs), runs : [Repos -> Nat]]

Clients ==
  [view : Views, scope : Repos \cup {None}, repos : SUBSET Repos, jobs : Seq(Jobs),
   detail : [repo : Repos, runs : Nat] \cup {None},
   panel : [job : Nat, status : Statuses] \cup {None}]

Listings == [jobs : Seq(Jobs), repos : SUBSET Repos]

Messages ==
  [op : Ops \cup {"get", "gone"}, of : Repos \cup Nat \cup {None},
   after : Repos \cup {"jobs", "refresh", None},
   reply : {None, Refused, "done"} \cup Nat \cup Statuses \cup Seq(Jobs) \cup Listings]

Shaped ==
  /\ srv \in Servers /\ ui \in Clients
  /\ missed \in [lost : BOOLEAN, late : Nat]
  /\ events \in 0..MaxEvents /\ faults \in 0..MaxFaults

\* A list of jobs that the server has had: it may lack the newest jobs and
\* what became of the others.
Older(jobs) ==
  /\ jobs \in Seq(Jobs)
  /\ Len(jobs) <= Len(srv.jobs)
  /\ \A j \in DOMAIN jobs :
       /\ jobs[j].repo = srv.jobs[j].repo
       /\ jobs[j].status \in Ended => srv.jobs[j].status \in Ended

\* A repository's job has ended before its next one starts.
Serial(jobs) ==
  \A i, j \in DOMAIN jobs :
    i < j /\ jobs[i].repo = jobs[j].repo => jobs[i].status \in Ended

Snapshot(jobs) == Older(jobs) /\ Serial(jobs)

\* What a request may be about and what its answer may say.
Proper(kind, m) ==
  CASE kind = "poll" -> m.reply = None \/ Snapshot(m.reply)
    [] kind = "refresh" ->
         /\ m.after \in Repos \cup {"jobs", None}
         /\ m.reply = None \/ (m.reply \in Listings /\ Snapshot(m.reply.jobs))
    [] kind = "detail" ->
         m.of \in Repos /\ m.after \in {"refresh", None} /\ m.reply \in {None, Refused} \cup Nat
    [] kind = "timeline" -> m.of \in DOMAIN srv.jobs /\ m.reply \in {None} \cup Statuses
    [] kind = "post" ->
         /\ m.op \in Ops
         /\ IF m.op \in {"again", "cancel"} THEN m.of \in DOMAIN srv.jobs ELSE m.of \in Repos
         /\ m.reply \in {None, Refused, "done"}

Mail(kind, requests) ==
  requests \in Seq(Messages) /\ \A i \in DOMAIN requests : Proper(kind, requests[i])

AllMail(flight) ==
  flight \in [Kinds -> Seq(Messages)] /\ \A kind \in Kinds : Mail(kind, flight[kind])

\* The client knows that the repository's runs are over.
Settled(r) ==
  \A j \in DOMAIN srv.jobs :
    srv.jobs[j].repo = r => j \in DOMAIN ui.jobs /\ ui.jobs[j].status \in Ended

\* The requests for a detail whose answers will be shown and come in time: none that
\* was sent later has been answered.
Live(requests, late) == {i \in DOMAIN requests : i > late /\ requests[i].op # "gone"}

\* The newest of them has still to be read by the server, or has been read after
\* the last run was over; if there is none, the detail that is shown has, unless
\* it is lost.
Covered(detail, requests, history, r) ==
  IF Live(requests, history.late) = {}
  THEN history.lost \/ detail = [repo |-> r, runs |-> srv.runs[r]]
  ELSE \E i \in Live(requests, history.late) :
         /\ \A j \in Live(requests, history.late) : j <= i
         /\ requests[i].of # r \/ requests[i].reply \in {None, Refused, srv.runs[r]}

Fresh ==
  selected(ui) # None /\ Settled(selected(ui)) =>
    Covered(ui.detail, pending["detail"], missed, selected(ui))

Tidy ==
  /\ ui.detail # None => ui.view = "repositories"
  /\ ui.panel # None => ui.view = "jobs" /\ ui.panel.job \in DOMAIN srv.jobs

Typing ==
  /\ Shaped /\ Tidy /\ AllMail(pending) /\ missed.late <= Len(pending["detail"])
  /\ Serial(srv.jobs) /\ Snapshot(ui.jobs)

IInv == Typing /\ Fresh

-----------------------------------------------------------------------------
(***************************************************************************)
(* Sequences of requests.                                                  *)
(***************************************************************************)

\* What a sequence is without one of its elements.
LEMMA RemoveAtIs ==
  ASSUME NEW S, NEW s \in Seq(S), NEW i \in DOMAIN s
  PROVE  /\ RemoveAt(s, i) \in Seq(S) /\ Len(RemoveAt(s, i)) = Len(s) - 1
         /\ \A j \in 1..Len(s) - 1 : RemoveAt(s, i)[j] = IF j < i THEN s[j] ELSE s[j + 1]
<1> DEFINE front == SubSeq(s, 1, i - 1)
           back == SubSeq(s, i + 1, Len(s))
<1>1. i \in Nat /\ 1 <= i /\ i <= Len(s) /\ Len(s) \in Nat
  OBVIOUS
<1>2. /\ front \in Seq(S) /\ Len(front) = i - 1
      /\ \A j \in 1..i - 1 : front[j] = s[j]
  BY <1>1
<1>3. /\ back \in Seq(S) /\ Len(back) = Len(s) - i
      /\ \A j \in 1..Len(s) - i : back[j] = s[i + j]
  BY <1>1
<1>4. RemoveAt(s, i) = front \o back
  BY DEF RemoveAt
<1> HIDE DEF front, back
<1> QED
  BY <1>1, <1>2, <1>3, <1>4

LEMMA RemoveKeeps ==
  ASSUME NEW kind, NEW requests, Mail(kind, requests), NEW i \in DOMAIN requests
  PROVE  Mail(kind, RemoveAt(requests, i))
<1>1. requests \in Seq(Messages)
  BY DEF Mail
<1>2. SUFFICES ASSUME NEW j \in DOMAIN RemoveAt(requests, i)
               PROVE  Proper(kind, RemoveAt(requests, i)[j])
  BY <1>1, RemoveAtIs DEF Mail
<1>3. PICK k \in DOMAIN requests : RemoveAt(requests, i)[j] = requests[k]
  <2>1. j \in 1..Len(requests) - 1
    BY <1>1, RemoveAtIs
  <2>2. RemoveAt(requests, i)[j] = IF j < i THEN requests[j] ELSE requests[j + 1]
    BY <1>1, <2>1, RemoveAtIs
  <2>3. j \in DOMAIN requests /\ j + 1 \in DOMAIN requests
    BY <1>1, <2>1
  <2> QED
    BY <2>2, <2>3
<1> QED
  BY <1>3 DEF Mail

LEMMA ConcatKeeps ==
  ASSUME NEW kind, NEW requests, Mail(kind, requests), NEW others, Mail(kind, others)
  PROVE  Mail(kind, requests \o others)
<1>1. requests \in Seq(Messages) /\ others \in Seq(Messages)
  BY DEF Mail
<1>2. SUFFICES ASSUME NEW j \in DOMAIN (requests \o others)
               PROVE  Proper(kind, (requests \o others)[j])
  BY <1>1 DEF Mail
<1>3. CASE j \in DOMAIN requests
  BY <1>1, <1>3 DEF Mail
<1>4. CASE j \notin DOMAIN requests
  <2>1. j - Len(requests) \in DOMAIN others
        /\ (requests \o others)[j] = others[j - Len(requests)]
    BY <1>1, <1>4
  <2> QED
    BY <2>1 DEF Mail
<1> QED
  BY <1>3, <1>4

LEMMA OneKeeps ==
  ASSUME NEW kind, NEW m \in Messages, Proper(kind, m)
  PROVE  Mail(kind, <<m>>)
BY DEF Mail

LEMMA NoneKeeps ==
  ASSUME NEW kind
  PROVE  Mail(kind, <<>>)
BY DEF Mail

LEMMA AppendKeeps ==
  ASSUME NEW kind, NEW requests, Mail(kind, requests), NEW m \in Messages, Proper(kind, m)
  PROVE  Mail(kind, Append(requests, m))
<1>1. requests \in Seq(Messages)
  BY DEF Mail
<1>2. Append(requests, m) = requests \o <<m>>
  BY <1>1
<1> QED
  BY <1>2, OneKeeps, ConcatKeeps

\* A page that is left keeps its requests, but for their purpose.
LEMMA DetachedIs ==
  ASSUME NEW requests \in Seq(Messages)
  PROVE  /\ Detached(requests) \in Seq(Messages)
         /\ DOMAIN Detached(requests) = DOMAIN requests
         /\ \A i \in DOMAIN requests :
              /\ Detached(requests)[i].op = "gone"
              /\ Detached(requests)[i].of = requests[i].of
              /\ Detached(requests)[i].after = requests[i].after
              /\ Detached(requests)[i].reply = requests[i].reply
<1> DEFINE left == Detached(requests)
<1>1. \A i \in DOMAIN requests : left[i] = [requests[i] EXCEPT !.op = "gone"]
  BY DEF Detached
<1>2. left = [i \in 1..Len(requests) |-> left[i]] /\ Len(requests) \in Nat
  BY DEF Detached
<1> HIDE DEF left
<1>3. \A i \in DOMAIN requests :
        /\ left[i] \in Messages /\ left[i].op = "gone" /\ left[i].of = requests[i].of
        /\ left[i].after = requests[i].after /\ left[i].reply = requests[i].reply
  <2> SUFFICES ASSUME NEW i \in DOMAIN requests
               PROVE  /\ left[i] \in Messages
                      /\ left[i].op = "gone" /\ left[i].of = requests[i].of
                      /\ left[i].after = requests[i].after /\ left[i].reply = requests[i].reply
    OBVIOUS
  <2>1. requests[i] \in Messages
    OBVIOUS
  <2>2. left[i] = [requests[i] EXCEPT !.op = "gone"]
    BY <1>1
  <2> HIDE DEF left
  <2> QED
    BY <2>1, <2>2 DEF Messages
<1>4. DOMAIN left = DOMAIN requests
  BY <1>2
<1>5. \A i \in 1..Len(requests) : left[i] \in Messages
  BY <1>3
<1>6. left \in [1..Len(requests) -> Messages]
  BY <1>2, <1>5
<1>7. left \in Seq(Messages)
  BY <1>2, <1>6
<1> QED
  BY <1>3, <1>4, <1>7 DEF left

LEMMA DetachedKeeps ==
  ASSUME NEW requests, Mail("detail", requests)
  PROVE  Mail("detail", Detached(requests))
<1>1. requests \in Seq(Messages)
  BY DEF Mail
<1> QED
  BY <1>1, DetachedIs DEF Mail, Proper

\* A request as it is sent.
LEMMA RequestIs ==
  ASSUME NEW op \in Ops \cup {"get", "gone"}, NEW of \in Repos \cup Nat \cup {None},
         NEW after \in Repos \cup {"jobs", "refresh", None}
  PROVE  /\ Request(op, of, after) \in Messages
         /\ Request(op, of, after).op = op /\ Request(op, of, after).of = of
         /\ Request(op, of, after).after = after /\ Request(op, of, after).reply = None
BY DEF Request, Messages

-----------------------------------------------------------------------------
(***************************************************************************)
(* Steps of the server.                                                    *)
(***************************************************************************)

\* The server forgets no job and none that has ended becomes active.
Progress ==
  /\ Len(srv.jobs) <= Len(srv'.jobs)
  /\ \A j \in DOMAIN srv.jobs :
       /\ j \in DOMAIN srv'.jobs /\ srv'.jobs[j].repo = srv.jobs[j].repo
       /\ srv.jobs[j].status \in Ended => srv'.jobs[j].status \in Ended

LEMMA SnapshotKept ==
  ASSUME srv \in Servers, srv' \in Servers, Progress, NEW jobs, Snapshot(jobs)
  PROVE  Snapshot(jobs)'
<1>1. /\ jobs \in Seq(Jobs) /\ Len(jobs) <= Len(srv.jobs) /\ Serial(jobs)
      /\ \A j \in DOMAIN jobs : /\ jobs[j].repo = srv.jobs[j].repo
                                /\ jobs[j].status \in Ended => srv.jobs[j].status \in Ended
  BY DEF Snapshot, Older
<1>2. srv.jobs \in Seq(Jobs) /\ srv'.jobs \in Seq(Jobs)
  BY DEF Servers
<1>3. DOMAIN jobs \subseteq DOMAIN srv.jobs
  BY <1>1, <1>2
<1>4. Len(jobs) <= Len(srv'.jobs)
  BY <1>1, <1>2 DEF Progress
<1>5. \A j \in DOMAIN jobs : /\ jobs[j].repo = srv'.jobs[j].repo
                             /\ jobs[j].status \in Ended => srv'.jobs[j].status \in Ended
  BY <1>1, <1>3 DEF Progress
<1> QED
  BY <1>1, <1>4, <1>5 DEF Snapshot, Older, Serial

LEMMA ProperKept ==
  ASSUME srv \in Servers, srv' \in Servers, Progress, NEW kind \in Kinds, NEW m, Proper(kind, m)
  PROVE  Proper(kind, m)'
<1>1. \A j \in DOMAIN srv.jobs : j \in DOMAIN srv'.jobs
  BY DEF Progress
<1>2. CASE kind = "poll"
  BY <1>2, SnapshotKept DEF Proper
<1>3. CASE kind = "refresh"
  BY <1>3, SnapshotKept DEF Proper
<1>4. CASE kind = "detail"
  BY <1>4 DEF Proper
<1>5. CASE kind = "timeline"
  BY <1>1, <1>5 DEF Proper
<1>6. CASE kind = "post"
  BY <1>1, <1>6 DEF Proper
<1> QED
  BY <1>2, <1>3, <1>4, <1>5, <1>6 DEF Kinds

LEMMA MailKept ==
  ASSUME srv \in Servers, srv' \in Servers, Progress, AllMail(pending')
  PROVE  AllMail(pending)'
BY ProperKept DEF AllMail, Mail

LEMMA SameServer ==
  ASSUME srv \in Servers, UNCHANGED srv, AllMail(pending')
  PROVE  AllMail(pending)'
<1>1. Progress
  BY DEF Progress, Servers
<1> QED
  BY <1>1, MailKept

-----------------------------------------------------------------------------
(***************************************************************************)
(* Commits.                                                                *)
(***************************************************************************)

LEMMA SelectedIs ==
  ASSUME NEW u \in Clients
  PROVE  /\ selected(u) \in Repos \cup {None}
         /\ selected(u) # None => u.view = "repositories" /\ selected(u) \in Repos
BY DEF selected, Clients

LEMMA EffectsAre ==
  ASSUME NEW u \in Clients
  PROVE  \/ detailEffects(u) = <<>>
         \/ selected(u) # None /\ detailEffects(u) = <<Request("get", selected(u), None)>>
BY DEF detailEffects

LEMMA EffectsKeep ==
  ASSUME NEW u \in Clients
  PROVE  Mail("detail", detailEffects(u))
<1>1. CASE detailEffects(u) = <<>>
  BY <1>1, NoneKeeps
<1>2. CASE selected(u) # None /\ detailEffects(u) = <<Request("get", selected(u), None)>>
  <2> DEFINE m == Request("get", selected(u), None)
  <2>1. selected(u) \in Repos
    BY <1>2, SelectedIs
  <2>2. m \in Messages /\ m.of = selected(u) /\ m.after = None /\ m.reply = None
    BY <2>1 DEF Request, Messages
  <2> HIDE DEF m
  <2>3. Proper("detail", m)
    BY <2>1, <2>2 DEF Proper
  <2>4. Mail("detail", <<m>>)
    BY <2>2, <2>3, OneKeeps
  <2> QED
    BY <1>2, <2>4 DEF m
<1> QED
  BY <1>1, <1>2, EffectsAre

LEMMA TimelineKeeps ==
  ASSUME NEW u \in Clients, u.panel # None => u.panel.job \in DOMAIN srv.jobs, srv \in Servers
  PROVE  Mail("timeline", timelineEffect(u))
<1>1. CASE timelineEffect(u) = <<>>
  BY <1>1, NoneKeeps
<1>2. CASE timelineEffect(u) # <<>>
  <2> DEFINE m == Request("get", u.panel.job, None)
  <2>1. u.panel # None /\ timelineEffect(u) = <<m>>
    BY <1>2 DEF timelineEffect
  <2>2. u.panel.job \in DOMAIN srv.jobs /\ u.panel.job \in Nat
    BY <2>1 DEF Servers, Clients
  <2>3. m \in Messages /\ m.of = u.panel.job /\ m.reply = None
    BY <2>2, RequestIs
  <2> HIDE DEF m
  <2>4. Proper("timeline", m)
    BY <2>2, <2>3 DEF Proper
  <2> QED
    BY <2>1, <2>3, <2>4, OneKeeps
<1> QED
  BY <1>1, <1>2

\* What a commit leaves of the state that a handler has set and of the requests.
LEMMA CommitDoes ==
  ASSUME NEW u \in Clients, NEW flight \in [Kinds -> Seq(Messages)], NEW newJobs,
         Commit(u, flight, newJobs)
  PROVE  /\ ui' \in Clients
         /\ ui'.view = u.view /\ ui'.scope = u.scope /\ ui'.repos = u.repos /\ ui'.jobs = u.jobs
         /\ ui'.detail = IF u.view # "repositories" \/ (selected(u) = None /\ selected(ui) # None)
                         THEN None ELSE u.detail
         /\ ui'.panel = IF u.view # "jobs" THEN None ELSE u.panel
         /\ DOMAIN pending' = Kinds
         /\ \A kind \in {"poll", "refresh", "post"} : pending'[kind] = flight[kind]
         /\ pending'["detail"] = IF u.view # "repositories" THEN Detached(flight["detail"])
                                 ELSE flight["detail"] \o detailEffects(u)
         /\ pending'["timeline"] = IF u.view # "jobs" THEN <<>>
                                   ELSE IF newJobs THEN flight["timeline"] \o timelineEffect(u)
                                   ELSE flight["timeline"]
         /\ pending' = [kind \in Kinds |-> pending'[kind]]
<1> DEFINE detail == IF u.view # "repositories" \/ (selected(u) = None /\ selected(ui) # None)
                     THEN None ELSE u.detail
           panel == IF u.view # "jobs" THEN None ELSE u.panel
           loading == IF u.view # "repositories" THEN Detached(flight["detail"])
                      ELSE flight["detail"] \o detailEffects(u)
           timeline == IF u.view # "jobs" THEN <<>>
                       ELSE IF newJobs THEN flight["timeline"] \o timelineEffect(u)
                       ELSE flight["timeline"]
<1>1. ui' = [u EXCEPT !.detail = detail, !.panel = panel]
  BY DEF Commit
<1>2. pending' = [flight EXCEPT !["detail"] = loading, !["timeline"] = timeline]
  BY DEF Commit, Kinds
<1>3. detail \in [repo : Repos, runs : Nat] \cup {None}
  BY DEF Clients
<1>4. panel \in [job : Nat, status : Statuses] \cup {None}
  BY DEF Clients
<1>5. SUFFICES
        /\ ui' \in Clients
        /\ ui'.view = u.view /\ ui'.scope = u.scope /\ ui'.repos = u.repos /\ ui'.jobs = u.jobs
        /\ ui'.detail = detail /\ ui'.panel = panel
        /\ DOMAIN pending' = Kinds
        /\ \A kind \in {"poll", "refresh", "post"} : pending'[kind] = flight[kind]
        /\ pending'["detail"] = loading /\ pending'["timeline"] = timeline
        /\ pending' = [kind \in Kinds |-> pending'[kind]]
  OBVIOUS
<1> HIDE DEF detail, panel, loading, timeline
<1>6. /\ ui' \in Clients
      /\ ui'.view = u.view /\ ui'.scope = u.scope /\ ui'.repos = u.repos /\ ui'.jobs = u.jobs
      /\ ui'.detail = detail /\ ui'.panel = panel
  BY <1>1, <1>3, <1>4 DEF Clients
<1>7. /\ DOMAIN pending' = Kinds
      /\ \A kind \in {"poll", "refresh", "post"} : pending'[kind] = flight[kind]
      /\ pending'["detail"] = loading /\ pending'["timeline"] = timeline
      /\ pending' = [kind \in Kinds |-> pending'[kind]]
  BY <1>2 DEF Kinds
<1> QED
  BY <1>6, <1>7

\* The client's part of the invariant, whatever it commits.
Committable(u) ==
  /\ u \in Clients /\ Snapshot(u.jobs)
  /\ u.panel # None => u.panel.job \in DOMAIN srv.jobs

LEMMA CommitKeeps ==
  ASSUME srv \in Servers, NEW u, Committable(u), NEW flight, AllMail(flight), NEW newJobs,
         Commit(u, flight, newJobs), UNCHANGED srv
  PROVE  ui' \in Clients /\ Tidy' /\ AllMail(pending)' /\ Snapshot(ui.jobs)'
<1>1. u \in Clients /\ flight \in [Kinds -> Seq(Messages)]
  BY DEF Committable, AllMail
<1>2. ui' \in Clients /\ ui'.jobs = u.jobs /\ ui'.view = u.view
  BY <1>1, CommitDoes
<1>3. /\ ui'.detail # None => ui'.view = "repositories"
      /\ ui'.panel # None => ui'.view = "jobs" /\ ui'.panel = u.panel
  BY <1>1, CommitDoes
<1>4. Tidy'
  BY <1>3 DEF Tidy, Committable
<1>5. Snapshot(ui.jobs)'
  BY <1>2 DEF Committable, Snapshot, Older, Serial
<1>6. \A kind \in Kinds : Mail(kind, flight[kind])
  BY DEF AllMail
<1>7. Mail("detail", pending'["detail"])
  <2>1. Mail("detail", flight["detail"])
    BY <1>6 DEF Kinds
  <2>2. Mail("detail", Detached(flight["detail"]))
    BY <2>1, DetachedKeeps
  <2>3. Mail("detail", flight["detail"] \o detailEffects(u))
    BY <1>1, <2>1, EffectsKeep, ConcatKeeps
  <2> QED
    BY <1>1, <2>2, <2>3, CommitDoes
<1>8. Mail("timeline", pending'["timeline"])
  <2>1. Mail("timeline", flight["timeline"])
    BY <1>6 DEF Kinds
  <2>2. Mail("timeline", timelineEffect(u))
    BY <1>1, TimelineKeeps DEF Committable
  <2>3. Mail("timeline", flight["timeline"] \o timelineEffect(u))
    BY <2>1, <2>2, ConcatKeeps
  <2>4. Mail("timeline", <<>>)
    BY NoneKeeps
  <2> QED
    BY <1>1, <2>1, <2>3, <2>4, CommitDoes
<1>9. \A kind \in Kinds : Mail(kind, pending'[kind])
  <2>1. \A kind \in {"poll", "refresh", "post"} : pending'[kind] = flight[kind]
    BY <1>1, CommitDoes
  <2> QED
    BY <1>6, <1>7, <1>8, <2>1 DEF Kinds
<1>10. pending' \in [Kinds -> Seq(Messages)]
  <2>1. pending' = [kind \in Kinds |-> pending'[kind]]
    BY <1>1, CommitDoes
  <2> QED
    BY <1>9, <2>1 DEF Mail
<1>11. AllMail(pending')
  BY <1>9, <1>10 DEF AllMail
<1>12. AllMail(pending)'
  BY <1>11, SameServer
<1> QED
  BY <1>2, <1>4, <1>5, <1>12

\* A step that may send requests, change the page or take over new lists, and that
\* leaves the detail and the requests for it alone.
Quietly ==
  \E u \in Clients : \E flight \in [Kinds -> Seq(Messages)] : \E newJobs \in BOOLEAN :
    /\ Commit(u, flight, newJobs)
    /\ Committable(u) /\ AllMail(flight)
    /\ u.detail = ui.detail /\ flight["detail"] = pending["detail"]
    /\ UNCHANGED <<srv, missed>>

LEMMA QuietIs ==
  ASSUME NEW u, NEW flight, NEW newJobs \in BOOLEAN, Commit(u, flight, newJobs),
         Committable(u), AllMail(flight), u.detail = ui.detail,
         flight["detail"] = pending["detail"], UNCHANGED <<srv, missed>>
  PROVE  Quietly
<1>1. u \in Clients /\ flight \in [Kinds -> Seq(Messages)]
  BY DEF Committable, AllMail
<1> QED
  BY <1>1 DEF Quietly

LEMMA ThenKeeps ==
  ASSUME NEW flight, AllMail(flight), NEW kind \in Kinds, NEW m \in Messages, Proper(kind, m)
  PROVE  /\ AllMail(Then(flight, kind, m))
         /\ Then(flight, kind, m)[kind] = Append(flight[kind], m)
         /\ \A other \in Kinds : other # kind => Then(flight, kind, m)[other] = flight[other]
<1> DEFINE after == Then(flight, kind, m)
<1>1. flight \in [Kinds -> Seq(Messages)] /\ \A k \in Kinds : Mail(k, flight[k])
  BY DEF AllMail
<1>2. after = [flight EXCEPT ![kind] = Append(@, m)]
  BY DEF Then
<1> HIDE DEF after
<1>3. /\ after[kind] = Append(flight[kind], m)
      /\ \A other \in Kinds : other # kind => after[other] = flight[other]
      /\ after = [k \in Kinds |-> after[k]]
  BY <1>1, <1>2
<1>4. Mail(kind, after[kind])
  BY <1>1, <1>3, AppendKeeps
<1>5. \A k \in Kinds : Mail(k, after[k])
  BY <1>1, <1>3, <1>4
<1>6. after \in [Kinds -> Seq(Messages)]
  BY <1>3, <1>5 DEF Mail
<1>7. AllMail(after)
  BY <1>5, <1>6 DEF AllMail
<1> QED
  BY <1>3, <1>7 DEF after

LEMMA WithoutKeeps ==
  ASSUME AllMail(pending), NEW kind \in Kinds, NEW i \in DOMAIN pending[kind]
  PROVE  /\ AllMail(Without(kind, i))
         /\ Without(kind, i)[kind] = RemoveAt(pending[kind], i)
         /\ \A other \in Kinds : other # kind => Without(kind, i)[other] = pending[other]
<1> DEFINE after == Without(kind, i)
<1>1. pending \in [Kinds -> Seq(Messages)] /\ \A k \in Kinds : Mail(k, pending[k])
  BY DEF AllMail
<1>2. after = [pending EXCEPT ![kind] = RemoveAt(@, i)]
  BY DEF Without
<1> HIDE DEF after
<1>3. /\ after[kind] = RemoveAt(pending[kind], i)
      /\ \A other \in Kinds : other # kind => after[other] = pending[other]
      /\ after = [k \in Kinds |-> after[k]]
  BY <1>1, <1>2
<1>4. Mail(kind, after[kind])
  BY <1>1, <1>3, RemoveKeeps
<1>5. \A k \in Kinds : Mail(k, after[k])
  BY <1>1, <1>3, <1>4
<1>6. after \in [Kinds -> Seq(Messages)]
  BY <1>3, <1>5 DEF Mail
<1>7. AllMail(after)
  BY <1>5, <1>6 DEF AllMail
<1> QED
  BY <1>3, <1>7 DEF after

LEMMA Sent ==
  ASSUME NEW kind, NEW m
  PROVE  Sending(kind, m) = Then(pending, kind, m)
BY DEF Sending, Then

LEMMA ClientKept ==
  ASSUME Typing
  PROVE  Committable(ui) /\ AllMail(pending)
BY DEF Typing, Shaped, Tidy, Committable

-----------------------------------------------------------------------------
(***************************************************************************)
(* The user and the timer.                                                 *)
(***************************************************************************)

LEMMA PostIsQuiet ==
  ASSUME Typing, NEW op \in Ops, NEW of,
         IF op \in {"again", "cancel"} THEN of \in DOMAIN srv.jobs ELSE of \in Repos,
         Post(op, of)
  PROVE  Quietly
<1> DEFINE m == Request(op, of, None)
<1>1. of \in Repos \cup Nat
  BY DEF Typing, Shaped, Servers
<1>2. m \in Messages /\ m.op = op /\ m.of = of /\ m.reply = None
  BY <1>1 DEF Request, Messages
<1>3. Commit(ui, Then(pending, "post", m), FALSE) /\ UNCHANGED <<srv, missed>>
  BY Sent DEF Post, Event
<1> HIDE DEF m
<1>4. Proper("post", m)
  BY <1>2 DEF Proper
<1>5. AllMail(Then(pending, "post", m)) /\ Then(pending, "post", m)["detail"] = pending["detail"]
  BY <1>2, <1>4, ClientKept, ThenKeeps DEF Kinds
<1> QED
  BY <1>3, <1>5, ClientKept, QuietIs

LEMMA PageIsQuiet ==
  ASSUME Typing, NEW u \in Clients, u.jobs = ui.jobs, u.detail = ui.detail,
         u.panel \in {ui.panel, None}, Commit(u, pending, FALSE), UNCHANGED <<srv, missed>>
  PROVE  Quietly
<1>1. Committable(ui) /\ AllMail(pending)
  BY ClientKept
<1>2. Committable(u)
  BY <1>1 DEF Committable
<1> QED
  BY <1>1, <1>2, QuietIs

LEMMA GetIsQuiet ==
  ASSUME Typing, NEW kind \in {"poll", "refresh", "timeline"}, NEW of,
         IF kind = "timeline" THEN of \in DOMAIN srv.jobs ELSE of = None,
         Commit(ui, Sending(kind, Request("get", of, None)), FALSE), UNCHANGED <<srv, missed>>
  PROVE  Quietly
<1> DEFINE m == Request("get", of, None)
<1>1. of \in Repos \cup Nat \cup {None}
  BY DEF Typing, Shaped, Servers
<1>2. m \in Messages /\ m.of = of /\ m.reply = None /\ m.after = None
  BY <1>1 DEF Request, Messages
<1>3. Commit(ui, Then(pending, kind, m), FALSE)
  BY Sent
<1> HIDE DEF m
<1>4. Proper(kind, m)
  BY <1>2 DEF Proper
<1>5. AllMail(Then(pending, kind, m)) /\ Then(pending, kind, m)["detail"] = pending["detail"]
  BY <1>2, <1>4, ClientKept, ThenKeeps DEF Kinds
<1> QED
  BY <1>3, <1>5, ClientKept, QuietIs

LEMMA Known ==
  ASSUME Typing, NEW j \in DOMAIN ui.jobs
  PROVE  j \in DOMAIN srv.jobs
<1>1. ui.jobs \in Seq(Jobs) /\ srv.jobs \in Seq(Jobs) /\ Len(ui.jobs) <= Len(srv.jobs)
  BY DEF Typing, Shaped, Clients, Servers, Snapshot, Older
<1> QED
  BY <1>1

LEMMA UserIsQuiet ==
  ASSUME Typing, UserEvent
  PROVE  Quietly
<1>1. ui \in Clients
  BY DEF Typing, Shaped
<1>2. ASSUME NEW r \in Repos, chooseRepository(r)
      PROVE  Quietly
  <2> DEFINE u == [ui EXCEPT !.scope = r, !.view = "repositories"]
  <2>1. u \in Clients /\ u.jobs = ui.jobs /\ u.detail = ui.detail /\ u.panel = ui.panel
    BY <1>1 DEF Clients, Views
  <2>2. Commit(u, pending, FALSE) /\ UNCHANGED <<srv, missed>>
    BY <1>2 DEF chooseRepository, Event
  <2> HIDE DEF u
  <2> QED
    BY <2>1, <2>2, PageIsQuiet
<1>3. ASSUME NEW r \in Repos, register(r)
      PROVE  Quietly
  <2>1. Post("register", r) /\ "register" \in Ops
    BY <1>3 DEF register, Ops
  <2> QED
    BY <2>1, PostIsQuiet
<1>4. ASSUME NEW v \in Views, setView(v)
      PROVE  Quietly
  <2> DEFINE u == [ui EXCEPT !.view = v]
  <2>1. u \in Clients /\ u.jobs = ui.jobs /\ u.detail = ui.detail /\ u.panel = ui.panel
    BY <1>1 DEF Clients
  <2>2. Commit(u, pending, FALSE) /\ UNCHANGED <<srv, missed>>
    BY <1>4 DEF setView, Event
  <2> HIDE DEF u
  <2> QED
    BY <2>1, <2>2, PageIsQuiet
<1>5. CASE refresh
  <2>1. Commit(ui, Sending("refresh", Request("get", None, None)), FALSE)
        /\ UNCHANGED <<srv, missed>>
    BY <1>5 DEF refresh, Event
  <2> QED
    BY <2>1, GetIsQuiet
<1>6. CASE runAction
  <2>1. Post("generate", ui.scope) /\ ui.scope \in Repos /\ "generate" \in Ops
    BY <1>1, <1>6 DEF runAction, Clients, Ops
  <2> QED
    BY <2>1, PostIsQuiet
<1>7. CASE RepositoryPage
  <2>1. PICK op \in {"maintain", "resume", "remove", "patch"} : Post(op, selected(ui))
    BY <1>7 DEF RepositoryPage
  <2>2. selected(ui) \in Repos /\ op \in Ops /\ op \notin {"again", "cancel"}
    BY <1>1, <1>7, SelectedIs DEF RepositoryPage, Ops
  <2> QED
    BY <2>1, <2>2, PostIsQuiet
<1>8. CASE closePanel
  <2> DEFINE u == [ui EXCEPT !.panel = None]
  <2>1. u \in Clients /\ u.jobs = ui.jobs /\ u.detail = ui.detail /\ u.panel = None
    BY <1>1 DEF Clients
  <2>2. Commit(u, pending, FALSE) /\ UNCHANGED <<srv, missed>>
    BY <1>8 DEF closePanel, Event
  <2> HIDE DEF u
  <2> QED
    BY <2>1, <2>2, PageIsQuiet
<1>9. ASSUME NEW j \in DOMAIN ui.jobs, loadTimeline(j)
      PROVE  Quietly
  <2>1. Commit(ui, Sending("timeline", Request("get", j, None)), FALSE)
        /\ UNCHANGED <<srv, missed>>
    BY <1>9 DEF loadTimeline, Event
  <2> QED
    BY <2>1, Known, GetIsQuiet
<1>10. ASSUME NEW j \in DOMAIN ui.jobs, act(j)
       PROVE  Quietly
  <2>1. Post("cancel", j) \/ Post("again", j)
    BY <1>10 DEF act
  <2>2. j \in DOMAIN srv.jobs /\ "cancel" \in Ops /\ "again" \in Ops
    BY Known DEF Ops
  <2> QED
    BY <2>1, <2>2, PostIsQuiet
<1> QED
  BY <1>2, <1>3, <1>4, <1>5, <1>6, <1>7, <1>8, <1>9, <1>10 DEF UserEvent

LEMMA PollIsQuiet ==
  ASSUME Typing, Poll
  PROVE  Quietly
<1>1. Commit(ui, Sending("poll", Request("get", None, None)), FALSE) /\ UNCHANGED <<srv, missed>>
  BY DEF Poll
<1> QED
  BY <1>1, GetIsQuiet

-----------------------------------------------------------------------------
(***************************************************************************)
(* Answers.                                                                *)
(***************************************************************************)

LEMMA RequestAt ==
  ASSUME AllMail(pending), NEW kind \in Kinds, NEW i \in DOMAIN pending[kind]
  PROVE  pending[kind][i] \in Messages /\ Proper(kind, pending[kind][i])
BY DEF AllMail, Mail

LEMMA PollAnswerIsQuiet ==
  ASSUME Typing, NEW i \in DOMAIN pending["poll"], pending["poll"][i].reply # None,
         PollAnswer(i), UNCHANGED <<srv, missed>>
  PROVE  Quietly
<1> DEFINE m == pending["poll"][i]
           u == [ui EXCEPT !.jobs = m.reply]
<1>1. AllMail(pending) /\ Committable(ui) /\ "poll" \in Kinds
  BY ClientKept DEF Kinds
<1>2. Snapshot(m.reply)
  BY <1>1, RequestAt DEF Proper
<1>3. Commit(u, Without("poll", i), TRUE)
  BY DEF PollAnswer
<1>4. ui \in Clients /\ m.reply \in Seq(Jobs)
  BY <1>1, <1>2 DEF Committable, Snapshot, Older
<1> HIDE DEF m
<1>5. u \in Clients /\ u.jobs = m.reply /\ u.detail = ui.detail /\ u.panel = ui.panel
  BY <1>4 DEF Clients
<1> HIDE DEF u
<1>6. Committable(u)
  BY <1>1, <1>2, <1>5 DEF Committable
<1>7. AllMail(Without("poll", i)) /\ Without("poll", i)["detail"] = pending["detail"]
  BY <1>1, WithoutKeeps DEF Kinds
<1> QED
  BY <1>3, <1>5, <1>6, <1>7, QuietIs

\* What remains of a handler after its refresh changes the page only.
LEMMA AfterRefreshIs ==
  ASSUME NEW u \in Clients, NEW m, m.after \in Repos \cup {"jobs", None}
  PROVE  /\ AfterRefresh(u, m) \in Clients /\ AfterRefresh(u, m).jobs = u.jobs
         /\ AfterRefresh(u, m).detail = u.detail /\ AfterRefresh(u, m).panel = u.panel
<1>1. CASE m.after = None
  BY <1>1 DEF AfterRefresh
<1>2. CASE m.after # None /\ m.after = "jobs"
  <2>1. AfterRefresh(u, m) = [u EXCEPT !.view = "jobs"]
    BY <1>2 DEF AfterRefresh
  <2> QED
    BY <2>1 DEF Clients, Views
<1>3. CASE m.after # None /\ m.after # "jobs"
  <2>1. AfterRefresh(u, m) = [u EXCEPT !.scope = m.after, !.view = "repositories"]
    BY <1>3 DEF AfterRefresh
  <2>2. m.after \in Repos
    BY <1>3
  <2> QED
    BY <2>1, <2>2 DEF Clients, Views
<1> QED
  BY <1>1, <1>2, <1>3

LEMMA RefreshAnswerIsQuiet ==
  ASSUME Typing, NEW i \in DOMAIN pending["refresh"], pending["refresh"][i].reply # None,
         RefreshAnswer(i), UNCHANGED <<srv, missed>>
  PROVE  Quietly
<1> DEFINE m == pending["refresh"][i]
           listed == [ui EXCEPT !.jobs = m.reply.jobs, !.repos = m.reply.repos]
<1>1. AllMail(pending) /\ Committable(ui) /\ "refresh" \in Kinds
  BY ClientKept DEF Kinds
<1>2. m.reply \in Listings /\ Snapshot(m.reply.jobs) /\ m.after \in Repos \cup {"jobs", None}
  BY <1>1, RequestAt DEF Proper
<1>3. PICK first \in IF ui.scope = None THEN m.reply.repos \cup {None} ELSE {ui.scope} :
        Commit(AfterRefresh([listed EXCEPT !.scope = first], m), Without("refresh", i), TRUE)
  BY DEF RefreshAnswer
<1>4. /\ ui \in Clients
      /\ m.reply.jobs \in Seq(Jobs) /\ m.reply.repos \in SUBSET Repos
  BY <1>1, <1>2 DEF Committable, Listings
<1>5. first \in Repos \cup {None}
  BY <1>4 DEF Clients
<1> HIDE DEF m
<1>6. listed \in Clients /\ listed.jobs = m.reply.jobs
      /\ listed.detail = ui.detail /\ listed.panel = ui.panel
  BY <1>4 DEF Clients
<1> HIDE DEF listed
<1> DEFINE scoped == [listed EXCEPT !.scope = first]
           u == AfterRefresh(scoped, m)
<1>7. scoped \in Clients /\ scoped.jobs = m.reply.jobs
      /\ scoped.detail = ui.detail /\ scoped.panel = ui.panel
  BY <1>5, <1>6 DEF Clients
<1>8. Commit(u, Without("refresh", i), TRUE)
  BY <1>3
<1> HIDE DEF scoped
<1>9. u \in Clients /\ u.jobs = m.reply.jobs /\ u.detail = ui.detail /\ u.panel = ui.panel
  BY <1>2, <1>7, AfterRefreshIs
<1> HIDE DEF u
<1>10. Committable(u)
  BY <1>1, <1>2, <1>9 DEF Committable
<1>11. AllMail(Without("refresh", i)) /\ Without("refresh", i)["detail"] = pending["detail"]
  BY <1>1, WithoutKeeps DEF Kinds
<1> QED
  BY <1>8, <1>9, <1>10, <1>11, QuietIs

LEMMA TimelineAnswerIsQuiet ==
  ASSUME Typing, NEW i \in DOMAIN pending["timeline"], pending["timeline"][i].reply # None,
         TimelineAnswer(i), UNCHANGED <<srv, missed>>
  PROVE  Quietly
<1> DEFINE m == pending["timeline"][i]
           panel == [job |-> m.of, status |-> m.reply]
           u == [ui EXCEPT !.panel = panel]
<1>1. AllMail(pending) /\ Committable(ui) /\ "timeline" \in Kinds /\ ui \in Clients
  BY ClientKept DEF Kinds, Committable
<1>2. m.of \in DOMAIN srv.jobs /\ m.reply \in Statuses
  BY <1>1, RequestAt DEF Proper
<1>3. m.of \in Nat
  BY <1>2 DEF Typing, Shaped, Servers
<1>4. Commit(u, Without("timeline", i), FALSE)
  BY DEF TimelineAnswer
<1> HIDE DEF m
<1>5. panel \in [job : Nat, status : Statuses] /\ panel.job = m.of
  BY <1>2, <1>3
<1> HIDE DEF panel
<1>6. u \in Clients /\ u.jobs = ui.jobs /\ u.detail = ui.detail /\ u.panel = panel
  BY <1>1, <1>5 DEF Clients
<1> HIDE DEF u
<1>7. Committable(u)
  BY <1>1, <1>2, <1>5, <1>6 DEF Committable
<1>8. AllMail(Without("timeline", i)) /\ Without("timeline", i)["detail"] = pending["detail"]
  BY <1>1, WithoutKeeps DEF Kinds
<1> QED
  BY <1>4, <1>6, <1>7, <1>8, QuietIs

LEMMA PostAnswerIsQuiet ==
  ASSUME Typing, NEW i \in DOMAIN pending["post"], pending["post"][i].op # "patch",
         PostAnswer(i), UNCHANGED <<srv, missed>>
  PROVE  Quietly
<1> DEFINE m == pending["post"][i]
           flight == Without("post", i)
           toJobs == [ui EXCEPT !.view = "jobs"]
           refreshing(after) == Then(flight, "refresh", Request("get", None, after))
<1>1. AllMail(pending) /\ Committable(ui) /\ "post" \in Kinds /\ ui \in Clients
  BY ClientKept DEF Kinds, Committable
<1>2. m.op \in Ops /\ (m.op = "register" => m.of \in Repos)
  BY <1>1, RequestAt DEF Proper
<1>3. AllMail(flight) /\ flight["detail"] = pending["detail"]
  BY <1>1, WithoutKeeps DEF Kinds
<1>4. \/ m.op \in {"generate", "remove", "cancel", "again"}
         /\ \E u \in {ui, toJobs} : Commit(u, refreshing(None), FALSE)
      \/ Commit(toJobs, flight, FALSE)
      \/ Commit(ui, refreshing("jobs"), FALSE)
      \/ m.op = "register" /\ Commit(ui, refreshing(m.of), FALSE)
  BY <1>2 DEF PostAnswer, Ops
<1>5. Committable(toJobs) /\ toJobs.detail = ui.detail
  <2>1. toJobs \in Clients /\ toJobs.jobs = ui.jobs /\ toJobs.panel = ui.panel
        /\ toJobs.detail = ui.detail
    BY <1>1 DEF Clients, Views
  <2> HIDE DEF toJobs
  <2> QED
    BY <1>1, <2>1 DEF Committable
<1> HIDE DEF m, flight, toJobs
<1>6. ASSUME NEW after \in Repos \cup {"jobs", None}
      PROVE  AllMail(refreshing(after)) /\ refreshing(after)["detail"] = pending["detail"]
  <2> DEFINE sent == Request("get", None, after)
  <2>1. sent \in Messages /\ sent.after = after /\ sent.reply = None
    BY DEF Request, Messages
  <2>2. refreshing(after) = Then(flight, "refresh", sent)
    OBVIOUS
  <2> HIDE DEF sent, refreshing
  <2>3. Proper("refresh", sent)
    BY <2>1 DEF Proper
  <2> QED
    BY <1>3, <2>1, <2>2, <2>3, ThenKeeps DEF Kinds
<1>7. PICK u \in {ui, toJobs} : \/ Commit(u, flight, FALSE)
                                \/ \E after \in Repos \cup {"jobs", None} :
                                     Commit(u, refreshing(after), FALSE)
  BY <1>2, <1>4
<1> HIDE DEF refreshing
<1>8. Committable(u) /\ u.detail = ui.detail
  BY <1>1, <1>5
<1> QED
  BY <1>3, <1>6, <1>7, <1>8, QuietIs

LEMMA FailIsQuiet ==
  ASSUME Typing, NEW kind \in Kinds, NEW i \in DOMAIN pending[kind], kind # "detail",
         Fail(kind, i)
  PROVE  Quietly
<1> DEFINE u == IF kind = "refresh" THEN AfterRefresh(ui, pending[kind][i]) ELSE ui
<1>1. AllMail(pending) /\ Committable(ui) /\ ui \in Clients
  BY ClientKept DEF Committable
<1>2. Commit(u, Without(kind, i), FALSE) /\ UNCHANGED srv
  BY DEF Fail
<1>3. UNCHANGED missed
  BY DEF Fail
<1>4. kind = "refresh" => pending[kind][i].after \in Repos \cup {"jobs", None}
  BY <1>1, RequestAt DEF Proper
<1>5. u \in Clients /\ u.jobs = ui.jobs /\ u.detail = ui.detail /\ u.panel = ui.panel
  BY <1>1, <1>4, AfterRefreshIs
<1> HIDE DEF u
<1>6. Committable(u)
  BY <1>1, <1>5 DEF Committable
<1>7. AllMail(Without(kind, i)) /\ Without(kind, i)["detail"] = pending["detail"]
  BY <1>1, WithoutKeeps DEF Kinds
<1> QED
  BY <1>2, <1>3, <1>5, <1>6, <1>7, QuietIs

\* The other answers: a change of the configuration asks for the detail, and a
\* detail arrives or is refused.
PatchAnswers ==
  \E r \in Repos : \E flight \in [Kinds -> Seq(Messages)] :
    /\ Commit(ui, Then(flight, "detail", Request("get", r, "refresh")), FALSE)
    /\ AllMail(flight) /\ AllMail(Then(flight, "detail", Request("get", r, "refresh")))
    /\ Then(flight, "detail", Request("get", r, "refresh"))["detail"]
         = Append(pending["detail"], Request("get", r, "refresh"))
    /\ UNCHANGED <<srv, missed>>

LEMMA PatchAnswerDoes ==
  ASSUME Typing, NEW i \in DOMAIN pending["post"], pending["post"][i].op = "patch",
         PostAnswer(i), UNCHANGED <<srv, missed>>
  PROVE  PatchAnswers
<1> DEFINE m == pending["post"][i]
           flight == Without("post", i)
           sent == Request("get", m.of, "refresh")
<1>1. AllMail(pending) /\ "post" \in Kinds /\ "detail" \in Kinds
  BY ClientKept DEF Kinds
<1>2. m.of \in Repos
  BY <1>1, RequestAt DEF Proper
<1>3. AllMail(flight) /\ flight["detail"] = pending["detail"]
  BY <1>1, WithoutKeeps DEF Kinds
<1>4. Commit(ui, Then(flight, "detail", sent), FALSE)
  BY DEF PostAnswer
<1> HIDE DEF m, flight
<1>5. sent \in Messages /\ sent.of = m.of /\ sent.after = "refresh" /\ sent.reply = None
  BY <1>2 DEF Request, Messages
<1> HIDE DEF sent
<1>6. Proper("detail", sent)
  BY <1>2, <1>5 DEF Proper
<1>7. AllMail(Then(flight, "detail", sent))
      /\ Then(flight, "detail", sent)["detail"] = Append(pending["detail"], sent)
  BY <1>1, <1>3, <1>5, <1>6, ThenKeeps
<1>8. flight \in [Kinds -> Seq(Messages)]
  BY <1>3 DEF AllMail
<1> QED
  BY <1>2, <1>3, <1>4, <1>7, <1>8 DEF PatchAnswers, sent

\* A detail is shown, unless its page has been left.
Shown(i) ==
  \E u \in Clients : \E flight \in [Kinds -> Seq(Messages)] :
    /\ Commit(u, flight, FALSE)
    /\ Committable(u) /\ AllMail(flight)
    /\ u.view = ui.view /\ u.scope = ui.scope /\ u.repos = ui.repos /\ u.jobs = ui.jobs
    /\ u.detail = IF pending["detail"][i].op = "gone" THEN ui.detail
                  ELSE [repo |-> pending["detail"][i].of, runs |-> pending["detail"][i].reply]
    /\ flight["detail"] = RemoveAt(pending["detail"], i)
    /\ UNCHANGED srv

LEMMA DetailAnswerDoes ==
  ASSUME Typing, NEW i \in DOMAIN pending["detail"],
         pending["detail"][i].reply \notin {None, Refused}, DetailAnswer(i), UNCHANGED srv
  PROVE  Shown(i)
<1> DEFINE m == pending["detail"][i]
           shown == [repo |-> m.of, runs |-> m.reply]
           u == IF m.op = "gone" THEN ui ELSE [ui EXCEPT !.detail = shown]
           rest == Without("detail", i)
           sent == Request("get", None, None)
           flight == IF m.after = None THEN rest ELSE Then(rest, "refresh", sent)
<1>1. AllMail(pending) /\ Committable(ui) /\ "detail" \in Kinds /\ "refresh" \in Kinds
      /\ ui \in Clients
  BY ClientKept DEF Kinds, Committable
<1>2. m.of \in Repos /\ m.reply \in Nat
  BY <1>1, RequestAt DEF Proper
<1>3. AllMail(rest) /\ rest["detail"] = RemoveAt(pending["detail"], i)
  BY <1>1, WithoutKeeps
<1>4. Commit(u, flight, FALSE)
  BY DEF DetailAnswer
<1> HIDE DEF m, rest
<1>5. shown \in [repo : Repos, runs : Nat]
  BY <1>2
<1>6. /\ u \in Clients /\ u.panel = ui.panel
      /\ u.view = ui.view /\ u.scope = ui.scope /\ u.repos = ui.repos /\ u.jobs = ui.jobs
      /\ u.detail = IF m.op = "gone" THEN ui.detail ELSE shown
  <2> HIDE DEF shown
  <2>1. CASE m.op = "gone"
    BY <1>1, <2>1
  <2>2. CASE m.op # "gone"
    BY <1>1, <1>5, <2>2 DEF Clients
  <2> QED
    BY <2>1, <2>2
<1>7. sent \in Messages /\ sent.after = None /\ sent.reply = None
  BY DEF Request, Messages
<1> HIDE DEF u, sent
<1>8. Proper("refresh", sent)
  BY <1>7 DEF Proper
<1>9. AllMail(Then(rest, "refresh", sent)) /\ Then(rest, "refresh", sent)["detail"] = rest["detail"]
  BY <1>1, <1>3, <1>7, <1>8, ThenKeeps
<1>10. AllMail(flight) /\ flight["detail"] = RemoveAt(pending["detail"], i)
  BY <1>3, <1>9
<1> HIDE DEF flight
<1>11. Committable(u)
  BY <1>1, <1>6 DEF Committable
<1>12. flight \in [Kinds -> Seq(Messages)]
  BY <1>10 DEF AllMail
<1> QED
  BY <1>4, <1>6, <1>10, <1>11, <1>12 DEF Shown, m

LEMMA DetailFailDoes ==
  ASSUME Typing, NEW i \in DOMAIN pending["detail"], Fail("detail", i)
  PROVE  /\ Commit(ui, Without("detail", i), FALSE)
         /\ Committable(ui) /\ AllMail(Without("detail", i))
         /\ Without("detail", i)["detail"] = RemoveAt(pending["detail"], i)
         /\ Missed(i, missed.lost \/ ~Overtaken(i))
         /\ UNCHANGED srv
<1>1. AllMail(pending) /\ Committable(ui) /\ "detail" \in Kinds
  BY ClientKept DEF Kinds
<1>2. AllMail(Without("detail", i))
      /\ Without("detail", i)["detail"] = RemoveAt(pending["detail"], i)
  BY <1>1, WithoutKeeps
<1>3. /\ Commit(ui, Without("detail", i), FALSE) /\ UNCHANGED srv
      /\ Missed(i, missed.lost \/ ~Overtaken(i))
  BY DEF Fail
<1> QED
  BY <1>1, <1>2, <1>3

\* Every step but those of the server commits something proper.
Commits ==
  \E u : \E flight : \E newJobs :
    Commit(u, flight, newJobs) /\ Committable(u) /\ AllMail(flight) /\ UNCHANGED srv

LEMMA AnswerDoes ==
  ASSUME Typing, NEW kind \in Kinds, NEW i \in DOMAIN pending[kind], Answer(kind, i)
  PROVE  IF kind = "detail" THEN Shown(i) ELSE Quietly \/ PatchAnswers
<1>1. pending[kind][i].reply \notin {None, Refused} /\ UNCHANGED srv
      /\ (kind # "detail" => UNCHANGED missed)
  BY DEF Answer
<1>2. CASE kind = "poll"
  BY <1>1, <1>2, PollAnswerIsQuiet DEF Answer
<1>3. CASE kind = "refresh"
  BY <1>1, <1>3, RefreshAnswerIsQuiet DEF Answer
<1>4. CASE kind = "timeline"
  BY <1>1, <1>4, TimelineAnswerIsQuiet DEF Answer
<1>5. CASE kind = "post"
  BY <1>1, <1>5, PostAnswerIsQuiet, PatchAnswerDoes DEF Answer
<1>6. CASE kind = "detail"
  BY <1>1, <1>6, DetailAnswerDoes DEF Answer
<1> QED
  BY <1>2, <1>3, <1>4, <1>5, <1>6 DEF Kinds

LEMMA ClientCommits ==
  ASSUME Typing,
         \/ UserEvent \/ Poll
         \/ \E kind \in Kinds : \E i \in DOMAIN pending[kind] : Answer(kind, i) \/ Fail(kind, i)
  PROVE  Commits
<1>1. Quietly => Commits
  BY DEF Quietly, Commits
<1>2. PatchAnswers => Commits
  BY ClientKept DEF PatchAnswers, Commits
<1>3. ASSUME NEW i, Shown(i)
      PROVE  Commits
  BY <1>3 DEF Shown, Commits
<1>4. ASSUME NEW kind \in Kinds, NEW i \in DOMAIN pending[kind], Fail(kind, i)
      PROVE  Commits
  <2>1. CASE kind = "detail"
    BY <1>4, <2>1, DetailFailDoes DEF Commits
  <2>2. CASE kind # "detail"
    BY <1>1, <1>4, <2>2, FailIsQuiet
  <2> QED
    BY <2>1, <2>2
<1>5. ASSUME NEW kind \in Kinds, NEW i \in DOMAIN pending[kind], Answer(kind, i)
      PROVE  Commits
  <2>1. IF kind = "detail" THEN Shown(i) ELSE Quietly \/ PatchAnswers
    BY <1>5, AnswerDoes
  <2> QED
    BY <1>1, <1>2, <1>3, <2>1
<1> QED
  BY <1>1, <1>4, <1>5, UserIsQuiet, PollIsQuiet

-----------------------------------------------------------------------------
(***************************************************************************)
(* What the server does.                                                   *)
(***************************************************************************)

LEMMA WithStatus ==
  ASSUME NEW job \in Jobs, NEW s \in Statuses, NEW after, after = [job EXCEPT !.status = s]
  PROVE  after \in Jobs /\ after.repo = job.repo /\ after.status = s /\ after.ended = job.ended
BY DEF Jobs, Statuses

LEMMA WithEnd ==
  ASSUME NEW job \in Jobs, NEW after, after = [job EXCEPT !.ended = TRUE]
  PROVE  after \in Jobs /\ after.repo = job.repo /\ after.status = job.status
BY DEF Jobs

\* An active job advances; only its own repository's runs may change.
Advances(j) ==
  /\ j \in DOMAIN srv.jobs /\ srv.jobs[j].status \in Active
  /\ srv'.repos = srv.repos /\ srv'.jobs \in Seq(Jobs) /\ DOMAIN srv'.jobs = DOMAIN srv.jobs
  /\ srv'.jobs[j].repo = srv.jobs[j].repo
  /\ \A k \in DOMAIN srv.jobs : k # j => srv'.jobs[k] = srv.jobs[k]
  /\ srv' = [repos |-> srv'.repos, jobs |-> srv'.jobs, runs |-> srv'.runs]
  /\ srv'.runs \in [Repos -> Nat]
  /\ \A r \in Repos : r # srv.jobs[j].repo => srv'.runs[r] = srv.runs[r]

\* One job is replaced by another of its repository.
LEMMA Replaced ==
  ASSUME NEW jobs \in Seq(Jobs), NEW j \in DOMAIN jobs, NEW job \in Jobs,
         NEW after, after = [jobs EXCEPT ![j] = job]
  PROVE  /\ after \in Seq(Jobs) /\ DOMAIN after = DOMAIN jobs /\ after[j] = job
         /\ \A k \in DOMAIN jobs : k # j => after[k] = jobs[k]
OBVIOUS

LEMMA StatusAdvances ==
  ASSUME srv \in Servers, NEW j \in DOMAIN srv.jobs, srv.jobs[j].status \in Active,
         NEW s \in Statuses, srv' = [srv EXCEPT !.jobs[j].status = s]
  PROVE  Advances(j)
<1> DEFINE job == [srv.jobs[j] EXCEPT !.status = s]
<1>1. srv.jobs \in Seq(Jobs) /\ srv.runs \in [Repos -> Nat]
  BY DEF Servers
<1>2. srv.jobs[j] \in Jobs
  BY <1>1
<1>3. job \in Jobs /\ job.repo = srv.jobs[j].repo
  BY <1>2, WithStatus
<1>4. srv'.repos = srv.repos /\ srv'.runs = srv.runs
      /\ srv'.jobs = [srv.jobs EXCEPT ![j].status = s]
      /\ srv' = [repos |-> srv'.repos, jobs |-> srv'.jobs, runs |-> srv'.runs]
  BY DEF Servers
<1>5. srv'.jobs = [srv.jobs EXCEPT ![j] = job]
  BY <1>4
<1> HIDE DEF job
<1> DEFINE after == [srv.jobs EXCEPT ![j] = job]
<1>6. /\ after \in Seq(Jobs) /\ DOMAIN after = DOMAIN srv.jobs /\ after[j] = job
      /\ \A k \in DOMAIN srv.jobs : k # j => after[k] = srv.jobs[k]
  BY <1>1, <1>3
<1>7. srv'.jobs = after
  BY <1>5
<1> HIDE DEF after
<1> QED
  BY <1>1, <1>3, <1>4, <1>6, <1>7 DEF Advances

LEMMA EndAdvances ==
  ASSUME srv \in Servers, NEW j \in DOMAIN srv.jobs, EndRun(j)
  PROVE  Advances(j)
<1> DEFINE job == [srv.jobs[j] EXCEPT !.ended = TRUE]
           r == srv.jobs[j].repo
<1>1. srv.jobs \in Seq(Jobs) /\ srv.runs \in [Repos -> Nat]
  BY DEF Servers
<1>2. srv.jobs[j] \in Jobs /\ r \in Repos
  <2>1. srv.jobs[j] \in Jobs
    BY <1>1
  <2> QED
    BY <2>1 DEF Jobs
<1>3. job \in Jobs /\ job.repo = srv.jobs[j].repo
  BY <1>2, WithEnd
<1>4. srv' = [srv EXCEPT !.jobs[j].ended = TRUE, !.runs[r] = @ + 1]
      /\ srv.jobs[j].status \in Active
  BY DEF EndRun, Active
<1> HIDE DEF r
<1>5. srv'.repos = srv.repos /\ srv'.runs = [srv.runs EXCEPT ![r] = @ + 1]
      /\ srv'.jobs = [srv.jobs EXCEPT ![j].ended = TRUE]
      /\ srv' = [repos |-> srv'.repos, jobs |-> srv'.jobs, runs |-> srv'.runs]
  BY <1>4 DEF Servers
<1>6. srv'.jobs = [srv.jobs EXCEPT ![j] = job]
  BY <1>5
<1> HIDE DEF job
<1>7. /\ srv'.jobs \in Seq(Jobs) /\ DOMAIN srv'.jobs = DOMAIN srv.jobs /\ srv'.jobs[j] = job
      /\ \A k \in DOMAIN srv.jobs : k # j => srv'.jobs[k] = srv.jobs[k]
  BY <1>1, <1>3, <1>6, Replaced
<1>8. srv'.runs \in [Repos -> Nat] /\ \A x \in Repos : x # r => srv'.runs[x] = srv.runs[x]
  BY <1>1, <1>2, <1>5
<1> QED
  BY <1>3, <1>4, <1>5, <1>7, <1>8 DEF Advances, r

LEMMA WorkAdvances ==
  ASSUME srv \in Servers, Work
  PROVE  /\ \E j \in DOMAIN srv.jobs : Advances(j)
         /\ UNCHANGED <<ui, pending, missed, events, faults>>
<1>1. PICK j \in DOMAIN srv.jobs : TakeJob(j) \/ EndRun(j) \/ EndJob(j)
  BY DEF Work
<1>2. CASE TakeJob(j)
  <2>1. srv.jobs[j].status \in Active /\ srv' = [srv EXCEPT !.jobs[j].status = "running"]
        /\ "running" \in Statuses
    BY <1>2 DEF TakeJob, Active, Statuses
  <2> QED
    BY <2>1, StatusAdvances DEF Work
<1>3. CASE EndRun(j)
  BY <1>3, EndAdvances DEF Work
<1>4. CASE EndJob(j)
  <2>1. PICK s \in Ended : srv' = [srv EXCEPT !.jobs[j].status = s]
    BY <1>4 DEF EndJob
  <2>2. srv.jobs[j].status \in Active /\ s \in Statuses
    BY <1>4 DEF EndJob, Active, Statuses
  <2> QED
    BY <2>1, <2>2, StatusAdvances DEF Work
<1> QED
  BY <1>1, <1>2, <1>3, <1>4

\* A job starts; its repository has no other that is active.
Starts(r) ==
  /\ r \in Repos /\ ActiveOf(r) = {}
  /\ srv' = [repos |-> srv.repos, runs |-> srv.runs,
             jobs |-> Append(srv.jobs, [repo |-> r, status |-> "queued", ended |-> FALSE])]

Registers ==
  \E repos \in SUBSET Repos : srv' = [repos |-> repos, jobs |-> srv.jobs, runs |-> srv.runs]

ServerSteps ==
  \/ UNCHANGED srv
  \/ \E j \in DOMAIN srv.jobs : Advances(j)
  \/ \E r \in Repos : Starts(r)
  \/ Registers

LEMMA StartedIs ==
  ASSUME srv \in Servers, NEW r \in Repos, Started(r) # Refused, srv' = Started(r)
  PROVE  Starts(r)
<1> DEFINE job == [repo |-> r, status |-> "queued", ended |-> FALSE]
<1>1. ActiveOf(r) = {} /\ srv' = [srv EXCEPT !.jobs = Append(@, job)]
  BY DEF Started
<1> HIDE DEF job
<1>2. srv' = [repos |-> srv.repos, runs |-> srv.runs, jobs |-> Append(srv.jobs, job)]
  BY <1>1 DEF Servers
<1> QED
  BY <1>1, <1>2 DEF Starts, job

LEMMA PostedIs ==
  ASSUME srv \in Servers, NEW op \in Ops, NEW x,
         IF op \in {"again", "cancel"} THEN x \in DOMAIN srv.jobs ELSE x \in Repos,
         Posted(op, x) # Refused, srv' = Posted(op, x)
  PROVE  ServerSteps
<1>1. srv.jobs \in Seq(Jobs)
  BY DEF Servers
<1>2. CASE op \in {"generate", "maintain", "resume"}
  <2>1. Posted(op, x) = Started(x) /\ x \in Repos
    BY <1>2 DEF Posted
  <2> QED
    BY <2>1, StartedIs DEF ServerSteps
<1>3. CASE op = "again"
  <2>1. Posted(op, x) = Started(srv.jobs[x].repo)
    BY <1>3 DEF Posted
  <2>2. srv.jobs[x].repo \in Repos
    <3>1. srv.jobs[x] \in Jobs
      BY <1>1, <1>3
    <3> QED
      BY <3>1 DEF Jobs
  <2> QED
    BY <2>1, <2>2, StartedIs DEF ServerSteps
<1>4. CASE op = "cancel"
  BY <1>4 DEF Posted, ServerSteps
<1>5. CASE op \in {"remove", "register"}
  <2>1. x \in Repos
    BY <1>5
  <2>2. \/ srv' = [srv EXCEPT !.repos = @ \ {x}]
        \/ srv' = [srv EXCEPT !.repos = @ \cup {x}]
    BY <1>5 DEF Posted
  <2>3. \E repos \in SUBSET Repos : srv' = [srv EXCEPT !.repos = repos]
    BY <2>1, <2>2 DEF Servers
  <2> QED
    BY <2>3 DEF ServerSteps, Registers, Servers
<1>6. CASE op = "patch"
  BY <1>6 DEF Posted, ServerSteps
<1> QED
  BY <1>2, <1>3, <1>4, <1>5, <1>6 DEF Ops

\* What the server does keeps what the client has learnt.
LEMMA ServerKeeps ==
  ASSUME srv \in Servers, Serial(srv.jobs), ServerSteps
  PROVE  srv' \in Servers /\ Progress /\ Serial(srv.jobs)'
<1>1. srv.jobs \in Seq(Jobs) /\ srv.repos \in SUBSET Repos /\ srv.runs \in [Repos -> Nat]
  BY DEF Servers
<1>2. CASE UNCHANGED srv
  BY <1>1, <1>2 DEF Progress, Serial
<1>3. ASSUME NEW j \in DOMAIN srv.jobs, Advances(j)
      PROVE  srv' \in Servers /\ Progress /\ Serial(srv.jobs)'
  <2>1. srv' \in Servers
    BY <1>1, <1>3 DEF Advances, Servers
  <2>2. Len(srv'.jobs) = Len(srv.jobs) /\ DOMAIN srv'.jobs = DOMAIN srv.jobs
    BY <1>1, <1>3 DEF Advances
  <2>3. \A k \in DOMAIN srv.jobs :
          /\ srv'.jobs[k].repo = srv.jobs[k].repo
          /\ srv.jobs[k].status \in Ended => srv'.jobs[k].status \in Ended
    BY <1>3 DEF Advances, Active, Ended
  <2>4. Progress
    BY <1>1, <2>2, <2>3 DEF Progress
  <2>5. Serial(srv.jobs)'
    BY <2>2, <2>3 DEF Serial
  <2> QED
    BY <2>1, <2>4, <2>5
<1>4. ASSUME NEW r \in Repos, Starts(r)
      PROVE  srv' \in Servers /\ Progress /\ Serial(srv.jobs)'
  <2> DEFINE job == [repo |-> r, status |-> "queued", ended |-> FALSE]
  <2>1. srv' = [repos |-> srv.repos, runs |-> srv.runs, jobs |-> Append(srv.jobs, job)]
        /\ ActiveOf(r) = {}
    BY <1>4 DEF Starts
  <2>2. job \in Jobs /\ job.repo = r
    BY DEF Jobs, Active
  <2> HIDE DEF job
  <2>3. srv'.jobs = Append(srv.jobs, job) /\ srv'.repos = srv.repos /\ srv'.runs = srv.runs
    BY <2>1
  <2>4. /\ srv'.jobs \in Seq(Jobs) /\ Len(srv'.jobs) = Len(srv.jobs) + 1
        /\ \A k \in DOMAIN srv.jobs : k \in DOMAIN srv'.jobs /\ srv'.jobs[k] = srv.jobs[k]
        /\ DOMAIN srv'.jobs = DOMAIN srv.jobs \cup {Len(srv.jobs) + 1}
        /\ srv'.jobs[Len(srv.jobs) + 1] = job
    BY <1>1, <2>2, <2>3
  <2>5. srv' \in Servers
    BY <1>1, <2>1, <2>3, <2>4 DEF Servers
  <2>6. Progress
    BY <1>1, <2>4 DEF Progress
  <2>7. \A k \in DOMAIN srv.jobs : srv.jobs[k].repo = r => srv.jobs[k].status \in Ended
    <3>1. \A k \in DOMAIN srv.jobs : srv.jobs[k] \in Jobs
      BY <1>1
    <3> QED
      BY <2>1, <3>1 DEF ActiveOf, Jobs
  <2>8. Serial(srv.jobs)'
    <3> SUFFICES ASSUME NEW i \in DOMAIN srv'.jobs, NEW k \in DOMAIN srv'.jobs, i < k,
                        srv'.jobs[i].repo = srv'.jobs[k].repo
                 PROVE  srv'.jobs[i].status \in Ended
      BY DEF Serial
    <3>1. i \in DOMAIN srv.jobs
      BY <1>1, <2>4
    <3>2. CASE k \in DOMAIN srv.jobs
      BY <2>4, <3>1, <3>2 DEF Serial
    <3>3. CASE k = Len(srv.jobs) + 1
      BY <2>2, <2>4, <2>7, <3>1, <3>3
    <3>4. k \in DOMAIN srv.jobs \/ k = Len(srv.jobs) + 1
      BY <2>4
    <3> QED
      BY <3>2, <3>3, <3>4
  <2> QED
    BY <2>5, <2>6, <2>8
<1>5. CASE Registers
  <2>1. PICK repos \in SUBSET Repos : srv' = [repos |-> repos, jobs |-> srv.jobs, runs |-> srv.runs]
    BY <1>5 DEF Registers
  <2>2. srv' \in Servers /\ srv'.jobs = srv.jobs
    BY <1>1, <2>1 DEF Servers
  <2> QED
    BY <1>1, <2>2 DEF Progress, Serial
<1> QED
  BY <1>2, <1>3, <1>4, <1>5 DEF ServerSteps

\* A request gets its reply and keeps the rest.
Answered(kind, i, reply) ==
  /\ \A other \in Kinds : other # kind => pending'[other] = pending[other]
  /\ DOMAIN pending'[kind] = DOMAIN pending[kind]
  /\ \A k \in DOMAIN pending[kind] : k # i => pending'[kind][k] = pending[kind][k]
  /\ pending'[kind][i].op = pending[kind][i].op
  /\ pending'[kind][i].of = pending[kind][i].of
  /\ pending'[kind][i].after = pending[kind][i].after
  /\ pending'[kind][i].reply = reply

LEMMA WithReply ==
  ASSUME NEW m \in Messages, NEW reply, NEW after, after = [m EXCEPT !.reply = reply]
  PROVE  after = [op |-> m.op, of |-> m.of, after |-> m.after, reply |-> reply]
BY DEF Messages

LEMMA RepliedIs ==
  ASSUME AllMail(pending), NEW kind \in Kinds, NEW i \in DOMAIN pending[kind],
         NEW reply, Replied(kind, i, reply),
         LET m == pending[kind][i]
             after == [op |-> m.op, of |-> m.of, after |-> m.after, reply |-> reply]
         IN  after \in Messages /\ Proper(kind, after)
  PROVE  AllMail(pending') /\ Answered(kind, i, reply) /\ UNCHANGED <<ui, missed, events, faults>>
<1> DEFINE m == pending[kind][i]
           after == [op |-> m.op, of |-> m.of, after |-> m.after, reply |-> reply]
           replied == [pending[kind] EXCEPT ![i] = after]
<1>1. pending \in [Kinds -> Seq(Messages)] /\ \A k \in Kinds : Mail(k, pending[k])
  BY DEF AllMail
<1>2. pending[kind] \in Seq(Messages) /\ m \in Messages
  BY <1>1
<1>3. after \in Messages /\ Proper(kind, after)
  OBVIOUS
<1>4. pending' = [pending EXCEPT ![kind][i].reply = reply]
      /\ UNCHANGED <<ui, missed, events, faults>>
  BY DEF Replied
<1>5. after = [m EXCEPT !.reply = reply]
  BY <1>2, WithReply
<1>6. /\ \A other \in Kinds : other # kind => pending'[other] = pending[other]
      /\ pending'[kind] = [pending[kind] EXCEPT ![i].reply = reply]
      /\ pending' = [k \in Kinds |-> pending'[k]]
  BY <1>1, <1>4
<1>7. pending'[kind] = replied
  BY <1>5, <1>6
<1>8. after.op = m.op /\ after.of = m.of /\ after.after = m.after /\ after.reply = reply
  OBVIOUS
<1> HIDE DEF after, m
<1>9. /\ replied \in Seq(Messages) /\ DOMAIN replied = DOMAIN pending[kind] /\ replied[i] = after
      /\ \A k \in DOMAIN pending[kind] : k # i => replied[k] = pending[kind][k]
  BY <1>2, <1>3
<1> HIDE DEF replied
<1>10. Mail(kind, pending'[kind])
  BY <1>1, <1>3, <1>7, <1>9 DEF Mail
<1>11. \A k \in Kinds : Mail(k, pending'[k])
  BY <1>1, <1>6, <1>10
<1>12. pending' \in [Kinds -> Seq(Messages)]
  BY <1>6, <1>11 DEF Mail
<1>13. AllMail(pending')
  BY <1>11, <1>12 DEF AllMail
<1>14. Answered(kind, i, reply)
  BY <1>6, <1>7, <1>8, <1>9 DEF Answered, m
<1> QED
  BY <1>4, <1>13, <1>14

LEMMA ServeDoes ==
  ASSUME Typing, NEW kind \in Kinds, NEW i \in DOMAIN pending[kind], Serve(kind, i)
  PROVE  /\ ServerSteps /\ AllMail(pending') /\ UNCHANGED <<ui, missed, events, faults>>
         /\ kind # "post" => UNCHANGED srv
         /\ IF kind = "detail"
            THEN \E reply \in {Refused, srv.runs[pending[kind][i].of]} : Answered(kind, i, reply)
            ELSE pending'["detail"] = pending["detail"]
<1> DEFINE m == pending[kind][i]
           with(reply) == [op |-> m.op, of |-> m.of, after |-> m.after, reply |-> reply]
<1>1. AllMail(pending) /\ srv \in Servers /\ Serial(srv.jobs)
  BY DEF Typing, Shaped
<1>2. m \in Messages /\ Proper(kind, m)
  BY <1>1, RequestAt
<1>3. srv.jobs \in Seq(Jobs) /\ srv.repos \in SUBSET Repos /\ srv.runs \in [Repos -> Nat]
  BY <1>1 DEF Servers
<1>4. \A reply : /\ with(reply).op = m.op /\ with(reply).of = m.of
                 /\ with(reply).after = m.after /\ with(reply).reply = reply
  OBVIOUS
<1>5. ASSUME NEW reply, reply \in {None, Refused, "done"} \cup Nat \cup Statuses \cup Seq(Jobs) \cup Listings
      PROVE  with(reply) \in Messages
  BY <1>2, <1>5 DEF Messages
<1>6. ASSUME NEW reply, Replied(kind, i, reply), with(reply) \in Messages, Proper(kind, with(reply)),
             kind # "detail"
      PROVE  /\ AllMail(pending') /\ UNCHANGED <<ui, missed, events, faults>>
             /\ pending'["detail"] = pending["detail"]
  <2>1. AllMail(pending') /\ Answered(kind, i, reply) /\ UNCHANGED <<ui, missed, events, faults>>
    BY <1>1, <1>6, RepliedIs
  <2> QED
    BY <1>6, <2>1 DEF Answered, Kinds
<1> HIDE DEF with
<1>7. Snapshot(srv.jobs)
  BY <1>1, <1>3 DEF Snapshot, Older
<1>8. CASE kind = "poll"
  <2>1. Replied(kind, i, srv.jobs) /\ UNCHANGED srv
    BY <1>8 DEF Serve
  <2>2. with(srv.jobs) \in Messages
    BY <1>3, <1>5
  <2>3. Proper(kind, with(srv.jobs))
    BY <1>4, <1>7, <1>8 DEF Proper
  <2> QED
    BY <1>6, <1>8, <2>1, <2>2, <2>3 DEF ServerSteps
<1>9. CASE kind = "refresh"
  <2> DEFINE reply == [jobs |-> srv.jobs, repos |-> srv.repos]
  <2>1. Replied(kind, i, reply) /\ UNCHANGED srv
    BY <1>9 DEF Serve
  <2>2. reply \in Listings /\ reply.jobs = srv.jobs
    BY <1>3 DEF Listings
  <2> HIDE DEF reply
  <2>3. with(reply) \in Messages
    BY <1>5, <2>2
  <2>4. Proper(kind, with(reply))
    BY <1>2, <1>4, <1>7, <1>9, <2>2 DEF Proper
  <2> QED
    BY <1>6, <1>9, <2>1, <2>3, <2>4 DEF ServerSteps
<1>10. CASE kind = "detail"
  <2> DEFINE reply == IF m.of \in srv.repos THEN srv.runs[m.of] ELSE Refused
  <2>1. Replied(kind, i, reply) /\ UNCHANGED srv
    BY <1>10 DEF Serve
  <2>2. m.of \in Repos /\ m.after \in {"refresh", None}
    BY <1>2, <1>10 DEF Proper
  <2>3. reply \in {Refused} \cup Nat /\ reply \in {Refused, srv.runs[m.of]}
    BY <1>3, <2>2
  <2> HIDE DEF reply
  <2>4. with(reply) \in Messages
    BY <1>5, <2>3
  <2>5. Proper(kind, with(reply))
    BY <1>4, <1>10, <2>2, <2>3 DEF Proper
  <2>6. AllMail(pending') /\ Answered(kind, i, reply) /\ UNCHANGED <<ui, missed, events, faults>>
    BY <1>1, <2>1, <2>4, <2>5, RepliedIs DEF with
  <2> QED
    BY <1>10, <2>1, <2>3, <2>6 DEF ServerSteps
<1>11. CASE kind = "timeline"
  <2> DEFINE reply == srv.jobs[m.of].status
  <2>1. Replied(kind, i, reply) /\ UNCHANGED srv
    BY <1>11 DEF Serve
  <2>2. m.of \in DOMAIN srv.jobs
    BY <1>2, <1>11 DEF Proper
  <2>3. reply \in Statuses
    <3>1. srv.jobs[m.of] \in Jobs
      BY <1>3, <2>2
    <3> QED
      BY <3>1 DEF Jobs, Statuses
  <2> HIDE DEF reply
  <2>4. with(reply) \in Messages
    BY <1>5, <2>3
  <2>5. Proper(kind, with(reply))
    BY <1>4, <1>11, <2>2, <2>3 DEF Proper
  <2> QED
    BY <1>6, <1>11, <2>1, <2>4, <2>5 DEF ServerSteps
<1>12. CASE kind = "post"
  <2>1. /\ m.op \in Ops
        /\ IF m.op \in {"again", "cancel"} THEN m.of \in DOMAIN srv.jobs ELSE m.of \in Repos
    BY <1>2, <1>12 DEF Proper
  <2>2. PICK reply \in {Refused, "done"} : Replied(kind, i, reply)
    BY <1>12 DEF Serve
  <2>3. UNCHANGED srv \/ (Posted(m.op, m.of) # Refused /\ srv' = Posted(m.op, m.of))
    BY <1>12 DEF Serve
  <2>4. ServerSteps
    <3>1. CASE UNCHANGED srv
      BY <3>1 DEF ServerSteps
    <3>2. CASE Posted(m.op, m.of) # Refused /\ srv' = Posted(m.op, m.of)
      BY <1>1, <2>1, <3>2, PostedIs
    <3> QED
      BY <2>3, <3>1, <3>2
  <2>5. with(reply) \in Messages
    BY <1>5, <2>2
  <2>6. Proper(kind, with(reply))
    BY <1>4, <1>12, <2>1, <2>2 DEF Proper
  <2> QED
    BY <1>6, <1>12, <2>2, <2>4, <2>5, <2>6
<1> QED
  BY <1>8, <1>9, <1>10, <1>11, <1>12 DEF Kinds

-----------------------------------------------------------------------------
(***************************************************************************)
(* The types.                                                              *)
(***************************************************************************)

\* The counters stay within their bounds.
LEMMA Counters ==
  ASSUME ShellAssumption, Typing, Next
  PROVE  events' \in 0..MaxEvents /\ faults' \in 0..MaxFaults
<1>1. /\ events \in 0..MaxEvents /\ faults \in 0..MaxFaults
      /\ MaxEvents \in Nat /\ MaxFaults \in Nat
  BY DEF ShellAssumption, Typing, Shaped
<1>2. \/ UNCHANGED <<events, faults>>
      \/ events < MaxEvents /\ events' = events + 1 /\ UNCHANGED faults
      \/ faults < MaxFaults /\ faults' = faults + 1 /\ UNCHANGED events
  <2>1. CASE UserEvent
    BY <2>1 DEF UserEvent, chooseRepository, register, setView, refresh, runAction, RepositoryPage,
               closePanel, loadTimeline, act, Post, Event
  <2>2. CASE Poll \/ Work
    BY <2>2 DEF Poll, Work
  <2>3. CASE Transport
    <3>1. PICK kind \in Kinds : \E i \in DOMAIN pending[kind] :
                 Serve(kind, i) \/ Answer(kind, i) \/ Fail(kind, i)
      BY <2>3 DEF Transport
    <3>2. PICK i \in DOMAIN pending[kind] : Serve(kind, i) \/ Answer(kind, i) \/ Fail(kind, i)
      BY <3>1
    <3>3. CASE Serve(kind, i)
      BY <3>3, ServeDoes
    <3>4. CASE Answer(kind, i)
      BY <3>4 DEF Answer
    <3>5. CASE Fail(kind, i)
      BY <3>5 DEF Fail
    <3> QED
      BY <3>2, <3>3, <3>4, <3>5
  <2> QED
    BY <2>1, <2>2, <2>3 DEF Next
<1> QED
  BY <1>1, <1>2

LEMMA InitTyping ==
  ASSUME ShellAssumption, Init
  PROVE  Typing
<1>1. srv \in [repos : {Registered}, jobs : EarlierJobs, runs : {[r \in Repos |-> 0]}]
  BY DEF Init
<1>2. srv.repos = Registered /\ srv.jobs \in EarlierJobs /\ srv.runs = [r \in Repos |-> 0]
      /\ srv = [repos |-> srv.repos, jobs |-> srv.jobs, runs |-> srv.runs]
  BY <1>1
<1>3. srv \in Servers
  <2>1. srv.repos \in SUBSET Repos /\ srv.jobs \in Seq(Jobs) /\ srv.runs \in [Repos -> Nat]
    BY <1>2 DEF ShellAssumption
  <2> QED
    BY <1>2, <2>1 DEF Servers
<1>4. Serial(srv.jobs)
  BY <1>2 DEF ShellAssumption, Serial
<1>5. PICK v \in StartViews : ui = [view |-> v, scope |-> None, repos |-> {}, jobs |-> <<>>,
                                    detail |-> None, panel |-> None]
  BY DEF Init
<1>6. ui \in Clients /\ ui.jobs = <<>> /\ ui.panel = None /\ ui.detail = None
  BY <1>5 DEF Clients, ShellAssumption
<1>7. Snapshot(ui.jobs)
  BY <1>3, <1>6 DEF Snapshot, Older, Serial, Servers
<1>8. AllMail(pending)
  <2> DEFINE m == Request("get", None, None)
  <2>1. m \in Messages /\ m.after = None /\ m.reply = None
    BY DEF Request, Messages
  <2>2. pending = [k \in Kinds |-> IF k = "refresh" THEN <<m>> ELSE <<>>]
    BY DEF Init
  <2> HIDE DEF m
  <2>3. Proper("refresh", m)
    BY <2>1 DEF Proper
  <2>4. \A k \in Kinds : Mail(k, pending[k])
    BY <2>1, <2>2, <2>3, OneKeeps, NoneKeeps
  <2>5. pending \in [Kinds -> Seq(Messages)]
    BY <2>2, <2>4 DEF Mail
  <2> QED
    BY <2>4, <2>5 DEF AllMail
<1>9. /\ missed \in [lost : BOOLEAN, late : Nat] /\ missed.late <= Len(pending["detail"])
      /\ events \in 0..MaxEvents /\ faults \in 0..MaxFaults
  <2>1. /\ missed = [lost |-> FALSE, late |-> 0] /\ events = 0 /\ faults = 0
        /\ pending["detail"] = <<>>
    BY DEF Init, Kinds
  <2>2. MaxEvents \in Nat /\ MaxFaults \in Nat
    BY DEF ShellAssumption
  <2>3. events \in 0..MaxEvents /\ faults \in 0..MaxFaults
    BY <2>1, <2>2
  <2> QED
    BY <2>1, <2>3
<1> QED
  BY <1>3, <1>4, <1>6, <1>7, <1>8, <1>9 DEF Typing, Shaped, Tidy

\* What becomes of the history when a detail is answered.
LEMMA MissedIs ==
  ASSUME Typing, NEW i \in DOMAIN pending["detail"], NEW lost \in BOOLEAN, Missed(i, lost)
  PROVE  /\ missed' \in [lost : BOOLEAN, late : Nat]
         /\ missed'.late <= Len(pending["detail"]) - 1
         /\ IF i <= missed.late THEN missed'.late = missed.late - 1
            ELSE missed'.late = IF pending["detail"][i].op = "gone" THEN missed.late ELSE i - 1
         /\ missed'.lost = IF pending["detail"][i].op = "gone" THEN missed.lost ELSE lost
<1> DEFINE requests == pending["detail"]
<1>1. /\ missed \in [lost : BOOLEAN, late : Nat] /\ missed.late \in Nat /\ missed.lost \in BOOLEAN
      /\ missed.late <= Len(requests) /\ requests \in Seq(Messages)
  BY DEF Typing, Shaped, AllMail, Kinds
<1>2. i \in 1..Len(requests) /\ Len(requests) \in Nat
  BY <1>1
<1>3. missed' = [lost |-> IF requests[i].op # "gone" THEN lost ELSE missed.lost,
                 late |-> IF i <= missed.late THEN missed.late - 1
                          ELSE IF requests[i].op # "gone" THEN i - 1 ELSE missed.late]
  BY DEF Missed, Overtaken
<1> HIDE DEF requests
<1> QED
  BY <1>1, <1>2, <1>3 DEF requests

LEMMA CommitLength ==
  ASSUME NEW u \in Clients, NEW flight \in [Kinds -> Seq(Messages)], NEW newJobs,
         Commit(u, flight, newJobs)
  PROVE  Len(flight["detail"]) <= Len(pending'["detail"])
<1>1. flight["detail"] \in Seq(Messages)
  BY DEF Kinds
<1>2. \/ pending'["detail"] = Detached(flight["detail"])
      \/ pending'["detail"] = flight["detail"] \o detailEffects(u)
  BY CommitDoes
<1>3. CASE pending'["detail"] = Detached(flight["detail"])
  <2>1. Detached(flight["detail"]) \in Seq(Messages)
        /\ DOMAIN Detached(flight["detail"]) = DOMAIN flight["detail"]
    BY <1>1, DetachedIs
  <2> QED
    BY <1>1, <1>3, <2>1
<1>4. CASE pending'["detail"] = flight["detail"] \o detailEffects(u)
  <2>1. detailEffects(u) \in Seq(Messages)
    BY EffectsKeep DEF Mail
  <2> QED
    BY <1>1, <1>4, <2>1
<1> QED
  BY <1>2, <1>3, <1>4

LEMMA MissedKept ==
  ASSUME Typing, Next
  PROVE  missed' \in [lost : BOOLEAN, late : Nat] /\ missed'.late <= Len(pending'["detail"])
<1>1. /\ missed \in [lost : BOOLEAN, late : Nat] /\ missed.late \in Nat
      /\ missed.late <= Len(pending["detail"]) /\ AllMail(pending) /\ ui \in Clients
      /\ pending["detail"] \in Seq(Messages)
  BY DEF Typing, Shaped, AllMail, Kinds
<1>2. ASSUME NEW u \in Clients, NEW flight \in [Kinds -> Seq(Messages)], NEW newJobs,
             Commit(u, flight, newJobs), missed'.late \in Nat, missed'.late <= Len(flight["detail"])
      PROVE  missed'.late <= Len(pending'["detail"])
  <2>1. Len(flight["detail"]) <= Len(pending'["detail"])
    BY <1>2, CommitLength
  <2>2. Len(flight["detail"]) \in Nat
    BY DEF Kinds
  <2>3. Len(pending'["detail"]) \in Nat
    <3>1. flight["detail"] \in Seq(Messages) /\ detailEffects(u) \in Seq(Messages)
      BY EffectsKeep DEF Mail, Kinds
    <3>2. Detached(flight["detail"]) \in Seq(Messages)
      BY <3>1, DetachedIs
    <3>3. \/ pending'["detail"] = Detached(flight["detail"])
          \/ pending'["detail"] = flight["detail"] \o detailEffects(u)
      BY <1>2, CommitDoes
    <3> QED
      BY <3>1, <3>2, <3>3
  <2> QED
    BY <1>2, <2>1, <2>2, <2>3
<1>3. CASE Quietly
  <2>1. PICK u \in Clients, flight \in [Kinds -> Seq(Messages)], newJobs \in BOOLEAN :
          /\ Commit(u, flight, newJobs) /\ flight["detail"] = pending["detail"]
          /\ UNCHANGED missed
    BY <1>3 DEF Quietly
  <2> QED
    BY <1>1, <1>2, <2>1
<1>4. CASE PatchAnswers
  <2>1. PICK r \in Repos, flight \in [Kinds -> Seq(Messages)] :
          LET m == Request("get", r, "refresh")
          IN  /\ Commit(ui, Then(flight, "detail", m), FALSE) /\ AllMail(Then(flight, "detail", m))
              /\ Then(flight, "detail", m)["detail"] = Append(pending["detail"], m)
              /\ UNCHANGED missed
    BY <1>4 DEF PatchAnswers
  <2> DEFINE m == Request("get", r, "refresh")
             all == Then(flight, "detail", m)
  <2>2. /\ Commit(ui, all, FALSE) /\ AllMail(all) /\ UNCHANGED missed
        /\ all["detail"] = Append(pending["detail"], m)
    BY <2>1
  <2> HIDE DEF m, all
  <2>3. all \in [Kinds -> Seq(Messages)] /\ Len(all["detail"]) = Len(pending["detail"]) + 1
    BY <1>1, <2>2 DEF AllMail
  <2>4. missed'.late <= Len(all["detail"])
    BY <1>1, <2>2, <2>3
  <2> QED
    BY <1>1, <1>2, <2>2, <2>3, <2>4
<1>5. CASE Work
  BY <1>1, <1>5 DEF Work
<1>6. ASSUME NEW kind \in Kinds, NEW i \in DOMAIN pending[kind], Serve(kind, i)
      PROVE  UNCHANGED missed /\ Len(pending'["detail"]) = Len(pending["detail"])
  <2>1. /\ UNCHANGED missed /\ AllMail(pending')
        /\ DOMAIN pending'["detail"] = DOMAIN pending["detail"]
    BY <1>6, ServeDoes DEF Answered
  <2>2. pending'["detail"] \in Seq(Messages)
    BY <2>1 DEF AllMail, Kinds
  <2> QED
    BY <1>1, <2>1, <2>2
<1>7. ASSUME NEW i \in DOMAIN pending["detail"], Answer("detail", i)
      PROVE  missed' \in [lost : BOOLEAN, late : Nat] /\ missed'.late <= Len(pending'["detail"])
  <2>1. Missed(i, Overtaken(i) \/ pending["detail"][i].of # selected(ui)) /\ Shown(i)
    BY <1>7, AnswerDoes DEF Answer, Kinds
  <2>2. missed' \in [lost : BOOLEAN, late : Nat] /\ missed'.late <= Len(pending["detail"]) - 1
    BY <2>1, MissedIs
  <2>3. PICK u \in Clients, flight \in [Kinds -> Seq(Messages)] :
          Commit(u, flight, FALSE) /\ flight["detail"] = RemoveAt(pending["detail"], i)
    BY <2>1 DEF Shown
  <2>4. missed'.late <= Len(flight["detail"])
    BY <1>1, <2>2, <2>3, RemoveAtIs
  <2> QED
    BY <1>2, <2>2, <2>3, <2>4
<1>8. ASSUME NEW i \in DOMAIN pending["detail"], Fail("detail", i)
      PROVE  missed' \in [lost : BOOLEAN, late : Nat] /\ missed'.late <= Len(pending'["detail"])
  <2> DEFINE flight == Without("detail", i)
  <2>1. /\ Missed(i, missed.lost \/ ~Overtaken(i)) /\ Commit(ui, flight, FALSE)
        /\ AllMail(flight) /\ flight["detail"] = RemoveAt(pending["detail"], i)
    BY <1>8, DetailFailDoes
  <2>2. missed' \in [lost : BOOLEAN, late : Nat] /\ missed'.late <= Len(pending["detail"]) - 1
    BY <1>1, <2>1, MissedIs
  <2> HIDE DEF flight
  <2>3. missed'.late <= Len(flight["detail"]) /\ flight \in [Kinds -> Seq(Messages)]
    BY <1>1, <2>1, <2>2, RemoveAtIs DEF AllMail
  <2> QED
    BY <1>1, <1>2, <2>1, <2>2, <2>3
<1>9. CASE Transport
  <2>1. PICK kind \in Kinds : \E i \in DOMAIN pending[kind] :
               Serve(kind, i) \/ Answer(kind, i) \/ Fail(kind, i)
    BY <1>9 DEF Transport
  <2>2. PICK i \in DOMAIN pending[kind] : Serve(kind, i) \/ Answer(kind, i) \/ Fail(kind, i)
    BY <2>1
  <2>3. CASE Serve(kind, i)
    BY <1>1, <1>6, <2>3
  <2>4. CASE kind = "detail"
    BY <1>7, <1>8, <2>2, <2>3, <2>4
  <2>5. CASE kind # "detail"
    BY <1>3, <1>4, <2>2, <2>3, <2>5, AnswerDoes, FailIsQuiet
  <2> QED
    BY <2>4, <2>5
<1> QED
  BY <1>3, <1>5, <1>9, UserIsQuiet, PollIsQuiet DEF Next

LEMMA NextTyping ==
  ASSUME ShellAssumption, Typing, [Next]_vars
  PROVE  Typing'
<1>1. /\ srv \in Servers /\ ui \in Clients /\ Tidy /\ AllMail(pending)
      /\ Serial(srv.jobs) /\ Snapshot(ui.jobs)
  BY DEF Typing, Shaped
<1>2. CASE Commits /\ Next
  <2>1. PICK u, flight, newJobs :
          Commit(u, flight, newJobs) /\ Committable(u) /\ AllMail(flight) /\ UNCHANGED srv
    BY <1>2 DEF Commits
  <2>2. ui' \in Clients /\ Tidy' /\ AllMail(pending)' /\ Snapshot(ui.jobs)'
    BY <1>1, <2>1, CommitKeeps
  <2>3. srv' \in Servers /\ Serial(srv.jobs)'
    BY <1>1, <2>1 DEF Serial
  <2> QED
    BY <1>2, <2>2, <2>3, Counters, MissedKept DEF Typing, Shaped
<1>3. CASE ServerSteps /\ AllMail(pending') /\ UNCHANGED ui /\ Next
  <2>1. srv' \in Servers /\ Progress /\ Serial(srv.jobs)'
    BY <1>1, <1>3, ServerKeeps
  <2>2. AllMail(pending)'
    BY <1>1, <1>3, <2>1, MailKept
  <2>3. Snapshot(ui.jobs)'
    <3>1. Snapshot(ui.jobs) /\ ui'.jobs = ui.jobs
      BY <1>1, <1>3
    <3>2. \A jobs : Snapshot(jobs) => Snapshot(jobs)'
      BY <1>1, <2>1, SnapshotKept
    <3> QED
      BY <1>3, <3>1, <3>2 DEF Snapshot, Older, Serial
  <2>4. Tidy'
    BY <1>1, <1>3, <2>1 DEF Tidy, Progress
  <2>5. ui' \in Clients
    BY <1>1, <1>3
  <2> QED
    BY <1>3, <2>1, <2>2, <2>3, <2>4, <2>5, Counters, MissedKept DEF Typing, Shaped
<1>4. CASE UNCHANGED vars
  <2>1. UNCHANGED <<srv, ui, pending, missed, events, faults>>
    BY <1>4 DEF vars
  <2>2. AllMail(pending')
    BY <1>1, <2>1
  <2>3. AllMail(pending)'
    BY <1>1, <2>1, <2>2, SameServer
  <2> QED
    BY <1>1, <2>1, <2>3 DEF Typing, Shaped, Tidy, Snapshot, Older, Serial
<1>5. CASE Work
  <2>1. ServerSteps /\ UNCHANGED <<ui, pending>>
    BY <1>1, <1>5, WorkAdvances DEF ServerSteps
  <2>2. AllMail(pending')
    BY <1>1, <2>1
  <2> QED
    BY <1>3, <1>5, <2>1, <2>2 DEF Next
<1>6. CASE Transport
  <2>1. PICK kind \in Kinds : \E i \in DOMAIN pending[kind] :
               Serve(kind, i) \/ Answer(kind, i) \/ Fail(kind, i)
    BY <1>6 DEF Transport
  <2>2. PICK i \in DOMAIN pending[kind] : Serve(kind, i) \/ Answer(kind, i) \/ Fail(kind, i)
    BY <2>1
  <2>3. CASE Serve(kind, i)
    BY <1>3, <1>6, <2>3, ServeDoes DEF Next
  <2>4. CASE Answer(kind, i) \/ Fail(kind, i)
    BY <1>2, <1>6, <2>4, ClientCommits DEF Next
  <2> QED
    BY <2>2, <2>3, <2>4
<1>7. CASE UserEvent \/ Poll
  BY <1>2, <1>7, ClientCommits DEF Next
<1> QED
  BY <1>4, <1>5, <1>6, <1>7 DEF Next

LEMMA TypingIsTypeOK ==
  ASSUME Typing
  PROVE  TypeOK
<1>1. srv.repos \subseteq Repos /\ srv.jobs \in Seq(Jobs) /\ srv.runs \in [Repos -> Nat]
  BY DEF Typing, Shaped, Servers
<1>2. /\ ui.view \in Views /\ ui.scope \in Repos \cup {None}
      /\ ui.repos \subseteq Repos /\ ui.jobs \in Seq(Jobs)
      /\ ui.detail = None \/ (ui.view = "repositories" /\ ui.detail \in [repo : Repos, runs : Nat])
      /\ ui.panel = None \/ (ui.view = "jobs" /\ ui.panel.job \in DOMAIN srv.jobs)
  BY DEF Typing, Shaped, Clients, Tidy
<1>3. DOMAIN pending = Kinds
  BY DEF Typing, AllMail
<1>4. \A m \in Messages : [op |-> m.op, of |-> m.of, after |-> m.after] \in Requests
  BY DEF Messages, Requests
<1>5. \A kind \in Kinds : \A i \in DOMAIN pending[kind] : pending[kind][i] \in Messages
  BY RequestAt DEF Typing
<1>6. /\ missed.lost \in BOOLEAN /\ missed.late \in 0..Len(pending["detail"])
      /\ events \in 0..MaxEvents /\ faults \in 0..MaxFaults
  <2>1. /\ missed \in [lost : BOOLEAN, late : Nat] /\ missed.late <= Len(pending["detail"])
        /\ pending["detail"] \in Seq(Messages)
    BY DEF Typing, Shaped, AllMail, Kinds
  <2>2. missed.late \in 0..Len(pending["detail"])
    BY <2>1
  <2> QED
    BY <2>1, <2>2 DEF Typing, Shaped
<1> QED
  BY <1>1, <1>2, <1>3, <1>4, <1>5, <1>6 DEF TypeOK

\* Whatever is sent, lost or answered, the client's state and the requests in flight
\* keep their shapes, and the jobs that they name are jobs of the server.
THEOREM Typed == Spec => []TypeOK
<1>1. Init => Typing
  BY InitTyping, ShellAssumption
<1>2. Typing /\ [Next]_vars => Typing'
  BY NextTyping, ShellAssumption
<1>3. Typing => TypeOK
  BY TypingIsTypeOK
<1> QED
  BY <1>1, <1>2, <1>3, PTL DEF Spec

-----------------------------------------------------------------------------
(***************************************************************************)
(* The detail of the selected repository.                                  *)
(***************************************************************************)

LEMMA MaxExists ==
  ASSUME NEW n \in Nat, NEW S \in SUBSET (1..n), S # {}
  PROVE  \E m \in S : \A i \in S : i <= m
<1> DEFINE distances == {n - i : i \in S}
<1>1. \A i \in S : i \in Nat /\ i <= n /\ n - i \in Nat
  OBVIOUS
<1>2. distances \subseteq Nat /\ distances # {}
  BY <1>1
<1>3. PICK d \in distances : \A e \in distances : <<e, d>> \notin OpToRel(<, Nat)
  BY <1>2, WFMin, NatLessThanWellFounded
<1>4. \A e \in distances : ~(e < d)
  BY <1>2, <1>3 DEF OpToRel
<1>5. PICK m \in S : d = n - m
  BY <1>3
<1>6. \A i \in S : ~(n - i < n - m)
  BY <1>4, <1>5
<1>7. \A i \in S : i <= m
  BY <1>1, <1>6
<1> QED
  BY <1>7

OwnJobs(u) == {j \in DOMAIN u.jobs : u.jobs[j].repo = selected(u)}

\* The latest job is the last of the selected repository's jobs.
LEMMA LatestIs ==
  ASSUME NEW u \in Clients, OwnJobs(u) # {}
  PROVE  \E m \in OwnJobs(u) : /\ \A i \in OwnJobs(u) : i <= m
                               /\ latestGenerateJob(u) = <<m, u.jobs[m].status>>
<1>1. u.jobs \in Seq(Jobs)
  BY DEF Clients
<1>2. OwnJobs(u) \in SUBSET (1..Len(u.jobs)) /\ Len(u.jobs) \in Nat
  BY <1>1 DEF OwnJobs
<1>3. \E m \in OwnJobs(u) : \A i \in OwnJobs(u) : i <= m
  BY <1>2, MaxExists
<1> DEFINE m == CHOOSE j \in OwnJobs(u) : \A i \in OwnJobs(u) : i <= j
<1>4. m \in OwnJobs(u) /\ \A i \in OwnJobs(u) : i <= m
  BY <1>3
<1>5. latestGenerateJob(u) = <<m, u.jobs[m].status>>
  BY DEF latestGenerateJob, OwnJobs
<1> QED
  BY <1>4, <1>5

\* A client that learns that the runs of its repository are over, and has not known
\* it, sees its latest job turn.
LEMMA TurnsWhenSettled ==
  ASSUME Typing, NEW u \in Clients, Snapshot(u.jobs),
         selected(u) = selected(ui), NEW r, r = selected(u),
         \A j \in DOMAIN srv.jobs :
           srv.jobs[j].repo = r => j \in DOMAIN u.jobs /\ u.jobs[j].status \in Ended,
         \/ latestGenerateJob(u) = latestGenerateJob(ui)
         \/ latestGenerateJob(u) = <<>>
  PROVE  Settled(r)
<1>1. SUFFICES ASSUME NEW k \in DOMAIN srv.jobs, srv.jobs[k].repo = r
               PROVE  k \in DOMAIN ui.jobs /\ ui.jobs[k].status \in Ended
  BY DEF Settled
<1>2. /\ ui \in Clients /\ Snapshot(ui.jobs)
      /\ srv.jobs \in Seq(Jobs) /\ ui.jobs \in Seq(Jobs) /\ u.jobs \in Seq(Jobs)
  BY DEF Typing, Shaped, Clients, Servers
<1>3. k \in OwnJobs(u)
  BY <1>1 DEF OwnJobs, Snapshot, Older
<1>4. PICK m \in OwnJobs(u) : /\ \A i \in OwnJobs(u) : i <= m
                              /\ latestGenerateJob(u) = <<m, u.jobs[m].status>>
  BY <1>3, LatestIs
<1>5. latestGenerateJob(ui) = <<m, u.jobs[m].status>>
  <2>1. <<m, u.jobs[m].status>> # <<>>
    OBVIOUS
  <2> QED
    BY <1>4, <2>1
<1>6. OwnJobs(ui) # {}
  <2>1. SUFFICES ASSUME OwnJobs(ui) = {}
                 PROVE  FALSE
    OBVIOUS
  <2>2. latestGenerateJob(ui) = <<>>
    BY <2>1 DEF latestGenerateJob, OwnJobs
  <2>3. <<m, u.jobs[m].status>> # <<>>
    OBVIOUS
  <2> QED
    BY <1>5, <2>2, <2>3
<1>7. m \in OwnJobs(ui) /\ ui.jobs[m].status = u.jobs[m].status
  <2>1. PICK h \in OwnJobs(ui) : latestGenerateJob(ui) = <<h, ui.jobs[h].status>>
    BY <1>2, <1>6, LatestIs
  <2>2. h = m /\ ui.jobs[h].status = u.jobs[m].status
    BY <1>5, <2>1
  <2> QED
    BY <2>2
<1>8. ui.jobs[m].status \in Ended
  <2>1. m \in DOMAIN u.jobs /\ u.jobs[m].repo = r
    BY DEF OwnJobs
  <2>2. m \in DOMAIN srv.jobs
    BY <1>2, <2>1 DEF Snapshot, Older
  <2>3. srv.jobs[m].repo = r
    BY <2>1 DEF Snapshot, Older
  <2> QED
    BY <1>7, <2>2, <2>3
<1>9. m \in DOMAIN ui.jobs /\ ui.jobs[m].repo = r
  BY <1>7 DEF OwnJobs
<1>10. k <= m /\ k \in DOMAIN ui.jobs
  <2>1. k <= m
    BY <1>3, <1>4
  <2> QED
    BY <1>2, <1>9, <2>1
<1>11. ui.jobs[k].repo = r
  BY <1>1, <1>2, <1>10 DEF Snapshot, Older
<1>12. CASE k = m
  BY <1>8, <1>10, <1>12
<1>13. CASE k # m
  <2>1. k < m
    BY <1>2, <1>9, <1>10, <1>13
  <2> QED
    BY <1>2, <1>9, <1>10, <1>11, <2>1 DEF Snapshot, Serial
<1> QED
  BY <1>12, <1>13

\* A request that has been sent last and not been read covers its repository.
LEMMA LoadCovers ==
  ASSUME NEW requests \in Seq(Messages), NEW m \in Messages, m.op # "gone", m.reply = None,
         NEW detail, NEW history \in [lost : BOOLEAN, late : Nat],
         history.late <= Len(requests), NEW r
  PROVE  Covered(detail, requests \o <<m>>, history, r)
<1> DEFINE all == requests \o <<m>>
           n == Len(requests) + 1
<1>1. n \in DOMAIN all /\ all[n] = m /\ n > history.late /\ \A j \in DOMAIN all : j <= n
  OBVIOUS
<1> HIDE DEF all, n
<1>2. n \in Live(all, history.late) /\ \A j \in Live(all, history.late) : j <= n
  BY <1>1 DEF Live
<1> QED
  BY <1>1, <1>2 DEF Covered, all

\* A commit that leaves a covered repository covers it, or loads the one it moves to.
LEMMA CommitCovers ==
  ASSUME Typing, NEW u \in Clients, Snapshot(u.jobs), NEW flight, AllMail(flight), NEW newJobs,
         Commit(u, flight, newJobs), UNCHANGED srv,
         missed' \in [lost : BOOLEAN, late : Nat], missed'.late <= Len(flight["detail"]),
         selected(u) # None /\ selected(u) = selected(ui) /\ Settled(selected(u)) =>
           Covered(u.detail, flight["detail"], missed', selected(u))
  PROVE  Fresh'
<1> DEFINE r == selected(u)
<1>1. flight \in [Kinds -> Seq(Messages)] /\ flight["detail"] \in Seq(Messages)
  BY DEF AllMail, Kinds
<1>2. ui'.view = u.view /\ ui'.scope = u.scope /\ ui'.repos = u.repos /\ ui'.jobs = u.jobs
  BY <1>1, CommitDoes
<1>3. selected(ui)' = r
  BY <1>2 DEF selected
<1>4. SUFFICES ASSUME r # None, Settled(r)'
               PROVE  Covered(ui'.detail, pending'["detail"], missed', r)
  BY <1>3 DEF Fresh, Covered, Settled
<1>5. u.view = "repositories" /\ r \in Repos
  BY <1>4, SelectedIs
<1>6. ui'.detail = u.detail /\ pending'["detail"] = flight["detail"] \o detailEffects(u)
  BY <1>1, <1>4, <1>5, CommitDoes
<1>7. CASE detailEffects(u) = <<Request("get", r, None)>>
  <2> DEFINE m == Request("get", r, None)
  <2>1. m \in Messages /\ m.op # "gone" /\ m.reply = None
    BY <1>5 DEF Request, Messages
  <2> HIDE DEF m
  <2>2. Covered(ui'.detail, flight["detail"] \o <<m>>, missed', r)
    BY <1>1, <2>1, LoadCovers
  <2> QED
    BY <1>6, <1>7, <2>2 DEF m
<1>8. CASE detailEffects(u) # <<Request("get", r, None)>>
  <2>1. /\ selected(u) = selected(ui)
        /\ latestGenerateJob(u) = latestGenerateJob(ui) \/ latestGenerateJob(u) = <<>>
        /\ detailEffects(u) = <<>>
    BY <1>4, <1>8 DEF detailEffects
  <2>2. \A j \in DOMAIN srv.jobs :
          srv.jobs[j].repo = r => j \in DOMAIN u.jobs /\ u.jobs[j].status \in Ended
    BY <1>2, <1>4 DEF Settled
  <2>3. Settled(r)
    BY <2>1, <2>2, TurnsWhenSettled
  <2>4. Covered(u.detail, flight["detail"], missed', r)
    BY <1>4, <2>1, <2>3
  <2>5. pending'["detail"] = flight["detail"]
    BY <1>1, <1>6, <2>1
  <2> QED
    BY <1>6, <2>4, <2>5
<1> QED
  BY <1>7, <1>8

LEMMA QuietCovers ==
  ASSUME IInv, Quietly
  PROVE  Fresh'
<1>1. PICK u \in Clients, flight \in [Kinds -> Seq(Messages)], newJobs \in BOOLEAN :
        /\ Commit(u, flight, newJobs)
        /\ Committable(u) /\ AllMail(flight)
        /\ u.detail = ui.detail /\ flight["detail"] = pending["detail"]
        /\ UNCHANGED <<srv, missed>>
  BY DEF Quietly
<1>2. selected(u) # None /\ selected(u) = selected(ui) /\ Settled(selected(u)) =>
        Covered(u.detail, flight["detail"], missed', selected(u))
  BY <1>1 DEF IInv, Fresh
<1>3. missed' \in [lost : BOOLEAN, late : Nat] /\ missed'.late <= Len(flight["detail"])
  BY <1>1 DEF IInv, Typing, Shaped
<1> QED
  BY <1>1, <1>2, <1>3, CommitCovers DEF IInv, Committable

LEMMA PatchCovers ==
  ASSUME IInv, PatchAnswers
  PROVE  Fresh'
<1>1. PICK r \in Repos, flight \in [Kinds -> Seq(Messages)] :
        LET m == Request("get", r, "refresh")
        IN  /\ Commit(ui, Then(flight, "detail", m), FALSE)
            /\ AllMail(flight) /\ AllMail(Then(flight, "detail", m))
            /\ Then(flight, "detail", m)["detail"] = Append(pending["detail"], m)
            /\ UNCHANGED <<srv, missed>>
  BY DEF PatchAnswers
<1> DEFINE m == Request("get", r, "refresh")
           all == Then(flight, "detail", m)
<1>2. m \in Messages /\ m.op # "gone" /\ m.reply = None
  BY DEF Request, Messages
<1>3. /\ Commit(ui, all, FALSE) /\ AllMail(all) /\ UNCHANGED srv
      /\ all["detail"] = Append(pending["detail"], m)
  BY <1>1
<1> HIDE DEF m, all
<1>4. Typing /\ Committable(ui) /\ ui \in Clients /\ pending["detail"] \in Seq(Messages)
  BY ClientKept DEF IInv, Committable, AllMail, Kinds
<1>5. all["detail"] = pending["detail"] \o <<m>>
  BY <1>2, <1>3, <1>4
<1>6. /\ missed \in [lost : BOOLEAN, late : Nat] /\ missed' = missed
      /\ missed.late <= Len(pending["detail"]) /\ missed.late \in Nat
  BY <1>1, <1>4 DEF Typing, Shaped
<1>7. Covered(ui.detail, all["detail"], missed', selected(ui))
  BY <1>2, <1>4, <1>5, <1>6, LoadCovers
<1>8. missed'.late <= Len(all["detail"])
  BY <1>2, <1>4, <1>5, <1>6
<1> QED
  BY <1>3, <1>4, <1>6, <1>7, <1>8, CommitCovers DEF Committable

\* Where the requests that come in time are when one has been answered: what is
\* older than a request that the page was waiting for is late from now on.
LEMMA LiveWithout ==
  ASSUME NEW requests \in Seq(Messages), NEW i \in DOMAIN requests,
         NEW late \in Nat, NEW later \in Nat,
         later = IF i <= late THEN late - 1
                 ELSE IF requests[i].op = "gone" THEN late ELSE i - 1
  PROVE  /\ \A j \in Live(requests, late) : j > i =>
              /\ j - 1 \in Live(RemoveAt(requests, i), later)
              /\ RemoveAt(requests, i)[j - 1] = requests[j]
         /\ \A k \in Live(RemoveAt(requests, i), later) :
              \/ k >= i /\ k + 1 \in Live(requests, late)
              \/ k < i /\ k \in Live(requests, late) /\ requests[i].op = "gone" /\ i > late
         /\ requests[i].op = "gone" => \A j \in Live(requests, late) : j < i =>
              /\ j \in Live(RemoveAt(requests, i), later)
              /\ RemoveAt(requests, i)[j] = requests[j]
         /\ i \in Live(requests, late) <=> i > late /\ requests[i].op # "gone"
         /\ i <= late => \A j \in Live(requests, late) : j > i
<1> DEFINE rest == RemoveAt(requests, i)
<1>1. /\ rest \in Seq(Messages) /\ Len(rest) = Len(requests) - 1 /\ Len(requests) \in Nat
      /\ \A j \in 1..Len(requests) - 1 : rest[j] = IF j < i THEN requests[j] ELSE requests[j + 1]
  BY RemoveAtIs
<1>2. /\ DOMAIN rest = 1..Len(requests) - 1 /\ DOMAIN requests = 1..Len(requests)
      /\ i \in 1..Len(requests)
  BY <1>1
<1> HIDE DEF rest
<1>3. ASSUME NEW j \in Live(requests, late), j > i
      PROVE  j - 1 \in Live(rest, later) /\ rest[j - 1] = requests[j]
  <2>1. j \in 1..Len(requests) /\ j > late /\ requests[j].op # "gone"
    BY <1>2 DEF Live
  <2>2. j - 1 \in 1..Len(requests) - 1 /\ ~(j - 1 < i) /\ (j - 1) + 1 = j /\ j - 1 > later
    BY <1>1, <1>2, <1>3, <2>1
  <2>3. rest[j - 1] = requests[j]
    BY <1>1, <2>2
  <2> QED
    BY <1>2, <2>1, <2>2, <2>3 DEF Live
<1>4. ASSUME NEW k \in Live(rest, later)
      PROVE  \/ k >= i /\ k + 1 \in Live(requests, late)
             \/ k < i /\ k \in Live(requests, late) /\ requests[i].op = "gone" /\ i > late
  <2>1. k \in 1..Len(requests) - 1 /\ k > later /\ rest[k].op # "gone"
    BY <1>2 DEF Live
  <2>2. CASE k >= i
    <3>1. k + 1 \in 1..Len(requests) /\ k + 1 > late /\ ~(k < i)
      BY <1>1, <1>2, <2>1, <2>2
    <3>2. rest[k] = requests[k + 1]
      BY <1>1, <2>1, <3>1
    <3> QED
      BY <1>2, <2>1, <2>2, <3>1, <3>2 DEF Live
  <2>3. CASE k < i
    <3>1. requests[i].op = "gone" /\ i > late /\ k > late /\ k \in 1..Len(requests)
      BY <1>1, <1>2, <2>1, <2>3
    <3>2. rest[k] = requests[k]
      BY <1>1, <2>1, <2>3
    <3> QED
      BY <1>2, <2>1, <2>3, <3>1, <3>2 DEF Live
  <2> QED
    BY <1>2, <2>1, <2>2, <2>3
<1>5. ASSUME requests[i].op = "gone", NEW j \in Live(requests, late), j < i
      PROVE  j \in Live(rest, later) /\ rest[j] = requests[j]
  <2>1. j \in 1..Len(requests) /\ j > late /\ requests[j].op # "gone"
    BY <1>2 DEF Live
  <2>2. j \in 1..Len(requests) - 1 /\ j > later
    BY <1>1, <1>2, <1>5, <2>1
  <2>3. rest[j] = requests[j]
    BY <1>1, <1>5, <2>2
  <2> QED
    BY <1>2, <2>1, <2>2, <2>3 DEF Live
<1>6. i \in Live(requests, late) <=> i > late /\ requests[i].op # "gone"
  BY DEF Live
<1>7. ASSUME i <= late, NEW j \in Live(requests, late)
      PROVE  j > i
  BY <1>2, <1>7 DEF Live
<1> QED
  BY <1>3, <1>4, <1>5, <1>6, <1>7 DEF rest

\* An answer is shown, or what is shown is lost.
LEMMA Removed ==
  ASSUME NEW requests \in Seq(Messages), NEW i \in DOMAIN requests, NEW r, NEW before, NEW after,
         NEW history \in [lost : BOOLEAN, late : Nat], NEW since \in [lost : BOOLEAN, late : Nat],
         Covered(before, requests, history, r),
         since.late = IF i <= history.late THEN history.late - 1
                      ELSE IF requests[i].op = "gone" THEN history.late ELSE i - 1,
         requests[i].op = "gone" => after = before /\ since.lost = history.lost,
         requests[i].op # "gone" /\ i <= history.late =>
           since.lost = TRUE \/ (after = before /\ since.lost = history.lost),
         requests[i].op # "gone" /\ i > history.late =>
           \/ since.lost = TRUE
           \/ /\ requests[i].of = r /\ requests[i].reply \notin {None, Refused}
              /\ after = [repo |-> r, runs |-> requests[i].reply]
  PROVE  Covered(after, RemoveAt(requests, i), since, r)
<1> DEFINE rest == RemoveAt(requests, i)
           live == Live(requests, history.late)
           left == Live(rest, since.late)
           Covers(m) == m.of # r \/ m.reply \in {None, Refused, srv.runs[r]}
<1>1. /\ \A j \in live : j > i => j - 1 \in left /\ rest[j - 1] = requests[j]
      /\ \A k \in left : \/ k >= i /\ k + 1 \in live
                         \/ k < i /\ k \in live /\ requests[i].op = "gone" /\ i > history.late
      /\ requests[i].op = "gone" => \A j \in live : j < i => j \in left /\ rest[j] = requests[j]
      /\ i \in live <=> i > history.late /\ requests[i].op # "gone"
      /\ i <= history.late => \A j \in live : j > i
  BY LiveWithout
<1>2. SUFFICES IF left = {} THEN since.lost \/ after = [repo |-> r, runs |-> srv.runs[r]]
               ELSE \E k \in left : (\A j \in left : j <= k) /\ Covers(rest[k])
  BY DEF Covered
<1>3. i \in Nat /\ live \subseteq Nat /\ left \subseteq Nat
  <2>1. rest \in Seq(Messages)
    BY RemoveAtIs
  <2> HIDE DEF rest
  <2> QED
    BY <2>1 DEF Live
<1>4. CASE live = {}
  <2>1. since.lost \/ after = [repo |-> r, runs |-> srv.runs[r]]
    <3>1. history.lost \/ before = [repo |-> r, runs |-> srv.runs[r]]
      BY <1>4 DEF Covered
    <3> QED
      BY <1>1, <1>3, <1>4, <3>1
  <2> HIDE DEF live, left
  <2>2. left = {}
    BY <1>1, <1>4
  <2> QED
    BY <2>1, <2>2
<1>5. CASE live # {}
  <2>1. PICK m \in live : (\A j \in live : j <= m) /\ Covers(requests[m])
    BY <1>5 DEF Covered
  <2> HIDE DEF live, left, rest, Covers
  <2>2. CASE m > i
    <3>1. m - 1 \in left /\ Covers(rest[m - 1])
      BY <1>1, <2>1, <2>2
    <3>2. \A k \in left : k <= m - 1
      <4>1. SUFFICES ASSUME NEW k \in left
                     PROVE  k <= m - 1
        OBVIOUS
      <4>2. CASE k >= i /\ k + 1 \in live
        BY <1>3, <2>1, <4>2
      <4>3. CASE k < i
        BY <1>3, <2>2, <4>3
      <4> QED
        BY <1>1, <4>2, <4>3
    <3> QED
      BY <3>1, <3>2
  <2>3. CASE m = i
    <3>1. left = {}
      <4>1. SUFFICES ASSUME NEW k \in left
                     PROVE  FALSE
        OBVIOUS
      <4>2. k >= i /\ k + 1 \in live
        BY <1>1, <2>3
      <4> QED
        BY <1>3, <2>1, <2>3, <4>2
    <3>2. since.lost \/ after = [repo |-> r, runs |-> srv.runs[r]]
      BY <1>1, <1>3, <2>1, <2>3 DEF Covers
    <3> QED
      BY <3>1, <3>2
  <2>4. CASE m < i
    <3>1. CASE requests[i].op = "gone"
      <4>1. m \in left /\ Covers(rest[m])
        BY <1>1, <2>1, <2>4, <3>1
      <4>2. \A k \in left : k <= m
        <5>1. SUFFICES ASSUME NEW k \in left
                       PROVE  k <= m
          OBVIOUS
        <5>2. CASE k >= i /\ k + 1 \in live
          BY <1>3, <2>1, <5>2
        <5>3. CASE k < i /\ k \in live
          BY <2>1, <5>3
        <5> QED
          BY <1>1, <5>2, <5>3
      <4> QED
        BY <4>1, <4>2
    <3>2. CASE requests[i].op # "gone"
      <4>1. i <= history.late
        BY <1>1, <1>3, <2>1, <2>4, <3>2
      <4> QED
        BY <1>1, <1>3, <2>4, <4>1
    <3> QED
      BY <3>1, <3>2
  <2> QED
    BY <1>3, <2>2, <2>3, <2>4
<1> QED
  BY <1>4, <1>5

LEMMA ShownCovers ==
  ASSUME IInv, NEW i \in DOMAIN pending["detail"], Shown(i),
         pending["detail"][i].reply \notin {None, Refused},
         Missed(i, Overtaken(i) \/ pending["detail"][i].of # selected(ui))
  PROVE  Fresh'
<1>1. PICK u \in Clients, flight \in [Kinds -> Seq(Messages)] :
        /\ Commit(u, flight, FALSE)
        /\ Committable(u) /\ AllMail(flight)
        /\ u.view = ui.view /\ u.scope = ui.scope /\ u.repos = ui.repos /\ u.jobs = ui.jobs
        /\ u.detail = IF pending["detail"][i].op = "gone" THEN ui.detail
                      ELSE [repo |-> pending["detail"][i].of, runs |-> pending["detail"][i].reply]
        /\ flight["detail"] = RemoveAt(pending["detail"], i)
        /\ UNCHANGED srv
  BY DEF Shown
<1>2. /\ pending["detail"] \in Seq(Messages) /\ Typing
      /\ missed \in [lost : BOOLEAN, late : Nat] /\ missed.late \in Nat
  BY DEF IInv, Typing, Shaped, AllMail, Kinds
<1> DEFINE m == pending["detail"][i]
<1>3. /\ missed' \in [lost : BOOLEAN, late : Nat]
      /\ missed'.late <= Len(pending["detail"]) - 1
      /\ missed'.late = IF i <= missed.late THEN missed.late - 1
                        ELSE IF m.op = "gone" THEN missed.late ELSE i - 1
      /\ missed'.lost = IF m.op = "gone" THEN missed.lost
                        ELSE Overtaken(i) \/ m.of # selected(ui)
  <2>1. (Overtaken(i) \/ m.of # selected(ui)) \in BOOLEAN
    BY DEF Overtaken
  <2> QED
    BY <1>2, <2>1, MissedIs
<1>4. missed'.late <= Len(flight["detail"])
  BY <1>1, <1>2, <1>3, RemoveAtIs
<1>5. ASSUME selected(u) # None, selected(u) = selected(ui), Settled(selected(u))
      PROVE  Covered(u.detail, flight["detail"], missed', selected(u))
  <2> DEFINE r == selected(ui)
  <2>1. Covered(ui.detail, pending["detail"], missed, r)
    BY <1>5 DEF IInv, Fresh
  <2>2. m.op = "gone" => u.detail = ui.detail /\ missed'.lost = missed.lost
    BY <1>1, <1>3
  <2>3. m.op # "gone" /\ i <= missed.late => missed'.lost = TRUE
    BY <1>3 DEF Overtaken
  <2>4. m.op # "gone" /\ i > missed.late =>
          \/ missed'.lost = TRUE
          \/ /\ m.of = r /\ m.reply \notin {None, Refused}
             /\ u.detail = [repo |-> r, runs |-> m.reply]
    BY <1>1, <1>3
  <2> HIDE DEF m, r
  <2>5. Covered(u.detail, RemoveAt(pending["detail"], i), missed', r)
    BY <1>2, <1>3, <2>1, <2>2, <2>3, <2>4, Removed DEF m
  <2> QED
    BY <1>1, <1>5, <2>5 DEF r
<1> QED
  BY <1>1, <1>2, <1>3, <1>4, <1>5, CommitCovers DEF Committable

LEMMA FailCovers ==
  ASSUME IInv, NEW i \in DOMAIN pending["detail"], Fail("detail", i)
  PROVE  Fresh'
<1>1. /\ pending["detail"] \in Seq(Messages) /\ Typing
      /\ missed \in [lost : BOOLEAN, late : Nat] /\ missed.late \in Nat /\ missed.lost \in BOOLEAN
  BY DEF IInv, Typing, Shaped, AllMail, Kinds
<1> DEFINE m == pending["detail"][i]
           flight == Without("detail", i)
<1>2. /\ Commit(ui, flight, FALSE) /\ Committable(ui) /\ AllMail(flight)
      /\ flight["detail"] = RemoveAt(pending["detail"], i)
      /\ Missed(i, missed.lost \/ ~Overtaken(i)) /\ UNCHANGED srv
  BY <1>1, DetailFailDoes
<1> HIDE DEF flight
<1>3. /\ missed' \in [lost : BOOLEAN, late : Nat]
      /\ missed'.late <= Len(pending["detail"]) - 1
      /\ missed'.late = IF i <= missed.late THEN missed.late - 1
                        ELSE IF m.op = "gone" THEN missed.late ELSE i - 1
      /\ missed'.lost = IF m.op = "gone" THEN missed.lost ELSE missed.lost \/ ~Overtaken(i)
  <2>1. (missed.lost \/ ~Overtaken(i)) \in BOOLEAN
    BY <1>1
  <2> QED
    BY <1>1, <1>2, <2>1, MissedIs
<1>4. missed'.late <= Len(flight["detail"])
  BY <1>1, <1>2, <1>3, RemoveAtIs
<1>5. ASSUME selected(ui) # None, Settled(selected(ui))
      PROVE  Covered(ui.detail, flight["detail"], missed', selected(ui))
  <2>1. Covered(ui.detail, pending["detail"], missed, selected(ui))
    BY <1>5 DEF IInv, Fresh
  <2>2. m.op = "gone" => missed'.lost = missed.lost
    BY <1>3
  <2>3. m.op # "gone" /\ i <= missed.late => missed'.lost = missed.lost
    <3>1. i <= missed.late => missed.lost \/ ~Overtaken(i) <=> missed.lost
      BY DEF Overtaken
    <3> QED
      BY <1>1, <1>3, <3>1
  <2>4. m.op # "gone" /\ i > missed.late => missed'.lost = TRUE
    <3>1. i \in Nat
      BY <1>1
    <3>2. i > missed.late => ~Overtaken(i)
      BY <1>1, <3>1 DEF Overtaken
    <3> QED
      BY <1>3, <3>2
  <2> HIDE DEF m
  <2>5. Covered(ui.detail, RemoveAt(pending["detail"], i), missed', selected(ui))
    BY <1>1, <1>3, <2>1, <2>2, <2>3, <2>4, Removed DEF m
  <2> QED
    BY <1>2, <2>5
<1> QED
  BY <1>1, <1>2, <1>3, <1>4, <1>5, CommitCovers DEF Committable

\* The server neither settles a repository for the client nor changes the runs of one
\* that is settled.
LEMMA ServerSettles ==
  ASSUME Typing, ServerSteps, UNCHANGED ui, NEW r \in Repos, Settled(r)'
  PROVE  Settled(r) /\ srv'.runs[r] = srv.runs[r]
<1>1. srv \in Servers /\ Serial(srv.jobs) /\ Snapshot(ui.jobs)
  BY DEF Typing, Shaped
<1>2. Progress
  BY <1>1, ServerKeeps
<1>3. Settled(r)
  BY <1>2 DEF Settled, Progress
<1>4. ASSUME NEW j \in DOMAIN srv.jobs, Advances(j)
      PROVE  srv'.runs[r] = srv.runs[r]
  <2>1. CASE srv.jobs[j].repo = r
    <3>1. j \in DOMAIN ui.jobs /\ ui.jobs[j].status \in Ended
      BY <1>3, <2>1 DEF Settled
    <3>2. srv.jobs[j].status \in Ended
      BY <1>1, <3>1 DEF Snapshot, Older
    <3> QED
      BY <1>4, <3>2 DEF Advances, Active, Ended
  <2>2. CASE srv.jobs[j].repo # r
    BY <1>4, <2>2 DEF Advances
  <2> QED
    BY <2>1, <2>2
<1>5. ASSUME NEW x \in Repos, Starts(x)
      PROVE  srv'.runs[r] = srv.runs[r]
  BY <1>5 DEF Starts
<1>6. Registers => srv'.runs[r] = srv.runs[r]
  BY DEF Registers
<1> QED
  BY <1>3, <1>4, <1>5, <1>6 DEF ServerSteps

LEMMA ServerCovers ==
  ASSUME IInv, ServerSteps, UNCHANGED <<ui, missed>>,
         \/ pending'["detail"] = pending["detail"]
         \/ \E i \in DOMAIN pending["detail"] :
              \E reply \in {Refused, srv.runs[pending["detail"][i].of]} : Answered("detail", i, reply)
  PROVE  Fresh'
<1> DEFINE r == selected(ui)
           old == pending["detail"]
           new == pending'["detail"]
           late == missed.late
<1>1. Typing /\ ui \in Clients
  BY DEF IInv, Typing, Shaped
<1>2. selected(ui)' = r
  BY DEF selected
<1>3. SUFFICES ASSUME r # None, Settled(r)'
               PROVE  IF Live(new, late) = {}
                      THEN missed.lost \/ ui.detail = [repo |-> r, runs |-> srv'.runs[r]]
                      ELSE \E i \in Live(new, late) :
                             /\ \A j \in Live(new, late) : j <= i
                             /\ new[i].of # r \/ new[i].reply \in {None, Refused, srv'.runs[r]}
  BY <1>2 DEF Fresh, Covered
<1>4. Settled(r) /\ srv'.runs[r] = srv.runs[r]
  BY <1>1, <1>3, SelectedIs, ServerSettles
<1>5. Covered(ui.detail, old, missed, r)
  BY <1>3, <1>4 DEF IInv, Fresh
<1>6. CASE new = old
  BY <1>4, <1>5, <1>6 DEF Covered
<1>7. CASE new # old
  <2>1. PICK i \in DOMAIN old : \E reply \in {Refused, srv.runs[old[i].of]} : Answered("detail", i, reply)
    BY <1>7
  <2>2. /\ DOMAIN new = DOMAIN old
        /\ \A k \in DOMAIN old :
             /\ new[k].op = old[k].op /\ new[k].of = old[k].of
             /\ new[k].reply = old[k].reply \/ new[k].reply \in {Refused, srv.runs[old[k].of]}
    BY <2>1 DEF Answered
  <2>3. Live(new, late) = Live(old, late)
    BY <2>2 DEF Live
  <2>4. CASE Live(old, late) = {}
    BY <1>4, <1>5, <2>3, <2>4 DEF Covered
  <2>5. CASE Live(old, late) # {}
    <3>1. PICK k \in Live(old, late) :
            /\ \A j \in Live(old, late) : j <= k
            /\ old[k].of # r \/ old[k].reply \in {None, Refused, srv.runs[r]}
      BY <1>5, <2>5 DEF Covered
    <3>2. new[k].of # r \/ new[k].reply \in {None, Refused, srv.runs[r]}
      BY <2>2, <3>1 DEF Live
    <3>3. \E h \in Live(new, late) :
            /\ \A j \in Live(new, late) : j <= h
            /\ new[h].of # r \/ new[h].reply \in {None, Refused, srv'.runs[r]}
      BY <1>4, <2>3, <3>1, <3>2
    <3>4. Live(new, late) # {}
      BY <2>3, <2>5
    <3> HIDE DEF new, late
    <3> QED
      BY <3>3, <3>4
  <2> QED
    BY <2>4, <2>5
<1> QED
  BY <1>6, <1>7

LEMMA NextFresh ==
  ASSUME IInv, [Next]_vars
  PROVE  Fresh'
<1>1. Typing /\ srv \in Servers
  BY DEF IInv, Typing, Shaped
<1>2. CASE UNCHANGED vars
  BY <1>2 DEF vars, IInv, Fresh, Covered, Settled, selected
<1>3. CASE UserEvent \/ Poll
  BY <1>1, <1>3, UserIsQuiet, PollIsQuiet, QuietCovers
<1>4. CASE Work
  BY <1>1, <1>4, WorkAdvances, ServerCovers DEF ServerSteps
<1>5. CASE Transport
  <2>1. PICK kind \in Kinds : \E i \in DOMAIN pending[kind] :
               Serve(kind, i) \/ Answer(kind, i) \/ Fail(kind, i)
    BY <1>5 DEF Transport
  <2>2. PICK i \in DOMAIN pending[kind] : Serve(kind, i) \/ Answer(kind, i) \/ Fail(kind, i)
    BY <2>1
  <2>3. CASE Serve(kind, i)
    BY <1>1, <2>3, ServeDoes, ServerCovers
  <2>4. CASE Answer(kind, i)
    <3>1. CASE kind = "detail"
      <4>1. /\ pending["detail"][i].reply \notin {None, Refused}
            /\ Missed(i, Overtaken(i) \/ pending["detail"][i].of # selected(ui))
        BY <2>4, <3>1 DEF Answer
      <4>2. Shown(i)
        BY <1>1, <2>4, <3>1, AnswerDoes
      <4> QED
        BY <3>1, <4>1, <4>2, ShownCovers
    <3>2. CASE kind # "detail"
      BY <1>1, <2>4, <3>2, AnswerDoes, QuietCovers, PatchCovers
    <3> QED
      BY <3>1, <3>2
  <2>5. CASE Fail(kind, i)
    <3>1. CASE kind = "detail"
      BY <2>5, <3>1, FailCovers
    <3>2. CASE kind # "detail"
      BY <1>1, <2>5, <3>2, FailIsQuiet, QuietCovers
    <3> QED
      BY <3>1, <3>2
  <2> QED
    BY <2>2, <2>3, <2>4, <2>5
<1> QED
  BY <1>2, <1>3, <1>4, <1>5 DEF Next

LEMMA FreshIsEnough ==
  ASSUME IInv
  PROVE  DetailIsFresh
<1> DEFINE r == selected(ui)
<1>1. SUFFICES ASSUME r # None, ~missed.lost, ui.jobs = srv.jobs, ActiveOf(r) = {},
                      \A i \in DOMAIN pending["detail"] : pending["detail"][i].op = "gone"
               PROVE  ui.detail = [repo |-> r, runs |-> srv.runs[r]]
  BY DEF DetailIsFresh
<1>2. srv.jobs \in Seq(Jobs)
  BY DEF IInv, Typing, Shaped, Servers
<1>3. \A j \in DOMAIN srv.jobs : srv.jobs[j].repo = r => srv.jobs[j].status \in Ended
  <2>1. \A j \in DOMAIN srv.jobs : srv.jobs[j] \in Jobs
    BY <1>2
  <2> QED
    BY <1>1, <2>1 DEF ActiveOf, Jobs
<1>4. Settled(r)
  BY <1>1, <1>3 DEF Settled
<1>5. Live(pending["detail"], missed.late) = {}
  BY <1>1 DEF Live
<1> QED
  BY <1>1, <1>4, <1>5 DEF IInv, Fresh, Covered

\* In whatever order the details arrive, the page of a repository that waits for
\* nothing and whose job the client knows to be over shows the last run, unless the
\* answer it shows has itself been overtaken, belongs elsewhere or has been replaced
\* by an error: the effect on the latest job's status is enough, the list of runs
\* need not be polled, and the next answer that comes in time heals the page.
THEOREM DetailStaysFresh == Spec => []DetailIsFresh
<1>1. Init => IInv
  <2>1. Init => selected(ui) = None
    BY DEF Init, selected
  <2> QED
    BY <2>1, InitTyping, ShellAssumption DEF IInv, Fresh
<1>2. IInv /\ [Next]_vars => IInv'
  BY NextTyping, NextFresh, ShellAssumption DEF IInv
<1>3. IInv => DetailIsFresh
  BY FreshIsEnough
<1> QED
  BY <1>1, <1>2, <1>3, PTL DEF Spec

=============================================================================
