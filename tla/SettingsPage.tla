----------------------------- MODULE SettingsPage -----------------------------
(* The settings pages of one local service: adding a source and following    *)
(* its index job, cancelling it, removing a source, clearing the index and   *)
(* deleting all data.  The service keeps its jobs and runs in memory.        *)
EXTENDS Naturals, Sequences

CONSTANTS
  Pages,
  Roots,
  Nil,
  Failure,     \* the answer of a request that failed
  MaxRuns, MaxJobs,    \* bounds
  Chances      \* bounds: how often a user clicks and a service stops

\* How a run stands, and what a request is told.
Standings == {"queued", "running", "completed", "partial", "cancelled", "failed", "busy", "lost"}

ASSUME SettingsAssumption ==
  /\ Nil # Failure /\ {Nil, Failure} \cap (Nat \cup Pages \cup Roots \cup Standings \cup {"ok"}) = {}
  /\ {MaxRuns, MaxJobs} \subseteq Nat /\ Chances \subseteq [clicks : Nat, stops : Nat]

VARIABLES
  local,       \* the service that runs, or ran last
  source,      \* the row of a source: absent, enabled or paused
  evidence,    \* the sources with events in the database
  runs,        \* run() calls; a run's number is its identity
  jobMap,      \* the job map of the routes; a job's number is its id
  view,        \* what a settings page shows
  request,     \* request[p][c]: what control c of page p waits for
  chances      \* the bounds this behaviour has left

database == <<source, evidence>>
server == <<local, runs, jobMap>>
settingsVars == <<server, database, view, request, chances>>

Controls == {"poll", "sources", "upkeep", "delete"}

-----------------------------------------------------------------------------
(* The service.                                                              *)

Going(r) == runs[r].state \in {"queued", "running"}
RunsOf(s) == {r \in DOMAIN runs : runs[r].source = s /\ runs[r].service = local.number}

\* IndexService.jobs: the last run of a source.
CurrentRun(s) == IF RunsOf(s) = {} THEN Nil ELSE CHOOSE r \in RunsOf(s) : \A q \in RunsOf(s) : q <= r
Busy(s) == CurrentRun(s) # Nil /\ Going(CurrentRun(s))
HasLease(s) == Busy(s) /\ runs[CurrentRun(s)].state = "running"
Settled == \A s \in Roots : ~Busy(s)

Paused == local.upkeep # Nil
AbortedRuns(these) == [r \in DOMAIN runs |-> IF r \in these THEN [runs[r] EXCEPT !.aborted = TRUE] ELSE runs[r]]

\* refresh: joins the live run of the source, or starts one.
Joined(s) == IF Busy(s) THEN CurrentRun(s) ELSE Len(runs) + 1
Refreshed(s) ==
  IF Busy(s) THEN runs
  ELSE Append(runs, [source |-> s, state |-> "queued", aborted |-> FALSE, service |-> local.number])

\* The 15-second timer.
TimerRefreshes(s) ==
  /\ local.up /\ local.data /\ ~Paused /\ source[s] = "enabled" /\ ~Busy(s) /\ Len(runs) < MaxRuns
  /\ runs' = Refreshed(s)
  /\ UNCHANGED <<local, jobMap, database, view, request, chances>>

\* The run has its slot and its lease.
StartReading(r) ==
  /\ runs[r].state = "queued" /\ ~runs[r].aborted /\ source[runs[r].source] = "enabled"
  /\ runs' = [runs EXCEPT ![r].state = "running"]
  /\ UNCHANGED <<local, jobMap, database, view, request, chances>>

StoreEvents(r) ==
  /\ runs[r].state = "running" /\ ~runs[r].aborted
  /\ evidence' = evidence \cup {runs[r].source}
  /\ UNCHANGED <<server, source, view, request, chances>>

Outcomes(r) ==
  IF runs[r].aborted THEN {"cancelled"}
  ELSE IF runs[r].state = "running" THEN {"completed", "partial", "failed"} ELSE {"busy", "failed"}

\* The run ends; in the same turn every job that waits for it records how.
RunEnds(r) ==
  /\ Going(r)
  /\ \E outcome \in Outcomes(r) :
       /\ runs' = [runs EXCEPT ![r].state = outcome]
       /\ jobMap' = [j \in DOMAIN jobMap |->
            IF jobMap[j].run = r THEN [jobMap[j] EXCEPT !.result = outcome] ELSE jobMap[j]]
  /\ UNCHANGED <<local, database, view, request, chances>>

Unfinished(s) == {j \in DOMAIN jobMap : jobMap[j].source = s /\ jobMap[j].kept /\ jobMap[j].result = Nil}

\* A finished job is dropped after ten minutes, or when the map is full.
Drop(j) ==
  /\ jobMap[j].kept /\ jobMap[j].result # Nil
  /\ jobMap' = [jobMap EXCEPT ![j].kept = FALSE]
  /\ UNCHANGED <<local, runs, database, view, request, chances>>

\* Weakened form: the state of the source is asked of the indexer first.
ProgressNow(j) ==
  IF CurrentRun(jobMap[j].source) # Nil THEN runs[CurrentRun(jobMap[j].source)].state ELSE jobMap[j].result
\* What a job answers: the result it recorded, before the state of its source.
Progress(j) ==
  IF jobMap[j].result # Nil THEN jobMap[j].result
  ELSE IF CurrentRun(jobMap[j].source) # Nil THEN runs[CurrentRun(jobMap[j].source)].state ELSE "queued"

-----------------------------------------------------------------------------
(* Requests: sent, at the service (waiting for a run there), answered.       *)

Quiet ==
  [stage |-> "idle", kind |-> Nil, source |-> Nil, job |-> Nil, service |-> Nil,
   answer |-> Nil, id |-> Nil, waits |-> Nil]
Asked(p, c) == request[p][c]
AtStage(p, c, stage) == Asked(p, c).stage = stage
Becomes(p, c, value) == request' = [request EXCEPT ![p][c] = value]

SendRequest(p, c, kind, s, j) ==
  Becomes(p, c, [Quiet EXCEPT !.stage = "sent", !.kind = kind, !.source = s, !.job = j, !.service = view[p].knows])
Reply(p, c, answer) == Becomes(p, c, [Asked(p, c) EXCEPT !.stage = "answered", !.answer = answer])
Deny(p, c) == Reply(p, c, Failure)
Accept(p, j) ==
  Becomes(p, "sources", [Asked(p, "sources") EXCEPT !.stage = "answered", !.answer = "ok", !.id = j])

\* A stopped service, a token of an earlier one, or a service that shuts down.
Unreachable(p, c) == ~local.up \/ ~local.data \/ Asked(p, c).service # local.number

Click(p, c, kind, s, j) ==
  /\ chances.clicks > 0 /\ chances' = [chances EXCEPT !.clicks = @ - 1]
  /\ AtStage(p, c, "idle") /\ SendRequest(p, c, kind, s, j)
  /\ UNCHANGED <<server, database, view>>

Arrives(p, c, kind) == AtStage(p, c, "sent") /\ Asked(p, c).kind = kind

Fail(p, c) ==
  /\ AtStage(p, c, "sent") /\ Unreachable(p, c)
  /\ Deny(p, c)
  /\ UNCHANGED <<server, database, view, chances>>

\* POST /sources: an upsert, refused while the source is leased.
UpsertSource(p) ==
  LET s == Asked(p, "sources").source IN
    /\ Arrives(p, "sources", "save") /\ ~Unreachable(p, "sources")
    /\ IF HasLease(s)
       THEN Deny(p, "sources") /\ UNCHANGED source
       ELSE Reply(p, "sources", "ok") /\ source' = [source EXCEPT ![s] = "enabled"]
    /\ UNCHANGED <<server, evidence, view, chances>>

\* POST /index-jobs: the unfinished job of the same source, or a new one; while
\* the indexer is paused its run fails at once.
IndexJob(p) ==
  LET s == Asked(p, "sources").source IN
    /\ Arrives(p, "sources", "index") /\ ~Unreachable(p, "sources")
    /\ IF source[s] # "enabled" THEN Deny(p, "sources") /\ UNCHANGED <<jobMap, runs>>
       ELSE IF Unfinished(s) # {}
       THEN Accept(p, CHOOSE j \in Unfinished(s) : TRUE) /\ UNCHANGED <<jobMap, runs>>
       ELSE /\ Len(jobMap) < MaxJobs /\ (~Paused /\ ~Busy(s) => Len(runs) < MaxRuns)
            /\ jobMap' = Append(jobMap, [source |-> s, kept |-> TRUE,
                                     run |-> IF Paused THEN Nil ELSE Joined(s),
                                     result |-> IF Paused THEN "failed" ELSE Nil])
            /\ runs' = IF Paused THEN runs ELSE Refreshed(s)
            /\ Accept(p, Len(jobMap'))
    /\ UNCHANGED <<local, database, view, chances>>

\* GET /index-jobs/:id.
JobStatus(p) ==
  LET j == Asked(p, "poll").job IN
    /\ Arrives(p, "poll", "status") /\ ~Unreachable(p, "poll")
    /\ IF jobMap[j].kept THEN Reply(p, "poll", Progress(j)) ELSE Deny(p, "poll")
    /\ UNCHANGED <<server, database, view, chances>>

\* cancelAndWait: aborts the run the source has now, and waits for that one.
AbortAndWait(p, s) ==
  /\ runs' = AbortedRuns({CurrentRun(s)} \ {Nil})
  /\ Becomes(p, "sources", [Asked(p, "sources") EXCEPT !.stage = "waiting", !.waits = CurrentRun(s)])

Over(p) ==
  /\ AtStage(p, "sources", "waiting")
  /\ Asked(p, "sources").waits # Nil => ~Going(Asked(p, "sources").waits)

\* DELETE /index-jobs/:id.
BeginCancel(p) ==
  LET j == Asked(p, "sources").job IN
    /\ Arrives(p, "sources", "cancel") /\ ~Unreachable(p, "sources")
    /\ IF ~jobMap[j].kept THEN Deny(p, "sources") /\ UNCHANGED runs
       ELSE IF jobMap[j].result # Nil
       THEN Becomes(p, "sources", [Asked(p, "sources") EXCEPT !.stage = "waiting"]) /\ UNCHANGED runs
       ELSE AbortAndWait(p, jobMap[j].source)
    /\ UNCHANGED <<local, jobMap, database, view, chances>>

EndCancel(p) ==
  /\ Over(p) /\ Asked(p, "sources").kind = "cancel"
  /\ jobMap' = [jobMap EXCEPT ![Asked(p, "sources").job].kept = FALSE]
  /\ Reply(p, "sources", "ok")
  /\ UNCHANGED <<local, runs, database, view, chances>>

\* DELETE /sources/:id.
BeginRemove(p) ==
  /\ Arrives(p, "sources", "remove") /\ ~Unreachable(p, "sources")
  /\ AbortAndWait(p, Asked(p, "sources").source)
  /\ UNCHANGED <<local, jobMap, database, view, chances>>

\* Weakened form: the configured row goes and its events stay.
RowAlone(s) == source' = [source EXCEPT ![s] = "absent"] /\ UNCHANGED evidence
Removed(s) == source' = [source EXCEPT ![s] = "absent"] /\ evidence' = evidence \ {s}

\* The transaction refuses while a run, maybe of another process, has the lease.
EndRemove(p) ==
  LET s == Asked(p, "sources").source IN
    /\ Over(p) /\ Asked(p, "sources").kind = "remove"
    /\ \/ Deny(p, "sources") /\ UNCHANGED database
       \/ source[s] # "absent" /\ local.data /\ ~HasLease(s) /\ Removed(s) /\ Reply(p, "sources", "ok")
    /\ UNCHANGED <<server, view, chances>>

\* POST /data/clear-index and /data/delete-all: one at a time, each pauses the
\* indexer, waits until no run is left, and resumes it in the end.
StartUpkeep(p, c) ==
  /\ c \in {"upkeep", "delete"} /\ AtStage(p, c, "sent") /\ ~Unreachable(p, c)
  /\ IF Paused THEN Deny(p, c) /\ UNCHANGED <<local, runs>>
     ELSE /\ local' = [local EXCEPT !.upkeep = p]
          /\ runs' = AbortedRuns({r \in DOMAIN runs : Going(r)})
          /\ Becomes(p, c, [Asked(p, c) EXCEPT !.stage = "waiting"])
  /\ UNCHANGED <<jobMap, database, view, chances>>

Unpaused == [local EXCEPT !.upkeep = Nil]

EndClear(p) ==
  /\ AtStage(p, "upkeep", "waiting") /\ Settled
  /\ local' = Unpaused
  /\ \/ Deny(p, "upkeep") /\ UNCHANGED database
     \/ /\ source' = [s \in Roots |-> IF source[s] = "absent" THEN "absent" ELSE "paused"]
        /\ evidence' = {} /\ Reply(p, "upkeep", "ok")
  /\ UNCHANGED <<runs, jobMap, view, chances>>

\* A deletion that fails half-way has closed the store as well.
EndDelete(p) ==
  /\ AtStage(p, "delete", "waiting") /\ Settled
  /\ \/ Deny(p, "delete") /\ local' = Unpaused /\ UNCHANGED database
     \/ Deny(p, "delete") /\ local' = [Unpaused EXCEPT !.data = FALSE] /\ UNCHANGED database
     \/ /\ local' = [Unpaused EXCEPT !.data = FALSE]
        /\ source' = [s \in Roots |-> "absent"] /\ evidence' = {}
        /\ Reply(p, "delete", "ok")
  /\ UNCHANGED <<runs, jobMap, view, chances>>

\* The process dies, or ends after a deletion; what it was asked fails.
ServiceStops ==
  /\ local.up /\ chances.stops > 0 /\ chances' = [chances EXCEPT !.stops = @ - 1]
  /\ local' = [Unpaused EXCEPT !.up = FALSE]
  /\ runs' = [r \in DOMAIN runs |-> IF Going(r) THEN [runs[r] EXCEPT !.state = "lost"] ELSE runs[r]]
  /\ jobMap' = [j \in DOMAIN jobMap |-> [jobMap[j] EXCEPT !.kept = FALSE]]
  /\ request' = [p \in Pages |-> [c \in Controls |->
       IF AtStage(p, c, "waiting")
       THEN [Asked(p, c) EXCEPT !.stage = "answered", !.answer = Failure] ELSE Asked(p, c)]]
  /\ UNCHANGED <<database, view>>

ServiceRestarts ==
  /\ ~local.up
  /\ local' = [number |-> local.number + 1, up |-> TRUE, data |-> TRUE, upkeep |-> Nil]
  /\ UNCHANGED <<runs, jobMap, database, view, request, chances>>

-----------------------------------------------------------------------------
(* The page.                                                                 *)

Display(p, shown) == view' = [view EXCEPT ![p] = shown]

AskAdd(p, s) == view[p].job = Nil /\ Click(p, "sources", "save", s, Nil)
AskCancel(p) == view[p].job # Nil /\ Click(p, "sources", "cancel", Nil, view[p].job)
AskRemove(p, s) == source[s] # "absent" /\ Click(p, "sources", "remove", s, Nil)
AskClear(p) == Click(p, "upkeep", "clear", Nil, Nil)
AskDelete(p) == view[p].deleted = Nil /\ Click(p, "delete", "delete", Nil, Nil)

AskStatus(p) ==
  /\ view[p].job # Nil /\ AtStage(p, "poll", "idle")
  /\ SendRequest(p, "poll", "status", Nil, view[p].job)
  /\ UNCHANGED <<server, database, view, chances>>

Words(outcome) == IF outcome \in {"busy", "partial"} THEN "partially completed" ELSE outcome

Told(p) ==
  LET r == Asked(p, "poll") IN
    /\ AtStage(p, "poll", "answered") /\ Becomes(p, "poll", Quiet)
    /\ IF r.answer = Failure THEN Display(p, [view[p] EXCEPT !.job = Nil, !.status = "unavailable"])
       ELSE IF r.answer \in {"queued", "running"} THEN Display(p, [view[p] EXCEPT !.status = "indexing"])
       ELSE Display(p, [view[p] EXCEPT !.job = Nil, !.status = Words(r.answer)])
    /\ UNCHANGED <<server, database, chances>>

\* The two requests of the form are one action; an answer ends every other.
FormAnswered(p) ==
  LET r == Asked(p, "sources")  failed == r.answer = Failure IN
    /\ AtStage(p, "sources", "answered")
    /\ IF r.kind = "save" /\ ~failed
       THEN SendRequest(p, "sources", "index", r.source, Nil) /\ UNCHANGED view
       ELSE /\ Becomes(p, "sources", Quiet)
            /\ IF r.kind = "index" /\ ~failed
               THEN Display(p, [view[p] EXCEPT !.job = r.id, !.followed = r.id, !.status = "indexing"])
               ELSE UNCHANGED view
    /\ UNCHANGED <<server, database, chances>>

Finished(p, c) ==
  /\ c \in {"upkeep", "delete"} /\ AtStage(p, c, "answered") /\ Becomes(p, c, Quiet)
  /\ IF Asked(p, c).answer = "ok" /\ c = "delete"
     THEN Display(p, [view[p] EXCEPT !.deleted = Asked(p, c).service]) ELSE UNCHANGED view
  /\ UNCHANGED <<server, database, chances>>

\* The link of a new service is pasted: the poll under way is abandoned.
PasteLink(p) ==
  /\ local.up /\ view[p].knows # local.number
  /\ Display(p, [view[p] EXCEPT !.knows = local.number]) /\ Becomes(p, "poll", Quiet)
  /\ UNCHANGED <<server, database, chances>>

-----------------------------------------------------------------------------
SettingsInit ==
  /\ local = [number |-> 1, up |-> TRUE, data |-> TRUE, upkeep |-> Nil]
  /\ source = [s \in Roots |-> "absent"] /\ evidence = {}
  /\ runs = <<>> /\ jobMap = <<>>
  /\ view = [p \in Pages |-> [knows |-> 1, job |-> Nil, followed |-> Nil, status |-> "", deleted |-> Nil]]
  /\ request = [p \in Pages |-> [c \in Controls |-> Quiet]]
  /\ chances \in Chances

SettingsNext ==
  \/ \E r \in DOMAIN runs : StartReading(r) \/ StoreEvents(r) \/ RunEnds(r)
  \/ \E s \in Roots : TimerRefreshes(s) \/ \E p \in Pages : AskAdd(p, s) \/ AskRemove(p, s)
  \/ \E j \in DOMAIN jobMap : Drop(j)
  \/ \E p \in Pages : AskCancel(p) \/ AskClear(p) \/ AskDelete(p) \/ AskStatus(p)
  \/ \E p \in Pages : Told(p) \/ FormAnswered(p) \/ PasteLink(p)
  \/ \E p \in Pages : UpsertSource(p) \/ IndexJob(p) \/ JobStatus(p) \/ BeginCancel(p) \/ EndCancel(p)
  \/ \E p \in Pages : BeginRemove(p) \/ EndRemove(p) \/ EndClear(p) \/ EndDelete(p)
  \/ \E p \in Pages : \E c \in Controls : Fail(p, c) \/ StartUpkeep(p, c) \/ Finished(p, c)
  \/ ServiceStops \/ ServiceRestarts

SettingsSpec == SettingsInit /\ [][SettingsNext]_settingsVars

-----------------------------------------------------------------------------
(* Properties                                                                *)

\* The status a page ends with is how the run ended that served its request,
\* whatever later runs of the source, other pages and restarts do.
StatusIsOfItsRun ==
  \A p \in Pages :
    view[p].status \in {"completed", "partially completed", "cancelled", "failed"} =>
      LET job == jobMap[view[p].followed] IN
        view[p].status = IF job.run = Nil THEN "failed" ELSE Words(runs[job.run].state)

\* Cancelling has waited for the end of the run, and what was removed left no
\* events behind; a page that says the data are deleted is right, and so is one
\* that has an answer from a service.
AnswersHold ==
  /\ \A p \in Pages :
       AtStage(p, "sources", "answered") /\ Asked(p, "sources").kind = "cancel" /\ Asked(p, "sources").answer = "ok" =>
         LET job == jobMap[Asked(p, "sources").job] IN job.run = Nil \/ ~Going(job.run)
  /\ \A s \in Roots : source[s] = "absent" => s \notin evidence
  /\ \A p \in Pages : view[p].deleted = local.number => ~local.data /\ evidence = {}

SettingsTruthful == StatusIsOfItsRun /\ AnswersHold
=============================================================================
