--------------------------- MODULE IndexScheduler ---------------------------
(* One IndexService (indexing/service.ts) with its two-slot ReadSlots queue  *)
(* (indexing/scheduler.ts) inside the local server: refresh runs of several  *)
(* sources, cancellation, revocation of a source, the maintenance routes     *)
(* that pause the service, and shutdown.  One step is one turn of the event  *)
(* loop, which nothing of this service interrupts.  Other processes on the   *)
(* same database take and drop leases and change sources at any time, also   *)
(* within the turn in which a run looks at its source and then takes its     *)
(* lease: these are two steps.  What a run reads and commits is the subject  *)
(* of IndexCommit.                                                           *)
EXTENDS FiniteSets, Naturals

CONSTANTS
  Sources,     \* configured source ids
  Runs,        \* identities of run() calls; reused once nothing refers to them
  Foreign,     \* lease owner: a run of another process
  Nobody,      \* no lease, no run
  Idle,        \* queue entry of a run that is not waiting
  Capacity,    \* read slots of a service and leases of a database (2 in the code)
  Requests,    \* bound: the kinds of outside event an instance exercises
  Touched      \* bound: the sources that are revoked or whose settings change

ASSUME SchedulerAssumption ==
  /\ IsFiniteSet(Runs) /\ Capacity \in Nat \ {0}
  /\ Runs \cap {Nobody, Foreign} = {}
  /\ \A waiters \in SUBSET Runs : Idle # waiters
  /\ Requests \subseteq {"cancel", "settings", "revoke", "upkeep", "stop", "foreign", "elsewhere"}

VARIABLES
  run,       \* run[r]: source, pc and abort signal of one run() call; and, for
             \* the properties, whether another process disabled the source
             \* between the look at it and the lease
  jobs,      \* jobs[s]: the run the service's map holds for source s
  active,    \* ReadSlots.active
  ahead,     \* ReadSlots.queue: for a waiter, the waiters pushed before it
  lease,     \* index_leases: who holds the lease of a source
  enabled,   \* sources.enabled; FALSE as well for a source that was revoked
  revoking,  \* revoking[s]: the run a DELETE /sources/:id waits for
  paused, stopping, open,  \* service flags, and whether the store is open
  timer,     \* the 15-second refresh timer is set
  upkeep     \* "none", or the maintenance route waiting for pause()

vars == <<run, jobs, active, ahead, lease, enabled, revoking, paused,
          stopping, open, timer, upkeep>>

service == <<paused, stopping, open, timer, upkeep>>
slots == <<active, ahead>>

Pcs == {"idle", "deferred", "waiting", "granted", "entered", "looked", "reading", "rejected"}
Upkeep == {"none", "clear", "delete"}

Live == {r \in Runs : run[r].pc # "idle"}
Waiting == {r \in Runs : run[r].pc = "waiting"}
Holders == {r \in Runs : run[r].pc \in {"granted", "entered", "looked", "reading"}}
Leased == {s \in Sources : lease[s] # Nobody}
Current == {jobs[s] : s \in Sources} \ {Nobody}

-----------------------------------------------------------------------------
Left(queue, gone) ==
  [r \in Runs |-> IF r \in gone \/ queue[r] = Idle THEN Idle ELSE queue[r] \ gone]

\* run once the signals of the runs in these are aborted: the abort listener
\* of a queued waiter takes it out of the queue and rejects it.
Aborted(these) ==
  [r \in Runs |-> IF r \notin these \cap Live THEN run[r]
                  ELSE [run[r] EXCEPT !.aborted = TRUE,
                                      !.pc = IF @ = "waiting" THEN "rejected" ELSE @]]

Abort(these) ==
  /\ run' = Aborted(these)
  /\ ahead' = Left(ahead, these \cap Waiting)

\* Weakened form: active is decremented although a waiter got the slot.
HandoffAndFree(after) ==
  /\ active' = active - 1
  /\ IF Waiting = {}
     THEN /\ run' = after
          /\ UNCHANGED ahead
     ELSE \E next \in Waiting :
            /\ ahead[next] = {}
            /\ run' = [after EXCEPT ![next].pc = "granted"]
            /\ ahead' = Left(ahead, {next})

\* Weakened form: the slot goes back to the pool and nobody is woken.
HandoffToNobody(after) ==
  /\ active' = active - 1
  /\ run' = after
  /\ UNCHANGED ahead

\* release(): the slot goes to the longest waiter before it resumes, or back
\* to the pool.  after is run with the releasing run already moved on.
Handoff(after) ==
  IF Waiting = {}
  THEN /\ active' = active - 1
       /\ run' = after
       /\ UNCHANGED ahead
  ELSE \E next \in Waiting :
         /\ ahead[next] = {}
         /\ run' = [after EXCEPT ![next].pc = "granted"]
         /\ ahead' = Left(ahead, {next})
         /\ UNCHANGED active

NoRun == [source |-> Nobody, pc |-> "idle", aborted |-> FALSE, overtaken |-> FALSE]

Ended(r) == [run EXCEPT ![r] = NoRun]

Init ==
  /\ run = [r \in Runs |-> NoRun]
  /\ jobs = [s \in Sources |-> Nobody]
  /\ active = 0
  /\ ahead = [r \in Runs |-> Idle]
  /\ lease = [s \in Sources |-> Nobody]
  /\ enabled = [s \in Sources |-> TRUE]
  /\ revoking = [s \in Sources |-> Nobody]
  /\ paused = FALSE /\ stopping = FALSE /\ open = TRUE
  /\ timer \in BOOLEAN
  /\ upkeep = "none"

-----------------------------------------------------------------------------
(* refresh(): coalesces with a live run of the source, else starts one       *)
Unreferenced ==
  Runs \ (Live \cup Current \cup {revoking[s] : s \in Sources} \cup {lease[s] : s \in Sources})

\* Weakened form: a run that is still queued is not joined.
CoalescedWhenReading(s) == jobs[s] # Nobody /\ run[jobs[s]].pc = "reading"

Coalesced(s) == jobs[s] # Nobody /\ run[jobs[s]].pc # "idle"

Accepting == ~paused /\ ~stopping

Start(s) ==
  /\ Accepting
  /\ ~Coalesced(s)
  /\ \E r \in Unreferenced :
       /\ run' = [run EXCEPT ![r] = [NoRun EXCEPT !.source = s, !.pc = "deferred"]]
       /\ jobs' = [jobs EXCEPT ![s] = r]
  /\ UNCHANGED <<slots, lease, enabled, revoking, service>>

\* A client asks for one source, or the timer for every enabled one.
Refresh(s) == Start(s)
Tick(s) == timer /\ enabled[s] /\ Start(s)

-----------------------------------------------------------------------------
(* The turns of one run                                                      *)

\* The deferred call reaches ReadSlots.acquire.
Acquire(r) ==
  /\ run[r].pc = "deferred"
  /\ IF run[r].aborted
     THEN /\ run' = Ended(r)
          /\ UNCHANGED slots
     ELSE IF active >= Capacity
     THEN /\ run' = [run EXCEPT ![r].pc = "waiting"]
          /\ ahead' = [ahead EXCEPT ![r] = Waiting]
          /\ UNCHANGED active
     ELSE /\ run' = [run EXCEPT ![r].pc = "entered"]
          /\ active' = active + 1
          /\ UNCHANGED ahead
  /\ UNCHANGED <<jobs, lease, enabled, revoking, service>>

\* Weakened form: an aborted waiter keeps the slot it was given.
ResumeUnchecked(r) ==
  /\ run[r].pc = "granted"
  /\ run' = IF run[r].aborted THEN Ended(r) ELSE [run EXCEPT ![r].pc = "entered"]
  /\ UNCHANGED <<slots, jobs, lease, enabled, revoking, service>>

\* A waiter that was given a slot resumes; its signal may be aborted by now.
Resume(r) ==
  /\ run[r].pc = "granted"
  /\ IF run[r].aborted
     THEN Handoff(Ended(r))
     ELSE run' = [run EXCEPT ![r].pc = "entered"] /\ UNCHANGED slots
  /\ UNCHANGED <<jobs, lease, enabled, revoking, service>>

LeaseFree(s) == lease[s] = Nobody /\ Cardinality(Leased) < Capacity

\* run() continues with its slot: the signal, and the row of its source.
LookUp(r) ==
  /\ run[r].pc = "entered"
  /\ IF ~run[r].aborted /\ enabled[run[r].source]
     THEN run' = [run EXCEPT ![r].pc = "looked"] /\ UNCHANGED slots
     ELSE Handoff(Ended(r))
  /\ UNCHANGED <<jobs, lease, enabled, revoking, service>>

\* In the same turn it takes its lease, which does not look at the settings
\* again, and begins to read; or the source is busy, or was revoked by now, so
\* that there is no row that a lease could refer to.
TakeLease(r) ==
  LET s == run[r].source IN
  /\ run[r].pc = "looked"
  /\ \/ /\ LeaseFree(s)
        /\ lease' = [lease EXCEPT ![s] = r]
        /\ run' = [run EXCEPT ![r].pc = "reading"]
        /\ UNCHANGED slots
     \/ /\ ~LeaseFree(s) \/ run[r].overtaken
        /\ Handoff(Ended(r))
        /\ UNCHANGED lease
  /\ UNCHANGED <<jobs, enabled, revoking, service>>

\* A queued waiter whose signal fired rejects.
Reject(r) ==
  /\ run[r].pc = "rejected"
  /\ run' = Ended(r)
  /\ UNCHANGED <<slots, jobs, lease, enabled, revoking, service>>

\* The reading run ends: done, failed, or its signal seen at the next check.
\* Deleting the lease row may fail; the row then stays until it expires.
Settle(r) ==
  LET s == run[r].source IN
  /\ run[r].pc = "reading"
  /\ Handoff(Ended(r))
  /\ lease' \in {lease, [lease EXCEPT ![s] = IF @ = r THEN Nobody ELSE @]}
  /\ UNCHANGED <<jobs, enabled, revoking, service>>

\* The heartbeat finds the lease gone and aborts the job of its source.
HeartbeatFails(r) ==
  /\ run[r].pc = "reading"
  /\ lease[run[r].source] # r
  /\ Abort({jobs[run[r].source]})
  /\ UNCHANGED <<active, jobs, lease, enabled, revoking, service>>

-----------------------------------------------------------------------------
(* Other processes: their leases, expiry, and what they do to sources        *)
ForeignLease(s) ==
  /\ "foreign" \in Requests
  /\ LeaseFree(s)
  /\ lease' = [lease EXCEPT ![s] = Foreign]
  /\ UNCHANGED <<run, jobs, slots, enabled, revoking, service>>

\* The row is deleted by its owner, or its 30 seconds are over.
LeaseGone(s) ==
  /\ "foreign" \in Requests
  /\ lease[s] # Nobody
  /\ lease' = [lease EXCEPT ![s] = Nobody]
  /\ UNCHANGED <<run, jobs, slots, enabled, revoking, service>>

\* Whoever has looked at a source does not see what is made of it now.
Resettle(settings) ==
  /\ enabled' = settings
  /\ run' = [r \in Runs |->
               IF run[r].pc = "looked"
               THEN [run[r] EXCEPT !.overtaken = ~settings[run[r].source]]
               ELSE run[r]]
  /\ UNCHANGED <<jobs, slots, lease, revoking, service>>

\* Another process saves or revokes a source that has no lease ...
ChangedElsewhere(s) ==
  /\ "elsewhere" \in Requests /\ s \in Touched
  /\ lease[s] = Nobody
  /\ \E on \in BOOLEAN : Resettle([enabled EXCEPT ![s] = on])

\* ... or clears the index, which disables every source.
ClearedElsewhere ==
  /\ "elsewhere" \in Requests
  /\ Leased = {}
  /\ Resettle([s \in Sources |-> FALSE])

-----------------------------------------------------------------------------
(* Requests that stop runs                                                   *)

Cancel(s) ==
  /\ "cancel" \in Requests
  /\ jobs[s] # Nobody
  /\ Abort({jobs[s]})
  /\ UNCHANGED <<active, jobs, lease, enabled, revoking, service>>

\* saveSource: refused while the source has a lease.
SaveSource(s) ==
  /\ "settings" \in Requests /\ s \in Touched
  /\ open
  /\ lease[s] = Nobody
  /\ \E on \in BOOLEAN : enabled' = [enabled EXCEPT ![s] = on]
  /\ UNCHANGED <<run, jobs, slots, lease, revoking, service>>

\* revokeSource: the transaction refuses while the source has a lease.
Revoked(s) ==
  IF open /\ lease[s] = Nobody THEN [enabled EXCEPT ![s] = FALSE] ELSE enabled

\* DELETE /sources/:id: cancelAndWait, then revokeSource.
BeginRevoke(s) ==
  /\ "revoke" \in Requests /\ s \in Touched
  /\ open /\ ~stopping
  /\ revoking[s] = Nobody
  /\ IF jobs[s] = Nobody
     THEN /\ enabled' = Revoked(s)
          /\ UNCHANGED <<run, ahead, revoking>>
     ELSE /\ Abort({jobs[s]})
          /\ revoking' = [revoking EXCEPT ![s] = jobs[s]]
          /\ UNCHANGED enabled
  /\ UNCHANGED <<active, jobs, lease, service>>

\* Weakened form: waits for whatever run the source has by now.
FinishRevokeOnceQuiet(s) ==
  /\ revoking[s] # Nobody
  /\ jobs[s] \notin Live
  /\ revoking' = [revoking EXCEPT ![s] = Nobody]
  /\ enabled' = Revoked(s)
  /\ UNCHANGED <<run, jobs, slots, lease, service>>

FinishRevoke(s) ==
  /\ revoking[s] # Nobody
  /\ revoking[s] \notin Live
  /\ revoking' = [revoking EXCEPT ![s] = Nobody]
  /\ enabled' = Revoked(s)
  /\ UNCHANGED <<run, jobs, slots, lease, service>>

-----------------------------------------------------------------------------
(* Maintenance routes and shutdown                                           *)

\* Weakened form: a run that is still queued is not waited for.
NoneReading == \A r \in Current : run[r].pc # "reading"

AllSettled == Current \cap Live = {}

BeginUpkeep(kind) ==
  /\ "upkeep" \in Requests
  /\ open /\ ~stopping
  /\ upkeep = "none"
  /\ upkeep' = kind
  /\ paused' = TRUE /\ timer' = FALSE
  /\ Abort(Current)
  /\ UNCHANGED <<active, jobs, lease, enabled, revoking, stopping, open>>

\* resume(), the routes' finally: sets the timer unless the service stopped.
Resumed ==
  /\ paused' = (paused /\ stopping)
  /\ timer' = ~stopping

\* clearIndex disables every source; it refuses while a lease is valid or a
\* launch is unsettled.  Either way the route resumes the service.
ClearIndex ==
  /\ upkeep = "clear" /\ AllSettled
  /\ upkeep' = "none"
  /\ Resumed
  /\ \/ UNCHANGED enabled
     \/ open /\ Leased = {} /\ enabled' = [s \in Sources |-> FALSE]
  /\ UNCHANGED <<run, jobs, slots, lease, revoking, stopping, open>>

\* deleteAll needs the access registry to itself; once it has succeeded the
\* store is closed and the service is never resumed.
DeleteAll ==
  /\ upkeep = "delete" /\ AllSettled
  /\ upkeep' = "none"
  /\ \/ /\ open /\ Leased = {}
        /\ open' = FALSE
        /\ UNCHANGED <<paused, timer>>
     \/ /\ IF open THEN Resumed ELSE UNCHANGED <<paused, timer>>
        /\ UNCHANGED open
  /\ UNCHANGED <<run, jobs, slots, lease, enabled, revoking, stopping>>

Stop ==
  /\ "stop" \in Requests
  /\ ~stopping
  /\ stopping' = TRUE /\ timer' = FALSE
  /\ Abort(Current)
  /\ UNCHANGED <<active, jobs, lease, enabled, revoking, paused, open, upkeep>>

CloseStore ==
  /\ stopping /\ open /\ AllSettled
  /\ open' = FALSE
  /\ UNCHANGED <<run, jobs, slots, lease, enabled, revoking, paused, stopping, timer, upkeep>>

-----------------------------------------------------------------------------
\* Some run is between its look and its lease: nothing else of this service
\* happens until it has gone on.
MidTurn == \E r \in Runs : run[r].pc = "looked"

Turn(r) == Acquire(r) \/ Resume(r) \/ LookUp(r) \/ Reject(r) \/ Settle(r)

\* What this service does, a turn at a time.
Serve ==
  \/ \E r \in Runs : Turn(r) \/ HeartbeatFails(r)
  \/ \E s \in Sources : Refresh(s) \/ Tick(s) \/ Cancel(s) \/ SaveSource(s)
  \/ \E s \in Sources : BeginRevoke(s) \/ FinishRevoke(s)
  \/ \E kind \in Upkeep \ {"none"} : BeginUpkeep(kind)
  \/ ClearIndex \/ DeleteAll \/ Stop \/ CloseStore

\* What other processes do to the database.
Elsewhere ==
  \/ \E s \in Sources : ForeignLease(s) \/ LeaseGone(s) \/ ChangedElsewhere(s)
  \/ ClearedElsewhere

Next ==
  \/ ~MidTurn /\ Serve
  \/ \E r \in Runs : TakeLease(r)
  \/ Elsewhere

Spec == Init /\ [][Next]_vars

\* The event loop runs every turn that is due, and a read ends: an adapter
\* reads a bounded file in bounded pages and looks at the signal in between.
EventLoop ==
  /\ \A r \in Runs : WF_vars(Turn(r)) /\ WF_vars(TakeLease(r))
  /\ \A s \in Sources : WF_vars(FinishRevoke(s))
  /\ WF_vars(ClearIndex) /\ WF_vars(DeleteAll) /\ WF_vars(CloseStore)

FairSpec == Spec /\ EventLoop

-----------------------------------------------------------------------------
(* Properties                                                                *)

TypeOK ==
  /\ run \in [Runs -> [source : Sources \cup {Nobody}, pc : Pcs, aborted : BOOLEAN, overtaken : BOOLEAN]]
  /\ jobs \in [Sources -> Runs \cup {Nobody}]
  /\ active \in Nat
  /\ ahead \in [Runs -> (SUBSET Runs) \cup {Idle}]
  /\ lease \in [Sources -> Runs \cup {Nobody, Foreign}]
  /\ enabled \in [Sources -> BOOLEAN]
  /\ revoking \in [Sources -> Runs \cup {Nobody}]
  /\ <<paused, stopping, open, timer>> \in BOOLEAN \X BOOLEAN \X BOOLEAN \X BOOLEAN
  /\ upkeep \in Upkeep

\* ReadSlots never loses or duplicates a slot: active counts exactly the runs
\* that hold one, a waiter handed a slot in release() included, whichever way
\* aborts, resumptions and releases interleave.
SlotAccounting == active = Cardinality(Holders) /\ active <= Capacity

\* refresh() coalesces: the service never has two live runs of one source, so
\* the map entry that cancel, pause and stop abort is the only live run.
OneRunPerSource ==
  \A r, q \in Live : run[r].source = run[q].source => r = q

\* clear-index and delete-all take effect only when pause() has drained the
\* service: no run is queued, waiting or reading at that moment.
UpkeepRunsAlone ==
  [][upkeep # "none" /\ upkeep' = "none" => Live = {}]_vars

\* After stop() or delete-all has closed the store no run is left that could
\* still call it, and none ever starts.
ClosedStoreUntouched == ~open => Live = {}

\* A run that reads under a valid lease reads a source that is configured and
\* enabled, unless another process disabled it between the run's look and its
\* lease.  Nothing this service does can come in between, and from the lease on
\* settings, revocation and clear-index wait, in every process.
DisabledSourceNotRead ==
  \A r \in Runs :
    run[r].pc = "reading" /\ lease[run[r].source] = r
      => enabled[run[r].source] \/ run[r].overtaken

\* Whatever settings, maintenance and shutdown do around them, runs stay
\* where they belong: each slot accounted for, one run per source, while the
\* store is open, and of sources that only another process could have disabled.
RunsContained == SlotAccounting /\ OneRunPerSource /\ ClosedStoreUntouched /\ DisabledSourceNotRead

\* Every refresh that was accepted settles: no run waits for ever in the
\* queue, whatever is cancelled around it.
RunSettles == \A r \in Runs : r \in Live ~> r \notin Live

\* Every refresh settles, a maintenance request is answered, a revocation is
\* answered, and shutdown closes the store.
RequestsEnd ==
  /\ RunSettles
  /\ upkeep # "none" ~> upkeep = "none"
  /\ stopping ~> ~open
  /\ \A s \in Sources : revoking[s] # Nobody ~> revoking[s] = Nobody

\* ReadSlots keeps the promise of SlotPool: a slot given back while somebody
\* waits goes to the run that has waited longest, nobody waits beside an idle
\* slot, and an aborted waiter leaves the queue.
Pool == INSTANCE SlotPool WITH
  Clients <- Runs, holding <- Holders, NotWaiting <- Idle

ImplementsSlotPool == Pool!Spec
=============================================================================
