# ThreadPort in TLA+

ThreadPort is a local program: a command line, a server on the loopback
interface and a web page over one SQLite database in an application data
directory. It indexes the session logs of coding agents, keeps tasks, decisions
and handoffs about them, and starts an agent on a prepared handoff. Several of
its processes may run at once; they share nothing but the database and the file
system.

This directory holds TLA+ specifications of the parts in which those processes,
their callbacks and their failures interleave, TLC configurations that check
them on small instances, and TLAPS proofs for every size. `PROJECT.json` maps
each definition to the lines it models.

    tlc -workers 2 -config Handoff.cfg MCHandoff
    tlapm HandoffLaunch_proofs.tla

1 inventory, 2 plan, 3 modules, 4 runs, 5 fairness, 6 findings, 7 proofs,
8 what is not modelled.

## 1. Inventory

"State" is what survives between calls; paths are below `src/src/` unless they
say otherwise.

| component | state | operations | what is hard | what makes it correct |
|---|---|---|---|---|
| Launch coordination: `storage/launch-store.ts`, `targets/launch.ts`, `cli-continue.ts`, `cli-recovery.ts` | `handoffs`, `launch_attempts`, `workspace_runs`, `run_recoveries`; one process tree per launch | review, confirm, claim, spawn, finish; reconcile, recover; prune | processes race through transactions with awaits between; observer and target may die anywhere; the identity of a process is a probe that may fail | one reservation per workspace root; the agent starts what the user read; outcomes have evidence; nothing stays reserved for ever |
| Handoff approval: `handoff/confirm.ts`, `storage/handoff-store.ts`, `targets/review.ts` | state, approval and revision of a handoff | confirm in a terminal or a browser, decline, authorise a plan | a capture is awaited between read and write | declining is final, one launch per handoff |
| Execution observations: `storage/observation-store.ts` | `execution_observations` | start, spawned, finish | the capacity is checked in one transaction and used in another | never more than the capacity, no end before the end |
| Handoff preparation: `handoff/prepare.ts`, `handoff/evidence.ts`, `targets/prepare.ts` | `handoffs` | prepare, preview | everything it reads changes while it awaits | a preview says what was so, and is void when that changes |
| Read slots and the index service: `indexing/scheduler.ts`, `indexing/service.ts` | in memory: active, queue, jobs, flags, timer | acquire, release, abort; refresh, cancel, pause, resume, stop | callbacks of one event loop in any order | no slot lost or given twice, first come first served, maintenance runs alone |
| Index commits: `storage/index-store.ts`, `indexing/service.ts` | `source_cursors`, `events`, `index_leases` | lease, renew, commit a batch, reset, tombstone | read outside, commit inside; leases expire; logs change under the reader | the index is a prefix of one version of the log; progress is kept; the index catches up |
| Log sources: `sources/*.ts` | cursors with a checkpoint of head and tail | read a page, classify a change | a file rewritten while it is read | a page belongs to one version |
| Maintenance requests: `server/data-routes.ts`, `business-routes.ts`, `app.ts` | jobs and runs in memory | clear index, delete all, revoke, save settings, shut down | they wait for runs that others keep starting | alone, and answered |
| Retention: `storage/maintenance.ts` | none of its own | prune attempts, handoffs, snapshots, index | removes rows that others still need | an unsettled launch keeps its rows |
| Data directory: `storage/access.ts`, `database.ts`, `delete-data.ts` | registry of connections, database file, backups | open, upgrade, close, delete | several processes and crashes against a deletion in many file steps | deletion is alone; one database; nothing acknowledged is lost |
| Schema migrations: `storage/migrations.ts` | `user_version`, backup directories | backup, migrate | two processes upgrade at once | once, behind a complete backup |
| Takeover: `control-plane/takeover.ts` | records in memory | request, confirm, fix, succeed, activate, close | an answer races with a deadline and with every later step | one per run; a stop is not undone, nothing closed revives |
| Receipts and manifests: `storage/control-plane-store.ts`, `control-plane/receipts.ts` | `context_manifests`, `handoff_receipts`, `receipt_attestations` | save, attest, confirm, read | repeated delivery, reused nonces, older rows, a clock that is set back | only what was attested to is confirmed, and it stays so |
| Control events: `storage/control-plane-store.ts`, `control-plane/reducer.ts`, `import.ts`, `ingest.ts` | `control_events`, their projection | append, import, authorise, project | duplicates, late and imported events | imported events never shape trusted state |
| Tasks: `tasks/service.ts`, `storage/sqlite-store.ts` | tasks, sessions, history, baseline | create, save, attach, complete, archive | revision conflicts; what was seen when a task was completed | no lost edit, every later event is activity |
| Assertions: `storage/assertion-store.ts`, `assertions/compile.ts` | versions of entries, their disputes | propose, confirm, replace, dispute, retire | several editors | nothing retired comes back, nothing disputed is told |
| History search: `storage/search-store.ts`, `search-projection.ts` | projection, dirty set, generation | rebuild, search, page | a page continued after a change | a page is a slice of one result |
| Workspace snapshots: `workspace/*.ts` | none | capture, compare | files change while they are hashed | the files of a snapshot were there at one moment, or it says they were not |
| Evidence and derivation: `evidence/*.ts`, `domain/*.ts` | none | pure functions of what was read | order, redaction, missing ends | nothing unseen is called so |
| Export files: `platform/atomic-write.ts` | files | write, link, rename, unlink | several writers, a crash between steps | a file is whole or absent |
| Web page: `src/web/src/*` | request, editor and draft state | load, reconnect, edit, recover a draft, confirm | late and lost answers | an answer is shown for its own question only |
| Certification harness: `src/scripts/agent-certification/*` | the files of an experiment | prepare, drift, judge, validate | an agent and an operator change the files meanwhile; commands are killed | only a whole experiment of its own counts as complete |
| Adapters, redaction, rendering, option parsing | none | text to text | - | not modelled: no state |

Interaction. Everything durable goes through `BEGIN IMMEDIATE` transactions of
SQLite, so a transaction is one atomic step here and everything around an
`await` is not. Within one process the code between two awaits is one turn of
the event loop and is one step, unless a turn makes two accesses to the database
and what another process does between them matters: a run that looks at its
source and then takes its lease (`IndexScheduler`), and the page of the ledger
(`stale_ledger`, section 6). The file system, the agents, other programs and the
user act between any two steps.

## 2. Plan

Done, in this order: launches and their reservation (`WorkspaceReservation`,
`HandoffLaunch`), the index (`SlotPool`, `IndexScheduler`, `IndexCommit`, then
`LogReader` below it), the data directory, takeovers, receipts, the event ledger
and its replay (`ControlLedger`, `ReceiptReplay`), the Workbench (`TaskStore`,
`AssertionLedger`, `HistorySearch`, composed by `Workbench`), captures, exports,
evidence and derivation, the pages (`WebClient`, `ContinuePage`, `SettingsPage`),
and the certification harness. The safety properties of the launch, the index,
the data directory, publication, evidence, takeovers, receipts, the Workbench,
captures, the pages and the certification harness are proved; section 7 says
which are not and why.

Left: models of `scripts/local-validation-runner.mjs` and of the parts the
component list calls partly modelled.

## 3. Modules

### WorkspaceReservation and HandoffLaunch

`WorkspaceReservation` is the promise: a workspace root has at most one holder,
the holder keeps it while its agent works, and only the end of that agent or an
explicit override frees it.

`HandoffLaunch` models the whole launch. One constant `Cli` process is one
`threadport continue`: it reviews one handoff once, so it also names the plan it
froze (whose nonce is fresh), the attempt it claims and that attempt's
`workspace_runs` row. `pc` follows `cli-continue.ts` and `targets/launch.ts`
await by await; each transaction of `launch-store.ts`, `handoff-store.ts` and
`observation-store.ts` is one action with all its early returns. `Leave(p)`
covers every way out before the claim, a crash at any point after it, and a
final store call that throws. `basis` says whether the task, the source, the
workspace and the clock still match the handoff; it drifts at any time, and is
read only where the code reads it. What a record contains is one version.

Other actors: a browser that confirms (`webConfirm` is the confirmation between
its capture and its write), an operator who inspects and recovers, retention.
`LiveProbe` and `DeadProbe` are the answers the identity probe may give about a
live and about a dead process: both contain both values where a probe may err
(a start time of one-second resolution, a reused pid, no permission).
`HonestOperator` restricts the recovery command to true attestations.

### ContinuePage and WorkspaceCapture

`ContinuePage` is the page from which a handoff is prepared and confirmed, with
`handoff/prepare.ts` and `handoff/confirm.ts` behind it: requests may be lost,
their answers too, and be repeated; the task, the source, the workspace and the
clock change meanwhile. Here a capture of the workspace is one moment, and the
synchronous reads of one preparation are one step. After a reconnect the page
may fall back to another default mode when the capabilities of the target
changed (`docs/v0.2/13-local-server.md:94`); the model leaves the mode alone.

`WorkspaceCapture` is that capture, one git command and one file at a time,
read twice, retried once, and compared later. `past` is every state the
workspace was in, so that "one moment" can be said. It is one for the files that
were hashed: a stamp that is the same before and after shows that nothing
happened in between. A file that is missing whenever it is looked for may have
existed between two looks, and HEAD, the index and the list of untracked files
are each true of a moment of their own; `docs/v0.2/12-workspace-verification.md:37`
calls the digest best-effort and no atomic snapshot. The property says that much
and no more. With two changes to the workspace a stronger one would hold as well
(all of it at one moment); six changes refute it.

### SlotPool and IndexScheduler

`SlotPool` is the promise of `scheduler.ts`: at most `Capacity` holders, and a
freed slot goes to whoever has waited longest. `IndexScheduler` is one
`IndexService` inside the server: refreshes (by request and by the timer), the
map of jobs, the slot queue, leases, cancellation, revocation of a source,
`pause`/`resume` for the maintenance routes, and `stop`. One step is one turn of
the event loop, except that a run looks at the row of its source (`LookUp`,
`service.ts:36`) and takes its lease (`TakeLease`, `:37`) in two steps: they are
two accesses to the database. Nothing else of this service happens between them
(`MidTurn`), but other processes (`Elsewhere`) save, disable, revoke or clear. A
slot handed over by `release()` is held from that turn on,
though the waiter continues in a later one (`granted`), and an abort may come
between them. The queue is kept as `ahead`, the set of earlier waiters of each
waiter, which is the order of the array without its indexes. `Runs` are
identities of `run()` calls, used again when nothing refers to them.

Observed: `acquireIndexLease` (`index-store.ts:32-39`) does not ask again whether
the source is enabled, so a source that another process disables between the two
steps, or of which it clears the index there, is read once more. (One that it
revokes there has no row a lease could refer to: the insertion fails.) No
sentence of the repository excludes it. `overtaken` is a history variable that
marks such a run, and `RunsContained` says that a run which holds its lease reads
an enabled source or was overtaken: this service's own settings, revocation,
maintenance and shutdown never leave that window, whatever their order.

### IndexCommit and LogReader

`IndexCommit` is one session log and the index runs of several processes. `Read`
is a page of the log outside any transaction, `Commit` the transaction of
`commitIndexPage` with its lease check and its compare-and-set on the stored
cursor; batches span several pages. A record of the log is one event, whose id
depends on position and content; a cursor is the file's identity and the prefix
consumed, which is what the checkpoint hashes stand for as long as the log fits
the hashed windows. Between any two steps the log grows, is rewritten in place,
replaced or removed, leases expire, runs crash or are cancelled, the index is
cleared (with the re-enabling that follows a revocation) and inner observations
are imported. `tampered` is a history variable: `ProgressKept` is about a log
that so far only grew. Not represented: the shortcut for a page that changes
nothing, and INDEX_LIMIT.

`LogReader` is one such read, file operation by file operation: the checkpoint
of head and tail, records of several blocks of which a page takes only some,
half-written lines, and a log that is appended to, truncated or replaced
meanwhile. The checkpoint is a promise about rewritten logs, not about every
change: a change behind the cursor inside a record of which some blocks were
already taken, and a log that is truncated and grows again during one read, are
not told apart by it. `docs/verification/t06-claude-source.md:30` and
`t07-incremental-index.md:26` say as much, and the model leaves both out.

### DataDirectory, AtomicPublish

`DataDirectory` is one data directory and the processes that open, upgrade, use
and delete it. Files have identities (`main` is the one at the path, `handle[p]`
the one a process has open), so that using a file that has been unlinked is
expressible. `Register` to `Migrate` are the steps of `openDatabase` and
`migrate`; any of them may fail (`OpenFails`), and a process may die after any
(`Crash`: SQLite rolls back and drops its lock, the registry row stays and
becomes `lost`). `BeginDelete` to `EndDelete` are `exclusive()` around
`deleteOwnedData`, one unlink at a time; `DeleteFails` is an unlink that is
refused. Not represented: releases older than the registry, `restoreBackup` (it
writes to a fresh directory only), and pids in use again, which can only make a
deletion refuse.

`AtomicPublish` is `atomicWrite()` and `writeArtifact()`: a temporary file,
`fsync`, and a link or a rename, by writers that race for one name. `disk` tells
what survives a loss of power.

### Takeover

`TakeoverManager`, in memory. `Request` is its first turn and `AfterRace` its
continuation after `Promise.race`; `race[t]` is how the race ended. Every later
method may be called in between, closing included. The controller and the user
who confirms are assumed truthful (`Answer`, `ConfirmStop`), which
`SuccessionSafe` rests on; the server and the command line pass no controller
today, so that part is a contract of the library.

### Receipts, ControlLedger, ReceiptReplay

`Receipts` is the receipts of `ControlPlaneStore`. A digest is modelled by its
content, so a receipt id is the request it was made from. `Reading(q)` is what
`rowReceipt` makes of a stored row at the time of reading; all properties are
about readings. `saveReceipt` takes `createdAt` before it has the database,
hence two steps (`AskReceipt`, then one of `InsertReceipt`, `RepeatReceipt`,
`RefuseReceipt`). `SetClock` sets the wall clock to any time. The initial states
include a row confirmed by a release that had no attestations. `StageOrder`
keeps four of the eight stages: no rule tells the first four or
`accepted`/`observed-start` from their neighbours. Redaction of nonces and
private manifests is left out.

`ControlLedger` is the event ledger of the same store and what `reducer.ts`
replays of it for lineage and responsibilities. `AppendBatch` is one call of
`append` with one of its three origins: `AfterBatch` goes through the batch
event by event (`AfterEvent`: repetition, conflict, new row), and
`CommitOrRollBack` is the transaction. `Public` is what redaction does to a content, namely to make
different texts equal. `Projection` replays rows in the order of their ids,
which stand for (ordinal, occurredAt, eventId), so that any order of arrival is
tried against any order of replay. The decisions are compared with those of a
projection of the authorised rows alone, the abstract specification of the
projection. Decisions are ordered by the time they claim, not by arrival: with a
clock that was set back, a newer decision about the same relation is replayed
before the older one. The ledger therefore promises that a decision is not
undecided, not that the newest wins.

`ReceiptReplay` is the rest of that replay: runs, manifests, receipts and
attention items, over the manifest and the receipts the store keeps. Runs,
manifests and attention follow the order events claim (`Observed`, place by
place), receipts the order of their arrival (`Received`, one after the other).
A view of another task is prepared with none of the store's records, so what
counts as persisted belongs to the view, not to the store. `MaxRecords` bounds
the rows. `applyControlEvent`, which only tests call, and the conflicts of
repeated ids in `rebuildControlState`, which a ledger with unique ids cannot
meet, are left out.

### Workbench: TaskStore, AssertionLedger, HistorySearch

One local database under four writers. `TaskStore` is every change of a task as
a save against the revision its author read, with the session links, the
completion and its baseline, and the derived activity; `AssertionLedger` every
change of the decisions, which moves the task on by a revision too, the page
that shows them and the preview that compiles them; `HistorySearch` the text
projection that triggers mark dirty and the page that walks through results. The
three share `task` and `events`, and `Workbench` composes them: each action
says what it does to the variables of the others (a save dirties the projection,
an index page changes what activity is). The value of a text is the revision
that wrote it, so that a value that comes back from the past can be told from
one that was kept.

### Evidence and TaskDerivation

`Evidence` is what a handoff says of commands: processes ThreadPort observed
between two snapshots, commands of the session log, and results an agent's hook
claims, over workspaces that change and snapshots that are pruned. A capture and
a verification are one moment each here, and so are the check between a
confirmation and a start; only complete claims are imported as bound. Left out:
digests of the environment (those of one observing process cannot differ) and
changes of the binding algorithm; `DUPLICATE_EVENT` is unreachable.

`TaskDerivation` is `deriveTask`: `Step` is what one event changes, and `Steps`
takes the events of a task's sessions one after another, each after all that are
before it (a recursive function on sets of events). Beside it stands what the
result means without any order of evaluation (`DerivationEarned`).

### WebClient and SettingsPage

`WebClient` is a page that loads a task, edits it and saves it, in tabs that
move between local services. The system gives the ports: `portsOf` says which
ones a service may come back on, and nothing keeps the service of another
database from taking over a port. A tab that reconnects at one port keeps its
page; the guard is `SameWorkspace` (`app.tsx:106-111`), which compares the
identity the tab has loaded with that of the new service, only if there is a
draft. `home` is the database a text was made for, and `strayed` a history
field: it is set where a text comes to another database with nothing of its own
compared on the way. `DraftsStayHome` says that each accepted edit was made on
the revision it replaced and, unless it strayed, in its own database. A recovered
draft counts as a draft whether or not its editor has been shown again.
`Dismissing` bounds the tabs whose user closes the reconnect dialog by hand.

Observed, as what `strayed` stands for: an editor that is open but not changed
yet is swapped onto another database's service without a question, and what is
then typed is saved there, if the revision fits. And the identity of a tab is
loaded after a swap: until then a new draft of the second database is compared
and sealed with the identity of the first, so that it may be swapped back onto
it, or restored in it, against `docs/v0.2/07-storage-migration.md:53` ("Only an
authenticated connection to the same local database can restore it"). The second
takes three services; the instance of `workplace` has two, so it was found in a
larger one and no run of the project shows it. The theorem holds for any number
of services and says what holds besides. Outside the properties: the answer of a
superseded save closes a newer editor, and the browser's Back loses a draft.

`SettingsPage` is the pages that add a source, follow its job, cancel it, remove
it, clear the index and delete all data, against a service that may be
restarted. The lease of another process is a nondeterministic refusal. The prune
button and the storage and diagnostics panels are left out. Observed: "busy" is
shown as "partially completed"; a job requested during maintenance is shown as
"Index failed"; after the deletion of jobs the next poll may get a 404; the page
has no "Refresh source" button although `maintenance.tsx:58` mentions one; and
the page of unassigned sessions filters on enabled sources, while enabling one
does not start a new generation of the search.

### AgentCertification

The developer harness under `scripts/agent-certification`. `dir[d]` is the files
of one experiment, `cmd[c]` a command between two of its file operations, which
may be killed there. The agent and the operator change files at any time, also
while they are read, and copy records of one experiment into another. What a
binding pins (the harness, the fixture, the candidate) is one version, `tool`,
which an upgrade changes. The schemas are one truth value (`claims`), a digest
stands for what it was taken of, scenario B has the files of A, and the reading
of one file is one step (`readRegular` refuses a file that changes meanwhile).

## 4. Runs

Several runs check modules that share no variable at once: a variable `part`,
chosen initially, says which of them a behaviour exercises, while the others
rest in one initial state. Their state spaces add up, they do not multiply.

| run | question | instance, and why it is enough |
|---|---|---|
| `handoff` (MCHandoff) | Are reservations exclusive and kept, as `WorkspaceReservation` says? Is exactly the reviewed plan launched, once, never after a decline? Do the tables agree and does a recovered outcome stay unknown? Does the page confirm only what was read and still holds? Are the files of a capture of one moment? | Hazards of the launch are about two attempts at one root or at one handoff: two terminals and a browser on one handoff, a third terminal on another one of the same root and task, any probe, any operator. `Exposed` is the handoff whose surroundings drift. Capacity 1 makes the limit bite with two launches. Page: two choices, three requests, one change. Capture: two paths, two contents, two changes, so that one falls between any two reads and one is undone; the theorem is about any number |
| `recovery` (MCRecovery) | Do two agents ever work in one root, and is every reservation freed? Does the index reach the end of a quiet log? | Two processes on two handoffs of one root with probes that recognise a live process and a truthful operator (so `OneAgentPerRoot` is about reused process ids; wrong probes are in `handoff`); two index runs and every trouble but an import. No symmetry, as liveness needs |
| `service` (MCService) | Does every accepted refresh settle, is each maintenance request answered while refreshes go on, and does a takeover leave its wait? Is a disabled source read only if another process disabled it between a run's look and its lease? | Two sources, three runs and one slot, so that two compete, with every outside event; the settings of one source change, here and in another process, which may also clear the index; two takeovers of one run, a controller that may never answer |
| `record` (MCRecord) | Is a slot ever lost or given twice, is the order of the queue kept (`ImplementsSlotPool`), does maintenance run alone? One succession per run? Do decisions rest on authorised events? Does a task page show the latest of everything, and a settings page only what is so? | Four sources, four runs and two slots: two waiters that upkeep aborts in either order. Three takeovers of two runs: one waits, one is closed, one is new. Three places in the replay order: a proposal, a decision and something late around them. Four task events in two sessions, one redacted. Two settings pages with one restart |
| `reading` (MCReading) | Does a stored cursor always come with its events, does the index never mix versions, does a superseded run take nothing back? And the same for one page below? | Two runs, three records, batches of two: one batch that is full, one that is not, and a second one; two consecutive faults, the most any hazard needs; every trouble but a first read that fails. Four writes to the log against a window of two and chunks of three cells |
| `kept` (MCKept) | Does deletion exclude everybody, is there one database, does what was acknowledged survive, is an upgrade behind its backup? Is a published file whole? Does a handoff say of commands only what was seen? Does the replay vouch for nothing? | Three processes (one deletes, one upgrades, one opens at the wrong moment), two file identities, a backup directory for each. Two writers of every kind. One observed run, or one claim with two snapshots, in two workspaces. Three rows in every order of arrival, with one of another task and one of an older build among them |
| `workplace` (MCWorkplace) | Is no update lost, is the history true, is activity reported, do decisions stand, is a page a slice? Are receipts believed only as attested? Is an answer shown for its own question and a draft saved on its own revision and, unless it strayed, at home? Is only a whole experiment complete? | Two clients, two tasks, two sessions; `Budgets` gives one question at a time its operations, up to four edits. Two nonces, three stages, two attestations, a clock around one expiry. Two tabs, two databases, two services: the second one is of either database, at the port of the first or at another. Two experiments, one of which is edited four times, or two commands at once |
| `index_first_read`, `index_import`, `stale_ledger`, `web_draft`, `inner_evidence` | *violated*: section 6 | one instance each, as small as the counterexample |

Every constant of the form `Max...`, `Budgets`, `Chances`, `Allowances`,
`Touched`, `Exposed`, `Edited`, `Dismissing` and `Troubles` is a bound
on what a behaviour does and is named as such where it is declared. Deadlock is
not checked, since every part may rightly come to rest: launches settle, logs
and users stop.

## 5. Fairness

* Launch: weak fairness of the steps of a continue process after its claim (its
  awaits all settle: a spawn reports, a store call returns or throws) and of the
  end of an agent; a crash is always allowed instead. An operator keeps
  inspecting and recovering, because nothing in the code reconciles on its own.
* Index service: each turn of a run that is due is taken, a read ends (bounded
  file, bounded pages, the signal is looked at in between), and the
  continuations of the routes run. A run that has looked at its source goes on to
  its lease, which is the same turn. It is the fairness of an event loop.
* Index commits: refreshes come again and again, runs proceed, and the lease of
  a dead owner runs out.
* Takeovers: the deadline is a timer and the continuation a turn of the event
  loop, and both are fair; no answer of the controller is.

## 6. Findings

Five runs end in a counterexample, each against a sentence of the repository
that `PROJECT.json` quotes.

* `index_first_read`: the first read of a session fails after a page that was
  not committed; the tombstone stores that page's cursor (`indexing/service.ts:52`,
  `committed ?? page.cursor`), and the events before it are never indexed.
* `index_import`: `saveInnerObservation` gives an observation the ordinal after
  the last event (`sqlite-store.ts:131`), which the next record of the log needs;
  every later batch with that record is rolled back.
* `stale_ledger`: the page of the ledger takes its entries and its revision from
  two transactions, so a change is accepted whose author never saw an entry
  recorded between them (`server/assertion-routes.ts:13`).
* `web_draft`: the load that follows a reconnect fails, and the page drops the
  task it showed together with the open editor and its draft
  (`src/web/src/api.ts:270`).
* `inner_evidence`: an imported result is stored under another event id than it
  names, so a complete and matching one is called unverified
  (`sqlite-store.ts:116`).

The passing runs leave these troubles out where they are about something else
(`Troubles` in the configurations). A smaller observation outside `src/src`:
`local-validation-runner.mjs` hashes its source once, before the run, and does
not wait for a child it has timed out.

## 7. Proofs

For all values of the constants, under the assumptions the modules state about
them (types, distinct null values, at least one slot, one event per batch,
finitely many documents whose identifiers are distinct):

| module | theorem | states |
|---|---|---|
| `HandoffLaunch_proofs` | `TypeCorrect`, `MutualExclusion`, `TargetsCovered`; `ReservationInvariant`, `ObserverInvariant` | `TypeOK`, `ReservationMutex`, `LiveTargetReserved` |
| the same | `ReviewDecidesLaunch`, `RecordsAgreement`, `RecoveryIsFinal`, `OneAgent`, `Refinement`; `RecordsInvariant` | `ReviewDecides`, `RecordsAgree`, `RecoveredStaysUnknown`, `OneAgentPerRoot`, `ImplementsReservation` |
| `WorkspaceCapture_proofs` | `CapturesStayTrue`; `CaptureInvariance` | `CapturesAreTrue` |
| `Pages_proofs` | `ReviewBindsConfirmation`; `PageInvariance` | `HandoffAsReviewed` |
| the same | `PagesAreTrue`; `WebInvariance` | `PagesKeepTheirData` |
| the same | `SettingsAreTrue`; `SettingsInvariance` | `SettingsTruthful` |
| `Service_proofs` | `Containment`, `UpkeepAlone`, `Refinement`; `Invariance` | `RunsContained`, `UpkeepRunsAlone`, `ImplementsSlotPool` |
| the same | `TakeoverTypeCorrect`, `OneSuccession`, `LoserDoesNothing` | `TakeoverTypes`, `SuccessionSafe`, `LateAnswerHarmless` |
| the same | `CertificationIsEarned`; `CertificationInvariance` | `CertificationEarned` |
| `Reading_proofs` | `IndexIsExact`, `ProgressIsKept`; `ExactInvariant` | `IndexExact`, `ProgressKept` |
| the same | `RowsAreTheLog`; `ReaderInvariance` | `RowsFollowTheLog` |
| `Kept_proofs` | `TypeCorrect`, `DeletionExcludesOthers`, `OneDatabaseForAll`, `DataIsKept`, `BackupPrecedesUpgrade`; `SurvivalInvariance` | `TypeOK`, `DeletesAlone`, `OneDatabase`, `DataSurvives`, `BackedUp` |
| the same | `PublicationIsSound`; `PublishInvariance` | `PublicationSound` |
| the same | `EvidenceIsEarned`; `EvidenceInvariance` | `EvidenceEarned` |
| `Workplace_proofs` | `HistoryIsExact`, `NoLostUpdate`, `ActivityIsReported`, `DecisionsHold`; `Invariance` | `HistoryExact`, `EditsBuildOnLatest`, `ActivityReported`, `DecisionsInForce` |
| the same | `SlicesArePages`; `SearchInvariance` | `PagesAreSlices` |
| the same | `ReceiptsTypeCorrect`, `Trusted`, `OnlyAdvance` | `ReceiptsTypes`, `ReceiptsTrusted`, `ReadingsOnlyAdvance` |
| `Record_proofs` | `LedgerProved`; `LedgerInvariance`, `LedgerHolds`, `OnlyAuthorizedDecide`, `NothingUndecided` | `LedgerTrusted` |
| the same | `EarnedDerivation`; `DerivationInvariance` | `DerivationEarned` |
| the same | `TrustedReplay`; `ReplayInvariance` | `ReplayTrusted` |

How they go, and why none of the properties is inductive by itself:

* Launch. `ReservationMutex`: the claim tests that no row of the root is
  occupied, but a run row becomes `unknown` or `running` again only if the
  handoff still names it. `ReservationInv` adds that an occupying run belongs to
  a handoff in launch whose approval names it, and the converse. For
  `LiveTargetReserved`, `Covered` is carried along the observer's program
  counter from the claim to the finish, with the fact that a result other than
  `unknown` is only carried once the target is dead.
* Records. A confirmation that races with a launch writes to the handoff long
  after it read it, so `RecordsInv` says what it can no longer find: a handoff
  that was claimed or declined never opens again (`ReviewInv`), recovered ones
  are closed, and evidence is only written by the process that observed, which
  ties each outcome to an observation that was complete before it. `OneAgent`
  has two hypotheses, that a live process is always recognised and that the
  operator attests only what is true. Both are needed: without them a recovered
  target may be alive. ADR 0011 asks the user to inspect first for that reason.
  `Refinement` maps a holder of `WorkspaceReservation` to the handoff in launch
  whose run occupies the root; each claim, settlement, recovery and pruning is
  one abstract step, everything else a stutter.
* Captures. `Since` gives a stamp its meaning: a file is what it is since the
  moment of its stamp. So a read between two looks at one stamp saw the content
  of that stamp (`FilesSoFar`), and if every file still has its stamp in the last
  round, all of them were there at the moment the first round ended, which is
  the witness (`OneMoment`). Each later check extends it to one more file, and
  no change to the workspace can undo it, for it is about the past. A drift is
  proved from its contrary: if nothing differed from the start of one capture to
  the end of the other, every command and every file would have given the same.
* The handoff page. `Watched` says that from the first tick on each state of the
  task, source and files is noted, so a comparison that succeeds later was of a
  noted state. `RequestTrue` is what a request may still rely on when its answer
  arrives, and `Waiting` ties the request the page waits for to its choices and
  to the preview it shows: an answer to anything else finds a page that does
  not wait for it.
* Index service. `Inv` has five parts: the queue and its slots, the map of jobs
  (it leads to every live run), the flags of the service, leases, and the
  enabled sources: a run that has looked at its source finds it enabled until it
  has its lease, or was overtaken by another process. That the map leads to
  every run is what makes a wait for the jobs complete; that upkeep implies a
  paused service, and that a closed store never resumes, is what keeps new runs
  out meanwhile. The refinement of `SlotPool` needs that the queue is totally
  ordered by `ahead` and that nobody waits beside an idle slot.
* Index commits. What a run holds uncommitted lies exactly between the stored
  cursor and the cursor it has read up to (`Carries`), as long as its lease and
  its compare-and-set still allow it to commit; for `ProgressKept`, while the
  log only grows every cursor is behind a prefix of it (`Undisturbed`). Both
  theorems suppose that no first read fails (`"unreadable" \notin Troubles`),
  which is the first finding above: with it they are false.
* The reader of one log. Every text is written once, so two versions of the log
  that have one text at the same place agree up to it (`TextsOnce`). A page that
  finds the tail of the stored cursor therefore has a log that told what was
  stored (`TailTells`), and a tail that is taken from a log shortened meanwhile
  is too short to be found again (`TailTaken`). What a page has read is of the
  content it was opened with, as long as the open file is still as long as it was
  then (`PageReads`, `PageOpened`); once it is shorter it stays so until the
  page ends, and the second look at its size finds it. A cursor inside a record
  needs that record to stay as it is while what is before it does (`HalfStays`):
  the truncations that the reader does not promise to notice are the ones that
  would break it. That the blocks of the records add up to what the content
  tells is an induction over the cells of a chunk (`ChunkTrue`, from `LineTrue`).
* Data directory. `Control` says that whoever does anything has a registry row,
  whoever deletes has the lock and the only row, and whoever has a file open, in
  exactly those phases, has the one at the path. Without the equivalence between
  phase and handle, a deleter could unlink a file it has open itself; without
  the row, somebody could open while the deleter works. `Data`, `Survival` and
  `Saved` say that nobody writes to a file before it has the new schema and that
  each upgrade fills a backup directory of its own, so that a copy, once
  complete, stays what the old file holds.
* Publication. `PublicationSound` says nothing of a writer between its link and
  its answer. `Progress` does: the set of names a writer has published is a
  function of its position, its file and its outcome, so that each answer finds
  the set it speaks of. `Whole` carries the text from the write to the `fsync`
  to the link; `Directory` says that, until the machine stops, a name that was
  ever taken still is, which is why a link without `--force` finds a name that
  nobody had before. A loss of power stops every writer, so the last needs to
  hold only while somebody may still publish.
* Evidence. A snapshot may be pruned, but what it said and of which workspace
  never changes, and a run that is over is not written again (`Bound`). So a
  report is earned from the moment it is made (`ReportEarned`) and stays so until
  it is saved, though runs and changes go on meanwhile. The half about claims
  needs no more than the cases of `Reasons`.
* The web client. The property is about what a page shows; `WebInv` adds what is
  still on its way: whatever a tab holds (its task, its editor, a recovered
  draft) is of the database it is connected to or has strayed (`OpenRow`), a
  request whose answer would be taken asks that database too (`LoadTrue`), and a
  save carries the revision its editor was opened on (`SaveTrue`). No assumption
  is made about ports. A swap either compared an identity that is still that of
  the connection, and then the database stays the same, or marks what the tab
  carries as strayed; an envelope opens only in the database whose key sealed
  it, and strayed if that key is not its own. Data of the old database may be
  shown until the answer of the new one, but no editor can be opened on it
  meanwhile (`Mounted` with `OpenRow`): else its revision would be saved in the
  wrong database.
* The settings pages. A status asks for the state of a source, not of a run. So
  `RunsTrue` says that only the last run of a source in this service may still
  go on, and `JobTrue` that a kept job without a result has a run that goes on:
  the state of its source is then the state of that run, and a cancellation
  waits for that run and no later one. A poll under way is about the job the
  page follows (`PollTrue`), and the form adds no source while a job is followed
  (`FormTrue`). Only sources that are configured are read, and after a deletion
  no run goes on, so what was erased stays erased in that service.
* The certification harness. `CertificationInv` says who may still write what:
  an experiment has one maker, since its directory is made exclusively (`Alone`),
  and that maker has written every file before the one it is at (`MakingTrue`),
  so that the preparation, its last, finds the others whole. No command ever
  removes or replaces a preparation; a command that inspects an experiment
  therefore still speaks of it when it writes (`InspectingTrue`), and the notes
  it has finished stay finished unless they are changed by hand. An evidence
  that speaks of a report was put there after the report was put out, and a
  drift's record, even a copied one, was written by a command (`DirTrue`).
* Takeover. One takeover per run is inductive with the types, except that the
  types need a named successor (`SuccessorNamed`), and the order of stop and
  succession needs that an answer under way is true (`AnswersTrue`). It holds
  for any number of takeovers; `record` checks three.
* Receipts. The types with what a caller still holds (`CallsOK`): its time was
  taken before, and its request was allowed then.
* Induction over data. What is replayed from a log is a recursive function, and
  the prover has no induction rule it could apply to one. `Record_proofs`
  therefore begins with induction as a lemma about sets: a set of naturals has a
  smallest member (`Smallest`, from the library's theorem that `<` is well
  founded), so one that is closed under the successor has all (`SetInduction`,
  and `FiniteInduction` for the subsets of a finite set). The defining equation
  of each recursive function is a lemma too (`ReplaysEquation`,
  `AfterEventsEquation`, `StepsEquation`), and `Reading_proofs` does the same for
  the cells of a log (`ToldEquation`, `ConsumedEquation`). Each induction is then over the set of
  the places at which a statement holds.
* The control ledger. `SameDecisions` compares the replay of all rows with the
  replay of the authorised ones, place by place: a row without authority leaves
  what is decided alone. `NothingUndecided` compares the replay before a batch
  with the replay after it (`Stands`): rows in between, wherever they come in the
  order, may change a decision but not make a candidate of it. For a batch,
  `Progress` says after how many events what is acknowledged is in rows that
  only grow.
* Derivation. `Told(events)` says of the state that was computed for a set of
  events what it means, for every set that holds, with an event, all events
  before it; the last event extends it (`SaidTold`, `RanTold`,
  `UnansweredTold`). It rests on ordinals that occur once in a session
  (`DerivationInv`), since a session is forgotten as a whole.
* The replay of receipts. Two inductions, over the places of the order that runs
  and manifests follow (`ObservedUpTo`) and then over the arrivals
  (`ReceivedUpTo`). What a row leaves behind is there at the end: a warning is
  never withdrawn (`MoreWarnings`), a receipt never replaced by one of another
  identity or an earlier stage (`StandsIn`). `ReceiptsOwned` ties each receipt
  whose status is known to the owner of its nonce, which is why a second receipt
  of a nonce is unknown whatever it claims. The attempt to prove it showed that
  the model took the receipts of the store for persisted in every view; in the
  view of another task, the reducer does not.
* Workbench. `WorkbenchInv` joins the types of the two stores with what a call
  between its reads and its save carries (`CallsTrue`, `PrepsTrue`), that
  revisions and versions only grow and occur once (`NumbersTrue`, `Versions`),
  the history, and the previews already saved. Each action of `Workbench` is the
  step of one store and a frame for the others, and is proved so.
* The history search. No induction is needed to sort: the place of a document is
  the number of those before it (`Place`), which is injective (`PlacesRise`) and
  so takes every value up to the size of the set (`PlacesTaken`). A cursor cuts
  the order in two, and what remains after it is the rest of the sequence
  (`RestInOrder`). `SearchInv` counts what a cursor has behind it: one that is
  still accepted, wherever it is kept, has whole pages of the present result
  behind it (`TrueCursors`). A step that could break that starts a new
  generation, which refuses the cursor; a step that does not changes none of
  what is searched, since a projection that is not dirty holds the events of its
  session (`ProjectionTrue`). Identifiers of documents are unique.

Every invariant and every action property that a passing run checks is also
proved. Only model-checked are the liveness properties and those with ENABLED
(`ReservationFreed`, `IndexCatchesUp`, `RequestsEnd`, `RequestSettles`): the
prover has no fairness beyond propositional temporal logic.

## 8. Not modelled

For good: text adapters, redaction, rendering, option parsing and the layout of
the web page (no state a property could be about), the statements of single
migrations, and the internals of SQLite and of the operating system, of which
the models use atomic immediate transactions, locks that end with their process,
and atomic `link`, `rename`, `unlink` and `mkdtemp`. Benchmarks and the local
validation runner are developer tools outside the program. What a partly
modelled component leaves out is in its note in `PROJECT.json`.
