------------------------------- MODULE WebClient -------------------------------
(* The browser's side of a task edit: pages that load a task from a local    *)
(* service, an open editor, services that stop and come back with another    *)
(* token or on another port, and drafts that move to a new tab.  Answers     *)
(* arrive late, twice superseded or not at all.                              *)
EXTENDS Naturals, Sequences, FiniteSets

CONSTANTS
  Tabs, first,    \* browser tabs, and the one that is open at first
  TaskIds,
  Databases,      \* data directories; a copy has the tasks of its original
  Origins,        \* ports
  portsOf,        \* ports on which the service of a database may be started
  MaxServices, MaxRevision, MaxAsked,   \* bounds
  MaxEdits,       \* bound on the edits of other clients
  Dismissing,     \* bound: tabs in which the reconnect dialog is closed by hand
  Nothing

\* A port is whatever the system gives: that of a service which is gone may be
\* the port of another database's service next.
ASSUME WebAssumption ==
  /\ first \in Tabs /\ Nothing \notin TaskIds \cup Databases
  /\ portsOf \in [Databases -> SUBSET Origins]

VARIABLES
  services,   \* services started so far; its number stands for link and token
  store,      \* of every database and task: its revisions, with their makers
  tabs,       \* what each tab holds
  loads,      \* requests for a task that are on their way
  saves,      \* requests to change a task that are on their way
  asked       \* number of requests so far

webVars == <<services, store, tabs, loads, saves, asked>>

-----------------------------------------------------------------------------
(* The services.                                                             *)

Alive(s) == services[s].alive
Database(s) == services[s].db
LatestRevision(d, t) == Len(store[d][t])
Answering(s) == \E u \in DOMAIN services : Alive(u) /\ services[u].origin = services[s].origin

\* What a dead link yields: somebody else answers at its port, or nobody.
Refusal(s) == IF Answering(s) THEN "UNAUTHORIZED" ELSE "NETWORK_ERROR"

Stop(s) ==
  /\ Alive(s)
  /\ services' = [services EXCEPT ![s].alive = FALSE]
  /\ UNCHANGED <<store, tabs, loads, saves, asked>>

StartService(d, o) ==
  /\ Len(services) < MaxServices /\ o \in portsOf[d]
  /\ \A s \in DOMAIN services : Alive(s) => services[s].origin # o /\ services[s].db # d
  /\ services' = Append(services, [db |-> d, origin |-> o, alive |-> TRUE])
  /\ UNCHANGED <<store, tabs, loads, saves, asked>>

\* Another client of the database changes the task.
Elsewhere == [base |-> 0, home |-> Nothing, strayed |-> FALSE]
Edits == {e \in Databases \X TaskIds \X (2 .. MaxRevision) : e[3] <= LatestRevision(e[1], e[2]) /\ store[e[1]][e[2]][e[3]] = Elsewhere}
EditElsewhere(d, t) ==
  /\ LatestRevision(d, t) < MaxRevision /\ Cardinality(Edits) < MaxEdits
  /\ store' = [store EXCEPT ![d][t] = Append(@, Elsewhere)]
  /\ UNCHANGED <<services, tabs, loads, saves, asked>>

-----------------------------------------------------------------------------
(* A page: what it shows follows from its state.                             *)

NoData == [db |-> Nothing, revision |-> 0, request |-> 0]
\* home is the database of what is edited; strayed (history) says that it came
\* to another one with nothing compared on the way.
NoEditor == [base |-> 0, home |-> Nothing, strayed |-> FALSE, dirty |-> FALSE, busy |-> FALSE]
NoDraft == [task |-> Nothing, base |-> 0, home |-> Nothing, strayed |-> FALSE]
NoSeal == [draft |-> NoDraft, key |-> Nothing, origin |-> Nothing]
Closed ==
  [client |-> 0, task |-> Nothing, data |-> NoData, loading |-> FALSE, request |-> 0, visit |-> 0,
   expired |-> FALSE, editing |-> FALSE, editor |-> NoEditor, recovered |-> NoDraft,
   identity |-> Nothing, envelope |-> NoSeal]

Client(k) == tabs[k].client
IsOpen(k) == Client(k) # 0
Shown(p) == p.data # NoData
Recovering(p) == p.recovered # NoDraft /\ p.recovered.task = p.task

\* A new Editor takes its revision from the recovered draft or from the task.
EditorOf(p) ==
  IF Recovering(p)
  THEN [base |-> p.recovered.base, home |-> p.recovered.home, strayed |-> p.recovered.strayed,
        dirty |-> TRUE, busy |-> FALSE]
  ELSE [base |-> p.data.revision, home |-> p.data.db, strayed |-> FALSE, dirty |-> FALSE, busy |-> FALSE]

\* React mounts the Editor while there is a task to edit, and drops its state
\* with it.
Rendered(p) ==
  [p EXCEPT !.editor = IF ~(Shown(p) /\ (p.editing \/ Recovering(p))) THEN NoEditor
                       ELSE IF @ = NoEditor THEN EditorOf(p) ELSE @]

\* useLoad: a new key aborts the request under way and asks anew; the task that
\* is shown stays for as long as the path is the same.
Asking(p) == [p EXCEPT !.request = asked + 1, !.loading = TRUE]
Load(k, p) ==
  /\ asked < MaxAsked /\ asked' = asked + 1
  /\ tabs' = [tabs EXCEPT ![k] = Rendered(Asking(p))]
  /\ loads' = loads \cup {[tab |-> k, client |-> p.client, task |-> p.task,
                           number |-> asked + 1, answer |-> "none", data |-> NoData]}

Set(k, p) == tabs' = [tabs EXCEPT ![k] = Rendered(p)]

\* Another task, by a link or by the browser's back button: a new Detail.
Navigate(k, t) ==
  /\ IsOpen(k) /\ tabs[k].task # t /\ tabs[k].envelope = NoSeal
  /\ Load(k, [tabs[k] EXCEPT !.task = t, !.data = NoData, !.editing = FALSE, !.editor = NoEditor, !.visit = asked + 1])
  /\ UNCHANGED <<services, store, saves>>

Reload(k) ==
  /\ IsOpen(k) /\ tabs[k].task # Nothing /\ ~tabs[k].loading /\ tabs[k].editor = NoEditor /\ ~tabs[k].expired
  /\ Load(k, tabs[k])
  /\ UNCHANGED <<services, store, saves>>

\* The service reads the task, or fails to.
ServeLoad(q) ==
  /\ q.answer = "none"
  /\ \E a \in IF Alive(q.client) THEN {"ok", "STORAGE_BUSY"} ELSE {Refusal(q.client)} :
       loads' = (loads \ {q}) \cup
         {[q EXCEPT !.answer = a,
                    !.data = IF a = "ok" THEN [db |-> Database(q.client), request |-> q.number,
                                               revision |-> LatestRevision(Database(q.client), q.task)]
                             ELSE NoData]}
  /\ UNCHANGED <<services, store, tabs, saves, asked>>

DeliveredEvenLate(q) == tabs[q.tab].task = q.task
\* An aborted request is forgotten.
Delivered(q) == tabs[q.tab].request = q.number

\* An error leaves no data: the Detail shows the error alone.
AnswerLoad(q) ==
  /\ q.answer # "none"
  /\ loads' = loads \ {q}
  /\ IF Delivered(q)
     THEN Set(q.tab, [tabs[q.tab] EXCEPT !.data = q.data, !.loading = FALSE,
                                         !.expired = @ \/ q.answer = "UNAUTHORIZED"])
     ELSE UNCHANGED tabs
  /\ UNCHANGED <<services, store, saves, asked>>

\* The status is polled; a service that is gone opens the reconnect dialog.
Poll(k) ==
  /\ IsOpen(k) /\ ~Alive(Client(k)) /\ ~tabs[k].expired
  /\ Set(k, [tabs[k] EXCEPT !.expired = TRUE])
  /\ UNCHANGED <<services, store, loads, saves, asked>>

CloseDialog(k) ==
  /\ k \in Dismissing /\ tabs[k].expired
  /\ Set(k, [tabs[k] EXCEPT !.expired = FALSE])
  /\ UNCHANGED <<services, store, loads, saves, asked>>

-----------------------------------------------------------------------------
(* The editor.  The reconnect dialog is modal: nothing is typed behind it.   *)

Usable(k) == ~tabs[k].expired /\ tabs[k].editor # NoEditor
StopEditing(p) == [p EXCEPT !.editing = FALSE, !.recovered = NoDraft]

Edit(k) ==
  /\ Shown(tabs[k]) /\ ~tabs[k].loading /\ ~tabs[k].editing /\ ~tabs[k].expired
  /\ Set(k, [tabs[k] EXCEPT !.editing = TRUE])
  /\ UNCHANGED <<services, store, loads, saves, asked>>

Type(k) ==
  /\ Usable(k) /\ ~tabs[k].editor.dirty
  /\ Set(k, [tabs[k] EXCEPT !.editor.dirty = TRUE])
  /\ UNCHANGED <<services, store, loads, saves, asked>>

\* Closed by the user, who confirms that the draft is discarded.
Discard(k) ==
  /\ Usable(k)
  /\ Set(k, StopEditing(tabs[k]))
  /\ UNCHANGED <<services, store, loads, saves, asked>>

ExpectedOfTask(k) == tabs[k].data.revision
\* The revision of the Editor's first render.
Expected(k) == tabs[k].editor.base

Submit(k) ==
  /\ Usable(k) /\ tabs[k].editor.dirty /\ ~tabs[k].editor.busy
  /\ \A s \in saves : s.tab # k
  /\ saves' = saves \cup {[tab |-> k, client |-> Client(k), task |-> tabs[k].task, visit |-> tabs[k].visit,
                           expected |-> Expected(k), base |-> tabs[k].editor.base, home |-> tabs[k].editor.home,
                           strayed |-> tabs[k].editor.strayed, answer |-> "none"]}
  /\ Set(k, [tabs[k] EXCEPT !.editor.busy = TRUE])
  /\ UNCHANGED <<services, store, loads, asked>>

\* TaskService.update compares the revision and stores the edit in one step; it
\* refuses another revision, and a busy storage refuses any.
ServeSave(s) ==
  /\ s.answer = "none"
  /\ LET d == Database(s.client)
         accepted == Alive(s.client) /\ LatestRevision(d, s.task) = s.expected /\ s.expected < MaxRevision IN
     \/ /\ accepted
        /\ store' = [store EXCEPT ![d][s.task] = Append(@, [base |-> s.base, home |-> s.home, strayed |-> s.strayed])]
        /\ saves' = (saves \ {s}) \cup {[s EXCEPT !.answer = "ok"]}
     \/ /\ UNCHANGED store
        /\ saves' = (saves \ {s}) \cup {[s EXCEPT !.answer = IF Alive(s.client) THEN "refused" ELSE Refusal(s.client)]}
  /\ UNCHANGED <<services, tabs, loads, asked>>

\* The answer to a save that was stored may be lost with the service.
Answers(s) == {s.answer} \cup (IF Alive(s.client) THEN {} ELSE {"NETWORK_ERROR"})

\* The Detail that sent it is reloaded and closes its editor, or the error is
\* shown; after a conflict the user may choose the former.  What a swapped
\* client reports opens no dialog.
AnswerSave(s) ==
  /\ s.answer # "none"
  /\ saves' = saves \ {s}
  /\ LET p == tabs[s.tab]  here == p.visit = s.visit /\ p.task = s.task IN
     \E a \in Answers(s) :
       \/ a \in {"ok", "refused"} /\ here /\ Load(s.tab, StopEditing(p))
       \/ /\ a = "ok" /\ ~here
          /\ Set(s.tab, [p EXCEPT !.recovered = NoDraft]) /\ UNCHANGED <<loads, asked>>
       \/ /\ a # "ok"
          /\ Set(s.tab, [p EXCEPT !.editor.busy = IF here THEN FALSE ELSE @,
                                  !.expired = @ \/ (p.client = s.client /\ a # "refused")])
          /\ UNCHANGED <<loads, asked>>
  /\ UNCHANGED <<services, store>>

-----------------------------------------------------------------------------
(* Reconnecting: the user pastes the link of a running service.              *)

Connected(s) == [Closed EXCEPT !.client = s]

\* The identity is of the database that the tab was connected to when it was
\* loaded; the swap of a client leaves it until the next one is.
Identified(k) == tabs[k].identity = Database(Client(k))
Straying(row, none, astray) == IF row = none \/ ~astray THEN row ELSE [row EXCEPT !.strayed = TRUE]
DraftOf(k) ==
  [task |-> tabs[k].task, base |-> tabs[k].editor.base, home |-> tabs[k].editor.home,
   strayed |-> tabs[k].editor.strayed \/ ~Identified(k)]

SwappedAnyway(k, s) == TRUE
\* Only a draft makes a page ask first whether the service that took over its
\* port has the database of its identity.
SameWorkspace(k, s) == tabs[k].editor.dirty => tabs[k].identity = Database(s)

\* The comparison says something of where the page comes from.
Compared(k) == tabs[k].editor.dirty /\ Identified(k)
Strays(k, s) == ~Compared(k) /\ Database(s) # Database(Client(k))

\* At the same port the client is swapped under the page.
ReconnectHere(k, s) ==
  /\ services[s].origin = services[Client(k)].origin /\ SameWorkspace(k, s)
  /\ LET p == [tabs[k] EXCEPT !.client = s, !.expired = FALSE,
                              !.editor = Straying(@, NoEditor, Strays(k, s)),
                              !.recovered = Straying(@, NoDraft, Strays(k, s))] IN
     IF p.task = Nothing THEN Set(k, p) /\ UNCHANGED <<loads, asked>> ELSE Load(k, p)
  /\ UNCHANGED <<services, store, saves>>

\* At another port a draft is sealed and opened in a new tab, while the old one
\* stays; without a draft the tab itself moves.
ReconnectElsewhere(k, s) ==
  /\ services[s].origin # services[Client(k)].origin
  /\ IF tabs[k].editor.dirty
     THEN /\ tabs[k].identity # Nothing
          /\ \E new \in Tabs : ~IsOpen(new) /\
               Set(new, [Connected(s) EXCEPT !.envelope =
                 [draft |-> DraftOf(k), key |-> tabs[k].identity, origin |-> services[s].origin]])
     ELSE Set(k, Connected(s))
  /\ UNCHANGED <<services, store, loads, saves, asked>>

Reconnect(k) ==
  /\ tabs[k].expired
  /\ \E s \in DOMAIN services : Alive(s) /\ (ReconnectHere(k, s) \/ ReconnectElsewhere(k, s))

\* The key of the database and the address authenticate the envelope.
Opens(seal, d, s) == seal.key = d /\ seal.origin = services[s].origin

\* GET /draft-recovery; a sealed draft is opened once, unless it has expired.
LoadIdentity(k) ==
  /\ IsOpen(k) /\ Alive(Client(k)) /\ asked < MaxAsked
  /\ LET p == tabs[k]  d == Database(Client(k))
         q == [p EXCEPT !.identity = d, !.envelope = NoSeal] IN
     IF p.envelope # NoSeal /\ Opens(p.envelope, d, Client(k))
     THEN \/ Load(k, [q EXCEPT !.task = p.envelope.draft.task, !.recovered = p.envelope.draft, !.visit = asked + 1])
          \/ Set(k, q) /\ UNCHANGED <<loads, asked>>
     ELSE p # q /\ Set(k, q) /\ UNCHANGED <<loads, asked>>
  /\ UNCHANGED <<services, store, saves>>

\* The key cannot be had: the draft is given up in this tab.
IdentityFails(k) ==
  /\ tabs[k].envelope # NoSeal
  /\ Set(k, [tabs[k] EXCEPT !.envelope = NoSeal])
  /\ UNCHANGED <<services, store, loads, saves, asked>>

-----------------------------------------------------------------------------
WebInit ==
  /\ \E d \in Databases, o \in Origins : o \in portsOf[d] /\ services = <<[db |-> d, origin |-> o, alive |-> TRUE]>>
  /\ store = [d \in Databases |-> [t \in TaskIds |-> <<Elsewhere>>]]
  /\ tabs = [k \in Tabs |-> IF k = first THEN Connected(1) ELSE Closed]
  /\ loads = {} /\ saves = {} /\ asked = 0

WebNext ==
  \/ \E s \in DOMAIN services : Stop(s)
  \/ \E d \in Databases, o \in Origins : StartService(d, o)
  \/ \E d \in Databases, t \in TaskIds : EditElsewhere(d, t)
  \/ \E q \in loads : ServeLoad(q) \/ AnswerLoad(q)
  \/ \E s \in saves : ServeSave(s) \/ AnswerSave(s)
  \/ \E k \in Tabs :
       \/ Reload(k) \/ Poll(k) \/ CloseDialog(k) \/ Edit(k) \/ Type(k) \/ Discard(k) \/ Submit(k)
       \/ Reconnect(k) \/ LoadIdentity(k) \/ IdentityFails(k)
       \/ \E t \in TaskIds : Navigate(k, t)

WebSpec == WebInit /\ [][WebNext]_webVars

-----------------------------------------------------------------------------
(* Properties                                                                *)

\* What a tab shows without saying that it loads is the answer to the request it
\* made last, from the service it is connected to, however many answers of older
\* requests and older connections are still on their way.
LatestAnswerShown ==
  \A k \in Tabs : LET p == tabs[k] IN
    Shown(p) /\ ~p.loading => p.data.request = p.request /\ p.data.db = Database(p.client)

\* docs/v0.2/07-storage-migration.md: a draft is restored by the same local
\* database only and saved against its original revision.  Every edit that a
\* database accepted was made on the revision it replaced, and in that database
\* or in an editor that strayed: a port that another database's service took
\* over had been reconnected while there was no draft, or before the tab had
\* loaded the identity of the database it was connected to.
DraftsStayHome ==
  /\ \A k \in Tabs : LET draft == tabs[k].recovered IN
       draft # NoDraft => draft.strayed \/ draft.home = Database(Client(k))
  /\ \A d \in Databases, t \in TaskIds : \A r \in DOMAIN store[d][t] : LET edit == store[d][t][r] IN
       edit # Elsewhere => edit.base = r - 1 /\ (edit.strayed \/ edit.home = d)

\* A page shows the answer to its last request, and a draft is saved on its own
\* revision, in its own database.
PagesKeepTheirData == LatestAnswerShown /\ DraftsStayHome

\* api.ts: the projection is kept while credentials reconnect, which preserves
\* open editors and their drafts across an ApiClient swap.
DraftSurvivesSwap ==
  [][\A k \in Tabs :
       tabs[k].loading /\ ~tabs'[k].loading /\ tabs'[k].visit = tabs[k].visit /\ tabs[k].editor.dirty
         => tabs'[k].editor = tabs[k].editor]_webVars
=============================================================================
