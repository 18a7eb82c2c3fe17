----------------------------- MODULE ContinuePage -----------------------------
(* "Continue task" in the browser (web/src/features/handoff/preview.tsx) and *)
(* what it asks of the service: a preview is prepared (handoff/prepare.ts),  *)
(* read, ticked and confirmed (handoff/confirm.ts) while the task, its       *)
(* source and the workspace change, time passes, answers get lost and the    *)
(* page is left and opened again.  HandoffLaunch takes over from there.      *)
EXTENDS Naturals, Sequences, FiniteSets

CONSTANTS
  Choices,       \* source, target, workspace and mode that may be chosen
  MaxChanges,    \* bound on the changes of task, source and workspace
  MaxRequests    \* bound on requests

ASSUME PageAssumption == {MaxChanges, MaxRequests} \subseteq Nat

VARIABLES
  world,      \* what assertCurrent compares (the task's revision, the records of
              \* source and binding), and the files of the workspace
  changes,    \* changes so far
  handoffs,   \* the stored handoffs; the position is the id
  requests,   \* by number: what each request asks for and how far it got
  page,       \* the page that is open
  seen        \* history: of a handoff, the states of the world since its first tick

pageVars == <<world, changes, handoffs, requests, page, seen>>

NoShow == [handoff |-> 0, expired |-> FALSE, ack |-> FALSE, command |-> 0]
Opened(choice) == [choice |-> choice, busy |-> 0, shows |-> NoShow]
NoRecord == [record |-> 0, files |-> 0]

PageInit ==
  /\ world = [record |-> 1, files |-> 1] /\ changes = 0
  /\ handoffs = << >> /\ requests = << >> /\ seen = << >>
  /\ \E c \in Choices : page = Opened(c)

-----------------------------------------------------------------------------
(* The world around it.                                                      *)

\* An edit gives the task a new revision; the source and the files may also
\* become what they were.
Become(w) ==
  /\ changes < MaxChanges /\ changes' = changes + 1
  /\ world' = w
  /\ seen' = [h \in DOMAIN seen |-> IF seen[h] = {} THEN {} ELSE seen[h] \cup {w}]
  /\ UNCHANGED <<handoffs, requests, page>>

Change ==
  \/ Become([world EXCEPT !.record = changes + 2])
  \/ world.record # 1 /\ Become([world EXCEPT !.record = 1])
  \/ Become([world EXCEPT !.files = 3 - @])

\* Fifteen minutes after it was prepared.
Expire(h) ==
  /\ ~handoffs[h].expired
  /\ handoffs' = [handoffs EXCEPT ![h].expired = TRUE]
  /\ UNCHANGED <<world, changes, requests, page, seen>>

\* HandoffStore.assertCurrent.
StillCurrent(r) == r.record = world.record

\* The terminal takes it from here.
Launch(h) ==
  /\ handoffs[h].state = "confirmed" /\ ~handoffs[h].expired /\ StillCurrent(handoffs[h])
  /\ handoffs' = [handoffs EXCEPT ![h].state = "launching"]
  /\ UNCHANGED <<world, changes, requests, page, seen>>

-----------------------------------------------------------------------------
(* The page.  One action at a time: useAction ignores a second one, and the  *)
(* choices are disabled meanwhile.                                           *)

Idle == page.busy = 0
Show(s) == page' = [page EXCEPT !.shows = s]

Send(r) ==
  /\ Len(requests) < MaxRequests
  /\ requests' = Append(requests, r)

\* Weakened form: the tick stays.
ResetButTick(s) == [NoShow EXCEPT !.ack = s.ack]
Reset(s) == NoShow

Choose(c) ==
  /\ Idle /\ c # page.choice
  /\ page' = [page EXCEPT !.choice = c, !.shows = Reset(@)]
  /\ UNCHANGED <<world, changes, handoffs, requests, seen>>

Prepare ==
  /\ Idle
  /\ Send([asks |-> "prepare", choice |-> page.choice, at |-> "sent", record |-> NoRecord, handoff |-> 0])
  /\ page' = [page EXCEPT !.busy = Len(requests) + 1, !.shows = Reset(@)]
  /\ UNCHANGED <<world, changes, handoffs, seen>>

\* The clock of the page moves once a second, and may lag behind the service.
SeeExpired ==
  /\ page.shows.handoff # 0 /\ handoffs[page.shows.handoff].expired
  /\ Show([page.shows EXCEPT !.expired = TRUE])
  /\ UNCHANGED <<world, changes, handoffs, requests, seen>>

\* "I reviewed the complete text".
Tick ==
  /\ Idle /\ page.shows.handoff # 0 /\ ~page.shows.expired
  /\ Show([page.shows EXCEPT !.ack = ~@])
  /\ seen' = [seen EXCEPT ![page.shows.handoff] = IF @ = {} THEN {world} ELSE @]
  /\ UNCHANGED <<world, changes, handoffs, requests>>

AskToConfirm ==
  /\ Idle /\ page.shows.handoff # 0 /\ page.shows.ack /\ ~page.shows.expired /\ page.shows.command = 0
  /\ Send([asks |-> "confirm", choice |-> page.choice, at |-> "sent", record |-> NoRecord, handoff |-> page.shows.handoff])
  /\ page' = [page EXCEPT !.busy = Len(requests) + 1]
  /\ UNCHANGED <<world, changes, handoffs, seen>>

\* Back to the task and here again, or a reload under a new revision: a new page.
Remount ==
  /\ \E c \in Choices : page' = Opened(c)
  /\ UNCHANGED <<world, changes, handoffs, requests, seen>>

-----------------------------------------------------------------------------
(* The service.  Each step runs to its next await; the capture of the        *)
(* workspace is taken as one moment (see WorkspaceCapture).                  *)

At(n, asks, at) == requests[n].asks = asks /\ requests[n].at = at
Go(n, at) == requests' = [requests EXCEPT ![n].at = at]
End(n, handoff, at) == requests' = [requests EXCEPT ![n].at = at, ![n].record = NoRecord, ![n].handoff = handoff]
Refuse(n) == End(n, requests[n].handoff, "error")
Same == UNCHANGED <<world, changes, page, seen>>

\* prepareHandoff reads the task, its link and the source ...
ReadContext(n) ==
  /\ At(n, "prepare", "sent")
  /\ requests' = [requests EXCEPT ![n].record = world, ![n].at = "read"]
  /\ UNCHANGED handoffs /\ Same

\* ... captures the workspace ...
CaptureFiles(n) ==
  /\ At(n, "prepare", "read")
  /\ requests' = [requests EXCEPT ![n].record.files = world.files, ![n].at = "captured"]
  /\ UNCHANGED handoffs /\ Same

\* ... and again, to be sure of it ...
Review(n) ==
  /\ At(n, "prepare", "captured")
  /\ IF requests[n].record.files = world.files THEN Go(n, "reviewed") ELSE Refuse(n)
  /\ UNCHANGED handoffs /\ Same

\* ... and stores what it made of them, unless task or source have changed.
SaveHandoff(n) ==
  /\ At(n, "prepare", "reviewed")
  /\ IF StillCurrent(requests[n].record)
     THEN /\ handoffs' = Append(handoffs, [record |-> requests[n].record.record, files |-> requests[n].record.files,
                                           choice |-> requests[n].choice, state |-> "prepared", expired |-> FALSE, asReviewed |-> TRUE])
          /\ seen' = Append(seen, {})
          /\ End(n, Len(handoffs) + 1, "ok")
     ELSE Refuse(n) /\ UNCHANGED <<handoffs, seen>>
  /\ UNCHANGED <<world, changes, page>>

Confirmable(h) == handoffs[h].state \in {"prepared", "confirmed"}

\* confirmHandoff checks the record, captures the workspace ...
ReadHandoff(n) ==
  /\ At(n, "confirm", "sent")
  /\ LET h == requests[n].handoff IN
     IF StillCurrent(handoffs[h]) /\ ~handoffs[h].expired /\ Confirmable(h) THEN Go(n, "read") ELSE Refuse(n)
  /\ UNCHANGED handoffs /\ Same

CompareFiles(n) ==
  /\ At(n, "confirm", "read")
  /\ IF handoffs[requests[n].handoff].files = world.files THEN Go(n, "compared") ELSE Refuse(n)
  /\ UNCHANGED handoffs /\ Same

\* Weakened form: what was checked before the capture is not checked again.
StillOpen(h) == Confirmable(h)
MayConfirm(h) == StillCurrent(handoffs[h]) /\ ~handoffs[h].expired /\ Confirmable(h)

\* The user confirmed this text: it was ticked, since then the files were once
\* what it says, and task and source are that now.
AsReviewed(h) == StillCurrent(handoffs[h]) /\ \E w \in seen[h] : w.files = handoffs[h].files

\* ... and confirms in one transaction that checks the record again.
ConfirmHandoff(n) ==
  /\ At(n, "confirm", "compared")
  /\ LET h == requests[n].handoff IN
     IF MayConfirm(h)
     THEN /\ handoffs' = [handoffs EXCEPT ![h].state = "confirmed", ![h].asReviewed = @ /\ AsReviewed(h)]
          /\ Go(n, "ok")
     ELSE Refuse(n) /\ UNCHANGED handoffs
  /\ Same

\* The answer, or none at all: the service may have done what it was asked for
\* or go on with it.  Only the page that asked is changed by it.
Answered(n) ==
  /\ page.busy = n
  /\ \/ /\ requests[n].at = "ok"
        /\ page' = [page EXCEPT !.busy = 0, !.shows =
             IF requests[n].asks = "prepare" THEN [@ EXCEPT !.handoff = requests[n].handoff]
             ELSE [@ EXCEPT !.command = requests[n].handoff]]
     \/ page' = [page EXCEPT !.busy = 0]
  /\ UNCHANGED <<world, changes, handoffs, requests, seen>>

PageNext ==
  \/ Change \/ Prepare \/ SeeExpired \/ Tick \/ AskToConfirm \/ Remount
  \/ \E c \in Choices : Choose(c)
  \/ \E h \in DOMAIN handoffs : Expire(h) \/ Launch(h)
  \/ \E n \in DOMAIN requests :
       \/ ReadContext(n) \/ CaptureFiles(n) \/ Review(n) \/ SaveHandoff(n)
       \/ ReadHandoff(n) \/ CompareFiles(n) \/ ConfirmHandoff(n) \/ Answered(n)

PageSpec == PageInit /\ [][PageNext]_pageVars

-----------------------------------------------------------------------------
(* Properties                                                                *)

\* 13-local-server.md: a change of target, source, directory or mode clears the
\* preview and its command.  The page shows a handoff made for its choices, a
\* tick for the handoff it shows, and a command for one that was confirmed.
PageShowsItsHandoff ==
  LET h == page.shows.handoff IN
  /\ h # 0 => handoffs[h].choice = page.choice
  /\ page.shows.ack => h # 0 /\ seen[h] # {}
  /\ page.shows.command # 0 => page.shows.command = h /\ handoffs[h].state \in {"confirmed", "launching"}

\* 01-product-spec.md, F07: what was confirmed is what the user was shown, and a
\* change of the task or of the workspace makes it void.  However requests are
\* repeated, every confirmation was of a ticked text that still held.
ConfirmedAsReviewed ==
  \A h \in DOMAIN handoffs :
    /\ handoffs[h].asReviewed
    /\ handoffs[h].state # "prepared" => seen[h] # {}

\* The page never shows a preview, a tick or a command that belong to something
\* else, and only a text the user has ticked and that still holds is confirmed.
HandoffAsReviewed == PageShowsItsHandoff /\ ConfirmedAsReviewed
=============================================================================
