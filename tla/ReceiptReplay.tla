---------------------------- MODULE ReceiptReplay ----------------------------
(* What the projection of the control plane makes of runs, manifests,        *)
(* receipts and attention items: the rows of the event ledger are replayed   *)
(* over the manifest and the receipts that the store itself keeps.  Runs,    *)
(* manifests and attention follow the order the events claim (ordinal, time, *)
(* id), receipts the order of their arrival.  The id of an event is its      *)
(* place in the claimed order, and there is one handoff with one run.        *)
EXTENDS Integers, Sequences, FiniteSets

CONSTANTS
  MaxPlace,     \* bounds the places of events in their claimed order
  Observations, \* what the events of this instance say
  ReceiptIds, Nonces,
  Manifests,    \* contents of the handoff's manifest, told apart by digest
  RequestOf,    \* the request that the store gives each id: an id is its digest
  MaxRecords,   \* bounds the rows of the log and of the receipts together
  Unset

Places == 1 .. MaxPlace
Home == "home"
Stages == <<"received", "reported-complete", "verified-complete">>
StageNames == {Stages[n] : n \in DOMAIN Stages}
StageOrder(stage) == CHOOSE n \in DOMAIN Stages : Stages[n] = stage

\* A receipt is asked for a nonce, a manifest, a target and a last moment.
ReceiptInputs ==
  [nonce : Nonces, manifest : Manifests, target : {"target", "other"}, expires : {"past", "future"}]
Identity(r) == [nonce |-> r.nonce, manifest |-> r.manifest, target |-> r.target, expires |-> r.expires]
Receipt(input, stage, status) ==
  [nonce |-> input.nonce, manifest |-> input.manifest, target |-> input.target,
   expires |-> input.expires, stage |-> stage, status |-> status]

RunTypes == {"run.started", "run.ended", "run.progress"}
ReceiptTypes == {"receipt.requested", "receipt.confirmed", "receipt.rejected"}

\* Attention items are told apart by a kind and the event they are about.  The
\* log opens items of its own, one of which a warning of coverage has the id of.
CoverageOf(type) == <<type, Unset>>
AttentionItems == {<<"item", Unset>>, CoverageOf("run.ended")}

RowBodies ==
  [type : RunTypes] \cup [type : {"manifest.saved"}, content : Manifests, sound : BOOLEAN]
    \cup [type : {"attention.opened", "attention.resolved"}, item : AttentionItems]
    \cup [type : ReceiptTypes, receipt : ReceiptIds, stage : StageNames, input : ReceiptInputs]
    \cup [type : {"invalid"}]

\* What a run, a manifest and a receipt look like in a projection.
RunRecords == [fact : {"running", "ended", "unknown"},
               health : {"unverified", "coverage-gap", "current"}, by : Places]
ManifestRecords == [task : {Home, "away"}, content : Manifests]
ReceiptRecords == [nonce : Nonces, manifest : Manifests, target : {"target", "other"},
                   expires : {"past", "future"}, stage : StageNames,
                   status : {"unknown", "pending", "expired", "confirmed"}]

ASSUME ReplayAssumption ==
  /\ RequestOf \in [ReceiptIds -> ReceiptInputs] /\ {MaxPlace, MaxRecords} \subseteq Nat
  /\ Unset \notin ReceiptIds \cup Manifests \cup RunRecords \cup ManifestRecords \cup ReceiptRecords
  /\ Observations \subseteq
       [task : {Home, "away"}, kind : {"source-log", "agent-report"}, coverage : {"full", "partial"}, body : RowBodies]

VARIABLES
  arrivals, \* the rows of control_events, in the order of their arrival
  saved,    \* the manifest in context_manifests: it belongs to the task Home
  kept      \* the rows of handoff_receipts

replayVars == <<arrivals, saved, kept>>

-----------------------------------------------------------------------------
(* What is stored (the ledger's retries and conflicts are in ControlLedger,  *)
(* the rules for receipts and their confirmation in Receipts).               *)

WithinLimit == Len(arrivals) + Cardinality({r \in ReceiptIds : kept[r] # Unset}) < MaxRecords

Row(p, o) == [place |-> p, task |-> o.task, kind |-> o.kind, coverage |-> o.coverage, body |-> o.body]

Arrive(p, o) ==
  /\ WithinLimit /\ \A n \in DOMAIN arrivals : arrivals[n].place # p
  /\ arrivals' = Append(arrivals, Row(p, o))
  /\ UNCHANGED <<saved, kept>>

SaveManifest(m) == saved = Unset /\ saved' = m /\ UNCHANGED <<arrivals, kept>>

SaveReceipt(id) == LET input == RequestOf[id] IN
  /\ WithinLimit /\ input.manifest = saved /\ input.target = "target" /\ kept[id] = Unset
  /\ \A r \in ReceiptIds : kept[r] # Unset => kept[r].nonce # input.nonce
  /\ kept' = [kept EXCEPT ![id] =
       Receipt(input, "received", IF input.expires = "past" THEN "expired" ELSE "pending")]
  /\ UNCHANGED <<arrivals, saved>>

Confirm(id) ==
  /\ kept[id] # Unset /\ kept[id].status = "pending"
  /\ \E stage \in {"received", "verified-complete"} :
       kept' = [kept EXCEPT ![id].status = "confirmed", ![id].stage = stage]
  /\ UNCHANGED <<arrivals, saved>>

-----------------------------------------------------------------------------
(* project: first everything but receipts, in the order of the events.       *)

Warn(state, item) == IF \E i \in state.attention : i.id = item THEN state
                     ELSE [state EXCEPT !.attention = @ \cup {[id |-> item, open |-> TRUE]}]
WarnIf(state, condition, item) == IF condition THEN Warn(state, item) ELSE state

Health(e) ==
  IF e.kind = "agent-report" THEN "unverified" ELSE IF e.coverage # "full" THEN "coverage-gap" ELSE "current"
Fact(e) ==
  CASE e.body.type = "run.started" -> "running" [] e.body.type = "run.ended" -> "ended" [] OTHER -> "unknown"

ObserveRun(state, e) ==
  IF e.body.type \in RunTypes /\ (Fact(e) # "unknown" \/ state.run = Unset)
  THEN [state EXCEPT !.run = [fact |-> Fact(e), health |-> Health(e), by |-> e.place]] ELSE state

\* A manifest must belong to the task of its event, and the first one stays.
ObserveManifest(state, e) ==
  LET claimed == [task |-> e.task, content |-> e.body.content] IN
    IF e.body.type # "manifest.saved" THEN state
    ELSE IF ~e.body.sound THEN Warn(state, <<"manifest-integrity", e.place>>)
    ELSE IF state.manifest \notin {Unset, claimed} THEN Warn(state, <<"manifest-conflict", e.place>>)
    ELSE [state EXCEPT !.manifest = claimed]

ObserveAttention(state, e) ==
  IF e.body.type = "attention.opened" THEN Warn(state, e.body.item)
  ELSE IF e.body.type = "invalid" THEN Warn(state, <<"invalid-stored-event", e.place>>)
  ELSE IF e.body.type = "attention.resolved"
  THEN [state EXCEPT !.attention = {[i EXCEPT !.open = @ /\ i.id # e.body.item] : i \in state.attention}]
  ELSE state

Observe(state, e) ==
  LET observed == ObserveAttention(ObserveManifest(ObserveRun(state, e), e), e)
      covered == WarnIf(observed, e.coverage # "full" /\ e.body.type # "invalid", CoverageOf(e.body.type))
  IN WarnIf(covered, e.body.type = "run.ended" /\ e.kind = "agent-report", <<"unverified-completion", e.place>>)

-----------------------------------------------------------------------------
(* Then the receipts, in the order of arrival.                               *)

Fits(state, e) ==
  /\ state.manifest # Unset /\ state.manifest.content = e.body.input.manifest
  /\ e.body.input.target = "target" /\ e.task = state.manifest.task

\* Nothing that is replayed confirms or verifies.
ClaimsVerified(body) == body.stage = "verified-complete"
StageOf(body) == IF ClaimsVerified(body) THEN "reported-complete" ELSE body.stage
StatusOf(state, e) ==
  IF ~Fits(state, e) \/ ClaimsVerified(e.body) \/ e.body.type # "receipt.requested" THEN "unknown"
  ELSE IF e.body.input.expires = "past" THEN "expired" ELSE "pending"

Conflicts(state, e) ==
  LET current == state.receipts[e.body.receipt] IN
    \/ state.owner[e.body.input.nonce] \notin {Unset, e.body.receipt}
    \/ /\ current # Unset
       /\ Identity(current) # e.body.input \/ StageOrder(StageOf(e.body)) < StageOrder(current.stage)

Fixed(state, e) ==
  LET current == state.receipts[e.body.receipt] IN
    \/ e.body.receipt \in state.persisted
    \/ current # Unset /\ (~Fits(state, e) \/ current.status \in {"expired", "rejected"})

Receive(state, e) ==
  LET body == e.body
      warned == WarnIf(WarnIf(state, ~Fits(state, e), <<"receipt-integrity", e.place>>),
                       ClaimsVerified(body), <<"unverified-completion", e.place>>)
  IN IF Conflicts(state, e) THEN Warn(warned, <<"receipt-conflict", e.place>>)
     ELSE IF Fixed(state, e) THEN warned
     ELSE [warned EXCEPT
             !.receipts[body.receipt] = Receipt(body.input, StageOf(body), StatusOf(state, e)),
             !.owner[body.input.nonce] = IF Fits(state, e) THEN body.receipt ELSE @]

-----------------------------------------------------------------------------
(* projectState of a task, or of everything.                                 *)

Views == {Home, "away", "everything"}
InView(view, e) == view = "everything" \/ e.task = view
Sees(view) == view # "away" /\ saved # Unset

OwnerOf(n, these) == IF \E r \in ReceiptIds : these[r] # Unset /\ these[r].nonce = n
                     THEN CHOOSE r \in ReceiptIds : these[r] # Unset /\ these[r].nonce = n ELSE Unset

Prepared(view) ==
  LET receipts == IF Sees(view) THEN kept ELSE [r \in ReceiptIds |-> Unset] IN
    [run |-> Unset, attention |-> {}, receipts |-> receipts,
     persisted |-> {r \in ReceiptIds : receipts[r] # Unset},
     owner |-> [n \in Nonces |-> OwnerOf(n, receipts)],
     manifest |-> IF Sees(view) THEN [task |-> Home, content |-> saved] ELSE Unset]

\* The row that claims a place, if there is one and the view takes it.
AfterPlace(state, view, all, p) ==
  LET there == {n \in DOMAIN all : all[n].place = p /\ InView(view, all[n])} IN
    IF there = {} THEN state ELSE Observe(state, all[CHOOSE n \in there : TRUE])

Observed(view, all) ==
  LET upTo[p \in 0 .. MaxPlace] ==
        IF p = 0 THEN Prepared(view) ELSE AfterPlace(upTo[p - 1], view, all, p)
  IN upTo

\* Weakened form: receipts follow the order their events claim.
NthAsClaimed(all, n) ==
  all[CHOOSE m \in DOMAIN all : Cardinality({k \in DOMAIN all : all[k].place < all[m].place}) = n - 1]
NthArrival(all, n) == all[n]

IsReceipt(e) == e.body.type \in ReceiptTypes
AfterArrival(state, view, e) == IF IsReceipt(e) /\ InView(view, e) THEN Receive(state, e) ELSE state

Received(view, all) ==
  LET upTo[n \in 0 .. Len(all)] ==
        IF n = 0 THEN Observed(view, all)[MaxPlace] ELSE AfterArrival(upTo[n - 1], view, NthArrival(all, n))
  IN upTo

Shown(view, all) == Received(view, all)[Len(all)]

-----------------------------------------------------------------------------
\* A row of an older build that no longer parses may be there from the start.
Unreadable(p, t) ==
  [place |-> p, task |-> t, kind |-> "source-log", coverage |-> "full", body |-> [type |-> "invalid"]]

ReplayInit ==
  /\ arrivals \in {<<>>} \cup {<<Unreadable(p, t)>> : p \in Places, t \in {Home, "away"}}
  /\ saved = Unset /\ kept = [r \in ReceiptIds |-> Unset]

ReplayNext ==
  \/ \E p \in Places, o \in Observations : Arrive(p, o)
  \/ \E m \in Manifests : SaveManifest(m)
  \/ \E id \in ReceiptIds : SaveReceipt(id) \/ Confirm(id)

ReplaySpec == ReplayInit /\ [][ReplayNext]_replayVars

-----------------------------------------------------------------------------
(* Properties                                                                *)

Warned(shown, place) == \E i \in shown.attention : i.id[2] = place

\* A replayed log vouches for nothing: what the store keeps is shown as it is
\* kept, and no other receipt is confirmed or verified.  One that is pending is
\* the only one of its nonce and fits the manifest of its task.
VouchesForNothing(view) ==
  LET shown == Shown(view, arrivals) IN
    /\ Sees(view) => shown.manifest = [task |-> Home, content |-> saved]
    /\ \A r \in ReceiptIds : LET receipt == shown.receipts[r] IN
         IF Sees(view) /\ kept[r] # Unset THEN receipt = kept[r]
         ELSE receipt # Unset =>
           /\ receipt.status \in {"unknown", "pending", "expired"} /\ receipt.stage # "verified-complete"
           /\ receipt.status = "pending" =>
                /\ shown.manifest.content = receipt.manifest /\ receipt.target = "target"
                /\ \A q \in ReceiptIds \ {r} :
                     shown.receipts[q] # Unset /\ shown.receipts[q].nonce = receipt.nonce
                       => shown.receipts[q].status = "unknown"

\* What a log says is shown, or there is a warning that names its event;
\* an end of the run that is not observed in full is warned about as well.
NothingDropped(view) ==
  LET shown == Shown(view, arrivals) IN
    /\ \A n \in DOMAIN arrivals : LET e == arrivals[n] IN InView(view, e) =>
         /\ IsReceipt(e) => Warned(shown, e.place) \/ Identity(shown.receipts[e.body.receipt]) = e.body.input
         /\ e.body.type = "manifest.saved" =>
              Warned(shown, e.place) \/ shown.manifest = [task |-> e.task, content |-> e.body.content]
         /\ e.body.type = "invalid" => Warned(shown, e.place)
    /\ shown.run # Unset /\ shown.run.fact = "ended" /\ shown.run.health # "current" =>
         Warned(shown, shown.run.by) \/ \E i \in shown.attention : i.id = CoverageOf("run.ended")

ReplaySound == \A view \in Views : VouchesForNothing(view) /\ NothingDropped(view)

\* reducer.ts:179: "Receipt identity follows ledger arrival order.  A later
\* import can claim an earlier ordinal, but cannot use it to replace the first
\* identity."  Of a handoff whose manifest is kept, the row that arrived last has
\* taken no receipt away, given none another identity and moved no stage back.
IdentitiesStand ==
  saved # Unset /\ arrivals # <<>> =>
    \A view \in Views \ {"away"} :
      LET before == Shown(view, SubSeq(arrivals, 1, Len(arrivals) - 1)).receipts
          after == Shown(view, arrivals).receipts IN
        \A r \in ReceiptIds : before[r] # Unset =>
          /\ after[r] # Unset /\ Identity(after[r]) = Identity(before[r])
          /\ StageOrder(after[r].stage) >= StageOrder(before[r].stage)

ReplayTrusted == ReplaySound /\ IdentitiesStand
=============================================================================
