------------------------------ MODULE Receipts ------------------------------
(* The receipts of the control plane (storage/control-plane-store.ts): a     *)
(* prepared manifest is saved once for a handoff, the target hands in        *)
(* receipts for it, a verifier attests to what it checked, and a receipt is  *)
(* confirmed by attestations.  Each of the four is one transaction; only     *)
(* saveReceipt reads the clock before it has the database.  The clock is the *)
(* wall clock and may be set to any time.                                    *)
(*                                                                           *)
(* A digest stands for its content: the digest of a manifest is the manifest *)
(* and the id of a receipt is the request it was made from.                  *)
EXTENDS Naturals, Sequences, FiniteSets

CONSTANTS
  Callers,          \* processes that hand in receipts
  Handoffs,
  Contents,         \* what a manifest may say
  Targets,          \* a session and its run
  NoValue,             \* no manifest, no target, no time
  Nonces,
  InputStages,      \* the stages requests ask for
  Expiries,
  MaxTime,          \* bound of the clock
  MaxAttestations   \* bound of the attestations

\* The order of contracts.ts, with prepared for the four stages before it.
StageOrder == [prepared |-> 0, received |-> 1, reported |-> 2, verified |-> 3]
Stages == DOMAIN StageOrder
Moments == 0 .. MaxTime

Manifests == [content : Contents, target : Targets \cup {NoValue}]
Requests == [handoff : Handoffs, manifest : Manifests, target : Targets,
             stage : InputStages, nonce : Nonces, expires : Expiries]

ReceiptsAssumption ==
  /\ MaxTime \in Nat /\ MaxAttestations \in Nat
  /\ NoValue \notin Targets \cup Moments \cup Manifests
  /\ InputStages \subseteq Stages /\ Expiries \subseteq Moments

NoCall == [state |-> "idle"]

VARIABLES
  clock,
  manifest,        \* of every handoff
  receipts,        \* the rows of handoff_receipts by receipt id
  attestations,    \* in the order they were recorded
  handing             \* of every caller: idle, waiting to save, or answered

receiptVars == <<clock, manifest, receipts, attestations, handing>>

-----------------------------------------------------------------------------
(* Reading a row                                                             *)

\* Weakened form: an attestation of any receipt counts.
AttestationForAny(a, q, stage) == a.stage = stage
AttestationFor(a, q, stage) == a.receipt = q /\ a.stage = stage

Attested(q, stage, ids, at) ==
  /\ manifest[q.handoff] = q.manifest
  /\ ids # {} /\ at < q.expires
  /\ \A i \in ids :
       /\ i \in DOMAIN attestations
       /\ AttestationFor(attestations[i], q, stage)
       /\ receipts[q].created <= attestations[i].at /\ attestations[i].at <= at

\* Weakened form: the evidence is judged by the time of the reading.
ConfirmationHoldsNow(q) == Attested(q, receipts[q].stage, receipts[q].evidence, clock)
ConfirmationHolds(q) ==
  /\ receipts[q].confirmed # NoValue
  /\ Attested(q, receipts[q].stage, receipts[q].evidence, receipts[q].confirmed)

\* rowReceipt: what every caller of the store sees of a row.
Reading(q) ==
  LET row == receipts[q]
      trusting == row.status = "confirmed" \/ row.stage = "verified"
      expired == row.status = "pending" /\ q.expires <= clock
  IN IF trusting /\ ~ConfirmationHolds(q)
     THEN [stage |-> IF row.stage = "verified" THEN "reported" ELSE row.stage, status |-> "unknown"]
     ELSE [stage |-> row.stage, status |-> IF expired THEN "expired" ELSE row.status]

-----------------------------------------------------------------------------
\* A row confirmed by a release that had no attestations.
Legacy(q, stage) ==
  [r \in {q} |-> [stage |-> stage, status |-> "confirmed", created |-> 0, confirmed |-> 0, evidence |-> {0}]]

ReceiptsInit ==
  /\ clock = 0
  /\ attestations = << >>
  /\ handing = [c \in Callers |-> NoCall]
  /\ \/ manifest = [h \in Handoffs |-> NoValue] /\ receipts = << >>
     \/ \E q \in Requests, stage \in {"received", "verified"} :
          /\ q.target = q.manifest.target /\ StageOrder[q.stage] <= StageOrder[stage] /\ q.stage # "verified"
          /\ manifest = [h \in Handoffs |-> IF h = q.handoff THEN q.manifest ELSE NoValue]
          /\ receipts = Legacy(q, stage)

SetClock(t) ==
  /\ clock' = t
  /\ UNCHANGED <<manifest, receipts, attestations, handing>>

NotYetSaved(h) == manifest[h] = NoValue

SaveManifest(h, m) ==
  /\ NotYetSaved(h)
  /\ manifest' = [manifest EXCEPT ![h] = m]
  /\ UNCHANGED <<clock, receipts, attestations, handing>>

-----------------------------------------------------------------------------
(* saveReceipt                                                               *)

\* Weakened form: a target may claim the verification itself.
AnyInput(q) == TRUE
InputAllowed(q) == q.stage # "verified"

\* Before the transaction: the input is checked and createdAt is taken.
AskReceipt(c, q) ==
  /\ InputAllowed(q)
  /\ handing' = [handing EXCEPT ![c] = [state |-> "waiting", request |-> q, at |-> clock]]
  /\ UNCHANGED <<clock, manifest, receipts, attestations>>

Accepted(q) == manifest[q.handoff] = q.manifest /\ q.manifest.target = q.target

SameNonce(q) == {r \in DOMAIN receipts : r.handoff = q.handoff /\ r.nonce = q.nonce}

\* Weakened form: what identifies a receipt leaves its stage out.
SameIdentity(r, q) == [r EXCEPT !.stage = q.stage] = q
SameRequest(r, q) == r = q

Give(c, r) == handing' = [handing EXCEPT ![c] = [state |-> "answered", request |-> @.request, receipt |-> r]]

InsertReceipt(c) ==
  LET q == handing[c].request IN
  /\ handing[c].state = "waiting" /\ Accepted(q)
  /\ SameNonce(q) = {}
  /\ receipts' = [r \in DOMAIN receipts \cup {q} |->
                     IF r \in DOMAIN receipts THEN receipts[r]
                     ELSE [stage |-> q.stage, status |-> IF q.expires <= clock THEN "expired" ELSE "pending",
                           created |-> handing[c].at, confirmed |-> NoValue, evidence |-> {}]]
  /\ Give(c, q)
  /\ UNCHANGED <<clock, manifest, attestations>>

RepeatReceipt(c) ==
  /\ handing[c].state = "waiting" /\ Accepted(handing[c].request)
  /\ \E r \in SameNonce(handing[c].request) : SameRequest(r, handing[c].request) /\ Give(c, r)
  /\ UNCHANGED <<clock, manifest, receipts, attestations>>

RefuseReceipt(c) ==
  LET q == handing[c].request IN
  /\ handing[c].state = "waiting"
  /\ ~Accepted(q) \/ \E r \in SameNonce(q) : ~SameRequest(r, q)
  /\ handing' = [handing EXCEPT ![c] = NoCall]
  /\ UNCHANGED <<clock, manifest, receipts, attestations>>

-----------------------------------------------------------------------------
(* recordReceiptAttestation and confirmReceipt                               *)

\* The verifier names the receipt, its manifest, task and target; anything but
\* what is stored is refused.
Attest(q, stage) ==
  LET now == Reading(q) IN
  /\ q \in DOMAIN receipts /\ manifest[q.handoff] = q.manifest
  /\ q.expires > clock /\ now.status # "expired"
  /\ now # [stage |-> "verified", status |-> "confirmed"]
  /\ StageOrder[stage] >= StageOrder[now.stage]
  /\ Len(attestations) < MaxAttestations
  /\ attestations' = Append(attestations, [receipt |-> q, stage |-> stage, at |-> clock])
  /\ UNCHANGED <<clock, manifest, receipts, handing>>

Forward(now, stage) ==
  /\ StageOrder[stage] >= StageOrder[now.stage]
  /\ now.status = "confirmed" => StageOrder[stage] > StageOrder[now.stage]

\* A repeated confirmation is answered without a change.
Confirm(q, stage, ids) ==
  /\ q \in DOMAIN receipts
  /\ Reading(q).status # "expired" /\ clock < q.expires
  /\ Forward(Reading(q), stage)
  /\ Attested(q, stage, ids, clock)
  /\ receipts' = [receipts EXCEPT ![q] = [@ EXCEPT
       !.stage = stage, !.status = "confirmed", !.confirmed = clock, !.evidence = ids]]
  /\ UNCHANGED <<clock, manifest, attestations, handing>>

-----------------------------------------------------------------------------
AttestedStages == {"received", "verified"}

ReceiptsNext ==
  \/ \E t \in Moments : SetClock(t)
  \/ \E h \in Handoffs, m \in Manifests : SaveManifest(h, m)
  \/ \E c \in Callers :
       \/ \E q \in Requests : AskReceipt(c, q)
       \/ InsertReceipt(c) \/ RepeatReceipt(c) \/ RefuseReceipt(c)
  \/ \E q \in DOMAIN receipts, stage \in AttestedStages :
       \/ Attest(q, stage)
       \/ \E ids \in SUBSET DOMAIN attestations : Confirm(q, stage, ids)

ReceiptsSpec == ReceiptsInit /\ [][ReceiptsNext]_receiptVars

-----------------------------------------------------------------------------
(* Properties                                                                *)

Rows == [stage : Stages, status : {"pending", "expired", "confirmed"}, created : Moments,
         confirmed : Moments \cup {NoValue}, evidence : SUBSET Nat]

\* Rows keep their types, and verified is the stage of confirmed rows only.
ReceiptsTypes ==
  /\ clock \in Moments
  /\ manifest \in [Handoffs -> Manifests \cup {NoValue}]
  /\ DOMAIN receipts \subseteq Requests /\ IsFiniteSet(DOMAIN receipts)
  /\ \A q \in DOMAIN receipts :
       /\ receipts[q] \in Rows
       /\ receipts[q].stage = "verified" => receipts[q].status = "confirmed"
  /\ attestations \in Seq([receipt : Requests, stage : AttestedStages, at : Moments])

ReadAsConfirmed(q) == q \in DOMAIN receipts /\ Reading(q).status = "confirmed"

\* control-plane-store.ts: "Confirmation requires stored attestations for this
\* receipt and stage."  No sequence of receipts, attestations for other
\* receipts and stages, legacy rows and clock changes yields a confirmed reading
\* that no verifier attested to.
VerifiedMeansAttested ==
  \A q \in DOMAIN receipts :
    LET now == Reading(q) IN
    now.status = "confirmed" \/ now.stage = "verified" =>
      \E i \in DOMAIN attestations :
        attestations[i].receipt = q /\ attestations[i].stage = now.stage
        /\ attestations[i].at < q.expires

\* What a reader is shown only advances: a receipt once read as confirmed stays
\* confirmed, after its expiry and whatever the clock is set to, and the stage
\* of no receipt goes back.
ReadingsOnlyAdvance ==
  [][\A q \in DOMAIN receipts :
       /\ ReadAsConfirmed(q) => ReadAsConfirmed(q)'
       /\ StageOrder[Reading(q).stage] <= StageOrder[Reading(q).stage']]_receiptVars

\* A nonce used again for another request is refused: a caller is never given
\* the receipt of a request it did not make.
AnswerFitsRequest ==
  \A c \in Callers : handing[c].state = "answered" => handing[c].receipt = handing[c].request

\* What a caller is given and a reader is shown rests on what was asked for and
\* attested to.
ReceiptsTrusted == VerifiedMeansAttested /\ AnswerFitsRequest
=============================================================================
