------------------------------ MODULE MCRecord ------------------------------
(* What ThreadPort holds to be so: takeovers of two runs, the ledger of      *)
(* control events, the index runs, what a task page derives from its         *)
(* sessions, and what the settings pages say of all that.  The parts share   *)
(* no variable, so a behaviour exercises one of them (part) while the others *)
(* rest in one initial state.                                                *)
EXTENDS Takeover, IndexScheduler, SettingsPage, ControlLedger, TaskDerivation, TLC

CONSTANTS reviewer, s1, x, y, link1, link2, k

VARIABLE part

-----------------------------------------------------------------------------
(* The events: claims on one lineage relation and one responsibility.        *)

Lineage(link, level, status) ==
  [type |-> "lineage.relation", subject |-> s1, link |-> link, level |-> level, status |-> status]
Responsibility(type, owner, roles) ==
  [type |-> type, subject |-> s1, owner |-> owner, roles |-> roles]

Confirmation == Responsibility("responsibility.confirmed", x, << >>)

SomeClaims ==
  { Lineage(l, "user-confirmed", "confirmed") : l \in {link1, link2} } \cup
  { Lineage(link1, "inferred", "candidate"), Lineage(link2, "inferred", "rejected"),
    Confirmation,
    Responsibility("responsibility.confirmed", None, reviewer :> y),
    Responsibility("responsibility.proposed", y, reviewer :> y),
    Responsibility("responsibility.ended", None, << >>) }

Event(i, c) == [id |-> i, key |-> None, kind |-> "user", text |-> "plain", claim |-> c]

\* One claim also comes with a key, from a log, and with two credentials.
Plain == {Event(i, c) : i \in 1 .. MaxId, c \in SomeClaims}
Variants ==
  {[Event(i, Confirmation) EXCEPT !.key = k] : i \in {1, 2}} \cup
  {[Event(1, Confirmation) EXCEPT !.kind = kind] : kind \in {"source-log", "agent-report"}} \cup
  {[Event(1, Confirmation) EXCEPT !.text = t] : t \in {"secret one", "secret two"}}

SomeEvents == Plain \cup Variants
\* Single events, and pairs that may repeat or contradict themselves.
SomeBatches == {<<e>> : e \in SomeEvents} \cup {<<e, f>> : e \in {Event(3, Confirmation)}, f \in Variants}

-----------------------------------------------------------------------------
\* Two clicks, or one and a service that stops.
MCChances == {[clicks |-> 2, stops |-> 0], [clicks |-> 1, stops |-> 1]}

-----------------------------------------------------------------------------
MCInit ==
  /\ part \in {"takeover", "ledger", "index", "derivation", "settings"}
  /\ TakeoverInit /\ LedgerInit /\ Init /\ DerivationInit /\ SettingsInit
  /\ part # "index" => timer
  /\ part # "derivation" => attached = {}
  /\ part # "settings" => chances.stops = 0

TakingOver == part = "takeover" /\ TakeoverNext
  /\ UNCHANGED <<part, ledgerVars, vars, derivationVars, settingsVars>>
Recording == part = "ledger" /\ LedgerNext
  /\ UNCHANGED <<part, takeoverVars, vars, derivationVars, settingsVars>>
Indexing == part = "index" /\ Next
  /\ UNCHANGED <<part, takeoverVars, ledgerVars, derivationVars, settingsVars>>
Deriving == part = "derivation" /\ DerivationNext
  /\ UNCHANGED <<part, takeoverVars, ledgerVars, vars, settingsVars>>
Setting == part = "settings" /\ SettingsNext
  /\ UNCHANGED <<part, takeoverVars, ledgerVars, vars, derivationVars>>

MCNext == TakingOver \/ Recording \/ Indexing \/ Deriving \/ Setting
MCSpec == MCInit /\ [][MCNext]_<<part, takeoverVars, ledgerVars, vars, derivationVars, settingsVars>>

=============================================================================
