------------------------------- MODULE MCKept -------------------------------
(* What ThreadPort keeps: its data directory, the files it publishes, the    *)
(* evidence of commands and claims, and what the replay of its event log     *)
(* shows of manifests and receipts.  The parts share no variable, so a       *)
(* behaviour exercises one of them (part) while the others rest in one       *)
(* initial state.                                                            *)
EXTENDS DataDirectory, AtomicPublish, Evidence, ReceiptReplay, TLC

CONSTANTS
  ra, rb, n1, n2, m1, m2

VARIABLES
  part

everything == <<part, vars, publishVars, evidenceVars, replayVars>>

-----------------------------------------------------------------------------
(* The rows of the replay: one of each kind that a rule of it tells apart.   *)

Asked(nonce, target, expires) == [nonce |-> nonce, manifest |-> m1, target |-> target, expires |-> expires]
Good == Asked(n1, "target", "future")
Ids == (ra :> Good) @@ (rb :> Asked(n2, "target", "past"))

Seen(body) == [task |-> "home", kind |-> "source-log", coverage |-> "full", body |-> body]
Requested(r, stage, input) ==
  Seen([type |-> "receipt.requested", receipt |-> r, stage |-> stage, input |-> input])
SavedManifest(m, sound) == Seen([type |-> "manifest.saved", content |-> m, sound |-> sound])

SomeRows ==
  { Requested(ra, stage, Good) : stage \in {"received", "reported-complete", "verified-complete"} } \cup
  { Requested(rb, "reported-complete", Good), Requested(rb, "received", Ids[rb]),
    Requested(ra, "received", Asked(n2, "other", "future")),
    [Requested(ra, "received", Good) EXCEPT !.task = "away"],
    [Requested(rb, "received", Good) EXCEPT !.body.type = "receipt.confirmed"],
    SavedManifest(m1, TRUE), SavedManifest(m2, TRUE), SavedManifest(m1, FALSE),
    [SavedManifest(m1, TRUE) EXCEPT !.task = "away"],
    Seen([type |-> "run.started"]), [Seen([type |-> "run.ended"]) EXCEPT !.coverage = "partial"],
    [Seen([type |-> "run.ended"]) EXCEPT !.coverage = "partial", !.kind = "agent-report"] } \cup
  { Seen([type |-> t, item |-> CoverageOf("run.ended")]) : t \in {"attention.opened", "attention.resolved"} }

-----------------------------------------------------------------------------
Bounds(observed, claims, stored) == [runs |-> observed, claims |-> claims, snapshots |-> stored]

\* One observed process, or one claim and no process.
EvidenceBudgets == {Bounds(1, 0, 3), Bounds(0, 1, 2)}

-----------------------------------------------------------------------------
MCInit ==
  /\ part \in {"directory", "publication", "evidence", "replay"}
  /\ Init /\ PublishInit /\ EvidenceInit /\ ReplayInit
  /\ part # "directory" => main = NoFile
  /\ part # "publication" => kind = [w \in Writers |-> "export"]
  /\ part # "evidence" =>
       /\ ~logged /\ bounds.runs = 0
       /\ \A w \in Workspaces : subject[w] = CHOOSE c \in Subjects : TRUE
  /\ part # "replay" => arrivals = <<>>

Keeping == part = "directory" /\ Next /\ UNCHANGED <<part, publishVars, evidenceVars, replayVars>>
Publishing == part = "publication" /\ PublishNext /\ UNCHANGED <<part, vars, evidenceVars, replayVars>>
Proving == part = "evidence" /\ EvidenceNext /\ UNCHANGED <<part, vars, publishVars, replayVars>>
Replaying == part = "replay" /\ ReplayNext /\ UNCHANGED <<part, vars, publishVars, evidenceVars>>

MCNext == Keeping \/ Publishing \/ Proving \/ Replaying
MCSpec == MCInit /\ [][MCNext]_everything

Symmetry ==
  Permutations(Processes) \cup Permutations(Files) \cup Permutations(Items) \cup Permutations(Subjects)

=============================================================================
