----------------------------- MODULE MCWorkbench -----------------------------
EXTENDS Workbench

CONSTANTS t1, t2, s1, s2, p1, p2, w1, w2

MCProjectOf == t1 :> p1 @@ t2 :> p1
MCSessionOf == 1 :> s1 @@ 2 :> s1 @@ 3 :> s2
MCRank == s1 :> 1 @@ s2 :> 2 @@ t1 :> 3 @@ t2 :> 4

Scope(w, path) == [workspace |-> w, path |-> path]
Draft(topic, text, scope, applies) ==
  [topic |-> topic, text |-> text, scope |-> scope, applies |-> applies]

MCDrafts ==
  {Draft("x", "p", Scope(None, <<>>), TRUE),
   Draft("x", "q", Scope(w1, <<"a">>), TRUE),
   Draft("y", "p", Scope(w1, <<"a", "b">>), FALSE)}

Budget(edit, link, index, ledger_, preview, look) ==
  [edit |-> edit, link |-> link, index |-> index, ledger |-> ledger_,
   preview |-> preview, look |-> look]

\* One budget per question, so that the state spaces add up.
EditBudgets == {Budget(4, 1, 0, 0, 0, 0), Budget(3, 1, 2, 0, 0, 0)}
LedgerBudgets == {Budget(1, 0, 0, 3, 0, 0), Budget(1, 0, 0, 2, 1, 0)}
SearchBudgets == {Budget(1, 1, 2, 0, 0, 3), Budget(0, 0, 3, 0, 0, 2)}
MCBudgets == EditBudgets \cup LedgerBudgets \cup SearchBudgets

MCBoundAtFirst == {s1 :> None @@ s2 :> None, s1 :> None @@ s2 :> p2}

ClientSymmetry == Permutations(Clients)
=============================================================================
