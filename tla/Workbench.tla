------------------------------ MODULE Workbench ------------------------------
(* One local database under the task service, the assertion ledger, the      *)
(* history search and the indexer: every writer moves the others' ground.    *)
EXTENDS AssertionLedger, HistorySearch

vars == <<storeVars, ledgerVars, searchVars>>

Init == StoreInit /\ LedgerInit /\ SearchInit

\* Everything the service does to tasks leaves the projection alone.
Editing ==
  /\ EditNext
  /\ UNCHANGED <<ledgerVars, activity, projection, dirty, tab>>
  /\ Bump

Deciding ==
  /\ LedgerNext
  /\ UNCHANGED <<activity, projection, dirty, tab>>
  /\ Bump

Index ==
  \E s \in Sessions, at \in Times, batch \in SUBSET Events, reset \in BOOLEAN :
    /\ batch # {} \/ reset
    /\ IndexBatch(s, batch, reset)
    /\ Indexed(s, at) /\ Bump
    /\ UNCHANGED <<ledgerVars, tab>>

Import ==
  \E e \in Events :
    /\ ImportEvent(e)
    /\ UNCHANGED <<ledgerVars, activity, tab>>
    /\ Marked /\ Bump

\* clearIndex: the sessions are emptied and lose their time of activity.
Clear ==
  /\ ClearEvents
  /\ activity' = [s \in Sessions |-> 0]
  /\ Marked /\ generation' = generation + 1
  /\ UNCHANGED <<ledgerVars, tab>>

Searching == TabNext /\ UNCHANGED ledgerVars

Next == Editing \/ Deciding \/ Index \/ Import \/ Clear \/ Searching

Spec == Init /\ [][Next]_vars

\* Every table and every page holds values of its kind.
TypeOK ==
  /\ StoreTypeOK
  /\ \A v \in ledger : /\ v.task \in Tasks /\ v.state \in States
                       /\ v.taskRevision \in 1..Revision(v.task)
  /\ activity \in [Sessions -> Times]
  /\ projection \in [Sessions -> SUBSET Events] /\ dirty \in [Sessions -> BOOLEAN]
  /\ generation \in Nat /\ tab.index \in DOMAIN tab.cursors
=============================================================================
