------------------------------ MODULE MCReading ------------------------------
(* What ThreadPort reads while an agent writes it: the index of its log, and *)
(* below it the reader of one page.  The two share no variable here, so a    *)
(* behaviour exercises one of them (part) while the other rests in one       *)
(* initial state.                                                            *)
EXTENDS MCIndexCommit, LogReader

VARIABLES part

MCInit ==
  /\ part \in {"commit", "page"}
  /\ Init /\ ReaderInit

Committing == part = "commit" /\ Next /\ UNCHANGED <<part, readerVars>>
Paging == part = "page" /\ ReaderNext /\ UNCHANGED <<part, vars>>

MCNext == Committing \/ Paging
MCSpec == MCInit /\ [][MCNext]_<<part, vars, readerVars>>
=============================================================================
