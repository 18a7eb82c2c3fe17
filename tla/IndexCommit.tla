----------------------------- MODULE IndexCommit -----------------------------
(* How one session log reaches the index: index runs of several processes    *)
(* (indexing/service.ts, run and consume) read pages of the log outside any   *)
(* transaction and commit batches under a lease with a compare-and-set on    *)
(* the stored cursor (storage/index-store.ts), while the log grows, is        *)
(* rewritten, replaced or removed, leases expire, runs crash, the index is    *)
(* cleared and observations are imported into the same session.               *)
(* A record of the log yields one event.  The checkpoint of a cursor (hashes  *)
(* of the head and the tail of what was consumed) is modelled by the consumed *)
(* prefix itself, which is exact for logs inside the hashed windows.          *)
EXTENDS FiniteSets, FiniteSetsExt, Integers, Sequences

CONSTANTS
  Owners,     \* index runs, each with a lease owner id of its own
  Values,     \* what a record of the log says
  Imports,    \* event ids of imported inner observations
  BatchMax,   \* events of one transaction (100 in the code)
  MaxLen,     \* bound: records in the log
  MaxEdits,   \* bound: changes of the log
  MaxFaults,  \* bound: failures of runs and leases
  Troubles,   \* bound: the kinds of trouble an instance exercises
  Nobody,     \* no lease
  NoCursor,   \* the session has no stored cursor
  NoFile      \* the log does not exist

ASSUME CommitAssumption ==
  /\ BatchMax \in Nat \ {0}
  /\ MaxLen \in Nat /\ MaxEdits \in Nat \ {0} /\ MaxFaults \in Nat
  /\ Nobody \notin Owners
  /\ NoCursor \notin [file : Nat, seen : Seq(Values)]
  /\ NoFile \notin [id : Nat, records : Seq(Values)]
  /\ \A k \in Imports : k \notin Nat \X Values
  /\ Troubles \subseteq {"crash", "expire", "cancel", "unreadable", "unreadable later", "rewrite",
                      "import", "clear"}

VARIABLES
  file,    \* the log: its identity and its complete records, or NoFile
  edits,   \* changes of the log so far; also the last identity used
  tampered, \* history: the log did more than grow, or the index was cleared
  known,   \* the session row exists
  cursor,  \* source_cursors.cursor_json
  rows,    \* events of the session: id and ordinal
  lease,   \* index_leases row of the source: owner, and whether still valid
  scan,    \* scan[o]: the local state of one consume()
  faults   \* failures so far

vars == <<file, edits, tampered, known, cursor, rows, lease, scan, faults>>

log == <<file, edits, tampered>>
index == <<known, cursor, rows>>

Pcs == {"idle", "leased", "read", "commit", "unreadable", "end"}

\* The row of the i-th record: its id is a hash of position and content.
Row(i, v) == [id |-> <<i, v>>, ord |-> i - 1]

RowsOf(records) == {Row(i, records[i]) : i \in 1..Len(records)}

Start == [file |-> 0, seen |-> <<>>]  \* where a read without a cursor begins

IdleScan ==
  [pc |-> "idle", committed |-> NoCursor, cursor |-> NoCursor,
   batch |-> {}, reset |-> FALSE, more |-> FALSE]

IsPrefix(p, q) == Len(p) <= Len(q) /\ p = SubSeq(q, 1, Len(p))

Init ==
  /\ file = [id |-> 1, records |-> <<>>]
  /\ edits = 1 /\ tampered = FALSE
  /\ known = FALSE /\ cursor = NoCursor /\ rows = {}
  /\ lease = [owner |-> Nobody, valid |-> FALSE]
  /\ scan = [o \in Owners |-> IdleScan]
  /\ faults = 0

Fault(kind) ==
  /\ kind \in Troubles
  /\ faults < MaxFaults
  /\ faults' = faults + 1

-----------------------------------------------------------------------------
(* One index run                                                             *)

\* Weakened form: a row of a dead owner blocks the source for good.
AcquireUnowned(o) ==
  /\ scan[o].pc = "idle"
  /\ lease.owner = Nobody
  /\ lease' = [owner |-> o, valid |-> TRUE]
  /\ scan' = [scan EXCEPT ![o].pc = "leased"]
  /\ UNCHANGED <<log, index, faults>>

\* acquireIndexLease: an expired row is deleted first.
Acquire(o) ==
  /\ scan[o].pc = "idle"
  /\ ~lease.valid
  /\ lease' = [owner |-> o, valid |-> TRUE]
  /\ scan' = [scan EXCEPT ![o].pc = "leased"]
  /\ UNCHANGED <<log, index, faults>>

\* consume() reads the stored session and cursor.
Load(o) ==
  /\ scan[o].pc = "leased"
  /\ scan' = [scan EXCEPT ![o].pc = "read", ![o].committed = cursor,
                          ![o].cursor = cursor, ![o].reset = known /\ cursor = NoCursor]
  /\ UNCHANGED <<log, index, lease, faults>>

\* readJsonl starts over when the cursor is not one of this file's.
SourceReset(c) ==
  c # NoCursor /\ (c.file # file.id \/ ~IsPrefix(c.seen, file.records))

\* Weakened form: the events read before the reset stay in the batch.
BatchKept(batch) == batch

BatchOnReset(batch) == {}

\* Weakened form: every page may fill a whole batch.
RoomForPage(batch) == BatchMax

Room(batch) == BatchMax - Cardinality(batch)

\* One page, which may end early at a limit of the reader.  It joins the
\* batch, and the batch is due when it is full, when the log is at its end, or
\* when 100 ms have passed.
Read(o) ==
  LET sc    == scan[o]
      reset == SourceReset(sc.cursor)
      from  == IF reset \/ sc.cursor = NoCursor THEN 0 ELSE Len(sc.cursor.seen)
      kept  == IF reset THEN BatchOnReset(sc.batch) ELSE sc.batch
      left  == Len(file.records) - from
  IN
  /\ sc.pc = "read"
  /\ file # NoFile
  /\ \E n \in 0..left, due \in BOOLEAN :
       /\ n <= Room(sc.batch)
       /\ n = 0 => left = 0
       /\ LET page == {Row(i, file.records[i]) : i \in from + 1..from + n}
              more == n < left
          IN /\ due \/ (more /\ Cardinality(kept \cup page) < BatchMax)
             /\ scan' = [scan EXCEPT ![o] =
                  [sc EXCEPT !.pc = IF due THEN "commit" ELSE "read",
                             !.cursor = [file |-> file.id, seen |-> SubSeq(file.records, 1, from + n)],
                             !.batch = kept \cup page,
                             !.reset = sc.reset \/ reset,
                             !.more = more]]
  /\ UNCHANGED <<log, index, lease, faults>>

\* The page comes back with status missing or error: the log is gone, or a
\* file-system call fails.  The batch is dropped.
ReadUnreadable(o) ==
  /\ scan[o].pc = "read"
  /\ \/ file = NoFile /\ UNCHANGED faults
     \/ Fault("unreadable")
     \/ scan[o].committed # NoCursor /\ Fault("unreadable later")
  /\ scan' = [scan EXCEPT ![o].pc = "unreadable", ![o].batch = {}]
  /\ UNCHANGED <<log, index, lease>>

Owns(o) == lease = [owner |-> o, valid |-> TRUE]

\* Weakened form: the transaction trusts the run.
Unfenced(o) == scan[o].pc # "idle"

\* The transaction checks the lease and the stored cursor again.
Fenced(o) == Owns(o) /\ cursor = scan[o].committed

\* A cursor that does not continue the expected one needs an explicit reset.
Continues(new, expected, reset) ==
  (~reset /\ expected # NoCursor) =>
    new.file = expected.file /\ Len(new.seen) >= Len(expected.seen)

Upsert(old, batch) == {r \in old : \A b \in batch : b.id # r.id} \cup batch

Surviving(reset) == IF reset THEN {} ELSE rows

DistinctOrdinals(set) == \A r, q \in set : r.ord = q.ord => r = q

\* The transaction of commitIndexPage; every conjunct is a refusal of its own.
CommitPage(o, new, batch, reset) ==
  LET after == Upsert(Surviving(reset), batch) IN
  /\ Fenced(o)
  /\ Continues(new, scan[o].committed, reset)
  /\ DistinctOrdinals(after)
  /\ known' = TRUE /\ cursor' = new /\ rows' = after

Refused(o, new, batch, reset) ==
  \/ ~Fenced(o)
  \/ ~Continues(new, scan[o].committed, reset)
  \/ ~DistinctOrdinals(Upsert(Surviving(reset), batch))

\* Weakened form: the next batch deletes the events of this one again.
CommittedKeepingReset(o, new) ==
  [scan EXCEPT ![o].pc = IF scan[o].more THEN "read" ELSE "end",
               ![o].committed = new, ![o].batch = {}]

Committed(o, new) ==
  [scan EXCEPT ![o].pc = IF scan[o].more THEN "read" ELSE "end",
               ![o].committed = new, ![o].batch = {}, ![o].reset = FALSE]

Commit(o) ==
  LET sc == scan[o] IN
  /\ sc.pc = "commit"
  /\ \/ /\ CommitPage(o, sc.cursor, sc.batch, sc.reset)
        /\ scan' = Committed(o, sc.cursor)
     \/ /\ Refused(o, sc.cursor, sc.batch, sc.reset)
        /\ scan' = [scan EXCEPT ![o].pc = "end"]
        /\ UNCHANGED index
  /\ UNCHANGED <<log, lease, faults>>

\* The tombstone of an unreadable log keeps the committed cursor; without one
\* it takes the cursor of the page, which is the one the read started from.
TombstoneCursor(sc) ==
  IF sc.committed # NoCursor THEN sc.committed
  ELSE IF sc.cursor # NoCursor THEN sc.cursor ELSE Start

CommitTombstone(o) ==
  LET new == TombstoneCursor(scan[o]) IN
  /\ scan[o].pc = "unreadable"
  /\ \/ CommitPage(o, new, {}, FALSE)
     \/ Refused(o, new, {}, FALSE) /\ UNCHANGED index
  /\ scan' = [scan EXCEPT ![o].pc = "end"]
  /\ UNCHANGED <<log, lease, faults>>

\* The run's finally block.
End(o) ==
  /\ scan[o].pc = "end"
  /\ scan' = [scan EXCEPT ![o] = IdleScan]
  /\ lease' = IF lease.owner = o THEN [owner |-> Nobody, valid |-> FALSE] ELSE lease
  /\ UNCHANGED <<log, index, faults>>

Active(o) == scan[o].pc \in Pcs \ {"idle", "end"}

\* cancel, a page that throws, or a heartbeat that finds the lease expired.
Cancel(o) ==
  /\ Active(o)
  /\ \/ Fault("cancel")
     \/ ~Owns(o) /\ UNCHANGED faults
  /\ scan' = [scan EXCEPT ![o].pc = "end"]
  /\ UNCHANGED <<log, index, lease>>

\* The process dies; its lease row stays behind.
Crash(o) ==
  /\ scan[o].pc # "idle"
  /\ Fault("crash")
  /\ scan' = [scan EXCEPT ![o] = IdleScan]
  /\ UNCHANGED <<log, index, lease>>

-----------------------------------------------------------------------------
(* The surroundings                                                          *)

\* 30 seconds without a renewal: the owner died, or the machine slept.
OwnerDied == lease.valid /\ scan[lease.owner].pc = "idle"

Expire ==
  /\ lease.valid
  /\ \/ Fault("expire")
     \/ OwnerDied /\ UNCHANGED faults
  /\ lease' = [lease EXCEPT !.valid = FALSE]
  /\ UNCHANGED <<log, index, scan>>

Logs == UNION {[1..n -> Values] : n \in 0..MaxLen}

Append1(v) ==
  /\ file # NoFile /\ Len(file.records) < MaxLen
  /\ file' = [file EXCEPT !.records = Append(@, v)]
  /\ UNCHANGED tampered

\* Rewritten or truncated in place, replaced by another file, or removed.
Rewrite(records) == file # NoFile /\ file' = [file EXCEPT !.records = records] /\ tampered' = TRUE
Replace(records) == file' = [id |-> edits + 1, records |-> records] /\ tampered' = TRUE
Remove == file # NoFile /\ file' = NoFile /\ UNCHANGED tampered

Edit ==
  /\ edits < MaxEdits
  /\ edits' = edits + 1
  /\ \/ \E v \in Values : Append1(v)
     \/ "rewrite" \in Troubles /\ \E records \in Logs : Rewrite(records) \/ Replace(records)
     \/ "unreadable" \in Troubles /\ Remove
     \/ file = NoFile /\ Replace(<<>>)
  /\ UNCHANGED <<index, lease, scan, faults>>

\* saveInnerObservation: idempotent per event id, takes the next free ordinal.
NextOrdinal == IF rows = {} THEN 0 ELSE Max({r.ord : r \in rows}) + 1

Import(k) ==
  /\ "import" \in Troubles
  /\ known
  /\ \A r \in rows : r.id # k
  /\ rows' = rows \cup {[id |-> k, ord |-> NextOrdinal]}
  /\ UNCHANGED <<log, known, cursor, lease, scan, faults>>

\* clearIndex or revokeSource, then the source enabled again.
Clear ==
  /\ Fault("clear")
  /\ ~lease.valid
  /\ rows' = {} /\ cursor' = NoCursor
  /\ lease' = [owner |-> Nobody, valid |-> FALSE]
  /\ tampered' = TRUE
  /\ UNCHANGED <<file, edits, known, scan>>

-----------------------------------------------------------------------------
Run(o) ==
  \/ Acquire(o) \/ Load(o) \/ Read(o) \/ ReadUnreadable(o)
  \/ Commit(o) \/ CommitTombstone(o) \/ End(o)

Next ==
  \/ \E o \in Owners : Run(o) \/ Cancel(o) \/ Crash(o)
  \/ Expire \/ Edit \/ Clear
  \/ \E k \in Imports : Import(k)

Spec == Init /\ [][Next]_vars

\* Refreshes come again and again, runs and transactions proceed, and the
\* lease of a dead owner runs out.  Faults and edits are bounded: sooner or
\* later the log and the machine are quiet.
FairSpec ==
  /\ Spec
  /\ \A o \in Owners : WF_vars(Run(o))
  /\ WF_vars(OwnerDied /\ Expire)

-----------------------------------------------------------------------------
(* Properties                                                                *)

Cursors ==
  {NoCursor} \cup [file : 0..MaxEdits, seen : Logs]

NativeRows == {Row(i, v) : i \in 1..MaxLen, v \in Values}
Scans ==
  [pc : Pcs, committed : Cursors, cursor : Cursors,
   batch : SUBSET NativeRows, reset : BOOLEAN, more : BOOLEAN]

\* Every row and every local variable of a run keeps its type, and no batch
\* grows beyond what one transaction may write.
TypeOK ==
  /\ file \in {NoFile} \cup [id : 1..MaxEdits, records : Logs]
  /\ edits \in 1..MaxEdits
  /\ {known, tampered} \subseteq BOOLEAN
  /\ cursor \in Cursors
  /\ rows \subseteq NativeRows \cup [id : Imports, ord : Nat]
  /\ lease \in [owner : Owners \cup {Nobody}, valid : BOOLEAN]
  /\ scan \in [Owners -> Scans]
  /\ \A o \in Owners : Cardinality(scan[o].batch) <= BatchMax
  /\ faults \in 0..MaxFaults

Native == {r \in rows : r.id \notin Imports}

\* The index holds no event of another version of the log than the one its
\* cursor stands in, and none beyond the cursor: a replaced or truncated log
\* swaps its events in the transaction that moves the cursor, whoever commits.
NoForeignEvents ==
  Native \subseteq (IF cursor = NoCursor THEN {} ELSE RowsOf(cursor.seen))

\* What the cursor has passed is indexed: a cursor is never stored without
\* the events it claims, so restarting from it loses nothing.
CursorHasItsEvents ==
  cursor # NoCursor => RowsOf(cursor.seen) \subseteq rows

\* The index is exactly what the cursor has passed of one version of the log,
\* besides the imported observations.
IndexExact == CursorHasItsEvents /\ NoForeignEvents

\* While the log only grows, stored progress only grows: no late, revived or
\* cancelled run takes back a cursor or an event another run committed.
ProgressKept ==
  [][ ~tampered' =>
      /\ rows \subseteq rows'
      /\ cursor # NoCursor =>
           cursor'.file = cursor.file /\ IsPrefix(cursor.seen, cursor'.seen) ]_<<index, tampered>>

\* Once the log stays as it is and refreshes keep coming, the stored cursor
\* reaches the end of the log and stays there.
CaughtUp == file # NoFile => cursor = [file |-> file.id, seen |-> file.records]
IndexCatchesUp == <>[]CaughtUp
=============================================================================
