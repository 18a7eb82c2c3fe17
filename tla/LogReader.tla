------------------------------ MODULE LogReader ------------------------------
(* readJsonl() below one page of createJsonlSource(): the file operations    *)
(* between which an agent appends to its log, truncates or replaces it, and  *)
(* the checkpoint that must notice.  IndexCommit takes a page as one step;   *)
(* here a page is stored in one step when it has been read.                  *)
EXTENDS Naturals, Sequences

CONSTANTS
  MaxWrites,   \* bound on the changes of the log
  Window,      \* cells the head and the tail of a checkpoint cover (4096 bytes):
               \* more than a newline
  Chunk,       \* cells of one read (64 KiB)
  MaxEvents,   \* events of one page
  Blocks,      \* numbers of content blocks of a record; 0: no event in it
  None

\* A record is two cells, its text and the newline.  Every text that is ever
\* written differs from every other one.
NewLine == [text |-> 0, blocks |-> 0]
Cells == {NewLine} \cup [text : Nat \ {0}, blocks : Blocks]

LogCursors ==
  [id : Nat, offset : Nat, next : Nat, block : Nat, headLength : Nat, head : Seq(Cells), tail : Seq(Cells)]

ASSUME ReaderAssumption ==
  /\ {MaxWrites, Chunk, MaxEvents} \subseteq Nat \ {0} /\ Window \in Nat \ {0, 1}
  /\ Blocks \subseteq Nat
  /\ None \notin LogCursors

VARIABLES
  jsonl,     \* the file at the path: its identity and its cells
  old,       \* the file that the reader still has open, once it was replaced
  writes,    \* changes so far
  versions,  \* history: the log before the first change and after each
  page,      \* the page being read
  stored,    \* the stored cursor, or None
  indexed    \* the stored events, in the order of their ordinals

logVars == <<jsonl, old, writes, versions>>
storedVars == <<stored, indexed>>
readerVars == <<logVars, page, storedVars>>

NoPage == [pc |-> "idle"]

ReaderInit ==
  /\ jsonl = [id |-> 1, cells |-> <<>>]
  /\ old = jsonl
  /\ writes = 1 /\ versions = <<jsonl>>
  /\ page = NoPage /\ stored = None /\ indexed = <<>>

-----------------------------------------------------------------------------
(* The agent.                                                                *)

Write(new) ==
  /\ writes <= MaxWrites
  /\ writes' = writes + 1
  /\ jsonl' = new /\ versions' = Append(versions, new)
  /\ UNCHANGED <<page, storedVars>>

AtLineStart == jsonl.cells # <<>> => jsonl.cells[Len(jsonl.cells)] = NewLine

\* Half a record, or the rest of one.  A log truncated during a read is not
\* written again before that read ends: the reader does not promise to notice.
TruncatedBelow == page.pc # "idle" /\ page.id = jsonl.id /\ Len(jsonl.cells) < page.size
AppendHalf ==
  /\ ~TruncatedBelow
  /\ \E b \in Blocks :
       Write([jsonl EXCEPT !.cells = @ \o << IF AtLineStart THEN [text |-> writes, blocks |-> b] ELSE NewLine >>])
  /\ old' = IF old.id = jsonl.id THEN jsonl' ELSE old

\* A whole record at once.
AppendRecord ==
  /\ ~TruncatedBelow /\ AtLineStart
  /\ \E b \in Blocks : Write([jsonl EXCEPT !.cells = @ \o << [text |-> writes, blocks |-> b], NewLine >>])
  /\ old' = IF old.id = jsonl.id THEN jsonl' ELSE old

\* A record of which only some blocks are taken is not cut off: the reader
\* does not promise to notice a change behind its cursor.
HalfTaken(c, n) == c.id = jsonl.id /\ c.block > 0 /\ n + 1 >= c.offset /\ n < c.offset + 2
Truncate ==
  /\ \E n \in 0 .. Len(jsonl.cells) - 1 :
       /\ stored # None => ~HalfTaken(stored, n)
       /\ page.pc \in {"reading", "read", "checked"} => ~HalfTaken(page.cursor, n)
       /\ Write([jsonl EXCEPT !.cells = SubSeq(@, 1, n)])
  /\ old' = IF old.id = jsonl.id THEN jsonl' ELSE old

ReplaceLog ==
  /\ \E b \in Blocks : Write([id |-> writes + 1, cells |-> << [text |-> writes, blocks |-> b], NewLine >>])
  /\ UNCHANGED old

-----------------------------------------------------------------------------
(* The reader.                                                               *)

\* The file behind the open handle.
Handle == IF page.id = jsonl.id THEN jsonl ELSE old
Part(cells, from, to) == SubSeq(cells, from, IF to < Len(cells) THEN to ELSE Len(cells))
LowBound(n) == IF n > Window THEN n - Window + 1 ELSE 1

FirstCells(cells, n) == Part(cells, 1, n)
LastCells(cells, offset) == Part(cells, LowBound(offset), offset)

NoPrior == [id |-> 0, offset |-> 0, next |-> 0, block |-> 0, headLength |-> 0, head |-> <<>>, tail |-> <<>>]
Prior == IF stored = None THEN NoPrior ELSE stored

\* realpath, lstat, open, fstat.
Open ==
  /\ page.pc = "idle"
  /\ old' = jsonl
  /\ page' = [pc |-> "opened", id |-> jsonl.id, size |-> Len(jsonl.cells), stamp |-> writes,
              reset |-> FALSE, pos |-> 0, start |-> 0, text |-> NewLine,
              cursor |-> Prior, events |-> <<>>, lines |-> 0, stop |-> FALSE]
  /\ UNCHANGED <<jsonl, writes, versions, storedVars>>

HeadMatches(cells) == FirstCells(cells, Prior.headLength) = Prior.head
TailMatches(cells) == LastCells(cells, Prior.offset) = Prior.tail
SameIdentity == Prior.id = page.id

\* The log is not the one the cursor was taken from.
ResetByFirstCells(cells) == stored # None /\ (~SameIdentity \/ Prior.offset > page.size \/ ~HeadMatches(cells))
Reset(cells) ==
  stored # None /\ (~SameIdentity \/ Prior.offset > page.size \/ ~HeadMatches(cells) \/ ~TailMatches(cells))

Compare ==
  /\ page.pc = "opened"
  /\ LET reset == Reset(Handle.cells)
         offset == IF reset THEN 0 ELSE Prior.offset IN
     page' = [page EXCEPT !.pc = "reading", !.reset = reset, !.pos = offset, !.start = offset,
                          !.cursor.id = page.id, !.cursor.offset = offset,
                          !.cursor.next = IF reset THEN 0 ELSE Prior.next, !.cursor.block = 0]
  /\ UNCHANGED <<logVars, storedVars>>

\* consumeLine: the blocks of one record, as far as the page has room; a
\* record of which some are left is visited again by the next page.
FirstBlock(p) == IF ~p.reset /\ p.start = Prior.offset THEN Prior.block ELSE 0
RoomLeft(p) == MaxEvents - Len(p.events)
Taken(p) == LET left == p.text.blocks - FirstBlock(p) IN IF left < RoomLeft(p) THEN left ELSE RoomLeft(p)

ConsumeLine(p, end) ==
  LET upTo == FirstBlock(p) + Taken(p)
      new == [k \in 1 .. Taken(p) |->
                [text |-> p.text.text, block |-> FirstBlock(p) + k, ordinal |-> p.cursor.next + k - 1]]
      again == upTo < p.text.blocks
      full == Len(p.events) + Taken(p) >= MaxEvents
  IN [p EXCEPT !.events = @ \o new, !.cursor.next = @ + Taken(p),
               !.cursor.offset = IF again THEN p.start ELSE end,
               !.cursor.block = IF again THEN upTo ELSE 0,
               !.start = end, !.lines = @ + 1,
               !.stop = again \/ full \/ p.lines + 1 >= MaxEvents]

ConsumeCell(p, cell) ==
  IF p.stop THEN p
  ELSE IF cell = NewLine THEN [ConsumeLine(p, p.pos + 1) EXCEPT !.pos = p.pos + 1]
  ELSE [p EXCEPT !.text = cell, !.pos = p.pos + 1]

\* The page after each cell of a chunk.
Consumed(p, cells) ==
  LET after[n \in 0 .. Len(cells)] == IF n = 0 THEN p ELSE ConsumeCell(after[n - 1], cells[n])
  IN after

Least(a, b) == IF a < b THEN a ELSE b
NothingRead == Len(Handle.cells) <= page.pos
NextChunk == Part(Handle.cells, page.pos + 1, Least(page.pos + Chunk, page.size))

ReadChunk ==
  /\ page.pc = "reading"
  /\ page' = IF page.stop \/ page.pos >= page.size \/ NothingRead THEN [page EXCEPT !.pc = "read"]
             ELSE Consumed(page, NextChunk)[Len(NextChunk)]
  /\ UNCHANGED <<logVars, storedVars>>

\* fstat again: the file has shrunk, or was written without growing.
Disturbed ==
  \/ Len(Handle.cells) < page.size
  \/ page.id = jsonl.id /\ Len(Handle.cells) = page.size /\ writes # page.stamp

StatAgain ==
  /\ page.pc = "read"
  /\ page' = IF Disturbed THEN NoPage ELSE [page EXCEPT !.pc = "checked"]
  /\ UNCHANGED <<logVars, storedVars>>

\* The new checkpoint is taken, the page is stored with its cursor.
Store ==
  /\ page.pc = "checked"
  /\ LET length == Least(page.size, Window)
         c == [page.cursor EXCEPT !.headLength = length, !.head = FirstCells(Handle.cells, length),
                                  !.tail = LastCells(Handle.cells, page.cursor.offset)] IN
     /\ stored' = c
     /\ indexed' = (IF page.reset THEN <<>> ELSE indexed) \o page.events
     /\ page' = [pc |-> "stored", id |-> page.id, size |-> page.size, stamp |-> page.stamp,
                 more |-> page.stop /\ c.offset < page.size]
  /\ UNCHANGED logVars

\* The page is answered; the next one is asked for.
Done == page.pc = "stored" /\ page' = NoPage /\ UNCHANGED <<logVars, storedVars>>

\* The signal of the run is aborted: nothing of the page is stored.
Abort ==
  /\ page.pc \in {"opened", "reading", "read", "checked"}
  /\ page' = NoPage /\ UNCHANGED <<logVars, storedVars>>

ReaderNext ==
  \/ AppendHalf \/ AppendRecord \/ Truncate \/ ReplaceLog
  \/ Open \/ Compare \/ ReadChunk \/ StatAgain \/ Store \/ Done \/ Abort

ReaderSpec == ReaderInit /\ [][ReaderNext]_readerVars

-----------------------------------------------------------------------------
(* Properties                                                                *)

\* The events of a content, up to the cursor: the blocks of the complete records
\* before it, and those of the record at it that were already stored.
BlocksOf(cell, n) == [k \in 1 .. n |-> <<cell.text, k>>]

Told(cells) ==
  LET upTo[n \in 0 .. Len(cells)] ==
        IF n = 0 THEN <<>> ELSE upTo[n - 1] \o BlocksOf(cells[n], cells[n].blocks)
  IN upTo

EventsBefore(cells, c) ==
  Told(cells)[c.offset] \o (IF c.block = 0 THEN <<>> ELSE BlocksOf(cells[c.offset + 1], c.block))

Blocked(events) == [i \in DOMAIN events |-> <<events[i].text, events[i].block>>]

\* The stored events are those of one version of the log up to the stored
\* cursor, each once, in order and numbered without a gap, however pages, half
\* lines, truncations and replacements follow each other.  A page is of the log
\* that was opened for it or of a later one, and when it says that it is the
\* last, it has left no complete record of what it opened.
RowsFollowTheLog ==
  stored # None =>
    /\ \A i \in DOMAIN indexed : indexed[i].ordinal = i - 1
    /\ stored.next = Len(indexed)
    /\ \E k \in DOMAIN versions : LET v == versions[k] IN
         /\ v.id = stored.id /\ Len(v.cells) >= stored.offset + (IF stored.block > 0 THEN 1 ELSE 0)
         /\ Blocked(indexed) = EventsBefore(v.cells, stored)
         /\ page.pc = "stored" =>
              /\ k >= page.stamp
              /\ page.more \/ \A i \in stored.offset + 1 .. page.size : v.cells[i] # NewLine
=============================================================================
