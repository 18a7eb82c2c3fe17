---------------------------- MODULE Reading_proofs ----------------------------
(* What ThreadPort reads while an agent writes it.  The index of one log is   *)
(* exact, for any number of index runs, any log and any batch size: it holds  *)
(* no event of another version of the log, it holds all that its cursor has   *)
(* passed, and while the log only grows no run takes back what another one    *)
(* committed.  Below it, the pages of one reader add up to one version of the *)
(* log, for any log, any page and chunk size, and any window of a checkpoint. *)
EXTENDS IndexCommit, LogReader, FiniteSetTheorems, SequenceTheorems, WellFoundedInduction, TLAPS

-----------------------------------------------------------------------------
(* Logs and their prefixes                                                    *)

\* The bounds are natural numbers.
LEMMA Bounds ==
  /\ MaxLen \in Nat /\ MaxEdits \in Nat /\ MaxEdits >= 1 /\ MaxFaults \in Nat /\ BatchMax \in Nat /\ BatchMax >= 1
<1>1. MaxLen \in Nat /\ MaxEdits \in Nat \ {0} /\ MaxFaults \in Nat /\ BatchMax \in Nat \ {0}
  BY CommitAssumption, Zenon
<1> QED BY <1>1

\* Logs are the bounded sequences of values.
LEMMA LogsAre == Logs = {s \in Seq(Values) : Len(s) <= MaxLen}
<1>1. ASSUME NEW s \in Logs PROVE s \in Seq(Values) /\ Len(s) <= MaxLen
  <2>1. PICK n \in 0..MaxLen : s \in [1..n -> Values]
    BY <1>1 DEF Logs
  <2>2. n \in Nat /\ n <= MaxLen
    BY Bounds
  <2>3. s \in Seq(Values) /\ Len(s) = n
    BY <2>1, <2>2
  <2> QED BY <2>2, <2>3
<1>2. ASSUME NEW s \in Seq(Values), Len(s) <= MaxLen PROVE s \in Logs
  <2>1. Len(s) \in Nat /\ s \in [1..Len(s) -> Values]
    BY LenProperties
  <2>2. Len(s) \in 0..MaxLen
    BY <1>2, <2>1, Bounds
  <2>3. [1..Len(s) -> Values] \in {[1..n -> Values] : n \in 0..MaxLen}
    BY <2>2
  <2> QED BY <2>1, <2>3 DEF Logs
<1> QED BY <1>1, <1>2

\* A log is a sequence of a bounded length.
LEMMA LogFacts ==
  /\ <<>> \in Logs
  /\ \A s \in Logs : /\ s \in Seq(Values) /\ Len(s) \in Nat /\ Len(s) <= MaxLen
                     /\ \A i \in 1..Len(s) : s[i] \in Values
  BY LogsAre, Bounds

\* What the first n records of a log are.
LEMMA Prefixes ==
  ASSUME NEW s \in Logs, NEW n \in 0..Len(s)
  PROVE  /\ SubSeq(s, 1, n) \in Logs /\ Len(SubSeq(s, 1, n)) = n
         /\ \A i \in 1..n : SubSeq(s, 1, n)[i] = s[i]
<1>1. s \in Seq(Values) /\ Len(s) \in Nat /\ Len(s) <= MaxLen
  BY LogFacts
<1>2. /\ SubSeq(s, 1, n) \in Seq(Values) /\ Len(SubSeq(s, 1, n)) = n
      /\ \A i \in 1..n : SubSeq(s, 1, n)[i] = s[i]
  BY <1>1, SubSeqProperties
<1> QED BY <1>1, <1>2, LogsAre, Bounds

\* One log is a prefix of another if it agrees with it as far as it goes.
LEMMA PrefixMeans ==
  ASSUME NEW s \in Logs, NEW t \in Logs
  PROVE  IsPrefix(s, t) <=> Len(s) <= Len(t) /\ \A i \in 1..Len(s) : s[i] = t[i]
<1>1. Len(s) \in Nat /\ Len(t) \in Nat /\ s \in Seq(Values) /\ t \in Seq(Values)
  BY LogFacts
<1>2. ASSUME Len(s) <= Len(t)
      PROVE  s = SubSeq(t, 1, Len(s)) <=> \A i \in 1..Len(s) : s[i] = t[i]
  <2>1. Len(s) \in 0..Len(t)
    BY <1>1, <1>2
  <2>2. /\ SubSeq(t, 1, Len(s)) \in Seq(Values) /\ Len(SubSeq(t, 1, Len(s))) = Len(s)
        /\ \A i \in 1..Len(s) : SubSeq(t, 1, Len(s))[i] = t[i]
    BY <2>1, Prefixes, LogFacts
  <2> QED BY <1>1, <2>2, SeqEqual
<1> QED BY <1>2 DEF IsPrefix

\* A log that grows keeps its records.
LEMMA Appended ==
  ASSUME NEW s \in Logs, NEW v \in Values, Len(s) < MaxLen
  PROVE  Append(s, v) \in Logs /\ IsPrefix(s, Append(s, v))
<1>1. s \in Seq(Values) /\ Len(s) \in Nat
  BY LogFacts
<1>2. /\ Append(s, v) \in Seq(Values) /\ Len(Append(s, v)) = Len(s) + 1
      /\ \A i \in 1..Len(s) : Append(s, v)[i] = s[i]
  BY <1>1, AppendProperties
<1>3. Append(s, v) \in Logs
  BY <1>1, <1>2, LogsAre, Bounds
<1>4. IsPrefix(s, Append(s, v)) <=> Len(s) <= Len(Append(s, v)) /\ \A i \in 1..Len(s) : s[i] = Append(s, v)[i]
  BY <1>3, PrefixMeans
<1> QED BY <1>1, <1>2, <1>3, <1>4

\* Prefixes of one log are ordered.
LEMMA PrefixOrder ==
  ASSUME NEW s \in Logs, NEW t \in Logs
  PROVE  /\ IsPrefix(s, s) /\ IsPrefix(<<>>, s)
         /\ \A u \in Logs : IsPrefix(s, t) /\ IsPrefix(t, u) => IsPrefix(s, u)
         /\ \A u \in Logs : IsPrefix(s, u) /\ IsPrefix(t, u) /\ Len(s) <= Len(t) => IsPrefix(s, t)
<1>1. \A u \in Logs : Len(u) \in Nat /\ (\A w \in Logs : IsPrefix(u, w) <=> Len(u) <= Len(w) /\ \A i \in 1..Len(u) : u[i] = w[i])
  BY LogFacts, PrefixMeans
<1>2. <<>> \in Logs /\ Len(<<>>) = 0
  BY LogFacts
<1> QED BY <1>1, <1>2

-----------------------------------------------------------------------------
(* Types                                                                     *)

CursorRecords == [file : 0..MaxEdits, seen : Logs]

\* The parts of a cursor have their types.
LEMMA CursorFacts ==
  /\ Cursors = {NoCursor} \cup CursorRecords /\ NoCursor \notin CursorRecords
  /\ \A c \in Cursors : c # NoCursor => c \in CursorRecords /\ c.seen \in Logs /\ c.file \in 0..MaxEdits
  /\ Start \in CursorRecords /\ Start.seen = <<>>
<1>1. NoCursor \notin [file : Nat, seen : Seq(Values)]
  BY CommitAssumption, Zenon
<1>2. CursorRecords \subseteq [file : Nat, seen : Seq(Values)]
  BY LogFacts, Bounds DEF CursorRecords
<1>3. Start \in CursorRecords /\ Start.seen = <<>>
  BY LogFacts, Bounds DEF CursorRecords, Start
<1> QED BY <1>1, <1>2, <1>3 DEF Cursors, CursorRecords

\* The parts of a file have their types.
LEMMA FileFacts ==
  ASSUME file \in {NoFile} \cup [id : 1..MaxEdits, records : Logs]
  PROVE  file # NoFile => /\ file \in [id : 1..MaxEdits, records : Logs]
                          /\ file.id \in 1..MaxEdits /\ file.records \in Logs
  OBVIOUS

\* The parts of a row have their types.
LEMMA RowFacts ==
  ASSUME NEW s \in Logs
  PROVE  /\ RowsOf(s) \subseteq NativeRows
         /\ \A i \in 1..Len(s) : Row(i, s[i]) \in NativeRows
<1>1. \A i \in 1..Len(s) : i \in 1..MaxLen /\ s[i] \in Values
  BY LogFacts, Bounds
<1> QED BY <1>1 DEF RowsOf, NativeRows

\* The rows of the records after the first k.
RowsAfter(k, s) == {Row(i, s[i]) : i \in k + 1..Len(s)}

\* A page of n records is a finite set of at most n rows.
LEMMA PageSize ==
  ASSUME NEW a \in Nat, NEW n \in Nat, NEW s
  PROVE  LET slice == {Row(i, s[i]) : i \in a + 1..a + n} IN IsFiniteSet(slice) /\ Cardinality(slice) <= n
<1> DEFINE slice == {Row(i, s[i]) : i \in a + 1..a + n}
           f == [i \in a + 1..a + n |-> Row(i, s[i])]
<1>1. IsFiniteSet(a + 1..a + n) /\ Cardinality(a + 1..a + n) = n
  BY FS_Interval
<1>2. f \in Surjection(a + 1..a + n, slice)
  BY DEF Surjection
<1> QED BY <1>1, <1>2, FS_Surjection

\* Besides TypeOK: batches are finite, and so is what limits the ordinals.
OrdinalsBounded == \E b \in Nat : \A r \in rows : r.ord <= b
TypeInv ==
  /\ TypeOK /\ OrdinalsBounded
  /\ \A o \in Owners : IsFiniteSet(scan[o].batch)

\* Every step changes one run's local state at most.
LEMMA ScanKept ==
  ASSUME TypeInv, NEW o \in Owners, NEW s \in Scans, scan' = [scan EXCEPT ![o] = s],
         IsFiniteSet(s.batch), Cardinality(s.batch) <= BatchMax
  PROVE  /\ scan' \in [Owners -> Scans]
         /\ \A q \in Owners : IsFiniteSet(scan'[q].batch) /\ Cardinality(scan'[q].batch) <= BatchMax
  BY DEF TypeInv, TypeOK

\* The empty batch is within bounds.
LEMMA NoBatch == IsFiniteSet({}) /\ Cardinality({}) <= BatchMax
  BY FS_EmptySet, Bounds

\* What the transaction stores.
LEMMA CommitType ==
  ASSUME TypeInv, NEW o \in Owners, NEW new \in Cursors, NEW batch \in SUBSET NativeRows, NEW reset \in BOOLEAN,
         CommitPage(o, new, batch, reset)
  PROVE  /\ known' \in BOOLEAN /\ cursor' \in Cursors /\ OrdinalsBounded'
         /\ rows' \subseteq NativeRows \cup [id : Imports, ord : Nat]
<1>1. rows' \subseteq rows \cup batch
  BY DEF CommitPage, Upsert, Surviving
<1>2. \A r \in NativeRows : r.ord \in Nat /\ r.ord <= MaxLen
  BY Bounds DEF NativeRows, Row
<1>3. \A r \in rows : r.ord \in Nat
  BY <1>2 DEF TypeInv, TypeOK
<1>4. OrdinalsBounded'
  <2>1. PICK b \in Nat : \A r \in rows : r.ord <= b
    BY DEF TypeInv, OrdinalsBounded
  <2>2. b + MaxLen \in Nat /\ \A r \in rows' : r.ord <= b + MaxLen
    BY <1>1, <1>2, <1>3, <2>1, Bounds
  <2> QED BY <2>2 DEF OrdinalsBounded
<1> QED BY <1>1, <1>4, CursorFacts DEF CommitPage, TypeInv, TypeOK

\* The ordinal of an import exists: ordinals have a largest one.
LEMMA NextOrdinalType ==
  ASSUME TypeInv
  PROVE  NextOrdinal \in Nat
<1> DEFINE S == {r.ord : r \in rows}
<1>1. S \subseteq Nat
  BY Bounds DEF TypeInv, TypeOK, NativeRows, Row
<1>2. PICK b \in Nat : \A x \in S : x <= b
  BY DEF TypeInv, OrdinalsBounded
<1>3. CASE rows = {}
  BY <1>3 DEF NextOrdinal
<1>4. CASE rows # {}
  <2> DEFINE U == {u \in Nat : \A x \in S : x <= u}
  <2>1. \E m \in U : \A u \in U : ~(<<u, m>> \in OpToRel(<, Nat))
    BY <1>2, NatLessThanWellFounded, WFMin
  <2>2. PICK m \in U : \A u \in U : ~(u < m)
    BY <2>1 DEF OpToRel
  <2>3. m \in S
    <3>1. SUFFICES ASSUME m \notin S PROVE FALSE
      OBVIOUS
    <3>2. PICK x \in S : x \in Nat
      BY <1>1, <1>4
    <3>3. \A y \in S : y \in Nat /\ y <= m /\ y # m
      BY <1>1, <3>1
    <3>4. m \in Nat
      OBVIOUS
    <3>5. m - 1 \in Nat
      BY <3>2, <3>3, <3>4
    <3>6. ASSUME NEW y \in S PROVE y <= m - 1
      <4>1. y \in Nat /\ y <= m /\ y # m
        BY <3>3
      <4> HIDE DEF S, U
      <4> QED BY <3>4, <4>1
    <3>7. m - 1 \in U
      BY <3>5, <3>6
    <3> QED BY <2>2, <3>4, <3>7
  <2>4. Max(S) \in S
    BY <1>1, <2>2, <2>3 DEF Max
  <2> QED BY <1>1, <1>4, <2>4 DEF NextOrdinal
<1> QED BY <1>3, <1>4

-----------------------------------------------------------------------------
(* What one page does                                                        *)

\* Where the page of run o begins in the log.
From(o) ==
  IF SourceReset(scan[o].cursor) \/ scan[o].cursor = NoCursor THEN 0 ELSE Len(scan[o].cursor.seen)
Kept(o) == IF SourceReset(scan[o].cursor) THEN {} ELSE scan[o].batch

\* A read starts from a position of the log.
LEMMA FromType ==
  ASSUME TypeInv, NEW o \in Owners, file # NoFile
  PROVE  From(o) \in 0..Len(file.records)
<1>1. file.records \in Logs /\ Len(file.records) \in Nat
  BY FileFacts, LogFacts DEF TypeInv, TypeOK
<1>2. scan[o].cursor \in Cursors
  BY DEF TypeInv, TypeOK, Scans
<1>3. CASE ~SourceReset(scan[o].cursor) /\ scan[o].cursor # NoCursor
  <2>1. scan[o].cursor.seen \in Logs /\ IsPrefix(scan[o].cursor.seen, file.records)
    BY <1>2, <1>3, CursorFacts DEF SourceReset
  <2> QED BY <1>1, <1>3, <2>1, LogFacts, PrefixMeans DEF From
<1> QED BY <1>1, <1>3 DEF From

\* The page joins what was kept, and the cursor of the run stands behind it.
PageRead(o, s, n) ==
  /\ scan[o].pc = "read" /\ file # NoFile
  /\ From(o) + n <= Len(file.records)
  /\ scan' = [scan EXCEPT ![o] = s]
  /\ s.pc \in {"read", "commit"} /\ s.committed = scan[o].committed
  /\ s.cursor = [file |-> file.id, seen |-> SubSeq(file.records, 1, From(o) + n)]
  /\ s.batch = Kept(o) \cup {Row(i, file.records[i]) : i \in From(o) + 1..From(o) + n}
  /\ s.reset = (scan[o].reset \/ SourceReset(scan[o].cursor))

\* What one read of a page returns.
LEMMA ReadEffect ==
  ASSUME TypeInv, NEW o \in Owners, Read(o)
  PROVE  \E s \in Scans, n \in Nat :
           PageRead(o, s, n) /\ IsFiniteSet(s.batch) /\ Cardinality(s.batch) <= BatchMax
<1>1. /\ file # NoFile /\ scan[o].pc = "read" /\ From(o) \in 0..Len(file.records)
      /\ file.records \in Logs /\ Len(file.records) \in Nat /\ file.id \in 1..MaxEdits
  BY FromType, FileFacts, LogFacts DEF Read, TypeInv, TypeOK
<1> DEFINE left == Len(file.records) - From(o)
           Page(n) == {Row(i, file.records[i]) : i \in From(o) + 1..From(o) + n}
           New(n) == [file |-> file.id, seen |-> SubSeq(file.records, 1, From(o) + n)]
           next(due) == IF due THEN "commit" ELSE "read"
           again == scan[o].reset \/ SourceReset(scan[o].cursor)
           More(n) == n < left
           S(n, due) == [scan[o] EXCEPT !.pc = next(due), !.cursor = New(n), !.batch = Kept(o) \cup Page(n),
                                        !.reset = again, !.more = More(n)]
<1>2. PICK n \in 0..left, due \in BOOLEAN :
        n <= Room(scan[o].batch) /\ scan' = [scan EXCEPT ![o] = S(n, due)]
  BY DEF Read, From, Kept, BatchOnReset
<1> DEFINE slice == Page(n)
           new == New(n)
           s == S(n, due)
<1>3. n \in Nat /\ From(o) \in Nat /\ From(o) + n <= Len(file.records) /\ From(o) + n \in 0..Len(file.records)
  BY <1>1
<1>4. new \in Cursors
  <2>1. SubSeq(file.records, 1, From(o) + n) \in Logs
    BY <1>1, <1>3, Prefixes
  <2>2. file.id \in 0..MaxEdits
    BY <1>1, Bounds
  <2> QED BY <2>1, <2>2 DEF Cursors
<1>5. slice \subseteq NativeRows
  <2>1. \A i \in From(o) + 1..From(o) + n : i \in 1..Len(file.records)
    BY <1>1, <1>3
  <2> QED BY <1>1, <2>1, RowFacts
<1>6. /\ Kept(o) \in SUBSET NativeRows /\ IsFiniteSet(Kept(o))
      /\ Cardinality(Kept(o)) \in Nat /\ Cardinality(Kept(o)) + n <= BatchMax
  <2>1. /\ scan[o].batch \in SUBSET NativeRows /\ IsFiniteSet(scan[o].batch)
        /\ Cardinality(scan[o].batch) \in Nat
    BY FS_CardinalityType DEF TypeInv, TypeOK, Scans
  <2>2. Cardinality(scan[o].batch) + n <= BatchMax
    BY <1>2, <1>3, <2>1, Bounds DEF Room
  <2> QED BY <1>3, <2>1, <2>2, FS_EmptySet, Bounds DEF Kept
<1>7. IsFiniteSet(Kept(o) \cup slice) /\ Cardinality(Kept(o) \cup slice) <= BatchMax
  <2>1. IsFiniteSet(slice) /\ Cardinality(slice) <= n /\ Cardinality(slice) \in Nat
    BY <1>3, PageSize, FS_CardinalityType
  <2>2. Cardinality(Kept(o) \cap slice) \in Nat
    BY <1>6, FS_Intersection, FS_CardinalityType
  <2>3. /\ IsFiniteSet(Kept(o) \cup slice)
        /\ Cardinality(Kept(o) \cup slice) = Cardinality(Kept(o)) + Cardinality(slice) - Cardinality(Kept(o) \cap slice)
    BY <1>6, <2>1, FS_Union
  <2> HIDE DEF slice
  <2> QED BY <1>3, <1>6, <2>1, <2>2, <2>3, Bounds
<1>8. s \in Scans
  <2>1. scan[o] \in Scans /\ again \in BOOLEAN /\ More(n) \in BOOLEAN /\ next(due) \in Pcs
    BY DEF TypeInv, TypeOK, Pcs
  <2>2. Kept(o) \cup slice \in SUBSET NativeRows
    BY <1>5, <1>6
  <2> HIDE DEF More, again, next, New, Page
  <2> QED BY <1>4, <2>1, <2>2 DEF Scans
<1>9. scan[o] \in Scans
  BY DEF TypeInv, TypeOK
<1>10. PageRead(o, s, n)
  <2>1. scan' = [scan EXCEPT ![o] = s]
    BY <1>2
  <2>2. /\ s.pc \in {"read", "commit"} /\ s.committed = scan[o].committed /\ s.cursor = new
        /\ s.batch = Kept(o) \cup slice /\ s.reset = (scan[o].reset \/ SourceReset(scan[o].cursor))
    <3>1. next(due) \in {"read", "commit"}
      OBVIOUS
    <3>2. s.pc = next(due) /\ s.committed = scan[o].committed /\ s.cursor = new /\ s.batch = Kept(o) \cup slice
      <4> HIDE DEF More, again, next, New, Page
      <4> QED BY <1>9 DEF Scans
    <3>3. s.reset = again
      <4> HIDE DEF More, again, next, New, Page
      <4> QED BY <1>9 DEF Scans
    <3> QED BY <3>1, <3>2, <3>3
  <2> HIDE DEF s
  <2> QED BY <1>1, <1>3, <2>1, <2>2 DEF PageRead
<1>11. IsFiniteSet(s.batch) /\ Cardinality(s.batch) <= BatchMax
  <2>1. s.batch = Kept(o) \cup slice
    BY <1>9 DEF Scans
  <2> QED BY <1>7, <2>1
<1> QED BY <1>3, <1>8, <1>10, <1>11

-----------------------------------------------------------------------------
(* Types are kept                                                            *)

\* A run at rest is a run of its type.
LEMMA IdleIsScan == IdleScan \in Scans /\ IdleScan.batch = {} /\ IdleScan.pc = "idle"
  BY CursorFacts DEF IdleScan, Scans, Pcs

\* The local state after a commit, and after a refused one.
AfterCommit(o) ==
  [scan[o] EXCEPT !.pc = IF scan[o].more THEN "read" ELSE "end", !.committed = scan[o].cursor,
                  !.batch = {}, !.reset = FALSE]
Refusal(o) == [scan[o] EXCEPT !.pc = "end"]

\* A commit stores its page or is refused.
LEMMA CommitScan ==
  ASSUME TypeInv, NEW o \in Owners, Commit(o)
  PROVE  /\ scan[o].pc = "commit" /\ UNCHANGED <<file, edits, tampered, lease, faults>>
         /\ \/ /\ CommitPage(o, scan[o].cursor, scan[o].batch, scan[o].reset)
               /\ scan' = [scan EXCEPT ![o] = AfterCommit(o)]
            \/ UNCHANGED <<known, cursor, rows>> /\ scan' = [scan EXCEPT ![o] = Refusal(o)]
<1>1. scan \in [Owners -> Scans] /\ scan[o] \in Scans
  BY DEF TypeInv, TypeOK
<1>2. Committed(o, scan[o].cursor) = [scan EXCEPT ![o] = AfterCommit(o)]
  BY <1>1 DEF Committed, AfterCommit, Scans
<1>3. [scan EXCEPT ![o].pc = "end"] = [scan EXCEPT ![o] = Refusal(o)]
  BY <1>1 DEF Refusal, Scans
<1> QED BY <1>2, <1>3 DEF Commit, log, index

\* What follows a commit keeps its type.
LEMMA AfterCommitType ==
  ASSUME TypeInv, NEW o \in Owners
  PROVE  /\ AfterCommit(o) \in Scans /\ AfterCommit(o).batch = {}
         /\ AfterCommit(o).pc \in {"read", "end"} /\ AfterCommit(o).committed = scan[o].cursor
         /\ AfterCommit(o).cursor = scan[o].cursor /\ AfterCommit(o).reset = FALSE
         /\ Refusal(o) \in Scans /\ Refusal(o).batch = scan[o].batch /\ Refusal(o).pc = "end"
<1>1. scan[o] \in Scans
  BY DEF TypeInv, TypeOK
<1> DEFINE next == IF scan[o].more THEN "read" ELSE "end"
<1>2. next \in Pcs /\ next \in {"read", "end"}
  BY DEF Pcs
<1>3. Refusal(o) \in Scans /\ Refusal(o).batch = scan[o].batch /\ Refusal(o).pc = "end"
  BY <1>1 DEF Refusal, Scans, Pcs
<1> HIDE DEF next
<1>4. AfterCommit(o) = [scan[o] EXCEPT !.pc = next, !.committed = scan[o].cursor, !.batch = {}, !.reset = FALSE]
  BY DEF AfterCommit, next
<1> QED BY <1>1, <1>2, <1>3, <1>4 DEF Scans

\* Every step keeps the types.
LEMMA TypeKept == TypeInv /\ [Next]_vars => TypeInv'
<1> SUFFICES ASSUME TypeInv, [Next]_vars PROVE TypeInv'
  OBVIOUS
<1> USE DEF log, index
<1>1. ASSUME NEW o \in Owners PROVE scan[o] \in Scans /\ IsFiniteSet(scan[o].batch) /\ Cardinality(scan[o].batch) <= BatchMax
  BY <1>1 DEF TypeInv, TypeOK

\* Steps of one run that leave its batch as it is or drop it.
<1>2. ASSUME NEW o \in Owners, NEW s \in Scans, scan' = [scan EXCEPT ![o] = s],
             s.batch = scan[o].batch \/ s.batch = {},
             UNCHANGED <<file, edits, tampered, known, cursor, rows>>,
             lease' \in [owner : Owners \cup {Nobody}, valid : BOOLEAN], faults' \in 0..MaxFaults
      PROVE  TypeInv'
  <2>1. IsFiniteSet(s.batch) /\ Cardinality(s.batch) <= BatchMax
    BY <1>1, <1>2, NoBatch
  <2>2. OrdinalsBounded'
    BY <1>2 DEF TypeInv, OrdinalsBounded
  <2>3. /\ scan' \in [Owners -> Scans]
        /\ \A q \in Owners : IsFiniteSet(scan'[q].batch) /\ Cardinality(scan'[q].batch) <= BatchMax
    BY <1>2, <2>1, ScanKept
  <2> QED BY <1>2, <2>2, <2>3 DEF TypeInv, TypeOK
<1>3. lease \in [owner : Owners \cup {Nobody}, valid : BOOLEAN] /\ faults \in 0..MaxFaults
  BY DEF TypeInv, TypeOK
<1>4. ASSUME NEW kind, Fault(kind) PROVE faults' \in 0..MaxFaults
  BY <1>3, <1>4, Bounds DEF Fault
<1>5. ASSUME NEW o \in Owners, Acquire(o) PROVE TypeInv'
  <2>1. [scan[o] EXCEPT !.pc = "leased"] \in Scans /\ [scan[o] EXCEPT !.pc = "leased"].batch = scan[o].batch
    BY <1>1 DEF Scans, Pcs
  <2> QED BY <1>2, <1>3, <1>5, <2>1 DEF Acquire
<1>6. ASSUME NEW o \in Owners, Load(o) PROVE TypeInv'
  <2> DEFINE again == known /\ cursor = NoCursor
             s == [scan[o] EXCEPT !.pc = "read", !.committed = cursor, !.cursor = cursor, !.reset = again]
  <2>1. scan' = [scan EXCEPT ![o] = s]
    BY <1>6 DEF Load
  <2>2. again \in BOOLEAN /\ cursor \in Cursors
    BY DEF TypeInv, TypeOK
  <2>3. s \in Scans /\ s.batch = scan[o].batch
    <3> HIDE DEF again
    <3> QED BY <1>1, <2>2 DEF Scans, Pcs
  <2> HIDE DEF s
  <2> QED BY <1>2, <1>3, <1>6, <2>1, <2>3 DEF Load
<1>7. ASSUME NEW o \in Owners, Read(o) PROVE TypeInv'
  <2>1. PICK s \in Scans, n \in Nat : PageRead(o, s, n) /\ IsFiniteSet(s.batch) /\ Cardinality(s.batch) <= BatchMax
    BY <1>7, ReadEffect
  <2>2. UNCHANGED <<file, edits, tampered, known, cursor, rows, lease, faults>>
    BY <1>7 DEF Read
  <2>3. /\ scan' \in [Owners -> Scans]
        /\ \A q \in Owners : IsFiniteSet(scan'[q].batch) /\ Cardinality(scan'[q].batch) <= BatchMax
    BY <2>1, ScanKept DEF PageRead
  <2>4. OrdinalsBounded'
    BY <2>2 DEF TypeInv, OrdinalsBounded
  <2> QED BY <2>2, <2>3, <2>4 DEF TypeInv, TypeOK
<1>8. ASSUME NEW o \in Owners, ReadUnreadable(o) PROVE TypeInv'
  <2>1. faults' \in 0..MaxFaults
    BY <1>3, <1>4, <1>8 DEF ReadUnreadable
  <2> DEFINE s == [scan[o] EXCEPT !.pc = "unreadable", !.batch = {}]
  <2>2. s \in Scans /\ s.batch = {}
    BY <1>1 DEF Scans, Pcs
  <2>3. scan' = [scan EXCEPT ![o] = s] /\ UNCHANGED <<file, edits, tampered, known, cursor, rows, lease>>
    BY <1>8 DEF ReadUnreadable, TypeInv, TypeOK
  <2> HIDE DEF s
  <2> QED BY <1>2, <1>3, <2>1, <2>2, <2>3
<1>9. ASSUME NEW o \in Owners, NEW new \in Cursors, NEW batch \in SUBSET NativeRows, NEW reset \in BOOLEAN,
             CommitPage(o, new, batch, reset) \/ UNCHANGED <<known, cursor, rows>>,
             NEW s \in Scans, scan' = [scan EXCEPT ![o] = s], s.batch = scan[o].batch \/ s.batch = {},
             UNCHANGED <<file, edits, tampered, lease, faults>>
      PROVE  TypeInv'
  <2>1. CASE UNCHANGED <<known, cursor, rows>>
    BY <1>2, <1>3, <1>9, <2>1
  <2>2. CASE CommitPage(o, new, batch, reset)
    <3>1. IsFiniteSet(s.batch) /\ Cardinality(s.batch) <= BatchMax
      BY <1>1, <1>9, NoBatch
    <3>2. /\ scan' \in [Owners -> Scans]
          /\ \A q \in Owners : IsFiniteSet(scan'[q].batch) /\ Cardinality(scan'[q].batch) <= BatchMax
      BY <1>9, <3>1, ScanKept
    <3>3. /\ known' \in BOOLEAN /\ cursor' \in Cursors /\ OrdinalsBounded'
          /\ rows' \subseteq NativeRows \cup [id : Imports, ord : Nat]
      BY <2>2, CommitType
    <3> QED BY <1>9, <3>2, <3>3 DEF TypeInv, TypeOK
  <2> QED BY <1>9, <2>1, <2>2
<1>10. ASSUME NEW o \in Owners, CommitTombstone(o) PROVE TypeInv'
  <2>1. TombstoneCursor(scan[o]) \in CursorRecords
    BY <1>1, CursorFacts DEF TombstoneCursor, Scans
  <2>2. scan' = [scan EXCEPT ![o] = Refusal(o)] /\ UNCHANGED <<file, edits, tampered, lease, faults>>
    BY <1>10 DEF CommitTombstone, Refusal, TypeInv, TypeOK
  <2>3. \/ CommitPage(o, TombstoneCursor(scan[o]), {}, FALSE)
        \/ UNCHANGED <<known, cursor, rows>>
    BY <1>10 DEF CommitTombstone
  <2>4. TombstoneCursor(scan[o]) \in Cursors
    BY <2>1, CursorFacts
  <2>5. Refusal(o) \in Scans /\ Refusal(o).batch = scan[o].batch
    BY AfterCommitType
  <2> QED BY <1>9, <2>2, <2>3, <2>4, <2>5
<1>11. ASSUME NEW o \in Owners, End(o) \/ Crash(o) PROVE TypeInv'
  <2>1. faults' \in 0..MaxFaults
    BY <1>3, <1>4, <1>11 DEF End, Crash
  <2>2. lease' \in [owner : Owners \cup {Nobody}, valid : BOOLEAN]
    <3>1. lease' \in {lease, [owner |-> Nobody, valid |-> FALSE]}
      BY <1>11 DEF End, Crash
    <3>2. [owner |-> Nobody, valid |-> FALSE] \in [owner : Owners \cup {Nobody}, valid : BOOLEAN]
      OBVIOUS
    <3> QED BY <1>3, <3>1, <3>2
  <2>3. scan' = [scan EXCEPT ![o] = IdleScan] /\ UNCHANGED <<file, edits, tampered, known, cursor, rows>>
    BY <1>11 DEF End, Crash
  <2> QED BY <1>2, <2>1, <2>2, <2>3, IdleIsScan
<1>12. ASSUME NEW o \in Owners, Cancel(o) PROVE TypeInv'
  <2>1. faults' \in 0..MaxFaults
    BY <1>3, <1>4, <1>12 DEF Cancel
  <2>2. [scan[o] EXCEPT !.pc = "end"] \in Scans /\ [scan[o] EXCEPT !.pc = "end"].batch = scan[o].batch
    BY <1>1 DEF Scans, Pcs
  <2> QED BY <1>2, <1>3, <1>12, <2>1, <2>2 DEF Cancel

\* Steps of the surroundings.
<1>13. ASSUME UNCHANGED scan, OrdinalsBounded', TypeOK' PROVE TypeInv'
  BY <1>13 DEF TypeInv
<1>14. CASE Expire
  <2>1. faults' \in 0..MaxFaults
    BY <1>3, <1>4, <1>14 DEF Expire
  <2> QED BY <1>3, <1>13, <1>14, <2>1 DEF Expire, TypeInv, TypeOK, OrdinalsBounded
<1>15. CASE Edit
  <2>1. edits' \in 1..MaxEdits /\ edits + 1 \in 1..MaxEdits
    BY <1>15, Bounds DEF Edit, TypeInv, TypeOK
  <2>2. file' \in {NoFile} \cup [id : 1..MaxEdits, records : Logs] /\ tampered' \in BOOLEAN
    <3>1. ASSUME NEW records \in Logs, Rewrite(records) \/ Replace(records)
          PROVE  file' \in [id : 1..MaxEdits, records : Logs] /\ tampered' \in BOOLEAN
      <4>1. CASE Replace(records)
        BY <2>1, <3>1, <4>1 DEF Replace
      <4>2. CASE Rewrite(records)
        <5>1. file \in [id : 1..MaxEdits, records : Logs]
          BY <4>2, FileFacts DEF Rewrite, TypeInv, TypeOK
        <5>2. file' = [id |-> file.id, records |-> records] /\ tampered' \in BOOLEAN
          BY <4>2, <5>1 DEF Rewrite
        <5> QED BY <3>1, <5>1, <5>2
      <4> QED BY <3>1, <4>1, <4>2
    <3>2. ASSUME NEW v \in Values, Append1(v)
          PROVE  file' \in [id : 1..MaxEdits, records : Logs] /\ tampered' \in BOOLEAN
      <4>1. /\ file \in [id : 1..MaxEdits, records : Logs] /\ Len(file.records) < MaxLen
            /\ file' = [file EXCEPT !.records = Append(file.records, v)] /\ UNCHANGED tampered
        BY <3>2, FileFacts DEF Append1, TypeInv, TypeOK
      <4>2. Append(file.records, v) \in Logs
        BY <4>1, Appended
      <4>3. file' = [id |-> file.id, records |-> Append(file.records, v)]
        BY <4>1
      <4>4. file.id \in 1..MaxEdits
        BY <4>1
      <4>5. file' \in [id : 1..MaxEdits, records : Logs]
        BY <4>2, <4>3, <4>4
      <4>6. tampered' \in BOOLEAN
        BY <4>1 DEF TypeInv, TypeOK
      <4> QED BY <4>5, <4>6
    <3>3. ASSUME Remove PROVE file' = NoFile /\ tampered' \in BOOLEAN
      BY <3>3 DEF Remove, TypeInv, TypeOK
    <3> QED BY <1>15, <3>1, <3>2, <3>3, LogFacts DEF Edit
  <2> QED BY <1>13, <1>15, <2>1, <2>2 DEF Edit, TypeInv, TypeOK, OrdinalsBounded
<1>16. CASE Clear
  <2>1. faults' \in 0..MaxFaults
    BY <1>4, <1>16 DEF Clear
  <2>2. OrdinalsBounded'
    <3>1. rows' = {} /\ 0 \in Nat
      BY <1>16 DEF Clear
    <3> QED BY <3>1 DEF OrdinalsBounded
  <2>3. TypeOK'
    BY <1>16, <2>1, CursorFacts DEF Clear, TypeInv, TypeOK
  <2> QED BY <1>13, <1>16, <2>2, <2>3 DEF Clear
<1>17. ASSUME NEW k \in Imports, Import(k) PROVE TypeInv'
  <2>1. NextOrdinal \in Nat
    BY NextOrdinalType
  <2>2. rows' = rows \cup {[id |-> k, ord |-> NextOrdinal]} /\ [id |-> k, ord |-> NextOrdinal] \in [id : Imports, ord : Nat]
    BY <1>17, <2>1 DEF Import
  <2>3. OrdinalsBounded'
    <3>1. PICK b \in Nat : \A r \in rows : r.ord <= b
      BY DEF TypeInv, OrdinalsBounded
    <3>2. \A r \in rows : r.ord \in Nat
      BY Bounds DEF TypeInv, TypeOK, NativeRows, Row
    <3>3. b + NextOrdinal \in Nat /\ \A r \in rows' : r.ord <= b + NextOrdinal
      BY <2>1, <2>2, <3>1, <3>2
    <3> QED BY <3>3 DEF OrdinalsBounded
  <2>4. TypeOK'
    BY <1>17, <2>2 DEF Import, TypeInv, TypeOK
  <2> QED BY <1>13, <1>17, <2>3, <2>4 DEF Import
<1>18. CASE UNCHANGED vars
  BY <1>13, <1>18 DEF vars, TypeInv, TypeOK, OrdinalsBounded
<1>19. ASSUME NEW o \in Owners, Commit(o) PROVE TypeInv'
  <2>1. PICK s \in Scans : scan' = [scan EXCEPT ![o] = s] /\ (s.batch = scan[o].batch \/ s.batch = {})
    BY <1>19, CommitScan, AfterCommitType
  <2>2. scan[o].batch \in SUBSET NativeRows /\ scan[o].reset \in BOOLEAN /\ scan[o].cursor \in Cursors
    BY <1>1 DEF Scans
  <2>3. /\ \/ CommitPage(o, scan[o].cursor, scan[o].batch, scan[o].reset)
           \/ UNCHANGED <<known, cursor, rows>>
        /\ UNCHANGED <<file, edits, tampered, lease, faults>>
    BY <1>19, CommitScan
  <2> QED BY <1>9, <2>1, <2>2, <2>3
<1> QED BY <1>5, <1>6, <1>7, <1>8, <1>10, <1>11, <1>12, <1>14, <1>15, <1>16, <1>17, <1>18, <1>19 DEF Next, Run

\* The types hold before the first run.
LEMMA InitTypes == Init => TypeInv
<1> SUFFICES ASSUME Init PROVE TypeInv
  OBVIOUS
<1>1. TypeOK
  <2>1. file \in [id : 1..MaxEdits, records : Logs] /\ edits \in 1..MaxEdits /\ faults \in 0..MaxFaults
    BY LogFacts, Bounds DEF Init
  <2>2. scan \in [Owners -> Scans] /\ \A o \in Owners : Cardinality(scan[o].batch) <= BatchMax
    BY IdleIsScan, NoBatch DEF Init
  <2>3. cursor \in Cursors /\ rows = {} /\ lease \in [owner : Owners \cup {Nobody}, valid : BOOLEAN]
    BY CursorFacts DEF Init
  <2> QED BY <2>1, <2>2, <2>3 DEF Init, TypeOK
<1>2. OrdinalsBounded
  <2>1. rows = {} /\ 0 \in Nat
    BY DEF Init
  <2> QED BY <2>1 DEF OrdinalsBounded
<1>3. \A o \in Owners : IsFiniteSet(scan[o].batch)
  BY IdleIsScan, NoBatch DEF Init
<1> QED BY <1>1, <1>2, <1>3 DEF TypeInv

\* Cursors, events, leases and the batches of running jobs keep their types.
THEOREM TypeCorrect == Spec => []TypeOK
<1>1. Spec => []TypeInv
  BY InitTypes, TypeKept, PTL DEF Spec
<1>2. TypeInv => TypeOK
  BY DEF TypeInv
<1> QED BY <1>1, <1>2, PTL

-----------------------------------------------------------------------------
(* Rows of prefixes                                                          *)

\* The rows of a prefix are those of the log up to its length.
LEMMA RowsOfPrefix ==
  ASSUME NEW s \in Logs, NEW t \in Logs, IsPrefix(s, t)
  PROVE  /\ RowsOf(s) \subseteq RowsOf(t)
         /\ RowsOf(t) = RowsOf(s) \cup RowsAfter(Len(s), t)
         /\ \A r \in RowsOf(s), b \in RowsAfter(Len(s), t) : r.id # b.id
<1>1. /\ Len(s) \in Nat /\ Len(t) \in Nat /\ Len(s) <= Len(t)
      /\ \A i \in 1..Len(s) : s[i] = t[i]
  BY LogFacts, PrefixMeans
<1>2. RowsOf(s) = {Row(i, t[i]) : i \in 1..Len(s)}
  BY <1>1 DEF RowsOf
<1>3. 1..Len(t) = (1..Len(s)) \cup (Len(s) + 1..Len(t))
  BY <1>1
<1>4. RowsOf(t) = {Row(i, t[i]) : i \in 1..Len(s)} \cup {Row(i, t[i]) : i \in Len(s) + 1..Len(t)}
  BY <1>3 DEF RowsOf
<1>5. \A i \in 1..Len(s), j \in Len(s) + 1..Len(t) : Row(i, t[i]).id # Row(j, t[j]).id
  BY <1>1 DEF Row
<1> QED BY <1>2, <1>4, <1>5 DEF RowsAfter

\* All rows of a log come after its start.
LEMMA RowsFromStart == ASSUME NEW t \in Logs PROVE RowsAfter(0, t) = RowsOf(t)
  BY DEF RowsAfter, RowsOf

\* What is read next continues what was read before.
LEMMA RowsAfterMore ==
  ASSUME NEW s \in Logs, NEW t \in Logs, IsPrefix(s, t), NEW k \in 0..Len(s)
  PROVE  RowsAfter(k, t) = RowsAfter(k, s) \cup RowsAfter(Len(s), t)
<1>1. /\ Len(s) \in Nat /\ Len(t) \in Nat /\ Len(s) <= Len(t)
      /\ \A i \in 1..Len(s) : s[i] = t[i]
  BY LogFacts, PrefixMeans
<1>2. \A i \in k + 1..Len(s) : s[i] = t[i]
  BY <1>1
<1>3. RowsAfter(k, s) = {Row(i, t[i]) : i \in k + 1..Len(s)}
  BY <1>2 DEF RowsAfter
<1>4. k + 1..Len(t) = (k + 1..Len(s)) \cup (Len(s) + 1..Len(t))
  BY <1>1
<1> QED BY <1>3, <1>4 DEF RowsAfter

-----------------------------------------------------------------------------
(* What a run carries towards its commit                                     *)

\* The records before those of the batch.
Skipped(s) == IF s.reset \/ s.committed = NoCursor THEN 0 ELSE Len(s.committed.seen)

\* The batch holds the rows between the stored cursor, or the start when they
\* are to be replaced, and the cursor of the run.
Carries(s) ==
  /\ s.pc \in {"idle", "leased"} => s.batch = {}
  /\ s.pc \in {"read", "commit"} =>
       \/ s.pc = "read" /\ s.cursor = NoCursor /\ s.committed = NoCursor /\ s.batch = {}
       \/ /\ s.cursor # NoCursor /\ s.batch = RowsAfter(Skipped(s), s.cursor.seen)
          /\ ~s.reset /\ s.committed # NoCursor => IsPrefix(s.committed.seen, s.cursor.seen)
ScansExact == \A o \in Owners : Carries(scan[o])

\* A read extends a batch to the cursor it returns.
LEMMA ReadCarries ==
  ASSUME TypeInv, NEW o \in Owners, Carries(scan[o]), NEW s \in Scans, NEW n \in Nat, PageRead(o, s, n)
  PROVE  Carries(s)
<1> DEFINE c == scan[o].cursor
           t == SubSeq(file.records, 1, From(o) + n)
           slice == {Row(i, file.records[i]) : i \in From(o) + 1..From(o) + n}
<1>1. /\ file.records \in Logs /\ Len(file.records) \in Nat
      /\ From(o) \in Nat /\ From(o) + n \in 0..Len(file.records)
  BY FromType, FileFacts, LogFacts DEF PageRead, TypeInv, TypeOK
<1>2. /\ t \in Logs /\ Len(t) = From(o) + n /\ \A i \in 1..From(o) + n : t[i] = file.records[i]
  BY <1>1, Prefixes
<1>3. slice = RowsAfter(From(o), t)
  <2>1. \A i \in From(o) + 1..From(o) + n : t[i] = file.records[i]
    BY <1>1, <1>2
  <2> QED BY <1>2, <2>1 DEF RowsAfter
<1>4. /\ s.cursor = [file |-> file.id, seen |-> t] /\ s.cursor.seen = t /\ s.batch = Kept(o) \cup slice
      /\ (s.reset <=> scan[o].reset \/ SourceReset(c)) /\ s.committed = scan[o].committed
      /\ scan[o].pc = "read" /\ s.pc \in {"read", "commit"}
  <2>1. /\ s.cursor = [file |-> file.id, seen |-> t] /\ s.batch = Kept(o) \cup slice
        /\ s.committed = scan[o].committed /\ scan[o].pc = "read" /\ s.pc \in {"read", "commit"}
    BY Zenon DEF PageRead
  <2>2. s.reset <=> scan[o].reset \/ SourceReset(c)
    <3>1. s.reset = (scan[o].reset \/ SourceReset(c))
      BY Zenon DEF PageRead
    <3> QED BY <3>1, Zenon
  <2>3. s.cursor.seen = t
    <3> HIDE DEF t
    <3> QED BY <2>1
  <2> HIDE DEF t, c, slice
  <2> QED BY <2>1, <2>2, <2>3
<1>5. s.cursor # NoCursor
  <2>1. file.id \in 0..MaxEdits
    BY FileFacts, Bounds DEF PageRead, TypeInv, TypeOK
  <2> HIDE DEF t
  <2>2. s.cursor \in CursorRecords
    BY <1>2, <1>4, <2>1 DEF CursorRecords
  <2> QED BY <2>2, CursorFacts
<1>6. scan[o] \in Scans /\ c \in Cursors /\ scan[o].committed \in Cursors
  BY DEF TypeInv, TypeOK, Scans
<1> HIDE DEF t, slice
<1>7. CASE SourceReset(c)
  <2>1. From(o) = 0 /\ Kept(o) = {} /\ s.reset
    BY <1>4, <1>7 DEF From, Kept
  <2> QED BY <1>3, <1>4, <1>5, <2>1 DEF Carries, Skipped
<1>8. CASE c = NoCursor
  <2>1. ~SourceReset(c) /\ From(o) = 0 /\ Kept(o) = {} /\ scan[o].committed = NoCursor
    BY <1>4, <1>8 DEF SourceReset, From, Kept, Carries
  <2> QED BY <1>3, <1>4, <1>5, <2>1 DEF Carries, Skipped
<1>9. CASE ~SourceReset(c) /\ c # NoCursor
  <2>1. /\ c.seen \in Logs /\ IsPrefix(c.seen, file.records)
        /\ From(o) = Len(c.seen) /\ Kept(o) = scan[o].batch /\ (s.reset <=> scan[o].reset)
    <3>1. c.seen \in Logs
      BY <1>6, <1>9, CursorFacts
    <3>2. IsPrefix(c.seen, file.records)
      BY <1>9 DEF SourceReset
    <3>3. From(o) = Len(c.seen) /\ Kept(o) = scan[o].batch
      BY <1>9 DEF From, Kept
    <3>4. s.reset <=> scan[o].reset
      BY <1>4, <1>9
    <3> QED BY <3>1, <3>2, <3>3, <3>4
  <2>2. IsPrefix(c.seen, t)
    <3>1. \A i \in 1..Len(c.seen) : c.seen[i] = file.records[i]
      BY <1>1, <2>1, PrefixMeans
    <3>2. Len(c.seen) <= Len(t) /\ \A i \in 1..Len(c.seen) : c.seen[i] = t[i]
      BY <1>1, <1>2, <2>1, <3>1
    <3> QED BY <1>2, <2>1, <3>2, PrefixMeans
  <2>3. /\ scan[o].batch = RowsAfter(Skipped(scan[o]), c.seen)
        /\ ~scan[o].reset /\ scan[o].committed # NoCursor => IsPrefix(scan[o].committed.seen, c.seen)
    BY <1>4, <1>9 DEF Carries
  <2>4. Skipped(s) = Skipped(scan[o]) /\ Skipped(s) \in 0..Len(c.seen)
    <3>1. ~scan[o].reset /\ scan[o].committed # NoCursor =>
            scan[o].committed.seen \in Logs /\ Len(scan[o].committed.seen) \in 0..Len(c.seen)
      BY <1>6, <2>1, <2>3, CursorFacts, LogFacts, PrefixMeans
    <3>2. Len(c.seen) \in Nat
      BY <2>1, LogFacts
    <3> QED BY <1>4, <2>1, <3>1, <3>2 DEF Skipped
  <2>5. s.batch = RowsAfter(Skipped(s), t)
    BY <1>2, <1>3, <1>4, <2>1, <2>2, <2>3, <2>4, RowsAfterMore
  <2>6. ~s.reset /\ s.committed # NoCursor => IsPrefix(s.committed.seen, t)
    BY <1>2, <1>4, <1>6, <2>1, <2>2, <2>3, CursorFacts, PrefixOrder
  <2> QED BY <1>4, <1>5, <2>5, <2>6 DEF Carries
<1> QED BY <1>7, <1>8, <1>9

\* Every step keeps batches between stored and read cursor.
LEMMA ScansExactKept == TypeInv /\ ScansExact /\ [Next]_vars => ScansExact'
<1> SUFFICES ASSUME TypeInv, ScansExact, [Next]_vars PROVE ScansExact'
  OBVIOUS
<1>1. ASSUME NEW o \in Owners, NEW s, scan' = [scan EXCEPT ![o] = s], Carries(s) PROVE ScansExact'
  BY <1>1 DEF ScansExact, TypeInv, TypeOK
<1>2. \A o \in Owners : Carries(scan[o]) /\ scan[o] \in Scans /\ scan \in [Owners -> Scans]
  BY DEF ScansExact, TypeInv, TypeOK
<1>3. ASSUME NEW s, s.pc \in {"unreadable", "end"} PROVE Carries(s)
  BY <1>3 DEF Carries
<1>4. ASSUME NEW o \in Owners, ReadUnreadable(o) \/ CommitTombstone(o) \/ Cancel(o) PROVE ScansExact'
  <2>1. /\ \A q \in Owners \ {o} : scan'[q] = scan[q]
        /\ scan'[o].pc \in {"unreadable", "end"}
    <3>1. CASE ReadUnreadable(o)
      BY <1>2, <3>1 DEF ReadUnreadable, Scans
    <3>2. CASE CommitTombstone(o)
      BY <1>2, <3>2 DEF CommitTombstone, Scans
    <3>3. CASE Cancel(o)
      BY <1>2, <3>3 DEF Cancel, Scans
    <3> QED BY <1>4, <3>1, <3>2, <3>3
  <2> QED BY <1>2, <1>3, <2>1 DEF ScansExact
<1>5. ASSUME NEW o \in Owners, End(o) \/ Crash(o) PROVE ScansExact'
  <2>1. scan' = [scan EXCEPT ![o] = IdleScan]
    BY <1>5 DEF End, Crash
  <2> QED BY <1>1, <2>1, IdleIsScan DEF Carries
<1>6. ASSUME NEW o \in Owners, Acquire(o) PROVE ScansExact'
  <2>1. /\ \A q \in Owners \ {o} : scan'[q] = scan[q]
        /\ scan'[o].pc = "leased" /\ scan[o].pc = "idle" /\ scan'[o].batch = scan[o].batch
    BY <1>2, <1>6 DEF Acquire, Scans
  <2> QED BY <1>2, <2>1 DEF ScansExact, Carries

\* A run that has just loaded or committed has nothing in its batch.
<1>7. ASSUME NEW s \in Scans, s.pc = "read", s.cursor = s.committed, s.batch = {}, ~s.reset \/ s.cursor = NoCursor
      PROVE  Carries(s)
  <2>1. CASE s.cursor = NoCursor
    BY <1>7, <2>1 DEF Carries
  <2>2. CASE s.cursor # NoCursor
    <3>1. s.cursor.seen \in Logs /\ Len(s.cursor.seen) \in Nat
      BY <2>2, CursorFacts, LogFacts DEF Scans
    <3>2. RowsAfter(Len(s.cursor.seen), s.cursor.seen) = {}
      BY <3>1 DEF RowsAfter
    <3>3. Skipped(s) = Len(s.cursor.seen) /\ IsPrefix(s.committed.seen, s.cursor.seen)
      BY <1>7, <2>2, <3>1, PrefixOrder DEF Skipped
    <3> QED BY <1>7, <2>2, <3>2, <3>3 DEF Carries
  <2> QED BY <2>1, <2>2
<1>8. ASSUME NEW o \in Owners, Load(o) PROVE ScansExact'
  <2> DEFINE again == known /\ cursor = NoCursor
             s == [scan[o] EXCEPT !.pc = "read", !.committed = cursor, !.cursor = cursor, !.reset = again]
  <2>1. scan' = [scan EXCEPT ![o] = s] /\ scan[o].pc = "leased"
    BY <1>8 DEF Load
  <2>2. again \in BOOLEAN /\ (again => cursor = NoCursor) /\ cursor \in Cursors
    BY DEF TypeInv, TypeOK
  <2>3. /\ s \in Scans /\ s.pc = "read" /\ s.cursor = cursor /\ s.committed = cursor
        /\ s.batch = scan[o].batch /\ s.reset = again
    <3> HIDE DEF again
    <3> QED BY <1>2, <2>2 DEF Scans, Pcs
  <2>4. scan[o].batch = {}
    BY <1>2, <2>1 DEF Carries
  <2> HIDE DEF s, again
  <2> QED BY <1>1, <1>7, <2>1, <2>2, <2>3, <2>4
<1>9. ASSUME NEW o \in Owners, Read(o) PROVE ScansExact'
  <2>1. PICK s \in Scans, n \in Nat : PageRead(o, s, n)
    BY <1>9, ReadEffect
  <2>2. Carries(s)
    BY <1>2, <2>1, ReadCarries
  <2> QED BY <1>1, <2>1, <2>2 DEF PageRead
<1>10. ASSUME NEW o \in Owners, Commit(o) PROVE ScansExact'
  <2>1. scan' = [scan EXCEPT ![o] = AfterCommit(o)] \/ scan' = [scan EXCEPT ![o] = Refusal(o)]
    BY <1>10, CommitScan
  <2>2. AfterCommit(o) \in Scans /\ Refusal(o) \in Scans /\ scan[o].cursor \in Cursors
    BY <1>2, <1>10, AfterCommitType, CommitScan DEF Scans
  <2>3. /\ AfterCommit(o).pc \in {"read", "end"} /\ AfterCommit(o).batch = {} /\ ~AfterCommit(o).reset
        /\ AfterCommit(o).cursor = scan[o].cursor /\ AfterCommit(o).committed = scan[o].cursor
    BY <1>2 DEF AfterCommit, Scans
  <2>4. Refusal(o).pc = "end"
    BY <1>2 DEF Refusal, Scans
  <2>5. Carries(AfterCommit(o))
    <3>1. CASE AfterCommit(o).pc = "end"
      BY <1>3, <3>1
    <3>2. CASE AfterCommit(o).pc = "read"
      BY <1>7, <2>2, <2>3, <3>2
    <3> QED BY <2>3, <3>1, <3>2
  <2>6. Carries(Refusal(o))
    BY <1>3, <2>4
  <2> QED BY <1>1, <2>1, <2>5, <2>6
<1>11. CASE UNCHANGED scan
  BY <1>11 DEF ScansExact
<1>12. Expire \/ Edit \/ Clear \/ (\E k \in Imports : Import(k)) \/ UNCHANGED vars => UNCHANGED scan
  BY DEF Expire, Edit, Clear, Import, vars
<1> QED BY <1>4, <1>5, <1>6, <1>8, <1>9, <1>10, <1>11, <1>12 DEF Next, Run

-----------------------------------------------------------------------------
(* The index                                                                 *)

\* Stored in one transaction: the rows of the new cursor, and nothing that the
\* version of the log it stands in does not have.
LEMMA CommitExact ==
  ASSUME TypeInv, ScansExact, NEW o \in Owners, scan[o].pc = "commit",
         CommitPage(o, scan[o].cursor, scan[o].batch, scan[o].reset)
  PROVE  /\ NoForeignEvents => NoForeignEvents'
         /\ CursorHasItsEvents => CursorHasItsEvents'
         /\ cursor' = scan[o].cursor /\ cursor' # NoCursor
<1> DEFINE s == scan[o]
           t == s.cursor.seen
<1>1. /\ s \in Scans /\ s.cursor # NoCursor /\ s.batch = RowsAfter(Skipped(s), t)
      /\ ~s.reset /\ s.committed # NoCursor => IsPrefix(s.committed.seen, t)
  BY DEF TypeInv, TypeOK, ScansExact, Carries
<1>2. t \in Logs /\ (s.committed # NoCursor => s.committed.seen \in Logs)
  BY <1>1, CursorFacts DEF Scans
<1>3. /\ cursor = s.committed /\ cursor' = s.cursor /\ cursor' # NoCursor
      /\ rows' = Upsert(Surviving(s.reset), s.batch)
  BY <1>1 DEF CommitPage, Fenced
<1>4. s.batch \subseteq RowsOf(t) /\ rows' \subseteq Surviving(s.reset) \cup s.batch /\ s.batch \subseteq rows'
  <2>1. CASE s.reset \/ s.committed = NoCursor
    BY <1>1, <1>2, <1>3, <2>1, RowsFromStart DEF Skipped, Upsert
  <2>2. CASE ~s.reset /\ s.committed # NoCursor
    BY <1>1, <1>2, <1>3, <2>2, RowsOfPrefix DEF Skipped, Upsert
  <2> QED BY <2>1, <2>2
<1>5. ASSUME NoForeignEvents PROVE NoForeignEvents'
  <2>1. \A r \in Surviving(s.reset) : r.id \in Imports \/ r \in RowsOf(t)
    BY <1>1, <1>2, <1>3, <1>5, RowsOfPrefix DEF Surviving, NoForeignEvents, Native
  <2> QED BY <1>3, <1>4, <2>1 DEF NoForeignEvents, Native
<1>6. ASSUME CursorHasItsEvents PROVE CursorHasItsEvents'
  <2>1. CASE s.reset \/ s.committed = NoCursor
    BY <1>1, <1>2, <1>3, <1>4, <2>1, RowsFromStart DEF Skipped, CursorHasItsEvents
  <2>2. CASE ~s.reset /\ s.committed # NoCursor
    <3>1. RowsOf(s.committed.seen) \subseteq Surviving(s.reset)
      BY <1>3, <1>6, <2>2 DEF CursorHasItsEvents, Surviving
    <3>2. \A r \in RowsOf(s.committed.seen) : r \in rows'
      BY <1>1, <1>2, <1>3, <2>2, <3>1, RowsOfPrefix DEF Skipped, Upsert
    <3> QED BY <1>1, <1>2, <1>3, <1>4, <2>2, <3>2, RowsOfPrefix DEF Skipped, CursorHasItsEvents
  <2> QED BY <2>1, <2>2
<1> QED BY <1>3, <1>5, <1>6

\* A tombstone stores no event; it keeps the stored cursor if there is one.
LEMMA TombstoneExact ==
  ASSUME TypeInv, NEW o \in Owners, CommitPage(o, TombstoneCursor(scan[o]), {}, FALSE)
  PROVE  /\ rows' = rows /\ cursor = scan[o].committed
         /\ cursor # NoCursor => cursor' = cursor
         /\ NoForeignEvents => NoForeignEvents'
<1>1. rows' = rows /\ cursor = scan[o].committed /\ (cursor # NoCursor => cursor' = cursor)
  BY DEF CommitPage, Fenced, TombstoneCursor, Upsert, Surviving
<1>2. CASE cursor = NoCursor
  BY <1>1, <1>2 DEF NoForeignEvents, Native
<1>3. CASE cursor # NoCursor
  BY <1>1, <1>3 DEF NoForeignEvents, Native
<1> QED BY <1>1, <1>2, <1>3

\* The steps that store something, and all the others.
LEMMA IndexSteps ==
  ASSUME TypeInv, [Next]_vars
  PROVE  \/ UNCHANGED <<known, cursor, rows, tampered>>
         \/ Edit /\ UNCHANGED <<known, cursor, rows>> /\ (tampered => tampered')
         \/ Clear
         \/ \E k \in Imports : Import(k)
         \/ \E o \in Owners : /\ Commit(o) /\ scan[o].pc = "commit" /\ UNCHANGED tampered
                              /\ CommitPage(o, scan[o].cursor, scan[o].batch, scan[o].reset)
         \/ \E o \in Owners : /\ CommitTombstone(o) /\ UNCHANGED tampered
                              /\ CommitPage(o, TombstoneCursor(scan[o]), {}, FALSE)
<1>1. ASSUME NEW o \in Owners, Acquire(o) \/ Load(o) \/ Read(o) \/ ReadUnreadable(o) \/ End(o) \/ Cancel(o) \/ Crash(o)
      PROVE  UNCHANGED <<known, cursor, rows, tampered>>
  BY <1>1 DEF Acquire, Load, Read, ReadUnreadable, End, Cancel, Crash, log, index
<1>2. ASSUME NEW o \in Owners, Commit(o)
      PROVE  \/ UNCHANGED <<known, cursor, rows, tampered>>
             \/ /\ scan[o].pc = "commit" /\ UNCHANGED tampered
                /\ CommitPage(o, scan[o].cursor, scan[o].batch, scan[o].reset)
  BY <1>2, CommitScan
<1>3. ASSUME NEW o \in Owners, CommitTombstone(o)
      PROVE  \/ UNCHANGED <<known, cursor, rows, tampered>>
             \/ UNCHANGED tampered /\ CommitPage(o, TombstoneCursor(scan[o]), {}, FALSE)
  BY <1>3 DEF CommitTombstone, log, index
<1>4. Expire \/ UNCHANGED vars => UNCHANGED <<known, cursor, rows, tampered>>
  BY DEF Expire, vars, log, index
<1>5. Edit => UNCHANGED <<known, cursor, rows>> /\ (tampered => tampered')
  BY DEF Edit, Append1, Rewrite, Replace, Remove, index
<1> QED BY <1>1, <1>2, <1>3, <1>4, <1>5 DEF Next, Run

ExactInv == TypeInv /\ ScansExact /\ NoForeignEvents

\* No step leaves an event of another version of the log than the cursor's.
LEMMA NoForeignKept == ExactInv /\ [Next]_vars => NoForeignEvents'
<1> SUFFICES ASSUME ExactInv, [Next]_vars PROVE NoForeignEvents'
  OBVIOUS
<1> USE DEF ExactInv
<1>1. CASE UNCHANGED <<known, cursor, rows, tampered>> \/ UNCHANGED <<known, cursor, rows>>
  BY <1>1 DEF NoForeignEvents, Native
<1>2. CASE Clear
  BY <1>2 DEF Clear, NoForeignEvents, Native
<1>3. ASSUME NEW k \in Imports, Import(k) PROVE NoForeignEvents'
  BY <1>3 DEF Import, NoForeignEvents, Native
<1> QED BY <1>1, <1>2, <1>3, IndexSteps, CommitExact, TombstoneExact

\* The inductive invariant of index-store.ts and of runOne: what a run holds
\* uncommitted lies between the stored cursor and the cursor it has read up to.
THEOREM ExactInvariant == Spec => []ExactInv
<1>1. Init => ExactInv
  BY InitTypes, IdleIsScan DEF Init, ExactInv, ScansExact, Carries, NoForeignEvents, Native
<1>2. ExactInv /\ [Next]_vars => ExactInv'
  BY TypeKept, ScansExactKept, NoForeignKept DEF ExactInv
<1> QED BY <1>1, <1>2, PTL DEF Spec
-----------------------------------------------------------------------------
(* The index is exact                                                        *)

\* When no first read fails and the log stays there, a run that could not read
\* has a stored cursor to fall back on.
ReadBefore ==
  /\ file # NoFile
  /\ \A o \in Owners : scan[o].pc = "unreadable" => scan[o].committed # NoCursor

\* What a run has read stays what it has read.
LEMMA ReadBeforeKept ==
  ASSUME "unreadable" \notin Troubles, TypeInv, ReadBefore, [Next]_vars
  PROVE  ReadBefore'
<1>1. file' # NoFile
  <2>1. Edit => file' # NoFile
    <3>1. NoFile \notin [id : Nat, records : Seq(Values)]
      BY CommitAssumption, Zenon
    <3>2. ASSUME NEW records \in Logs, Rewrite(records) \/ Replace(records) PROVE file' # NoFile
      <4>1. records \in Seq(Values) /\ edits + 1 \in Nat
        BY LogFacts, Bounds DEF TypeInv, TypeOK
      <4>2. file \in [id : 1..MaxEdits, records : Logs]
        BY DEF TypeInv, TypeOK, ReadBefore
      <4>3. file' = [file EXCEPT !.records = records] \/ file' = [id |-> edits + 1, records |-> records]
        BY <3>2 DEF Rewrite, Replace
      <4>4. file' \in [id : Nat, records : Seq(Values)]
        BY <4>1, <4>2, <4>3, Bounds
      <4> QED BY <3>1, <4>4
    <3>3. ASSUME NEW v \in Values, Append1(v) PROVE file' # NoFile
      <4>1. file \in [id : 1..MaxEdits, records : Logs] /\ file.records \in Logs
        BY DEF TypeInv, TypeOK, ReadBefore
      <4>2. Append(file.records, v) \in Seq(Values)
        BY <4>1, LogFacts, AppendProperties
      <4>3. file' = [file EXCEPT !.records = Append(file.records, v)]
        BY <3>3 DEF Append1
      <4> DEFINE longer == Append(file.records, v)
      <4>4. file' \in [id : Nat, records : Seq(Values)]
        <5>1. longer \in Seq(Values) /\ file' = [file EXCEPT !.records = longer] /\ 1..MaxEdits \subseteq Nat
          BY <4>2, <4>3, Bounds
        <5> HIDE DEF longer
        <5> QED BY <4>1, <5>1
      <4> QED BY <3>1, <4>4
    <3> QED BY <3>2, <3>3, LogFacts DEF Edit, ReadBefore
  <2>2. ASSUME NEW o \in Owners, Run(o) \/ Cancel(o) \/ Crash(o) PROVE file' = file
    BY <2>2, CommitScan DEF Run, Acquire, Load, Read, ReadUnreadable, CommitTombstone, End, Cancel, Crash, log
  <2>3. Expire \/ Clear \/ (\E k \in Imports : Import(k)) \/ UNCHANGED vars => file' = file
    BY DEF Expire, Clear, Import, vars, log
  <2> QED BY <2>1, <2>2, <2>3 DEF Next, ReadBefore
<1>2. \A o \in Owners : scan[o] \in Scans /\ scan \in [Owners -> Scans]
  BY DEF TypeInv, TypeOK
<1>3. ASSUME NEW o \in Owners, \A q \in Owners \ {o} : scan'[q] = scan[q],
             scan'[o].pc = "unreadable" => scan'[o].committed # NoCursor
      PROVE  ReadBefore'
  BY <1>1, <1>3 DEF ReadBefore
<1>4. ASSUME NEW o \in Owners, ReadUnreadable(o) PROVE ReadBefore'
  <2>1. scan[o].committed # NoCursor
    BY <1>4 DEF ReadUnreadable, Fault, ReadBefore
  <2>2. scan'[o].committed = scan[o].committed /\ \A q \in Owners \ {o} : scan'[q] = scan[q]
    BY <1>2, <1>4 DEF ReadUnreadable, Scans
  <2> QED BY <1>3, <2>1, <2>2
<1>5. ASSUME NEW o \in Owners, Acquire(o) \/ Load(o) \/ CommitTombstone(o) \/ Cancel(o) PROVE ReadBefore'
  <2>1. \A q \in Owners \ {o} : scan'[q] = scan[q]
    BY <1>2, <1>5 DEF Acquire, Load, CommitTombstone, Cancel
  <2>2. Load(o) => scan'[o].pc = "read"
    BY <1>2 DEF Load, Scans
  <2>3. Acquire(o) \/ CommitTombstone(o) \/ Cancel(o) => scan'[o].pc \in {"leased", "end"}
    <3>1. Acquire(o) => scan'[o].pc = "leased"
      BY <1>2 DEF Acquire, Scans
    <3>2. CommitTombstone(o) => scan'[o].pc \in {"leased", "end"}
      BY <1>2 DEF CommitTombstone, Scans
    <3>3. Cancel(o) => scan'[o].pc = "end"
      BY <1>2 DEF Cancel, Scans
    <3> QED BY <3>1, <3>2, <3>3
  <2> QED BY <1>3, <1>5, <2>1, <2>2, <2>3
<1>6. ASSUME NEW o \in Owners, End(o) \/ Crash(o) PROVE ReadBefore'
  <2>1. scan'[o].pc = "idle" /\ \A q \in Owners \ {o} : scan'[q] = scan[q]
    BY <1>2, <1>6, IdleIsScan DEF End, Crash
  <2> QED BY <1>3, <2>1
<1>7. ASSUME NEW o \in Owners, Read(o) PROVE ReadBefore'
  <2>1. PICK s \in Scans, n \in Nat : PageRead(o, s, n)
    BY <1>7, ReadEffect
  <2>2. scan'[o].pc \in {"read", "commit"} /\ \A q \in Owners \ {o} : scan'[q] = scan[q]
    BY <1>2, <2>1 DEF PageRead
  <2> QED BY <1>3, <2>2
<1>8. ASSUME NEW o \in Owners, Commit(o) PROVE ReadBefore'
  <2>1. scan'[o].pc \in {"read", "end"} /\ \A q \in Owners \ {o} : scan'[q] = scan[q]
    BY <1>2, <1>8, CommitScan, AfterCommitType
  <2> QED BY <1>3, <2>1
<1>9. UNCHANGED scan => ReadBefore'
  BY <1>1 DEF ReadBefore
<1>10. Expire \/ Edit \/ Clear \/ (\E k \in Imports : Import(k)) \/ UNCHANGED vars => UNCHANGED scan
  BY DEF Expire, Edit, Clear, Import, vars
<1> QED BY <1>4, <1>5, <1>6, <1>7, <1>8, <1>9, <1>10 DEF Next, Run

AllExact == ExactInv /\ ReadBefore /\ CursorHasItsEvents

\* Every step keeps the stored cursor with its events.
LEMMA CursorKept ==
  ASSUME "unreadable" \notin Troubles, AllExact, [Next]_vars
  PROVE  CursorHasItsEvents'
<1> USE DEF AllExact, ExactInv
<1>1. CASE UNCHANGED <<known, cursor, rows, tampered>> \/ UNCHANGED <<known, cursor, rows>>
  BY <1>1 DEF CursorHasItsEvents
<1>2. CASE Clear
  BY <1>2 DEF Clear, CursorHasItsEvents
<1>3. ASSUME NEW k \in Imports, Import(k) PROVE CursorHasItsEvents'
  BY <1>3 DEF Import, CursorHasItsEvents
<1>4. ASSUME NEW o \in Owners, CommitTombstone(o), CommitPage(o, TombstoneCursor(scan[o]), {}, FALSE)
      PROVE  CursorHasItsEvents'
  <2>1. scan[o].committed # NoCursor
    BY <1>4 DEF CommitTombstone, ReadBefore
  <2>2. rows' = rows /\ cursor' = cursor
    BY <1>4, <2>1, TombstoneExact
  <2> QED BY <2>2 DEF CursorHasItsEvents
<1> QED BY <1>1, <1>2, <1>3, <1>4, IndexSteps, CommitExact

\* The index is exact before the first run.
LEMMA InitExact == Init => AllExact
<1>1. Init => ExactInv
  BY InitTypes, IdleIsScan DEF Init, ExactInv, ScansExact, Carries, NoForeignEvents, Native
<1>2. Init => file # NoFile
  <2>1. NoFile \notin [id : Nat, records : Seq(Values)]
    BY CommitAssumption, Zenon
  <2>2. [id |-> 1, records |-> <<>>] \in [id : Nat, records : Seq(Values)]
    BY EmptySeq
  <2> QED BY <2>1, <2>2 DEF Init
<1>3. Init => CursorHasItsEvents /\ \A o \in Owners : scan[o].pc = "idle"
  BY IdleIsScan DEF Init, CursorHasItsEvents
<1> QED BY <1>1, <1>2, <1>3 DEF AllExact, ReadBefore

\* Every step keeps the index exact.
LEMMA AllExactKept ==
  ASSUME "unreadable" \notin Troubles
  PROVE  AllExact /\ [Next]_vars => AllExact'
<1> SUFFICES ASSUME AllExact, [Next]_vars PROVE AllExact'
  OBVIOUS
<1>1. ExactInv'
  BY TypeKept, ScansExactKept, NoForeignKept DEF AllExact, ExactInv
<1> QED BY <1>1, ReadBeforeKept, CursorKept DEF AllExact, ExactInv

\* For any number of runs, logs, batches and imports: when no first read of a
\* log fails, the index is exactly what its cursor has passed of one version of
\* the log.  The hypothesis is needed: a first read that fails stores a cursor
\* whose events were dropped, which is the disagreement with
\* docs/v0.2/08-indexing.md that a run of this project shows.
THEOREM IndexIsExact == ASSUME "unreadable" \notin Troubles PROVE Spec => []IndexExact
<1>1. AllExact => IndexExact
  BY DEF AllExact, ExactInv, IndexExact
<1> QED BY <1>1, InitExact, AllExactKept, PTL DEF Spec

-----------------------------------------------------------------------------
(* While the log only grows                                                  *)

\* A cursor of this log: it stands behind a prefix of what is there.
OfFile(c) == c # NoCursor => c.file = file.id /\ IsPrefix(c.seen, file.records)

\* The run expects to continue what is stored, and reads the log as it is.
Untroubled(s) ==
  s.pc \in {"read", "commit", "unreadable"} => OfFile(s.committed) /\ OfFile(s.cursor) /\ ~s.reset

\* Until something other than growth happens to the log or the index, every
\* cursor, stored or held by a run, stands in this log.
Undisturbed ==
  ~tampered =>
    /\ known => cursor # NoCursor
    /\ OfFile(cursor)
    /\ \A o \in Owners : Untroubled(scan[o])

\* A run stays untroubled while the file is left alone.
LEMMA SameFile ==
  ASSUME UNCHANGED file, NEW s, Untroubled(s)
  PROVE  Untroubled(s)'
  BY DEF Untroubled, OfFile

\* Growth keeps every cursor.
LEMMA GrowthKeeps ==
  ASSUME TypeInv, file # NoFile, NEW v \in Values, Append1(v), NEW c \in Cursors, OfFile(c)
  PROVE  c # NoCursor => c.file = file'.id /\ IsPrefix(c.seen, file'.records)
<1>1. file \in [id : 1..MaxEdits, records : Logs] /\ file.records \in Logs
  BY DEF TypeInv, TypeOK
<1> DEFINE longer == Append(file.records, v)
<1>2. longer \in Logs /\ IsPrefix(file.records, longer)
  BY <1>1, Appended DEF Append1
<1>3. file'.id = file.id /\ file'.records = longer
  <2>1. file' = [file EXCEPT !.records = longer]
    BY DEF Append1
  <2> HIDE DEF longer
  <2> QED BY <1>1, <2>1
<1>4. c # NoCursor => c.seen \in Logs
  BY CursorFacts
<1> HIDE DEF longer
<1> QED BY <1>1, <1>2, <1>3, <1>4, PrefixOrder DEF OfFile

\* While the log has only grown every step leaves the runs undisturbed.
LEMMA UndisturbedKept ==
  ASSUME "unreadable" \notin Troubles, AllExact, Undisturbed, [Next]_vars
  PROVE  Undisturbed'
<1> SUFFICES ASSUME ~tampered' PROVE Undisturbed'
  BY DEF Undisturbed
<1> USE DEF AllExact, ExactInv
<1>1. TypeInv /\ ScansExact /\ file # NoFile /\ \A o \in Owners : scan[o] \in Scans /\ scan \in [Owners -> Scans]
  BY DEF TypeInv, TypeOK, ReadBefore
<1>2. ~tampered
  BY IndexSteps DEF Clear, Import, log
<1>3. (known => cursor # NoCursor) /\ OfFile(cursor) /\ \A o \in Owners : Untroubled(scan[o])
  BY <1>2 DEF Undisturbed

\* Steps of a run that store nothing.
<1>4. ASSUME NEW o \in Owners, NEW s, scan' = [scan EXCEPT ![o] = s], UNCHANGED file, Untroubled(s),
             known' => cursor' # NoCursor, OfFile(cursor)'
      PROVE  Undisturbed'
  <2>1. \A q \in Owners : Untroubled(scan'[q])
    BY <1>1, <1>3, <1>4
  <2> QED BY <1>4, <2>1, SameFile DEF Undisturbed, Untroubled, OfFile
<1>5. ASSUME UNCHANGED <<file, known, cursor>>
      PROVE  (known' => cursor' # NoCursor) /\ OfFile(cursor)'
  BY <1>3, <1>5 DEF OfFile
<1>6. ASSUME NEW o \in Owners, Acquire(o) PROVE Undisturbed'
  <2> DEFINE s == [scan[o] EXCEPT !.pc = "leased"]
  <2>1. s.pc = "leased"
    BY <1>1 DEF Scans
  <2>2. scan' = [scan EXCEPT ![o] = s] /\ UNCHANGED <<file, known, cursor>>
    BY <1>1, <1>6 DEF Acquire, log, index
  <2> HIDE DEF s
  <2>3. Untroubled(s)
    BY <2>1 DEF Untroubled
  <2> QED BY <1>4, <1>5, <2>2, <2>3
<1>7. ASSUME NEW o \in Owners, Load(o) PROVE Undisturbed'
  <2> DEFINE again == known /\ cursor = NoCursor
             s == [scan[o] EXCEPT !.pc = "read", !.committed = cursor, !.cursor = cursor, !.reset = again]
  <2>1. scan' = [scan EXCEPT ![o] = s] /\ UNCHANGED <<file, known, cursor>>
    BY <1>7 DEF Load, log, index
  <2>2. ~again
    BY <1>3
  <2>3. s.cursor = cursor /\ s.committed = cursor
    <3> HIDE DEF again
    <3> QED BY <1>1 DEF Scans
  <2>4. s.reset = again
    <3> HIDE DEF again
    <3> QED BY <1>1 DEF Scans
  <2>5. Untroubled(s)
    <3> HIDE DEF s, again
    <3> QED BY <1>3, <2>2, <2>3, <2>4 DEF Untroubled
  <2> HIDE DEF s
  <2> QED BY <1>4, <1>5, <2>1, <2>5
<1>8. ASSUME NEW o \in Owners, Read(o) PROVE Undisturbed'
  <2>1. PICK s \in Scans, n \in Nat : PageRead(o, s, n)
    BY <1>1, <1>8, ReadEffect
  <2>2. UNCHANGED <<file, known, cursor>>
    BY <1>8 DEF Read, log, index
  <2>3. scan[o].pc = "read" /\ OfFile(scan[o].committed) /\ OfFile(scan[o].cursor) /\ ~scan[o].reset
    BY <1>3, <2>1 DEF PageRead, Untroubled
  <2>4. ~SourceReset(scan[o].cursor)
    BY <2>3 DEF SourceReset, OfFile
  <2>5. ~s.reset
    <3>1. s.reset = (scan[o].reset \/ SourceReset(scan[o].cursor))
      BY <2>1, Zenon DEF PageRead
    <3> QED BY <2>3, <2>4, <3>1, Zenon
  <2>6. OfFile(s.cursor)
    <3>1. file.records \in Logs /\ From(o) \in 0..Len(file.records) /\ Len(file.records) \in Nat
      BY <1>1, FileFacts, FromType, LogFacts DEF TypeInv, TypeOK
    <3>2. From(o) + n \in 0..Len(file.records)
      BY <2>1, <3>1 DEF PageRead
    <3> DEFINE t == SubSeq(file.records, 1, From(o) + n)
    <3>3. t \in Logs /\ Len(t) <= Len(file.records) /\ \A i \in 1..Len(t) : t[i] = file.records[i]
      BY <3>1, <3>2, Prefixes
    <3>4. IsPrefix(t, file.records)
      <4> HIDE DEF t
      <4> QED BY <3>1, <3>3, PrefixMeans
    <3>5. s.cursor = [file |-> file.id, seen |-> t]
      BY <2>1, Zenon DEF PageRead
    <3> HIDE DEF t
    <3> QED BY <3>4, <3>5 DEF OfFile
  <2>7. s.committed = scan[o].committed /\ scan' = [scan EXCEPT ![o] = s]
    BY <2>1, Zenon DEF PageRead
  <2>8. Untroubled(s)
    BY <2>3, <2>5, <2>6, <2>7 DEF Untroubled
  <2> QED BY <1>4, <1>5, <2>2, <2>7, <2>8
<1>9. ASSUME NEW o \in Owners, ReadUnreadable(o) PROVE Undisturbed'
  <2> DEFINE s == [scan[o] EXCEPT !.pc = "unreadable", !.batch = {}]
  <2>1. scan' = [scan EXCEPT ![o] = s] /\ UNCHANGED <<file, known, cursor>> /\ scan[o].pc = "read"
    BY <1>1, <1>9 DEF ReadUnreadable, log, index
  <2>2. s.cursor = scan[o].cursor /\ s.committed = scan[o].committed
    BY <1>1 DEF Scans
  <2>3. s.reset = scan[o].reset
    BY <1>1 DEF Scans
  <2> HIDE DEF s
  <2>4. Untroubled(s)
    BY <1>3, <2>1, <2>2, <2>3 DEF Untroubled
  <2> QED BY <1>4, <1>5, <2>1, <2>4
<1>10. ASSUME NEW o \in Owners, Commit(o) PROVE Undisturbed'
  <2>1. CASE /\ CommitPage(o, scan[o].cursor, scan[o].batch, scan[o].reset)
             /\ scan' = [scan EXCEPT ![o] = AfterCommit(o)]
    <3>1. scan[o].pc = "commit" /\ UNCHANGED file
      BY <1>1, <1>10, CommitScan
    <3>2. cursor' = scan[o].cursor /\ cursor' # NoCursor /\ OfFile(scan[o].cursor)
      BY <1>1, <1>3, <2>1, <3>1, CommitExact DEF Untroubled
    <3>3. /\ AfterCommit(o).committed = scan[o].cursor /\ AfterCommit(o).cursor = scan[o].cursor
          /\ AfterCommit(o).reset = FALSE
      BY <1>1, AfterCommitType
    <3>4. Untroubled(AfterCommit(o))
      BY <3>2, <3>3 DEF Untroubled
    <3>5. OfFile(cursor)'
      BY <3>1, <3>2 DEF OfFile
    <3> QED BY <1>4, <2>1, <3>1, <3>2, <3>4, <3>5
  <2>2. CASE UNCHANGED <<known, cursor, rows>> /\ scan' = [scan EXCEPT ![o] = Refusal(o)]
    <3>1. Refusal(o).pc = "end" /\ UNCHANGED file
      BY <1>1, <1>10, CommitScan, AfterCommitType
    <3>2. Untroubled(Refusal(o))
      BY <3>1 DEF Untroubled
    <3>3. (known' => cursor' # NoCursor) /\ OfFile(cursor)'
      BY <1>5, <2>2, <3>1
    <3> QED BY <1>4, <2>2, <3>1, <3>2, <3>3
  <2> QED BY <1>1, <1>10, <2>1, <2>2, CommitScan
<1>11. ASSUME NEW o \in Owners, CommitTombstone(o) PROVE Undisturbed'
  <2>1. scan' = [scan EXCEPT ![o] = Refusal(o)] /\ UNCHANGED file /\ scan[o].committed # NoCursor
    BY <1>1, <1>11 DEF CommitTombstone, Refusal, ReadBefore, log
  <2>2. UNCHANGED <<known, cursor>> \/ (cursor' = cursor /\ cursor # NoCursor)
    BY <1>1, <1>11, <2>1, TombstoneExact DEF CommitTombstone, index
  <2>3. (known' => cursor' # NoCursor) /\ OfFile(cursor)'
    BY <1>3, <2>1, <2>2 DEF OfFile
  <2>4. Refusal(o).pc = "end"
    BY <1>1, AfterCommitType
  <2>5. Untroubled(Refusal(o))
    BY <2>4 DEF Untroubled
  <2> QED BY <1>4, <2>1, <2>3, <2>5
<1>12. ASSUME NEW o \in Owners, Cancel(o) PROVE Undisturbed'
  <2>1. scan' = [scan EXCEPT ![o] = Refusal(o)] /\ UNCHANGED <<file, known, cursor>>
    BY <1>1, <1>12 DEF Cancel, Refusal, log, index
  <2>2. Refusal(o).pc = "end"
    BY <1>1, AfterCommitType
  <2>3. Untroubled(Refusal(o))
    BY <2>2 DEF Untroubled
  <2> QED BY <1>4, <1>5, <2>1, <2>3
<1>13. ASSUME NEW o \in Owners, End(o) \/ Crash(o) PROVE Undisturbed'
  <2>1. scan' = [scan EXCEPT ![o] = IdleScan] /\ UNCHANGED <<file, known, cursor>>
    BY <1>13 DEF End, Crash, log, index
  <2>2. Untroubled(IdleScan)
    BY IdleIsScan DEF Untroubled
  <2> QED BY <1>4, <1>5, <2>1, <2>2
<1>14. ASSUME UNCHANGED <<file, known, cursor, scan>> PROVE Undisturbed'
  BY <1>3, <1>14 DEF Undisturbed, Untroubled, OfFile
<1>15. Expire \/ (\E k \in Imports : Import(k)) \/ UNCHANGED vars => UNCHANGED <<file, known, cursor, scan>>
  BY DEF Expire, Import, vars, log, index
<1>16. ~Clear
  BY DEF Clear
<1>17. CASE Edit
  <2>1. PICK v \in Values : Append1(v)
    BY <1>1, <1>17 DEF Edit, Rewrite, Replace, Remove
  <2>2. UNCHANGED <<known, cursor, scan>>
    BY <1>17 DEF Edit, index
  <2>3. \A c \in Cursors : OfFile(c) => (c # NoCursor => c.file = file'.id /\ IsPrefix(c.seen, file'.records))
    BY <1>1, <2>1, GrowthKeeps
  <2>4. cursor \in Cursors /\ \A o \in Owners : scan[o].cursor \in Cursors /\ scan[o].committed \in Cursors
    BY <1>1 DEF TypeInv, TypeOK, Scans
  <2>5. OfFile(cursor)'
    BY <1>3, <2>2, <2>3, <2>4 DEF OfFile
  <2>6. ASSUME NEW o \in Owners PROVE Untroubled(scan[o])'
    BY <1>3, <2>2, <2>3, <2>4 DEF Untroubled, OfFile
  <2> QED BY <1>3, <2>2, <2>5, <2>6 DEF Undisturbed
<1> QED BY <1>6, <1>7, <1>8, <1>9, <1>10, <1>11, <1>12, <1>13, <1>14, <1>15, <1>16, <1>17 DEF Next, Run

\* What a commit adds lies behind the stored cursor and touches no other row.
LEMMA CommitAdds ==
  ASSUME AllExact, NEW o \in Owners, scan[o].pc = "commit", ~scan[o].reset,
         CommitPage(o, scan[o].cursor, scan[o].batch, scan[o].reset)
  PROVE  /\ rows \subseteq rows'
         /\ cursor # NoCursor => IsPrefix(cursor.seen, cursor'.seen)
<1> USE DEF AllExact, ExactInv
<1> DEFINE s == scan[o]
           t == s.cursor.seen
<1>1. /\ s \in Scans /\ s.cursor # NoCursor /\ s.batch = RowsAfter(Skipped(s), t)
      /\ s.committed # NoCursor => IsPrefix(s.committed.seen, t)
  BY DEF TypeInv, TypeOK, ScansExact, Carries
<1>2. t \in Logs /\ (s.committed # NoCursor => s.committed.seen \in Logs)
  BY <1>1, CursorFacts DEF Scans
<1>3. cursor = s.committed /\ cursor' = s.cursor /\ rows' = Upsert(rows, s.batch)
  BY DEF CommitPage, Fenced, Surviving
<1>4. ASSUME NEW r \in rows, NEW b \in s.batch PROVE b.id # r.id
  <2>1. b.id \in Nat \X Values
    BY <1>1, Bounds DEF Scans, NativeRows, Row
  <2>2. b.id \notin Imports
    <3>1. \A k \in Imports : k \notin Nat \X Values
      BY CommitAssumption, Zenon
    <3> QED BY <2>1, <3>1
  <2>3. CASE r.id \in Imports
    BY <2>2, <2>3
  <2>4. CASE r.id \notin Imports
    <3>1. cursor # NoCursor /\ r \in RowsOf(cursor.seen)
      BY <2>4 DEF NoForeignEvents, Native
    <3>2. b \in RowsAfter(Len(s.committed.seen), t)
      BY <1>1, <1>3, <3>1 DEF Skipped
    <3> QED BY <1>1, <1>2, <1>3, <3>1, <3>2, RowsOfPrefix
  <2> QED BY <2>3, <2>4
<1>5. rows \subseteq rows'
  BY <1>3, <1>4 DEF Upsert
<1> QED BY <1>1, <1>3, <1>5

\* While the log only grows and no first read fails, stored progress only
\* grows, whatever expires, dies or is cancelled, and whoever commits last.
THEOREM ProgressIsKept == ASSUME "unreadable" \notin Troubles PROVE Spec => ProgressKept
<1>1. Init => AllExact /\ Undisturbed
  <2>1. Init => AllExact
    BY InitExact
  <2>2. Init => Undisturbed
    BY IdleIsScan DEF Init, Undisturbed, OfFile, Untroubled
  <2> QED BY <2>1, <2>2
<1>2. AllExact /\ Undisturbed /\ [Next]_vars => AllExact' /\ Undisturbed'
  BY AllExactKept, UndisturbedKept
<1> DEFINE Kept1 == ~tampered' => /\ rows \subseteq rows'
                                  /\ cursor # NoCursor => /\ cursor'.file = cursor.file
                                                          /\ IsPrefix(cursor.seen, cursor'.seen)
<1>3. AllExact /\ Undisturbed /\ [Next]_vars => Kept1
  <2> SUFFICES ASSUME AllExact, Undisturbed, [Next]_vars, ~tampered' PROVE Kept1
    OBVIOUS
  <2>1. TypeInv /\ ~tampered /\ cursor \in Cursors
    <3>1. TypeInv /\ cursor \in Cursors
      BY DEF AllExact, ExactInv, TypeInv, TypeOK
    <3>2. ~tampered
      BY <3>1, IndexSteps DEF Clear, Import, log
    <3> QED BY <3>1, <3>2
  <2>2. cursor # NoCursor => IsPrefix(cursor.seen, cursor.seen)
    BY <2>1, CursorFacts, PrefixOrder
  <2>3. cursor' = cursor /\ rows \subseteq rows' => Kept1
    BY <2>2
  <2>4. ASSUME NEW o \in Owners, Commit(o), scan[o].pc = "commit",
               CommitPage(o, scan[o].cursor, scan[o].batch, scan[o].reset)
        PROVE  Kept1
    <3>1. OfFile(cursor) /\ OfFile(scan[o].cursor) /\ ~scan[o].reset
      BY <2>1, <2>4 DEF Undisturbed, Untroubled
    <3>2. cursor' = scan[o].cursor /\ cursor' # NoCursor
      BY <2>1, <2>4, CommitExact DEF AllExact, ExactInv
    <3>3. cursor # NoCursor => cursor'.file = cursor.file
      BY <3>1, <3>2 DEF OfFile
    <3> QED BY <2>4, <3>1, <3>3, CommitAdds
  <2>5. ASSUME NEW o \in Owners, CommitTombstone(o), CommitPage(o, TombstoneCursor(scan[o]), {}, FALSE)
        PROVE  Kept1
    <3>1. scan[o].committed # NoCursor
      BY <2>5 DEF CommitTombstone, AllExact, ReadBefore
    <3> QED BY <2>1, <2>3, <2>5, <3>1, TombstoneExact
  <2>6. ~Clear
    BY DEF Clear
  <2>7. ASSUME NEW k \in Imports, Import(k) PROVE cursor' = cursor /\ rows \subseteq rows'
    BY <2>7 DEF Import
  <2> QED BY <2>1, <2>3, <2>4, <2>5, <2>6, <2>7, IndexSteps
<1> QED BY <1>1, <1>2, <1>3, PTL DEF Spec, ProgressKept

-----------------------------------------------------------------------------
(* Induction                                                                 *)

\* Every set of naturals that is not empty has a smallest member.
LEMMA Smallest ==
  ASSUME NEW S \in SUBSET Nat, S # {}
  PROVE  \E n \in S : \A m \in S : n <= m
<1> DEFINE less == {ss \in Nat \X Nat : ss[1] < ss[2]}
<1>1. IsWellFoundedOn(less, Nat)
  BY NatLessThanWellFounded DEF OpToRel
<1>2. \A p, q \in Nat : <<p, q>> \in less <=> p < q
  OBVIOUS
<1> HIDE DEF less
<1>3. PICK n \in S : \A m \in S : ~ (<<m, n>> \in less)
  BY <1>1, WFMin
<1>4. \A m \in S : ~(m < n)
  BY <1>2, <1>3
<1>5. \A m \in S : n <= m
  BY <1>4
<1> QED
  BY <1>5

\* A set with 0 that is closed under the successor holds every natural.
LEMMA SetInduction ==
  ASSUME NEW S, 0 \in S, \A n \in Nat : n \in S => n + 1 \in S
  PROVE  \A n \in Nat : n \in S
<1> DEFINE Missing == {n \in Nat : n \notin S}
<1>1. Missing = {}
  <2> SUFFICES ASSUME Missing # {} PROVE FALSE
    OBVIOUS
  <2>1. Missing \in SUBSET Nat
    OBVIOUS
  <2> HIDE DEF Missing
  <2>2. PICK n \in Missing : \A m \in Missing : n <= m
    BY <2>1, Smallest
  <2>3. n \in Nat /\ n \notin S /\ n # 0
    BY <2>2 DEF Missing
  <2>4. n - 1 \in Nat /\ n - 1 \notin Missing
    BY <2>2, <2>3
  <2>5. (n - 1) + 1 \in S
    BY <2>4 DEF Missing
  <2> QED
    BY <2>3, <2>4, <2>5
<1> QED
  BY <1>1

-----------------------------------------------------------------------------
(* LogReader: cells, lines and what they tell                                *)

\* The contents of a log: text and newline by turns.
Lines == {s \in Seq(Cells) : \A i \in 1 .. Len(s) : s[i] = NewLine <=> i > 1 /\ s[i - 1] # NewLine}

Agree(s, t, n) == n <= Len(s) /\ n <= Len(t) /\ \A i \in 1 .. n : s[i] = t[i]
LineEnd(s, n) == n = 0 \/ s[n] = NewLine

LEMMA CellFacts ==
  /\ NewLine \in Cells /\ NewLine.text = 0 /\ NewLine.blocks = 0
  /\ \A c \in Cells : c.text \in Nat /\ c.blocks \in Nat /\ (c # NewLine => c.text > 0)
  /\ \A n \in Nat \ {0}, b \in Blocks : [text |-> n, blocks |-> b] \in Cells /\ [text |-> n, blocks |-> b] # NewLine
<1>1. /\ NewLine \in Cells /\ NewLine.text = 0 /\ NewLine.blocks = 0
  BY DEF Cells, NewLine
<1>2. ASSUME NEW c \in Cells PROVE c.text \in Nat /\ c.blocks \in Nat /\ (c # NewLine => c.text > 0)
  <2>1. CASE c = NewLine
    BY <1>1, <2>1
  <2>2. CASE c \in [text : Nat \ {0}, blocks : Blocks]
    <3>1. Blocks \subseteq Nat
      BY ReaderAssumption
    <3>2. c.text \in Nat \ {0} /\ c.blocks \in Blocks
      BY <2>2
    <3>3. c.text \in Nat /\ c.text > 0
      BY <3>2
    <3> QED
      BY <3>1, <3>2, <3>3
  <2> QED
    BY <2>1, <2>2 DEF Cells
<1>3. ASSUME NEW n \in Nat \ {0}, NEW b \in Blocks
      PROVE  [text |-> n, blocks |-> b] \in Cells /\ [text |-> n, blocks |-> b] # NewLine
  BY DEF Cells, NewLine
<1> QED
  BY <1>1, <1>2, <1>3

LEMMA LineFacts ==
  ASSUME NEW s \in Lines
  PROVE  /\ s \in Seq(Cells) /\ Len(s) \in Nat /\ DOMAIN s = 1 .. Len(s)
         /\ \A i \in 1 .. Len(s) : s[i] \in Cells /\ (s[i] = NewLine <=> i > 1 /\ s[i - 1] # NewLine)
  BY LenProperties, ElementOfSeq DEF Lines

Pairs == Nat \X Int

LEMMA BlocksAre ==
  ASSUME NEW cell \in Cells, NEW n \in Nat
  PROVE  /\ BlocksOf(cell, n) \in Seq(Pairs) /\ Len(BlocksOf(cell, n)) = n
         /\ \A k \in 1 .. n : BlocksOf(cell, n)[k] = <<cell.text, k>>
         /\ n = 0 => BlocksOf(cell, n) = <<>>
<1>1. cell.text \in Nat
  BY CellFacts
<1>2. \A k \in 1 .. n : <<cell.text, k>> \in Pairs
  BY <1>1 DEF Pairs
<1>3. BlocksOf(cell, n) \in [1 .. n -> Pairs]
  BY <1>2 DEF BlocksOf
<1>4. BlocksOf(cell, n) \in Seq(Pairs) /\ Len(BlocksOf(cell, n)) = n
  BY <1>3
<1> QED
  BY <1>4, EmptySeq DEF BlocksOf

LEMMA ToldEquation ==
  ASSUME NEW s \in Seq(Cells)
  PROVE  /\ Told(s)[0] = <<>>
         /\ \A n \in 1 .. Len(s) : Told(s)[n] = Told(s)[n - 1] \o BlocksOf(s[n], s[n].blocks)
<1> DEFINE Solves(f, n) == f = [i \in 0 .. n |-> IF i = 0 THEN <<>> ELSE f[i - 1] \o BlocksOf(s[i], s[i].blocks)]
<1> DEFINE Solvable == {n \in Nat : \E f : Solves(f, n)}
<1>1. 0 \in Solvable
  <2>1. Solves([i \in 0 .. 0 |-> <<>>], 0)
    OBVIOUS
  <2> QED
    BY <2>1
<1>2. ASSUME NEW n \in Nat, n \in Solvable PROVE n + 1 \in Solvable
  <2>1. PICK f : Solves(f, n)
    BY <1>2
  <2> DEFINE g == [i \in 0 .. n + 1 |-> IF i = n + 1 THEN f[n] \o BlocksOf(s[n + 1], s[n + 1].blocks) ELSE f[i]]
  <2>2. \A i \in 0 .. n + 1 : g[i] = IF i = 0 THEN <<>> ELSE g[i - 1] \o BlocksOf(s[i], s[i].blocks)
    <3> SUFFICES ASSUME NEW i \in 0 .. n + 1
                 PROVE g[i] = IF i = 0 THEN <<>> ELSE g[i - 1] \o BlocksOf(s[i], s[i].blocks)
      OBVIOUS
    <3>1. CASE i = n + 1
      <4>1. g[i] = f[n] \o BlocksOf(s[n + 1], s[n + 1].blocks) /\ g[n] = f[n] /\ i - 1 = n /\ i # 0
        BY <3>1
      <4> QED
        BY <3>1, <4>1
    <3>2. CASE i # n + 1
      <4>1. i \in 0 .. n /\ g[i] = f[i] /\ (i # 0 => i - 1 \in 0 .. n /\ g[i - 1] = f[i - 1])
        BY <3>2
      <4>2. f[i] = IF i = 0 THEN <<>> ELSE f[i - 1] \o BlocksOf(s[i], s[i].blocks)
        BY <2>1, <4>1
      <4> HIDE DEF g
      <4> QED
        BY <4>1, <4>2
    <3> QED
      BY <3>1, <3>2
  <2>3. g = [i \in 0 .. n + 1 |-> g[i]]
    OBVIOUS
  <2> HIDE DEF g
  <2>4. Solves(g, n + 1)
    BY <2>2, <2>3
  <2> HIDE DEF Solves
  <2> QED
    BY <2>4
<1>3. Len(s) \in Nat
  BY LenProperties
<1>4. Len(s) \in Solvable
  <2> HIDE DEF Solvable
  <2>1. \A n \in Nat : n \in Solvable => n + 1 \in Solvable
    BY <1>2
  <2> QED
    BY <1>1, <1>3, <2>1, SetInduction
<1>5. \E f : Solves(f, Len(s))
  BY <1>4
<1>6. Solves(CHOOSE f : Solves(f, Len(s)), Len(s))
  <2> HIDE DEF Solves
  <2> QED
    BY <1>5
<1>7. Told(s) = CHOOSE f : Solves(f, Len(s))
  BY DEF Told
<1>8. Solves(Told(s), Len(s))
  <2> HIDE DEF Solves
  <2> QED
    BY <1>6, <1>7
<1> QED
  BY <1>3, <1>8

LEMMA ConsumedEquation ==
  ASSUME NEW p, NEW s \in Seq(Cells)
  PROVE  /\ Consumed(p, s)[0] = p
         /\ \A n \in 1 .. Len(s) : Consumed(p, s)[n] = ConsumeCell(Consumed(p, s)[n - 1], s[n])
<1> DEFINE Solves(f, n) == f = [i \in 0 .. n |-> IF i = 0 THEN p ELSE ConsumeCell(f[i - 1], s[i])]
<1> DEFINE Solvable == {n \in Nat : \E f : Solves(f, n)}
<1>1. 0 \in Solvable
  <2>1. Solves([i \in 0 .. 0 |-> p], 0)
    OBVIOUS
  <2> QED
    BY <2>1
<1>2. ASSUME NEW n \in Nat, n \in Solvable PROVE n + 1 \in Solvable
  <2>1. PICK f : Solves(f, n)
    BY <1>2
  <2> DEFINE g == [i \in 0 .. n + 1 |-> IF i = n + 1 THEN ConsumeCell(f[n], s[n + 1]) ELSE f[i]]
  <2>2. \A i \in 0 .. n + 1 : g[i] = IF i = 0 THEN p ELSE ConsumeCell(g[i - 1], s[i])
    <3> SUFFICES ASSUME NEW i \in 0 .. n + 1
                 PROVE g[i] = IF i = 0 THEN p ELSE ConsumeCell(g[i - 1], s[i])
      OBVIOUS
    <3>1. CASE i = n + 1
      <4>1. g[i] = ConsumeCell(f[n], s[n + 1]) /\ g[n] = f[n] /\ i - 1 = n /\ i # 0
        BY <3>1
      <4> QED
        BY <3>1, <4>1
    <3>2. CASE i # n + 1
      <4>1. i \in 0 .. n /\ g[i] = f[i] /\ (i # 0 => i - 1 \in 0 .. n /\ g[i - 1] = f[i - 1])
        BY <3>2
      <4>2. f[i] = IF i = 0 THEN p ELSE ConsumeCell(f[i - 1], s[i])
        BY <2>1, <4>1
      <4> HIDE DEF g
      <4> QED
        BY <4>1, <4>2
    <3> QED
      BY <3>1, <3>2
  <2>3. g = [i \in 0 .. n + 1 |-> g[i]]
    OBVIOUS
  <2> HIDE DEF g
  <2>4. Solves(g, n + 1)
    BY <2>2, <2>3
  <2> HIDE DEF Solves
  <2> QED
    BY <2>4
<1>3. Len(s) \in Nat
  BY LenProperties
<1>4. Len(s) \in Solvable
  <2> HIDE DEF Solvable
  <2>1. \A n \in Nat : n \in Solvable => n + 1 \in Solvable
    BY <1>2
  <2> QED
    BY <1>1, <1>3, <2>1, SetInduction
<1>5. \E f : Solves(f, Len(s))
  BY <1>4
<1>6. Solves(CHOOSE f : Solves(f, Len(s)), Len(s))
  <2> HIDE DEF Solves
  <2> QED
    BY <1>5
<1>7. Consumed(p, s) = CHOOSE f : Solves(f, Len(s))
  BY DEF Consumed
<1>8. Solves(Consumed(p, s), Len(s))
  <2> HIDE DEF Solves
  <2> QED
    BY <1>6, <1>7
<1> QED
  BY <1>3, <1>8

LEMMA ToldAre ==
  ASSUME NEW s \in Seq(Cells)
  PROVE  \A n \in 0 .. Len(s) : Told(s)[n] \in Seq(Pairs)
<1> DEFINE Good == {n \in Nat : n <= Len(s) => Told(s)[n] \in Seq(Pairs)}
<1>1. Len(s) \in Nat /\ \A n \in 1 .. Len(s) : s[n] \in Cells
  BY LenProperties, ElementOfSeq
<1>2. 0 \in Good
  BY ToldEquation, EmptySeq
<1>3. ASSUME NEW n \in Nat, n \in Good PROVE n + 1 \in Good
  <2> SUFFICES ASSUME n + 1 <= Len(s) PROVE Told(s)[n + 1] \in Seq(Pairs)
    OBVIOUS
  <2>1. n + 1 \in 1 .. Len(s) /\ (n + 1) - 1 = n /\ Told(s)[n] \in Seq(Pairs)
    BY <1>1, <1>3
  <2>2. s[n + 1] \in Cells /\ s[n + 1].blocks \in Nat
    BY <1>1, <2>1, CellFacts
  <2>3. Told(s)[n + 1] = Told(s)[n] \o BlocksOf(s[n + 1], s[n + 1].blocks)
    BY <2>1, ToldEquation
  <2>4. BlocksOf(s[n + 1], s[n + 1].blocks) \in Seq(Pairs)
    BY <2>2, BlocksAre
  <2> QED
    BY <2>1, <2>3, <2>4, ConcatProperties
<1> HIDE DEF Good
<1>4. \A n \in Nat : n \in Good
  BY <1>2, <1>3, SetInduction
<1> QED
  BY <1>1, <1>4 DEF Good

LEMMA ToldAgrees ==
  ASSUME NEW s \in Seq(Cells), NEW t \in Seq(Cells), NEW m \in Nat, Agree(s, t, m)
  PROVE  Told(s)[m] = Told(t)[m]
<1> DEFINE Good == {n \in Nat : n <= m => Told(s)[n] = Told(t)[n]}
<1>1. /\ Len(s) \in Nat /\ Len(t) \in Nat /\ m <= Len(s) /\ m <= Len(t)
      /\ \A n \in 1 .. m : s[n] = t[n]
  BY LenProperties DEF Agree
<1>2. 0 \in Good
  BY ToldEquation
<1>3. ASSUME NEW n \in Nat, n \in Good PROVE n + 1 \in Good
  <2> SUFFICES ASSUME n + 1 <= m PROVE Told(s)[n + 1] = Told(t)[n + 1]
    OBVIOUS
  <2>1. n + 1 \in 1 .. Len(s) /\ n + 1 \in 1 .. Len(t) /\ (n + 1) - 1 = n /\ Told(s)[n] = Told(t)[n]
        /\ s[n + 1] = t[n + 1]
    BY <1>1, <1>3
  <2>2. Told(s)[n + 1] = Told(s)[n] \o BlocksOf(s[n + 1], s[n + 1].blocks)
    BY <2>1, ToldEquation
  <2>3. Told(t)[n + 1] = Told(t)[n] \o BlocksOf(t[n + 1], t[n + 1].blocks)
    BY <2>1, ToldEquation
  <2> QED
    BY <2>1, <2>2, <2>3
<1> HIDE DEF Good
<1>4. \A n \in Nat : n \in Good
  BY <1>2, <1>3, SetInduction
<1> QED
  BY <1>4 DEF Good

\* Two contents that agree up to a cursor tell the same up to it.
LEMMA SameEvents ==
  ASSUME NEW s \in Lines, NEW t \in Lines, NEW c, c.offset \in Nat, c.block \in Nat,
         Agree(s, t, c.offset), c.block > 0 => Agree(s, t, c.offset + 2)
  PROVE  EventsBefore(s, c) = EventsBefore(t, c)
<1>1. Told(s)[c.offset] = Told(t)[c.offset]
  BY LineFacts, ToldAgrees
<1>2. c.block # 0 => s[c.offset + 1] = t[c.offset + 1]
  BY DEF Agree
<1>3. CASE c.block = 0
  BY <1>1, <1>3 DEF EventsBefore
<1>4. CASE c.block # 0
  <2>1. BlocksOf(s[c.offset + 1], c.block) = BlocksOf(t[c.offset + 1], c.block)
    BY <1>2, <1>4
  <2> QED
    BY <1>1, <1>4, <2>1 DEF EventsBefore
<1> QED
  BY <1>3, <1>4

-----------------------------------------------------------------------------
(* LogReader: one line of a page                                             *)

EventRows == [text : Nat, block : Int, ordinal : Int]
PageCursors ==
  [id : Nat, offset : Nat, next : Int, block : Int, headLength : Nat, head : Seq(Cells), tail : Seq(Cells)]
ReadPages ==
  [pc : {"opened", "reading", "read", "checked"}, id : Nat, size : Nat, stamp : Nat, reset : BOOLEAN,
   pos : Nat, start : Nat, text : Cells, cursor : PageCursors, events : Seq(EventRows), lines : Nat,
   stop : BOOLEAN]

\* What the reading of a page does not change.
SameRead(p, q) ==
  /\ q.pc = p.pc /\ q.id = p.id /\ q.size = p.size /\ q.stamp = p.stamp /\ q.reset = p.reset
  /\ q.cursor.id = p.cursor.id

StoredTypes == stored \in LogCursors \cup {None} /\ indexed \in Seq(EventRows) /\ (stored = None => indexed = <<>>)

LEMMA PriorTyped ==
  ASSUME StoredTypes
  PROVE  Prior \in LogCursors /\ (stored # None => Prior = stored)
<1>1. <<>> \in Seq(Cells)
  BY EmptySeq
<1>2. NoPrior \in LogCursors
  BY <1>1 DEF NoPrior, LogCursors
<1> QED
  BY <1>2 DEF StoredTypes, Prior

\* The events that a line adds.
NewEvents(p) ==
  [k \in 1 .. Taken(p) |-> [text |-> p.text.text, block |-> FirstBlock(p) + k, ordinal |-> p.cursor.next + k - 1]]

LEMMA TakenTyped ==
  ASSUME StoredTypes, NEW p \in ReadPages
  PROVE  /\ FirstBlock(p) \in Nat /\ RoomLeft(p) \in Int /\ Taken(p) \in Int
         /\ p.text.text \in Nat /\ p.text.blocks \in Nat
         /\ NewEvents(p) \in Seq(EventRows)
<1>1. p.text.text \in Nat /\ p.text.blocks \in Nat
  BY CellFacts DEF ReadPages
<1>2. FirstBlock(p) \in Nat
  BY PriorTyped DEF FirstBlock, LogCursors
<1>3. MaxEvents \in Nat
  BY ReaderAssumption
<1>4. Len(p.events) \in Nat
  BY LenProperties DEF ReadPages
<1>5. RoomLeft(p) \in Int
  BY <1>3, <1>4 DEF RoomLeft
<1>6. Taken(p) \in Int
  BY <1>1, <1>2, <1>5 DEF Taken
<1>7. p.cursor.next \in Int
  BY DEF ReadPages, PageCursors
<1>8. PICK n \in Nat : 1 .. Taken(p) = 1 .. n
  <2>1. CASE Taken(p) >= 0
    BY <1>6, <2>1
  <2>2. CASE Taken(p) < 0
    <3>1. 1 .. Taken(p) = 1 .. 0
      BY <1>6, <2>2
    <3> QED
      BY <3>1
  <2> QED
    BY <1>6, <2>1, <2>2
<1>9. \A k \in 1 .. n :
        [text |-> p.text.text, block |-> FirstBlock(p) + k, ordinal |-> p.cursor.next + k - 1] \in EventRows
  BY <1>1, <1>2, <1>7 DEF EventRows
<1>10. NewEvents(p) \in [1 .. n -> EventRows]
  BY <1>8, <1>9 DEF NewEvents
<1>11. NewEvents(p) \in Seq(EventRows)
  BY <1>10
<1> QED
  BY <1>1, <1>2, <1>5, <1>6, <1>11

\* A whole line, with its parts named.
LEMMA LineConsumed ==
  ASSUME StoredTypes, NEW p \in ReadPages, ~p.stop, NEW q, q = ConsumeCell(p, NewLine)
  PROVE  LET again == FirstBlock(p) + Taken(p) < p.text.blocks IN
         /\ q \in ReadPages /\ SameRead(p, q)
         /\ q.events = p.events \o NewEvents(p)
         /\ q.cursor.next = p.cursor.next + Taken(p)
         /\ q.cursor.offset = IF again THEN p.start ELSE p.pos + 1
         /\ q.cursor.block = IF again THEN FirstBlock(p) + Taken(p) ELSE 0
         /\ q.start = p.pos + 1 /\ q.pos = p.pos + 1 /\ q.lines = p.lines + 1
         /\ ~q.stop => ~again /\ Len(p.events) + Taken(p) < MaxEvents
<1>1. PICK f, t, new : f = FirstBlock(p) /\ t = Taken(p) /\ new = NewEvents(p)
  OBVIOUS
<1>2. /\ f \in Nat /\ t \in Int /\ p.text.blocks \in Nat
      /\ new \in Seq(EventRows)
  BY <1>1, TakenTyped
<1>3. PICK again \in BOOLEAN : again <=> f + t < p.text.blocks
  OBVIOUS
<1>4. PICK stop \in BOOLEAN : stop <=> again \/ Len(p.events) + t >= MaxEvents \/ p.lines + 1 >= MaxEvents
  OBVIOUS
<1>16. PICK next, offset, block : /\ next = p.cursor.next + t
                                 /\ offset = (IF again THEN p.start ELSE p.pos + 1)
                                 /\ block = (IF again THEN f + t ELSE 0)
  OBVIOUS
<1>5. PICK taken : taken = [p.cursor EXCEPT !.next = next, !.offset = offset, !.block = block]
  OBVIOUS
<1>6. PICK events : events = p.events \o new
  OBVIOUS
<1>7. /\ p.pos \in Nat /\ p.start \in Nat /\ p.lines \in Nat /\ p.cursor \in PageCursors /\ p.events \in Seq(EventRows)
      /\ p.pos + 1 \in Nat /\ p.lines + 1 \in Nat
  BY DEF ReadPages
<1>8. /\ taken \in PageCursors /\ taken.next = p.cursor.next + t /\ taken.id = p.cursor.id
      /\ taken.offset = (IF again THEN p.start ELSE p.pos + 1) /\ taken.block = (IF again THEN f + t ELSE 0)
  <2>1. p.cursor.next \in Int
    BY <1>7 DEF PageCursors
  <2>2. next \in Int /\ offset \in Nat /\ block \in Int
    BY <1>2, <1>7, <1>16, <2>1
  <2>3. /\ taken \in PageCursors /\ taken.next = next /\ taken.offset = offset /\ taken.block = block
        /\ taken.id = p.cursor.id
    BY <1>5, <1>7, <2>2 DEF PageCursors
  <2> QED
    BY <1>16, <2>3
<1>9. events \in Seq(EventRows)
  BY <1>2, <1>6, <1>7, ConcatProperties
<1>10. q = [p EXCEPT !.events = events, !.cursor = taken, !.start = p.pos + 1, !.lines = p.lines + 1,
                     !.stop = stop, !.pos = p.pos + 1]
  <2>1. q = [ConsumeLine(p, p.pos + 1) EXCEPT !.pos = p.pos + 1]
    BY DEF ConsumeCell
  <2>2. ConsumeLine(p, p.pos + 1) =
          [p EXCEPT !.events = events, !.cursor = taken, !.start = p.pos + 1, !.lines = p.lines + 1, !.stop = stop]
    <3>1. ConsumeLine(p, p.pos + 1) =
            [p EXCEPT !.events = @ \o new, !.cursor.next = @ + t,
                      !.cursor.offset = IF again THEN p.start ELSE p.pos + 1,
                      !.cursor.block = IF again THEN f + t ELSE 0,
                      !.start = p.pos + 1, !.lines = @ + 1,
                      !.stop = stop]
      BY <1>1, <1>3, <1>4 DEF ConsumeLine, NewEvents
    <3>2. ConsumeLine(p, p.pos + 1) =
            [p EXCEPT !.events = events, !.cursor.next = next, !.cursor.offset = offset, !.cursor.block = block,
                      !.start = p.pos + 1, !.lines = p.lines + 1, !.stop = stop]
      BY <1>6, <1>7, <1>16, <3>1 DEF ReadPages, PageCursors
    <3> QED
      BY <1>5, <1>7, <3>2 DEF ReadPages, PageCursors
  <2> QED
    BY <2>1, <2>2 DEF ReadPages
<1>11. /\ q \in ReadPages /\ q.events = events /\ q.cursor = taken /\ q.start = p.pos + 1 /\ q.lines = p.lines + 1
       /\ q.stop = stop /\ q.pos = p.pos + 1
       /\ SameRead(p, q)
  <2>1. /\ q.events = events /\ q.cursor = taken /\ q.start = p.pos + 1 /\ q.lines = p.lines + 1
        /\ q.stop = stop /\ q.pos = p.pos + 1
        /\ q.pc = p.pc /\ q.id = p.id /\ q.size = p.size /\ q.stamp = p.stamp /\ q.reset = p.reset
    BY <1>10 DEF ReadPages
  <2>2. q \in ReadPages
    BY <1>7, <1>8, <1>9, <1>10 DEF ReadPages
  <2> QED
    BY <1>8, <2>1, <2>2 DEF SameRead
<1>12. MaxEvents \in Nat /\ Len(p.events) \in Nat
  BY <1>7, LenProperties, ReaderAssumption
<1> QED
  BY <1>1, <1>2, <1>3, <1>4, <1>6, <1>8, <1>11, <1>12

\* The text of a line.
LEMMA TextConsumed ==
  ASSUME NEW p \in ReadPages, ~p.stop, NEW cell \in Cells, cell # NewLine, NEW q, q = ConsumeCell(p, cell)
  PROVE  /\ q \in ReadPages /\ SameRead(p, q) /\ q.text = cell /\ q.pos = p.pos + 1
         /\ q.start = p.start /\ q.cursor = p.cursor /\ q.events = p.events /\ q.lines = p.lines /\ q.stop = p.stop
<1>1. q = [p EXCEPT !.text = cell, !.pos = p.pos + 1]
  BY DEF ConsumeCell
<1>2. p.pos + 1 \in Nat
  BY DEF ReadPages
<1>3. /\ q \in ReadPages /\ q.text = cell /\ q.pos = p.pos + 1
      /\ q.start = p.start /\ q.cursor = p.cursor /\ q.events = p.events /\ q.lines = p.lines /\ q.stop = p.stop
      /\ q.pc = p.pc /\ q.id = p.id /\ q.size = p.size /\ q.stamp = p.stamp /\ q.reset = p.reset
  BY <1>1, <1>2 DEF ReadPages
<1> QED
  BY <1>3 DEF SameRead

LEMMA CellTyped ==
  ASSUME StoredTypes, NEW p \in ReadPages, NEW cell \in Cells, NEW q, q = ConsumeCell(p, cell)
  PROVE  q \in ReadPages /\ SameRead(p, q)
<1>1. CASE p.stop
  BY <1>1 DEF ConsumeCell, SameRead
<1>2. CASE ~p.stop /\ cell = NewLine
  BY <1>2, LineConsumed
<1>3. CASE ~p.stop /\ cell # NewLine
  BY <1>3, TextConsumed
<1> QED
  BY <1>1, <1>2, <1>3

-----------------------------------------------------------------------------
(* LogReader: what a page has read                                           *)

\* A cursor that stands between two lines of a content, or in one of its records.
CursorAt(c, s) ==
  /\ c.offset \in Nat /\ c.block \in Nat
  /\ c.offset <= Len(s) /\ LineEnd(s, c.offset)
  /\ c.block > 0 => c.offset + 2 <= Len(s) /\ c.block < s[c.offset + 1].blocks

Numbered(events) == \A i \in 1 .. Len(events) : events[i].ordinal = i - 1

\* Where the reading of a page began, and the events it adds to.
BeganAt(p) ==
  [offset |-> IF p.reset THEN 0 ELSE Prior.offset, block |-> IF p.reset THEN 0 ELSE Prior.block]
Base(p) == IF p.reset THEN <<>> ELSE indexed

Began(p, s) ==
  LET c == BeganAt(p) IN
    /\ CursorAt(c, s) /\ Blocked(Base(p)) = EventsBefore(s, c)
    /\ Numbered(Base(p))

\* What a page has of a content.
ReadingTrue(p, s) ==
  /\ p.start <= p.pos /\ p.pos <= p.start + 1 /\ p.pos <= Len(s) /\ LineEnd(s, p.start)
  /\ p.pos = p.start + 1 => p.text = s[p.start + 1] /\ ~p.stop
  /\ p.lines = 0 => /\ p.start = BeganAt(p).offset /\ p.events = <<>> /\ ~p.stop
                    /\ p.cursor.offset = BeganAt(p).offset /\ p.cursor.block = 0
  /\ p.lines > 0 => /\ p.start > BeganAt(p).offset
                    /\ Blocked(Base(p) \o p.events) = EventsBefore(s, p.cursor)
  /\ p.lines > 0 /\ ~p.stop => p.cursor.offset = p.start /\ p.cursor.block = 0
  /\ CursorAt(p.cursor, s)
  /\ p.cursor.next = Len(Base(p)) + Len(p.events) /\ Numbered(Base(p) \o p.events)
  /\ Len(p.events) <= MaxEvents

LEMMA BlockedAre ==
  ASSUME NEW events \in Seq(EventRows)
  PROVE  /\ Blocked(events) \in Seq(Pairs) /\ Len(Blocked(events)) = Len(events)
         /\ \A i \in 1 .. Len(events) : Blocked(events)[i] = <<events[i].text, events[i].block>>
<1>1. Len(events) \in Nat /\ DOMAIN events = 1 .. Len(events) /\ \A i \in 1 .. Len(events) : events[i] \in EventRows
  BY LenProperties, ElementOfSeq
<1>2. PICK n \in Nat : n = Len(events)
  BY <1>1
<1>3. \A i \in 1 .. n : <<events[i].text, events[i].block>> \in Pairs
  BY <1>1, <1>2 DEF EventRows, Pairs
<1>4. Blocked(events) = [i \in 1 .. n |-> <<events[i].text, events[i].block>>]
  BY <1>1, <1>2 DEF Blocked
<1>5. Blocked(events) \in [1 .. n -> Pairs]
  BY <1>3, <1>4
<1>6. Blocked(events) \in Seq(Pairs) /\ Len(Blocked(events)) = n
  BY <1>5
<1> QED
  BY <1>2, <1>4, <1>6

Joined(S, a, b, c) ==
  /\ c \in Seq(S) /\ Len(c) = Len(a) + Len(b)
  /\ \A i \in 1 .. Len(a) + Len(b) : c[i] = IF i <= Len(a) THEN a[i] ELSE b[i - Len(a)]
LEMMA JoinIs ==
  ASSUME NEW S, NEW a \in Seq(S), NEW b \in Seq(S)
  PROVE  Joined(S, a, b, a \o b)
  BY ConcatProperties DEF Joined

LEMMA BlockedJoin ==
  ASSUME NEW a \in Seq(EventRows), NEW b \in Seq(EventRows)
  PROVE  Blocked(a \o b) = Blocked(a) \o Blocked(b)
<1>1. PICK m \in Nat, n \in Nat : m = Len(a) /\ n = Len(b)
  BY LenProperties
<1>2. PICK x, y, z, ab : x = Blocked(a) /\ y = Blocked(b) /\ ab = a \o b /\ z = Blocked(ab)
  OBVIOUS
<1>3. /\ ab \in Seq(EventRows) /\ Len(ab) = m + n
      /\ \A i \in 1 .. m + n : ab[i] = IF i <= m THEN a[i] ELSE b[i - m]
  <2>1. Joined(EventRows, a, b, a \o b)
    BY JoinIs
  <2> QED
    BY <1>1, <1>2, <2>1 DEF Joined
<1>4. /\ x \in Seq(Pairs) /\ Len(x) = m /\ \A i \in 1 .. m : x[i] = <<a[i].text, a[i].block>>
      /\ y \in Seq(Pairs) /\ Len(y) = n /\ \A i \in 1 .. n : y[i] = <<b[i].text, b[i].block>>
  BY <1>1, <1>2, BlockedAre
<1>5. /\ z \in Seq(Pairs) /\ Len(z) = m + n
      /\ \A i \in 1 .. m + n : z[i] = <<ab[i].text, ab[i].block>>
  BY <1>2, <1>3, BlockedAre
<1>6. PICK xy : xy = x \o y
  OBVIOUS
<1>7. /\ xy \in Seq(Pairs) /\ Len(xy) = m + n
      /\ \A i \in 1 .. m + n : xy[i] = IF i <= m THEN x[i] ELSE y[i - m]
  <2>1. Joined(Pairs, x, y, x \o y)
    BY <1>4, JoinIs
  <2> QED
    BY <1>4, <1>6, <2>1 DEF Joined
<1>8. ASSUME NEW i \in 1 .. m + n PROVE z[i] = xy[i]
  <2>1. CASE i <= m
    <3>1. i \in 1 .. m
      BY <2>1
    <3>2. ab[i] = a[i]
      BY <1>3, <2>1
    <3>3. xy[i] = x[i]
      BY <1>7, <2>1
    <3>4. x[i] = <<a[i].text, a[i].block>>
      BY <1>4, <3>1
    <3>5. z[i] = <<ab[i].text, ab[i].block>>
      BY <1>5
    <3> QED
      BY <3>2, <3>3, <3>4, <3>5
  <2>2. CASE ~(i <= m)
    <3>1. i - m \in 1 .. n
      BY <2>2
    <3>2. ab[i] = b[i - m]
      BY <1>3, <2>2
    <3>3. xy[i] = y[i - m]
      BY <1>7, <2>2
    <3>4. y[i - m] = <<b[i - m].text, b[i - m].block>>
      BY <1>4, <3>1
    <3>5. z[i] = <<ab[i].text, ab[i].block>>
      BY <1>5
    <3> QED
      BY <3>2, <3>3, <3>4, <3>5
  <2> QED
    BY <2>1, <2>2
<1>9. z = xy
  BY <1>5, <1>7, <1>8, SeqEqual
<1> QED
  BY <1>2, <1>6, <1>9

\* Joining is associative.
LEMMA PairsAssociate ==
  ASSUME NEW a \in Seq(Pairs), NEW b \in Seq(Pairs), NEW c \in Seq(Pairs)
  PROVE  (a \o b) \o c = a \o (b \o c)
  BY ConcatAssociative

\* The blocks that a line adds continue those before them.
BlocksAfter(cell, f, t, more) ==
  more \in Seq(Pairs) /\ Len(more) = t /\ \A k \in 1 .. t : more[k] = <<cell.text, f + k>>
Continued(cell, f, t, more) == BlocksOf(cell, f) \o more = BlocksOf(cell, f + t)
LEMMA BlocksJoin ==
  ASSUME NEW cell \in Cells, NEW f \in Nat, NEW t \in Nat, NEW more, BlocksAfter(cell, f, t, more)
  PROVE  Continued(cell, f, t, more)
<1>1. PICK x, y : x = BlocksOf(cell, f) /\ y = BlocksOf(cell, f + t)
  OBVIOUS
<1>2. x \in Seq(Pairs) /\ Len(x) = f /\ \A k \in 1 .. f : x[k] = <<cell.text, k>>
  BY <1>1, BlocksAre
<1>3. f + t \in Nat
  OBVIOUS
<1>4. y \in Seq(Pairs) /\ Len(y) = f + t /\ \A k \in 1 .. f + t : y[k] = <<cell.text, k>>
  BY <1>1, <1>3, BlocksAre
<1>7. PICK z : z = x \o more
  OBVIOUS
<1>9. more \in Seq(Pairs) /\ Len(more) = t /\ \A k \in 1 .. t : more[k] = <<cell.text, f + k>>
  BY DEF BlocksAfter
<1>5. /\ z \in Seq(Pairs) /\ Len(z) = f + t
      /\ \A k \in 1 .. f + t : z[k] = IF k <= f THEN x[k] ELSE more[k - f]
  <2>1. Joined(Pairs, x, more, x \o more)
    BY <1>2, <1>9, JoinIs
  <2> QED
    BY <1>2, <1>7, <1>9, <2>1 DEF Joined
<1>6. ASSUME NEW k \in 1 .. f + t PROVE z[k] = y[k]
  <2>1. CASE k <= f
    <3>1. k \in 1 .. f
      BY <2>1
    <3> QED
      BY <1>2, <1>4, <1>5, <2>1, <3>1
  <2>2. CASE ~(k <= f)
    <3>1. k - f \in 1 .. t /\ f + (k - f) = k
      BY <2>2
    <3>2. z[k] = more[k - f]
      BY <1>5, <2>2
    <3>3. more[k - f] = <<cell.text, f + (k - f)>>
      BY <1>9, <3>1
    <3> QED
      BY <1>4, <3>1, <3>2, <3>3
  <2> QED
    BY <2>1, <2>2
<1>8. z = y
  BY <1>4, <1>5, <1>6, SeqEqual
<1> QED
  BY <1>1, <1>7, <1>8 DEF Continued

LEMMA BaseTyped ==
  ASSUME StoredTypes, NEW p
  PROVE  Base(p) \in Seq(EventRows) /\ BeganAt(p).offset \in Nat /\ BeganAt(p).block \in Nat
  BY PriorTyped, EmptySeq DEF StoredTypes, Base, BeganAt, LogCursors

\* The block at which a line is taken up.
LEMMA FirstBlockIs ==
  ASSUME StoredTypes, NEW p \in ReadPages, NEW s \in Lines, Began(p, s), ReadingTrue(p, s), ~p.stop,
         p.pos = p.start + 1
  PROVE  /\ p.lines = 0 => FirstBlock(p) = BeganAt(p).block
         /\ p.lines > 0 => FirstBlock(p) = 0
         /\ FirstBlock(p) \in Nat /\ FirstBlock(p) <= p.text.blocks
<1>1. /\ p.lines = 0 => FirstBlock(p) = BeganAt(p).block
      /\ p.lines > 0 => FirstBlock(p) = 0
  BY PriorTyped DEF FirstBlock, BeganAt, ReadingTrue, LogCursors, ReadPages
<1>2. p.lines \in Nat /\ p.text = s[p.start + 1] /\ p.text.blocks \in Nat
  BY TakenTyped DEF ReadingTrue, ReadPages
<1>3. p.lines = 0 => p.start = BeganAt(p).offset
  BY DEF ReadingTrue
<1>4. BeganAt(p).block \in Nat /\ (BeganAt(p).block > 0 => BeganAt(p).block < s[BeganAt(p).offset + 1].blocks)
  BY DEF Began, CursorAt
<1>5. CASE p.lines = 0
  BY <1>1, <1>2, <1>3, <1>4, <1>5
<1>6. CASE p.lines > 0
  BY <1>1, <1>2, <1>6
<1> QED
  BY <1>1, <1>2, <1>5, <1>6

\* What a page has when it comes to the end of a line.
LEMMA BeforeLine ==
  ASSUME StoredTypes, NEW p \in ReadPages, NEW s \in Lines, Began(p, s), ReadingTrue(p, s), ~p.stop,
         p.pos = p.start + 1
  PROVE  Blocked(Base(p) \o p.events) = Told(s)[p.start] \o BlocksOf(p.text, FirstBlock(p))
<1>1. /\ p.text = s[p.start + 1] /\ p.text \in Cells /\ p.lines \in Nat
      /\ Base(p) \in Seq(EventRows) /\ BeganAt(p).block \in Nat
  BY BaseTyped DEF ReadingTrue, ReadPages
<1>2. BlocksOf(p.text, 0) = <<>>
  BY <1>1, BlocksAre
<1>3. CASE p.lines = 0
  <2>1. p.start = BeganAt(p).offset /\ p.events = <<>> /\ FirstBlock(p) = BeganAt(p).block
    BY <1>3, FirstBlockIs DEF ReadingTrue
  <2>2. Base(p) \o p.events = Base(p)
    BY <1>1, <2>1, ConcatEmptySeq
  <2>3. Blocked(Base(p)) = EventsBefore(s, BeganAt(p))
    BY DEF Began
  <2>4. EventsBefore(s, BeganAt(p)) = Told(s)[p.start] \o BlocksOf(p.text, FirstBlock(p))
    <3>1. CASE BeganAt(p).block = 0
      BY <1>2, <2>1, <3>1 DEF EventsBefore
    <3>2. CASE BeganAt(p).block # 0
      BY <1>1, <2>1, <3>2 DEF EventsBefore
    <3> QED
      BY <3>1, <3>2
  <2> QED
    BY <2>2, <2>3, <2>4
<1>4. CASE p.lines > 0
  <2>1. /\ Blocked(Base(p) \o p.events) = EventsBefore(s, p.cursor)
        /\ p.cursor.offset = p.start /\ p.cursor.block = 0 /\ FirstBlock(p) = 0
    BY <1>4, FirstBlockIs DEF ReadingTrue
  <2>2. EventsBefore(s, p.cursor) = Told(s)[p.start] \o <<>>
    BY <2>1 DEF EventsBefore
  <2> QED
    BY <1>2, <2>1, <2>2
<1>5. p.lines = 0 \/ p.lines > 0
  BY <1>1
<1> QED
  BY <1>3, <1>4, <1>5, Zenon

LEMMA LineTrue ==
  ASSUME StoredTypes, NEW p \in ReadPages, NEW s \in Lines, Began(p, s), ReadingTrue(p, s), ~p.stop,
         p.pos = p.start + 1, p.pos < Len(s), s[p.pos + 1] = NewLine,
         NEW q, q = ConsumeCell(p, NewLine)
  PROVE  Began(q, s) /\ ReadingTrue(q, s)
<1>1. PICK f, t, rec, new : f = FirstBlock(p) /\ t = Taken(p) /\ rec = p.text /\ new = NewEvents(p)
  OBVIOUS
<1>2. PICK base, events : base = Base(p) /\ events = p.events
  OBVIOUS
<1>3. /\ base \in Seq(EventRows) /\ events \in Seq(EventRows) /\ new \in Seq(EventRows) /\ rec \in Cells
      /\ Len(base) \in Nat /\ Len(events) \in Nat
  BY <1>1, <1>2, BaseTyped, TakenTyped, LenProperties DEF ReadPages
<1>4. /\ f \in Nat /\ rec.blocks \in Nat /\ rec.text \in Nat /\ f <= rec.blocks /\ t \in Int
      /\ p.start \in Nat /\ p.lines \in Nat /\ p.pos \in Nat
  BY <1>1, FirstBlockIs, TakenTyped DEF ReadPages
<1>5. t = IF rec.blocks - f < MaxEvents - Len(events) THEN rec.blocks - f ELSE MaxEvents - Len(events)
  BY <1>1, <1>2 DEF Taken, RoomLeft
<1>6. MaxEvents \in Nat /\ Len(events) <= MaxEvents
  BY <1>2, ReaderAssumption DEF ReadingTrue
<1>7. t \in Nat /\ f + t <= rec.blocks /\ Len(events) + t <= MaxEvents
  <2>1. PICK n \in Nat, had \in Nat : n = rec.blocks /\ had = Len(events)
    BY <1>3, <1>4
  <2>2. n - f \in Nat /\ MaxEvents - had \in Nat
    BY <1>4, <1>6, <2>1
  <2>3. t = IF n - f < MaxEvents - had THEN n - f ELSE MaxEvents - had
    BY <1>5, <2>1
  <2>4. t \in Nat /\ t <= n - f /\ t <= MaxEvents - had
    BY <2>2, <2>3
  <2>5. f + t <= n /\ had + t <= MaxEvents
    BY <1>4, <1>6, <2>1, <2>4
  <2> QED
    BY <2>1, <2>4, <2>5
<1>8. /\ q \in ReadPages /\ SameRead(p, q)
      /\ q.events = events \o new
      /\ q.cursor.next = p.cursor.next + t
      /\ q.cursor.offset = IF f + t < rec.blocks THEN p.start ELSE p.pos + 1
      /\ q.cursor.block = IF f + t < rec.blocks THEN f + t ELSE 0
      /\ q.start = p.pos + 1 /\ q.pos = p.pos + 1 /\ q.lines = p.lines + 1
      /\ ~q.stop => ~(f + t < rec.blocks) /\ Len(events) + t < MaxEvents
  BY <1>1, <1>2, LineConsumed
<1>26. /\ q.cursor.offset = IF f + t < rec.blocks THEN p.start ELSE p.pos + 1
       /\ q.cursor.block = IF f + t < rec.blocks THEN f + t ELSE 0
  BY <1>8
<1>9. Base(q) = base /\ BeganAt(q) = BeganAt(p)
  BY <1>2, <1>8 DEF Base, BeganAt, SameRead
<1>10. Began(q, s)
  BY <1>2, <1>9 DEF Began
<1>11. PICK said, had : said = base \o (events \o new) /\ had = base \o events
  OBVIOUS
<1>12. said = had \o new /\ had \in Seq(EventRows) /\ said \in Seq(EventRows)
  <2>1. had \in Seq(EventRows)
    BY <1>3, <1>11, JoinIs DEF Joined
  <2>2. said = had \o new
    BY <1>3, <1>11, ConcatAssociative
  <2>3. said \in Seq(EventRows)
    BY <1>3, <2>1, <2>2, JoinIs DEF Joined
  <2> QED
    BY <2>1, <2>2, <2>3
<1>13. /\ Len(new) = t /\ \A k \in 1 .. t : new[k] =
             [text |-> rec.text, block |-> f + k, ordinal |-> p.cursor.next + k - 1]
  <2>1. new = [k \in 1 .. t |-> [text |-> rec.text, block |-> f + k, ordinal |-> p.cursor.next + k - 1]]
    BY <1>1 DEF NewEvents
  <2> QED
    BY <1>7, <2>1
<1>14. PICK more : more = Blocked(new)
  OBVIOUS
<1>15. /\ more \in Seq(Pairs) /\ Len(more) = t /\ \A k \in 1 .. t : more[k] = <<rec.text, f + k>>
  <2>1. /\ more \in Seq(Pairs) /\ Len(more) = t /\ \A k \in 1 .. t : more[k] = <<new[k].text, new[k].block>>
    BY <1>3, <1>13, <1>14, BlockedAre
  <2>2. \A k \in 1 .. t : new[k].text = rec.text /\ new[k].block = f + k
    BY <1>13
  <2> QED
    BY <2>1, <2>2
<1>16. s \in Seq(Cells) /\ Len(s) \in Nat /\ rec = s[p.start + 1]
  BY <1>1, LineFacts DEF ReadingTrue
<1>17. PICK told : told = Told(s)[p.start]
  OBVIOUS
<1>18. told \in Seq(Pairs)
  BY <1>4, <1>16, <1>17, ToldAre
<1>19. Blocked(said) = told \o BlocksOf(rec, f + t)
  <2>1. Blocked(said) = Blocked(had) \o more
    BY <1>3, <1>12, <1>14, BlockedJoin
  <2>2. Blocked(had) = told \o BlocksOf(rec, f)
    BY <1>1, <1>2, <1>11, <1>17, BeforeLine
  <2>3. PICK x : x = BlocksOf(rec, f)
    OBVIOUS
  <2>4. x \in Seq(Pairs)
    BY <1>3, <1>4, <2>3, BlocksAre
  <2>5. BlocksOf(rec, f) \o more = BlocksOf(rec, f + t)
    <3>1. BlocksAfter(rec, f, t, more)
      BY <1>15, Zenon DEF BlocksAfter
    <3>2. rec \in Cells /\ f \in Nat /\ t \in Nat
      BY <1>3, <1>4, <1>7
    <3>3. Continued(rec, f, t, more)
      BY <3>1, <3>2, BlocksJoin
    <3> QED
      BY <3>3, Zenon DEF Continued
  <2>6. (told \o x) \o more = told \o (x \o more)
    <3>1. more \in Seq(Pairs)
      BY <1>15
    <3> QED
      BY <1>18, <2>4, <3>1, PairsAssociate
  <2> QED
    BY <2>1, <2>2, <2>3, <2>5, <2>6
<1>20. EventsBefore(s, q.cursor) = told \o BlocksOf(rec, f + t)
  <2>1. CASE f + t < rec.blocks
    <3>1. q.cursor.offset = p.start /\ q.cursor.block = f + t
      BY <1>8, <2>1
    <3>2. CASE f + t = 0
      <4>1. BlocksOf(rec, f + t) = <<>>
        BY <1>3, <3>2, BlocksAre
      <4> QED
        BY <1>17, <3>1, <3>2, <4>1 DEF EventsBefore
    <3>3. CASE f + t # 0
      BY <1>16, <1>17, <3>1, <3>3 DEF EventsBefore
    <3> QED
      BY <3>2, <3>3
  <2>2. CASE ~(f + t < rec.blocks)
    <3>9. q.cursor.offset = p.pos + 1 /\ q.cursor.block = 0
      BY <1>26, <2>2
    <3>1. f + t = rec.blocks /\ q.cursor.offset = p.start + 2 /\ q.cursor.block = 0
      BY <1>4, <1>7, <2>2, <3>9
    <3>2. p.start + 1 \in 1 .. Len(s) /\ p.start + 2 \in 1 .. Len(s) /\ (p.start + 1) - 1 = p.start
          /\ (p.start + 2) - 1 = p.start + 1 /\ p.pos + 1 = p.start + 2
      BY <1>4, <1>16
    <3>3. Told(s)[p.start + 1] = told \o BlocksOf(rec, rec.blocks)
      BY <1>16, <1>17, <3>2, ToldEquation
    <3>4. Told(s)[p.start + 2] = Told(s)[p.start + 1] \o BlocksOf(NewLine, 0)
      BY <1>16, <3>2, ToldEquation, CellFacts
    <3>5. BlocksOf(NewLine, 0) = <<>>
      BY BlocksAre, CellFacts
    <3>6. EventsBefore(s, q.cursor) = Told(s)[p.start + 2] \o <<>>
      BY <3>1 DEF EventsBefore
    <3>7. BlocksOf(rec, rec.blocks) \in Seq(Pairs)
      BY <1>3, <1>4, BlocksAre
    <3>8. told \o BlocksOf(rec, rec.blocks) \in Seq(Pairs)
      BY <1>18, <3>7, ConcatProperties
    <3> QED
      BY <3>1, <3>3, <3>4, <3>5, <3>6, <3>8, ConcatEmptySeq
  <2> QED
    BY <2>1, <2>2
<1>21. Numbered(said) /\ q.cursor.next = Len(base) + Len(q.events) /\ Len(q.events) <= MaxEvents
  <2>1. /\ Len(had) = Len(base) + Len(events) /\ Len(said) = Len(had) + t /\ Len(q.events) = Len(events) + t
        /\ \A i \in 1 .. Len(had) + t : said[i] = IF i <= Len(had) THEN had[i] ELSE new[i - Len(had)]
    <3>1. Len(had) = Len(base) + Len(events)
      BY <1>3, <1>11, ConcatProperties
    <3>2. Len(q.events) = Len(events) + t
      <4>1. q.events = events \o new /\ Len(new) = t
        BY <1>8, <1>13, Zenon
      <4>2. Len(events \o new) = Len(events) + Len(new)
        BY <1>3, ConcatProperties
      <4> QED
        BY <4>1, <4>2, Zenon
    <3>3. PICK joined : joined = had \o new
      OBVIOUS
    <3>4. Len(joined) = Len(had) + t
          /\ \A i \in 1 .. Len(had) + t : joined[i] = IF i <= Len(had) THEN had[i] ELSE new[i - Len(had)]
      BY <1>3, <1>12, <1>13, <3>3, ConcatProperties
    <3> QED
      BY <1>12, <3>1, <3>2, <3>3, <3>4
  <2>2. p.cursor.next = Len(base) + Len(events) /\ Numbered(had)
    BY <1>2, <1>11 DEF ReadingTrue
  <2>3. PICK h \in Nat : h = Len(had)
    BY <1>3, <2>1
  <2>4. ASSUME NEW i \in 1 .. h + t PROVE said[i].ordinal = i - 1
    <3>1. CASE i <= h
      BY <2>1, <2>2, <2>3, <3>1 DEF Numbered
    <3>2. CASE ~(i <= h)
      <4>1. i - h \in 1 .. t /\ said[i] = new[i - h]
        <5>1. i - h \in 1 .. t
          BY <1>7, <3>2
        <5>2. \A n \in 1 .. h + t : said[n] = IF n <= h THEN had[n] ELSE new[n - h]
          BY <2>1, <2>3
        <5> QED
          BY <3>2, <5>1, <5>2
      <4>2. new[i - h].ordinal = h + (i - h) - 1
        BY <1>13, <2>1, <2>2, <2>3, <4>1
      <4> QED
        BY <4>1, <4>2
    <3> QED
      BY <3>1, <3>2
  <2> QED
    BY <1>3, <1>7, <1>8, <2>1, <2>2, <2>3, <2>4 DEF Numbered
<1>22. CursorAt(q.cursor, s)
  <2>1. CASE f + t < rec.blocks
    <3>1. q.cursor.offset = p.start /\ q.cursor.block = f + t
      BY <1>26, <2>1
    <3>2. p.start <= Len(s) /\ p.start + 2 <= Len(s) /\ LineEnd(s, p.start)
      BY <1>4, <1>16 DEF ReadingTrue
    <3> QED
      BY <1>4, <1>7, <1>16, <2>1, <3>1, <3>2 DEF CursorAt
  <2>2. CASE ~(f + t < rec.blocks)
    <3>1. q.cursor.offset = p.pos + 1 /\ q.cursor.block = 0
      BY <1>26, <2>2
    <3> QED
      BY <1>4, <1>16, <3>1 DEF CursorAt, LineEnd
  <2> QED
    BY <2>1, <2>2
<1>23. p.start >= BeganAt(p).offset /\ BeganAt(p).offset \in Nat
  BY <1>4, BaseTyped DEF ReadingTrue
<1>24. /\ q.start <= q.pos /\ q.pos <= q.start + 1 /\ q.pos <= Len(s) /\ LineEnd(s, q.start)
       /\ q.pos # q.start + 1 /\ q.lines > 0 /\ q.start > BeganAt(q).offset
  <2>1. q.start = p.pos + 1 /\ q.pos = p.pos + 1 /\ q.lines = p.lines + 1 /\ BeganAt(q) = BeganAt(p)
    BY <1>8, <1>9
  <2>2. LineEnd(s, p.pos + 1)
    BY DEF LineEnd
  <2>3. p.pos + 1 <= Len(s) /\ p.pos + 1 > BeganAt(p).offset
    BY <1>4, <1>16, <1>23
  <2> QED
    BY <1>4, <2>1, <2>2, <2>3
<1>25. ~q.stop => q.cursor.offset = q.start /\ q.cursor.block = 0
  BY <1>8
<1> QED
  BY <1>8, <1>9, <1>10, <1>11, <1>19, <1>20, <1>21, <1>22, <1>24, <1>25 DEF ReadingTrue

LEMMA CellTrue ==
  ASSUME StoredTypes, NEW p \in ReadPages, NEW s \in Lines, Began(p, s), ReadingTrue(p, s), ~p.stop,
         p.pos < Len(s), NEW q, q = ConsumeCell(p, s[p.pos + 1])
  PROVE  /\ q \in ReadPages /\ SameRead(p, q) /\ Began(q, s) /\ ReadingTrue(q, s)
         /\ q.stop \/ q.pos = p.pos + 1
<1>1. /\ p.pos \in Nat /\ p.start \in Nat /\ Len(s) \in Nat /\ p.pos + 1 \in 1 .. Len(s)
      /\ \A i \in 1 .. Len(s) : s[i] \in Cells /\ (s[i] = NewLine <=> i > 1 /\ s[i - 1] # NewLine)
  BY LineFacts DEF ReadPages
<1>2. p.pos = p.start \/ p.pos = p.start + 1
  BY <1>1 DEF ReadingTrue
<1>3. LineEnd(s, p.start)
  BY DEF ReadingTrue
<1>4. CASE p.pos = p.start
  <2>1. s[p.pos + 1] # NewLine /\ s[p.pos + 1] \in Cells
    <3>1. (p.pos + 1) - 1 = p.pos /\ (p.pos + 1 > 1 => p.pos \in 1 .. Len(s))
      BY <1>1
    <3> QED
      BY <1>1, <1>3, <1>4, <3>1 DEF LineEnd
  <2>2. /\ q \in ReadPages /\ SameRead(p, q) /\ q.text = s[p.pos + 1] /\ q.pos = p.pos + 1
        /\ q.start = p.start /\ q.cursor = p.cursor /\ q.events = p.events /\ q.lines = p.lines /\ q.stop = p.stop
    BY <2>1, TextConsumed
  <2>3. Base(q) = Base(p) /\ BeganAt(q) = BeganAt(p)
    BY <2>2 DEF Base, BeganAt, SameRead
  <2>4. Began(q, s)
    BY <2>3 DEF Began
  <2>5. q.start <= q.pos /\ q.pos <= q.start + 1 /\ q.pos <= Len(s) /\ q.text = s[q.start + 1]
    BY <1>1, <1>4, <2>2
  <2>6. ReadingTrue(q, s)
    BY <2>2, <2>3, <2>5 DEF ReadingTrue
  <2> QED
    BY <2>2, <2>4, <2>6
<1>5. CASE p.pos = p.start + 1
  <2>1. s[p.pos] # NewLine
    <3>1. (p.start + 1) - 1 = p.start /\ (p.start + 1 > 1 => p.start \in 1 .. Len(s)) /\ p.start + 1 \in 1 .. Len(s)
      BY <1>1, <1>5
    <3> QED
      BY <1>1, <1>3, <1>5, <3>1 DEF LineEnd
  <2>2. s[p.pos + 1] = NewLine
    <3>1. (p.pos + 1) - 1 = p.pos /\ p.pos + 1 > 1
      BY <1>1, <1>5
    <3> QED
      BY <1>1, <2>1, <3>1
  <2>3. q = ConsumeCell(p, NewLine)
    BY <2>2
  <2>4. Began(q, s) /\ ReadingTrue(q, s)
    BY <1>5, <2>2, <2>3, LineTrue
  <2>5. q \in ReadPages /\ SameRead(p, q) /\ q.pos = p.pos + 1
    BY <2>3, LineConsumed
  <2> QED
    BY <2>4, <2>5
<1> QED
  BY <1>2, <1>4, <1>5

\* What a chunk adds to a page: some of the log that is there now, of the
\* content that was there at the beginning as long as nothing was cut off.
LEMMA ChunkTyped ==
  ASSUME StoredTypes, NEW p \in ReadPages, NEW cells \in Seq(Cells)
  PROVE  \A n \in 0 .. Len(cells) : Consumed(p, cells)[n] \in ReadPages /\ SameRead(p, Consumed(p, cells)[n])
<1> DEFINE Good == {n \in Nat : n <= Len(cells) =>
                       Consumed(p, cells)[n] \in ReadPages /\ SameRead(p, Consumed(p, cells)[n])}
<1>1. Len(cells) \in Nat /\ \A n \in 1 .. Len(cells) : cells[n] \in Cells
  BY LenProperties, ElementOfSeq
<1>2. 0 \in Good
  BY ConsumedEquation DEF SameRead
<1>3. ASSUME NEW n \in Nat, n \in Good PROVE n + 1 \in Good
  <2> SUFFICES ASSUME n + 1 <= Len(cells)
               PROVE Consumed(p, cells)[n + 1] \in ReadPages /\ SameRead(p, Consumed(p, cells)[n + 1])
    OBVIOUS
  <2>1. PICK a, b : a = Consumed(p, cells)[n] /\ b = Consumed(p, cells)[n + 1]
    OBVIOUS
  <2>2. n + 1 \in 1 .. Len(cells) /\ (n + 1) - 1 = n /\ cells[n + 1] \in Cells
    BY <1>1
  <2>3. b = ConsumeCell(a, cells[n + 1])
    BY <2>1, <2>2, ConsumedEquation
  <2>4. a \in ReadPages /\ SameRead(p, a)
    BY <1>1, <1>3, <2>1
  <2>5. b \in ReadPages /\ SameRead(a, b)
    BY <2>2, <2>3, <2>4, CellTyped
  <2> QED
    BY <2>1, <2>4, <2>5 DEF SameRead
<1> HIDE DEF Good
<1>4. \A n \in Nat : n \in Good
  BY <1>2, <1>3, SetInduction
<1> QED
  BY <1>1, <1>4 DEF Good

LEMMA ChunkTrue ==
  ASSUME StoredTypes, NEW p \in ReadPages, NEW s \in Lines, Began(p, s), ReadingTrue(p, s), ~p.stop,
         NEW cells \in Seq(Cells), p.pos + Len(cells) <= Len(s),
         \A n \in 1 .. Len(cells) : cells[n] = s[p.pos + n]
  PROVE  \A n \in 0 .. Len(cells) : Began(Consumed(p, cells)[n], s) /\ ReadingTrue(Consumed(p, cells)[n], s)
<1> DEFINE Good == {n \in Nat : n <= Len(cells) =>
                       LET q == Consumed(p, cells)[n] IN
                         /\ q \in ReadPages /\ Began(q, s) /\ ReadingTrue(q, s)
                         /\ q.stop \/ q.pos = p.pos + n}
<1>1. Len(cells) \in Nat /\ Len(s) \in Nat /\ p.pos \in Nat /\ \A n \in 1 .. Len(cells) : cells[n] \in Cells
  BY LenProperties, ElementOfSeq, LineFacts DEF ReadPages
<1>2. 0 \in Good
  BY <1>1, ConsumedEquation
<1>3. ASSUME NEW n \in Nat, n \in Good PROVE n + 1 \in Good
  <2>1. PICK a, b : a = Consumed(p, cells)[n] /\ b = Consumed(p, cells)[n + 1]
    OBVIOUS
  <2> SUFFICES ASSUME n + 1 <= Len(cells)
               PROVE  /\ b \in ReadPages /\ Began(b, s) /\ ReadingTrue(b, s)
                      /\ b.stop \/ b.pos = p.pos + (n + 1)
    BY <2>1
  <2>2. n + 1 \in 1 .. Len(cells) /\ (n + 1) - 1 = n /\ n <= Len(cells)
    <3>1. PICK l \in Nat : l = Len(cells)
      BY <1>1
    <3>2. n + 1 <= l
      BY <3>1
    <3> HIDE DEF Good
    <3> QED
      BY <3>1, <3>2
  <2>3. b = ConsumeCell(a, cells[n + 1])
    BY <2>1, <2>2, ConsumedEquation
  <2>4. a \in ReadPages /\ Began(a, s) /\ ReadingTrue(a, s) /\ (a.stop \/ a.pos = p.pos + n)
    BY <1>3, <2>1, <2>2
  <2>5. CASE a.stop
    <3>1. b = a
      BY <2>3, <2>5 DEF ConsumeCell
    <3> QED
      BY <2>4, <2>5, <3>1
  <2>6. CASE ~a.stop
    <3>1. a.pos = p.pos + n /\ a.pos < Len(s) /\ a.pos + 1 = p.pos + (n + 1)
      BY <1>1, <2>2, <2>4, <2>6
    <3>2. cells[n + 1] = s[a.pos + 1]
      BY <2>2, <3>1
    <3>3. b = ConsumeCell(a, s[a.pos + 1])
      BY <2>3, <3>2
    <3> QED
      BY <2>4, <2>6, <3>1, <3>3, CellTrue
  <2> QED
    BY <2>5, <2>6
<1> HIDE DEF Good
<1>4. \A n \in Nat : n \in Good
  BY <1>2, <1>3, SetInduction
<1> QED
  BY <1>1, <1>4 DEF Good

-----------------------------------------------------------------------------
(* LogReader: the inductive invariant                                        *)

Files == [id : Nat, cells : Lines]
StoredPages == [pc : {"stored"}, id : Nat, size : Nat, stamp : Nat, more : BOOLEAN]

\* The log is its last version; the open file is the log, or was replaced.
LogTyped ==
  /\ writes \in Nat /\ writes >= 1
  /\ versions \in Seq(Files) /\ Len(versions) = writes /\ jsonl = versions[writes]
  /\ old \in Files /\ old.id <= writes /\ (old.id = jsonl.id => old = jsonl)

\* A text was written once: where it stands in two versions, they are of one
\* file and agree up to it.
TextsOnce ==
  /\ \A k \in 1 .. writes : /\ versions[k].id <= writes
                            /\ \A i \in 1 .. Len(versions[k].cells) : versions[k].cells[i].text < writes
  /\ \A j, k \in 1 .. writes : \A i \in 1 .. Len(versions[j].cells) :
       /\ i <= Len(versions[k].cells) /\ versions[j].cells[i] = versions[k].cells[i]
       /\ versions[j].cells[i] # NewLine
       => versions[j].id = versions[k].id /\ Agree(versions[j].cells, versions[k].cells, i)

PageTyped ==
  /\ page = NoPage \/ page \in ReadPages \/ page \in StoredPages
  /\ page.pc = "opened" => page.events = <<>> /\ page.lines = 0 /\ ~page.stop
  /\ page.pc \in {"reading", "read", "checked"} => page.cursor.id = page.id

\* The content that a page was opened with.
Opened == versions[page.stamp].cells

\* The open file still begins as it did when it was opened, but for what was
\* cut off; once something was, it stays so.
PageOpened ==
  page.pc # "idle" =>
    /\ page.stamp \in 1 .. writes /\ versions[page.stamp].id = page.id /\ Len(Opened) = page.size
    /\ old.id = page.id
    /\ \A i \in 1 .. page.size : i <= Len(old.cells) => old.cells[i] = Opened[i]
    /\ Len(old.cells) >= page.size =>
         \A j \in page.stamp .. writes : versions[j].id = page.id => Agree(versions[j].cells, Opened, page.size)

\* The record in which a cursor stands stays, as long as what is before it does.
Before1(n) == IF n = 0 THEN 0 ELSE n - 1
HalfStays(c, k) ==
  \A j \in k .. writes :
    versions[j].id = versions[k].id /\ Agree(versions[j].cells, versions[k].cells, Before1(c.offset))
      => Agree(versions[j].cells, versions[k].cells, c.offset + 2)

\* What a page has read is of the content it was opened with.
Whole == page.pc = "checked" \/ Len(old.cells) >= page.size
PageReads ==
  page.pc \in {"reading", "read", "checked"} /\ Whole =>
    /\ Began(page, Opened) /\ ReadingTrue(page, Opened)
    /\ page.pc # "reading" => page.stop \/ page.pos >= page.size
    /\ page.pc = "checked" /\ page.cursor.block > 0 => HalfStays(page.cursor, page.stamp)

\* A content with the tail of a cursor has the text before that cursor.
TailTrue(c, s) ==
  \A t \in Lines : c.offset <= Len(t) /\ LastCells(t, c.offset) = c.tail
                     => c.offset = 0 \/ t[c.offset - 1] = s[c.offset - 1]

\* The version that the stored events are of.
StoredAt(k) ==
  /\ versions[k].id = stored.id /\ CursorAt(stored, versions[k].cells)
  /\ Blocked(indexed) = EventsBefore(versions[k].cells, stored)
  /\ TailTrue(stored, versions[k].cells)
  /\ stored.block > 0 => HalfStays(stored, k)
  /\ page \in ReadPages => k <= page.stamp
  /\ page.pc = "stored" =>
       /\ k >= page.stamp
       /\ page.more \/ \A i \in stored.offset + 1 .. page.size : versions[k].cells[i] # NewLine

StoredTrue ==
  stored # None => /\ Numbered(indexed) /\ stored.next = Len(indexed)
                   /\ \E k \in 1 .. writes : StoredAt(k)

ReaderInv ==
  LogTyped /\ TextsOnce /\ StoredTypes /\ PageTyped /\ PageOpened /\ PageReads /\ StoredTrue

LEMMA VersionsAre ==
  ASSUME LogTyped
  PROVE  /\ writes \in Nat /\ writes >= 1 /\ jsonl = versions[writes] /\ writes \in 1 .. writes
         /\ \A k \in 1 .. writes : /\ versions[k] \in Files /\ versions[k].id \in Nat
                                   /\ versions[k].cells \in Lines /\ Len(versions[k].cells) \in Nat
         /\ old \in Files /\ old.id \in Nat /\ old.cells \in Lines /\ Len(old.cells) \in Nat
<1>1. /\ writes \in Nat /\ writes >= 1 /\ jsonl = versions[writes] /\ versions \in Seq(Files) /\ Len(versions) = writes
      /\ old \in Files
  BY DEF LogTyped
<1>2. \A k \in 1 .. writes : versions[k] \in Files
  BY <1>1, ElementOfSeq
<1>3. \A f \in Files : f.id \in Nat /\ f.cells \in Lines
  BY DEF Files
<1>4. \A f \in Files : Len(f.cells) \in Nat
  BY <1>3, LineFacts
<1>5. writes \in 1 .. writes
  BY <1>1
<1> QED
  BY <1>1, <1>2, <1>3, <1>4, <1>5

-----------------------------------------------------------------------------
(* LogReader: a change of the log                                            *)

\* The log becomes another content that begins as the last one, up to a place,
\* and has what was never written before behind it.
Grown(new, m) ==
  /\ new \in Files /\ new.id \in {jsonl.id, writes + 1}
  /\ m \in Nat /\ m <= Len(new.cells) /\ Agree(new.cells, jsonl.cells, m)
  /\ \A i \in m + 1 .. Len(new.cells) : new.cells[i] = NewLine \/ new.cells[i].text = writes
  /\ m > 0 => new.id = jsonl.id

\* The same file: cut off, or longer; no cursor stands in a record that it cuts.
NotHalf(c, n) == c.block > 0 => ~HalfTaken(c, n)
SameLog(new, m) ==
  new.id = jsonl.id =>
    \/ /\ m = Len(new.cells) /\ m < Len(jsonl.cells)
       /\ stored # None => NotHalf(stored, m)
       /\ page.pc \in {"reading", "read", "checked"} => NotHalf(page.cursor, m)
    \/ m = Len(jsonl.cells) /\ ~TruncatedBelow

Changed(new) ==
  /\ writes' = writes + 1 /\ jsonl' = new /\ versions' = Append(versions, new)
  /\ old' = (IF old.id = jsonl.id /\ new.id = jsonl.id THEN new ELSE old)
  /\ page' = page /\ stored' = stored /\ indexed' = indexed

LEMMA ChangedVersions ==
  ASSUME LogTyped, NEW new \in Files, Changed(new)
  PROVE  /\ versions' \in Seq(Files) /\ Len(versions') = writes + 1 /\ writes' = writes + 1
         /\ \A k \in 1 .. writes : versions'[k] = versions[k]
         /\ versions'[writes + 1] = new
<1>1. writes \in Nat /\ versions \in Seq(Files) /\ Len(versions) = writes /\ versions' = Append(versions, new)
  BY DEF LogTyped, Changed
<1>2. PICK v : v = versions'
  OBVIOUS
<1>3. v \in Seq(Files) /\ Len(v) = writes + 1 /\ (\A k \in 1 .. writes : v[k] = versions[k]) /\ v[writes + 1] = new
  BY <1>1, <1>2, AppendProperties
<1> QED
  BY <1>2, <1>3 DEF Changed

LEMMA ChangeTyped ==
  ASSUME LogTyped, TextsOnce, NEW new, NEW m, Grown(new, m), Changed(new)
  PROVE  LogTyped'
<1>1. /\ writes' = writes + 1 /\ versions' \in Seq(Files) /\ Len(versions') = writes' /\ jsonl' = versions'[writes']
  BY ChangedVersions DEF Grown, Changed
<1>2. writes \in Nat /\ jsonl.id \in Nat /\ jsonl.id <= writes /\ new \in Files /\ old.id <= writes /\ old.id \in Nat
      /\ new.id \in Nat
  BY VersionsAre DEF TextsOnce, LogTyped, Grown, Files
<1>3. CASE old.id = jsonl.id /\ new.id = jsonl.id
  <2>1. old' = new /\ jsonl' = new
    BY <1>3 DEF Changed
  <2> QED
    BY <1>1, <1>2, <1>3, <2>1 DEF LogTyped
<1>4. CASE ~(old.id = jsonl.id /\ new.id = jsonl.id)
  <2>1. old' = old /\ jsonl' = new
    BY <1>4 DEF Changed
  <2>2. old.id # new.id
    BY <1>2, <1>4 DEF Grown
  <2> QED
    BY <1>1, <1>2, <2>1, <2>2 DEF LogTyped
<1> QED
  BY <1>3, <1>4

\* What stands in the new content and in an earlier one was in the last one.
LEMMA ChangeAgrees ==
  ASSUME LogTyped, TextsOnce, NEW new, NEW m, Grown(new, m), NEW k \in 1 .. writes,
         NEW i \in 1 .. Len(new.cells), i <= Len(versions[k].cells), new.cells[i] = versions[k].cells[i],
         new.cells[i] # NewLine
  PROVE  i <= m /\ versions[k].id = new.id /\ Agree(new.cells, versions[k].cells, i)
<1>1. /\ new.cells \in Lines /\ versions[k].cells \in Lines /\ jsonl = versions[writes] /\ writes \in 1 .. writes
      /\ Len(new.cells) \in Nat /\ Len(versions[k].cells) \in Nat /\ Len(jsonl.cells) \in Nat /\ writes \in Nat
      /\ m \in Nat
  BY VersionsAre, LineFacts DEF Grown, Files
<1>2. i <= m
  <2>1. i \in 1 .. Len(versions[k].cells)
    BY <1>1
  <2>2. versions[k].cells[i].text < writes /\ versions[k].cells[i].text \in Nat
    <3>1. versions[k].cells[i] \in Cells
      BY <1>1, <2>1, LineFacts
    <3> QED
      BY <2>1, <3>1, CellFacts DEF TextsOnce
  <2>3. CASE i > m
    <3>1. i \in m + 1 .. Len(new.cells)
      BY <1>1, <2>3
    <3>2. new.cells[i].text = writes
      BY <3>1 DEF Grown
    <3> QED
      BY <1>1, <2>2, <3>2
  <2> QED
    BY <1>1, <2>3
<1>3. i \in 1 .. Len(jsonl.cells) /\ new.cells[i] = jsonl.cells[i] /\ m > 0
  BY <1>1, <1>2 DEF Grown, Agree
<1>4. jsonl.id = versions[k].id /\ Agree(jsonl.cells, versions[k].cells, i)
  BY <1>1, <1>3 DEF TextsOnce
<1>5. Agree(new.cells, versions[k].cells, i)
  <2>1. \A n \in 1 .. i : n \in 1 .. m
    BY <1>1, <1>2
  <2>2. \A n \in 1 .. i : new.cells[n] = versions[k].cells[n]
    BY <1>4, <2>1 DEF Grown, Agree
  <2> QED
    BY <1>1, <2>2 DEF Agree
<1> QED
  BY <1>2, <1>3, <1>4, <1>5 DEF Grown

LEMMA ChangeTextsOnce ==
  ASSUME LogTyped, TextsOnce, NEW new, NEW m, Grown(new, m), Changed(new)
  PROVE  TextsOnce'
<1>1. /\ writes' = writes + 1 /\ (\A k \in 1 .. writes : versions'[k] = versions[k]) /\ versions'[writes + 1] = new
  BY ChangedVersions DEF Grown
<1>2. /\ writes \in Nat /\ new.id \in Nat /\ jsonl.id \in Nat /\ jsonl.id <= writes /\ Len(new.cells) \in Nat
      /\ new.cells \in Lines /\ m \in Nat /\ m <= Len(new.cells) /\ jsonl = versions[writes]
      /\ Len(jsonl.cells) \in Nat /\ jsonl.cells \in Lines /\ writes \in 1 .. writes
  BY VersionsAre, LineFacts DEF Grown, Files, TextsOnce
<1>3. new.id <= writes + 1
  BY <1>2 DEF Grown
<1>4. \A i \in 1 .. Len(new.cells) : new.cells[i].text < writes + 1
  <2> TAKE i \in 1 .. Len(new.cells)
  <2>1. CASE i <= m
    <3>1. i \in 1 .. Len(jsonl.cells) /\ new.cells[i] = jsonl.cells[i]
      BY <1>2, <2>1 DEF Grown, Agree
    <3>2. jsonl.cells[i].text < writes /\ jsonl.cells[i] \in Cells
      BY <1>2, <3>1, LineFacts DEF TextsOnce
    <3> QED
      BY <1>2, <3>1, <3>2, CellFacts
  <2>2. CASE i > m
    <3>1. i \in m + 1 .. Len(new.cells)
      BY <1>2, <2>2
    <3>2. new.cells[i] = NewLine \/ new.cells[i].text = writes
      BY <3>1 DEF Grown
    <3> QED
      BY <1>2, <3>2, CellFacts
  <2> QED
    BY <1>2, <2>1, <2>2
<1>5. \A k \in 1 .. writes : \A i \in 1 .. Len(versions[k].cells) : versions[k].cells[i].text < writes + 1
  <2> TAKE k \in 1 .. writes
  <2> TAKE i \in 1 .. Len(versions[k].cells)
  <2>1. versions[k].cells[i] \in Cells /\ versions[k].cells[i].text < writes
    BY VersionsAre, LineFacts DEF TextsOnce
  <2> QED
    BY <1>2, <2>1, CellFacts
<1>6. \A k \in 1 .. writes : versions[k].id <= writes + 1
  BY <1>2, VersionsAre DEF TextsOnce
<1>7. \A k \in 1 .. writes + 1 : k \in 1 .. writes \/ k = writes + 1
  BY <1>2
<1>8. \A k \in 1 .. writes' : /\ versions'[k].id <= writes'
                              /\ \A i \in 1 .. Len(versions'[k].cells) : versions'[k].cells[i].text < writes'
  BY <1>1, <1>3, <1>4, <1>5, <1>6, <1>7
<1>9. ASSUME NEW j \in 1 .. writes', NEW k \in 1 .. writes', NEW i \in 1 .. Len(versions'[j].cells),
             i <= Len(versions'[k].cells), versions'[j].cells[i] = versions'[k].cells[i],
             versions'[j].cells[i] # NewLine
      PROVE  versions'[j].id = versions'[k].id /\ Agree(versions'[j].cells, versions'[k].cells, i)
  <2>1. CASE j \in 1 .. writes /\ k \in 1 .. writes
    BY <1>1, <1>9, <2>1 DEF TextsOnce
  <2>2. CASE j = writes + 1 /\ k \in 1 .. writes
    <3>1. versions'[j] = new /\ versions'[k] = versions[k]
      BY <1>1, <2>2
    <3> QED
      BY <1>9, <2>2, <3>1, ChangeAgrees
  <2>3. CASE j \in 1 .. writes /\ k = writes + 1
    <3>1. versions'[j] = versions[j] /\ versions'[k] = new
      BY <1>1, <2>3
    <3>2. i \in 1 .. Len(new.cells) /\ i <= Len(versions[j].cells)
      <4>1. Len(versions[j].cells) \in Nat
        BY <2>3, VersionsAre
      <4> QED
        BY <1>2, <1>9, <3>1, <4>1
    <3>3. versions[j].id = new.id /\ Agree(new.cells, versions[j].cells, i)
      BY <1>9, <2>3, <3>1, <3>2, ChangeAgrees
    <3> QED
      BY <3>1, <3>3 DEF Agree
  <2>4. CASE j = writes + 1 /\ k = writes + 1
    <3>1. versions'[j] = new /\ versions'[k] = new
      BY <1>1, <2>4
    <3> QED
      BY <1>2, <1>9, <3>1 DEF Agree
  <2> QED
    BY <1>1, <1>7, <2>1, <2>2, <2>3, <2>4
<1> QED
  BY <1>8, <1>9 DEF TextsOnce, Agree

\* A reader's file after a change: as before, but for what was cut off.
LEMMA ChangeOpened ==
  ASSUME LogTyped, TextsOnce, PageTyped, PageOpened, NEW new, NEW m, Grown(new, m), SameLog(new, m), Changed(new)
  PROVE  PageOpened' /\ (page.pc # "idle" /\ Whole' => Whole)
<1>1. /\ writes' = writes + 1 /\ (\A k \in 1 .. writes : versions'[k] = versions[k]) /\ versions'[writes + 1] = new
      /\ page' = page
  BY ChangedVersions DEF Grown, Changed
<1>2. /\ writes \in Nat /\ new.id \in Nat /\ jsonl.id \in Nat /\ Len(new.cells) \in Nat
      /\ m \in Nat /\ m <= Len(new.cells) /\ jsonl = versions[writes]
      /\ Len(jsonl.cells) \in Nat /\ old.id \in Nat /\ old.id <= writes /\ Len(old.cells) \in Nat
      /\ m <= Len(jsonl.cells) /\ \A i \in 1 .. m : new.cells[i] = jsonl.cells[i]
  BY VersionsAre, LineFacts DEF Grown, Files, LogTyped, Agree
<1>3. CASE page.pc = "idle"
  BY <1>1, <1>3 DEF PageOpened
<1>4. CASE page.pc # "idle"
  <2>1. /\ page.stamp \in 1 .. writes /\ versions[page.stamp].id = page.id /\ Len(Opened) = page.size
        /\ old.id = page.id /\ page.size \in Nat
        /\ \A i \in 1 .. page.size : i <= Len(old.cells) => old.cells[i] = Opened[i]
    <3>1. page.size \in Nat
      BY <1>4 DEF PageTyped, NoPage, ReadPages, StoredPages
    <3> QED
      BY <1>4, <3>1 DEF PageOpened
  <2>2. Len(old.cells) >= page.size =>
          \A j \in page.stamp .. writes : versions[j].id = page.id => Agree(versions[j].cells, Opened, page.size)
    BY <1>4 DEF PageOpened
  <2>3. versions'[page'.stamp] = versions[page.stamp] /\ Opened' = Opened /\ page.stamp \in 1 .. writes'
    BY <1>1, <1>2, <2>1 DEF Opened
  <2>4. CASE ~(old.id = jsonl.id /\ new.id = jsonl.id)
    <3>1. old' = old
      BY <2>4 DEF Changed
    <3>2. new.id # page.id
      BY <1>2, <2>1, <2>4 DEF Grown
    <3>3. Len(old.cells) >= page.size =>
            \A j \in page.stamp .. writes' : versions'[j].id = page.id => Agree(versions'[j].cells, Opened, page.size)
      <4> SUFFICES ASSUME Len(old.cells) >= page.size, NEW j \in page.stamp .. writes', versions'[j].id = page.id
                   PROVE  Agree(versions'[j].cells, Opened, page.size)
        OBVIOUS
      <4>1. j # writes + 1
        BY <1>1, <3>2
      <4>2. j \in page.stamp .. writes /\ j \in 1 .. writes
        BY <1>1, <1>2, <2>1, <4>1
      <4> QED
        BY <1>1, <2>2, <4>2
    <3> QED
      BY <1>1, <1>4, <2>1, <2>3, <3>1, <3>3 DEF PageOpened, Whole
  <2>5. CASE old.id = jsonl.id /\ new.id = jsonl.id
    <3>1. old' = new /\ old = jsonl
      BY <2>5 DEF Changed, LogTyped
    <3>2. /\ m = Len(new.cells) \/ (m = Len(jsonl.cells) /\ Len(jsonl.cells) >= page.size)
          /\ Len(new.cells) >= page.size => Len(jsonl.cells) >= page.size
      <4>1. ~TruncatedBelow => Len(jsonl.cells) >= page.size
        BY <1>2, <1>4, <2>1, <2>5 DEF TruncatedBelow
      <4>2. (m = Len(new.cells) /\ m < Len(jsonl.cells)) \/ (m = Len(jsonl.cells) /\ ~TruncatedBelow)
        BY <2>5 DEF SameLog
      <4> QED
        BY <1>2, <2>1, <4>1, <4>2
    <3>3. \A i \in 1 .. page.size : i <= Len(new.cells) => new.cells[i] = Opened[i]
      <4> SUFFICES ASSUME NEW i \in 1 .. page.size, i <= Len(new.cells)
                   PROVE  new.cells[i] = Opened[i]
        OBVIOUS
      <4>1. i \in 1 .. m /\ i <= Len(jsonl.cells)
        BY <1>2, <2>1, <3>2
      <4>2. new.cells[i] = jsonl.cells[i]
        BY <1>2, <4>1
      <4> QED
        BY <2>1, <3>1, <4>1, <4>2
    <3>4. Len(new.cells) >= page.size =>
            \A j \in page.stamp .. writes' : versions'[j].id = page.id => Agree(versions'[j].cells, Opened, page.size)
      <4> SUFFICES ASSUME Len(new.cells) >= page.size, NEW j \in page.stamp .. writes', versions'[j].id = page.id
                   PROVE  Agree(versions'[j].cells, Opened, page.size)
        OBVIOUS
      <4>1. CASE j = writes + 1
        <5>1. \A i \in 1 .. page.size : new.cells[i] = Opened[i]
          <6> TAKE i \in 1 .. page.size
          <6>1. i <= Len(new.cells)
            BY <1>2, <2>1
          <6> QED
            BY <3>3, <6>1
        <5> QED
          BY <1>1, <1>2, <2>1, <4>1, <5>1 DEF Agree
      <4>2. CASE j # writes + 1
        <5>1. j \in page.stamp .. writes /\ j \in 1 .. writes
          BY <1>1, <1>2, <2>1, <4>2
        <5> QED
          BY <1>1, <2>2, <3>1, <3>2, <5>1
      <4> QED
        BY <4>1, <4>2
    <3>5. Whole' => Whole
      BY <1>1, <3>1, <3>2 DEF Whole
    <3> QED
      BY <1>1, <1>4, <2>1, <2>3, <2>5, <3>1, <3>3, <3>4, <3>5 DEF PageOpened
  <2> QED
    BY <2>4, <2>5
<1> QED
  BY <1>3, <1>4

\* The record of a cursor stays through a change.
LEMMA ChangeHalfStays ==
  ASSUME LogTyped, TextsOnce, NEW new, NEW m, Grown(new, m), SameLog(new, m), Changed(new),
         NEW k \in 1 .. writes, NEW c, c.id = versions[k].id, c.block > 0, CursorAt(c, versions[k].cells),
         HalfStays(c, k), new.id = jsonl.id => (m = Len(jsonl.cells) \/ NotHalf(c, m))
  PROVE  HalfStays(c, k)'
<1> DEFINE s == versions[k].cells
           o == c.offset
<1>1. /\ writes' = writes + 1 /\ (\A j \in 1 .. writes : versions'[j] = versions[j]) /\ versions'[writes + 1] = new
  BY ChangedVersions DEF Grown
<1>2. /\ writes \in Nat /\ new.id \in Nat /\ jsonl.id \in Nat /\ Len(new.cells) \in Nat /\ new.cells \in Lines
      /\ m \in Nat /\ m <= Len(new.cells) /\ jsonl = versions[writes] /\ writes \in 1 .. writes
      /\ Len(jsonl.cells) \in Nat /\ m <= Len(jsonl.cells) /\ \A i \in 1 .. m : new.cells[i] = jsonl.cells[i]
      /\ s \in Lines /\ Len(s) \in Nat /\ versions[k].id \in Nat /\ versions[k].id <= writes
  BY VersionsAre, LineFacts DEF Grown, Files, Agree, TextsOnce
<1>3. o \in Nat /\ c.block \in Nat /\ LineEnd(s, o) /\ o + 2 <= Len(s)
  BY DEF CursorAt
<1>4. Before1(o) \in Nat /\ Before1(o) <= o /\ (o > 0 => Before1(o) = o - 1) /\ (o = 0 => Before1(o) = 0)
  BY <1>3 DEF Before1
<1> SUFFICES ASSUME NEW j \in k .. writes + 1, versions'[j].id = versions[k].id,
                    Agree(versions'[j].cells, s, Before1(o))
             PROVE  Agree(versions'[j].cells, s, o + 2)
  BY <1>1 DEF HalfStays
<1>5. CASE j # writes + 1
  <2>1. j \in k .. writes /\ j \in 1 .. writes
    BY <1>2, <1>5
  <2> QED
    BY <1>1, <2>1 DEF HalfStays
<1>6. CASE j = writes + 1
  <2>1. versions'[j] = new /\ new.id = versions[k].id /\ Agree(new.cells, s, Before1(o))
    BY <1>1, <1>6
  <2>2. new.id = jsonl.id
    BY <1>2, <2>1 DEF Grown
  <2>3. Agree(jsonl.cells, s, Before1(o)) => Agree(jsonl.cells, s, o + 2)
    <3>1. writes \in k .. writes /\ versions[writes].id = versions[k].id
      BY <1>2, <2>1, <2>2
    <3> QED
      BY <1>2, <3>1 DEF HalfStays
  <2>4. CASE m < Len(jsonl.cells)
    <3>1. m = Len(new.cells) /\ NotHalf(c, m)
      BY <1>2, <2>2, <2>4 DEF SameLog
    <3>2. Before1(o) <= m /\ Agree(jsonl.cells, s, Before1(o))
      <4>1. Before1(o) <= m
        BY <2>1, <3>1 DEF Agree
      <4>2. \A i \in 1 .. Before1(o) : i \in 1 .. m
        BY <1>2, <1>4, <4>1
      <4>3. \A i \in 1 .. Before1(o) : jsonl.cells[i] = s[i]
        BY <1>2, <2>1, <4>2 DEF Agree
      <4> QED
        BY <1>2, <1>4, <2>1, <4>1, <4>3 DEF Agree
    <3>3. m >= o + 2
      <4>1. m + 1 >= o
        BY <1>2, <1>3, <1>4, <3>2
      <4>2. c.id = jsonl.id
        BY <2>1, <2>2
      <4> QED
        BY <1>2, <1>3, <3>1, <4>1, <4>2 DEF NotHalf, HalfTaken
    <3>4. \A i \in 1 .. o + 2 : new.cells[i] = s[i]
      <4>1. \A i \in 1 .. o + 2 : i \in 1 .. m
        BY <1>2, <1>3, <3>3
      <4> QED
        BY <1>2, <2>3, <3>2, <4>1 DEF Agree
    <3> QED
      BY <1>2, <1>3, <2>1, <3>1, <3>3, <3>4 DEF Agree
  <2>5. CASE m = Len(jsonl.cells) /\ Before1(o) <= m
    <3>1. Agree(jsonl.cells, s, Before1(o))
      <4>1. \A i \in 1 .. Before1(o) : i \in 1 .. m
        BY <1>2, <1>4, <2>5
      <4>2. \A i \in 1 .. Before1(o) : jsonl.cells[i] = s[i]
        BY <1>2, <2>1, <4>1 DEF Agree
      <4> QED
        BY <1>2, <1>4, <2>1, <2>5, <4>2 DEF Agree
    <3>2. Agree(jsonl.cells, s, o + 2)
      BY <2>3, <3>1
    <3>3. o + 2 <= m /\ \A i \in 1 .. o + 2 : i \in 1 .. m
      BY <1>2, <1>3, <2>5, <3>2 DEF Agree
    <3>4. \A i \in 1 .. o + 2 : new.cells[i] = s[i]
      BY <1>2, <3>2, <3>3 DEF Agree
    <3> QED
      BY <1>2, <1>3, <2>1, <3>3, <3>4 DEF Agree
  <2>6. CASE m = Len(jsonl.cells) /\ Before1(o) > m
    <3> DEFINE i == m + 1
    <3>1. /\ i \in Nat /\ i >= 1 /\ i <= Before1(o) /\ Before1(o) = o - 1 /\ o > 0 /\ Before1(o) <= Len(new.cells)
          /\ \A n \in 1 .. Before1(o) : new.cells[n] = s[n]
      <4>1. /\ Before1(o) <= Len(new.cells) /\ \A n \in 1 .. Before1(o) : new.cells[n] = s[n]
        BY <2>1 DEF Agree
      <4>2. o > 0 /\ Before1(o) = o - 1
        BY <1>2, <1>3, <1>4, <2>6
      <4> QED
        BY <1>2, <1>4, <2>6, <4>1, <4>2
    <3>2. \A n \in m + 1 .. Before1(o) : n \in 1 .. Len(s) /\ n \in m + 1 .. Len(new.cells) /\ n \in 1 .. Before1(o)
      <4>1. PICK b \in Nat, l \in Nat, a \in Nat : b = Before1(o) /\ l = Len(s) /\ a = Len(new.cells)
        BY <1>2, <1>4
      <4>2. m \in Nat /\ b <= l /\ b <= a
        BY <1>2, <1>3, <3>1, <4>1
      <4>3. \A n \in m + 1 .. b : n \in 1 .. l /\ n \in m + 1 .. a /\ n \in 1 .. b
        BY <4>1, <4>2
      <4> QED
        BY <4>1, <4>3
    <3>3. \A n \in m + 1 .. Before1(o) : s[n] = NewLine
      <4> TAKE n \in m + 1 .. Before1(o)
      <4>1. n \in 1 .. Len(s) /\ n \in m + 1 .. Len(new.cells) /\ n \in 1 .. Before1(o)
        BY <3>2
      <4>2. new.cells[n] = NewLine \/ new.cells[n].text = writes
        BY <4>1 DEF Grown
      <4>3. s[n].text < writes
        BY <4>1 DEF TextsOnce
      <4>4. s[n].text \in Nat
        BY <1>2, <4>1, LineFacts, CellFacts
      <4>5. new.cells[n] = s[n]
        BY <3>1, <4>1
      <4> QED
        BY <1>2, <4>2, <4>3, <4>4, <4>5
    <3>4. s[o] = NewLine
      BY <1>3, <3>1 DEF LineEnd
    <3>5. o - 1 \in m + 1 .. Before1(o) /\ o \in 1 .. Len(s)
      <4>1. m + 1 <= Before1(o) /\ Before1(o) = o - 1 /\ o > 0
        BY <3>1
      <4>2. m \in Nat /\ o \in Nat /\ o <= Len(s)
        BY <1>2, <1>3
      <4> QED
        BY <4>1, <4>2, <1>2
    <3>6. s[o - 1] = NewLine
      BY <3>3, <3>5
    <3> QED
      BY <1>2, <3>4, <3>5, <3>6, LineFacts
  <2> QED
    BY <1>2, <1>4, <2>1, <2>4, <2>5, <2>6
<1> QED
  BY <1>5, <1>6

LEMMA ChangeReads ==
  ASSUME ReaderInv, NEW new, NEW m, Grown(new, m), SameLog(new, m), Changed(new)
  PROVE  PageReads'
<1>1. /\ LogTyped /\ TextsOnce /\ PageTyped /\ PageOpened /\ PageReads
      /\ page' = page /\ stored' = stored /\ indexed' = indexed
  BY DEF ReaderInv, Changed
<1>2. (\A k \in 1 .. writes : versions'[k] = versions[k]) /\ writes \in Nat /\ writes' = writes + 1
  BY <1>1, ChangedVersions DEF Grown, LogTyped
<1> SUFFICES ASSUME page.pc \in {"reading", "read", "checked"}, Whole'
             PROVE  /\ (Began(page, Opened) /\ ReadingTrue(page, Opened))'
                    /\ page.pc # "reading" => page.stop \/ page.pos >= page.size
                    /\ page.pc = "checked" /\ page.cursor.block > 0 => HalfStays(page.cursor, page.stamp)'
  BY <1>1 DEF PageReads
<1>3. Whole
  BY <1>1, ChangeOpened
<1>4. page.stamp \in 1 .. writes /\ Opened' = Opened /\ versions[page.stamp].id = page.id /\ page.cursor.id = page.id
  <2>1. page.stamp \in 1 .. writes /\ versions[page.stamp].id = page.id
    BY <1>1 DEF PageOpened
  <2> QED
    BY <1>1, <1>2, <2>1 DEF Opened, PageTyped
<1>5. /\ Began(page, Opened) /\ ReadingTrue(page, Opened)
      /\ page.pc # "reading" => page.stop \/ page.pos >= page.size
      /\ page.pc = "checked" /\ page.cursor.block > 0 => HalfStays(page.cursor, page.stamp)
  BY <1>1, <1>3 DEF PageReads
<1>6. Prior' = Prior
  BY <1>1 DEF Prior
<1>7. (Began(page, Opened) /\ ReadingTrue(page, Opened))'
  BY <1>1, <1>4, <1>5, <1>6 DEF Began, ReadingTrue, Base, BeganAt
<1>8. ASSUME page.pc = "checked", page.cursor.block > 0
      PROVE  HalfStays(page.cursor, page.stamp)'
  <2>1. PICK c, k : c = page.cursor /\ k = page.stamp
    OBVIOUS
  <2>2. CursorAt(c, versions[k].cells) /\ HalfStays(c, k) /\ k \in 1 .. writes /\ c.id = versions[k].id /\ c.block > 0
    BY <1>4, <1>5, <1>8, <2>1 DEF ReadingTrue, Opened
  <2>3. new.id = jsonl.id => (m = Len(jsonl.cells) \/ NotHalf(c, m))
    BY <1>8, <2>1 DEF SameLog
  <2>4. HalfStays(c, k)'
    BY <1>1, <2>2, <2>3, ChangeHalfStays
  <2> QED
    BY <1>1, <2>1, <2>4 DEF HalfStays
<1> QED
  BY <1>5, <1>7, <1>8

LEMMA ChangeStored ==
  ASSUME ReaderInv, NEW new, NEW m, Grown(new, m), SameLog(new, m), Changed(new)
  PROVE  StoredTrue'
<1>1. /\ LogTyped /\ TextsOnce /\ StoredTrue
      /\ page' = page /\ stored' = stored /\ indexed' = indexed
  BY DEF ReaderInv, Changed
<1>2. (\A j \in 1 .. writes : versions'[j] = versions[j]) /\ writes \in Nat /\ writes' = writes + 1
  BY <1>1, ChangedVersions DEF Grown, LogTyped
<1> SUFFICES ASSUME stored # None
             PROVE  /\ Numbered(indexed) /\ stored.next = Len(indexed)
                    /\ \E k \in 1 .. writes' : StoredAt(k)'
  BY <1>1 DEF StoredTrue, Numbered
<1>3. PICK k \in 1 .. writes : StoredAt(k)
  BY <1>1 DEF StoredTrue
<1>4. versions'[k] = versions[k] /\ k \in 1 .. writes'
  BY <1>2
<1>5. stored.block > 0 => HalfStays(stored, k)'
  <2> SUFFICES ASSUME stored.block > 0 PROVE HalfStays(stored, k)'
    OBVIOUS
  <2>1. PICK c : c = stored
    OBVIOUS
  <2>2. CursorAt(c, versions[k].cells) /\ HalfStays(c, k) /\ c.id = versions[k].id /\ c.block > 0
    BY <1>3, <2>1 DEF StoredAt
  <2>3. new.id = jsonl.id => (m = Len(jsonl.cells) \/ NotHalf(c, m))
    BY <2>1 DEF SameLog
  <2>4. HalfStays(c, k)'
    BY <1>1, <2>2, <2>3, ChangeHalfStays
  <2> QED
    BY <1>1, <2>1, <2>4 DEF HalfStays
<1>6. StoredAt(k)'
  BY <1>1, <1>3, <1>4, <1>5 DEF StoredAt, TailTrue
<1> QED
  BY <1>1, <1>4, <1>6 DEF StoredTrue

LEMMA ChangeKeeps ==
  ASSUME ReaderInv, NEW new, NEW m, Grown(new, m), SameLog(new, m), Changed(new)
  PROVE  ReaderInv'
<1>1. LogTyped /\ TextsOnce /\ StoredTypes /\ PageTyped /\ PageOpened
  BY DEF ReaderInv
<1>2. LogTyped' /\ TextsOnce' /\ PageOpened'
  BY <1>1, ChangeTyped, ChangeTextsOnce, ChangeOpened
<1>3. StoredTypes' /\ PageTyped'
  BY <1>1 DEF Changed, StoredTypes, PageTyped
<1>4. PageReads' /\ StoredTrue'
  BY ChangeReads, ChangeStored
<1> QED
  BY <1>2, <1>3, <1>4 DEF ReaderInv

\* Lines stay lines when cells are added by turns, or cut off at the end.
Turn(s, cell) == cell = NewLine <=> s # <<>> /\ s[Len(s)] # NewLine
Adds(s, cell, t) ==
  /\ t \in Lines /\ Len(t) = Len(s) + 1 /\ t[Len(s) + 1] = cell
  /\ \A i \in 1 .. Len(s) : t[i] = s[i]
LEMMA LineAdded ==
  ASSUME NEW s \in Lines, NEW cell \in Cells, Turn(s, cell)
  PROVE  Adds(s, cell, Append(s, cell))
<1> SUFFICES ASSUME NEW t, t = Append(s, cell) PROVE Adds(s, cell, t)
  OBVIOUS
<1>1. /\ s \in Seq(Cells) /\ Len(s) \in Nat
      /\ \A i \in 1 .. Len(s) : s[i] \in Cells /\ (s[i] = NewLine <=> i > 1 /\ s[i - 1] # NewLine)
  BY LineFacts
<1>2. t \in Seq(Cells) /\ Len(t) = Len(s) + 1 /\ t[Len(s) + 1] = cell /\ \A i \in 1 .. Len(s) : t[i] = s[i]
  BY <1>1, AppendProperties
<1>3. s # <<>> <=> Len(s) > 0
  BY <1>1, EmptySeq
<1>4. ASSUME NEW i \in 1 .. Len(t) PROVE t[i] = NewLine <=> i > 1 /\ t[i - 1] # NewLine
  <2>1. CASE i \in 1 .. Len(s)
    <3>1. i > 1 => i - 1 \in 1 .. Len(s)
      BY <1>1, <2>1
    <3> QED
      BY <1>1, <1>2, <2>1, <3>1
  <2>2. CASE i = Len(s) + 1
    <3>1. i - 1 = Len(s) /\ (i > 1 <=> Len(s) > 0) /\ (i > 1 => i - 1 \in 1 .. Len(s))
      BY <1>1, <2>2
    <3> QED
      BY <1>2, <1>3, <2>2, <3>1 DEF Turn
  <2> QED
    BY <1>1, <1>2, <2>1, <2>2
<1> QED
  BY <1>2, <1>4 DEF Lines, Adds

LEMMA LineCut ==
  ASSUME NEW s \in Lines, NEW n \in 0 .. Len(s), NEW t, t = SubSeq(s, 1, n)
  PROVE  t \in Lines /\ Len(t) = n /\ \A i \in 1 .. n : t[i] = s[i]
<1>1. /\ s \in Seq(Cells) /\ Len(s) \in Nat
      /\ \A i \in 1 .. Len(s) : s[i] \in Cells /\ (s[i] = NewLine <=> i > 1 /\ s[i - 1] # NewLine)
  BY LineFacts
<1>2. t \in Seq(Cells) /\ Len(t) = n /\ \A i \in 1 .. n : t[i] = s[i]
  <2>1. n \in Nat /\ \A i \in 1 .. n : i \in 1 .. Len(s) /\ s[i] \in Cells
    BY <1>1
  <2>2. PICK f : f = [i \in 1 .. n |-> s[i]]
    OBVIOUS
  <2>3. t = f
    BY <1>1, <2>1, <2>2
  <2>4. f \in [1 .. n -> Cells]
    BY <2>1, <2>2
  <2>5. f \in Seq(Cells) /\ Len(f) = n
    BY <2>1, <2>4
  <2> QED
    BY <2>2, <2>3, <2>5
<1>3. ASSUME NEW i \in 1 .. Len(t) PROVE t[i] = NewLine <=> i > 1 /\ t[i - 1] # NewLine
  <2>1. i \in 1 .. Len(s) /\ i \in 1 .. n /\ (i > 1 => i - 1 \in 1 .. n)
    BY <1>1, <1>2
  <2> QED
    BY <1>1, <1>2, <2>1
<1> QED
  BY <1>2, <1>3 DEF Lines

LEMMA JsonlTyped ==
  ASSUME ReaderInv
  PROVE  /\ LogTyped /\ jsonl \in [id : Nat, cells : Lines] /\ jsonl.id \in Nat /\ jsonl.id <= writes /\ writes \in Nat /\ writes >= 1
         /\ jsonl.cells \in Lines /\ Len(jsonl.cells) \in Nat
  BY VersionsAre DEF ReaderInv, TextsOnce, Files

LEMMA HalfKeeps ==
  ASSUME ReaderInv, AppendHalf
  PROVE  ReaderInv'
<1>1. /\ jsonl \in [id : Nat, cells : Lines] /\ jsonl.id <= writes /\ writes \in Nat /\ writes >= 1 /\ jsonl.cells \in Lines
      /\ Len(jsonl.cells) \in Nat
  BY JsonlTyped
<1>2. PICK b \in Blocks :
        Write([jsonl EXCEPT !.cells = @ \o << IF AtLineStart THEN [text |-> writes, blocks |-> b] ELSE NewLine >>])
  BY DEF AppendHalf
<1>3. PICK cell : cell = IF AtLineStart THEN [text |-> writes, blocks |-> b] ELSE NewLine
  OBVIOUS
<1>4. cell \in Cells /\ (cell = NewLine <=> ~AtLineStart) /\ (cell = NewLine \/ cell.text = writes)
  <2>1. writes \in Nat \ {0}
    BY <1>1
  <2> QED
    BY <1>3, <2>1, CellFacts
<1>5. PICK t : t = Append(jsonl.cells, cell)
  OBVIOUS
<1>6. Turn(jsonl.cells, cell)
  BY <1>4 DEF AtLineStart, Turn
<1>7. /\ t \in Lines /\ Len(t) = Len(jsonl.cells) + 1 /\ t[Len(jsonl.cells) + 1] = cell
      /\ \A i \in 1 .. Len(jsonl.cells) : t[i] = jsonl.cells[i]
  BY <1>1, <1>4, <1>5, <1>6, LineAdded DEF Adds
<1>8. PICK new : new = [jsonl EXCEPT !.cells = t]
  OBVIOUS
<1>9. new \in Files /\ new.id = jsonl.id /\ new.cells = t
  BY <1>1, <1>7, <1>8 DEF Files
<1>10. Write(new)
  <2>1. t = jsonl.cells \o <<cell>>
    <3>1. jsonl.cells \in Seq(Cells)
      BY <1>1, LineFacts
    <3> QED
      BY <1>4, <1>5, <3>1, AppendIsConcat
  <2> QED
    BY <1>1, <1>2, <1>3, <1>8, <2>1
<1>11. Grown(new, Len(jsonl.cells))
  <2>1. \A i \in Len(jsonl.cells) + 1 .. Len(t) : t[i] = NewLine \/ t[i].text = writes
    <3>1. \A i \in Len(jsonl.cells) + 1 .. Len(t) : i = Len(jsonl.cells) + 1
      BY <1>1, <1>7
    <3> QED
      BY <1>4, <1>7, <3>1
  <2>2. Agree(t, jsonl.cells, Len(jsonl.cells))
    BY <1>1, <1>7 DEF Agree
  <2> QED
    BY <1>1, <1>7, <1>9, <2>1, <2>2 DEF Grown
<1>12. SameLog(new, Len(jsonl.cells))
  BY DEF AppendHalf, SameLog
<1>13. Changed(new)
  BY <1>9, <1>10 DEF Write, Changed, AppendHalf, storedVars
<1> QED
  BY <1>11, <1>12, <1>13, ChangeKeeps

LEMMA RecordKeeps ==
  ASSUME ReaderInv, AppendRecord
  PROVE  ReaderInv'
<1>1. /\ jsonl \in [id : Nat, cells : Lines] /\ jsonl.id <= writes /\ writes \in Nat /\ writes >= 1 /\ jsonl.cells \in Lines
      /\ Len(jsonl.cells) \in Nat /\ AtLineStart
  BY JsonlTyped DEF AppendRecord
<1>2. PICK b \in Blocks : Write([jsonl EXCEPT !.cells = @ \o << [text |-> writes, blocks |-> b], NewLine >>])
  BY DEF AppendRecord
<1>3. PICK cell : cell = [text |-> writes, blocks |-> b]
  OBVIOUS
<1>4. cell \in Cells /\ cell # NewLine /\ cell.text = writes /\ NewLine \in Cells
  <2>1. writes \in Nat \ {0}
    BY <1>1
  <2> QED
    BY <1>3, <2>1, CellFacts
<1>5. PICK u, t : u = Append(jsonl.cells, cell) /\ t = Append(u, NewLine)
  OBVIOUS
<1>6. /\ u \in Lines /\ Len(u) = Len(jsonl.cells) + 1 /\ u[Len(jsonl.cells) + 1] = cell
      /\ \A i \in 1 .. Len(jsonl.cells) : u[i] = jsonl.cells[i]
  <2>1. Turn(jsonl.cells, cell)
    BY <1>1, <1>4 DEF AtLineStart, Turn
  <2> QED
    BY <1>1, <1>4, <1>5, <2>1, LineAdded DEF Adds
<1>7. /\ t \in Lines /\ Len(t) = Len(u) + 1 /\ t[Len(u) + 1] = NewLine /\ \A i \in 1 .. Len(u) : t[i] = u[i]
  <2>1. Turn(u, NewLine)
    BY <1>1, <1>4, <1>6 DEF Turn
  <2> QED
    BY <1>4, <1>5, <1>6, <2>1, LineAdded DEF Adds
<1>8. PICK new : new = [jsonl EXCEPT !.cells = t]
  OBVIOUS
<1>9. new \in Files /\ new.id = jsonl.id /\ new.cells = t
  BY <1>1, <1>7, <1>8 DEF Files
<1>10. Write(new)
  <2>1. t = jsonl.cells \o <<cell, NewLine>>
    <3>1. jsonl.cells \in Seq(Cells)
      BY <1>1, LineFacts
    <3>2. PICK s \in Seq(Cells) : s = jsonl.cells
      BY <3>1
    <3>3. PICK w : w = s \o <<cell, NewLine>>
      OBVIOUS
    <3>4. w = t
      BY <1>4, <1>5, <3>2, <3>3
    <3> QED
      BY <3>2, <3>3, <3>4
  <2> QED
    BY <1>1, <1>2, <1>3, <1>8, <2>1
<1>11. Grown(new, Len(jsonl.cells))
  <2>1. \A i \in Len(jsonl.cells) + 1 .. Len(t) : t[i] = NewLine \/ t[i].text = writes
    <3>1. \A i \in Len(jsonl.cells) + 1 .. Len(t) : (i = Len(jsonl.cells) + 1 /\ i \in 1 .. Len(u)) \/ i = Len(u) + 1
      BY <1>1, <1>6, <1>7
    <3> QED
      BY <1>4, <1>6, <1>7, <3>1
  <2>2. Agree(t, jsonl.cells, Len(jsonl.cells))
    <3>1. \A i \in 1 .. Len(jsonl.cells) : i \in 1 .. Len(u)
      BY <1>1, <1>6
    <3> QED
      BY <1>1, <1>6, <1>7, <3>1 DEF Agree
  <2> QED
    BY <1>1, <1>6, <1>7, <1>9, <2>1, <2>2 DEF Grown
<1>12. SameLog(new, Len(jsonl.cells))
  BY DEF AppendRecord, SameLog
<1>13. Changed(new)
  BY <1>9, <1>10 DEF Write, Changed, AppendRecord, storedVars
<1> QED
  BY <1>11, <1>12, <1>13, ChangeKeeps

LEMMA TruncateKeeps ==
  ASSUME ReaderInv, Truncate
  PROVE  ReaderInv'
<1>1. /\ jsonl \in [id : Nat, cells : Lines] /\ jsonl.id <= writes /\ writes \in Nat /\ writes >= 1 /\ jsonl.cells \in Lines
      /\ Len(jsonl.cells) \in Nat
  BY JsonlTyped
<1>2. PICK n \in 0 .. Len(jsonl.cells) - 1 :
        /\ stored # None => ~HalfTaken(stored, n)
        /\ page.pc \in {"reading", "read", "checked"} => ~HalfTaken(page.cursor, n)
        /\ Write([jsonl EXCEPT !.cells = SubSeq(@, 1, n)])
  BY DEF Truncate
<1>3. PICK t : t = SubSeq(jsonl.cells, 1, n)
  OBVIOUS
<1>4. n \in 0 .. Len(jsonl.cells) /\ n \in Nat /\ n < Len(jsonl.cells)
  BY <1>1, <1>2
<1>5. t \in Lines /\ Len(t) = n /\ \A i \in 1 .. n : t[i] = jsonl.cells[i]
  BY <1>1, <1>3, <1>4, LineCut
<1>6. PICK new : new = [jsonl EXCEPT !.cells = t]
  OBVIOUS
<1>7. new \in Files /\ new.id = jsonl.id /\ new.cells = t
  BY <1>1, <1>5, <1>6 DEF Files
<1>8. Write(new)
  BY <1>1, <1>2, <1>3, <1>6
<1>9. Grown(new, n)
  <2>1. n + 1 .. Len(t) = {}
    BY <1>4, <1>5
  <2>2. Agree(t, jsonl.cells, n)
    BY <1>1, <1>4, <1>5 DEF Agree
  <2> QED
    BY <1>4, <1>5, <1>7, <2>1, <2>2 DEF Grown
<1>10. SameLog(new, n)
  BY <1>2, <1>4, <1>5, <1>7 DEF SameLog, NotHalf
<1>11. Changed(new)
  BY <1>7, <1>8 DEF Write, Changed, Truncate, storedVars
<1> QED
  BY <1>9, <1>10, <1>11, ChangeKeeps

LEMMA ReplaceKeeps ==
  ASSUME ReaderInv, ReplaceLog
  PROVE  ReaderInv'
<1>1. jsonl.id \in Nat /\ jsonl.id <= writes /\ writes \in Nat /\ writes >= 1 /\ jsonl.cells \in Lines /\ Len(jsonl.cells) \in Nat
  BY JsonlTyped
<1>2. PICK b \in Blocks : Write([id |-> writes + 1, cells |-> << [text |-> writes, blocks |-> b], NewLine >>])
  BY DEF ReplaceLog
<1>3. PICK cell : cell = [text |-> writes, blocks |-> b]
  OBVIOUS
<1>4. cell \in Cells /\ cell # NewLine /\ cell.text = writes /\ NewLine \in Cells
  <2>1. writes \in Nat \ {0}
    BY <1>1
  <2> QED
    BY <1>3, <2>1, CellFacts
<1>5. PICK t : t = <<cell, NewLine>>
  OBVIOUS
<1>6. t \in Lines /\ Len(t) = 2 /\ t[1] = cell /\ t[2] = NewLine
  <2>1. t \in Seq(Cells) /\ Len(t) = 2 /\ t[1] = cell /\ t[2] = NewLine
    BY <1>4, <1>5
  <2>2. \A i \in 1 .. 2 : i = 1 \/ (i = 2 /\ i - 1 = 1)
    OBVIOUS
  <2>3. \A i \in 1 .. 2 : t[i] = NewLine <=> i > 1 /\ t[i - 1] # NewLine
    BY <1>4, <2>1, <2>2
  <2> QED
    BY <2>1, <2>3 DEF Lines
<1>7. PICK new : new = [id |-> writes + 1, cells |-> t]
  OBVIOUS
<1>8. new \in Files /\ new.id = writes + 1 /\ new.cells = t /\ new.id # jsonl.id
  BY <1>1, <1>6, <1>7 DEF Files
<1>9. Write(new)
  BY <1>2, <1>3, <1>5, <1>7
<1>10. Grown(new, 0)
  <2>1. \A i \in 0 + 1 .. Len(t) : t[i] = NewLine \/ t[i].text = writes
    <3>1. \A i \in 0 + 1 .. Len(t) : i = 1 \/ i = 2
      BY <1>6
    <3> QED
      BY <1>4, <1>6, <3>1
  <2>2. Agree(t, jsonl.cells, 0)
    BY <1>1, <1>6 DEF Agree
  <2>3. 0 <= Len(t) /\ ~(0 > 0) /\ 0 \in Nat
    BY <1>6
  <2> QED
    BY <1>8, <2>1, <2>2, <2>3 DEF Grown
<1>11. SameLog(new, 0)
  BY <1>8 DEF SameLog
<1>12. Changed(new)
  BY <1>8, <1>9 DEF Write, Changed, ReplaceLog, storedVars
<1> QED
  BY <1>10, <1>11, <1>12, ChangeKeeps

-----------------------------------------------------------------------------
(* LogReader: a page                                                         *)

LEMMA InvParts ==
  ASSUME ReaderInv
  PROVE  LogTyped /\ TextsOnce /\ StoredTypes /\ PageTyped /\ PageOpened /\ PageReads /\ StoredTrue
  BY DEF ReaderInv

\* The stored events do not depend on what a page does, but for its end.
LEMMA StoredStays ==
  ASSUME StoredTrue, UNCHANGED <<writes, versions, stored, indexed>>, page'.pc # "stored",
         (page \in ReadPages /\ page'.stamp = page.stamp) \/ page' = NoPage
  PROVE  StoredTrue'
<1> SUFFICES ASSUME stored # None
             PROVE  /\ Numbered(indexed) /\ stored.next = Len(indexed)
                    /\ \E k \in 1 .. writes : StoredAt(k)'
  BY DEF StoredTrue, Numbered
<1>1. PICK k \in 1 .. writes : StoredAt(k)
  BY DEF StoredTrue
<1>2. HalfStays(stored, k)' <=> HalfStays(stored, k)
  BY DEF HalfStays
<1>3. page' \in ReadPages => k <= page'.stamp
  <2>1. CASE page \in ReadPages /\ page'.stamp = page.stamp
    BY <1>1, <2>1 DEF StoredAt
  <2>2. CASE page' = NoPage
    BY <2>2 DEF NoPage, ReadPages
  <2> QED
    BY <2>1, <2>2
<1>4. StoredAt(k)'
  BY <1>1, <1>2, <1>3 DEF StoredAt, TailTrue
<1> QED
  BY <1>1, <1>4 DEF StoredTrue

LEMMA PagesAre ==
  ASSUME PageTyped
  PROVE  /\ page.pc = "opened" => page \in ReadPages
         /\ page.pc \in {"reading", "read", "checked"} => page \in ReadPages /\ page.cursor.id = page.id
         /\ page.pc = "idle" => page = NoPage
         /\ \A p \in ReadPages : p.pc \in {"opened", "reading", "read", "checked"}
         /\ NoPage \notin ReadPages /\ NoPage \notin StoredPages /\ NoPage.pc = "idle"
  BY DEF PageTyped, NoPage, ReadPages, StoredPages

LEMMA FilesStay ==
  ASSUME ReaderInv, UNCHANGED <<logVars, storedVars>>
  PROVE  LogTyped' /\ TextsOnce' /\ StoredTypes'
<1>1. /\ jsonl' = jsonl /\ old' = old /\ writes' = writes /\ versions' = versions
      /\ stored' = stored /\ indexed' = indexed
  BY DEF logVars, storedVars
<1>2. LogTyped'
  BY <1>1, InvParts DEF LogTyped
<1>3. TextsOnce'
  BY <1>1, InvParts DEF TextsOnce
<1>4. StoredTypes'
  BY <1>1, InvParts DEF StoredTypes
<1> QED
  BY <1>2, <1>3, <1>4

LEMMA IdleKeeps ==
  ASSUME ReaderInv, page' = NoPage, UNCHANGED <<logVars, storedVars>>
  PROVE  ReaderInv'
<1>1. LogTyped' /\ TextsOnce' /\ StoredTypes'
  BY FilesStay
<1>2. PageTyped' /\ PageOpened' /\ PageReads'
  BY DEF PageTyped, PageOpened, PageReads, NoPage
<1>3. StoredTrue'
  BY InvParts, StoredStays DEF NoPage, logVars, storedVars
<1> QED
  BY <1>1, <1>2, <1>3 DEF ReaderInv

LEMMA OpenKeeps ==
  ASSUME ReaderInv, Open
  PROVE  ReaderInv'
<1>1. /\ jsonl \in Files /\ jsonl.id \in Nat /\ jsonl.id <= writes /\ writes \in Nat /\ writes >= 1
      /\ Len(jsonl.cells) \in Nat /\ jsonl = versions[writes]
  BY JsonlTyped, InvParts DEF Files, LogTyped
<1>2. /\ page.pc = "idle" /\ old' = jsonl
      /\ page' = [pc |-> "opened", id |-> jsonl.id, size |-> Len(jsonl.cells), stamp |-> writes,
                  reset |-> FALSE, pos |-> 0, start |-> 0, text |-> NewLine,
                  cursor |-> Prior, events |-> <<>>, lines |-> 0, stop |-> FALSE]
      /\ UNCHANGED <<jsonl, writes, versions, stored, indexed>>
  BY DEF Open, storedVars
<1>3. LogTyped'
  BY <1>1, <1>2, InvParts DEF LogTyped
<1>4. TextsOnce' /\ StoredTypes'
  BY <1>2, InvParts DEF TextsOnce, StoredTypes, Agree
<1>5. page' \in ReadPages
  <2>1. Prior \in PageCursors
    BY InvParts, PriorTyped DEF LogCursors, PageCursors
  <2>2. NewLine \in Cells /\ <<>> \in Seq(EventRows)
    BY CellFacts, EmptySeq
  <2> QED
    BY <1>1, <1>2, <2>1, <2>2 DEF ReadPages
<1>6. /\ page'.pc = "opened" /\ page'.id = jsonl.id /\ page'.size = Len(jsonl.cells) /\ page'.stamp = writes
      /\ page'.events = <<>> /\ page'.lines = 0 /\ page'.stop = FALSE
  BY <1>2
<1>7. PageTyped'
  BY <1>5, <1>6 DEF PageTyped
<1>8. PageOpened'
  <2>1. Opened' = jsonl.cells /\ writes \in 1 .. writes
    BY <1>1, <1>2, <1>6 DEF Opened
  <2>2. \A j \in writes .. writes : j = writes
    BY <1>1
  <2>3. Agree(jsonl.cells, jsonl.cells, Len(jsonl.cells))
    BY <1>1 DEF Agree
  <2> QED
    BY <1>1, <1>2, <1>6, <2>1, <2>2, <2>3 DEF PageOpened
<1>9. PageReads'
  BY <1>6 DEF PageReads
<1>10. StoredTrue'
  <2> SUFFICES ASSUME stored # None
               PROVE  /\ Numbered(indexed) /\ stored.next = Len(indexed)
                      /\ \E k \in 1 .. writes : StoredAt(k)'
    BY <1>2 DEF StoredTrue, Numbered
  <2>1. Numbered(indexed) /\ stored.next = Len(indexed) /\ \E k \in 1 .. writes : StoredAt(k)
    BY InvParts DEF StoredTrue
  <2>2. PICK k \in 1 .. writes : StoredAt(k)
    BY <2>1
  <2>3. HalfStays(stored, k)' <=> HalfStays(stored, k)
    BY <1>2 DEF HalfStays
  <2>4. k <= page'.stamp
    BY <1>1, <1>6
  <2>5. StoredAt(k)'
    BY <1>2, <1>6, <2>2, <2>3, <2>4 DEF StoredAt, TailTrue
  <2> QED
    BY <2>1, <2>2, <2>5
<1> QED
  BY <1>3, <1>4, <1>7, <1>8, <1>9, <1>10 DEF ReaderInv

\* A step of a page that leaves its file alone.
LEMMA ReadKeeps ==
  ASSUME ReaderInv, page \in ReadPages, page' \in ReadPages, UNCHANGED <<logVars, storedVars>>,
         page'.id = page.id, page'.size = page.size, page'.stamp = page.stamp,
         page'.pc # "opened", page'.cursor.id = page.id, PageReads'
  PROVE  ReaderInv'
<1>1. LogTyped' /\ TextsOnce' /\ StoredTypes'
  BY FilesStay
<1>2. PageTyped' /\ page.pc # "idle" /\ page'.pc # "stored"
  BY InvParts, PagesAre DEF PageTyped, ReadPages
<1>3. PageOpened'
  <2>1. Opened' = Opened
    BY DEF Opened, logVars
  <2> QED
    BY <1>2, <2>1, InvParts DEF PageOpened, logVars
<1>4. StoredTrue'
  BY <1>2, InvParts, StoredStays DEF logVars, storedVars
<1> QED
  BY <1>1, <1>2, <1>3, <1>4 DEF ReaderInv

LEMMA ReadFile ==
  ASSUME ReaderInv, page \in ReadPages
  PROVE  /\ Handle = old /\ old.cells \in Lines /\ Len(old.cells) \in Nat
         /\ page.stamp \in 1 .. writes /\ Opened \in Lines /\ Len(Opened) = page.size /\ page.size \in Nat
         /\ versions[page.stamp].id = page.id
         /\ \A i \in 1 .. page.size : i <= Len(old.cells) => old.cells[i] = Opened[i]
<1>1. page.pc # "idle" /\ page.size \in Nat
  BY DEF ReadPages
<1>2. /\ page.stamp \in 1 .. writes /\ Len(Opened) = page.size /\ old.id = page.id
      /\ versions[page.stamp].id = page.id
      /\ \A i \in 1 .. page.size : i <= Len(old.cells) => old.cells[i] = Opened[i]
  BY <1>1, InvParts DEF PageOpened
<1>3. Handle = old
  BY <1>2, InvParts DEF Handle, LogTyped
<1>4. Opened \in Lines
  BY <1>2, InvParts, VersionsAre DEF Opened
<1> QED
  BY <1>1, <1>2, <1>3, <1>4, InvParts, VersionsAre

\* A log that has the tail of the stored cursor has told what was stored.
LEMMA TailTells ==
  ASSUME ReaderInv, page \in ReadPages, Len(old.cells) >= page.size, stored # None, ~Reset(old.cells)
  PROVE  CursorAt(stored, Opened) /\ Blocked(indexed) = EventsBefore(Opened, stored)
<1>1. /\ old.cells \in Lines /\ Len(old.cells) \in Nat /\ page.stamp \in 1 .. writes /\ page.stamp \in Nat
      /\ Opened \in Lines /\ Len(Opened) = page.size /\ page.size \in Nat /\ versions[page.stamp].id = page.id
      /\ \A i \in 1 .. page.size : i <= Len(old.cells) => old.cells[i] = Opened[i]
      /\ versions[page.stamp].cells = Opened /\ writes \in Nat
  BY ReadFile, InvParts, VersionsAre DEF Opened
<1>2. PICK k \in 1 .. writes : StoredAt(k)
  BY InvParts DEF StoredTrue
<1>3. PICK s, o : s = versions[k].cells /\ o = stored.offset
  OBVIOUS
<1>4. /\ s \in Lines /\ CursorAt(stored, s) /\ Blocked(indexed) = EventsBefore(s, stored) /\ TailTrue(stored, s)
      /\ versions[k].id = stored.id /\ (stored.block > 0 => HalfStays(stored, k)) /\ k <= page.stamp
      /\ Len(s) \in Nat
  <2>1. s \in Lines /\ Len(s) \in Nat
    BY <1>3, InvParts, VersionsAre
  <2> QED
    BY <1>2, <1>3, <2>1 DEF StoredAt
<1>5. stored.id = page.id /\ o <= page.size /\ TailMatches(old.cells) /\ Prior = stored
  BY <1>3, InvParts, PriorTyped, <1>1, <1>4 DEF Reset, SameIdentity, CursorAt
<1>6. o \in Nat /\ o <= Len(s) /\ LineEnd(s, o) /\ stored.block \in Nat
  BY <1>3, <1>4 DEF CursorAt
<1>7. Agree(s, Opened, o)
  <2>1. CASE o = 0
    BY <1>1, <1>4, <2>1 DEF Agree
  <2>2. CASE o # 0
    <3>1. o \in 1 .. Len(s) /\ s[o] = NewLine
      BY <1>4, <1>6, <2>2 DEF LineEnd
    <3>2. o > 1 /\ s[o - 1] # NewLine
      BY <1>4, <3>1, LineFacts
    <3>3. /\ o - 1 \in 1 .. page.size /\ o - 1 <= Len(old.cells) /\ o - 1 \in 1 .. Len(s) /\ o - 1 <= Len(Opened)
          /\ o \in 1 .. Len(Opened) /\ o <= Len(old.cells)
      BY <1>1, <1>4, <1>5, <1>6, <3>2
    <3>4. old.cells[o - 1] = s[o - 1]
      <4>1. LastCells(old.cells, o) = stored.tail
        BY <1>3, <1>5 DEF TailMatches
      <4> QED
        BY <1>1, <1>3, <1>4, <2>2, <3>3, <4>1 DEF TailTrue
    <3>5. Opened[o - 1] = s[o - 1]
      BY <1>1, <3>3, <3>4
    <3>6. Agree(s, Opened, o - 1)
      BY <1>1, <1>3, <3>2, <3>3, <3>5, InvParts DEF TextsOnce
    <3>7. Opened[o] = NewLine
      BY <1>1, <3>2, <3>3, <3>5, LineFacts
    <3>8. \A i \in 1 .. o : i \in 1 .. o - 1 \/ i = o
      BY <1>6
    <3>9. \A i \in 1 .. o : s[i] = Opened[i]
      BY <3>1, <3>6, <3>7, <3>8 DEF Agree
    <3> QED
      BY <1>6, <3>3, <3>9, <1>1 DEF Agree
  <2> QED
    BY <2>1, <2>2
<1>8. stored.block > 0 => Agree(s, Opened, o + 2)
  <2> SUFFICES ASSUME stored.block > 0 PROVE Agree(s, Opened, o + 2)
    OBVIOUS
  <2>1. HalfStays(stored, k)
    BY <1>4
  <2>2. page.stamp \in k .. writes /\ versions[page.stamp].id = versions[k].id
    BY <1>1, <1>4, <1>5
  <2>3. Agree(Opened, s, Before1(o))
    <3>1. Before1(o) \in Nat /\ Before1(o) <= o
      BY <1>6 DEF Before1
    <3>2. \A i \in 1 .. Before1(o) : i \in 1 .. o
      BY <1>6, <3>1
    <3>3. Before1(o) <= Len(s) /\ Before1(o) <= Len(Opened)
      BY <1>1, <1>4, <1>6, <1>7, <3>1 DEF Agree
    <3> QED
      BY <1>7, <3>2, <3>3 DEF Agree
  <2>4. Agree(Opened, s, o + 2)
    BY <1>1, <1>3, <2>1, <2>2, <2>3 DEF HalfStays
  <2> QED
    BY <2>4 DEF Agree
<1>9. EventsBefore(s, stored) = EventsBefore(Opened, stored)
  BY <1>1, <1>3, <1>4, <1>6, <1>7, <1>8, SameEvents
<1>10. CursorAt(stored, Opened)
  <2>1. o <= Len(Opened)
    BY <1>7 DEF Agree
  <2>2. LineEnd(Opened, o)
    <3>1. o # 0 => s[o] = Opened[o]
      BY <1>6, <1>7 DEF Agree
    <3> QED
      BY <1>6, <3>1 DEF LineEnd
  <2>3. stored.block > 0 => o + 2 <= Len(Opened) /\ stored.block < Opened[o + 1].blocks
    <3> SUFFICES ASSUME stored.block > 0 PROVE o + 2 <= Len(Opened) /\ stored.block < Opened[o + 1].blocks
      OBVIOUS
    <3>1. Agree(s, Opened, o + 2) /\ o + 1 \in 1 .. o + 2
      BY <1>6, <1>8
    <3>2. o + 2 <= Len(Opened) /\ s[o + 1] = Opened[o + 1]
      BY <3>1 DEF Agree
    <3> QED
      BY <1>3, <1>4, <3>2 DEF CursorAt
  <2> QED
    BY <1>3, <1>6, <2>1, <2>2, <2>3 DEF CursorAt
<1> QED
  BY <1>4, <1>9, <1>10

LEMMA CompareKeeps ==
  ASSUME ReaderInv, Compare
  PROVE  ReaderInv'
<1>1. page.pc = "opened" /\ page \in ReadPages /\ page.events = <<>> /\ page.lines = 0 /\ ~page.stop
  BY InvParts, PagesAre DEF Compare, PageTyped
<1>2. UNCHANGED <<logVars, storedVars>> /\ Handle = old
  BY <1>1, ReadFile DEF Compare
<1>3. PICK reset \in BOOLEAN : reset <=> Reset(old.cells)
  OBVIOUS
<1>4. PICK offset, next : offset = (IF reset THEN 0 ELSE Prior.offset) /\ next = (IF reset THEN 0 ELSE Prior.next)
  OBVIOUS
<1>5. Prior \in LogCursors /\ page.cursor \in PageCursors /\ page.id \in Nat
  BY <1>1, InvParts, PriorTyped DEF ReadPages
<1>6. offset \in Nat /\ next \in Nat
  BY <1>4, <1>5 DEF LogCursors
<1>14. PICK c \in PageCursors, id \in Nat : c = page.cursor /\ id = page.id
  BY <1>5
<1>7. PICK taken : taken = [c EXCEPT !.id = id, !.offset = offset, !.next = next, !.block = 0]
  OBVIOUS
<1>8. taken \in PageCursors /\ taken.id = page.id /\ taken.offset = offset /\ taken.next = next /\ taken.block = 0
  <2>1. next \in Int
    BY <1>6
  <2>4. c.headLength \in Nat /\ c.head \in Seq(Cells) /\ c.tail \in Seq(Cells) /\ 0 \in Int
    BY <1>14 DEF PageCursors
  <2>5. taken = [id |-> id, offset |-> offset, next |-> next, block |-> 0, headLength |-> c.headLength,
                  head |-> c.head, tail |-> c.tail]
    BY <1>7, <1>14 DEF PageCursors
  <2>2. taken \in PageCursors
    BY <1>6, <1>14, <2>1, <2>4, <2>5 DEF PageCursors
  <2>3. taken.id = id /\ taken.offset = offset /\ taken.next = next /\ taken.block = 0
    BY <1>7, <1>14 DEF PageCursors
  <2> QED
    BY <1>14, <2>2, <2>3
<1>9. PICK p : p = page'
  OBVIOUS
<1>10. p = [page EXCEPT !.pc = "reading", !.reset = reset, !.pos = offset, !.start = offset, !.cursor = taken]
  <2>1. page' = [page EXCEPT !.pc = "reading", !.reset = reset, !.pos = offset, !.start = offset,
                             !.cursor.id = page.id, !.cursor.offset = offset,
                             !.cursor.next = next, !.cursor.block = 0]
    <3>1. Reset(Handle.cells) = reset
      BY <1>2, <1>3 DEF Reset
    <3> QED
      BY <1>4, <3>1 DEF Compare
  <2> QED
    BY <1>1, <1>5, <1>7, <1>9, <1>14, <2>1 DEF ReadPages, PageCursors
<1>11. /\ p \in ReadPages /\ p.pc = "reading" /\ p.id = page.id /\ p.size = page.size /\ p.stamp = page.stamp
       /\ p.reset = reset /\ p.pos = offset /\ p.start = offset /\ p.cursor = taken /\ p.events = <<>> /\ p.lines = 0
       /\ p.stop = FALSE /\ p.cursor.id = page.id
  BY <1>1, <1>6, <1>8, <1>10 DEF ReadPages
<1>12. ASSUME Len(old.cells) >= page.size
       PROVE  Began(p, Opened) /\ ReadingTrue(p, Opened)
  <2>1. /\ Opened \in Lines /\ Len(Opened) \in Nat /\ Len(Opened) = page.size
    BY <1>1, ReadFile
  <2>2. BeganAt(p) = [offset |-> offset, block |-> IF reset THEN 0 ELSE Prior.block] /\ Base(p) = IF reset THEN <<>> ELSE indexed
    BY <1>4, <1>11 DEF BeganAt, Base
  <2>3. /\ CursorAt(BeganAt(p), Opened) /\ Blocked(Base(p)) = EventsBefore(Opened, BeganAt(p))
        /\ Numbered(Base(p)) /\ Base(p) \in Seq(EventRows) /\ next = Len(Base(p))
    <3>1. CASE reset \/ stored = None
      <4>1. offset = 0 /\ BeganAt(p) = [offset |-> 0, block |-> 0] /\ Base(p) = <<>> /\ next = 0
        <5>1. reset => offset = 0 /\ next = 0
          BY <1>4
        <5>2. stored = None => Prior.offset = 0 /\ Prior.block = 0 /\ Prior.next = 0 /\ indexed = <<>>
          BY InvParts DEF Prior, NoPrior, StoredTypes
        <5> QED
          BY <1>4, <2>2, <3>1, <5>1, <5>2
      <4>2. Told(Opened)[0] = <<>>
        BY <2>1, LineFacts, ToldEquation
      <4>3. EventsBefore(Opened, BeganAt(p)) = <<>>
        <5>1. <<>> \o <<>> = <<>>
          OBVIOUS
        <5> QED
          BY <4>1, <4>2, <5>1 DEF EventsBefore
      <4>4. <<>> \in Seq(EventRows) /\ Len(<<>>) = 0 /\ Blocked(<<>>) = <<>>
        <5>1. <<>> \in Seq(EventRows) /\ Len(<<>>) = 0
          BY EmptySeq
        <5>2. Blocked(<<>>) \in Seq(Pairs) /\ Len(Blocked(<<>>)) = 0
          BY <5>1, BlockedAre
        <5>3. Blocked(<<>>) = <<>>
          BY <5>2, EmptySeq
        <5> QED
          BY <5>1, <5>3
      <4>5. CursorAt(BeganAt(p), Opened)
        BY <2>1, <4>1 DEF CursorAt, LineEnd
      <4>6. Numbered(Base(p))
        BY <4>1, <4>4 DEF Numbered
      <4> QED
        BY <4>1, <4>3, <4>4, <4>5, <4>6
    <3>2. CASE ~reset /\ stored # None
      <4>1. CursorAt(stored, Opened) /\ Blocked(indexed) = EventsBefore(Opened, stored)
        BY <1>1, <1>3, <1>12, <3>2, TailTells
      <4>2. Prior = stored /\ offset = stored.offset /\ next = stored.next
        BY <1>4, <3>2, InvParts, PriorTyped
      <4>3. Base(p) = indexed /\ BeganAt(p).offset = stored.offset /\ BeganAt(p).block = stored.block
        BY <2>2, <3>2, <4>2
      <4>4. EventsBefore(Opened, BeganAt(p)) = EventsBefore(Opened, stored)
        BY <4>3 DEF EventsBefore
      <4>5. CursorAt(BeganAt(p), Opened)
        BY <4>1, <4>3 DEF CursorAt
      <4>6. Numbered(indexed) /\ stored.next = Len(indexed) /\ indexed \in Seq(EventRows)
        BY <3>2, InvParts DEF StoredTrue, StoredTypes
      <4> QED
        BY <4>1, <4>2, <4>3, <4>4, <4>5, <4>6
    <3> QED
      BY <3>1, <3>2
  <2>4. Began(p, Opened)
    BY <2>3 DEF Began
  <2>5. offset <= Len(Opened) /\ LineEnd(Opened, offset)
    BY <2>2, <2>3 DEF CursorAt
  <2>6. Base(p) \o <<>> = Base(p) /\ Len(<<>>) = 0 /\ next + 0 = next
    <3>1. PICK b \in Seq(EventRows) : b = Base(p)
      BY <2>3
    <3>2. b \o <<>> = b
      OBVIOUS
    <3> QED
      BY <1>6, <3>1, <3>2
  <2>7. CursorAt(taken, Opened)
    BY <1>6, <1>8, <2>5 DEF CursorAt
  <2>8. /\ offset <= offset /\ offset <= offset + 1 /\ offset # offset + 1 /\ 0 <= MaxEvents
    BY <1>6, ReaderAssumption
  <2>9. BeganAt(p).offset = offset
    BY <2>2
  <2> QED
    BY <1>8, <1>11, <2>3, <2>4, <2>5, <2>6, <2>7, <2>8, <2>9 DEF ReadingTrue
<1>13. PageReads'
  <2>1. Opened' = Opened /\ Prior' = Prior /\ indexed' = indexed /\ old' = old
    BY <1>2, <1>9, <1>11 DEF Opened, Prior, logVars, storedVars
  <2>2. Began(p, Opened)' <=> Began(page', Opened)
    BY <1>9, <2>1 DEF Began, BeganAt, Base
  <2>3. (Began(page, Opened) /\ ReadingTrue(page, Opened))' <=> Began(page', Opened) /\ ReadingTrue(page', Opened)
    BY <2>1 DEF Began, ReadingTrue, BeganAt, Base
  <2> QED
    BY <1>9, <1>11, <1>12, <2>1, <2>3 DEF PageReads, Whole
<1> QED
  BY <1>1, <1>2, <1>9, <1>11, <1>13, ReadKeeps

SliceOf(s, from, n, t) == t \in Seq(Cells) /\ Len(t) = n /\ \A i \in 1 .. n : t[i] = s[from + i]
LEMMA SliceIs ==
  ASSUME NEW s \in Seq(Cells), NEW from \in Nat, NEW n \in Nat, from + n <= Len(s)
  PROVE  SliceOf(s, from, n, SubSeq(s, from + 1, from + n))
<1> SUFFICES ASSUME NEW t, t = SubSeq(s, from + 1, from + n) PROVE SliceOf(s, from, n, t)
  OBVIOUS
<1>1. Len(s) \in Nat /\ \A i \in 1 .. Len(s) : s[i] \in Cells
  BY LenProperties, ElementOfSeq
<1>2. \A i \in 1 .. n : from + i \in 1 .. Len(s) /\ s[from + i] \in Cells
  BY <1>1
<1>3. PICK f : f = [i \in 1 .. n |-> s[from + i]]
  OBVIOUS
<1>4. f \in [1 .. n -> Cells]
  BY <1>2, <1>3
<1>5. f \in Seq(Cells) /\ Len(f) = n
  BY <1>4
<1>6. t = f
  <2>1. t = [i \in 1 .. (from + n) - (from + 1) + 1 |-> s[i + (from + 1) - 1]]
    BY <1>1
  <2>2. (from + n) - (from + 1) + 1 = n /\ \A i \in 1 .. n : i + (from + 1) - 1 = from + i
    BY <1>1
  <2> QED
    BY <1>3, <2>1, <2>2
<1> QED
  BY <1>3, <1>5, <1>6 DEF SliceOf

LEMMA ChunkIs ==
  ASSUME ReaderInv, page \in ReadPages, page.pos < page.size, ~NothingRead
  PROVE  \E n \in Nat : /\ NextChunk \in Seq(Cells) /\ Len(NextChunk) = n
                        /\ page.pos + n <= page.size /\ page.pos + n <= Len(old.cells)
                        /\ \A i \in 1 .. n : NextChunk[i] = old.cells[page.pos + i]
<1>1. /\ Handle = old /\ old.cells \in Seq(Cells) /\ Len(old.cells) \in Nat /\ page.pos \in Nat /\ page.size \in Nat
      /\ Chunk \in Nat /\ Chunk > 0
  BY ReadFile, LineFacts, ReaderAssumption DEF ReadPages
<1>2. PICK e : e = IF Least(page.pos + Chunk, page.size) < Len(old.cells) THEN Least(page.pos + Chunk, page.size)
                   ELSE Len(old.cells)
  OBVIOUS
<1>3. e \in Nat /\ e > page.pos /\ e <= page.size /\ e <= Len(old.cells)
  BY <1>1, <1>2 DEF Least, NothingRead
<1>4. PICK n \in Nat : n = e - page.pos
  BY <1>1, <1>3
<1>5. page.pos + n = e
  BY <1>1, <1>3, <1>4
<1>6. NextChunk = SubSeq(old.cells, page.pos + 1, page.pos + n)
  BY <1>1, <1>2, <1>5 DEF NextChunk, Part
<1>7. PICK t : t = NextChunk
  OBVIOUS
<1>8. t \in Seq(Cells) /\ Len(t) = n /\ \A i \in 1 .. n : t[i] = old.cells[page.pos + i]
  <2>1. page.pos + n <= Len(old.cells)
    BY <1>3, <1>5
  <2>2. SliceOf(old.cells, page.pos, n, SubSeq(old.cells, page.pos + 1, page.pos + n))
    BY <1>1, <2>1, SliceIs
  <2> QED
    BY <1>6, <1>7, <2>2 DEF SliceOf
<1> QED
  BY <1>3, <1>5, <1>7, <1>8

LEMMA SameReading ==
  ASSUME ReaderInv, page \in ReadPages, page' \in ReadPages, UNCHANGED <<logVars, storedVars>>,
         page'.stamp = page.stamp, page'.size = page.size, page'.pc # "opened",
         page'.pc = "checked" => Len(old.cells) >= page.size,
         Len(old.cells) >= page.size =>
           /\ Began(page', Opened) /\ ReadingTrue(page', Opened)
           /\ page'.pc # "reading" => page'.stop \/ page'.pos >= page.size
           /\ page'.pc = "checked" /\ page'.cursor.block > 0 => HalfStays(page'.cursor, page.stamp)
  PROVE  PageReads'
<1>1. Opened' = Opened /\ Prior' = Prior /\ indexed' = indexed /\ old' = old /\ versions' = versions /\ writes' = writes
  BY DEF Opened, Prior, logVars, storedVars
<1>2. (Began(page, Opened) /\ ReadingTrue(page, Opened))' <=> Began(page', Opened) /\ ReadingTrue(page', Opened)
  BY <1>1 DEF Began, ReadingTrue, BeganAt, Base
<1>3. HalfStays(page.cursor, page.stamp)' <=> HalfStays(page'.cursor, page'.stamp)
  BY <1>1 DEF HalfStays
<1>4. Whole' => Len(old.cells) >= page.size
  BY <1>1 DEF Whole
<1> QED
  BY <1>1, <1>2, <1>3, <1>4 DEF PageReads

LEMMA ChunkKeeps ==
  ASSUME ReaderInv, ReadChunk
  PROVE  ReaderInv'
<1>1. /\ page.pc = "reading" /\ page \in ReadPages /\ page.cursor.id = page.id
      /\ UNCHANGED <<logVars, storedVars>> /\ StoredTypes
  BY InvParts, PagesAre DEF ReadChunk
<1>2. /\ Handle = old /\ old.cells \in Lines /\ Len(old.cells) \in Nat /\ Opened \in Lines /\ Len(Opened) = page.size
      /\ page.size \in Nat /\ \A i \in 1 .. page.size : i <= Len(old.cells) => old.cells[i] = Opened[i]
  BY <1>1, ReadFile
<1>3. Len(old.cells) >= page.size => Began(page, Opened) /\ ReadingTrue(page, Opened)
  BY <1>1, InvParts DEF PageReads, Whole
<1>4. page.pos \in Nat
  BY <1>1 DEF ReadPages
<1>5. CASE page.stop \/ page.pos >= page.size \/ NothingRead
  <2>1. PICK p : p = page'
    OBVIOUS
  <2>2. p = [page EXCEPT !.pc = "read"]
    BY <1>5, <2>1 DEF ReadChunk
  <2>3. /\ p \in ReadPages /\ p.pc = "read" /\ p.id = page.id /\ p.size = page.size /\ p.stamp = page.stamp
        /\ p.reset = page.reset /\ p.pos = page.pos /\ p.start = page.start /\ p.cursor = page.cursor
        /\ p.events = page.events /\ p.lines = page.lines /\ p.stop = page.stop /\ p.text = page.text
    BY <1>1, <2>2 DEF ReadPages
  <2>4. Base(p) = Base(page) /\ BeganAt(p) = BeganAt(page)
    BY <2>3 DEF Base, BeganAt
  <2>5. Len(old.cells) >= page.size => Began(p, Opened) /\ ReadingTrue(p, Opened)
    BY <1>3, <2>3, <2>4 DEF Began, ReadingTrue
  <2>6. Len(old.cells) >= page.size => p.stop \/ p.pos >= page.size
    BY <1>2, <1>4, <1>5, <2>3 DEF NothingRead
  <2>7. PageReads'
    BY <1>1, <2>1, <2>3, <2>5, <2>6, SameReading
  <2> QED
    BY <1>1, <2>1, <2>3, <2>7, ReadKeeps
<1>6. CASE ~(page.stop \/ page.pos >= page.size \/ NothingRead)
  <2>1. PICK n \in Nat, cells \in Seq(Cells) :
          /\ cells = NextChunk /\ Len(cells) = n /\ page.pos + n <= page.size /\ page.pos + n <= Len(old.cells)
          /\ \A i \in 1 .. n : cells[i] = old.cells[page.pos + i]
    <3>1. page.pos < page.size
      BY <1>2, <1>4, <1>6
    <3> QED
      BY <1>1, <1>6, <3>1, ChunkIs
  <2>2. PICK p : p = page'
    OBVIOUS
  <2>3. p = Consumed(page, cells)[n] /\ n \in 0 .. Len(cells)
    BY <1>6, <2>1, <2>2 DEF ReadChunk
  <2>4. p \in ReadPages /\ SameRead(page, p)
    BY <1>1, <2>1, <2>3, ChunkTyped
  <2>5. /\ p.pc = "reading" /\ p.id = page.id /\ p.size = page.size /\ p.stamp = page.stamp /\ p.cursor.id = page.id
    BY <1>1, <2>4 DEF SameRead
  <2>6. ASSUME Len(old.cells) >= page.size
        PROVE  Began(p, Opened) /\ ReadingTrue(p, Opened)
    <3>1. \A i \in 1 .. n : cells[i] = Opened[page.pos + i]
      <4>1. \A i \in 1 .. n : page.pos + i \in 1 .. page.size /\ page.pos + i <= Len(old.cells)
        BY <1>2, <1>4, <2>1
      <4> QED
        BY <1>2, <2>1, <4>1
    <3>2. ~page.stop /\ page.pos + Len(cells) <= Len(Opened)
      BY <1>2, <1>6, <2>1
    <3> QED
      BY <1>1, <1>2, <1>3, <2>1, <2>3, <2>6, <3>1, <3>2, ChunkTrue
  <2>7. PageReads'
    BY <1>1, <2>2, <2>4, <2>5, <2>6, SameReading
  <2> QED
    BY <1>1, <2>2, <2>4, <2>5, <2>7, ReadKeeps
<1> QED
  BY <1>5, <1>6

LEMMA StatKeeps ==
  ASSUME ReaderInv, StatAgain
  PROVE  ReaderInv'
<1>1. /\ page.pc = "read" /\ page \in ReadPages /\ page.cursor.id = page.id
      /\ UNCHANGED <<logVars, storedVars>>
  BY InvParts, PagesAre DEF StatAgain
<1>2. CASE Disturbed
  <2>1. page' = NoPage
    BY <1>2 DEF StatAgain
  <2> QED
    BY <1>1, <2>1, IdleKeeps
<1>3. CASE ~Disturbed
  <2>1. PICK p : p = page'
    OBVIOUS
  <2>2. p = [page EXCEPT !.pc = "checked"]
    BY <1>3, <2>1 DEF StatAgain
  <2>3. /\ p \in ReadPages /\ p.pc = "checked" /\ p.id = page.id /\ p.size = page.size /\ p.stamp = page.stamp
        /\ p.reset = page.reset /\ p.pos = page.pos /\ p.start = page.start /\ p.cursor = page.cursor
        /\ p.events = page.events /\ p.lines = page.lines /\ p.stop = page.stop /\ p.text = page.text
    BY <1>1, <2>2 DEF ReadPages
  <2>4. Base(p) = Base(page) /\ BeganAt(p) = BeganAt(page)
    BY <2>3 DEF Base, BeganAt
  <2>5. /\ Handle = old /\ Opened \in Lines /\ Len(Opened) = page.size /\ Len(old.cells) \in Nat /\ page.size \in Nat
        /\ page.stamp \in 1 .. writes /\ versions[page.stamp].id = page.id /\ page.stamp \in Nat
    <3>1. page.stamp \in Nat
      BY <1>1 DEF ReadPages
    <3> QED
      BY <1>1, <3>1, ReadFile
  <2>6. Len(old.cells) >= page.size
    BY <1>3, <2>5 DEF Disturbed
  <2>7. Began(page, Opened) /\ ReadingTrue(page, Opened) /\ (page.stop \/ page.pos >= page.size)
    BY <1>1, <2>6, InvParts DEF PageReads, Whole
  <2>8. Began(p, Opened) /\ ReadingTrue(p, Opened)
    BY <2>3, <2>4, <2>7 DEF Began, ReadingTrue
  <2>9. ASSUME p.cursor.block > 0
        PROVE  HalfStays(p.cursor, page.stamp)
    <3>1. PICK o \in Nat : o = p.cursor.offset /\ o + 2 <= page.size
      BY <2>5, <2>8, <2>9 DEF ReadingTrue, CursorAt
    <3>2. \A j \in page.stamp .. writes : versions[j].id = page.id => Agree(versions[j].cells, Opened, page.size)
      BY <1>1, <2>6, InvParts DEF PageOpened
    <3>3. ASSUME NEW j \in page.stamp .. writes, versions[j].id = page.id
          PROVE  Agree(versions[j].cells, Opened, o + 2)
      <4>1. Agree(versions[j].cells, Opened, page.size)
        BY <3>2, <3>3
      <4>2. Len(versions[j].cells) \in Nat
        <5>1. j \in 1 .. writes
          BY <2>5, <3>3, InvParts, VersionsAre
        <5> QED
          BY <5>1, InvParts, VersionsAre
      <4>3. \A i \in 1 .. o + 2 : i \in 1 .. page.size
        BY <2>5, <3>1
      <4> QED
        BY <2>5, <3>1, <4>1, <4>2, <4>3 DEF Agree
    <3> QED
      BY <2>5, <3>1, <3>3 DEF HalfStays, Opened
  <2>10. PageReads'
    BY <1>1, <2>1, <2>3, <2>6, <2>7, <2>8, <2>9, SameReading
  <2> QED
    BY <1>1, <2>1, <2>3, <2>10, ReadKeeps
<1> QED
  BY <1>2, <1>3

PartOf(s, from, to, t) ==
  LET e == IF to < Len(s) THEN to ELSE Len(s) IN
    /\ t \in Seq(Cells) /\ Len(t) = (IF from <= e THEN e - from + 1 ELSE 0)
    /\ \A i \in 1 .. e - from + 1 : t[i] = s[from + i - 1]
LEMMA PartIs ==
  ASSUME NEW s \in Seq(Cells), NEW from \in Nat \ {0}, NEW to \in Nat
  PROVE  PartOf(s, from, to, Part(s, from, to))
<1>1. Len(s) \in Nat /\ \A i \in 1 .. Len(s) : s[i] \in Cells
  BY LenProperties, ElementOfSeq
<1>2. PICK e \in Nat : e = (IF to < Len(s) THEN to ELSE Len(s)) /\ e <= Len(s)
  BY <1>1
<1>3. from \in Int /\ e \in Int /\ \A i \in from .. e : s[i] \in Cells
  BY <1>1, <1>2
<1>4. PICK t : t = SubSeq(s, from, e)
  OBVIOUS
<1>5. /\ t \in Seq(Cells) /\ Len(t) = (IF from <= e THEN e - from + 1 ELSE 0)
      /\ \A i \in 1 .. e - from + 1 : t[i] = s[from + i - 1]
  BY <1>3, <1>4, SubSeqProperties
<1> QED
  BY <1>2, <1>4, <1>5 DEF PartOf, Part

\* The tail of a cursor that was taken from a log that is at least as long.
LEMMA TailTaken ==
  ASSUME NEW s \in Lines, NEW u \in Lines, NEW o \in Nat, o <= Len(s), LineEnd(s, o),
         \A i \in 1 .. Len(s) : i <= Len(u) => u[i] = s[i],
         NEW t \in Lines, o <= Len(t), LastCells(t, o) = LastCells(u, o), o # 0
  PROVE  t[o - 1] = s[o - 1]
<1>1. /\ Window \in Nat /\ Window >= 2 /\ s \in Seq(Cells) /\ u \in Seq(Cells) /\ t \in Seq(Cells)
      /\ Len(s) \in Nat /\ Len(u) \in Nat /\ Len(t) \in Nat
  BY ReaderAssumption, LineFacts
<1>2. o > 1
  <2>1. o \in 1 .. Len(s) /\ s[o] = NewLine
    BY <1>1 DEF LineEnd
  <2> QED
    BY <2>1, LineFacts
<1>3. PICK low \in Nat \ {0} : low = LowBound(o) /\ low <= o - 1
  <2>1. CASE o > Window
    <3>1. LowBound(o) = o - Window + 1
      BY <2>1 DEF LowBound
    <3>2. o - Window + 1 \in Nat \ {0} /\ o - Window + 1 <= o - 1
      BY <1>1, <2>1
    <3> QED
      BY <3>1, <3>2
  <2>2. CASE ~(o > Window)
    <3>1. LowBound(o) = 1
      BY <2>2 DEF LowBound
    <3> QED
      BY <1>2, <3>1
  <2> QED
    BY <2>1, <2>2
<1>4. PICK a, b : a = LastCells(t, o) /\ b = LastCells(u, o) /\ a = b
  OBVIOUS
<1>5. PartOf(t, low, o, a) /\ PartOf(u, low, o, b)
  BY <1>1, <1>3, <1>4, PartIs DEF LastCells
<1>6. /\ Len(a) = o - low + 1 /\ \A i \in 1 .. o - low + 1 : a[i] = t[low + i - 1]
  <2>1. (IF o < Len(t) THEN o ELSE Len(t)) = o
    BY <1>1
  <2> QED
    BY <1>3, <1>5, <2>1 DEF PartOf
<1>7. o <= Len(u) /\ \A i \in 1 .. o - low + 1 : b[i] = u[low + i - 1]
  <2>1. PICK e \in Nat : e = IF o < Len(u) THEN o ELSE Len(u)
    BY <1>1
  <2>2. Len(b) = (IF low <= e THEN e - low + 1 ELSE 0) /\ \A i \in 1 .. e - low + 1 : b[i] = u[low + i - 1]
    BY <1>5, <2>1 DEF PartOf
  <2>3. e = o
    BY <1>1, <1>3, <1>4, <1>6, <2>1, <2>2
  <2> QED
    BY <1>1, <2>1, <2>2, <2>3
<1>8. PICK i \in 1 .. o - low + 1 : low + i - 1 = o - 1
  <2>1. (o - 1) - low + 1 \in 1 .. o - low + 1 /\ low + ((o - 1) - low + 1) - 1 = o - 1
    BY <1>2, <1>3
  <2> QED
    BY <2>1
<1>9. t[o - 1] = u[o - 1]
  <2>1. a[i] = t[o - 1]
    BY <1>6, <1>8
  <2>2. b[i] = u[o - 1]
    BY <1>7, <1>8
  <2> QED
    BY <1>4, <2>1, <2>2
<1>10. o - 1 \in 1 .. Len(s) /\ o - 1 <= Len(u)
  BY <1>1, <1>2, <1>7
<1> QED
  BY <1>9, <1>10

LEMMA StoreKeeps ==
  ASSUME ReaderInv, Store
  PROVE  ReaderInv'
<1>1. page.pc = "checked" /\ page \in ReadPages /\ page.cursor.id = page.id /\ UNCHANGED logVars
  BY InvParts, PagesAre DEF Store
<1>2. /\ Handle = old /\ old.cells \in Lines /\ old.cells \in Seq(Cells) /\ Len(old.cells) \in Nat
      /\ Opened \in Lines /\ Len(Opened) = page.size
      /\ page.size \in Nat /\ page.stamp \in 1 .. writes /\ versions[page.stamp].id = page.id
      /\ \A i \in 1 .. page.size : i <= Len(old.cells) => old.cells[i] = Opened[i]
  BY <1>1, ReadFile, LineFacts
<1>3. /\ Began(page, Opened) /\ ReadingTrue(page, Opened)
      /\ page.stop \/ page.pos >= page.size
      /\ page.cursor.block > 0 => HalfStays(page.cursor, page.stamp)
  BY <1>1, InvParts DEF PageReads, Whole
<1>4. /\ page.cursor \in PageCursors /\ page.events \in Seq(EventRows) /\ page.pos \in Nat /\ page.start \in Nat
      /\ page.id \in Nat /\ page.stamp \in Nat /\ page.stop \in BOOLEAN /\ page.lines \in Nat
  BY <1>1 DEF ReadPages
<1>5. Base(page) \in Seq(EventRows) /\ BeganAt(page).offset \in Nat /\ BeganAt(page).block \in Nat
  BY InvParts, BaseTyped
<1>6. PICK o, length, head, tail : /\ o = page.cursor.offset /\ length = Least(page.size, Window)
                                   /\ head = FirstCells(old.cells, length) /\ tail = LastCells(old.cells, o)
  OBVIOUS
<1>7. PICK c : c = [page.cursor EXCEPT !.headLength = length, !.head = head, !.tail = tail]
  OBVIOUS
<1>8. o \in Nat /\ page.cursor.block \in Nat /\ CursorAt(page.cursor, Opened)
  BY <1>3, <1>6 DEF ReadingTrue, CursorAt
<1>9. length \in Nat /\ head \in Seq(Cells) /\ tail \in Seq(Cells)
  <2>1. length \in Nat /\ LowBound(o) \in Nat \ {0}
    BY <1>2, <1>6, <1>8, ReaderAssumption DEF Least, LowBound
  <2>2. PartOf(old.cells, 1, length, head) /\ PartOf(old.cells, LowBound(o), o, tail)
    BY <1>2, <1>6, <1>8, <2>1, PartIs DEF FirstCells, LastCells
  <2> QED
    BY <2>1, <2>2 DEF PartOf
<1>10. Len(Base(page)) \in Nat /\ Len(page.events) \in Nat /\ page.cursor.next = Len(Base(page)) + Len(page.events)
  BY <1>3, <1>4, <1>5, LenProperties DEF ReadingTrue
<1>11. /\ c.id = page.id /\ c.offset = o /\ c.next = page.cursor.next /\ c.block = page.cursor.block /\ c.tail = tail
       /\ c \in LogCursors
  <2>1. page.cursor.next \in Nat
    BY <1>10
  <2>2. /\ c.id = page.cursor.id /\ c.offset = page.cursor.offset /\ c.next = page.cursor.next /\ c.block = page.cursor.block
        /\ c.headLength = length /\ c.head = head /\ c.tail = tail
        /\ c = [id |-> c.id, offset |-> c.offset, next |-> c.next, block |-> c.block, headLength |-> c.headLength,
                head |-> c.head, tail |-> c.tail]
    BY <1>4, <1>7 DEF PageCursors
  <2>3. c.id \in Nat /\ c.offset \in Nat /\ c.next \in Nat /\ c.block \in Nat /\ c.headLength \in Nat
        /\ c.head \in Seq(Cells) /\ c.tail \in Seq(Cells)
    BY <1>1, <1>4, <1>6, <1>8, <1>9, <2>1, <2>2
  <2>4. c \in LogCursors
    BY <2>2, <2>3 DEF LogCursors
  <2> QED
    BY <1>1, <1>6, <2>2, <2>4
<1>12. PICK whole : whole = Base(page) \o page.events
  OBVIOUS
<1>13. whole \in Seq(EventRows) /\ Len(whole) = c.next /\ Numbered(whole)
  BY <1>3, <1>4, <1>5, <1>10, <1>11, <1>12, ConcatProperties DEF ReadingTrue
<1>14. /\ stored' = c /\ indexed' = whole
       /\ page' = [pc |-> "stored", id |-> page.id, size |-> page.size, stamp |-> page.stamp,
                   more |-> page.stop /\ o < page.size]
  BY <1>2, <1>6, <1>7, <1>11, <1>12 DEF Store, Base
<1>15. /\ page'.pc = "stored" /\ page'.id = page.id /\ page'.size = page.size /\ page'.stamp = page.stamp
       /\ page' \in StoredPages /\ page' \notin ReadPages /\ (page'.more <=> page.stop /\ o < page.size)
  BY <1>2, <1>4, <1>14 DEF StoredPages, ReadPages
<1>16. LogTyped' /\ TextsOnce'
  <2>1. jsonl' = jsonl /\ old' = old /\ writes' = writes /\ versions' = versions
    BY <1>1 DEF logVars
  <2>2. LogTyped'
    BY <2>1, InvParts DEF LogTyped
  <2>3. TextsOnce'
    BY <2>1, InvParts DEF TextsOnce
  <2> QED
    BY <2>2, <2>3
<1>17. StoredTypes'
  BY <1>11, <1>13, <1>14, ReaderAssumption DEF StoredTypes
<1>18. PageTyped' /\ PageReads'
  BY <1>15 DEF PageTyped, PageReads
<1>19. PageOpened'
  <2>1. Opened' = Opened /\ page.pc # "idle"
    BY <1>1, <1>15 DEF Opened, logVars
  <2> QED
    BY <1>1, <1>15, <2>1, InvParts DEF PageOpened, logVars
<1>20. Blocked(whole) = EventsBefore(Opened, c)
  <2>1. EventsBefore(Opened, c) = EventsBefore(Opened, page.cursor)
    BY <1>6, <1>11 DEF EventsBefore
  <2>2. CASE page.lines > 0
    BY <1>3, <1>12, <2>1, <2>2 DEF ReadingTrue
  <2>3. CASE ~(page.lines > 0)
    <3>1. /\ page.lines = 0 /\ page.start = BeganAt(page).offset /\ page.events = <<>> /\ ~page.stop
          /\ page.cursor.offset = BeganAt(page).offset /\ page.cursor.block = 0 /\ page.pos <= page.start + 1
      BY <1>3, <1>4, <2>3 DEF ReadingTrue
    <3>2. BeganAt(page).block = 0
      <4>1. BeganAt(page).block > 0 => BeganAt(page).offset + 2 <= Len(Opened)
        BY <1>3 DEF Began, CursorAt
      <4> QED
        BY <1>2, <1>3, <1>4, <1>5, <3>1, <4>1
    <3>3. whole = Base(page)
      <4>1. PICK b \in Seq(EventRows) : b = Base(page)
        BY <1>5
      <4>2. b \o <<>> = b
        OBVIOUS
      <4> QED
        BY <1>12, <3>1, <4>1, <4>2
    <3>4. EventsBefore(Opened, page.cursor) = EventsBefore(Opened, BeganAt(page))
      BY <3>1, <3>2 DEF EventsBefore
    <3> QED
      BY <1>3, <2>1, <3>3, <3>4 DEF Began
  <2> QED
    BY <2>2, <2>3
<1>21. TailTrue(c, Opened)
  <2> SUFFICES ASSUME NEW t \in Lines, o <= Len(t), LastCells(t, o) = tail, o # 0
               PROVE  t[o - 1] = Opened[o - 1]
    BY <1>11 DEF TailTrue
  <2>1. o <= Len(Opened) /\ LineEnd(Opened, o)
    BY <1>6, <1>8 DEF CursorAt
  <2>2. \A i \in 1 .. Len(Opened) : i <= Len(old.cells) => old.cells[i] = Opened[i]
    BY <1>2
  <2>3. LastCells(t, o) = LastCells(old.cells, o)
    BY <1>6
  <2> QED
    BY <1>2, <1>8, <2>1, <2>2, <2>3, TailTaken
<1>22. ~page'.more => \A i \in o + 1 .. page.size : Opened[i] # NewLine
  <2> SUFFICES ASSUME ~(page.stop /\ o < page.size), NEW i \in o + 1 .. page.size
               PROVE  Opened[i] # NewLine
    BY <1>15
  <2>1. ~page.stop /\ page.pos >= page.size
    BY <1>2, <1>3, <1>8
  <2>2. page.start = o /\ page.pos <= page.start + 1
    BY <1>3, <1>4, <1>6, <2>1 DEF ReadingTrue
  <2>3. i = o + 1 /\ i \in 1 .. Len(Opened) /\ i - 1 = o
    BY <1>2, <1>4, <1>8, <2>1, <2>2
  <2>4. LineEnd(Opened, o)
    BY <1>6, <1>8 DEF CursorAt
  <2> QED
    BY <1>2, <1>8, <2>3, <2>4, LineFacts DEF LineEnd
<1>23. StoredTrue'
  <2>1. versions' = versions /\ writes' = writes /\ versions[page.stamp].cells = Opened
    BY <1>1 DEF logVars, Opened
  <2>2. CursorAt(c, Opened)
    BY <1>6, <1>8, <1>11 DEF CursorAt
  <2>3. c.block > 0 => HalfStays(c, page.stamp)
    BY <1>3, <1>6, <1>11 DEF HalfStays
  <2>4. page.stamp >= page.stamp /\ c.id = versions[page.stamp].id
    BY <1>2, <1>4, <1>11
  <2>5. PICK k \in 1 .. writes : k = page.stamp
    BY <1>2
  <2>6. StoredAt(k)'
    BY <1>11, <1>14, <1>15, <1>20, <1>21, <1>22, <2>1, <2>2, <2>3, <2>4, <2>5 DEF StoredAt, TailTrue, HalfStays
  <2> QED
    BY <1>13, <1>14, <2>1, <2>6 DEF StoredTrue, Numbered
<1> QED
  BY <1>16, <1>17, <1>18, <1>19, <1>23 DEF ReaderInv

LEMMA ReaderKeeps ==
  ASSUME ReaderInv, [ReaderNext]_readerVars
  PROVE  ReaderInv'
<1>1. CASE AppendHalf
  BY <1>1, HalfKeeps
<1>2. CASE AppendRecord
  BY <1>2, RecordKeeps
<1>3. CASE Truncate
  BY <1>3, TruncateKeeps
<1>4. CASE ReplaceLog
  BY <1>4, ReplaceKeeps
<1>5. CASE Open
  BY <1>5, OpenKeeps
<1>6. CASE Compare
  BY <1>6, CompareKeeps
<1>7. CASE ReadChunk
  BY <1>7, ChunkKeeps
<1>8. CASE StatAgain
  BY <1>8, StatKeeps
<1>9. CASE Store
  BY <1>9, StoreKeeps
<1>10. CASE Done \/ Abort
  BY <1>10, IdleKeeps DEF Done, Abort
<1>11. CASE UNCHANGED readerVars
  <2>1. UNCHANGED <<logVars, storedVars>> /\ page' = page
    BY <1>11 DEF readerVars
  <2>2. jsonl' = jsonl /\ old' = old /\ writes' = writes /\ versions' = versions /\ stored' = stored /\ indexed' = indexed
    BY <2>1 DEF logVars, storedVars
  <2>3. LogTyped' /\ TextsOnce' /\ StoredTypes'
    BY <2>1, FilesStay
  <2>4. PageTyped' /\ Opened' = Opened /\ Prior' = Prior
    BY <2>1, <2>2, InvParts DEF PageTyped, Opened, Prior
  <2>5. PageOpened'
    BY <2>1, <2>2, <2>4, InvParts DEF PageOpened
  <2>6. PageReads'
    <3>1. (Began(page, Opened) /\ ReadingTrue(page, Opened))' <=> Began(page, Opened) /\ ReadingTrue(page, Opened)
      BY <2>1, <2>2, <2>4 DEF Began, ReadingTrue, BeganAt, Base
    <3>2. HalfStays(page.cursor, page.stamp)' <=> HalfStays(page.cursor, page.stamp)
      BY <2>1, <2>2 DEF HalfStays
    <3> QED
      BY <2>1, <2>2, <3>1, <3>2, InvParts DEF PageReads, Whole
  <2>7. StoredTrue'
    BY <2>1, <2>2, InvParts DEF StoredTrue, StoredAt, HalfStays, TailTrue
  <2> QED
    BY <2>3, <2>4, <2>5, <2>6, <2>7 DEF ReaderInv
<1> QED
  BY <1>1, <1>2, <1>3, <1>4, <1>5, <1>6, <1>7, <1>8, <1>9, <1>10, <1>11 DEF ReaderNext

LEMMA ReaderStarts ==
  ASSUME ReaderInit
  PROVE  ReaderInv
<1>1. PICK first : first = [id |-> 1, cells |-> <<>>]
  OBVIOUS
<1>2. /\ jsonl = first /\ old = first /\ writes = 1 /\ versions = <<first>> /\ page = NoPage /\ stored = None /\ indexed = <<>>
  BY <1>1 DEF ReaderInit
<1>3. first \in Files /\ first.id = 1 /\ first.cells = <<>>
  <2>1. <<>> \in Seq(Cells) /\ Len(<<>>) = 0
    BY EmptySeq
  <2>2. <<>> \in Lines
    BY <2>1 DEF Lines
  <2> QED
    BY <1>1, <2>2 DEF Files
<1>4. versions \in Seq(Files) /\ Len(versions) = 1 /\ versions[1] = first /\ \A k \in 1 .. 1 : versions[k] = first
  BY <1>2, <1>3
<1>5. LogTyped
  BY <1>2, <1>3, <1>4 DEF LogTyped
<1>6. TextsOnce
  <2>1. Len(first.cells) = 0 /\ 1 .. Len(first.cells) = {}
    BY <1>3
  <2> QED
    BY <1>2, <1>3, <1>4, <2>1 DEF TextsOnce
<1>7. StoredTypes
  BY <1>2, EmptySeq DEF StoredTypes
<1>8. PageTyped /\ PageOpened /\ PageReads
  BY <1>2 DEF PageTyped, PageOpened, PageReads, NoPage
<1>9. StoredTrue
  BY <1>2 DEF StoredTrue
<1> QED
  BY <1>5, <1>6, <1>7, <1>8, <1>9 DEF ReaderInv

\* ReaderInv is inductive: what a page has read is of one content of the log as long as nothing of it was cut off,
\* and a content with the tail of the stored cursor has told what was stored.
THEOREM ReaderInvariance == ReaderSpec => []ReaderInv
<1>1. ReaderInit => ReaderInv
  BY ReaderStarts
<1>2. ReaderInv /\ [ReaderNext]_readerVars => ReaderInv'
  BY ReaderKeeps
<1> QED
  BY <1>1, <1>2, PTL DEF ReaderSpec

\* The stored events are those of one version of the log up to the stored cursor, each once and in order.
THEOREM RowsAreTheLog == ReaderSpec => []RowsFollowTheLog
<1>1. ReaderInv => RowsFollowTheLog
  <2> SUFFICES ASSUME ReaderInv, stored # None
               PROVE  /\ \A i \in DOMAIN indexed : indexed[i].ordinal = i - 1
                      /\ stored.next = Len(indexed)
                      /\ \E k \in DOMAIN versions : LET v == versions[k] IN
                           /\ v.id = stored.id
                           /\ Len(v.cells) >= stored.offset + (IF stored.block > 0 THEN 1 ELSE 0)
                           /\ Blocked(indexed) = EventsBefore(v.cells, stored)
                           /\ page.pc = "stored" =>
                                /\ k >= page.stamp
                                /\ page.more \/ \A i \in stored.offset + 1 .. page.size : v.cells[i] # NewLine
    BY DEF RowsFollowTheLog
  <2>1. Numbered(indexed) /\ stored.next = Len(indexed) /\ indexed \in Seq(EventRows)
    BY InvParts DEF StoredTrue, StoredTypes
  <2>2. \A i \in DOMAIN indexed : indexed[i].ordinal = i - 1
    BY <2>1, LenProperties DEF Numbered
  <2>3. PICK k \in 1 .. writes : StoredAt(k)
    BY InvParts DEF StoredTrue
  <2>4. k \in DOMAIN versions
    BY InvParts, LenProperties DEF LogTyped
  <2>5. Len(versions[k].cells) >= stored.offset + (IF stored.block > 0 THEN 1 ELSE 0)
    <3>1. Len(versions[k].cells) \in Nat
      BY InvParts, VersionsAre
    <3> QED
      BY <2>3, <3>1 DEF StoredAt, CursorAt
  <2> QED
    BY <2>1, <2>2, <2>3, <2>4, <2>5 DEF StoredAt
<1> QED
  BY <1>1, ReaderInvariance, PTL
=============================================================================
