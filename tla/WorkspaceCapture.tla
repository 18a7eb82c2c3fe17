--------------------------- MODULE WorkspaceCapture ---------------------------
(* The capture of a Git workspace, while the user and the user's tools go on *)
(* working in it: reader.ts reads HEAD, its tree, the index and the list of  *)
(* untracked files with four commands, then every listed file, then all of   *)
(* that again.  A second capture verifies the stored one.                    *)
EXTENDS Naturals, Sequences, FiniteSets, TLC

CONSTANTS
  N,          \* number of paths
  Contents,   \* what a file or a blob may contain
  Absent,     \* no file, no entry
  Unread,     \* not read yet
  MaxOps      \* bound on the changes made to the workspace

ASSUME CaptureAssumption ==
  N \in Nat \ {0} /\ MaxOps \in Nat /\ Absent \notin Contents /\ Unread \notin Contents \cup {Absent}

Paths == 1 .. N   \* in the order in which the reader sorts them
Trees == [Paths -> Contents \cup {Absent}]

VARIABLES
  past,      \* the states of the workspace so far, the present one last
  bound,     \* the workspace row is what it was when the snapshot was asked for
  scan,      \* what the attempt under way has read
  captures,  \* the finished captures: the stored one, then the verifying one
  verdict    \* the report of the verification

captureVars == <<past, bound, scan, captures, verdict>>

-----------------------------------------------------------------------------
(* The workspace.  A signature (device, inode, mode, size, times) is the     *)
(* moment of the last change, so every change gives a new one.               *)

Now == past[Len(past)]
Listed(inventory) == {p \in Paths : inventory.index[p] # Absent} \cup inventory.untracked
Untracked(w) == {p \in Paths : w.index[p] = Absent /\ w.content[p] # Absent}

MayChange == Len(past) <= MaxOps /\ verdict = "none"
Changed(w) == MayChange /\ past' = Append(past, w) /\ UNCHANGED <<bound, scan, captures, verdict>>

WriteFile(p) ==
  \E c \in Contents \cup {Absent} :
    /\ c # Absent \/ Now.content[p] # Absent
    /\ Changed([Now EXCEPT !.content[p] = c, !.stamp[p] = IF c = Absent THEN 0 ELSE Len(past) + 1])

Stage(p) == Now.index[p] # Now.content[p] /\ Changed([Now EXCEPT !.index[p] = Now.content[p]])

Commit ==
  /\ Now.index # Now.trees[Now.head]
  /\ Changed([Now EXCEPT !.trees = Append(@, Now.index), !.head = Len(Now.trees) + 1])

\* git reset --soft or update-ref: HEAD alone moves, possibly to where it was.
MoveHead == \E h \in DOMAIN Now.trees \ {Now.head} : Changed([Now EXCEPT !.head = h])

Unbind == bound /\ MayChange /\ bound' = FALSE /\ UNCHANGED <<past, scan, captures, verdict>>

Environment == (\E p \in Paths : WriteFile(p) \/ Stage(p)) \/ Commit \/ MoveHead \/ Unbind

-----------------------------------------------------------------------------
(* One attempt.                                                              *)

Commands == <<"head", "tree", "index", "untracked">>
Output(c) ==
  CASE c = "head"      -> Now.head
    [] c = "tree"      -> Now.trees[Now.head]
    [] c = "index"     -> Now.index
    [] c = "untracked" -> Untracked(Now)

Nothing == [c \in {"head", "tree", "index", "untracked"} |-> Unread]

Attempt(n) ==
  [attempt |-> n, phase |-> "before", at |-> 1, before |-> Nothing, same |-> TRUE, step |-> "stat",
   content |-> [p \in Paths |-> Unread], stamp |-> [p \in Paths |-> 0], from |-> Len(past)]

CaptureInit ==
  /\ \E tracked \in {Paths, {1}} : \E c \in Contents :
       LET tree == [p \in Paths |-> IF p \in tracked THEN c ELSE Absent] IN
         past = <<[content |-> [p \in Paths |-> c], stamp |-> [p \in Paths |-> 1],
                   index |-> tree, trees |-> <<tree>>, head |-> 1]>>
  /\ bound = TRUE
  /\ scan = Attempt(1)
  /\ captures = <<>> /\ verdict = "none"

Reading(phase) == scan.phase = phase /\ verdict = "none"
Continue(s) == scan' = s /\ UNCHANGED <<past, bound, captures, verdict>>

\* The first inventory, command by command.
Inventory ==
  /\ Reading("before")
  /\ Continue([scan EXCEPT !.before[Commands[scan.at]] = Output(Commands[scan.at]),
                           !.at = IF @ = 4 THEN 1 ELSE @ + 1,
                           !.phase = IF scan.at = 4 THEN "files" ELSE @])

\* The paths that are not listed are passed over.
Skip(p) == p \in Paths /\ p \notin Listed(scan.before)
NextPath(s) == [s EXCEPT !.at = @ + 1, !.step = "stat"]

CompareDigests(stored, current) ==
  IF ~bound THEN "unverifiable"
  ELSE IF stored.head # current.head \/ stored.digest # current.digest THEN "drifted"
  ELSE "matched"

\* compareWorkspaceSnapshots: identity, completeness, scope, HEAD, then content.
Compare(stored, current) ==
  IF stored.reason # "none" \/ current.reason # "none" \/ ~bound THEN "unverifiable"
  ELSE IF stored.head # current.head \/ stored.digest # current.digest THEN "drifted"
  ELSE "matched"

\* The capture is over: a stored snapshot is verified next, a verification
\* reports.  A binding that changed meanwhile refuses the snapshot.
EndCapture(capture) ==
  /\ captures' = Append(captures, capture)
  /\ IF captures = <<>>
     THEN IF bound THEN scan' = Attempt(1) /\ UNCHANGED verdict
                   ELSE verdict' = "not stored" /\ UNCHANGED scan
     ELSE verdict' = Compare(captures[1], capture) /\ UNCHANGED scan
  /\ UNCHANGED <<past, bound>>

Incomplete(reason) ==
  [reason |-> reason, head |-> Unread, digest |-> Unread, changed |-> {},
   from |-> scan.from, to |-> Len(past)]

\* A race is tried once more, everything else ends the capture.
Fail(reason) ==
  IF reason = "RACED" /\ scan.attempt = 1 THEN Continue(Attempt(2)) ELSE EndCapture(Incomplete(reason))

AtFile(step) == Reading("files") /\ scan.at \in Listed(scan.before) /\ scan.step = step

PassOver == Reading("files") /\ Skip(scan.at) /\ Continue(NextPath(scan))

Stat ==
  /\ AtFile("stat")
  /\ LET p == scan.at IN
     IF Now.content[p] # Absent
     THEN Continue([scan EXCEPT !.stamp[p] = Now.stamp[p], !.step = "open"])
     ELSE IF p \in scan.before.untracked THEN Fail("RACED")
     ELSE Continue(NextPath([scan EXCEPT !.content[p] = Absent]))

OpenFile ==
  /\ AtFile("open")
  /\ IF Now.content[scan.at] = Absent THEN Fail("SOURCE_MISSING")
     ELSE IF Now.stamp[scan.at] # scan.stamp[scan.at] THEN Fail("RACED")
     ELSE Continue([scan EXCEPT !.step = "read"])

ReadFile ==
  /\ AtFile("read")
  /\ Continue([scan EXCEPT !.content[scan.at] = Now.content[scan.at], !.step = "check"])

CheckFile ==
  /\ AtFile("check")
  /\ IF Now.stamp[scan.at] # scan.stamp[scan.at] THEN Fail("RACED") ELSE Continue(NextPath(scan))

\* The second inventory must repeat the first one.
InventoryAgain ==
  \/ /\ Reading("files") /\ scan.at = N + 1
     /\ Continue([scan EXCEPT !.phase = "after", !.at = 1])
  \/ /\ Reading("after")
     /\ LET same == scan.same /\ Output(Commands[scan.at]) = scan.before[Commands[scan.at]] IN
        IF scan.at < 4 THEN Continue([scan EXCEPT !.same = same, !.at = @ + 1])
        ELSE IF ~same THEN Fail("RACED")
        ELSE Continue([scan EXCEPT !.phase = "final", !.at = 1])

UnchangedOrGone(p) == Now.stamp[p] \in {scan.stamp[p], 0}
\* The file is the one that was read, or still none.
Unchanged(p) == Now.stamp[p] = scan.stamp[p]

\* The changed files of the projection: index against tree, file against index.
ChangedFiles ==
  {p \in Paths : scan.before.index[p] # scan.before.tree[p]} \cup
  {p \in Listed(scan.before) : scan.content[p] # scan.before.index[p]}

Complete ==
  [reason |-> "none", head |-> scan.before.head,
   digest |-> [head |-> scan.before.head, index |-> scan.before.index,
               untracked |-> scan.before.untracked, content |-> scan.content],
   changed |-> ChangedFiles, from |-> scan.from, to |-> Len(past)]

\* Every file is looked at a last time; then the digest is taken.
FinalCheck ==
  /\ Reading("final")
  /\ IF scan.at = N + 1 THEN EndCapture(Complete)
     ELSE IF scan.at \in Listed(scan.before) /\ ~Unchanged(scan.at) THEN Fail("RACED")
     ELSE Continue([scan EXCEPT !.at = @ + 1])

\* The deadline of 30 seconds passes, or something cannot be read.
GiveUp == verdict = "none" /\ \E reason \in {"LIMIT_EXCEEDED", "READ_FAILED"} : EndCapture(Incomplete(reason))

\* The caller aborts: nothing is stored and nothing is reported.
CallerAborts == verdict = "none" /\ verdict' = "cancelled" /\ UNCHANGED <<past, bound, scan, captures>>

CaptureNext ==
  \/ Environment
  \/ Inventory \/ PassOver \/ Stat \/ OpenFile \/ ReadFile \/ CheckFile
  \/ InventoryAgain \/ FinalCheck \/ GiveUp \/ CallerAborts

CaptureSpec == CaptureInit /\ [][CaptureNext]_captureVars

-----------------------------------------------------------------------------
(* Properties                                                                *)

Present(c) == {p \in Listed(c.digest) : c.digest.content[p] # Absent}

\* A capture that calls itself complete describes files of one moment: at some
\* time during it every file that was hashed was there with that content,
\* although they were read one after the other.  What it calls deleted was
\* missing when it was looked for, HEAD, index and the list of untracked files
\* were so when they were read, and when it names no changed file, the files of
\* that moment are those of the tree it read.  (It is no atomic snapshot: a
\* file that is missing whenever it is looked for may exist in between.)
FilesOfOneMoment ==
  \A k \in DOMAIN captures : LET c == captures[k]  during == c.from .. c.to IN
    c.reason = "none" =>
      /\ \E i \in during :
           /\ \A p \in Present(c) : past[i].content[p] = c.digest.content[p]
           /\ c.changed = {} =>
                \E j \in during : \A p \in Listed(c.digest) :
                  past[i].content[p] = past[j].trees[past[j].head][p]
      /\ \A p \in Listed(c.digest) \ Present(c) : \E i \in during : past[i].content[p] = Absent
      /\ \E i \in during : past[i].head = c.head
      /\ \E i \in during : past[i].index = c.digest.index
      /\ \E i \in during : Untracked(past[i]) = c.digest.untracked

View(i) == [content |-> past[i].content, index |-> past[i].index, head |-> past[i].head]

\* A report of drift is true: HEAD, the index or a file did differ between the
\* two captures.  A report of a match is true of one moment in each of them, for
\* the workspace that was asked about.  No other failure turns into either.
VerdictsAreTrue ==
  verdict \in {"matched", "drifted"} =>
    LET stored == captures[1]  current == captures[2] IN
      /\ bound /\ stored.reason = "none" /\ current.reason = "none"
      /\ verdict = "drifted" => \E i, j \in stored.from .. current.to : View(i) # View(j)
      /\ verdict = "matched" =>
           \E i \in stored.from .. stored.to, j \in current.from .. current.to :
             \A p \in Present(stored) : past[i].content[p] = past[j].content[p]

\* A capture that says it is complete shows files of one moment, and a
\* verification names a change exactly where there was one.
CapturesAreTrue == FilesOfOneMoment /\ VerdictsAreTrue
=============================================================================
