----------------------- MODULE WorkspaceCapture_proofs -----------------------
(* A capture that calls itself complete shows files of one moment, and what  *)
(* a verification reports did happen: for any number of paths and of changes *)
(* made while the workspace is read.                                         *)
EXTENDS WorkspaceCapture, SequenceTheorems, TLAPS

Worlds == [content : Trees, stamp : [Paths -> Nat], index : Trees, trees : Seq(Trees), head : Nat]

\* A stamp is the moment since which a file is what it is.
Since(i, p) ==
  LET s == past[i].stamp[p] IN
  /\ s <= i /\ (s = 0 <=> past[i].content[p] = Absent)
  /\ s # 0 => \A k \in s .. i : past[k].stamp[p] = s /\ past[k].content[p] = past[i].content[p]

History ==
  /\ past \in Seq(Worlds) /\ past # << >>
  /\ \A i \in DOMAIN past : past[i].head \in DOMAIN past[i].trees /\ \A p \in Paths : Since(i, p)

Names == {"head", "tree", "index", "untracked"}
Readings == Nat \cup Trees \cup (SUBSET Paths) \cup {Unread}
Scans ==
  [attempt : {1, 2}, phase : {"before", "files", "after", "final"}, at : Nat, before : [Names -> Readings],
   same : BOOLEAN, step : {"stat", "open", "read", "check"},
   content : [Paths -> Contents \cup {Absent, Unread}], stamp : [Paths -> Nat], from : Nat]

\* What a command prints of a state of the workspace.
OutputOf(w, c) ==
  CASE c = "head"      -> w.head
    [] c = "tree"      -> w.trees[w.head]
    [] c = "index"     -> w.index
    [] c = "untracked" -> Untracked(w)

WasRead(c) == scan.phase # "before" \/ \E k \in 1 .. 4 : k < scan.at /\ Commands[k] = c

\* The reader has not looked at p yet.
NotYet(p) ==
  \/ scan.phase = "before"
  \/ scan.phase = "files" /\ (p > scan.at \/ (p = scan.at /\ scan.step = "stat"))

\* A file was, by the moment hi, what was hashed of it.
FileRead(p, hi) ==
  /\ \E i \in scan.from .. hi : past[i].stamp[p] = scan.stamp[p] /\ past[i].content[p] = scan.content[p]
  /\ scan.content[p] = Absent => p \notin scan.before.untracked

\* The four commands were true when they ran.
Inventoried ==
  /\ scan.from \in 1 .. Len(past)
  /\ scan.phase \in {"before", "after"} => scan.at \in 1 .. 4
  /\ scan.phase \in {"files", "final"} => scan.at \in 1 .. N + 1
  /\ scan.phase = "before" => scan.step = "stat"
  /\ \A c \in Names : WasRead(c) => \E i \in scan.from .. Len(past) : scan.before[c] = OutputOf(past[i], c)
  /\ \A p \in Paths : scan.content[p] # Unread => scan.phase # "before" /\ p \in Listed(scan.before)
  /\ \A p \in Paths : NotYet(p) => scan.stamp[p] = 0

\* The files that were passed were read, and the present one is on its way.
FilesSoFar ==
  scan.phase = "files" =>
    /\ \A p \in Listed(scan.before) : p < scan.at => FileRead(p, Len(past))
    /\ scan.at \in Listed(scan.before) /\ scan.step # "stat" => scan.stamp[scan.at] \in 1 .. Len(past)
    /\ scan.at \in Listed(scan.before) /\ scan.step = "check" =>
         \E i \in scan.from .. Len(past) :
           scan.stamp[scan.at] <= i /\ past[i].content[scan.at] = scan.content[scan.at]

\* The moment m at which the last file had been read: what is found unchanged
\* later was there then.
OneMoment(m) ==
  \A p \in Listed(scan.before) :
    /\ FileRead(p, m)
    /\ scan.phase = "final" /\ p < scan.at /\ scan.content[p] # Absent => past[m].content[p] = scan.content[p]

ReadOnce == scan.phase \in {"after", "final"} => \E m \in scan.from .. Len(past) : OneMoment(m)

Reader == scan \in Scans /\ Inventoried /\ FilesSoFar /\ ReadOnce

\* What a finished capture says, and what of it was so.
CaptureTrue(c) ==
  /\ c.from \in 1 .. Len(past) /\ c.to \in c.from .. Len(past)
  /\ c.reason = "none" =>
       /\ c.digest = [head |-> c.head, index |-> c.digest.index, untracked |-> c.digest.untracked,
                      content |-> c.digest.content]
       /\ c.digest.content \in [Paths -> Contents \cup {Absent, Unread}] /\ Listed(c.digest) \subseteq Paths
       /\ \A p \in Paths \ Listed(c.digest) : c.digest.content[p] = Unread
       /\ \A p \in Listed(c.digest) : \E i \in c.from .. c.to : past[i].content[p] = c.digest.content[p]
       /\ \E i \in c.from .. c.to : past[i].head = c.head
       /\ \E i \in c.from .. c.to : past[i].index = c.digest.index
       /\ \E i \in c.from .. c.to : Untracked(past[i]) = c.digest.untracked
       /\ \E i \in c.from .. c.to :
            /\ \A p \in Present(c) : past[i].content[p] = c.digest.content[p]
            /\ c.changed = {} => \E j \in c.from .. c.to : \A p \in Listed(c.digest) :
                 past[i].content[p] = past[j].trees[past[j].head][p]

Reported ==
  LET stored == captures[1]  current == captures[2] IN
  /\ captures = << >> \/ captures = <<stored>> \/ captures = <<stored, current>>
  /\ verdict = "none" => captures = << >> \/ (captures = <<stored>> /\ stored.to <= scan.from)
  /\ \A k \in DOMAIN captures : CaptureTrue(captures[k])
  /\ verdict \in {"matched", "drifted"} =>
       /\ captures = <<stored, current>> /\ bound /\ stored.to <= current.from
       /\ stored.reason = "none" /\ current.reason = "none"
       /\ verdict = "drifted" <=> (stored.head # current.head \/ stored.digest # current.digest)

CaptureInv == History /\ (verdict = "none" => Reader) /\ Reported

-----------------------------------------------------------------------------
(* The workspace goes on.                                                    *)

\* The past only grows.
Grows ==
  /\ Len(past') \in Nat /\ Len(past) <= Len(past')
  /\ \A i \in 1 .. Len(past) : past'[i] = past[i]

\* The past is a list of states of the workspace, and the present is one.
LEMMA PastIsTyped ==
  ASSUME History
  PROVE  /\ Len(past) \in Nat \ {0} /\ DOMAIN past = 1 .. Len(past) /\ Now = past[Len(past)]
         /\ \A i \in 1 .. Len(past) :
              /\ past[i] \in Worlds /\ past[i].head \in DOMAIN past[i].trees
              /\ past[i].content \in Trees /\ past[i].index \in Trees /\ past[i].head \in Nat
              /\ past[i].stamp \in [Paths -> Nat] /\ past[i].trees[past[i].head] \in Trees
              /\ \A p \in Paths : Since(i, p)
<1>1. Len(past) \in Nat \ {0} /\ DOMAIN past = 1 .. Len(past) /\ Now = past[Len(past)]
  BY DEF History, Now
<1>2. \A i \in 1 .. Len(past) : past[i] \in Worlds
  BY <1>1 DEF History
<1>3. ASSUME NEW i \in 1 .. Len(past) PROVE past[i].trees[past[i].head] \in Trees
  <2>1. past[i].trees \in Seq(Trees) /\ past[i].head \in DOMAIN past[i].trees
    BY <1>1, <1>2 DEF History, Worlds
  <2> QED BY <2>1
<1>4. ASSUME NEW i \in 1 .. Len(past)
      PROVE  /\ past[i].head \in DOMAIN past[i].trees /\ past[i].head \in Nat
             /\ past[i].content \in Trees /\ past[i].index \in Trees /\ past[i].stamp \in [Paths -> Nat]
             /\ \A p \in Paths : Since(i, p)
  BY <1>1, <1>2 DEF History, Worlds
<1> QED BY <1>1, <1>2, <1>3, <1>4

\* A change adds one state: a file that changed has the stamp of this moment,
\* a file that went has none, every other is what it was.
LEMMA ChangeIsHistory ==
  ASSUME History, NEW w \in Worlds, Changed(w), w.head \in DOMAIN w.trees,
         \A p \in Paths :
           \/ w.stamp[p] = Now.stamp[p] /\ w.content[p] = Now.content[p]
           \/ w.stamp[p] = Len(past) + 1 /\ w.content[p] # Absent
           \/ w.stamp[p] = 0 /\ w.content[p] = Absent
  PROVE  History' /\ Grows
<1> DEFINE n == Len(past)
<1>1. n \in Nat \ {0} /\ past \in Seq(Worlds) /\ past' = Append(past, w)
  BY PastIsTyped DEF Changed, History
<1>2. /\ past' \in Seq(Worlds) /\ past' # << >> /\ Len(past') = n + 1 /\ DOMAIN past' = 1 .. n + 1
      /\ past'[n + 1] = w /\ \A i \in 1 .. n : past'[i] = past[i]
  BY <1>1
<1>3. Grows
  BY <1>1, <1>2 DEF Grows
<1>4. ASSUME NEW i \in 1 .. n + 1, NEW p \in Paths PROVE Since(i, p)'
  <2>1. CASE i \in 1 .. n
    <3> DEFINE s == past[i].stamp[p]
    <3>1. Since(i, p) /\ s \in Nat /\ past'[i] = past[i]
      BY <1>2, <2>1, PastIsTyped
    <3>2. \A k \in s .. i : s # 0 => past'[k] = past[k]
      BY <1>1, <1>2, <2>1, <3>1
    <3> QED BY <3>1, <3>2 DEF Since
  <2>2. CASE i = n + 1
    <3>1. past'[i] = w
      BY <1>2, <2>2
    <3>2. CASE w.stamp[p] = Now.stamp[p] /\ w.content[p] = Now.content[p]
      <4> DEFINE s == Now.stamp[p]
      <4>1. s \in Nat /\ Since(n, p) /\ Now = past[n]
        BY <1>1, PastIsTyped
      <4>2. /\ s <= n /\ (s = 0 <=> Now.content[p] = Absent)
            /\ s # 0 => \A k \in s .. n : past[k].stamp[p] = s /\ past[k].content[p] = Now.content[p]
        BY <4>1 DEF Since
      <4>3. ASSUME s # 0, NEW k \in s .. i PROVE past'[k].stamp[p] = s /\ past'[k].content[p] = Now.content[p]
        <5>1. CASE k = i
          BY <3>1, <3>2, <5>1
        <5>2. CASE k # i
          <6>1. k \in s .. n /\ k \in 1 .. n
            BY <1>1, <2>2, <4>1, <4>3, <5>2
          <6> QED BY <1>2, <4>2, <4>3, <6>1
        <5> QED BY <5>1, <5>2
      <4>4. s <= i
        BY <1>1, <2>2, <4>1, <4>2
      <4> QED BY <3>1, <3>2, <4>2, <4>3, <4>4 DEF Since
    <3>3. CASE w.stamp[p] = n + 1 /\ w.content[p] # Absent
      <4>1. \A k \in n + 1 .. i : k = i
        BY <1>1, <2>2
      <4> QED BY <1>1, <2>2, <3>1, <3>3, <4>1 DEF Since
    <3>4. CASE w.stamp[p] = 0 /\ w.content[p] = Absent
      BY <1>1, <2>2, <3>1, <3>4 DEF Since
    <3> QED BY <3>2, <3>3, <3>4
  <2> QED BY <1>1, <2>1, <2>2
<1>5. \A i \in 1 .. n + 1 : past'[i].head \in DOMAIN past'[i].trees
  BY <1>1, <1>2, PastIsTyped
<1> QED BY <1>2, <1>3, <1>4, <1>5 DEF History

LEMMA EnvironmentIsHistory ==
  ASSUME History, Environment
  PROVE  History' /\ Grows /\ UNCHANGED <<scan, captures, verdict>> /\ verdict = "none"
<1>1. /\ Len(past) \in Nat \ {0} /\ Now \in Worlds /\ Now.head \in DOMAIN Now.trees
      /\ Now.content \in Trees /\ Now.index \in Trees /\ Now.stamp \in [Paths -> Nat]
      /\ Now.trees \in Seq(Trees) /\ Now.head \in Nat
  BY PastIsTyped DEF Worlds
<1>2. ASSUME NEW p \in Paths, WriteFile(p)
      PROVE  History' /\ Grows /\ UNCHANGED <<scan, captures, verdict>> /\ verdict = "none"
  <2>1. PICK c \in Contents \cup {Absent} :
          Changed([Now EXCEPT !.content[p] = c, !.stamp[p] = IF c = Absent THEN 0 ELSE Len(past) + 1])
    BY <1>2 DEF WriteFile
  <2> DEFINE w == [Now EXCEPT !.content[p] = c, !.stamp[p] = IF c = Absent THEN 0 ELSE Len(past) + 1]
  <2> DEFINE s == IF c = Absent THEN 0 ELSE Len(past) + 1
  <2>2. [Now.content EXCEPT ![p] = c] \in Trees /\ [Now.stamp EXCEPT ![p] = s] \in [Paths -> Nat]
    BY <1>1 DEF Trees
  <2>3. w = [Now EXCEPT !.content = [Now.content EXCEPT ![p] = c], !.stamp = [Now.stamp EXCEPT ![p] = s]]
    BY <1>1 DEF Worlds
  <2>4. w \in Worlds /\ w.head \in DOMAIN w.trees
    BY <1>1, <2>2, <2>3 DEF Worlds
  <2>5. /\ \A q \in Paths : q # p => w.stamp[q] = Now.stamp[q] /\ w.content[q] = Now.content[q]
        /\ w.content[p] = c /\ w.stamp[p] = s
    BY <1>1, <2>3 DEF Worlds, Trees
  <2>6. Changed(w)
    BY <2>1
  <2> HIDE DEF w
  <2> QED BY <2>4, <2>5, <2>6, ChangeIsHistory DEF Changed, MayChange
<1>3. ASSUME NEW p \in Paths, Stage(p)
      PROVE  History' /\ Grows /\ UNCHANGED <<scan, captures, verdict>> /\ verdict = "none"
  <2> DEFINE w == [Now EXCEPT !.index[p] = Now.content[p]]
  <2>1. Changed(w) /\ w \in Worlds /\ w.head \in DOMAIN w.trees /\ w.stamp = Now.stamp /\ w.content = Now.content
    BY <1>1, <1>3 DEF Stage, Worlds, Trees
  <2> HIDE DEF w
  <2> QED BY <2>1, ChangeIsHistory DEF Changed, MayChange
<1>4. ASSUME Commit PROVE History' /\ Grows /\ UNCHANGED <<scan, captures, verdict>> /\ verdict = "none"
  <2> DEFINE w == [Now EXCEPT !.trees = Append(@, Now.index), !.head = Len(Now.trees) + 1]
  <2>1. Append(Now.trees, Now.index) \in Seq(Trees) /\ Len(Now.trees) + 1 \in DOMAIN Append(Now.trees, Now.index)
        /\ Len(Now.trees) \in Nat
    BY <1>1
  <2> DEFINE trees == Append(Now.trees, Now.index)  head == Len(Now.trees) + 1
  <2>3. w = [Now EXCEPT !.trees = trees, !.head = head] /\ Changed(w)
    BY <1>1, <1>4 DEF Commit, Worlds
  <2>4. w \in Worlds /\ w.trees = trees /\ w.head = head /\ w.stamp = Now.stamp /\ w.content = Now.content
    <3> HIDE DEF trees, head
    <3>1. trees \in Seq(Trees) /\ head \in Nat
      BY <2>1 DEF trees, head
    <3> QED BY <1>1, <2>3, <3>1 DEF Worlds
  <2>2. Changed(w) /\ w \in Worlds /\ w.head \in DOMAIN w.trees /\ w.stamp = Now.stamp /\ w.content = Now.content
    BY <2>1, <2>3, <2>4
  <2> HIDE DEF w
  <2> QED BY <2>2, ChangeIsHistory DEF Changed, MayChange
<1>5. ASSUME MoveHead PROVE History' /\ Grows /\ UNCHANGED <<scan, captures, verdict>> /\ verdict = "none"
  <2>1. PICK h \in DOMAIN Now.trees : Changed([Now EXCEPT !.head = h])
    BY <1>5 DEF MoveHead
  <2> DEFINE w == [Now EXCEPT !.head = h]
  <2>2. Changed(w) /\ w \in Worlds /\ w.head \in DOMAIN w.trees /\ w.stamp = Now.stamp /\ w.content = Now.content
    BY <1>1, <2>1 DEF Worlds
  <2> HIDE DEF w
  <2> QED BY <2>2, ChangeIsHistory DEF Changed, MayChange
<1>6. CASE Unbind
  BY <1>1, <1>6 DEF Unbind, MayChange, Grows, History, Since
<1> QED BY <1>2, <1>3, <1>4, <1>5, <1>6 DEF Environment

\* What the reader has read stays true of the same moments.
LEMMA ReaderKept ==
  ASSUME History, Reader, Grows, UNCHANGED scan PROVE Reader'
<1>1. Len(past) \in Nat \ {0} /\ Len(past') \in Nat /\ Len(past) <= Len(past') /\ scan.from \in 1 .. Len(past)
  BY PastIsTyped DEF Grows, Reader, Inventoried
<1>2. \A i \in scan.from .. Len(past) : i \in scan.from .. Len(past') /\ i \in 1 .. Len(past) /\ past'[i] = past[i]
  BY <1>1 DEF Grows
<1>3. Inventoried'
  <2>1. ASSUME NEW c \in Names, NEW i \in 1 .. Len(past) PROVE OutputOf(past[i], c)' = OutputOf(past[i], c)
    BY <2>1 DEF Grows, OutputOf, Untracked
  <2>2. ASSUME NEW c \in Names, WasRead(c)'
        PROVE  \E i \in scan.from .. Len(past') : scan.before[c] = OutputOf(past'[i], c)
    <3>1. PICK i \in scan.from .. Len(past) : scan.before[c] = OutputOf(past[i], c)
      BY <2>2 DEF Reader, Inventoried, WasRead
    <3> QED BY <1>2, <2>1, <3>1
  <2> QED BY <1>1, <2>2 DEF Reader, Inventoried, WasRead, NotYet, Listed
<1>4. ASSUME NEW p, NEW m \in scan.from .. Len(past), FileRead(p, m)
      PROVE  FileRead(p, m)' /\ FileRead(p, Len(past))'
  <2>1. PICK i \in scan.from .. m : past[i].stamp[p] = scan.stamp[p] /\ past[i].content[p] = scan.content[p]
    BY <1>4 DEF FileRead
  <2>2. i \in scan.from .. Len(past) /\ i \in scan.from .. Len(past')
    BY <1>1, <2>1
  <2>3. past'[i] = past[i]
    BY <1>2, <2>2
  <2> QED BY <1>4, <2>1, <2>2, <2>3 DEF FileRead
<1>5. FilesSoFar'
  <2>1. Len(past) \in scan.from .. Len(past)
    BY <1>1
  <2>2. ASSUME scan.phase = "files", NEW p \in Listed(scan.before), p < scan.at PROVE FileRead(p, Len(past))'
    BY <1>4, <2>1, <2>2 DEF Reader, FilesSoFar
  <2>3. ASSUME scan.phase = "files", scan.at \in Listed(scan.before), scan.step = "check"
        PROVE  \E i \in scan.from .. Len(past') :
                 scan.stamp[scan.at] <= i /\ past'[i].content[scan.at] = scan.content[scan.at]
    <3>1. PICK i \in scan.from .. Len(past) :
            scan.stamp[scan.at] <= i /\ past[i].content[scan.at] = scan.content[scan.at]
      BY <2>3 DEF Reader, FilesSoFar
    <3> QED BY <1>2, <3>1
  <2>4. ASSUME scan.phase = "files", scan.at \in Listed(scan.before), scan.step # "stat"
        PROVE  scan.stamp[scan.at] \in 1 .. Len(past')
    BY <1>1, <2>4 DEF Reader, FilesSoFar
  <2> QED BY <2>2, <2>3, <2>4 DEF FilesSoFar, Listed
<1>6. ReadOnce'
  <2> SUFFICES ASSUME scan.phase \in {"after", "final"} PROVE \E m \in scan.from .. Len(past') : OneMoment(m)'
    BY DEF ReadOnce
  <2>1. PICK m \in scan.from .. Len(past) : OneMoment(m)
    BY DEF Reader, ReadOnce
  <2>2. OneMoment(m)'
    <3>1. ASSUME NEW p \in Listed(scan.before) PROVE FileRead(p, m)'
      BY <1>4, <2>1 DEF OneMoment
    <3>2. past'[m] = past[m]
      BY <1>2
    <3> QED BY <2>1, <3>1, <3>2 DEF OneMoment, Listed
  <2> QED BY <1>2, <2>2
<1> QED BY <1>3, <1>5, <1>6 DEF Reader, Scans

\* So does what a finished capture says.
LEMMA CaptureKept ==
  ASSUME History, Grows, NEW c, CaptureTrue(c) PROVE CaptureTrue(c)'
<1>1. /\ Len(past) \in Nat \ {0} /\ Len(past') \in Nat /\ Len(past) <= Len(past')
      /\ c.from \in 1 .. Len(past) /\ c.to \in c.from .. Len(past)
  BY PastIsTyped DEF Grows, CaptureTrue
<1>2. \A i \in c.from .. c.to : i \in 1 .. Len(past) /\ past'[i] = past[i]
  BY <1>1 DEF Grows
<1>3. c.from \in 1 .. Len(past') /\ c.to \in c.from .. Len(past')
  BY <1>1
<1>4. ASSUME c.reason = "none"
      PROVE  \E i \in c.from .. c.to :
               /\ \A p \in Present(c) : past'[i].content[p] = c.digest.content[p]
               /\ c.changed = {} => \E j \in c.from .. c.to : \A p \in Listed(c.digest) :
                    past'[i].content[p] = past'[j].trees[past'[j].head][p]
  <2>1. PICK i \in c.from .. c.to :
          /\ \A p \in Present(c) : past[i].content[p] = c.digest.content[p]
          /\ c.changed = {} => \E j \in c.from .. c.to : \A p \in Listed(c.digest) :
               past[i].content[p] = past[j].trees[past[j].head][p]
    BY <1>4 DEF CaptureTrue
  <2> QED BY <1>2, <2>1
<1>5. ASSUME c.reason = "none"
      PROVE  /\ \A p \in Listed(c.digest) : \E i \in c.from .. c.to : past'[i].content[p] = c.digest.content[p]
             /\ \E i \in c.from .. c.to : past'[i].head = c.head
             /\ \E i \in c.from .. c.to : past'[i].index = c.digest.index
             /\ \E i \in c.from .. c.to : Untracked(past'[i]) = c.digest.untracked
  BY <1>2, <1>5 DEF CaptureTrue
<1> QED BY <1>3, <1>4, <1>5 DEF CaptureTrue, Present, Listed, Untracked

-----------------------------------------------------------------------------
(* The reader goes on.                                                       *)

\* A new attempt has read nothing.
LEMMA NewAttempt ==
  ASSUME History, NEW n \in {1, 2}, scan' = Attempt(n), UNCHANGED past PROVE Reader'
<1>1. Len(past) \in Nat \ {0}
  BY PastIsTyped
<1>2. Nothing \in [Names -> Readings]
  <2>1. Unread \in Readings
    BY DEF Readings
  <2> HIDE DEF Readings
  <2> QED BY <2>1 DEF Nothing, Names
<1>3. Attempt(n) \in Scans
  BY <1>1, <1>2 DEF Attempt, Scans
<1>4. /\ scan'.phase = "before" /\ scan'.at = 1 /\ scan'.step = "stat" /\ scan'.from = Len(past)
      /\ scan'.content = [p \in Paths |-> Unread] /\ scan'.stamp = [p \in Paths |-> 0]
  BY DEF Attempt
<1>5. \A c : ~WasRead(c)'
  BY <1>4 DEF WasRead
<1>6. Inventoried'
  BY <1>1, <1>4, <1>5 DEF Inventoried
<1> QED BY <1>3, <1>4, <1>6 DEF Reader, FilesSoFar, ReadOnce

LEMMA AppendToOne ==
  ASSUME NEW a, NEW b PROVE Append(<<a>>, b) = <<a, b>>
<1> DEFINE S == {a, b}  s == Append(<<a>>, b)  t == <<a, b>>
<1>1. s \in Seq(S) /\ t \in Seq(S) /\ Len(s) = 2 /\ Len(t) = 2
  OBVIOUS
<1>2. s[1] = a /\ s[2] = b /\ t[1] = a /\ t[2] = b
  OBVIOUS
<1>3. \A i \in 1 .. Len(s) : s[i] = t[i]
  BY <1>1, <1>2
<1>4. s = t
  <2> HIDE DEF S, s, t
  <2> QED BY <1>1, <1>3, SeqEqual
<1> QED BY <1>4 DEF s, t

\* A capture that is over is recorded, and the next one starts.
LEMMA CaptureEnds ==
  ASSUME CaptureInv, verdict = "none", NEW c, c.from = scan.from, c.to = Len(past), CaptureTrue(c), EndCapture(c)
  PROVE  CaptureInv'
<1>1. Len(past) \in Nat \ {0} /\ UNCHANGED <<past, bound>> /\ captures' = Append(captures, c)
  BY PastIsTyped DEF EndCapture, CaptureInv
<1>2. History' /\ CaptureTrue(c)' /\ Grows
  BY <1>1, CaptureKept DEF History, Since, Grows, CaptureInv
<1>3. CASE captures = << >>
  <2>1. captures' = <<c>> /\ DOMAIN captures' = {1} /\ captures'[1] = c
    BY <1>1, <1>3
  <2>2. CASE bound
    <3>1. scan' = Attempt(1) /\ UNCHANGED verdict
      BY <1>3, <2>2 DEF EndCapture
    <3>2. Reader' /\ scan'.from = Len(past)
      BY <1>1, <3>1, NewAttempt DEF CaptureInv, Attempt
    <3> QED BY <1>1, <1>2, <2>1, <3>1, <3>2 DEF CaptureInv, Reported
  <2>3. CASE ~bound
    <3>1. verdict' = "not stored"
      BY <1>3, <2>3 DEF EndCapture
    <3> QED BY <1>1, <1>2, <2>1, <3>1 DEF CaptureInv, Reported
  <2> QED BY <2>2, <2>3
<1>4. CASE captures # << >>
  <2>0. PICK stored : stored = captures[1]
    OBVIOUS
  <2>1. captures = <<stored>> /\ stored.to <= scan.from /\ CaptureTrue(stored)
    BY <1>4, <2>0 DEF CaptureInv, Reported
  <2>2. captures' = <<stored, c>>
    BY <1>1, <2>1, AppendToOne
  <2>3. captures'[1] = stored /\ captures'[2] = c /\ DOMAIN captures' = {1, 2}
    BY <2>2
  <2>4. CaptureTrue(stored)'
    BY <1>2, <2>1, CaptureKept DEF CaptureInv
  <2>5. verdict' = Compare(stored, c)
    BY <1>4, <2>0 DEF EndCapture
  <2>6. verdict' # "none" /\ (verdict' \in {"matched", "drifted"} =>
          /\ bound /\ stored.reason = "none" /\ c.reason = "none"
          /\ verdict' = "drifted" <=> (stored.head # c.head \/ stored.digest # c.digest))
    BY <2>5 DEF Compare
  <2> QED BY <1>1, <1>2, <2>1, <2>2, <2>3, <2>4, <2>6 DEF CaptureInv, Reported
<1> QED BY <1>3, <1>4

\* A step that goes on with the same capture leaves the rest alone.
LEMMA CaptureGoesOn ==
  ASSUME CaptureInv, verdict = "none", UNCHANGED <<past, bound, captures, verdict>>,
         Reader', scan'.from \in scan.from .. Len(past)
  PROVE  CaptureInv'
<1>1. Len(past) \in Nat \ {0} /\ scan.from \in 1 .. Len(past)
  BY PastIsTyped DEF CaptureInv, Reader, Inventoried
<1>2. History' /\ \A c : CaptureTrue(c) => CaptureTrue(c)'
  BY CaptureKept, <1>1 DEF History, Since, Grows, CaptureInv
<1>3. ASSUME captures = <<captures[1]>> PROVE captures[1].to \in Nat
  <2>1. CaptureTrue(captures[1])
    BY <1>3 DEF CaptureInv, Reported
  <2>2. captures[1].from \in 1 .. Len(past) /\ captures[1].to \in captures[1].from .. Len(past)
    BY <2>1 DEF CaptureTrue
  <2> QED BY <1>1, <2>2
<1>4. Reported'
  BY <1>1, <1>2, <1>3 DEF CaptureInv, Reported
<1> QED BY <1>2, <1>4 DEF CaptureInv

LEMMA FailureIsTrue ==
  ASSUME CaptureInv, verdict = "none", NEW reason, reason # "none"
  PROVE  /\ Fail(reason) => CaptureInv'
         /\ EndCapture(Incomplete(reason)) => CaptureInv'
<1>1. Len(past) \in Nat \ {0} /\ scan.from \in 1 .. Len(past)
  BY PastIsTyped DEF CaptureInv, Reader, Inventoried
<1>2. ASSUME EndCapture(Incomplete(reason)) PROVE CaptureInv'
  <2> DEFINE c == Incomplete(reason)
  <2>1. c.from = scan.from /\ c.to = Len(past) /\ c.reason = reason
    BY DEF Incomplete
  <2>2. CaptureTrue(c)
    BY <1>1, <2>1 DEF CaptureTrue
  <2> HIDE DEF c
  <2> QED BY <1>2, <2>1, <2>2, CaptureEnds DEF c
<1>3. ASSUME Fail(reason) PROVE CaptureInv'
  <2>1. CASE reason = "RACED" /\ scan.attempt = 1
    <3>1. scan' = Attempt(2) /\ UNCHANGED <<past, bound, captures, verdict>> /\ scan'.from = Len(past)
      BY <1>3, <2>1 DEF Fail, Continue, Attempt
    <3> QED BY <1>1, <3>1, NewAttempt, CaptureGoesOn DEF CaptureInv
  <2>2. CASE ~(reason = "RACED" /\ scan.attempt = 1)
    BY <1>2, <1>3, <2>2 DEF Fail
  <2> QED BY <2>1, <2>2
<1> QED BY <1>2, <1>3

\* What the reader's state is while a capture goes on.
LEMMA ReaderIsTyped ==
  ASSUME CaptureInv, verdict = "none"
  PROVE  /\ History /\ Reader /\ Len(past) \in Nat \ {0} /\ scan.from \in 1 .. Len(past)
         /\ Now = past[Len(past)] /\ Len(past) \in scan.from .. Len(past) /\ N \in Nat \ {0}
         /\ scan \in Scans /\ scan.at \in Nat /\ scan.before \in [Names -> Readings]
         /\ scan.content \in [Paths -> Contents \cup {Absent, Unread}] /\ scan.stamp \in [Paths -> Nat]
         /\ Now.content \in Trees /\ Now.index \in Trees /\ Now.head \in Nat /\ Now.stamp \in [Paths -> Nat]
         /\ Now.trees[Now.head] \in Trees /\ \A p \in Paths : Since(Len(past), p)
BY PastIsTyped, CaptureAssumption DEF CaptureInv, Reader, Inventoried, Scans

\* The first inventory notes what each command printed.
LEMMA InventoryIsTrue == ASSUME CaptureInv, Inventory PROVE CaptureInv'
<1> verdict = "none" /\ scan.phase = "before"
  BY DEF Inventory, Reading
<1> USE ReaderIsTyped
<1> DEFINE c0 == Commands[scan.at]
<1>1. scan.at \in 1 .. 4 /\ scan.step = "stat"
  BY DEF Reader, Inventoried
<1>2. /\ Commands[1] = "head" /\ Commands[2] = "tree" /\ Commands[3] = "index" /\ Commands[4] = "untracked"
      /\ c0 \in Names /\ \A k \in 1 .. 4 : Commands[k] = c0 => k = scan.at
  BY <1>1 DEF Commands, Names
<1>3. Output(c0) = OutputOf(past[Len(past)], c0)
  BY <1>2 DEF Output, OutputOf, Names
<1>4. Output(c0) \in Readings
  <2>1. Untracked(Now) \in SUBSET Paths
    BY DEF Untracked
  <2> QED BY <1>2, <2>1 DEF Output, Readings, Names
<1>5. /\ scan'.before = [scan.before EXCEPT ![c0] = Output(c0)]
      /\ scan'.at = (IF scan.at = 4 THEN 1 ELSE scan.at + 1)
      /\ scan'.phase = (IF scan.at = 4 THEN "files" ELSE "before")
      /\ scan'.step = scan.step /\ scan'.content = scan.content /\ scan'.stamp = scan.stamp
      /\ scan'.from = scan.from /\ scan' \in Scans /\ UNCHANGED <<past, bound, captures, verdict>>
  <2> HIDE DEF c0
  <2>1. [scan.before EXCEPT ![c0] = Output(c0)] \in [Names -> Readings]
    BY <1>2, <1>4
  <2>2. scan' = [scan EXCEPT !.before = [scan.before EXCEPT ![c0] = Output(c0)],
                             !.at = IF scan.at = 4 THEN 1 ELSE scan.at + 1,
                             !.phase = IF scan.at = 4 THEN "files" ELSE scan.phase]
        /\ UNCHANGED <<past, bound, captures, verdict>>
    BY DEF Inventory, Continue, Scans, c0
  <2>3. (IF scan.at = 4 THEN 1 ELSE scan.at + 1) \in Nat
        /\ (IF scan.at = 4 THEN "files" ELSE scan.phase) \in {"before", "files"}
    BY <1>1
  <2> DEFINE before == [scan.before EXCEPT ![c0] = Output(c0)]
             at == IF scan.at = 4 THEN 1 ELSE scan.at + 1
             phase == IF scan.at = 4 THEN "files" ELSE scan.phase
  <2>4. scan' = [scan EXCEPT !.before = before, !.at = at, !.phase = phase]
    BY <2>2
  <2>5. before \in [Names -> Readings] /\ at \in Nat /\ phase \in {"before", "files"}
    BY <2>1, <2>3
  <2>6. /\ scan'.before = before /\ scan'.at = at /\ scan'.phase = phase
        /\ scan'.step = scan.step /\ scan'.content = scan.content /\ scan'.stamp = scan.stamp
        /\ scan'.from = scan.from /\ scan' \in Scans
    <3> HIDE DEF before, at, phase
    <3> QED BY <2>4, <2>5 DEF Scans
  <2> QED BY <2>2, <2>6
<1>6. ASSUME NEW c \in Names, WasRead(c)'
      PROVE  \E i \in scan.from .. Len(past) : scan'.before[c] = OutputOf(past[i], c)
  <2>1. CASE c = c0
    <3>1. scan'.before[c] = OutputOf(past[Len(past)], c)
      <4> HIDE DEF c0
      <4> QED BY <1>2, <1>3, <1>5, <2>1
    <3> QED BY <3>1
  <2>2. CASE c # c0
    <3>1. scan'.before[c] = scan.before[c]
      <4> HIDE DEF c0
      <4> QED BY <1>5, <2>2
    <3>2. WasRead(c)
      <4>1. PICK k \in 1 .. 4 : Commands[k] = c /\ k # scan.at
        BY <1>2, <2>2 DEF Names
      <4>2. CASE scan.at = 4
        <5>1. k < scan.at
          BY <4>1, <4>2
        <5> QED BY <4>1, <5>1 DEF WasRead
      <4>3. CASE scan.at # 4
        <5>1. PICK l \in 1 .. 4 : l < scan.at + 1 /\ Commands[l] = c
          BY <1>5, <1>6, <4>3 DEF WasRead
        <5>2. l < scan.at
          BY <1>1, <2>2, <5>1
        <5> QED BY <5>1, <5>2 DEF WasRead
      <4> QED BY <4>2, <4>3
    <3> QED BY <3>1, <3>2 DEF Reader, Inventoried
  <2> QED BY <2>1, <2>2
<1>7. ASSUME NEW p \in Paths PROVE scan.content[p] = Unread /\ scan.stamp[p] = 0
  BY DEF Reader, Inventoried, NotYet
<1>8. ASSUME NEW c, NEW i \in 1 .. Len(past) PROVE OutputOf(past[i], c)' = OutputOf(past[i], c)
  BY <1>5 DEF OutputOf, Untracked
<1>9. Inventoried'
  BY <1>1, <1>5, <1>6, <1>7, <1>8 DEF Inventoried, Paths
<1>10. FilesSoFar' /\ ReadOnce'
  <2>1. ASSUME scan'.phase = "files" PROVE Listed(scan.before)' \subseteq Paths
    <3>1. WasRead("untracked")' /\ "untracked" \in Names
      BY <2>1 DEF WasRead, Names
    <3>2. PICK i \in scan.from .. Len(past) : scan'.before["untracked"] = OutputOf(past[i], "untracked")
      BY <1>6, <3>1
    <3>3. scan'.before.untracked \subseteq Paths
      BY <3>2 DEF OutputOf, Untracked
    <3> QED BY <3>3 DEF Listed
  <2>2. \A p \in Paths : ~(p < 1)
    BY DEF Paths
  <2> QED BY <1>1, <1>5, <2>1, <2>2 DEF FilesSoFar, ReadOnce
<1> QED BY <1>5, <1>9, <1>10, CaptureGoesOn DEF Reader

\* Once the inventory is read, what it lists are paths.
LEMMA ListedArePaths ==
  ASSUME CaptureInv, verdict = "none", scan.phase # "before"
  PROVE  /\ Listed(scan.before) \subseteq Paths /\ scan.before.untracked \subseteq Paths
         /\ \A c \in Names : \E i \in scan.from .. Len(past) : scan.before[c] = OutputOf(past[i], c)
<1> USE ReaderIsTyped
<1>1. \A c \in Names : \E i \in scan.from .. Len(past) : scan.before[c] = OutputOf(past[i], c)
  BY DEF Reader, Inventoried, WasRead
<1>2. PICK i \in scan.from .. Len(past) : scan.before["untracked"] = OutputOf(past[i], "untracked")
  BY <1>1 DEF Names
<1>3. scan.before.untracked \subseteq Paths
  BY <1>2 DEF OutputOf, Untracked
<1> QED BY <1>1, <1>3 DEF Listed

\* A step among the files leaves the inventory alone.
LEMMA FileStep ==
  ASSUME CaptureInv, verdict = "none", UNCHANGED <<past, bound, captures, verdict>>,
         scan.phase # "before", scan' \in Scans, scan'.phase # "before",
         scan'.before = scan.before, scan'.from = scan.from,
         scan'.at \in 1 .. (IF scan'.phase = "after" THEN 4 ELSE N + 1),
         \A p \in Paths : scan'.content[p] # Unread => p \in Listed(scan.before),
         \A p \in Paths : NotYet(p)' => scan'.stamp[p] = 0,
         FilesSoFar', ReadOnce'
  PROVE  CaptureInv'
<1> USE ReaderIsTyped
<1>1. ASSUME NEW c, NEW i \in 1 .. Len(past) PROVE OutputOf(past[i], c)' = OutputOf(past[i], c)
  BY DEF OutputOf, Untracked
<1>2. \A c \in Names : \E i \in scan.from .. Len(past) : scan.before[c] = OutputOf(past[i], c)
  BY ListedArePaths
<1>3. \A c \in Names : \E i \in scan'.from .. Len(past') : scan'.before[c] = OutputOf(past[i], c)'
  BY <1>1, <1>2
<1>4. Inventoried'
  BY <1>3 DEF Inventoried, Scans, Listed
<1> QED BY <1>4, CaptureGoesOn DEF Reader

LEMMA PassOverIsTrue == ASSUME CaptureInv, PassOver PROVE CaptureInv'
<1> verdict = "none" /\ scan.phase = "files" /\ scan.at \in Paths \ Listed(scan.before)
  BY DEF PassOver, Reading, Skip
<1> USE ReaderIsTyped
<1>1. /\ scan' = [scan EXCEPT !.at = scan.at + 1, !.step = "stat"]
      /\ UNCHANGED <<past, bound, captures, verdict>>
  BY DEF PassOver, Continue, NextPath, Scans
<1>2. /\ scan'.at = scan.at + 1 /\ scan'.step = "stat" /\ scan'.phase = "files" /\ scan' \in Scans
      /\ scan'.before = scan.before /\ scan'.from = scan.from
      /\ scan'.content = scan.content /\ scan'.stamp = scan.stamp
  <2> DEFINE at == scan.at + 1
  <2>1. at \in Nat
    OBVIOUS
  <2> HIDE DEF at
  <2>2. scan' = [scan EXCEPT !.at = at, !.step = "stat"]
    BY <1>1 DEF at
  <2>3. /\ scan'.at = at /\ scan'.step = "stat" /\ scan'.phase = "files" /\ scan' \in Scans
        /\ scan'.before = scan.before /\ scan'.from = scan.from
        /\ scan'.content = scan.content /\ scan'.stamp = scan.stamp
    BY <2>1, <2>2 DEF Scans
  <2> QED BY <2>3 DEF at
<1>3. FilesSoFar'
  <2>1. ASSUME NEW p \in Listed(scan.before), p < scan.at + 1 PROVE FileRead(p, Len(past))'
    <3>1. p \in Paths /\ p < scan.at
      BY <2>1, ListedArePaths DEF Paths
    <3>2. FileRead(p, Len(past))
      BY <3>1 DEF Reader, FilesSoFar
    <3> QED BY <1>1, <1>2, <3>2 DEF FileRead
  <2> QED BY <1>2, <2>1 DEF FilesSoFar, Listed
<1>4. \A p \in Paths : /\ scan.content[p] # Unread => p \in Listed(scan.before)
                       /\ NotYet(p)' => scan.stamp[p] = 0
  BY <1>2 DEF Reader, Inventoried, NotYet, Paths
<1>5. ReadOnce' /\ scan'.at \in 1 .. N + 1
  BY <1>2 DEF ReadOnce, Paths
<1> QED BY <1>1, <1>2, <1>3, <1>4, <1>5, FileStep

\* A file that is there is noted with its stamp; one that is not is noted as
\* missing, unless the list of untracked files has just named it.
LEMMA StatIsTrue == ASSUME CaptureInv, Stat PROVE CaptureInv'
<1> verdict = "none" /\ scan.phase = "files" /\ scan.at \in Listed(scan.before) /\ scan.step = "stat"
  BY DEF Stat, AtFile, Reading
<1> USE ReaderIsTyped, ListedArePaths
<1> DEFINE q == scan.at
<1>1. q \in Paths /\ q \in Nat /\ Now.stamp[q] \in Nat /\ q \in 1 .. N
  BY DEF Paths
<1>2. CASE Now.content[q] # Absent
  <2>1. /\ scan' = [scan EXCEPT !.stamp = [scan.stamp EXCEPT ![q] = Now.stamp[q]], !.step = "open"]
        /\ UNCHANGED <<past, bound, captures, verdict>>
    BY <1>2 DEF Stat, Continue, Scans
  <2>2. [scan.stamp EXCEPT ![q] = Now.stamp[q]] \in [Paths -> Nat]
    BY <1>1
  <2>3. /\ scan'.at = q /\ scan'.step = "open" /\ scan'.phase = "files" /\ scan' \in Scans
        /\ scan'.before = scan.before /\ scan'.from = scan.from /\ scan'.content = scan.content
        /\ scan'.stamp = [scan.stamp EXCEPT ![q] = Now.stamp[q]]
    BY <2>1, <2>2 DEF Scans
  <2>4. Now.stamp[q] \in 1 .. Len(past)
    BY <1>1, <1>2 DEF Since
  <2>5. FilesSoFar'
    <3>1. ASSUME NEW p \in Listed(scan.before), p < q PROVE FileRead(p, Len(past))'
      <4>1. FileRead(p, Len(past)) /\ p # q /\ p \in Paths
        BY <1>1, <3>1 DEF Reader, FilesSoFar
      <4>2. scan'.stamp[p] = scan.stamp[p]
        BY <2>3, <4>1
      <4> QED BY <2>1, <2>3, <4>1, <4>2 DEF FileRead
    <3>2. scan'.stamp[q] \in 1 .. Len(past')
      BY <1>1, <2>1, <2>3, <2>4
    <3> QED BY <2>3, <3>1, <3>2 DEF FilesSoFar, Listed
  <2>6. \A p \in Paths : /\ scan.content[p] # Unread => p \in Listed(scan.before)
                         /\ NotYet(p)' => scan'.stamp[p] = 0
    BY <1>1, <2>3 DEF Reader, Inventoried, NotYet, Paths
  <2>7. ReadOnce' /\ scan'.at \in 1 .. N + 1
    BY <1>1, <2>3 DEF ReadOnce
  <2> QED BY <2>1, <2>3, <2>5, <2>6, <2>7, FileStep
<1>3. CASE Now.content[q] = Absent /\ q \in scan.before.untracked
  BY <1>3, FailureIsTrue DEF Stat
<1>4. CASE Now.content[q] = Absent /\ q \notin scan.before.untracked
  <2>1. /\ scan' = [scan EXCEPT !.content = [scan.content EXCEPT ![q] = Absent], !.at = scan.at + 1, !.step = "stat"]
        /\ UNCHANGED <<past, bound, captures, verdict>>
    BY <1>4 DEF Stat, Continue, NextPath, Scans
  <2>2. [scan.content EXCEPT ![q] = Absent] \in [Paths -> Contents \cup {Absent, Unread}]
    BY <1>1
  <2>3. /\ scan'.at = q + 1 /\ scan'.step = "stat" /\ scan'.phase = "files" /\ scan' \in Scans
        /\ scan'.before = scan.before /\ scan'.from = scan.from /\ scan'.stamp = scan.stamp
        /\ scan'.content = [scan.content EXCEPT ![q] = Absent]
    <3> DEFINE at == q + 1  content == [scan.content EXCEPT ![q] = Absent]
    <3>1. at \in Nat /\ content \in [Paths -> Contents \cup {Absent, Unread}]
      BY <1>1, <2>2
    <3>2. scan' = [scan EXCEPT !.content = content, !.at = at, !.step = "stat"]
      BY <2>1
    <3> HIDE DEF at, content
    <3>3. /\ scan'.at = at /\ scan'.step = "stat" /\ scan'.phase = "files" /\ scan' \in Scans
          /\ scan'.before = scan.before /\ scan'.from = scan.from /\ scan'.stamp = scan.stamp
          /\ scan'.content = content
      BY <3>1, <3>2 DEF Scans
    <3> QED BY <3>3 DEF at, content
  <2>4. scan.stamp[q] = 0 /\ Now.stamp[q] = 0
    BY <1>1, <1>4 DEF Reader, Inventoried, NotYet, Since
  <2>5. FilesSoFar'
    <3>1. ASSUME NEW p \in Listed(scan.before), p < q + 1 PROVE FileRead(p, Len(past))'
      <4>1. CASE p = q
        <5>1. scan'.content[q] = Absent /\ scan'.stamp[q] = 0
          BY <1>1, <2>3, <2>4
        <5>2. /\ Len(past) \in scan'.from .. Len(past') /\ past' = past
              /\ past[Len(past)].stamp[p] = scan'.stamp[p] /\ past[Len(past)].content[p] = scan'.content[p]
              /\ p \notin scan'.before.untracked
          BY <1>4, <2>1, <2>3, <2>4, <4>1, <5>1
        <5> QED BY <5>2 DEF FileRead
      <4>2. CASE p # q
        <5>1. FileRead(p, Len(past)) /\ p \in Paths
          BY <1>1, <3>1, <4>2 DEF Reader, FilesSoFar, Paths
        <5>2. scan'.content[p] = scan.content[p]
          BY <2>3, <4>2, <5>1
        <5> QED BY <2>1, <2>3, <5>1, <5>2 DEF FileRead
      <4> QED BY <4>1, <4>2
    <3> QED BY <2>3, <3>1 DEF FilesSoFar, Listed
  <2>6. \A p \in Paths : /\ scan'.content[p] # Unread => p \in Listed(scan.before)
                         /\ NotYet(p)' => scan'.stamp[p] = 0
    BY <1>1, <2>3 DEF Reader, Inventoried, NotYet, Paths
  <2>7. ReadOnce' /\ scan'.at \in 1 .. N + 1
    BY <1>1, <2>3 DEF ReadOnce
  <2> QED BY <2>1, <2>3, <2>5, <2>6, <2>7, FileStep
<1> QED BY <1>2, <1>3, <1>4

LEMMA OpenFileIsTrue == ASSUME CaptureInv, OpenFile PROVE CaptureInv'
<1> verdict = "none" /\ scan.phase = "files" /\ scan.at \in Listed(scan.before) /\ scan.step = "open"
  BY DEF OpenFile, AtFile, Reading
<1> USE ReaderIsTyped, ListedArePaths
<1> DEFINE q == scan.at
<1>1. q \in Paths /\ q \in Nat /\ q \in 1 .. N
  BY DEF Paths
<1>2. CASE Now.content[q] = Absent \/ Now.stamp[q] # scan.stamp[q]
  BY <1>2, FailureIsTrue DEF OpenFile
<1>3. CASE ~(Now.content[q] = Absent \/ Now.stamp[q] # scan.stamp[q])
  <2>1. scan' = [scan EXCEPT !.step = "read"] /\ UNCHANGED <<past, bound, captures, verdict>>
    BY <1>3 DEF OpenFile, Continue
  <2>2. /\ scan'.at = q /\ scan'.step = "read" /\ scan'.phase = "files" /\ scan' \in Scans
        /\ scan'.before = scan.before /\ scan'.from = scan.from /\ scan'.content = scan.content
        /\ scan'.stamp = scan.stamp
    BY <2>1 DEF Scans
  <2>3. FilesSoFar'
    <3>1. \A p \in Listed(scan.before) : p < q => FileRead(p, Len(past))'
      BY <2>1, <2>2 DEF Reader, FilesSoFar, FileRead
    <3> QED BY <2>1, <2>2, <3>1 DEF Reader, FilesSoFar, Listed
  <2>4. \A p \in Paths : /\ scan.content[p] # Unread => p \in Listed(scan.before)
                         /\ NotYet(p)' => scan.stamp[p] = 0
    BY <1>1, <2>2 DEF Reader, Inventoried, NotYet, Paths
  <2>5. ReadOnce' /\ scan'.at \in 1 .. N + 1
    BY <1>1, <2>2 DEF ReadOnce
  <2> QED BY <2>1, <2>2, <2>3, <2>4, <2>5, FileStep
<1> QED BY <1>2, <1>3

\* What is read is what the file holds at this moment, with a stamp that may
\* have been taken earlier.
LEMMA ReadFileIsTrue == ASSUME CaptureInv, ReadFile PROVE CaptureInv'
<1> verdict = "none" /\ scan.phase = "files" /\ scan.at \in Listed(scan.before) /\ scan.step = "read"
  BY DEF ReadFile, AtFile, Reading
<1> USE ReaderIsTyped, ListedArePaths
<1> DEFINE q == scan.at  content == [scan.content EXCEPT ![q] = Now.content[q]]
<1>1. q \in Paths /\ q \in Nat /\ q \in 1 .. N /\ Now.content[q] \in Contents \cup {Absent}
  BY DEF Paths, Trees
<1>2. scan' = [scan EXCEPT !.content = content, !.step = "check"] /\ UNCHANGED <<past, bound, captures, verdict>>
  BY DEF ReadFile, Continue, Scans
<1>3. content \in [Paths -> Contents \cup {Absent, Unread}]
  BY <1>1
<1>4. /\ scan'.at = q /\ scan'.step = "check" /\ scan'.phase = "files" /\ scan' \in Scans
      /\ scan'.before = scan.before /\ scan'.from = scan.from /\ scan'.stamp = scan.stamp
      /\ scan'.content = content
  <2> HIDE DEF content
  <2> QED BY <1>2, <1>3 DEF Scans
<1>5. content[q] = Now.content[q] /\ \A p \in Paths : p # q => content[p] = scan.content[p]
  BY <1>1
<1> HIDE DEF content
<1>6. FilesSoFar'
  <2>1. ASSUME NEW p \in Listed(scan.before), p < q PROVE FileRead(p, Len(past))'
    <3>1. FileRead(p, Len(past)) /\ p \in Paths /\ p # q
      BY <1>1, <2>1 DEF Reader, FilesSoFar
    <3>2. /\ scan'.content[p] = scan.content[p] /\ scan'.stamp = scan.stamp /\ past' = past
          /\ scan'.before = scan.before /\ scan'.from = scan.from
      BY <1>2, <1>4, <1>5, <3>1
    <3> QED BY <3>1, <3>2 DEF FileRead
  <2>2. scan.stamp[q] \in 1 .. Len(past)
    BY DEF Reader, FilesSoFar
  <2>3. \E i \in scan.from .. Len(past) : scan.stamp[q] <= i /\ past[i].content[q] = content[q]
    BY <1>5, <2>2
  <2> QED BY <1>2, <1>4, <2>1, <2>2, <2>3 DEF FilesSoFar, Listed
<1>7. \A p \in Paths : /\ content[p] # Unread => p \in Listed(scan.before)
                       /\ NotYet(p)' => scan.stamp[p] = 0
  BY <1>1, <1>4, <1>5 DEF Reader, Inventoried, NotYet, Paths
<1>8. ReadOnce' /\ scan'.at \in 1 .. N + 1
  BY <1>1, <1>4 DEF ReadOnce
<1> QED BY <1>2, <1>4, <1>6, <1>7, <1>8, FileStep

\* A file that still has its stamp after the read had that content throughout.
LEMMA CheckFileIsTrue == ASSUME CaptureInv, CheckFile PROVE CaptureInv'
<1> verdict = "none" /\ scan.phase = "files" /\ scan.at \in Listed(scan.before) /\ scan.step = "check"
  BY DEF CheckFile, AtFile, Reading
<1> USE ReaderIsTyped, ListedArePaths
<1> DEFINE q == scan.at
<1>1. q \in Paths /\ q \in Nat /\ q \in 1 .. N
  BY DEF Paths
<1>2. CASE Now.stamp[q] # scan.stamp[q]
  BY <1>2, FailureIsTrue DEF CheckFile
<1>3. CASE Now.stamp[q] = scan.stamp[q]
  <2>1. scan' = [scan EXCEPT !.at = scan.at + 1, !.step = "stat"] /\ UNCHANGED <<past, bound, captures, verdict>>
    BY <1>3 DEF CheckFile, Continue, NextPath, Scans
  <2>2. /\ scan'.at = q + 1 /\ scan'.step = "stat" /\ scan'.phase = "files" /\ scan' \in Scans
        /\ scan'.before = scan.before /\ scan'.from = scan.from /\ scan'.content = scan.content
        /\ scan'.stamp = scan.stamp
    <3> DEFINE at == q + 1
    <3>1. at \in Nat /\ scan' = [scan EXCEPT !.at = at, !.step = "stat"]
      BY <1>1, <2>1
    <3> HIDE DEF at
    <3>2. /\ scan'.at = at /\ scan'.step = "stat" /\ scan'.phase = "files" /\ scan' \in Scans
          /\ scan'.before = scan.before /\ scan'.from = scan.from /\ scan'.content = scan.content
          /\ scan'.stamp = scan.stamp
      BY <3>1 DEF Scans
    <3> QED BY <3>2 DEF at
  <2>3. FileRead(q, Len(past))
    <3> DEFINE s == scan.stamp[q]
    <3>1. s \in 1 .. Len(past)
      BY DEF Reader, FilesSoFar
    <3>2. PICK i \in scan.from .. Len(past) : s <= i /\ past[i].content[q] = scan.content[q]
      BY DEF Reader, FilesSoFar
    <3>3. Now.content[q] # Absent /\ \A k \in s .. Len(past) : past[k].stamp[q] = s /\ past[k].content[q] = Now.content[q]
      BY <1>1, <1>3, <3>1 DEF Since
    <3>4. past[i].stamp[q] = s /\ scan.content[q] = Now.content[q]
      <4>1. i \in s .. Len(past)
        BY <3>1, <3>2
      <4> QED BY <3>2, <3>3, <4>1
    <3> QED BY <3>2, <3>3, <3>4 DEF FileRead
  <2>4. FilesSoFar'
    <3>1. ASSUME NEW p \in Listed(scan.before), p < q + 1 PROVE FileRead(p, Len(past))'
      <4>1. FileRead(p, Len(past))
        <5>1. p = q \/ p < q
          BY <1>1, <3>1 DEF Paths
        <5> QED BY <2>3, <5>1 DEF Reader, FilesSoFar
      <4> QED BY <2>1, <2>2, <4>1 DEF FileRead
    <3> QED BY <2>2, <3>1 DEF FilesSoFar, Listed
  <2>5. \A p \in Paths : /\ scan.content[p] # Unread => p \in Listed(scan.before)
                         /\ NotYet(p)' => scan.stamp[p] = 0
    BY <1>1, <2>2 DEF Reader, Inventoried, NotYet, Paths
  <2>6. ReadOnce' /\ scan'.at \in 1 .. N + 1
    BY <1>1, <2>2 DEF ReadOnce
  <2> QED BY <2>1, <2>2, <2>4, <2>5, <2>6, FileStep
<1> QED BY <1>2, <1>3

\* The moment after the last file is the one all of them are tested against.
LEMMA InventoryAgainIsTrue == ASSUME CaptureInv, InventoryAgain PROVE CaptureInv'
<1> verdict = "none" /\ scan.phase \in {"files", "after"} /\ scan.phase # "before"
  BY DEF InventoryAgain, Reading
<1> USE ReaderIsTyped, ListedArePaths
<1>1. CASE scan.phase = "files" /\ scan.at = N + 1 /\ Continue([scan EXCEPT !.phase = "after", !.at = 1])
  <2>1. scan' = [scan EXCEPT !.phase = "after", !.at = 1] /\ UNCHANGED <<past, bound, captures, verdict>>
    BY <1>1 DEF Continue
  <2>2. /\ scan'.at = 1 /\ scan'.phase = "after" /\ scan' \in Scans
        /\ scan'.before = scan.before /\ scan'.from = scan.from /\ scan'.content = scan.content
        /\ scan'.stamp = scan.stamp
    BY <2>1 DEF Scans
  <2>3. ASSUME NEW p \in Listed(scan.before) PROVE FileRead(p, Len(past))
    <3>1. p < N + 1
      BY DEF Paths
    <3> QED BY <1>1, <3>1 DEF Reader, FilesSoFar
  <2>4. ReadOnce'
    <3>1. PICK m \in scan.from .. Len(past) : m = Len(past)
      OBVIOUS
    <3>2. ASSUME NEW p \in Listed(scan.before) PROVE FileRead(p, m)'
      <4>1. FileRead(p, m)
        BY <2>3, <3>1
      <4> QED BY <2>1, <2>2, <4>1 DEF FileRead
    <3>3. OneMoment(m)'
      BY <2>2, <3>2 DEF OneMoment, Listed
    <3> QED BY <2>1, <2>2, <3>1, <3>3 DEF ReadOnce
  <2>5. \A p \in Paths : /\ scan.content[p] # Unread => p \in Listed(scan.before)
                         /\ NotYet(p)' => scan.stamp[p] = 0
    BY <2>2 DEF Reader, Inventoried, NotYet
  <2> QED BY <2>1, <2>2, <2>4, <2>5, FileStep DEF FilesSoFar
<1>2. CASE scan.phase = "after"
  <2> DEFINE same == scan.same /\ Output(Commands[scan.at]) = scan.before[Commands[scan.at]]
  <2>1. same \in BOOLEAN /\ scan.at \in 1 .. 4
    BY <1>2 DEF Reader, Inventoried
  <2> HIDE DEF same
  <2>2. \A p \in Paths : scan.content[p] # Unread => p \in Listed(scan.before)
    BY DEF Reader, Inventoried
  <2>3. CASE scan.at < 4
    <3>1. scan' = [scan EXCEPT !.same = same, !.at = scan.at + 1] /\ UNCHANGED <<past, bound, captures, verdict>>
      BY <1>2, <2>3 DEF InventoryAgain, Reading, Continue, same, Scans
    <3>2. /\ scan'.at = scan.at + 1 /\ scan'.phase = "after" /\ scan' \in Scans
          /\ scan'.before = scan.before /\ scan'.from = scan.from /\ scan'.content = scan.content
          /\ scan'.stamp = scan.stamp
      <4> DEFINE at == scan.at + 1
      <4>1. at \in Nat /\ scan' = [scan EXCEPT !.same = same, !.at = at]
        BY <2>1, <3>1
      <4> HIDE DEF at
      <4>2. /\ scan'.at = at /\ scan'.phase = "after" /\ scan' \in Scans
            /\ scan'.before = scan.before /\ scan'.from = scan.from /\ scan'.content = scan.content
            /\ scan'.stamp = scan.stamp
        BY <1>2, <2>1, <4>1 DEF Scans
      <4> QED BY <4>2 DEF at
    <3>3. ReadOnce'
      <4>1. PICK m \in scan.from .. Len(past) : OneMoment(m)
        BY <1>2 DEF Reader, ReadOnce
      <4>2. OneMoment(m)'
        BY <3>1, <3>2, <4>1 DEF OneMoment, FileRead, Listed
      <4> QED BY <3>1, <3>2, <4>2 DEF ReadOnce
    <3>4. FilesSoFar' /\ (\A p \in Paths : ~NotYet(p)') /\ scan'.at \in 1 .. 4
      BY <2>1, <2>3, <3>2 DEF FilesSoFar, NotYet
    <3> QED BY <2>2, <3>1, <3>2, <3>3, <3>4, FileStep
  <2>4. CASE scan.at = 4 /\ ~same
    BY <1>2, <2>4, FailureIsTrue DEF InventoryAgain, Reading, same
  <2>5. CASE scan.at = 4 /\ same
    <3>1. scan' = [scan EXCEPT !.phase = "final", !.at = 1] /\ UNCHANGED <<past, bound, captures, verdict>>
      BY <1>2, <2>5 DEF InventoryAgain, Reading, Continue, same
    <3>2. /\ scan'.at = 1 /\ scan'.phase = "final" /\ scan' \in Scans
          /\ scan'.before = scan.before /\ scan'.from = scan.from /\ scan'.content = scan.content
          /\ scan'.stamp = scan.stamp
      BY <3>1 DEF Scans
    <3>3. ReadOnce'
      <4>1. PICK m \in scan.from .. Len(past) : OneMoment(m)
        BY <1>2 DEF Reader, ReadOnce
      <4>2. \A p \in Listed(scan.before) : FileRead(p, m)' /\ ~(p < 1)
        BY <3>1, <3>2, <4>1 DEF OneMoment, FileRead, Paths
      <4>3. OneMoment(m)'
        BY <3>2, <4>2 DEF OneMoment, Listed
      <4> QED BY <3>1, <3>2, <4>3 DEF ReadOnce
    <3>4. FilesSoFar' /\ (\A p \in Paths : ~NotYet(p)') /\ scan'.at \in 1 .. N + 1
      BY <3>2 DEF FilesSoFar, NotYet
    <3> QED BY <2>2, <3>1, <3>2, <3>3, <3>4, FileStep
  <2> QED BY <2>1, <2>3, <2>4, <2>5
<1> QED BY <1>1, <1>2 DEF InventoryAgain, Reading

\* What a capture says when every file has been found as it was read.
LEMMA CompleteIsTrue ==
  ASSUME CaptureInv, verdict = "none", scan.phase = "final", scan.at = N + 1
  PROVE  CaptureTrue(Complete)
<1> scan.phase # "before"
  OBVIOUS
<1> USE ReaderIsTyped, ListedArePaths
<1>1. PICK c : c = Complete
  OBVIOUS
<1>2. /\ c.reason = "none" /\ c.head = scan.before.head /\ c.from = scan.from /\ c.to = Len(past)
      /\ c.digest = [head |-> scan.before.head, index |-> scan.before.index,
                     untracked |-> scan.before.untracked, content |-> scan.content]
      /\ c.changed = ChangedFiles
  BY <1>1 DEF Complete
<1>3. /\ c.digest.index = scan.before.index /\ c.digest.untracked = scan.before.untracked
      /\ c.digest.content = scan.content /\ c.digest.head = scan.before.head
  BY <1>2
<1>4. Listed(c.digest) = Listed(scan.before)
  BY <1>3 DEF Listed
<1>5. PICK m \in scan.from .. Len(past) : OneMoment(m)
  BY DEF Reader, ReadOnce
<1>6. ASSUME NEW p \in Listed(scan.before)
      PROVE  /\ \E i \in scan.from .. Len(past) : past[i].content[p] = scan.content[p]
             /\ scan.content[p] = Absent => p \notin scan.before.untracked
             /\ scan.content[p] # Absent => past[m].content[p] = scan.content[p]
  <2>1. FileRead(p, m) /\ p < scan.at
    BY <1>5 DEF OneMoment, Paths
  <2>2. PICK i \in scan.from .. m : past[i].content[p] = scan.content[p]
    BY <2>1 DEF FileRead
  <2> QED BY <1>5, <2>1, <2>2 DEF OneMoment, FileRead
<1>7. "head" \in Names /\ "tree" \in Names /\ "index" \in Names /\ "untracked" \in Names
  BY DEF Names
<1>8. /\ \E i \in scan.from .. Len(past) : past[i].head = scan.before.head
      /\ \E i \in scan.from .. Len(past) : past[i].index = scan.before.index
      /\ \E i \in scan.from .. Len(past) : Untracked(past[i]) = scan.before.untracked
      /\ \E i \in scan.from .. Len(past) : past[i].trees[past[i].head] = scan.before.tree
  <2>1. PICK i \in scan.from .. Len(past) : scan.before["head"] = OutputOf(past[i], "head")
    BY <1>7
  <2>2. PICK j \in scan.from .. Len(past) : scan.before["index"] = OutputOf(past[j], "index")
    BY <1>7
  <2>3. PICK k \in scan.from .. Len(past) : scan.before["untracked"] = OutputOf(past[k], "untracked")
    BY <1>7
  <2>4. PICK l \in scan.from .. Len(past) : scan.before["tree"] = OutputOf(past[l], "tree")
    BY <1>7
  <2>5. past[i].head = scan.before.head
    BY <2>1 DEF OutputOf
  <2>6. past[j].index = scan.before.index
    BY <2>2 DEF OutputOf
  <2>7. Untracked(past[k]) = scan.before.untracked
    BY <2>3 DEF OutputOf
  <2>8. past[l].trees[past[l].head] = scan.before.tree
    BY <2>4 DEF OutputOf
  <2> QED BY <2>5, <2>6, <2>7, <2>8
<1>9. ASSUME c.changed = {}
      PROVE  \E j \in scan.from .. Len(past) : \A p \in Listed(scan.before) :
               past[m].content[p] = past[j].trees[past[j].head][p]
  <2>1. PICK j \in scan.from .. Len(past) : past[j].trees[past[j].head] = scan.before.tree
    BY <1>8
  <2>2. ASSUME NEW p \in Listed(scan.before) PROVE past[m].content[p] = scan.before.tree[p]
    <3>1. scan.before.index[p] = scan.before.tree[p] /\ scan.content[p] = scan.before.index[p]
      BY <1>2, <1>9 DEF ChangedFiles
    <3>2. scan.content[p] # Absent
      BY <1>6, <3>1 DEF Listed
    <3> QED BY <1>6, <3>1, <3>2
  <2> QED BY <2>1, <2>2
<1>10. \A p \in Paths \ Listed(scan.before) : scan.content[p] = Unread
  BY DEF Reader, Inventoried
<1>11. \A p \in Present(c) : past[m].content[p] = scan.content[p]
  BY <1>3, <1>4, <1>6 DEF Present
<1>12. CaptureTrue(c)
  <2>1. /\ c.from \in 1 .. Len(past) /\ c.to \in c.from .. Len(past)
        /\ c.digest = [head |-> c.head, index |-> c.digest.index, untracked |-> c.digest.untracked,
                       content |-> c.digest.content]
        /\ c.digest.content \in [Paths -> Contents \cup {Absent, Unread}] /\ Listed(c.digest) \subseteq Paths
        /\ \A p \in Paths \ Listed(c.digest) : c.digest.content[p] = Unread
    BY <1>2, <1>3, <1>4, <1>10
  <2>2. /\ \A p \in Listed(c.digest) : \E i \in c.from .. c.to : past[i].content[p] = c.digest.content[p]
        /\ \E i \in c.from .. c.to : past[i].head = c.head
        /\ \E i \in c.from .. c.to : past[i].index = c.digest.index
        /\ \E i \in c.from .. c.to : Untracked(past[i]) = c.digest.untracked
    <3>1. ASSUME NEW p \in Listed(c.digest) PROVE \E i \in c.from .. c.to : past[i].content[p] = c.digest.content[p]
      BY <1>2, <1>3, <1>4, <1>6
    <3>2. \E i \in c.from .. c.to : past[i].head = c.head
      BY <1>2, <1>8
    <3>3. \E i \in c.from .. c.to : past[i].index = c.digest.index
      BY <1>2, <1>3, <1>8
    <3>4. \E i \in c.from .. c.to : Untracked(past[i]) = c.digest.untracked
      BY <1>2, <1>3, <1>8
    <3> QED BY <3>1, <3>2, <3>3, <3>4
  <2>3. /\ m \in c.from .. c.to /\ \A p \in Present(c) : past[m].content[p] = c.digest.content[p]
        /\ c.changed = {} => \E j \in c.from .. c.to : \A p \in Listed(c.digest) :
             past[m].content[p] = past[j].trees[past[j].head][p]
    BY <1>2, <1>3, <1>4, <1>9, <1>11
  <2> QED BY <2>1, <2>2, <2>3 DEF CaptureTrue
<1> QED BY <1>1, <1>12

LEMMA FinalCheckIsTrue == ASSUME CaptureInv, FinalCheck PROVE CaptureInv'
<1> verdict = "none" /\ scan.phase = "final" /\ scan.phase # "before"
  BY DEF FinalCheck, Reading
<1> USE ReaderIsTyped, ListedArePaths
<1> DEFINE q == scan.at
<1>1. q \in 1 .. N + 1
  BY DEF Reader, Inventoried
<1>2. CASE q = N + 1
  <2>1. PICK c : c = Complete
    OBVIOUS
  <2>2. c.from = scan.from /\ c.to = Len(past) /\ CaptureTrue(c) /\ EndCapture(c)
    BY <1>2, <2>1, CompleteIsTrue DEF Complete, FinalCheck
  <2> QED BY <2>2, CaptureEnds
<1>3. CASE q # N + 1 /\ q \in Listed(scan.before) /\ ~Unchanged(q)
  BY <1>3, FailureIsTrue DEF FinalCheck
<1>4. CASE q # N + 1 /\ (q \in Listed(scan.before) => Unchanged(q))
  <2>1. scan' = [scan EXCEPT !.at = scan.at + 1] /\ UNCHANGED <<past, bound, captures, verdict>>
    BY <1>4 DEF FinalCheck, Continue, Scans
  <2>2. /\ scan'.at = q + 1 /\ scan'.phase = "final" /\ scan' \in Scans
        /\ scan'.before = scan.before /\ scan'.from = scan.from /\ scan'.content = scan.content
        /\ scan'.stamp = scan.stamp
    <3> DEFINE at == q + 1
    <3>1. at \in Nat /\ scan' = [scan EXCEPT !.at = at]
      BY <1>1, <2>1
    <3> HIDE DEF at
    <3>2. /\ scan'.at = at /\ scan'.phase = "final" /\ scan' \in Scans
          /\ scan'.before = scan.before /\ scan'.from = scan.from /\ scan'.content = scan.content
          /\ scan'.stamp = scan.stamp
      BY <3>1 DEF Scans
    <3> QED BY <3>2 DEF at
  <2>3. PICK m \in scan.from .. Len(past) : OneMoment(m)
    BY DEF Reader, ReadOnce
  <2>4. ASSUME NEW p \in Listed(scan.before), p < q + 1, scan.content[p] # Absent
        PROVE  past[m].content[p] = scan.content[p]
    <3>1. CASE p < q
      BY <2>3, <2>4, <3>1 DEF OneMoment
    <3>2. CASE p = q
      <4> DEFINE s == scan.stamp[p]
      <4>1. PICK i \in scan.from .. m : past[i].stamp[p] = s /\ past[i].content[p] = scan.content[p]
        BY <2>3 DEF OneMoment, FileRead
      <4>2. i \in 1 .. Len(past) /\ i <= m /\ m <= Len(past)
        BY <2>3, <4>1
      <4>3. Since(i, p) /\ s \in Nat
        BY <4>2, PastIsTyped
      <4>4. s # 0 /\ s <= i
        BY <2>4, <4>1, <4>3 DEF Since
      <4>5. Now.stamp[p] = s
        BY <1>4, <3>2 DEF Unchanged
      <4>6. \A k \in s .. Len(past) : past[k].content[p] = Now.content[p]
        BY <4>4, <4>5 DEF Since
      <4>7. i \in s .. Len(past) /\ m \in s .. Len(past)
        BY <2>3, <4>2, <4>3, <4>4
      <4> QED BY <4>1, <4>6, <4>7
    <3> QED BY <1>1, <2>4, <3>1, <3>2 DEF Paths
  <2>5. OneMoment(m)'
    <3>1. \A p \in Listed(scan.before) : FileRead(p, m)'
      BY <2>1, <2>2, <2>3 DEF OneMoment, FileRead
    <3> QED BY <2>1, <2>2, <2>4, <3>1 DEF OneMoment, Listed
  <2>6. ReadOnce'
    BY <2>1, <2>2, <2>3, <2>5 DEF ReadOnce
  <2>7. /\ FilesSoFar' /\ (\A p \in Paths : ~NotYet(p)') /\ scan'.at \in 1 .. N + 1
        /\ \A p \in Paths : scan.content[p] # Unread => p \in Listed(scan.before)
    BY <1>1, <1>4, <2>2 DEF FilesSoFar, NotYet, Reader, Inventoried
  <2> QED BY <2>1, <2>2, <2>6, <2>7, FileStep
<1> QED BY <1>2, <1>3, <1>4

-----------------------------------------------------------------------------
(* The theorems.                                                             *)

LEMMA CaptureInitially == CaptureInit => CaptureInv
<1> SUFFICES ASSUME CaptureInit PROVE CaptureInv
  OBVIOUS
<1>1. PICK tracked \in {Paths, {1}}, c \in Contents :
        past = <<[content |-> [p \in Paths |-> c], stamp |-> [p \in Paths |-> 1],
                  index |-> [p \in Paths |-> IF p \in tracked THEN c ELSE Absent],
                  trees |-> <<[p \in Paths |-> IF p \in tracked THEN c ELSE Absent]>>, head |-> 1]>>
  BY DEF CaptureInit
<1>2. PICK tree : tree = [p \in Paths |-> IF p \in tracked THEN c ELSE Absent]
  OBVIOUS
<1>3. PICK content : content = [p \in Paths |-> c]
  OBVIOUS
<1>4. PICK stamp : stamp = [p \in Paths |-> 1]
  OBVIOUS
<1>5. PICK w : w = [content |-> content, stamp |-> stamp, index |-> tree, trees |-> <<tree>>, head |-> 1]
  OBVIOUS
<1>6. past = <<w>>
  BY <1>1, <1>2, <1>3, <1>4, <1>5
<1>7. tree \in Trees /\ content \in Trees /\ stamp \in [Paths -> Nat] /\ <<tree>> \in Seq(Trees)
  <2>1. tree \in Trees /\ content \in Trees /\ stamp \in [Paths -> Nat]
    BY <1>2, <1>3, <1>4 DEF Trees
  <2> QED BY <2>1
<1>8. w \in Worlds /\ w.head \in DOMAIN w.trees
  BY <1>5, <1>7 DEF Worlds
<1>9. past \in Seq(Worlds) /\ Len(past) = 1 /\ past[1] = w /\ DOMAIN past = {1} /\ past # << >>
  BY <1>6, <1>8
<1>10. ASSUME NEW p \in Paths PROVE Since(1, p)
  <2>1. w.stamp[p] = 1 /\ w.content[p] = c /\ c # Absent
    BY <1>3, <1>4, <1>5, CaptureAssumption
  <2> QED BY <1>9, <2>1 DEF Since
<1>11. History
  BY <1>8, <1>9, <1>10 DEF History
<1>12. Reader
  <2>1. scan = Attempt(1) /\ Len(past) = 1
    BY <1>9 DEF CaptureInit
  <2>2. Unread \in Readings
    BY DEF Readings
  <2>3. Nothing \in [Names -> Readings]
    <3> HIDE DEF Readings
    <3> QED BY <2>2 DEF Nothing, Names
  <2>4. scan \in Scans
    BY <2>1, <2>3 DEF Attempt, Scans
  <2>5. /\ scan.phase = "before" /\ scan.at = 1 /\ scan.step = "stat" /\ scan.from = 1
        /\ scan.content = [p \in Paths |-> Unread] /\ scan.stamp = [p \in Paths |-> 0]
    BY <2>1 DEF Attempt
  <2>6. \A a : ~WasRead(a)
    BY <2>5 DEF WasRead
  <2> QED BY <2>1, <2>4, <2>5, <2>6 DEF Reader, Inventoried, FilesSoFar, ReadOnce
<1> QED BY <1>11, <1>12 DEF CaptureInv, Reported, CaptureInit

LEMMA CaptureStep == CaptureInv /\ [CaptureNext]_captureVars => CaptureInv'
<1> SUFFICES ASSUME CaptureInv, [CaptureNext]_captureVars PROVE CaptureInv'
  OBVIOUS
<1>1. CASE Environment
  <2>1. History' /\ Grows /\ UNCHANGED <<scan, captures, verdict>> /\ verdict = "none"
    BY <1>1, EnvironmentIsHistory DEF CaptureInv
  <2>2. Reader'
    BY <2>1, ReaderKept DEF CaptureInv
  <2>3. Reported'
    BY <2>1, CaptureKept DEF CaptureInv, Reported
  <2> QED BY <2>1, <2>2, <2>3 DEF CaptureInv
<1>2. CASE GiveUp
  BY <1>2, FailureIsTrue DEF GiveUp
<1>3. CASE CallerAborts
  <2>1. History' /\ Grows /\ captures' = captures /\ verdict' = "cancelled"
    BY <1>3, PastIsTyped DEF CallerAborts, CaptureInv, History, Since, Grows
  <2>2. Reported'
    BY <1>3, <2>1, CaptureKept DEF CallerAborts, CaptureInv, Reported
  <2> QED BY <2>1, <2>2 DEF CaptureInv
<1>4. CASE UNCHANGED captureVars
  <2>1. History' /\ Grows /\ UNCHANGED <<past, bound, scan, captures, verdict>>
    BY <1>4, PastIsTyped DEF captureVars, CaptureInv, History, Since, Grows
  <2>2. verdict = "none" => Reader'
    BY <2>1, ReaderKept DEF CaptureInv
  <2>3. Reported'
    BY <2>1, CaptureKept DEF CaptureInv, Reported
  <2> QED BY <2>1, <2>2, <2>3 DEF CaptureInv
<1> QED
  BY <1>1, <1>2, <1>3, <1>4, InventoryIsTrue, PassOverIsTrue, StatIsTrue, OpenFileIsTrue, ReadFileIsTrue,
     CheckFileIsTrue, InventoryAgainIsTrue, FinalCheckIsTrue
  DEF CaptureNext

\* The reader's inductive invariant.
THEOREM CaptureInvariance == CaptureSpec => []CaptureInv
BY CaptureInitially, CaptureStep, PTL DEF CaptureSpec

LEMMA MomentsFollow == CaptureInv => FilesOfOneMoment
<1> SUFFICES ASSUME CaptureInv, NEW k \in DOMAIN captures, captures[k].reason = "none"
             PROVE  LET c == captures[k]  during == c.from .. c.to IN
                    /\ \E i \in during :
                         /\ \A p \in Present(c) : past[i].content[p] = c.digest.content[p]
                         /\ c.changed = {} =>
                              \E j \in during : \A p \in Listed(c.digest) :
                                past[i].content[p] = past[j].trees[past[j].head][p]
                    /\ \A p \in Listed(c.digest) \ Present(c) : \E i \in during : past[i].content[p] = Absent
                    /\ \E i \in during : past[i].head = c.head
                    /\ \E i \in during : past[i].index = c.digest.index
                    /\ \E i \in during : Untracked(past[i]) = c.digest.untracked
  BY DEF FilesOfOneMoment
<1>1. PICK c : c = captures[k]
  OBVIOUS
<1>2. CaptureTrue(c) /\ c.reason = "none"
  BY <1>1 DEF CaptureInv, Reported
<1>3. \A p \in Listed(c.digest) \ Present(c) : \E i \in c.from .. c.to : past[i].content[p] = Absent
  BY <1>2 DEF CaptureTrue, Present
<1> QED BY <1>1, <1>2, <1>3 DEF CaptureTrue

\* Two captures that differ were taken of two views.
LEMMA VerdictsFollow == CaptureInv => VerdictsAreTrue
<1> SUFFICES ASSUME CaptureInv, verdict \in {"matched", "drifted"} PROVE VerdictsAreTrue
  BY DEF VerdictsAreTrue
<1>1. PICK stored : stored = captures[1]
  OBVIOUS
<1>2. PICK current : current = captures[2]
  OBVIOUS
<1>3. /\ captures = <<stored, current>> /\ bound /\ stored.to <= current.from
      /\ stored.reason = "none" /\ current.reason = "none"
      /\ verdict = "drifted" <=> (stored.head # current.head \/ stored.digest # current.digest)
  BY <1>1, <1>2 DEF CaptureInv, Reported
<1>4. DOMAIN captures = {1, 2}
  BY <1>3
<1>5. CaptureTrue(stored) /\ CaptureTrue(current)
  BY <1>1, <1>2, <1>4 DEF CaptureInv, Reported
<1>6. /\ Len(past) \in Nat /\ stored.from \in 1 .. Len(past) /\ stored.to \in stored.from .. Len(past)
      /\ current.from \in 1 .. Len(past) /\ current.to \in current.from .. Len(past)
  BY <1>5, PastIsTyped DEF CaptureTrue, CaptureInv
<1>7. ASSUME verdict = "drifted", \A i, j \in stored.from .. current.to : View(i) = View(j)
      PROVE  FALSE
  <2>1. /\ \A i \in stored.from .. stored.to : i \in stored.from .. current.to
        /\ \A i \in current.from .. current.to : i \in stored.from .. current.to
    BY <1>3, <1>6
  <2>2. \A i, j \in stored.from .. current.to :
          past[i].content = past[j].content /\ past[i].index = past[j].index /\ past[i].head = past[j].head
    BY <1>7 DEF View
  <2>3. stored.head = current.head
    BY <1>3, <1>5, <2>1, <2>2 DEF CaptureTrue
  <2>4. stored.digest.index = current.digest.index
    BY <1>3, <1>5, <2>1, <2>2 DEF CaptureTrue
  <2>5. stored.digest.untracked = current.digest.untracked
    <3>1. PICK i \in stored.from .. stored.to : Untracked(past[i]) = stored.digest.untracked
      BY <1>3, <1>5 DEF CaptureTrue
    <3>2. PICK j \in current.from .. current.to : Untracked(past[j]) = current.digest.untracked
      BY <1>3, <1>5 DEF CaptureTrue
    <3> QED BY <2>1, <2>2, <3>1, <3>2 DEF Untracked
  <2>6. Listed(stored.digest) = Listed(current.digest)
    BY <2>4, <2>5 DEF Listed
  <2>7. ASSUME NEW p \in Paths PROVE stored.digest.content[p] = current.digest.content[p]
    <3>1. CASE p \in Listed(stored.digest)
      <4>1. PICK i \in stored.from .. stored.to : past[i].content[p] = stored.digest.content[p]
        BY <1>3, <1>5, <3>1 DEF CaptureTrue
      <4>2. PICK j \in current.from .. current.to : past[j].content[p] = current.digest.content[p]
        BY <1>3, <1>5, <2>6, <3>1 DEF CaptureTrue
      <4> QED BY <2>1, <2>2, <4>1, <4>2
    <3>2. CASE p \notin Listed(stored.digest)
      BY <1>3, <1>5, <2>6, <3>2 DEF CaptureTrue
    <3> QED BY <3>1, <3>2
  <2>8. stored.digest.content = current.digest.content
    <3>1. /\ stored.digest.content \in [Paths -> Contents \cup {Absent, Unread}]
          /\ current.digest.content \in [Paths -> Contents \cup {Absent, Unread}]
      BY <1>3, <1>5 DEF CaptureTrue
    <3> QED BY <2>7, <3>1
  <2>9. stored.digest = current.digest
    <3>1. /\ stored.digest = [head |-> stored.head, index |-> stored.digest.index,
                              untracked |-> stored.digest.untracked, content |-> stored.digest.content]
          /\ current.digest = [head |-> current.head, index |-> current.digest.index,
                               untracked |-> current.digest.untracked, content |-> current.digest.content]
      BY <1>3, <1>5 DEF CaptureTrue
    <3> QED BY <2>3, <2>4, <2>5, <2>8, <3>1
  <2> QED BY <1>3, <1>7, <2>3, <2>9
<1>8. ASSUME verdict = "matched"
      PROVE  \E i \in stored.from .. stored.to, j \in current.from .. current.to :
               \A p \in Present(stored) : past[i].content[p] = past[j].content[p]
  <2>1. stored.digest = current.digest
    BY <1>3, <1>8
  <2>2. Present(stored) = Present(current)
    BY <2>1 DEF Present
  <2>3. PICK i \in stored.from .. stored.to : \A p \in Present(stored) : past[i].content[p] = stored.digest.content[p]
    BY <1>3, <1>5 DEF CaptureTrue
  <2>4. PICK j \in current.from .. current.to : \A p \in Present(current) : past[j].content[p] = current.digest.content[p]
    BY <1>3, <1>5 DEF CaptureTrue
  <2> QED BY <2>1, <2>2, <2>3, <2>4
<1> QED BY <1>1, <1>2, <1>3, <1>7, <1>8 DEF VerdictsAreTrue

\* A capture that says it is complete shows files of one moment, and a
\* verification names a change exactly where there was one (verifySnapshot and
\* its reader), however long the workspace is and however often it changes.
THEOREM CapturesStayTrue == CaptureSpec => []CapturesAreTrue
<1>1. CaptureInv => CapturesAreTrue
  BY MomentsFollow, VerdictsFollow DEF CapturesAreTrue
<1> QED BY <1>1, CaptureInvariance, PTL
=============================================================================
