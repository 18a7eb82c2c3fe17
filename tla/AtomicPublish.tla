---------------------------- MODULE AtomicPublish ----------------------------
(* Files that ThreadPort publishes: atomicWrite() for the exports reviewed   *)
(* in the browser, writeArtifact() for the two files of `threadport          *)
(* extract`.  Writers are processes that race for one destination and may    *)
(* fail or die between any two file operations; the machine may lose power.  *)
EXTENDS Naturals, Sequences, FiniteSets

CONSTANTS
  Writers,    \* processes that publish
  Versions,   \* versions of the data a text is made from
  NoInode

ASSUME PublishAssumption ==
  Versions \subseteq Nat /\ 1 \in Versions /\ NoInode \notin Writers \X {"document", "cache"}

VARIABLES
  kind,     \* what each writer publishes
  data,     \* the present version of the data
  work,     \* per writer: position, file of its list, and outcome so far
  reviewed, \* per writer: version of the text the user saw
  inode,    \* per inode: its text, and what of it is on the disk
  entry,    \* directory: name -> inode
  earlier,  \* history: inodes that were ever under a name
  temps,    \* inodes with an entry under their temporary name
  answer    \* what the user was told

Names == {"document", "cache"}
Kinds == {"export", "extract", "forced"}   \* the last is extract --force
Targets(w) == IF kind[w] = "export" THEN <<"document">> ELSE <<"document", "cache">>

\* One temporary file for each text; its inode is what a link publishes.
Inodes == Writers \X Names
NoText == [text |-> 0, disk |-> "none"]

publishVars == <<kind, data, work, reviewed, inode, entry, earlier, temps, answer>>
files == <<inode, entry, earlier, temps>>

Reach(w, at) == work' = [work EXCEPT ![w].at = at]
At(w, at) == work[w].at = at
Name(w) == Targets(w)[work[w].file]
Temp(w) == <<w, Name(w)>>

Answer(w, a) ==
  /\ answer' = [answer EXCEPT ![w] = a]
  /\ work' = [work EXCEPT ![w] = [@ EXCEPT !.at = "out"]]

PublishInit ==
  /\ kind \in [Writers -> Kinds] /\ data = 1
  /\ work = [w \in Writers |-> [at |-> "start", file |-> 1, outcome |-> "ok"]]
  /\ reviewed = [w \in Writers |-> 0]
  /\ inode = [i \in Inodes |-> NoText]
  /\ entry = [n \in Names |-> NoInode]
  /\ earlier = [n \in Names |-> {}]
  /\ temps = {}
  /\ answer = [w \in Writers |-> "none"]

\* The task or the handoff is edited.
Edit == \E v \in Versions : v = data + 1 /\ data' = v /\ UNCHANGED <<kind, work, reviewed, files, answer>>

\* The dialog shows the complete text, and may show it anew; extract makes its
\* text from the log as it is now.
Prepare(w) ==
  /\ At(w, "start") \/ (At(w, "shown") /\ reviewed[w] # data)
  /\ reviewed' = [reviewed EXCEPT ![w] = data]
  /\ Reach(w, IF kind[w] = "export" THEN "shown" ELSE "assert")
  /\ UNCHANGED <<kind, data, files, answer>>

SameDigest(w) == data = reviewed[w]

\* POST /exports: the text is made again and must still be the reviewed one.
RequestExport(w) ==
  /\ At(w, "shown")
  /\ IF SameDigest(w) THEN Reach(w, "create") /\ UNCHANGED answer ELSE Answer(w, "changed")
  /\ UNCHANGED <<kind, data, reviewed, files>>

\* assertDestination() on both files, before either is written.
AssertDestination(w) ==
  /\ At(w, "assert")
  /\ IF kind[w] # "forced" /\ entry[Name(w)] # NoInode THEN Answer(w, "refused")
     ELSE /\ work' = IF work[w].file < Len(Targets(w)) THEN [work EXCEPT ![w].file = @ + 1]
                     ELSE [work EXCEPT ![w].file = 1, ![w].at = "check"]
          /\ UNCHANGED answer
  /\ UNCHANGED <<kind, data, reviewed, files>>

\* What a failed file means: the cache of an extract can be made again.
Report(w, outcome) == IF work[w].file = 2 THEN "ok without cache" ELSE outcome

\* writeArtifact looks again before it creates its temporary file.
CheckAgain(w) ==
  /\ At(w, "check")
  /\ IF kind[w] # "forced" /\ entry[Name(w)] # NoInode THEN Answer(w, Report(w, "refused"))
     ELSE Reach(w, "create") /\ UNCHANGED answer
  /\ UNCHANGED <<kind, data, reviewed, files>>

-----------------------------------------------------------------------------
(* The temporary file, its way to the disk and its publication.              *)

CreateTemp(w) ==
  /\ At(w, "create")
  /\ temps' = temps \cup {Temp(w)}
  /\ inode' = [inode EXCEPT ![Temp(w)].disk = "partial"]
  /\ Reach(w, "write")
  /\ UNCHANGED <<kind, data, reviewed, entry, earlier, answer>>

WriteText(w) ==
  /\ At(w, "write")
  /\ inode' = [inode EXCEPT ![Temp(w)] = [text |-> reviewed[w], disk |-> "cached"]]
  /\ Reach(w, "sync")
  /\ UNCHANGED <<kind, data, reviewed, entry, earlier, temps, answer>>

SyncLeftToTheSystem(w) ==
  /\ At(w, "sync") /\ Reach(w, "publish")
  /\ UNCHANGED <<kind, data, reviewed, files, answer>>

Sync(w) ==
  /\ At(w, "sync")
  /\ inode' = [inode EXCEPT ![Temp(w)].disk = "synced"]
  /\ Reach(w, "publish")
  /\ UNCHANGED <<kind, data, reviewed, entry, earlier, temps, answer>>

\* link() fails on an existing name, rename() replaces it.
ReplacesAfterCheck(w) == kind[w] # "export"
Replaces(w) == kind[w] = "forced"

Publish(w) ==
  /\ At(w, "publish")
  /\ IF Replaces(w) \/ entry[Name(w)] = NoInode
     THEN /\ entry' = [entry EXCEPT ![Name(w)] = Temp(w)]
          /\ earlier' = [earlier EXCEPT ![Name(w)] = @ \cup {Temp(w)}]
          /\ temps' = IF Replaces(w) THEN temps \ {Temp(w)} ELSE temps
          /\ Reach(w, "unlink")
     ELSE /\ work' = [work EXCEPT ![w].at = "unlink", ![w].outcome = "refused"]
          /\ UNCHANGED <<entry, earlier, temps>>
  /\ UNCHANGED <<kind, data, reviewed, inode, answer>>

\* An operation on the temporary file fails.
IoError(w) ==
  /\ work[w].at \in {"create", "write", "sync", "publish"}
  /\ work' = [work EXCEPT ![w].at = "unlink", ![w].outcome = "failed"]
  /\ UNCHANGED <<kind, data, reviewed, files, answer>>

\* The finally block; then the next file or the answer.
Unlink(w) ==
  /\ At(w, "unlink")
  /\ temps' = temps \ {Temp(w)}
  /\ IF work[w].outcome = "ok" /\ work[w].file < Len(Targets(w))
     THEN work' = [work EXCEPT ![w].file = @ + 1, ![w].at = "check"] /\ UNCHANGED answer
     ELSE Answer(w, IF work[w].outcome = "ok" THEN "ok" ELSE Report(w, work[w].outcome))
  /\ UNCHANGED <<kind, data, reviewed, inode, entry, earlier>>

UnlinkFails(w) ==
  /\ At(w, "unlink") /\ Temp(w) \in temps
  /\ Answer(w, Report(w, "inspect the directory"))
  /\ UNCHANGED <<kind, data, reviewed, files>>

Killed(w) ==
  /\ ~At(w, "out") /\ Reach(w, "out")
  /\ UNCHANGED <<kind, data, reviewed, files, answer>>

\* The machine stops: what was not synchronised is torn, and since nobody
\* synchronises the directory, each name may be found as it was earlier.
PowerLoss ==
  /\ \E w \in Writers : ~At(w, "out")
  /\ work' = [w \in Writers |-> [work[w] EXCEPT !.at = "out"]]
  /\ inode' = [i \in Inodes |-> IF inode[i].disk \in {"none", "synced"} THEN inode[i]
                                ELSE [inode[i] EXCEPT !.disk = "torn"]]
  /\ \E found \in [Names -> Inodes \cup {NoInode}] :
       /\ \A n \in Names : found[n] \in earlier[n] \cup {NoInode}
       /\ entry' = found
  /\ UNCHANGED <<kind, data, reviewed, earlier, temps, answer>>

Step(w) ==
  \/ Prepare(w) \/ RequestExport(w) \/ AssertDestination(w) \/ CheckAgain(w)
  \/ CreateTemp(w) \/ WriteText(w) \/ Sync(w) \/ Publish(w) \/ IoError(w)
  \/ Unlink(w) \/ UnlinkFails(w) \/ Killed(w)

PublishNext == Edit \/ PowerLoss \/ \E w \in Writers : Step(w)

PublishSpec == PublishInit /\ [][PublishNext]_publishVars

-----------------------------------------------------------------------------
(* Properties                                                                *)

\* 01-product-spec.md: nothing is overwritten by default, and a failure leaves
\* no half package that looks complete.  Whatever stands under a published name
\* is the whole text one user reviewed, after crashes and a loss of power too.
PublishedWhole ==
  \A n \in Names : entry[n] # NoInode =>
    inode[entry[n]].disk \in {"cached", "synced"} /\ inode[entry[n]].text = reviewed[entry[n][1]]

\* A file is replaced only by a writer with --force; every other racer is
\* refused, told so, and leaves nothing under the name; and who is told that an
\* export was saved has published exactly the text that was shown.
AnswersTrue ==
  \A w \in Writers :
    LET own(k) == <<w, Targets(w)[k]>> IN
    /\ answer[w] = "ok" => \A k \in DOMAIN Targets(w) :
         own(k) \in earlier[Targets(w)[k]] /\ inode[own(k)].text = reviewed[w]
    /\ answer[w] \in {"refused", "changed", "failed"} => own(1) \notin earlier["document"]
    /\ kind[w] # "forced" => \A n \in Names : <<w, n>> \in earlier[n] =>
         \A v \in Writers \ {w} : <<v, n>> \in earlier[n] => kind[v] = "forced"

\* What stands under the names and what the users were told, in any interleaving.
PublicationSound == PublishedWhole /\ AnswersTrue
=============================================================================
