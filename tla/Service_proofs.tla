---------------------------- MODULE Service_proofs ----------------------------
(* The local service, for any number of sources, runs, slots and processes:  *)
(* a slot is never lost or given twice, a source has one run at most,        *)
(* maintenance and shutdown find no run, a disabled source is read only if   *)
(* another process disabled it between the run's look and its lease, and the *)
(* queue of read slots implements SlotPool.  And for any number of takeovers,*)
(* runs and sessions, however answers, deadlines, confirmations and closings *)
(* interleave: one takeover per run, and no succession before the run has    *)
(* stopped.  And what the certification harness calls prepared, drifted and  *)
(* complete is so, for any number of experiments and commands, killed        *)
(* anywhere, and whatever is changed by hand meanwhile.                      *)
EXTENDS IndexScheduler, Takeover, AgentCertification, FiniteSetTheorems, TLAPS

-----------------------------------------------------------------------------
(* The index service                                                         *)

\* The queue and the slots: whoever waits has an entry in the queue.
QueueInv ==
  /\ run \in [Runs -> [source : Sources \cup {Nobody}, pc : Pcs, aborted : BOOLEAN, overtaken : BOOLEAN]]
  /\ active \in Nat
  /\ ahead \in [Runs -> (SUBSET Runs) \cup {Idle}]
  /\ \A r \in Runs : ahead[r] # Idle <=> run[r].pc = "waiting"
  /\ SlotAccounting

\* The service's map leads from a source to its live run, so that whoever
\* aborts and awaits what the map holds has dealt with every run.
JobsInv ==
  /\ jobs \in [Sources -> Runs \cup {Nobody}]
  /\ \A r \in Live : run[r].source \in Sources /\ jobs[run[r].source] = r

\* A store that is closed stays so, because the service does not resume.
ServiceInv ==
  /\ upkeep # "none" => paused
  /\ ~open => stopping \/ (paused /\ upkeep = "none")
  /\ ClosedStoreUntouched

\* What a run saw of its source holds until its lease, but for other processes.
LookedAtEnabled ==
  \A r \in Runs : run[r].pc = "looked" => enabled[run[r].source] \/ run[r].overtaken

LeaseInv ==
  /\ lease \in [Sources -> Runs \cup {Nobody, Foreign}]
  /\ enabled \in [Sources -> BOOLEAN]
  /\ DisabledSourceNotRead
  /\ LookedAtEnabled

Flags ==
  /\ revoking \in [Sources -> Runs \cup {Nobody}]
  /\ <<paused, stopping, open, timer>> \in BOOLEAN \X BOOLEAN \X BOOLEAN \X BOOLEAN
  /\ upkeep \in Upkeep

Inv == QueueInv /\ JobsInv /\ ServiceInv /\ LeaseInv /\ Flags

-----------------------------------------------------------------------------
(* Steps of the queue                                                        *)

\* What the queue does is a step of SlotPool, or none at all.
Pooled == Pool!Next \/ UNCHANGED <<Holders, ahead>>

\* No run becomes live and none changes its source.
Calm == \A r \in Runs : run'[r].pc # "idle" => run[r].pc # "idle" /\ run'[r].source = run[r].source

\* Whoever reads, or has looked at its source, did so in the state before.
SameReaders ==
  \A r \in Runs :
    run'[r].pc \in {"looked", "reading"} => run'[r].pc = run[r].pc /\ run'[r].overtaken = run[r].overtaken

\* SlotPool counts as this module does.
LEMMA SameCount == \A S : Pool!Cardinality(S) = Cardinality(S)
  BY DEF Pool!Cardinality, Cardinality

\* The slots are held by finitely many runs.
LEMMA HoldersFinite == IsFiniteSet(Holders)
  BY SchedulerAssumption, FS_Subset DEF Holders

\* An abort takes waiters out of the queue and leaves the slots alone.
LEMMA AbortKeeps ==
  ASSUME QueueInv, NEW these, Abort(these), UNCHANGED active
  PROVE  QueueInv' /\ Calm /\ SameReaders /\ Pooled /\ Live' = Live
<1>1. \A r \in Runs :
        /\ run'[r].source = run[r].source
        /\ run'[r].overtaken = run[r].overtaken
        /\ r \in these /\ run[r].pc = "waiting" => run'[r].pc = "rejected"
        /\ r \notin these \/ run[r].pc # "waiting" => run'[r].pc = run[r].pc
  BY DEF Abort, Aborted, Live, QueueInv
<1>2. run' \in [Runs -> [source : Sources \cup {Nobody}, pc : Pcs, aborted : BOOLEAN, overtaken : BOOLEAN]]
  BY DEF Abort, Aborted, Live, QueueInv, Pcs
<1>3. ahead' = [r \in Runs |-> IF r \in these \cap Waiting \/ ahead[r] = Idle THEN Idle
                               ELSE ahead[r] \ (these \cap Waiting)]
  BY DEF Abort, Left
<1>4. Holders' = Holders /\ Live' = Live
  BY <1>1 DEF Holders, Live
<1>5. QueueInv'
  <2>1. ahead' \in [Runs -> (SUBSET Runs) \cup {Idle}]
    BY <1>3 DEF QueueInv
  <2>2. \A r \in Runs : ahead'[r] # Idle <=> run'[r].pc = "waiting"
    <3> SUFFICES ASSUME NEW r \in Runs PROVE ahead'[r] # Idle <=> run'[r].pc = "waiting"
      OBVIOUS
    <3>1. CASE r \in these \cap Waiting
      BY <1>1, <1>3, <3>1 DEF Waiting
    <3>2. CASE r \notin these \cap Waiting
      <4>1. ahead[r] \ (these \cap Waiting) \in SUBSET Runs \/ ahead[r] = Idle
        BY DEF QueueInv
      <4>2. run'[r].pc = run[r].pc
        BY <1>1, <3>2 DEF Waiting
      <4> QED BY <1>3, <3>2, <4>1, <4>2, SchedulerAssumption DEF QueueInv
    <3> QED BY <3>1, <3>2
  <2> QED BY <1>2, <1>4, <2>1, <2>2 DEF QueueInv, SlotAccounting
<1>6. Pooled
  <2>1. Pool!Waiting = Waiting
    BY DEF Pool!Waiting, Waiting, QueueInv
  <2>2. these \cap Waiting \in SUBSET Waiting /\ Pool!Withdraw(these \cap Waiting)
    BY <1>3, <1>4, <2>1 DEF Pool!Withdraw, Pool!Left
  <2> QED BY <2>1, <2>2 DEF Pooled, Pool!Next
<1> QED BY <1>1, <1>4, <1>5, <1>6 DEF Calm, SameReaders

\* A run that ends with its slot passes it to a waiter or gives it back.
LEMMA HandoffKeeps ==
  ASSUME QueueInv, NEW r \in Holders, Handoff(Ended(r))
  PROVE  QueueInv' /\ Calm /\ SameReaders /\ Pooled
<1> DEFINE Run == [source : Sources \cup {Nobody}, pc : Pcs, aborted : BOOLEAN, overtaken : BOOLEAN]
<1>1. r \in Runs /\ run[r].pc \in {"granted", "entered", "looked", "reading"} /\ run \in [Runs -> Run]
  BY DEF Holders, QueueInv
<1>2. Ended(r) = [run EXCEPT ![r] = NoRun] /\ Ended(r) \in [Runs -> Run]
      /\ Ended(r)[r].pc = "idle" /\ \A q \in Runs \ {r} : Ended(r)[q] = run[q]
  BY <1>1 DEF Ended, NoRun, Pcs
<1>3. IsFiniteSet(Holders) /\ active = Cardinality(Holders) /\ active <= Capacity /\ active \in Nat
  BY HoldersFinite DEF QueueInv, SlotAccounting
<1>4. Pool!Waiting = Waiting
  BY DEF Pool!Waiting, Waiting, QueueInv
<1>5. CASE Waiting = {} /\ active' = active - 1 /\ run' = Ended(r) /\ UNCHANGED ahead
  <2>1. Holders' = Holders \ {r}
    BY <1>1, <1>2, <1>5 DEF Holders
  <2>2. active' = Cardinality(Holders') /\ active' <= Capacity /\ active' \in Nat
    <3>1. Cardinality(Holders \ {r}) = Cardinality(Holders) - 1 /\ Cardinality(Holders \ {r}) \in Nat
      BY <1>3, FS_RemoveElement, FS_CardinalityType
    <3> QED BY <1>3, <1>5, <2>1, <3>1, SchedulerAssumption
  <2>3. \A q \in Runs : ahead'[q] # Idle <=> run'[q].pc = "waiting"
    BY <1>1, <1>2, <1>5 DEF QueueInv
  <2>4. Pool!GiveBack(r)
    BY <1>4, <1>5, <2>1 DEF Pool!GiveBack
  <2>5. QueueInv'
    BY <1>2, <1>5, <2>2, <2>3 DEF QueueInv, SlotAccounting
  <2> QED BY <1>1, <1>2, <1>5, <2>4, <2>5 DEF Calm, SameReaders, Pooled, Pool!Next
<1>6. ASSUME NEW next \in Waiting, ahead[next] = {}, run' = [Ended(r) EXCEPT ![next].pc = "granted"],
             ahead' = Left(ahead, {next}), UNCHANGED active
      PROVE  QueueInv' /\ Calm /\ SameReaders /\ Pooled
  <2>1. next \in Runs /\ next # r /\ run[next].pc = "waiting" /\ next \notin Holders
    BY <1>1 DEF Waiting, Holders
  <2>2. /\ run' \in [Runs -> Run] /\ run'[r].pc = "idle"
        /\ run'[next].pc = "granted" /\ run'[next].source = run[next].source
        /\ \A q \in Runs \ {r, next} : run'[q] = run[q]
    BY <1>1, <1>2, <1>6, <2>1 DEF Pcs
  <2>3. Holders' = (Holders \ {r}) \cup {next}
    BY <1>1, <2>1, <2>2 DEF Holders
  <2>4. Cardinality(Holders') = Cardinality(Holders)
    <3>1. IsFiniteSet(Holders \ {r}) /\ Cardinality(Holders \ {r}) = Cardinality(Holders) - 1
      BY <1>3, FS_RemoveElement
    <3>2. Cardinality(Holders') = Cardinality(Holders \ {r}) + 1
      BY <2>1, <2>3, <3>1, FS_AddElement
    <3> QED BY <3>1, <3>2, <1>3
  <2>5. ahead' = [q \in Runs |-> IF q \in {next} \/ ahead[q] = Idle THEN Idle ELSE ahead[q] \ {next}]
    BY <1>6 DEF Left
  <2>6. ahead' \in [Runs -> (SUBSET Runs) \cup {Idle}]
    BY <2>5 DEF QueueInv
  <2>7. \A q \in Runs : ahead'[q] # Idle <=> run'[q].pc = "waiting"
    <3> SUFFICES ASSUME NEW q \in Runs PROVE ahead'[q] # Idle <=> run'[q].pc = "waiting"
      OBVIOUS
    <3>1. CASE q = next
      BY <2>2, <2>5, <3>1
    <3>2. CASE q # next
      <4>1. ahead[q] \ {next} \in SUBSET Runs \/ ahead[q] = Idle
        BY DEF QueueInv
      <4>2. ahead'[q] # Idle <=> ahead[q] # Idle
        BY <2>5, <3>2, <4>1, SchedulerAssumption
      <4> QED BY <1>1, <2>2, <3>2, <4>2 DEF QueueInv
    <3> QED BY <3>1, <3>2
  <2>8. Pool!GiveBack(r)
    BY <1>4, <1>6, <2>3, <2>5 DEF Pool!GiveBack, Pool!Left
  <2>9. QueueInv'
    BY <1>3, <1>6, <2>2, <2>4, <2>6, <2>7 DEF QueueInv, SlotAccounting
  <2>10. Calm /\ SameReaders
    BY <1>1, <2>1, <2>2 DEF Calm, SameReaders
  <2> QED BY <1>1, <2>8, <2>9, <2>10 DEF Pooled, Pool!Next
<1> QED BY <1>5, <1>6 DEF Handoff

-----------------------------------------------------------------------------
(* The steps of the service                                                  *)

\* The invariant holds before the first refresh.
LEMMA InitInv == Init => Inv
<1> SUFFICES ASSUME Init PROVE Inv
  OBVIOUS
<1>1. Holders = {} /\ Live = {}
  BY DEF Init, Holders, Live, NoRun
<1>2. QueueInv
  BY <1>1, FS_EmptySet, SchedulerAssumption DEF Init, QueueInv, SlotAccounting, NoRun, Pcs
<1>3. JobsInv /\ ServiceInv /\ LeaseInv /\ Flags
  BY <1>1 DEF Init, JobsInv, ServiceInv, ClosedStoreUntouched, LeaseInv, DisabledSourceNotRead,
              LookedAtEnabled,
              Flags, Upkeep, NoRun
<1> QED BY <1>2, <1>3 DEF Inv

\* What a calm step that leaves the map and the service alone cannot break.
LEMMA CalmKeeps ==
  ASSUME Inv, Calm, UNCHANGED <<jobs, revoking, service>>
  PROVE  JobsInv' /\ ServiceInv' /\ Flags'
<1>1. Live' \subseteq Live
  BY DEF Calm, Live
<1>2. JobsInv'
  BY <1>1 DEF Inv, JobsInv, Calm, Live
<1> QED BY <1>1, <1>2 DEF Inv, ServiceInv, ClosedStoreUntouched, Flags, service

\* Where nobody begins to read, the leases and the sources are as they were.
LEMMA ReadersKeep ==
  ASSUME Inv, Calm, SameReaders, UNCHANGED <<lease, enabled>>
  PROVE  LeaseInv'
  BY DEF Inv, LeaseInv, DisabledSourceNotRead, LookedAtEnabled, Calm, SameReaders

\* Once every run of the map has settled there is no run at all.
LEMMA NobodyLeft == JobsInv /\ AllSettled => Live = {}
  BY  SchedulerAssumption DEF JobsInv, AllSettled, Current, Live

-----------------------------------------------------------------------------
(* One step of the service                                                   *)

\* The promises a step keeps besides the invariant.
Quiet == upkeep # "none" /\ upkeep' = "none" => Live = {}
Kept == Inv' /\ Pooled /\ Quiet

\* A run that is started, or joins the one of its source, keeps the invariant.
LEMMA StartKeeps ==
  ASSUME Inv, NEW s \in Sources, Start(s)
  PROVE  Kept
<1> USE DEF Inv
<1>1. PICK r \in Unreferenced :
        /\ run' = [run EXCEPT ![r] = [NoRun EXCEPT !.source = s, !.pc = "deferred"]]
        /\ jobs' = [jobs EXCEPT ![s] = r]
  BY DEF Start
<1>2. UNCHANGED <<slots, lease, enabled, revoking, service>> /\ Accepting /\ ~Coalesced(s)
  BY DEF Start
<1>3. r \in Runs /\ run[r].pc = "idle" /\ r \notin Current
  BY <1>1 DEF Unreferenced, Live
<1>4. /\ run'[r].pc = "deferred" /\ run'[r].source = s
      /\ \A q \in Runs \ {r} : run'[q] = run[q]
      /\ run' \in [Runs -> [source : Sources \cup {Nobody}, pc : Pcs, aborted : BOOLEAN, overtaken : BOOLEAN]]
  BY <1>1, <1>3 DEF QueueInv, Pcs, NoRun
<1>5. Holders' = Holders
  BY <1>3, <1>4 DEF Holders
<1>6. QueueInv'
  BY <1>2, <1>3, <1>4, <1>5 DEF QueueInv, SlotAccounting, slots
<1>7. JobsInv'
  <2>1. jobs' \in [Sources -> Runs \cup {Nobody}]
    BY <1>1, <1>3 DEF JobsInv
  <2>2. ASSUME NEW q \in Live' PROVE run'[q].source \in Sources /\ jobs'[run'[q].source] = q
    <3>1. CASE q = r
      BY <1>1, <1>4, <3>1 DEF JobsInv
    <3>2. CASE q # r
      <4>1. q \in Live /\ run'[q] = run[q] /\ run[q].source \in Sources /\ jobs[run[q].source] = q
        BY <1>4, <2>2, <3>2 DEF Live, JobsInv
      <4>2. run[q].source # s
        BY <1>2, <4>1, SchedulerAssumption DEF Coalesced, Live
      <4> QED BY <1>1, <4>1, <4>2 DEF JobsInv
    <3> QED BY <3>1, <3>2
  <2> QED BY <2>1, <2>2 DEF JobsInv
<1>8. ServiceInv'
  BY <1>2 DEF ServiceInv, ClosedStoreUntouched, Accepting, service
<1>9. LeaseInv' /\ Flags'
  BY <1>2, <1>3, <1>4 DEF LeaseInv, Flags, DisabledSourceNotRead, LookedAtEnabled, service
<1>10. Pooled /\ Quiet
  BY <1>2, <1>5 DEF Pooled, Quiet, slots, service
<1> QED BY <1>6, <1>7, <1>8, <1>9, <1>10 DEF Kept

\* A step of one run that changes the run itself only, and no reading begins.
LEMMA AcquireKeeps ==
  ASSUME Inv, NEW r \in Runs, Acquire(r)
  PROVE  Kept
<1> USE DEF Inv
<1> DEFINE Run == [source : Sources \cup {Nobody}, pc : Pcs, aborted : BOOLEAN, overtaken : BOOLEAN]
<1>1. run \in [Runs -> Run] /\ run[r].pc = "deferred" /\ r \notin Holders \cup Waiting
  BY DEF Acquire, QueueInv, Holders, Waiting
<1>2. UNCHANGED <<jobs, lease, enabled, revoking, service>>
  BY DEF Acquire
<1>3. Pool!Waiting = Waiting
  BY DEF Pool!Waiting, Waiting, QueueInv
<1>4. IsFiniteSet(Holders) /\ active = Cardinality(Holders) /\ active <= Capacity /\ active \in Nat
  BY HoldersFinite DEF QueueInv, SlotAccounting
<1>5. ASSUME QueueInv', Calm, SameReaders, Pooled PROVE Kept
  BY <1>2, <1>5, CalmKeeps, ReadersKeep DEF Kept, Quiet, service
<1>6. CASE run' = Ended(r) /\ UNCHANGED slots
  <2>1. /\ run'[r].pc = "idle" /\ \A q \in Runs \ {r} : run'[q] = run[q]
        /\ run' \in [Runs -> Run]
    BY <1>1, <1>6 DEF Ended, NoRun, Pcs
  <2>2. Holders' = Holders
    BY <1>1, <2>1 DEF Holders
  <2>3. QueueInv' /\ Calm /\ SameReaders
    BY <1>1, <1>6, <2>1, <2>2 DEF QueueInv, SlotAccounting, Calm, SameReaders, slots
  <2> QED BY <1>5, <1>6, <2>2, <2>3 DEF Pooled, slots
<1>7. CASE /\ active >= Capacity /\ run' = [run EXCEPT ![r].pc = "waiting"]
           /\ ahead' = [ahead EXCEPT ![r] = Waiting] /\ UNCHANGED active
  <2>1. /\ run'[r].pc = "waiting" /\ run'[r].source = run[r].source
        /\ \A q \in Runs \ {r} : run'[q] = run[q]
        /\ run' \in [Runs -> Run]
    BY <1>1, <1>7 DEF Pcs
  <2>2. Holders' = Holders
    BY <1>1, <2>1 DEF Holders
  <2>3. Waiting \in SUBSET Runs /\ Waiting # Idle
    BY SchedulerAssumption DEF Waiting
  <2>4. QueueInv'
    BY <1>1, <1>7, <2>1, <2>2, <2>3 DEF QueueInv, SlotAccounting
  <2>5. Calm /\ SameReaders
    BY <1>1, <2>1 DEF Calm, SameReaders
  <2>6. Pool!Join(r)
    BY <1>1, <1>3, <1>4, <1>7, <2>2, SameCount, SchedulerAssumption DEF Pool!Join
  <2> QED BY <1>5, <2>4, <2>5, <2>6 DEF Pooled, Pool!Next
<1>8. CASE /\ ~(active >= Capacity) /\ run' = [run EXCEPT ![r].pc = "entered"]
           /\ active' = active + 1 /\ UNCHANGED ahead
  <2>1. /\ run'[r].pc = "entered" /\ run'[r].source = run[r].source
        /\ \A q \in Runs \ {r} : run'[q] = run[q]
        /\ run' \in [Runs -> Run]
    BY <1>1, <1>8 DEF Pcs
  <2>2. Holders' = Holders \cup {r}
    BY <1>1, <2>1 DEF Holders
  <2>3. Cardinality(Holders') = Cardinality(Holders) + 1
    BY <1>1, <1>4, <2>2, FS_AddElement
  <2>4. active' = Cardinality(Holders') /\ active' <= Capacity /\ active' \in Nat
    BY <1>4, <1>8, <2>3, SchedulerAssumption
  <2>5. QueueInv'
    BY <1>1, <1>8, <2>1, <2>4 DEF QueueInv, SlotAccounting
  <2>6. Calm /\ SameReaders
    BY <1>1, <2>1 DEF Calm, SameReaders
  <2>7. Pool!Take(r)
    BY <1>1, <1>3, <1>4, <1>8, <2>2, SameCount, SchedulerAssumption DEF Pool!Take
  <2> QED BY <1>5, <2>5, <2>6, <2>7 DEF Pooled, Pool!Next
<1> QED BY <1>6, <1>7, <1>8 DEF Acquire

\* A waiter that was handed a slot keeps the invariant.
LEMMA ResumeKeeps ==
  ASSUME Inv, NEW r \in Runs, Resume(r)
  PROVE  Kept
<1> USE DEF Inv
<1> DEFINE Run == [source : Sources \cup {Nobody}, pc : Pcs, aborted : BOOLEAN, overtaken : BOOLEAN]
<1>1. run \in [Runs -> Run] /\ run[r].pc = "granted" /\ r \in Holders
      /\ UNCHANGED <<jobs, lease, enabled, revoking, service>>
  BY DEF Resume, QueueInv, Holders
<1>2. ASSUME QueueInv', Calm, SameReaders, Pooled PROVE Kept
  BY <1>1, <1>2, CalmKeeps, ReadersKeep DEF Kept, Quiet, service
<1>3. CASE Handoff(Ended(r))
  BY <1>1, <1>2, <1>3, HandoffKeeps
<1>4. CASE run' = [run EXCEPT ![r].pc = "entered"] /\ UNCHANGED slots
  <2>1. /\ run'[r].pc = "entered" /\ run'[r].source = run[r].source
        /\ \A q \in Runs \ {r} : run'[q] = run[q]
        /\ run' \in [Runs -> Run]
    BY <1>1, <1>4 DEF Pcs
  <2>2. Holders' = Holders
    BY <1>1, <2>1 DEF Holders
  <2>3. QueueInv' /\ Calm /\ SameReaders
    BY <1>1, <1>4, <2>1, <2>2 DEF QueueInv, SlotAccounting, Calm, SameReaders, slots
  <2> QED BY <1>2, <1>4, <2>2, <2>3 DEF Pooled, slots
<1> QED BY <1>3, <1>4 DEF Resume

\* A run that looks at its source keeps the invariant.
LEMMA LookUpKeeps ==
  ASSUME Inv, NEW r \in Runs, LookUp(r)
  PROVE  Kept
<1> USE DEF Inv
<1> DEFINE Run == [source : Sources \cup {Nobody}, pc : Pcs, aborted : BOOLEAN, overtaken : BOOLEAN]
<1>1. run \in [Runs -> Run] /\ run[r].pc = "entered" /\ r \in Holders
      /\ UNCHANGED <<jobs, lease, enabled, revoking, service>>
  BY DEF LookUp, QueueInv, Holders
<1>2. CASE Handoff(Ended(r))
  <2>1. QueueInv' /\ Calm /\ SameReaders /\ Pooled
    BY <1>1, <1>2, HandoffKeeps
  <2> QED BY <1>1, <2>1, CalmKeeps, ReadersKeep DEF Kept, Quiet, service
<1>3. CASE enabled[run[r].source] /\ run' = [run EXCEPT ![r].pc = "looked"] /\ UNCHANGED slots
  <2>1. /\ run'[r].pc = "looked" /\ run'[r].source = run[r].source
        /\ \A q \in Runs \ {r} : run'[q] = run[q]
        /\ run' \in [Runs -> Run]
    BY <1>1, <1>3 DEF Pcs
  <2>2. Holders' = Holders
    BY <1>1, <2>1 DEF Holders
  <2>3. QueueInv' /\ Calm
    BY <1>1, <1>3, <2>1, <2>2 DEF QueueInv, SlotAccounting, Calm, slots
  <2>4. DisabledSourceNotRead' /\ LookedAtEnabled'
    BY <1>1, <1>3, <2>1 DEF LeaseInv, DisabledSourceNotRead, LookedAtEnabled
  <2>5. LeaseInv'
    BY <1>1, <2>4 DEF LeaseInv
  <2> QED BY <1>1, <1>3, <2>2, <2>3, <2>5, CalmKeeps DEF Kept, Pooled, Quiet, service, slots
<1> QED BY <1>2, <1>3 DEF LookUp

\* A run that takes its lease keeps the invariant.
LEMMA TakeLeaseKeeps ==
  ASSUME Inv, NEW r \in Runs, TakeLease(r)
  PROVE  Kept
<1> USE DEF Inv
<1> DEFINE Run == [source : Sources \cup {Nobody}, pc : Pcs, aborted : BOOLEAN, overtaken : BOOLEAN]
           s == run[r].source
<1>1. run \in [Runs -> Run] /\ run[r].pc = "looked" /\ r \in Holders /\ r \in Live
      /\ UNCHANGED <<jobs, enabled, revoking, service>>
  BY DEF TakeLease, QueueInv, Holders, Live
<1>2. CASE Handoff(Ended(r)) /\ UNCHANGED lease
  <2>1. QueueInv' /\ Calm /\ SameReaders /\ Pooled
    BY <1>1, <1>2, HandoffKeeps
  <2> QED BY <1>1, <1>2, <2>1, CalmKeeps, ReadersKeep DEF Kept, Quiet, service
<1>3. CASE /\ LeaseFree(s) /\ lease' = [lease EXCEPT ![s] = r]
           /\ run' = [run EXCEPT ![r].pc = "reading"] /\ UNCHANGED slots
  <2>1. /\ run'[r].pc = "reading" /\ run'[r].source = s /\ run'[r].overtaken = run[r].overtaken
        /\ \A q \in Runs \ {r} : run'[q] = run[q]
        /\ run' \in [Runs -> Run]
    BY <1>1, <1>3 DEF Pcs
  <2>2. Holders' = Holders
    BY <1>1, <2>1 DEF Holders
  <2>3. QueueInv'
    BY <1>1, <1>3, <2>1, <2>2 DEF QueueInv, SlotAccounting, slots
  <2>4. Calm
    BY <1>1, <2>1 DEF Calm
  <2>5. s \in Sources
    BY <1>1 DEF JobsInv
  <2>6. LeaseInv'
    <3>1. lease' \in [Sources -> Runs \cup {Nobody, Foreign}]
      BY <1>3, <2>5 DEF LeaseInv
    <3>2. \A q \in Runs : run'[q].pc = "reading" /\ lease'[run'[q].source] = q => enabled'[run'[q].source] \/ run'[q].overtaken
      <4> SUFFICES ASSUME NEW q \in Runs, run'[q].pc = "reading", lease'[run'[q].source] = q
                   PROVE  enabled[run'[q].source] \/ run'[q].overtaken
        BY <1>1
      <4>1. CASE q = r
        BY <1>1, <2>1, <4>1 DEF LeaseInv, LookedAtEnabled
      <4>2. CASE q # r
        <5>1. run'[q] = run[q] /\ q \in Live /\ run[q].source \in Sources
          BY <2>1, <4>2 DEF Live, JobsInv
        <5>2. lease[run[q].source] = q
          BY <1>3, <2>5, <4>2, <5>1 DEF LeaseInv
        <5> QED BY <5>1, <5>2 DEF LeaseInv, DisabledSourceNotRead
      <4> QED BY <4>1, <4>2
    <3>3. LookedAtEnabled'
      BY <1>1, <2>1 DEF LeaseInv, LookedAtEnabled
    <3> QED BY <1>1, <3>1, <3>2, <3>3 DEF LeaseInv, DisabledSourceNotRead
  <2> QED BY <1>1, <1>3, <2>2, <2>3, <2>4, <2>6, CalmKeeps DEF Kept, Pooled, Quiet, service, slots
<1> QED BY <1>2, <1>3 DEF TakeLease

\* A run that is refused its lease keeps the invariant.
LEMMA RejectKeeps ==
  ASSUME Inv, NEW r \in Runs, Reject(r)
  PROVE  Kept
<1> USE DEF Inv
<1>1. /\ run'[r].pc = "idle" /\ \A q \in Runs \ {r} : run'[q] = run[q]
      /\ run' \in [Runs -> [source : Sources \cup {Nobody}, pc : Pcs, aborted : BOOLEAN, overtaken : BOOLEAN]]
      /\ run[r].pc = "rejected" /\ UNCHANGED <<slots, jobs, lease, enabled, revoking, service>>
  BY DEF Reject, Ended, NoRun, Pcs, QueueInv
<1>2. Holders' = Holders
  BY <1>1 DEF Holders
<1>3. QueueInv' /\ Calm /\ SameReaders
  BY <1>1, <1>2 DEF QueueInv, SlotAccounting, Calm, SameReaders, slots
<1> QED BY <1>1, <1>2, <1>3, CalmKeeps, ReadersKeep DEF Kept, Pooled, Quiet, service, slots

\* A run that ends gives its slot back and keeps the invariant.
LEMMA SettleKeeps ==
  ASSUME Inv, NEW r \in Runs, Settle(r)
  PROVE  Kept
<1> USE DEF Inv
<1> DEFINE s == run[r].source
<1>1. run[r].pc = "reading" /\ r \in Holders /\ r \in Live /\ Handoff(Ended(r))
      /\ lease' \in {lease, [lease EXCEPT ![s] = IF @ = r THEN Nobody ELSE @]}
      /\ UNCHANGED <<jobs, enabled, revoking, service>>
  BY DEF Settle, Holders, Live
<1>2. QueueInv' /\ Calm /\ SameReaders /\ Pooled
  BY <1>1, HandoffKeeps
<1>3. lease' \in [Sources -> Runs \cup {Nobody, Foreign}] /\ s \in Sources
  BY <1>1 DEF LeaseInv, JobsInv
<1>4. LeaseInv'
  <2>1. \A q \in Runs, t \in Sources : lease'[t] = q => lease[t] = q
    BY <1>1, <1>3, SchedulerAssumption DEF LeaseInv
  <2>2. ASSUME NEW q \in Runs, run'[q].pc = "reading", lease'[run'[q].source] = q
        PROVE  enabled'[run'[q].source] \/ run'[q].overtaken
    <3>1. run[q].pc = "reading" /\ run'[q].source = run[q].source /\ run[q].source \in Sources
          /\ run'[q].overtaken = run[q].overtaken
      BY <1>2, <2>2 DEF Calm, SameReaders, JobsInv, Live
    <3> QED BY <1>1, <2>1, <2>2, <3>1 DEF LeaseInv, DisabledSourceNotRead
  <2>3. LookedAtEnabled'
    BY <1>1, <1>2 DEF LeaseInv, LookedAtEnabled, Calm, SameReaders
  <2> QED BY <1>1, <1>3, <2>2, <2>3 DEF LeaseInv, DisabledSourceNotRead
<1> QED BY <1>1, <1>2, <1>4, CalmKeeps DEF Kept, Quiet, service

\* Cancelling, pausing, stopping and losing a lease abort runs and leave the
\* leases and sources to others.
LEMMA AbortStepKeeps ==
  ASSUME Inv, NEW these, Abort(these), UNCHANGED <<active, jobs, lease, enabled>>,
         revoking' \in [Sources -> Runs \cup {Nobody}],
         <<paused', stopping', open', timer'>> \in BOOLEAN \X BOOLEAN \X BOOLEAN \X BOOLEAN,
         upkeep' \in Upkeep, upkeep' # "none" => paused',
         open' = open, ~open => UNCHANGED <<stopping, paused, upkeep>> \/ stopping', Quiet
  PROVE  Kept
<1> USE DEF Inv
<1>1. QueueInv' /\ Calm /\ SameReaders /\ Pooled /\ Live' = Live
  BY AbortKeeps
<1>2. JobsInv'
  BY <1>1 DEF JobsInv, Calm, Live
<1>3. ServiceInv' /\ Flags'
  BY <1>1 DEF ServiceInv, ClosedStoreUntouched, Flags
<1> QED BY <1>1, <1>2, <1>3, ReadersKeep DEF Kept

\* Steps that no run takes part in.
LEMMA RunsRest ==
  ASSUME Inv, UNCHANGED <<run, jobs, slots>>, LeaseInv', Flags', ServiceInv', Quiet
  PROVE  Kept
<1> USE DEF Inv
<1>1. Holders' = Holders /\ Live' = Live /\ UNCHANGED <<active, ahead>>
  BY DEF Holders, Live, slots
<1>2. QueueInv' /\ JobsInv'
  BY <1>1 DEF QueueInv, SlotAccounting, JobsInv
<1> QED BY <1>1, <1>2 DEF Kept, Pooled

\* Leases of another process keep the invariant.
LEMMA LeasesKeep ==
  ASSUME Inv, NEW s \in Sources, ForeignLease(s) \/ LeaseGone(s)
  PROVE  Kept
<1> USE DEF Inv
<1>1. PICK holder \in {Nobody, Foreign} : lease' = [lease EXCEPT ![s] = holder]
  BY DEF ForeignLease, LeaseGone
<1>2. UNCHANGED <<run, jobs, slots, enabled, revoking, service>>
  BY DEF ForeignLease, LeaseGone
<1>3. lease' \in [Sources -> Runs \cup {Nobody, Foreign}]
      /\ \A q \in Runs, t \in Sources : lease'[t] = q => lease[t] = q
  BY <1>1, SchedulerAssumption DEF LeaseInv
<1>4. LeaseInv'
  <2>1. \A q \in Runs : run[q].pc = "reading" => run[q].source \in Sources
    BY DEF JobsInv, Live
  <2> QED BY <1>2, <1>3, <2>1 DEF LeaseInv, DisabledSourceNotRead, LookedAtEnabled
<1>5. ServiceInv' /\ Flags' /\ Quiet
  BY <1>2 DEF ServiceInv, ClosedStoreUntouched, Live, Flags, Quiet, service
<1> QED BY <1>2, <1>4, <1>5, RunsRest

\* Another process changes sources that have no lease: whoever has looked at one
\* of them is overtaken.
LEMMA ResettleKeeps ==
  ASSUME Inv, NEW settings \in [Sources -> BOOLEAN], Resettle(settings),
         \A s \in Sources : lease[s] # Nobody => settings[s] = enabled[s]
  PROVE  Kept
<1> USE DEF Inv
<1> DEFINE Run == [source : Sources \cup {Nobody}, pc : Pcs, aborted : BOOLEAN, overtaken : BOOLEAN]
<1>1. UNCHANGED <<jobs, slots, lease, revoking, service>> /\ enabled' = settings
  BY DEF Resettle
<1>2. \A r \in Runs : run[r].pc = "looked" => run[r].source \in Sources
  BY DEF JobsInv, Live
<1>3. \A r \in Runs : run'[r] = IF run[r].pc = "looked"
                                THEN [run[r] EXCEPT !.overtaken = ~settings[run[r].source]]
                                ELSE run[r]
  BY DEF Resettle
<1>4. \A r \in Runs : run[r] \in Run
  BY DEF QueueInv
<1>5. \A r \in Runs : /\ run'[r].pc = run[r].pc /\ run'[r].source = run[r].source
                      /\ run'[r].aborted = run[r].aborted
                      /\ run[r].pc # "looked" => run'[r] = run[r]
                      /\ run[r].pc = "looked" => run'[r].overtaken = ~settings[run[r].source]
  BY <1>3, <1>4
<1>6. run' \in [Runs -> Run]
  <2>1. \A r \in Runs : run[r].pc = "looked" => settings[run[r].source] \in BOOLEAN
    BY <1>2
  <2>2. \A r \in Runs : run'[r] \in Run
    BY <1>3, <1>4, <2>1
  <2> QED BY <2>2 DEF Resettle
<1>7. Holders' = Holders /\ Live' = Live
  BY <1>5 DEF Holders, Live
<1>8. QueueInv' /\ Calm
  BY <1>1, <1>5, <1>6, <1>7 DEF QueueInv, SlotAccounting, Calm, slots
<1>9. DisabledSourceNotRead'
  <2> SUFFICES ASSUME NEW r \in Runs, run'[r].pc = "reading", lease'[run'[r].source] = r
               PROVE  enabled'[run'[r].source] \/ run'[r].overtaken
    BY DEF DisabledSourceNotRead
  <2>1. run[r].pc = "reading" /\ run'[r] = run[r] /\ lease[run[r].source] = r
    BY <1>1, <1>5
  <2>2. run[r].source \in Sources /\ lease[run[r].source] # Nobody
    BY <2>1, SchedulerAssumption DEF JobsInv, Live
  <2> QED BY <1>1, <2>1, <2>2 DEF LeaseInv, DisabledSourceNotRead
<1>10. LookedAtEnabled'
  BY <1>1, <1>2, <1>5 DEF LookedAtEnabled
<1>11. LeaseInv'
  BY <1>1, <1>9, <1>10 DEF LeaseInv
<1> QED BY <1>1, <1>7, <1>8, <1>11, CalmKeeps DEF Kept, Pooled, Quiet, service, slots

\* Other processes keep the invariant.
LEMMA ElsewhereKeeps ==
  ASSUME Inv, Elsewhere
  PROVE  Kept
<1>1. ASSUME NEW s \in Sources, ChangedElsewhere(s) PROVE Kept
  <2>1. PICK on \in BOOLEAN : Resettle([enabled EXCEPT ![s] = on])
    BY <1>1 DEF ChangedElsewhere
  <2>2. lease[s] = Nobody
    BY <1>1 DEF ChangedElsewhere
  <2>3. [enabled EXCEPT ![s] = on] \in [Sources -> BOOLEAN]
        /\ \A t \in Sources : lease[t] # Nobody => [enabled EXCEPT ![s] = on][t] = enabled[t]
    BY <2>2 DEF Inv, LeaseInv
  <2> QED BY <2>1, <2>3, ResettleKeeps
<1>2. CASE ClearedElsewhere
  BY <1>2, ResettleKeeps DEF ClearedElsewhere, Leased
<1> QED BY <1>1, <1>2, LeasesKeep DEF Elsewhere

\* What this service writes to a source nobody has a lease of disturbs no
\* reader, and nobody has looked at it.
LEMMA SourceKeeps ==
  ASSUME Inv, ~MidTurn, NEW s \in Sources, NEW on \in BOOLEAN, lease[s] = Nobody,
         enabled' = [enabled EXCEPT ![s] = on], UNCHANGED <<run, lease>>
  PROVE  LeaseInv'
<1> USE DEF Inv
<1>1. \A q \in Runs : run[q].pc = "reading" /\ lease[run[q].source] = q
                        => run[q].source \in Sources /\ run[q].source # s
  BY SchedulerAssumption DEF JobsInv, Live
<1> QED BY <1>1 DEF LeaseInv, DisabledSourceNotRead, LookedAtEnabled, MidTurn

\* A revocation that finishes disables no source that is being read.
LEMMA RevokedKeeps ==
  ASSUME Inv, ~MidTurn, NEW s \in Sources, enabled' = Revoked(s), UNCHANGED <<run, lease>>
  PROVE  LeaseInv'
<1>1. CASE open /\ lease[s] = Nobody
  BY <1>1, SourceKeeps DEF Revoked
<1>2. CASE ~(open /\ lease[s] = Nobody)
  BY <1>2 DEF Revoked, Inv, LeaseInv, DisabledSourceNotRead, LookedAtEnabled
<1> QED BY <1>1, <1>2

\* Requests about one source keep the invariant.
LEMMA SourceRequestsKeep ==
  ASSUME Inv, ~MidTurn, NEW s \in Sources, SaveSource(s) \/ BeginRevoke(s) \/ FinishRevoke(s) \/ Cancel(s)
  PROVE  Kept
<1> USE DEF Inv
<1>1. CASE SaveSource(s)
  <2>1. LeaseInv'
    BY <1>1, SourceKeeps DEF SaveSource
  <2>2. ServiceInv' /\ Flags' /\ Quiet
    BY <1>1 DEF SaveSource, ServiceInv, ClosedStoreUntouched, Live, Flags, Quiet, service
  <2> QED BY <1>1, <2>1, <2>2, RunsRest DEF SaveSource
<1>2. CASE FinishRevoke(s)
  <2>1. LeaseInv'
    BY <1>2, RevokedKeeps DEF FinishRevoke
  <2>2. revoking' \in [Sources -> Runs \cup {Nobody}]
    BY <1>2 DEF FinishRevoke, Flags
  <2>3. ServiceInv' /\ Flags' /\ Quiet
    BY <1>2, <2>2 DEF FinishRevoke, ServiceInv, ClosedStoreUntouched, Live, Flags, Quiet, service
  <2> QED BY <1>2, <2>1, <2>3, RunsRest DEF FinishRevoke
<1>3. CASE Cancel(s)
  BY <1>3, AbortStepKeeps DEF Cancel, Flags, ServiceInv, Quiet, service
<1>4. CASE BeginRevoke(s) /\ jobs[s] = Nobody
  <2>1. enabled' = Revoked(s) /\ UNCHANGED <<run, ahead, revoking, active, jobs, lease, service>>
    BY <1>4 DEF BeginRevoke
  <2>2. LeaseInv'
    BY <2>1, RevokedKeeps
  <2>3. ServiceInv' /\ Flags' /\ Quiet
    BY <2>1 DEF ServiceInv, ClosedStoreUntouched, Live, Flags, Quiet, service
  <2> QED BY <2>1, <2>2, <2>3, RunsRest DEF slots
<1>5. CASE BeginRevoke(s) /\ jobs[s] # Nobody
  <2>1. /\ Abort({jobs[s]}) /\ revoking' = [revoking EXCEPT ![s] = jobs[s]]
        /\ UNCHANGED <<enabled, active, jobs, lease, service>>
    BY <1>5 DEF BeginRevoke
  <2>2. revoking' \in [Sources -> Runs \cup {Nobody}]
    BY <2>1 DEF Flags, JobsInv
  <2> QED BY <2>1, <2>2, AbortStepKeeps DEF Flags, ServiceInv, Quiet, service
<1> QED BY <1>1, <1>2, <1>3, <1>4, <1>5

\* Maintenance keeps the invariant, and finds no run.
LEMMA UpkeepKeeps ==
  ASSUME Inv, (\E kind \in Upkeep \ {"none"} : BeginUpkeep(kind)) \/ ClearIndex \/ DeleteAll
  PROVE  Kept
<1> USE DEF Inv
<1>1. ASSUME NEW kind \in Upkeep \ {"none"}, BeginUpkeep(kind) PROVE Kept
  BY <1>1, AbortStepKeeps DEF BeginUpkeep, Flags, ServiceInv, Quiet
<1>2. CASE ClearIndex
  <2>1. Live = {} /\ Quiet
    BY <1>2, NobodyLeft DEF ClearIndex, Quiet
  <2>2. LeaseInv'
    <3>1. \A q \in Runs : run[q].pc \notin {"looked", "reading"}
      BY <2>1 DEF Live
    <3>2. enabled' \in [Sources -> BOOLEAN]
      BY <1>2 DEF ClearIndex, LeaseInv
    <3> QED BY <1>2, <3>1, <3>2 DEF ClearIndex, LeaseInv, DisabledSourceNotRead, LookedAtEnabled
  <2>3. ServiceInv' /\ Flags'
    BY <1>2, <2>1 DEF ClearIndex, Resumed, ServiceInv, ClosedStoreUntouched, Live, Flags, Upkeep
  <2> QED BY <1>2, <2>1, <2>2, <2>3, RunsRest DEF ClearIndex
<1>3. CASE DeleteAll
  <2>1. Live = {} /\ Quiet
    BY <1>3, NobodyLeft DEF DeleteAll, Quiet
  <2>2. LeaseInv'
    BY <1>3 DEF DeleteAll, LeaseInv, DisabledSourceNotRead, LookedAtEnabled
  <2>3. upkeep' = "none" /\ stopping' = stopping /\ Live' = {}
    BY <1>3, <2>1 DEF DeleteAll, Live
  <2>4. ~open' => stopping' \/ (paused' /\ upkeep' = "none")
    <3>1. CASE open /\ open' = FALSE /\ UNCHANGED <<paused, timer>>
      BY <1>3, <2>3, <3>1 DEF DeleteAll, ServiceInv
    <3>2. CASE UNCHANGED open
      BY <1>3, <2>3, <3>2 DEF DeleteAll, ServiceInv
    <3> QED BY <1>3, <3>1, <3>2 DEF DeleteAll
  <2>5. ServiceInv'
    BY <2>3, <2>4 DEF ServiceInv, ClosedStoreUntouched
  <2>6. <<paused', stopping', open', timer'>> \in BOOLEAN \X BOOLEAN \X BOOLEAN \X BOOLEAN
    BY <1>3 DEF DeleteAll, Resumed, Flags
  <2>7. Flags'
    BY <1>3, <2>3, <2>6 DEF DeleteAll, Flags, Upkeep
  <2> QED BY <1>3, <2>1, <2>2, <2>5, <2>7, RunsRest DEF DeleteAll
<1> QED BY <1>1, <1>2, <1>3

\* Closing the service keeps the invariant.
LEMMA ShutdownKeeps ==
  ASSUME Inv, Stop \/ CloseStore
  PROVE  Kept
<1> USE DEF Inv
<1>1. CASE Stop
  BY <1>1, AbortStepKeeps DEF Stop, Flags, ServiceInv, Quiet
<1>2. CASE CloseStore
  <2>1. Live = {}
    BY <1>2, NobodyLeft DEF CloseStore
  <2>2. LeaseInv' /\ ServiceInv' /\ Flags' /\ Quiet
    BY <1>2, <2>1 DEF CloseStore, LeaseInv, DisabledSourceNotRead, LookedAtEnabled, ServiceInv, ClosedStoreUntouched,
                      Live, Flags, Quiet
  <2> QED BY <1>2, <2>2, RunsRest DEF CloseStore
<1> QED BY <1>1, <1>2

\* Every step keeps the invariant.
LEMMA NextKeeps == Inv /\ Next => Kept
<1> SUFFICES ASSUME Inv, Next PROVE Kept
  OBVIOUS
<1>1. ASSUME NEW r \in Runs, Turn(r) PROVE Kept
  BY <1>1, AcquireKeeps, ResumeKeeps, LookUpKeeps, RejectKeeps, SettleKeeps DEF Turn
<1>2. ASSUME NEW r \in Runs, HeartbeatFails(r) PROVE Kept
  BY <1>2, AbortStepKeeps DEF HeartbeatFails, Inv, Flags, ServiceInv, Quiet, service
<1>3. ASSUME NEW s \in Sources, Refresh(s) \/ Tick(s) PROVE Kept
  BY <1>3, StartKeeps DEF Refresh, Tick
<1>4. CASE ~MidTurn /\ Serve
  BY <1>1, <1>2, <1>3, <1>4, SourceRequestsKeep, UpkeepKeeps, ShutdownKeeps DEF Serve
<1> QED BY <1>4, TakeLeaseKeeps, ElsewhereKeeps DEF Next

\* A stuttering step keeps the invariant.
LEMMA StutterKeeps == Inv /\ UNCHANGED vars => Inv'
<1> SUFFICES ASSUME Inv, UNCHANGED vars PROVE Inv'
  OBVIOUS
<1>1. UNCHANGED <<run, jobs, slots, lease, enabled, revoking, service>>
  BY DEF vars, slots, service
<1>2. LeaseInv' /\ Flags' /\ ServiceInv' /\ Quiet
  BY <1>1 DEF Inv, LeaseInv, DisabledSourceNotRead, LookedAtEnabled, Flags, ServiceInv, ClosedStoreUntouched, Live, Quiet, service
<1> QED BY <1>1, <1>2, RunsRest DEF Kept

-----------------------------------------------------------------------------
(* The theorems                                                              *)

\* The inductive invariant of scheduler.ts and service.ts: the queue, the jobs,
\* the leases and the state of the service agree at every step.
THEOREM Invariance == Spec => []Inv
<1>1. Inv /\ [Next]_vars => Inv'
  BY NextKeeps, StutterKeeps DEF Kept
<1> QED BY <1>1, InitInv, PTL DEF Spec

\* Runs, queue, leases and flags keep their types.
THEOREM TypeCorrect == Spec => []TypeOK
<1>1. Inv => TypeOK
  BY DEF Inv, QueueInv, JobsInv, LeaseInv, Flags, TypeOK
<1> QED BY <1>1, Invariance, PTL

\* scheduler.ts and service.ts: each slot is accounted for, a source has one
\* run, nothing runs against a closed store, and a source that is read is
\* enabled, unless another process disabled it between the look and the lease.
THEOREM Containment == Spec => []RunsContained
<1>1. Inv => RunsContained
  <2> SUFFICES ASSUME Inv PROVE RunsContained
    OBVIOUS
  <2>1. OneRunPerSource
    BY DEF Inv, JobsInv, OneRunPerSource
  <2> QED BY <2>1 DEF Inv, QueueInv, ServiceInv, LeaseInv, RunsContained
<1> QED BY <1>1, Invariance, PTL

\* service.ts, pause(): clear-index and delete-all find no run, whichever runs
\* were started, cancelled and queued before.
THEOREM UpkeepAlone == Spec => UpkeepRunsAlone
<1>1. Inv /\ [Next]_vars => [upkeep # "none" /\ upkeep' = "none" => Live = {}]_vars
  BY NextKeeps DEF Kept, Quiet
<1> QED BY <1>1, Invariance, PTL DEF Spec, UpkeepRunsAlone

\* scheduler.ts implements SlotPool: a slot given back goes to the run that has
\* waited longest, and nobody waits beside an idle slot.
THEOREM Refinement == Spec => ImplementsSlotPool
<1>1. Init => Pool!Init
  BY DEF Init, Pool!Init, Holders, NoRun
<1>2. Inv /\ [Next]_vars => [Pool!Next]_Pool!vars
  <2> SUFFICES ASSUME Inv, [Next]_vars PROVE [Pool!Next]_Pool!vars
    OBVIOUS
  <2>1. CASE Next
    BY <2>1, NextKeeps DEF Kept, Pooled, Pool!vars
  <2>2. CASE UNCHANGED vars
    BY <2>2 DEF vars, Pool!vars, Holders
  <2> QED BY <2>1, <2>2
<1> QED BY <1>1, <1>2, Invariance, PTL DEF Spec, ImplementsSlotPool, Pool!Spec

-----------------------------------------------------------------------------
(* Takeovers                                                                 *)

\* An answer that is still on its way is truthful when it arrives.
AnswersTrue == \A t \in Takeovers : race[t] = "yes" => takeover[t].run \in stopped

\* Whoever is to become the owner has been named.
SuccessorNamed ==
  \A t \in Takeovers : Status(t) = "successor-confirmed" => takeover[t].successor \in Sessions

TakeoverInv == TakeoverTypes /\ OneTakeoverPerRun /\ StoppedBeforeSuccession /\ AnswersTrue /\ SuccessorNamed

\* The conjuncts of OneTakeoverPerRun speak of the takeovers Active finds.
LEMMA HoldingIsActive == TakeoverTypes => \A t \in Takeovers : Status(t) \in Holding <=> Active(t)
  BY DEF TakeoverTypes, Records, Statuses, NoTakeover, Status, Holding, Active

\* A takeover that changes its status only, to one that Holding or StopProven
\* allow it, disturbs none of the others.
LEMMA MoveKeeps ==
  ASSUME TakeoverInv, NEW t \in Takeovers, NEW status \in Statuses,
         takeover[t] # NoTakeover, Move(t, status), UNCHANGED stopped,
         status \in Holding => Status(t) \in Holding,
         status = "successor-confirmed" => Status(t) = "successor-confirmed",
         status \in StopProven => takeover[t].run \in stopped,
         race' \in [Takeovers -> {"idle", "running", "yes", "no", "failed"}],
         \A u \in Takeovers : race'[u] = "yes" => race[u] = "yes"
  PROVE  TakeoverInv'
<1> DEFINE moved == [takeover[t] EXCEPT !.status = status]
<1>1. takeover[t] \in Records /\ moved \in Records
  BY DEF TakeoverInv, TakeoverTypes, Records
<1>2. moved.run = takeover[t].run /\ moved.status = status
      /\ moved.successor = takeover[t].successor
  BY <1>1 DEF Records
<1>3. takeover' = [takeover EXCEPT ![t] = moved]
  BY DEF Move
<1> HIDE DEF moved
<1>4. takeover' \in [Takeovers -> Records \cup {NoTakeover}]
  BY <1>1, <1>3 DEF TakeoverInv, TakeoverTypes
<1>5. TakeoverTypes'
  BY <1>4 DEF TakeoverInv, TakeoverTypes
<1>6. OneTakeoverPerRun'
  BY <1>2, <1>3 DEF TakeoverInv, TakeoverTypes, OneTakeoverPerRun, Status
<1>7. (StoppedBeforeSuccession /\ AnswersTrue /\ SuccessorNamed)'
  BY <1>2, <1>3 DEF TakeoverInv, TakeoverTypes, StoppedBeforeSuccession, AnswersTrue, SuccessorNamed, Status
<1> QED BY <1>5, <1>6, <1>7 DEF TakeoverInv

\* The invariant holds when nothing was requested.
LEMMA TakeoverInitially == TakeoverInit => TakeoverInv
  BY DEF TakeoverInit, TakeoverInv, TakeoverTypes, OneTakeoverPerRun, StoppedBeforeSuccession, AnswersTrue,
         SuccessorNamed, NoTakeover, Status, Holding, StopProven

\* Every step keeps the invariant.
LEMMA NextInv == TakeoverInv /\ [TakeoverNext]_takeoverVars => TakeoverInv'
<1> SUFFICES ASSUME TakeoverInv, [TakeoverNext]_takeoverVars PROVE TakeoverInv'
  OBVIOUS
<1> USE TakeoverAssumption
<1>1. CASE UNCHANGED takeoverVars
  BY <1>1 DEF takeoverVars, TakeoverInv, TakeoverTypes, OneTakeoverPerRun, StoppedBeforeSuccession, AnswersTrue, SuccessorNamed, Status
<1>2. ASSUME NEW r \in TakenRuns, StopRun(r) PROVE TakeoverInv'
  BY <1>2 DEF StopRun, TakeoverInv, TakeoverTypes, OneTakeoverPerRun, StoppedBeforeSuccession, AnswersTrue, SuccessorNamed, Status
<1>3. ASSUME NEW t \in Takeovers, NEW r \in TakenRuns, NEW s \in Sessions,
             NEW control \in {"missing", "throws", "works"}, Request(t, r, s, control)
      PROVE TakeoverInv'
  <2> DEFINE new == [status |-> IF control = "works" THEN "stop-requested" ELSE "stop-unavailable",
                     run |-> r, owner |-> s, successor |-> NoSession]
  <2>1. new \in Records /\ new.run = r /\ new.status \in {"stop-requested", "stop-unavailable"}
    BY DEF Records, Statuses
  <2>2. takeover' = [takeover EXCEPT ![t] = new] /\ UNCHANGED stopped
    BY <1>3 DEF Request
  <2>3. \A u \in Takeovers : takeover[u].run = r => Status(u) \notin Holding
    BY <1>3, HoldingIsActive DEF TakeoverInv, Request
  <2>4. race' \in [Takeovers -> {"idle", "running", "yes", "no", "failed"}]
        /\ \A u \in Takeovers : race'[u] = "yes" => u # t /\ race[u] = "yes"
    BY <1>3 DEF Request, TakeoverInv, TakeoverTypes
  <2> HIDE DEF new
  <2>5. TakeoverTypes'
    BY <2>1, <2>2, <2>4 DEF TakeoverInv, TakeoverTypes
  <2>6. OneTakeoverPerRun'
    BY <2>1, <2>2, <2>3 DEF TakeoverInv, TakeoverTypes, OneTakeoverPerRun, Status
  <2>7. (StoppedBeforeSuccession /\ AnswersTrue /\ SuccessorNamed)'
    BY <2>1, <2>2, <2>4 DEF TakeoverInv, TakeoverTypes, StoppedBeforeSuccession, AnswersTrue, SuccessorNamed, Status, StopProven
  <2> QED BY <2>5, <2>6, <2>7 DEF TakeoverInv
<1>4. ASSUME NEW t \in Takeovers, NEW answer \in {"yes", "no", "failed"}, Answer(t, answer)
      PROVE TakeoverInv'
  BY <1>4 DEF Answer, TakeoverInv, TakeoverTypes, OneTakeoverPerRun, StoppedBeforeSuccession, AnswersTrue, SuccessorNamed, Status
<1>5. ASSUME NEW t \in Takeovers, Deadline(t) PROVE TakeoverInv'
  BY <1>5 DEF Deadline, TakeoverInv, TakeoverTypes, OneTakeoverPerRun, StoppedBeforeSuccession, AnswersTrue, SuccessorNamed, Status
<1>6. ASSUME NEW t \in Takeovers, AfterRace(t) PROVE TakeoverInv'
  <2>1. CASE takeover[t] = NoTakeover
    <3>1. Outcome(t) = "none"
      BY <2>1 DEF Outcome, Status, NoTakeover
    <3>2. UNCHANGED <<takeover, stopped>>
      BY <1>6, <2>1, <3>1 DEF AfterRace, Move, NoTakeover, TakeoverInv, TakeoverTypes
    <3> QED BY <1>6, <3>2 DEF AfterRace, TakeoverInv, TakeoverTypes, OneTakeoverPerRun, StoppedBeforeSuccession,
                               AnswersTrue, SuccessorNamed, Status
  <2>2. CASE takeover[t] # NoTakeover
    <3>1. takeover[t] \in Records /\ Status(t) \in Statuses
      BY <2>2 DEF TakeoverInv, TakeoverTypes, Records, Status
    <3>2. Outcome(t) \in Statuses /\ (Outcome(t) \in Holding => Status(t) \in Holding)
          /\ (Outcome(t) = "successor-confirmed" => Status(t) = "successor-confirmed")
      BY <3>1 DEF Outcome, Statuses, Holding
    <3>3. Outcome(t) \in StopProven => takeover[t].run \in stopped
      BY <3>1 DEF Outcome, StopProven, TakeoverInv, StoppedBeforeSuccession, AnswersTrue
    <3> QED BY <1>6, <2>2, <3>2, <3>3, MoveKeeps DEF AfterRace, TakeoverInv, TakeoverTypes
  <2> QED BY <2>1, <2>2
<1>7. ASSUME NEW t \in Takeovers, ConfirmStop(t) \/ FixSnapshot(t) \/ Close(t) PROVE TakeoverInv'
  <2>1. takeover[t] # NoTakeover
    BY <1>7 DEF ConfirmStop, AwaitingStop, FixSnapshot, Close, Status, NoTakeover
  <2>2. CASE ConfirmStop(t)
    BY <2>1, <2>2, MoveKeeps DEF ConfirmStop, AwaitingStop, Statuses, Holding, TakeoverInv, TakeoverTypes
  <2>3. CASE FixSnapshot(t)
    BY <2>1, <2>3, MoveKeeps
    DEF FixSnapshot, Statuses, Holding, StopProven, TakeoverInv, TakeoverTypes, StoppedBeforeSuccession
  <2>4. CASE Close(t)
    BY <2>1, <2>4, MoveKeeps DEF Close, Statuses, Holding, StopProven, TakeoverInv, TakeoverTypes
  <2> QED BY <1>7, <2>2, <2>3, <2>4
<1>8. ASSUME NEW t \in Takeovers, NEW s \in Sessions, ConfirmSuccessor(t, s) PROVE TakeoverInv'
  <2>1. takeover[t] \in Records
    BY <1>8 DEF ConfirmSuccessor, StopKnown, Status, NoTakeover, TakeoverInv, TakeoverTypes
  <2>2. PICK new \in Records : /\ new.run = takeover[t].run /\ new.status = "successor-confirmed" /\ new.successor = s
                               /\ takeover' = [takeover EXCEPT ![t] = new]
    BY <1>8, <2>1 DEF ConfirmSuccessor, Records, Statuses
  <2>3. Status(t) \in Holding /\ takeover[t].run \in stopped
    BY <1>8 DEF ConfirmSuccessor, StopKnown, Holding, StopProven, TakeoverInv, StoppedBeforeSuccession
  <2> QED BY <1>8, <2>2, <2>3 DEF ConfirmSuccessor, TakeoverInv, TakeoverTypes, OneTakeoverPerRun,
            StoppedBeforeSuccession, AnswersTrue, SuccessorNamed, Status
<1>9. ASSUME NEW t \in Takeovers, Activate(t) PROVE TakeoverInv'
  <2>1. takeover[t] \in Records /\ takeover[t].successor \in Sessions
    BY <1>9 DEF Activate, SuccessorKnown, SuccessorNamed, Status, NoTakeover, TakeoverInv, TakeoverTypes
  <2>2. PICK new \in Records : /\ new.run = takeover[t].run /\ new.status = "active"
                               /\ takeover' = [takeover EXCEPT ![t] = new]
    BY <1>9, <2>1 DEF Activate, Records, Statuses
  <2>3. Status(t) \in Holding /\ takeover[t].run \in stopped
    BY <1>9 DEF Activate, SuccessorKnown, Holding, StopProven, TakeoverInv, StoppedBeforeSuccession
  <2> QED BY <1>9, <2>2, <2>3 DEF Activate, TakeoverInv, TakeoverTypes, OneTakeoverPerRun,
            StoppedBeforeSuccession, AnswersTrue, SuccessorNamed, Status
<1> QED BY <1>1, <1>2, <1>3, <1>4, <1>5, <1>6, <1>7, <1>8, <1>9 DEF TakeoverNext

\* The inductive invariant of takeover.ts: ownership, stop and successor agree.
THEOREM TakeoverInvariance == TakeoverSpec => []TakeoverInv
  BY TakeoverInitially, NextInv, PTL DEF TakeoverSpec

\* Records and races keep their types, and an owner is never missing.
THEOREM TakeoverTypeCorrect == TakeoverSpec => []TakeoverTypes
<1>1. TakeoverInv => TakeoverTypes
  BY DEF TakeoverInv
<1> QED BY TakeoverInvariance, <1>1, PTL

\* takeover.ts: a run has at most one takeover under way, for any number of
\* requests that wait, time out, are confirmed and closed, and it passes on
\* only after it stopped.
THEOREM OneSuccession == TakeoverSpec => []SuccessionSafe
<1>1. TakeoverInv => SuccessionSafe
  BY DEF TakeoverInv, SuccessionSafe
<1> QED BY TakeoverInvariance, <1>1, PTL

\* What the steps of one takeover do to any of them; the others keep theirs.
LEMMA StatusSteps ==
  ASSUME TakeoverInv, [TakeoverNext]_takeoverVars, NEW t \in Takeovers
  PROVE  /\ Status(t) \in StopProven => Status(t)' \in StopProven \cup {"closed"}
         /\ Status(t) = "stop-unavailable" => Status(t)' \in {"stop-unavailable", "closed"}
         /\ Status(t) = "closed" => UNCHANGED takeover[t]
<1> DEFINE Fine == /\ Status(t) \in StopProven => Status(t)' \in StopProven \cup {"closed"}
                   /\ Status(t) = "stop-unavailable" => Status(t)' \in {"stop-unavailable", "closed"}
                   /\ Status(t) = "closed" => UNCHANGED takeover[t]
<1> USE DEF Status, StopProven
<1>1. CASE UNCHANGED takeover
  BY <1>1
<1>2. ASSUME NEW u \in Takeovers, NEW r \in TakenRuns, NEW s \in Sessions,
             NEW control \in {"missing", "throws", "works"}, Request(u, r, s, control)
      PROVE Fine
  BY <1>2 DEF Request, NoTakeover, TakeoverInv, TakeoverTypes
<1>3. ASSUME NEW u \in Takeovers, AfterRace(u) PROVE Fine
  <2>1. CASE Status(u) = "stop-requested"
    BY <1>3, <2>1 DEF AfterRace, Move, Outcome, TakeoverInv, TakeoverTypes
  <2>2. CASE Status(u) # "stop-requested"
    <3>1. takeover' = [takeover EXCEPT ![u].status = takeover[u].status]
      BY <1>3, <2>2 DEF AfterRace, Move, Outcome
    <3>2. takeover' = takeover
      BY <3>1 DEF TakeoverInv, TakeoverTypes, Records, NoTakeover
    <3> QED BY <3>2
  <2> QED BY <2>1, <2>2
<1>4. ASSUME NEW u \in Takeovers, ConfirmStop(u) \/ FixSnapshot(u) \/ Close(u) PROVE Fine
  <2>1. PICK status \in {"stop-confirmed", "snapshot-fixed", "closed"} :
           /\ takeover' = [takeover EXCEPT ![u].status = status]
           /\ Status(u) \in StopProven => status \in StopProven \cup {"closed"}
           /\ Status(u) = "stop-unavailable" => status = "closed"
           /\ Status(u) # "closed" /\ Status(u) # "none"
    BY <1>4 DEF ConfirmStop, AwaitingStop, FixSnapshot, Close, Move
  <2>2. \A v \in Takeovers : v # u => takeover'[v] = takeover[v]
    BY <2>1 DEF TakeoverInv, TakeoverTypes
  <2>3. takeover[u] \in Records
    BY <2>1 DEF TakeoverInv, TakeoverTypes, NoTakeover
  <2>4. takeover'[u].status = status
    BY <2>1, <2>3 DEF TakeoverInv, TakeoverTypes, Records
  <2> QED BY <2>1, <2>2, <2>4
<1>5. ASSUME NEW u \in Takeovers, NEW s \in Sessions, ConfirmSuccessor(u, s) PROVE Fine
  BY <1>5 DEF ConfirmSuccessor, StopKnown, TakeoverInv, TakeoverTypes
<1>6. ASSUME NEW u \in Takeovers, Activate(u) PROVE Fine
  BY <1>6 DEF Activate, SuccessorKnown, TakeoverInv, TakeoverTypes
<1>7. Fine
  BY <1>1, <1>2, <1>3, <1>4, <1>5, <1>6 DEF TakeoverNext, StopRun, Answer, Deadline, takeoverVars
<1> QED BY <1>7

\* takeover.ts, request(): whoever loses the race does not take a confirmed
\* stop back and revives no takeover that was closed or given up.
THEOREM LoserDoesNothing == TakeoverSpec => LateAnswerHarmless
<1>1. TakeoverInv /\ [TakeoverNext]_takeoverVars =>
        [\A t \in Takeovers :
           /\ Status(t) \in StopProven => Status(t)' \in StopProven \cup {"closed"}
           /\ Status(t) = "closed" => UNCHANGED takeover[t]
           /\ Status(t) = "stop-unavailable" => Status(t)' \in {"stop-unavailable", "closed"}]_takeoverVars
  BY StatusSteps
<1> QED BY TakeoverInvariance, <1>1, PTL DEF TakeoverSpec, LateAnswerHarmless

-----------------------------------------------------------------------------
(* The certification harness                                                 *)

Making == {"workspace", "context", "baseline", "preparation"}
Inspecting == {"files", "sum", "notes", "report", "write", "truncate", "record"}
Texts == {"before", "after", "other"}

PrepRows == [run : Dirs, tool : Nat, scenario : {"A", "C"}]
DriftRows == [prep : PrepRows]
SeenRows == [protected : BOOLEAN, sum : Texts, notes : Texts]
ReportRows ==
  [scenario : {"A", "C"}, tool : Nat, seen : SeenRows, context : BOOLEAN, baseline : BOOLEAN, drift : BOOLEAN]
EvidenceRows ==
  [prep : PrepRows, state : {"observed_pass", "observed_with_issue"}, claims : BOOLEAN, drift : BOOLEAN,
   report : ReportRows]
DirRows ==
  [made : BOOLEAN, prep : PrepRows \cup {Missing}, protected : BOOLEAN, sum : Texts, notes : Texts,
   context : BOOLEAN, baseline : BOOLEAN, drift : DriftRows \cup {Missing},
   evidence : EvidenceRows \cup {Missing}, edited : BOOLEAN]
MakingRows == [pc : Making, dir : Dirs, tool : Nat, scenario : {"A", "C"}]
InspectingRows ==
  [pc : Inspecting, command : {"judge", "drift", "validate"}, dir : Dirs, prep : PrepRows, seen : SeenRows,
   record : EvidenceRows \cup {Missing}]

\* A directory: its preparation is the last of its files, a record of its drift
\* was written by a command, and its evidence speaks of a report that was put out.
DirTrue(r) ==
  /\ r \in DirRows
  /\ ~r.made => r.prep = Missing /\ r.drift = Missing
  /\ r.prep # Missing /\ ~r.edited => r.protected /\ r.context /\ r.baseline
  /\ r.drift # Missing /\ ~r.edited => r.notes = "after" /\ r.drift.prep = r.prep
  /\ r.drift # Missing => r.drift \in drifts
  /\ r.evidence # Missing => r.evidence.report \in reports

\* A command that makes an experiment has written what comes before its file.
MakingTrue(k) ==
  LET r == dir[k.dir] IN
    /\ k \in MakingRows /\ r.made /\ r.prep = Missing /\ r.drift = Missing
    /\ k.pc \in {"context", "baseline", "preparation"} => r.protected
    /\ k.pc \in {"baseline", "preparation"} => r.context
    /\ k.pc = "preparation" => r.baseline

\* A command that reads one speaks of its preparation, which stays; the one that
\* is about to record the drift has finished the notes.
InspectingTrue(k) ==
  LET r == dir[k.dir] IN
    /\ k \in InspectingRows /\ k.prep # Missing /\ r.prep = k.prep
    /\ k.pc = "record" /\ ~r.edited => r.notes = "after"
    /\ k.command = "validate" => k.record # Missing /\ k.record.prep = k.prep /\ k.record.report \in reports

CommandTrue(k) == k = NotRunning \/ MakingTrue(k) \/ InspectingTrue(k)

\* Nobody else makes the same experiment.
Alone ==
  \A b, c \in Commands : cmd[b].pc \in Making /\ cmd[c].pc \in Making /\ cmd[b].dir = cmd[c].dir => b = c

CertificationInv ==
  /\ tool \in Nat /\ allowance \in [commands : SUBSET Commands, tools : Nat, edits : Nat]
  /\ dir \in [Dirs -> DirRows] /\ \A d \in Dirs : DirTrue(dir[d])
  /\ cmd \in [Commands -> {NotRunning} \cup MakingRows \cup InspectingRows]
  /\ \A c \in Commands : CommandTrue(cmd[c])
  /\ drifts \subseteq DriftRows /\ reports \subseteq ReportRows
  /\ Alone /\ CompleteIsEarned

-----------------------------------------------------------------------------
(* What a step leaves alone.                                                 *)

LEMMA CommandKinds ==
  ASSUME CertificationInv, NEW c \in Commands
  PROVE  /\ cmd[c].pc \in Making => MakingTrue(cmd[c])
         /\ cmd[c].pc \in Inspecting => InspectingTrue(cmd[c])
BY DEF CertificationInv, CommandTrue, MakingTrue, InspectingTrue, MakingRows, InspectingRows,
       Making, Inspecting, NotRunning

\* A command whose directory stays as it was.
LEMMA Bystander ==
  ASSUME NEW j, CommandTrue(j), j = NotRunning \/ dir'[j.dir] = dir[j.dir], reports \subseteq reports'
  PROVE  CommandTrue(j)'
BY DEF CommandTrue, MakingTrue, InspectingTrue

\* One command and one directory change.
LEMMA StepKeeps ==
  ASSUME CertificationInv, NEW c \in Commands, NEW d \in Dirs, NEW k, NEW r,
         cmd' = [cmd EXCEPT ![c] = k], dir' = [dir EXCEPT ![d] = r], UNCHANGED tool,
         allowance' \in [commands : SUBSET Commands, tools : Nat, edits : Nat],
         drifts \subseteq drifts', drifts' \subseteq DriftRows,
         reports \subseteq reports', reports' \subseteq ReportRows,
         DirTrue(r)', CommandTrue(k)', CompleteIsEarned',
         \A j \in {cmd[b] : b \in Commands \ {c}} : CommandTrue(j) /\ j # NotRunning /\ j.dir = d => CommandTrue(j)',
         k.pc \in Making => \/ cmd[c].pc \in Making /\ cmd[c].dir = k.dir
                           \/ ~dir[k.dir].made
  PROVE  CertificationInv'
<1>1. \A e \in Dirs : dir'[e] = IF e = d THEN r ELSE dir[e]
  BY DEF CertificationInv
<1>2. \A b \in Commands : cmd'[b] = IF b = c THEN k ELSE cmd[b]
  BY DEF CertificationInv
<1>3. r \in DirRows /\ k \in {NotRunning} \cup MakingRows \cup InspectingRows
  BY DEF DirTrue, CommandTrue, MakingTrue, InspectingTrue
<1>4. dir' \in [Dirs -> DirRows] /\ cmd' \in [Commands -> {NotRunning} \cup MakingRows \cup InspectingRows]
  BY <1>3 DEF CertificationInv
<1>5. ASSUME NEW x, x \in {dir[e] : e \in Dirs} PROVE DirTrue(x)'
  <2>1. DirTrue(x)
    BY <1>5 DEF CertificationInv
  <2> QED  BY <2>1 DEF DirTrue
<1>6. \A e \in Dirs : DirTrue(dir[e])'
  <2>1. \A x : x \in {dir[e] : e \in Dirs} \cup {r} => DirTrue(x)'
    BY <1>5
  <2>2. \A e \in Dirs : dir'[e] \in {dir[f] : f \in Dirs} \cup {r}
    BY <1>1
  <2> QED  BY <2>1, <2>2 DEF DirTrue
<1>7. ASSUME NEW b \in Commands, b # c, NEW j, j = cmd[b] PROVE CommandTrue(j)'
  <2>1. CommandTrue(j)
    BY <1>7 DEF CertificationInv
  <2>2. CASE j = NotRunning \/ j.dir = d
    BY <1>7, <2>1, <2>2 DEF CommandTrue
  <2>3. CASE j # NotRunning /\ j.dir # d
    <3>1. j.dir \in Dirs
      BY <2>1, <2>3 DEF CommandTrue, MakingTrue, InspectingTrue, MakingRows, InspectingRows
    <3> QED  BY <1>1, <2>1, <2>3, <3>1, Bystander
  <2> QED  BY <2>2, <2>3
<1>8. \A b \in Commands : CommandTrue(cmd[b])'
  <2>1. \A x : x \in {cmd[b] : b \in Commands \ {c}} \cup {k} => CommandTrue(x)'
    BY <1>7
  <2>2. \A b \in Commands : cmd'[b] \in {cmd[e] : e \in Commands \ {c}} \cup {k}
    BY <1>2
  <2> QED  BY <2>1, <2>2 DEF CommandTrue, MakingTrue, InspectingTrue
<1>9. Alone'
  <2>1. ASSUME NEW b \in Commands, b # c, cmd[b].pc \in Making, k.pc \in Making PROVE cmd[b].dir # k.dir
    <3>1. MakingTrue(cmd[b])
      BY <2>1, CommandKinds
    <3> QED  BY <2>1, <3>1 DEF CertificationInv, Alone, MakingTrue
  <2>2. \A b, e \in Commands :
         cmd'[b].pc \in Making /\ cmd'[e].pc \in Making /\ cmd'[b].dir = cmd'[e].dir => b = e
    BY <1>2, <2>1 DEF CertificationInv, Alone
  <2> QED  BY <2>2 DEF Alone
<1>10. tool' \in Nat
  BY DEF CertificationInv
<1> QED
  BY <1>4, <1>6, <1>8, <1>9, <1>10 DEF CertificationInv

\* What passed stays earned while reports and drifts are added.
LEMMA EarnedKeeps ==
  ASSUME CompleteIsEarned, drifts \subseteq drifts', reports \subseteq reports', UNCHANGED passed
  PROVE  CompleteIsEarned'
BY DEF CompleteIsEarned

\* A command goes on, or ends, and leaves every directory as it is.
LEMMA ReadingKeeps ==
  ASSUME CertificationInv, NEW c \in Commands, NEW k, cmd' = [cmd EXCEPT ![c] = k], k = NotRunning \/ InspectingTrue(k),
         UNCHANGED <<tool, dir, drifts, allowance>>, reports \subseteq reports', reports' \subseteq ReportRows,
         CompleteIsEarned'
  PROVE  CertificationInv'
<1>1. k.pc \notin Making
  BY DEF NotRunning, InspectingTrue, InspectingRows, Inspecting, Making
<1>2. CommandTrue(k)'
  BY DEF CommandTrue, InspectingTrue
<1>3. CASE Dirs # {}
  <2>1. PICK d \in Dirs : TRUE
    BY <1>3
  <2>2. dir' = [dir EXCEPT ![d] = dir[d]] /\ dir[d] \in DirRows
    BY DEF CertificationInv
  <2>3. ASSUME NEW r, r = dir[d] PROVE DirTrue(r)'
    BY <2>3 DEF CertificationInv, DirTrue
  <2>4. \A j : CommandTrue(j) => CommandTrue(j)'
    BY Bystander
  <2>5. \A j \in {cmd[b] : b \in Commands \ {c}} : CommandTrue(j) /\ j # NotRunning /\ j.dir = d => CommandTrue(j)'
    BY <2>4
  <2>6. /\ allowance' \in [commands : SUBSET Commands, tools : Nat, edits : Nat]
        /\ drifts \subseteq drifts' /\ drifts' \subseteq DriftRows /\ UNCHANGED tool
    BY DEF CertificationInv
  <2> DEFINE r == dir[d]
  <2>7. DirTrue(r)' /\ dir' = [dir EXCEPT ![d] = r]
    BY <2>2, <2>3
  <2> HIDE DEF r
  <2>8. \A x : DirTrue(x)' /\ dir' = [dir EXCEPT ![d] = x] => CertificationInv'
    BY <1>1, <1>2, <2>5, <2>6, StepKeeps
  <2>9. ASSUME NEW x, x = dir[d] PROVE DirTrue(x)' /\ dir' = [dir EXCEPT ![d] = x]
    BY <2>2, <2>3, <2>9
  <2> QED  BY <2>8, <2>9
<1>4. CASE Dirs = {}
  <2>1. k = NotRunning
    BY <1>4 DEF InspectingTrue, InspectingRows
  <2>2. \A b \in Commands : cmd[b] = NotRunning
    BY <1>4 DEF CertificationInv, CommandTrue, InspectingTrue, InspectingRows, MakingTrue, MakingRows
  <2>3. \A b \in Commands : cmd'[b] = NotRunning
    BY <2>1, <2>2 DEF CertificationInv
  <2>4. cmd' \in [Commands -> {NotRunning} \cup MakingRows \cup InspectingRows] /\ dir' \in [Dirs -> DirRows]
    BY <2>1 DEF CertificationInv
  <2>5. Alone'
    BY <2>3 DEF Alone, Making, NotRunning
  <2> QED  BY <1>4, <2>3, <2>4, <2>5 DEF CertificationInv, CommandTrue
<1> QED  BY <1>3, <1>4

\* A command makes the next file of an experiment that is its own.
LEMMA MakingKeeps ==
  ASSUME CertificationInv, NEW c \in Commands, NEW k, NEW r, cmd[c].pc \in Making,
         cmd' = [cmd EXCEPT ![c] = k], dir' = [dir EXCEPT ![cmd[c].dir] = r],
         UNCHANGED <<tool, allowance, drifts, reports, passed>>,
         DirTrue(r), k = NotRunning \/ (MakingTrue(k)' /\ k.dir = cmd[c].dir)
  PROVE  CertificationInv'
<1>1. MakingTrue(cmd[c]) /\ cmd[c].dir \in Dirs
  BY CommandKinds DEF MakingTrue, MakingRows
<1>2. ASSUME NEW j \in {cmd[b] : b \in Commands \ {c}}, CommandTrue(j), j # NotRunning, j.dir = cmd[c].dir
      PROVE  FALSE
  <2>1. PICK b \in Commands \ {c} : j = cmd[b]
    BY <1>2
  <2>2. CASE MakingTrue(j)
    BY <1>2, <2>1, <2>2 DEF CertificationInv, Alone, MakingTrue, MakingRows
  <2>3. CASE InspectingTrue(j)
    BY <1>1, <1>2, <2>3 DEF MakingTrue, InspectingTrue
  <2> QED  BY <1>2, <2>2, <2>3 DEF CommandTrue
<1>3. DirTrue(r)' /\ CommandTrue(k)' /\ CompleteIsEarned'
  BY EarnedKeeps DEF DirTrue, CommandTrue, CertificationInv
<1>4. k.pc \in Making => cmd[c].pc \in Making /\ cmd[c].dir = k.dir
  BY DEF NotRunning, Making
<1>5. /\ allowance' \in [commands : SUBSET Commands, tools : Nat, edits : Nat]
      /\ drifts \subseteq drifts' /\ drifts' \subseteq DriftRows
      /\ reports \subseteq reports' /\ reports' \subseteq ReportRows
  BY DEF CertificationInv
<1> QED  BY <1>1, <1>2, <1>3, <1>4, <1>5, StepKeeps

\* A command makes the drift in an experiment that is prepared.
LEMMA DriftingKeeps ==
  ASSUME CertificationInv, NEW c \in Commands, NEW k, NEW r, InspectingTrue(cmd[c]),
         cmd' = [cmd EXCEPT ![c] = k], dir' = [dir EXCEPT ![cmd[c].dir] = r],
         UNCHANGED <<tool, allowance, reports, passed>>, drifts \subseteq drifts', drifts' \subseteq DriftRows,
         DirTrue(r)', k = NotRunning \/ InspectingTrue(k)',
         r.prep = cmd[c].prep, r.edited = dir[cmd[c].dir].edited,
         dir[cmd[c].dir].notes = "after" => r.notes = "after"
  PROVE  CertificationInv'
<1> DEFINE d == cmd[c].dir
<1>1. d \in Dirs /\ dir[d].prep = cmd[c].prep /\ cmd[c].prep # Missing /\ dir'[d] = r
  BY DEF InspectingTrue, InspectingRows, CertificationInv
<1>2. ASSUME NEW j, CommandTrue(j), j # NotRunning, j.dir = d
      PROVE  CommandTrue(j)'
  <2>1. InspectingTrue(j)
    BY <1>1, <1>2 DEF CommandTrue, MakingTrue
  <2>2. InspectingTrue(j)'
    BY <1>1, <1>2, <2>1 DEF InspectingTrue
  <2> QED  BY <2>2 DEF CommandTrue
<1>3. CommandTrue(k)' /\ CompleteIsEarned'
  BY EarnedKeeps DEF CommandTrue, CertificationInv
<1>4. k.pc \notin Making
  BY DEF NotRunning, InspectingTrue, InspectingRows, Inspecting, Making
<1>5. /\ allowance' \in [commands : SUBSET Commands, tools : Nat, edits : Nat]
      /\ reports \subseteq reports' /\ reports' \subseteq ReportRows
  BY DEF CertificationInv
<1> QED  BY <1>1, <1>2, <1>3, <1>4, <1>5, StepKeeps

\* Something is changed by hand where there is a preparation.
LEMMA HandKeeps ==
  ASSUME CertificationInv, NEW d \in Dirs, NEW r, dir[d].prep # Missing, dir' = [dir EXCEPT ![d] = r],
         UNCHANGED <<tool, cmd, drifts, reports, passed>>,
         allowance' \in [commands : SUBSET Commands, tools : Nat, edits : Nat],
         DirTrue(r), r.edited, r.prep = dir[d].prep
  PROVE  CertificationInv'
<1>1. \A e \in Dirs : dir'[e] = IF e = d THEN r ELSE dir[e]
  BY DEF CertificationInv
<1>2. dir' \in [Dirs -> DirRows]
  BY DEF CertificationInv, DirTrue
<1>3. \A e \in Dirs : DirTrue(dir'[e])
  BY <1>1 DEF CertificationInv
<1>4. ASSUME NEW j, CommandTrue(j) PROVE CommandTrue(j)'
  <2>1. CASE j = NotRunning \/ j.dir # d
    <3>1. j = NotRunning \/ j.dir \in Dirs
      BY <1>4 DEF CommandTrue, MakingTrue, MakingRows, InspectingTrue, InspectingRows
    <3> QED  BY <1>1, <1>4, <2>1, <3>1, Bystander
  <2>2. CASE j # NotRunning /\ j.dir = d
    <3>1. InspectingTrue(j)
      BY <1>4, <2>2 DEF CommandTrue, MakingTrue
    <3>2. InspectingTrue(j)'
      BY <1>1, <2>2, <3>1 DEF InspectingTrue
    <3> QED  BY <3>2 DEF CommandTrue
  <2> QED  BY <2>1, <2>2
<1>5. \A c \in Commands : CommandTrue(cmd[c])'
  <2>1. \A c \in Commands : cmd'[c] \in {cmd[b] : b \in Commands}
    OBVIOUS
  <2>2. \A j \in {cmd[b] : b \in Commands} : CommandTrue(j)'
    BY <1>4 DEF CertificationInv
  <2> QED  BY <2>1, <2>2 DEF CommandTrue, MakingTrue, InspectingTrue
<1>6. \A e \in Dirs : DirTrue(dir[e])'
  BY <1>3 DEF DirTrue
<1> QED  BY <1>2, <1>5, <1>6, EarnedKeeps DEF CertificationInv, Alone

-----------------------------------------------------------------------------
(* prepare.                                                                  *)

\* The order of the files.
LEMMA NextFile ==
  ASSUME NEW c, WriteNext(c)
  PROVE  /\ cmd[c].pc = "workspace" => Step(c, "context")
         /\ cmd[c].pc = "context" => Step(c, "baseline")
         /\ cmd[c].pc = "baseline" => Step(c, "preparation")
         /\ cmd[c].pc = "preparation" => Done(c)
<1> DEFINE i == CHOOSE n \in DOMAIN Order : Order[n] = cmd[c].pc
<1>1. /\ DOMAIN Order = 1 .. 4 /\ Len(Order) = 4
      /\ Order[1] = "workspace" /\ Order[2] = "context" /\ Order[3] = "baseline" /\ Order[4] = "preparation"
  BY DEF Order
<1>2. IF i = 4 THEN Done(c) ELSE Step(c, Order[i + 1])
  BY <1>1 DEF WriteNext
<1>3. ASSUME NEW n \in 1 .. 4, Order[n] = cmd[c].pc PROVE i \in 1 .. 4 /\ Order[i] = cmd[c].pc
  BY <1>1, <1>3
<1> HIDE DEF i
<1>4. ASSUME cmd[c].pc = "workspace" PROVE i = 1
  BY <1>1, <1>3, <1>4
<1>5. ASSUME cmd[c].pc = "context" PROVE i = 2
  BY <1>1, <1>3, <1>5
<1>6. ASSUME cmd[c].pc = "baseline" PROVE i = 3
  BY <1>1, <1>3, <1>6
<1>7. ASSUME cmd[c].pc = "preparation" PROVE i = 4
  BY <1>1, <1>3, <1>7
<1> QED  BY <1>1, <1>2, <1>4, <1>5, <1>6, <1>7

LEMMA PrepareStep ==
  ASSUME CertificationInv, NEW c \in Commands, NEW d \in Dirs, NEW scenario \in {"A", "C"}, Prepare(c, d, scenario)
  PROVE  CertificationInv'
<1> SUFFICES ASSUME NEW k, k = [pc |-> "workspace", dir |-> d, tool |-> tool, scenario |-> scenario],
                    NEW r, r = [dir[d] EXCEPT !.made = TRUE]
             PROVE  CertificationInv'
  OBVIOUS
<1>1. DirTrue(dir[d]) /\ ~dir[d].made /\ tool \in Nat
  BY DEF CertificationInv, Prepare
<1>2. /\ dir' = [dir EXCEPT ![d] = r] /\ cmd' = [cmd EXCEPT ![c] = k]
      /\ UNCHANGED <<tool, drifts, reports, passed, allowance>>
  BY DEF Prepare, Put, Go
<1>3. DirTrue(r) /\ r.made /\ r.prep = Missing /\ r.drift = Missing
  BY <1>1 DEF DirTrue, DirRows
<1>4. k \in MakingRows /\ k.pc = "workspace" /\ k.dir = d
  BY <1>1 DEF MakingRows, Making
<1>5. dir'[d] = r
  BY <1>2 DEF CertificationInv
<1>6. MakingTrue(k)'
  BY <1>3, <1>4, <1>5 DEF MakingTrue
<1>7. ASSUME NEW j, CommandTrue(j), j # NotRunning, j.dir = d PROVE FALSE
  BY <1>1, <1>7 DEF CommandTrue, MakingTrue, InspectingTrue, DirTrue
<1>8. DirTrue(r)' /\ CommandTrue(k)' /\ CompleteIsEarned'
  BY <1>2, <1>3, <1>6, EarnedKeeps DEF DirTrue, CommandTrue, CertificationInv
<1>9. /\ allowance' \in [commands : SUBSET Commands, tools : Nat, edits : Nat] /\ UNCHANGED tool
      /\ drifts \subseteq drifts' /\ drifts' \subseteq DriftRows
      /\ reports \subseteq reports' /\ reports' \subseteq ReportRows
  BY <1>2 DEF CertificationInv
<1>10. ~dir[k.dir].made
  BY <1>1, <1>4
<1> QED  BY <1>2, <1>7, <1>8, <1>9, <1>10, StepKeeps

LEMMA CopyFilesStep ==
  ASSUME CertificationInv, NEW c \in Commands, CopyFiles(c)
  PROVE  CertificationInv'
<1> SUFFICES ASSUME NEW k, k = [cmd[c] EXCEPT !.pc = "context"]
             PROVE  CertificationInv'
  OBVIOUS
<1>1. MakingTrue(cmd[c]) /\ cmd[c].pc = "workspace" /\ cmd[c] \in MakingRows /\ cmd[c].dir \in Dirs
  BY CommandKinds DEF CopyFiles, Making, MakingTrue, MakingRows
<1>2. /\ dir' = [dir EXCEPT ![cmd[c].dir] = Copied] /\ cmd' = [cmd EXCEPT ![c] = k]
      /\ UNCHANGED <<tool, drifts, reports, passed, allowance>>
  BY <1>1, NextFile DEF CopyFiles, Step, Go
<1>3. DirTrue(Copied) /\ Copied.made /\ Copied.prep = Missing /\ Copied.drift = Missing /\ Copied.protected
  BY DEF Copied, NoDir, DirTrue, DirRows, Texts
<1>4. k \in MakingRows /\ k.pc = "context" /\ k.dir = cmd[c].dir
  BY <1>1 DEF MakingRows, Making
<1>5. dir'[cmd[c].dir] = Copied
  BY <1>1, <1>2 DEF CertificationInv
<1>6. MakingTrue(k)'
  BY <1>3, <1>4, <1>5 DEF MakingTrue
<1>7. cmd[c].pc \in Making
  BY <1>1 DEF Making
<1> QED  BY <1>2, <1>3, <1>4, <1>6, <1>7, MakingKeeps

LEMMA WriteContextStep ==
  ASSUME CertificationInv, NEW c \in Commands, WriteContext(c)
  PROVE  CertificationInv'
<1> DEFINE d == cmd[c].dir
<1> SUFFICES ASSUME NEW k, k = [cmd[c] EXCEPT !.pc = "baseline"], NEW r, r = [dir[d] EXCEPT !.context = TRUE]
             PROVE  CertificationInv'
  OBVIOUS
<1>1. MakingTrue(cmd[c]) /\ cmd[c].pc = "context" /\ cmd[c] \in MakingRows /\ d \in Dirs
  BY CommandKinds DEF WriteContext, Making, MakingTrue, MakingRows
<1>2. DirTrue(dir[d])
  BY <1>1 DEF CertificationInv
<1>3. /\ dir' = [dir EXCEPT ![d] = r] /\ cmd' = [cmd EXCEPT ![c] = k]
      /\ UNCHANGED <<tool, drifts, reports, passed, allowance>>
  BY <1>1, NextFile DEF WriteContext, Step, Go, Put
<1>4. DirTrue(r) /\ r.made /\ r.prep = Missing /\ r.drift = Missing /\ r.protected /\ r.context
  BY <1>1, <1>2 DEF DirTrue, DirRows, MakingTrue
<1>5. k \in MakingRows /\ k.pc = "baseline" /\ k.dir = d
  BY <1>1 DEF MakingRows, Making
<1>6. dir'[d] = r
  BY <1>1, <1>3 DEF CertificationInv
<1>7. MakingTrue(k)'
  BY <1>4, <1>5, <1>6 DEF MakingTrue
<1>8. cmd[c].pc \in Making
  BY <1>1 DEF Making
<1> QED  BY <1>3, <1>4, <1>5, <1>7, <1>8, MakingKeeps

LEMMA WriteBaselineStep ==
  ASSUME CertificationInv, NEW c \in Commands, WriteBaseline(c)
  PROVE  CertificationInv'
<1> DEFINE d == cmd[c].dir
<1> SUFFICES ASSUME NEW k, k = [cmd[c] EXCEPT !.pc = "preparation"], NEW r, r = [dir[d] EXCEPT !.baseline = TRUE]
             PROVE  CertificationInv'
  OBVIOUS
<1>1. MakingTrue(cmd[c]) /\ cmd[c].pc = "baseline" /\ cmd[c] \in MakingRows /\ d \in Dirs
  BY CommandKinds DEF WriteBaseline, Making, MakingTrue, MakingRows
<1>2. DirTrue(dir[d])
  BY <1>1 DEF CertificationInv
<1>3. /\ dir' = [dir EXCEPT ![d] = r] /\ cmd' = [cmd EXCEPT ![c] = k]
      /\ UNCHANGED <<tool, drifts, reports, passed, allowance>>
  BY <1>1, NextFile DEF WriteBaseline, Step, Go, Put
<1>4. /\ DirTrue(r) /\ r.made /\ r.prep = Missing /\ r.drift = Missing
      /\ r.protected /\ r.context /\ r.baseline
  BY <1>1, <1>2 DEF DirTrue, DirRows, MakingTrue
<1>5. k \in MakingRows /\ k.pc = "preparation" /\ k.dir = d
  BY <1>1 DEF MakingRows, Making
<1>6. dir'[d] = r
  BY <1>1, <1>3 DEF CertificationInv
<1>7. MakingTrue(k)'
  BY <1>4, <1>5, <1>6 DEF MakingTrue
<1>8. cmd[c].pc \in Making
  BY <1>1 DEF Making
<1> QED  BY <1>3, <1>4, <1>5, <1>7, <1>8, MakingKeeps

LEMMA WritePreparationStep ==
  ASSUME CertificationInv, NEW c \in Commands, WritePreparation(c)
  PROVE  CertificationInv'
<1> DEFINE d == cmd[c].dir
           p == [run |-> d, tool |-> cmd[c].tool, scenario |-> cmd[c].scenario]
           r == [dir[d] EXCEPT !.prep = p]
<1>1. MakingTrue(cmd[c]) /\ cmd[c].pc = "preparation" /\ cmd[c] \in MakingRows /\ d \in Dirs
  BY CommandKinds DEF WritePreparation, Making, MakingTrue, MakingRows
<1>2. DirTrue(dir[d])
  BY <1>1 DEF CertificationInv
<1>3. /\ dir' = [dir EXCEPT ![d] = r] /\ cmd' = [cmd EXCEPT ![c] = NotRunning]
      /\ UNCHANGED <<tool, drifts, reports, passed, allowance>>
  BY <1>1, NextFile DEF WritePreparation, Done, Go, Put
<1>4. p \in PrepRows
  BY <1>1 DEF MakingRows, PrepRows
<1> HIDE DEF p
<1>5. DirTrue(r)
  BY <1>1, <1>2, <1>4 DEF DirTrue, DirRows, MakingTrue
<1>6. cmd[c].pc \in Making
  BY <1>1 DEF Making
<1> HIDE DEF r
<1> QED  BY <1>3, <1>5, <1>6, MakingKeeps

-----------------------------------------------------------------------------
(* judge, drift and validate.                                                *)

\* A command that looks at a prepared experiment.
LEMMA InspectStep ==
  ASSUME CertificationInv, NEW c \in Commands, NEW d \in Dirs, Prepared(d),
         NEW command \in {"judge", "drift", "validate"}, NEW record \in EvidenceRows \cup {Missing},
         command = "validate" => record # Missing /\ record.prep = dir[d].prep /\ record.report \in reports,
         Inspect(c, d, command, record), UNCHANGED <<tool, dir, drifts, reports, passed, allowance>>
  PROVE  CertificationInv'
<1> SUFFICES ASSUME NEW k, k = [pc |-> "files", command |-> command, dir |-> d, prep |-> dir[d].prep,
                                seen |-> Seen, record |-> record]
             PROVE  CertificationInv'
  OBVIOUS
<1>1. dir[d].prep \in PrepRows /\ dir[d].prep # Missing
  BY DEF CertificationInv, DirRows, Prepared
<1>2. Seen \in SeenRows
  BY DEF Seen, SeenRows, Texts
<1>3. k \in InspectingRows
  BY <1>1, <1>2 DEF InspectingRows, Inspecting
<1>4. k.pc = "files" /\ k.command = command /\ k.dir = d /\ k.prep = dir[d].prep /\ k.record = record
  OBVIOUS
<1>5. InspectingTrue(k)
  BY <1>1, <1>3, <1>4 DEF InspectingTrue
<1>6. cmd' = [cmd EXCEPT ![c] = k]
  BY DEF Inspect, Go
<1> QED  BY <1>5, <1>6, ReadingKeeps, EarnedKeeps DEF CertificationInv

LEMMA ValidateStep ==
  ASSUME CertificationInv, NEW c \in Commands, NEW d \in Dirs, Validate(c, d)
  PROVE  CertificationInv'
<1> DEFINE e == dir[d].evidence
<1>1. Prepared(d) /\ e # Missing /\ e.prep = dir[d].prep /\ Inspect(c, d, "validate", e)
  BY DEF Validate, Belongs
<1>2. e \in EvidenceRows \cup {Missing} /\ e.report \in reports
  BY <1>1 DEF CertificationInv, DirTrue, DirRows
<1>3. UNCHANGED <<tool, dir, drifts, reports, passed, allowance>>
  BY DEF Validate
<1> QED  BY <1>1, <1>2, <1>3, InspectStep

\* A command that inspects goes on to its next stage, or ends.
LEMMA StageStep ==
  ASSUME CertificationInv, NEW c \in Commands, cmd[c].pc \in Inspecting, NEW next \in Inspecting \ {"record"},
         Step(c, next), UNCHANGED <<tool, dir, drifts, reports, passed, allowance>>
  PROVE  CertificationInv'
<1> SUFFICES ASSUME NEW k, k = [cmd[c] EXCEPT !.pc = next] PROVE CertificationInv'
  OBVIOUS
<1>1. InspectingTrue(cmd[c])
  BY CommandKinds
<1>2. /\ k \in InspectingRows /\ k.pc = next /\ k.dir = cmd[c].dir /\ k.prep = cmd[c].prep
      /\ k.command = cmd[c].command /\ k.record = cmd[c].record
  BY <1>1 DEF InspectingTrue, InspectingRows
<1>3. InspectingTrue(k)
  BY <1>1, <1>2 DEF InspectingTrue
<1>4. cmd' = [cmd EXCEPT ![c] = k]
  BY DEF Step, Go
<1> QED  BY <1>3, <1>4, ReadingKeeps, EarnedKeeps DEF CertificationInv

LEMMA LookStep ==
  ASSUME CertificationInv, NEW c \in Commands, LookAtFiles(c) \/ LookAtSum(c) \/ LookAtNotes(c)
  PROVE  CertificationInv'
<1>1. PICK name \in {"protected", "sum", "notes"}, next \in {"sum", "notes", "report"} : LookFor(c, name, next)
  BY DEF LookAtFiles, LookAtSum, LookAtNotes
<1>2. cmd[c].pc \in Inspecting
  BY DEF LookAtFiles, LookAtSum, LookAtNotes, Inspecting
<1>3. InspectingTrue(cmd[c]) /\ cmd[c] \in InspectingRows /\ dir[cmd[c].dir] \in DirRows
  BY <1>2, CommandKinds DEF InspectingTrue, InspectingRows, CertificationInv
<1> DEFINE value == dir[cmd[c].dir][name]
<1>4. \/ LookAtFiles(c) /\ LookFor(c, "protected", "sum")
      \/ LookAtSum(c) /\ LookFor(c, "sum", "notes")
      \/ LookAtNotes(c) /\ LookFor(c, "notes", "report")
  BY DEF LookAtFiles, LookAtSum, LookAtNotes
<1>5. UNCHANGED <<tool, dir, drifts, reports, passed, allowance>>
  BY DEF LookAtFiles, LookAtSum, LookAtNotes
<1>6. PICK seen \in SeenRows, stage \in {"sum", "notes", "report"} :
        cmd' = [cmd EXCEPT ![c] = [cmd[c] EXCEPT !.pc = stage, !.seen = seen]]
  <2>1. cmd[c].seen \in SeenRows
    BY <1>3 DEF InspectingRows
  <2> DEFINE r == dir[cmd[c].dir]
             s == cmd[c].seen
  <2>2. r.protected \in BOOLEAN /\ r.sum \in Texts /\ r.notes \in Texts
    BY <1>3 DEF DirRows
  <2>3. /\ [s EXCEPT !.protected = r.protected] \in SeenRows /\ [s EXCEPT !.sum = r.sum] \in SeenRows
        /\ [s EXCEPT !.notes = r.notes] \in SeenRows
    BY <2>1, <2>2 DEF SeenRows
  <2>4. CASE LookFor(c, "protected", "sum")
    <3>1. cmd' = [cmd EXCEPT ![c] = [cmd[c] EXCEPT !.pc = "sum", !.seen = [s EXCEPT !.protected = r.protected]]]
      BY <2>4 DEF LookFor, Go
    <3> QED  BY <2>3, <3>1
  <2>5. CASE LookFor(c, "sum", "notes")
    <3>1. cmd' = [cmd EXCEPT ![c] = [cmd[c] EXCEPT !.pc = "notes", !.seen = [s EXCEPT !.sum = r.sum]]]
      BY <2>5 DEF LookFor, Go
    <3> QED  BY <2>3, <3>1
  <2>6. CASE LookFor(c, "notes", "report")
    <3>1. cmd' = [cmd EXCEPT ![c] = [cmd[c] EXCEPT !.pc = "report", !.seen = [s EXCEPT !.notes = r.notes]]]
      BY <2>6 DEF LookFor, Go
    <3> QED  BY <2>3, <3>1
  <2> QED  BY <1>4, <2>4, <2>5, <2>6
<1> SUFFICES ASSUME NEW k, k = [cmd[c] EXCEPT !.pc = stage, !.seen = seen] PROVE CertificationInv'
  OBVIOUS
<1>7. /\ k \in InspectingRows /\ k.pc = stage /\ k.dir = cmd[c].dir /\ k.prep = cmd[c].prep
      /\ k.command = cmd[c].command /\ k.record = cmd[c].record
  BY <1>3 DEF InspectingRows, Inspecting
<1>8. InspectingTrue(k)
  BY <1>3, <1>7 DEF InspectingTrue
<1>9. cmd' = [cmd EXCEPT ![c] = k]
  BY <1>6
<1> QED  BY <1>5, <1>8, <1>9, ReadingKeeps, EarnedKeeps DEF CertificationInv

LEMMA EndStep ==
  ASSUME CertificationInv, NEW c \in Commands, Done(c), UNCHANGED <<tool, dir, drifts, reports, passed, allowance>>
  PROVE  CertificationInv'
BY ReadingKeeps, EarnedKeeps DEF Done, Go, CertificationInv

\* A report is of the experiment it was made for.
LEMMA ReportRow ==
  ASSUME CertificationInv, NEW c \in Commands, cmd[c].pc = "report"
  PROVE  Report(c) \in ReportRows /\ InspectingTrue(cmd[c])
<1>1. InspectingTrue(cmd[c]) /\ cmd[c] \in InspectingRows
  BY CommandKinds DEF InspectingTrue, Inspecting
<1>2. cmd[c].dir \in Dirs /\ cmd[c].prep \in PrepRows /\ cmd[c].seen \in SeenRows
  BY <1>1 DEF InspectingRows
<1>3. dir[cmd[c].dir].context \in BOOLEAN /\ dir[cmd[c].dir].baseline \in BOOLEAN
  BY <1>2 DEF CertificationInv, DirRows
<1> DEFINE drift == cmd[c].prep.scenario = "C" /\ DriftIntact(cmd[c].prep, dir[cmd[c].dir].drift)
<1>4. drift \in BOOLEAN
  BY DEF DriftIntact
<1>5. Report(c) = [scenario |-> cmd[c].prep.scenario, tool |-> cmd[c].prep.tool, seen |-> cmd[c].seen,
                   context |-> dir[cmd[c].dir].context, baseline |-> dir[cmd[c].dir].baseline, drift |-> drift]
  BY DEF Report
<1> HIDE DEF drift
<1> QED  BY <1>1, <1>2, <1>3, <1>4, <1>5 DEF PrepRows, ReportRows

LEMMA JudgedStep ==
  ASSUME CertificationInv, NEW c \in Commands, Judged(c)
  PROVE  CertificationInv'
<1>1. Report(c) \in ReportRows
  BY ReportRow DEF Judged
<1>2. reports \subseteq reports' /\ reports' \subseteq ReportRows
  BY <1>1 DEF Judged, CertificationInv
<1>3. CompleteIsEarned'
  BY <1>2, EarnedKeeps DEF Judged, CertificationInv
<1>4. cmd' = [cmd EXCEPT ![c] = NotRunning] /\ UNCHANGED <<tool, dir, drifts, allowance>>
  BY DEF Judged, Done, Go
<1> QED  BY <1>2, <1>3, <1>4, ReadingKeeps

LEMMA ValidatedStep ==
  ASSUME CertificationInv, NEW c \in Commands, Validated(c)
  PROVE  CertificationInv'
<1> DEFINE e == cmd[c].record
           p == cmd[c].prep
           new == [prep |-> p, record |-> e]
<1>1. InspectingTrue(cmd[c]) /\ cmd[c].command = "validate" /\ cmd[c].dir \in Dirs
  BY ReportRow DEF Validated, InspectingTrue, InspectingRows
<1>2. e.prep = p /\ e.report \in reports
  BY <1>1 DEF InspectingTrue
<1>3. ASSUME Satisfied(Report(c)), p.scenario = "C" PROVE [prep |-> p] \in drifts
  <2>1. /\ Report(c).scenario = p.scenario
        /\ (Report(c).drift <=> p.scenario = "C" /\ DriftIntact(p, dir[cmd[c].dir].drift))
    BY DEF Report
  <2>2. DriftIntact(p, dir[cmd[c].dir].drift)
    BY <1>3, <2>1 DEF Satisfied
  <2> QED  BY <1>1, <2>2 DEF DriftIntact, CertificationInv, DirTrue
<1>4. CompleteIsEarned'
  <2>1. CASE UNCHANGED passed
    BY <2>1, EarnedKeeps DEF Validated, CertificationInv
  <2>2. CASE Satisfied(Report(c)) /\ passed' = passed \cup {new}
    <3>1. \A a \in passed : /\ a.record.prep = a.prep /\ a.record.report \in reports
                            /\ a.prep.scenario = "C" => [prep |-> a.prep] \in drifts
      BY DEF CertificationInv, CompleteIsEarned
    <3>2. new.record = e /\ new.prep = p
      OBVIOUS
    <3>3. UNCHANGED <<drifts, reports>>
      BY DEF Validated
    <3> HIDE DEF new
    <3> QED  BY <1>2, <1>3, <2>2, <3>1, <3>2, <3>3 DEF CompleteIsEarned
  <2> QED  BY <2>1, <2>2 DEF Validated
<1>5. cmd' = [cmd EXCEPT ![c] = NotRunning] /\ UNCHANGED <<tool, dir, drifts, reports, allowance>>
  BY DEF Validated, Done, Go
<1> QED  BY <1>4, <1>5, ReadingKeeps DEF CertificationInv

LEMMA OpenNotesStep ==
  ASSUME CertificationInv, NEW c \in Commands, OpenNotes(c)
  PROVE  CertificationInv'
<1>1. cmd[c].pc \in Inspecting
  BY DEF OpenNotes, Inspecting
<1>2. UNCHANGED <<tool, dir, drifts, reports, passed, allowance>> /\ (Step(c, "write") \/ Done(c))
  BY DEF OpenNotes
<1> QED  BY <1>1, <1>2, StageStep, EndStep DEF Inspecting

\* The notes that are written may be half of them, unless they were whole.
LEMMA NotesStep ==
  ASSUME CertificationInv, NEW c \in Commands, WriteSome(c) \/ Truncate(c)
  PROVE  CertificationInv'
<1> DEFINE d == cmd[c].dir
<1>1. PICK text \in Texts, next \in {"truncate", "record"} :
        /\ Put(d, "notes", text) /\ Step(c, next)
        /\ dir[d].notes = "after" => text = "after"
        /\ next = "record" => text = "after"
  BY DEF WriteSome, Truncate, Texts
<1>2. cmd[c].pc \in Inspecting /\ UNCHANGED <<tool, drifts, reports, passed, allowance>>
  BY DEF WriteSome, Truncate, Inspecting
<1> SUFFICES ASSUME NEW k, k = [cmd[c] EXCEPT !.pc = next], NEW r, r = [dir[d] EXCEPT !.notes = text]
             PROVE  CertificationInv'
  OBVIOUS
<1>3. InspectingTrue(cmd[c]) /\ cmd[c] \in InspectingRows /\ d \in Dirs
  BY <1>2, CommandKinds DEF InspectingTrue, InspectingRows
<1>4. dir' = [dir EXCEPT ![d] = r] /\ cmd' = [cmd EXCEPT ![c] = k]
  BY <1>1 DEF Put, Step, Go
<1>5. DirTrue(dir[d]) /\ dir[d] \in DirRows
  BY <1>3 DEF CertificationInv
<1>6. DirTrue(r) /\ r.prep = cmd[c].prep /\ r.edited = dir[d].edited /\ r.notes = text
  BY <1>1, <1>3, <1>5 DEF DirTrue, DirRows, InspectingTrue
<1>7. /\ k \in InspectingRows /\ k.pc = next /\ k.dir = d /\ k.prep = cmd[c].prep
      /\ k.command = cmd[c].command /\ k.record = cmd[c].record
  BY <1>3 DEF InspectingRows, Inspecting
<1>8. dir'[d] = r
  BY <1>3, <1>4 DEF CertificationInv
<1>9. InspectingTrue(k)'
  <2>1. dir'[k.dir] = r /\ reports' = reports
    BY <1>2, <1>7, <1>8
  <2>2. k.pc = "record" => r.notes = "after"
    BY <1>1, <1>6, <1>7
  <2>3. k.prep # Missing /\ r.prep = k.prep
    BY <1>3, <1>6, <1>7 DEF InspectingTrue
  <2>4. k.command = "validate" => k.record # Missing /\ k.record.prep = k.prep /\ k.record.report \in reports
    BY <1>3, <1>7 DEF InspectingTrue
  <2> QED  BY <1>7, <2>1, <2>2, <2>3, <2>4 DEF InspectingTrue
<1>10. DirTrue(r)' /\ drifts \subseteq drifts' /\ drifts' \subseteq DriftRows
  BY <1>2, <1>6 DEF DirTrue, CertificationInv
<1> QED  BY <1>1, <1>2, <1>3, <1>4, <1>6, <1>9, <1>10, DriftingKeeps

LEMMA RecordDriftStep ==
  ASSUME CertificationInv, NEW c \in Commands, RecordDrift(c)
  PROVE  CertificationInv'
<1> DEFINE d == cmd[c].dir
           record == [prep |-> cmd[c].prep]
<1>1. /\ cmd[c].pc = "record" /\ cmd' = [cmd EXCEPT ![c] = NotRunning]
      /\ UNCHANGED <<tool, reports, passed, allowance>>
  BY DEF RecordDrift, Done, Go
<1>2. InspectingTrue(cmd[c]) /\ cmd[c] \in InspectingRows /\ d \in Dirs
  BY <1>1, CommandKinds DEF InspectingTrue, InspectingRows, Inspecting
<1>3. CASE UNCHANGED <<dir, drifts>>
  BY <1>1, <1>3, EndStep DEF Done, Go
<1>4. CASE dir[d].drift = Missing /\ Put(d, "drift", record) /\ drifts' = drifts \cup {record}
  <2> SUFFICES ASSUME NEW r, r = [dir[d] EXCEPT !.drift = record] PROVE CertificationInv'
    OBVIOUS
  <2>1. record \in DriftRows /\ record.prep = cmd[c].prep
    BY <1>2 DEF DriftRows, InspectingRows
  <2>2. DirTrue(dir[d]) /\ dir[d] \in DirRows
    BY <1>2 DEF CertificationInv
  <2>3. dir' = [dir EXCEPT ![d] = r]
    BY <1>4 DEF Put
  <2>4. drifts \subseteq drifts' /\ drifts' \subseteq DriftRows /\ record \in drifts'
    BY <1>4, <2>1 DEF CertificationInv
  <2>5. dir[d].prep = cmd[c].prep /\ cmd[c].prep # Missing /\ (~dir[d].edited => dir[d].notes = "after")
    BY <1>1, <1>2 DEF InspectingTrue
  <2> HIDE DEF record
  <2>6. /\ r \in DirRows /\ r.made = dir[d].made /\ r.prep = dir[d].prep /\ r.protected = dir[d].protected
        /\ r.context = dir[d].context /\ r.baseline = dir[d].baseline /\ r.notes = dir[d].notes
        /\ r.edited = dir[d].edited /\ r.evidence = dir[d].evidence /\ r.drift = record
    BY <2>1, <2>2 DEF DirRows
  <2>7. DirTrue(r)'
    BY <1>1, <2>1, <2>2, <2>4, <2>5, <2>6 DEF DirTrue
  <2> QED  BY <1>1, <1>2, <2>3, <2>4, <2>5, <2>6, <2>7, DriftingKeeps
<1> QED  BY <1>3, <1>4 DEF RecordDrift

-----------------------------------------------------------------------------
(* The world around the harness.                                             *)

\* One file is another one than the harness left there.
LEMMA ChangeKeeps ==
  ASSUME CertificationInv, NEW d \in Dirs, NEW r, dir[d].prep # Missing, dir' = [dir EXCEPT ![d] = r],
         UNCHANGED <<tool, cmd, drifts, reports, passed>>,
         allowance.edits > 0, allowance' = [allowance EXCEPT !.edits = @ - 1],
         r \in DirRows, r.edited, r.prep = dir[d].prep, r.made = dir[d].made,
         r.drift = dir[d].drift \/ r.drift \in drifts,
         r.evidence = dir[d].evidence \/ r.evidence.report \in reports
  PROVE  CertificationInv'
<1>1. allowance' \in [commands : SUBSET Commands, tools : Nat, edits : Nat]
  BY DEF CertificationInv
<1>2. DirTrue(dir[d])
  BY DEF CertificationInv
<1>3. dir[d].made
  BY <1>2 DEF DirTrue
<1>4. DirTrue(r)
  BY <1>2, <1>3 DEF DirTrue
<1> QED  BY <1>1, <1>4, HandKeeps

LEMMA HandleStep ==
  ASSUME CertificationInv, NEW d \in Dirs, Handle(d)
  PROVE  CertificationInv'
<1>1. dir[d] \in DirRows
  BY DEF CertificationInv
<1>2. ASSUME NEW name, NEW value, Change(d, name, value)
      PROVE  /\ dir[d].prep # Missing /\ UNCHANGED <<tool, cmd, drifts, reports, passed>>
             /\ allowance.edits > 0 /\ allowance' = [allowance EXCEPT !.edits = @ - 1]
             /\ dir' = [dir EXCEPT ![d] = [dir[d] EXCEPT ![name] = value, !.edited = TRUE]]
  BY <1>2 DEF Change
<1>3. ASSUME NEW value \in Texts, Change(d, "sum", value) PROVE CertificationInv'
  <2> SUFFICES ASSUME NEW r, r = [dir[d] EXCEPT !.sum = value, !.edited = TRUE] PROVE CertificationInv'
    OBVIOUS
  <2>1. dir' = [dir EXCEPT ![d] = r]
    BY <1>1, <1>2, <1>3 DEF CertificationInv
  <2>2. /\ r \in DirRows /\ r.edited /\ r.prep = dir[d].prep /\ r.made = dir[d].made
        /\ r.drift = dir[d].drift /\ r.evidence = dir[d].evidence
    BY <1>1 DEF DirRows
  <2> QED  BY <1>2, <1>3, <2>1, <2>2, ChangeKeeps
<1>4. ASSUME NEW value \in Texts, Change(d, "notes", value) PROVE CertificationInv'
  <2> SUFFICES ASSUME NEW r, r = [dir[d] EXCEPT !.notes = value, !.edited = TRUE] PROVE CertificationInv'
    OBVIOUS
  <2>1. dir' = [dir EXCEPT ![d] = r]
    BY <1>1, <1>2, <1>4 DEF CertificationInv
  <2>2. /\ r \in DirRows /\ r.edited /\ r.prep = dir[d].prep /\ r.made = dir[d].made
        /\ r.drift = dir[d].drift /\ r.evidence = dir[d].evidence
    BY <1>1 DEF DirRows
  <2> QED  BY <1>2, <1>4, <2>1, <2>2, ChangeKeeps
<1>5. ASSUME NEW name \in Spoiled, Change(d, name, FALSE) PROVE CertificationInv'
  <2> DEFINE spoilt == {[dir[d] EXCEPT !.protected = FALSE, !.edited = TRUE],
                        [dir[d] EXCEPT !.context = FALSE, !.edited = TRUE],
                        [dir[d] EXCEPT !.baseline = FALSE, !.edited = TRUE]}
  <2>0. PICK r \in spoilt : dir' = [dir EXCEPT ![d] = r]
    <3>1. name \in {"protected", "context", "baseline"}
      BY CertificationAssumption
    <3>2. dir' = [dir EXCEPT ![d] = [dir[d] EXCEPT ![name] = FALSE, !.edited = TRUE]]
      BY <1>2, <1>5
    <3>3. [dir[d] EXCEPT ![name] = FALSE, !.edited = TRUE] \in spoilt
      BY <3>1
    <3> QED  BY <3>2, <3>3
  <2>1. /\ r \in DirRows /\ r.edited /\ r.prep = dir[d].prep /\ r.made = dir[d].made
        /\ r.drift = dir[d].drift /\ r.evidence = dir[d].evidence
    BY <1>1 DEF DirRows
  <2> QED  BY <1>2, <1>5, <2>0, <2>1, ChangeKeeps
<1>6. ASSUME NEW record \in drifts, Change(d, "drift", record) PROVE CertificationInv'
  <2> SUFFICES ASSUME NEW r, r = [dir[d] EXCEPT !.drift = record, !.edited = TRUE] PROVE CertificationInv'
    OBVIOUS
  <2>1. dir' = [dir EXCEPT ![d] = r]
    BY <1>1, <1>2, <1>6 DEF CertificationInv
  <2>2. record \in DriftRows
    BY DEF CertificationInv
  <2>3. /\ r \in DirRows /\ r.edited /\ r.prep = dir[d].prep /\ r.made = dir[d].made
        /\ r.drift = record /\ r.evidence = dir[d].evidence
    BY <1>1, <2>2 DEF DirRows
  <2> QED  BY <1>2, <1>6, <2>1, <2>3, ChangeKeeps
<1>7. ASSUME Observe(d) PROVE CertificationInv'
  <2>1. PICK p \in Preparations, report \in reports, state \in {"observed_pass", "observed_with_issue"},
              drift \in BOOLEAN :
          Change(d, "evidence", [prep |-> p, state |-> state, claims |-> TRUE, drift |-> drift, report |-> report])
    BY <1>7 DEF Observe
  <2> SUFFICES ASSUME NEW e,
                      e = [prep |-> p, state |-> state, claims |-> TRUE, drift |-> drift, report |-> report],
                      NEW r, r = [dir[d] EXCEPT !.evidence = e, !.edited = TRUE]
               PROVE  CertificationInv'
    OBVIOUS
  <2>2. p \in PrepRows /\ report \in ReportRows
    BY DEF Preparations, CertificationInv, DirRows
  <2>3. e \in EvidenceRows /\ e.report \in reports
    BY <2>2 DEF EvidenceRows
  <2>4. Change(d, "evidence", e)
    BY <2>1
  <2>5. dir' = [dir EXCEPT ![d] = r]
    BY <1>1, <1>2, <2>4 DEF CertificationInv
  <2>6. /\ r \in DirRows /\ r.edited /\ r.prep = dir[d].prep /\ r.made = dir[d].made
        /\ r.drift = dir[d].drift /\ r.evidence = e
    BY <1>1, <2>3 DEF DirRows
  <2> QED  BY <1>2, <2>3, <2>4, <2>5, <2>6, ChangeKeeps
<1>8. {"after", "other"} \subseteq Texts
  BY DEF Texts
<1> QED  BY <1>3, <1>4, <1>5, <1>6, <1>7, <1>8 DEF Handle

\* Whatever changes only the version of the harness changes nothing of this.
LEMMA RestKeeps ==
  ASSUME CertificationInv, UNCHANGED <<dir, cmd, drifts, reports, passed, allowance>>, tool' \in Nat
  PROVE  CertificationInv'
BY DEF CertificationInv, DirTrue, CommandTrue, MakingTrue, InspectingTrue, Alone, CompleteIsEarned

-----------------------------------------------------------------------------
(* The invariant.                                                            *)

LEMMA CertificationInitially == CertificationInit => CertificationInv
<1> SUFFICES ASSUME CertificationInit PROVE CertificationInv
  OBVIOUS
<1>1. NoDir \in DirRows /\ NoDir.prep = Missing /\ NoDir.drift = Missing /\ NoDir.evidence = Missing
  BY DEF NoDir, DirRows, Texts
<1>2. dir = [d \in Dirs |-> NoDir] /\ cmd = [c \in Commands |-> NotRunning]
  BY DEF CertificationInit
<1>3. dir \in [Dirs -> DirRows] /\ \A d \in Dirs : DirTrue(dir[d])
  <2>1. DirTrue(NoDir)
    BY <1>1 DEF DirTrue
  <2> QED  BY <1>1, <1>2, <2>1
<1>4. Alone
  BY <1>2 DEF Alone, NotRunning, Making
<1> QED
  BY <1>2, <1>3, <1>4, CertificationAssumption
  DEF CertificationInit, CertificationInv, CommandTrue, CompleteIsEarned

LEMMA CommandStep ==
  ASSUME CertificationInv, NEW c \in Commands, Command(c)
  PROVE  CertificationInv'
<1>1. ASSUME NEW d \in Dirs, Judge(c, d) PROVE CertificationInv'
  BY <1>1, InspectStep DEF Judge
<1>2. ASSUME NEW d \in Dirs, Drift(c, d) PROVE CertificationInv'
  BY <1>2, InspectStep DEF Drift
<1>3. ASSUME NEW d \in Dirs, Validate(c, d) PROVE CertificationInv'
  BY <1>3, ValidateStep
<1>4. ASSUME NEW d \in Dirs, NEW scenario \in {"A", "C"}, Prepare(c, d, scenario) PROVE CertificationInv'
  BY <1>4, PrepareStep
<1>5. CASE CopyFiles(c) \/ WriteContext(c) \/ WriteBaseline(c) \/ WritePreparation(c)
  BY <1>5, CopyFilesStep, WriteContextStep, WriteBaselineStep, WritePreparationStep
<1>6. CASE LookAtFiles(c) \/ LookAtSum(c) \/ LookAtNotes(c)
  BY <1>6, LookStep
<1>7. CASE Judged(c) \/ OpenNotes(c) \/ WriteSome(c) \/ Truncate(c) \/ RecordDrift(c) \/ Validated(c)
  BY <1>7, JudgedStep, OpenNotesStep, NotesStep, RecordDriftStep, ValidatedStep
<1>8. CASE Killed(c)
  BY <1>8, EndStep DEF Killed
<1> QED  BY <1>1, <1>2, <1>3, <1>4, <1>5, <1>6, <1>7, <1>8 DEF Command

LEMMA CertificationInductive ==
  ASSUME CertificationInv, [CertificationNext]_certificationVars, Edited \subseteq Dirs
  PROVE  CertificationInv'
<1>1. ASSUME NEW c \in allowance.commands, Command(c) PROVE CertificationInv'
  <2>1. c \in Commands
    BY DEF CertificationInv
  <2> QED  BY <1>1, <2>1, CommandStep
<1>2. ASSUME NEW d \in Edited, Handle(d) PROVE CertificationInv'
  BY <1>2, HandleStep
<1>3. CASE Upgrade
  BY <1>3, RestKeeps DEF Upgrade, CertificationInv
<1>4. CASE UNCHANGED certificationVars
  BY <1>4, RestKeeps DEF certificationVars, CertificationInv
<1> QED  BY <1>1, <1>2, <1>3, <1>4 DEF CertificationNext

\* Who may still write what into an experiment, and what its records rest on.
THEOREM CertificationInvariance == CertificationSpec => []CertificationInv
<1>1. CertificationInit => CertificationInv
  BY CertificationInitially
<1>2. CertificationInv /\ [CertificationNext]_certificationVars => CertificationInv'
  BY CertificationInductive, CertificationAssumption
<1> QED  BY <1>1, <1>2, PTL DEF CertificationSpec

\* What has a preparation.json is whole, a recorded drift was carried out on the
\* experiment it names, and an experiment is complete only by a record of its own
\* (agent-certification/harness.mjs), whoever is killed or copies files.
THEOREM CertificationIsEarned == CertificationSpec => []CertificationEarned
<1>1. ASSUME CertificationInv PROVE CertificationEarned
  <2>1. ASSUME NEW d \in Dirs PROVE DirTrue(dir[d])
    BY <1>1 DEF CertificationInv
  <2>2. PreparedIsWhole
    BY <2>1 DEF PreparedIsWhole, DirTrue
  <2>3. DriftedOnce
    BY <2>1 DEF DriftedOnce, DirTrue
  <2>4. CompleteIsEarned
    BY <1>1 DEF CertificationInv
  <2> QED  BY <2>2, <2>3, <2>4 DEF CertificationEarned
<1> QED  BY <1>1, CertificationInvariance, PTL
=============================================================================
