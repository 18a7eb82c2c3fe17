---------------------------- MODULE Record_proofs ----------------------------
(* Proofs about what is derived from a record: the projection of the control *)
(* ledger, of manifests and receipts, and what a task page derives from the  *)
(* events of its sessions.  All are recursive functions over the order of    *)
(* the rows, so this module begins with induction over the naturals, by the  *)
(* smallest member of a set, and proves the defining equations of those      *)
(* functions where it needs them.                                            *)
EXTENDS ControlLedger, TaskDerivation, ReceiptReplay, FiniteSetTheorems, WellFoundedInduction, TLAPS

-----------------------------------------------------------------------------
(* Induction                                                                 *)

\* Every set of naturals that is not empty has a smallest member.
LEMMA Smallest ==
  ASSUME NEW S \in SUBSET Nat, S # {}
  PROVE  \E n \in S : \A m \in S : n <= m
<1> DEFINE less == {ss \in Nat \X Nat : ss[1] < ss[2]}
<1>1. IsWellFoundedOn(less, Nat)
  BY NatLessThanWellFounded DEF OpToRel
<1>2. \A p, q \in Nat : <<p, q>> \in less <=> p < q
  OBVIOUS
<1> HIDE DEF less
<1>3. PICK n \in S : \A m \in S : ~ (<<m, n>> \in less)
  BY <1>1, WFMin
<1>4. \A m \in S : ~(m < n)
  BY <1>2, <1>3
<1>5. \A m \in S : n <= m
  BY <1>4
<1> QED
  BY <1>5

\* A set with 0 that is closed under the successor holds every natural.
LEMMA SetInduction ==
  ASSUME NEW S, 0 \in S, \A n \in Nat : n \in S => n + 1 \in S
  PROVE  \A n \in Nat : n \in S
<1> DEFINE Missing == {n \in Nat : n \notin S}
<1>1. Missing = {}
  <2> SUFFICES ASSUME Missing # {} PROVE FALSE
    OBVIOUS
  <2>1. Missing \in SUBSET Nat
    OBVIOUS
  <2> HIDE DEF Missing
  <2>2. PICK n \in Missing : \A m \in Missing : n <= m
    BY <2>1, Smallest
  <2>3. n \in Nat /\ n \notin S /\ n # 0
    BY <2>2 DEF Missing
  <2>4. n - 1 \in Nat /\ n - 1 \notin Missing
    BY <2>2, <2>3
  <2>5. (n - 1) + 1 \in S
    BY <2>4 DEF Missing
  <2> QED
    BY <2>3, <2>4, <2>5
<1> QED
  BY <1>1

\* What holds of the empty set, and of a set when it holds of it without one of
\* its members, holds of every finite set.
LEMMA FiniteInduction ==
  ASSUME NEW S, IsFiniteSet(S), NEW W, {} \in W,
         \A E \in SUBSET S : (\E e \in E : E \ {e} \in W) => E \in W
  PROVE  \A E \in SUBSET S : E \in W
<1> DEFINE Sizes == {n \in Nat : \A E \in SUBSET S : Cardinality(E) = n => E \in W}
<1>1. \A E \in SUBSET S : IsFiniteSet(E) /\ Cardinality(E) \in Nat
  BY FS_Subset, FS_CardinalityType
<1>2. 0 \in Sizes
  <2> SUFFICES ASSUME NEW E \in SUBSET S, Cardinality(E) = 0 PROVE E \in W
    OBVIOUS
  <2>1. E = {}
    BY <1>1, FS_EmptySet
  <2> QED
    BY <2>1
<1>3. ASSUME NEW n \in Nat, n \in Sizes PROVE n + 1 \in Sizes
  <2> SUFFICES ASSUME NEW E \in SUBSET S, Cardinality(E) = n + 1 PROVE E \in W
    OBVIOUS
  <2>1. E # {}
    <3>1. Cardinality({}) = 0
      BY FS_EmptySet
    <3>2. n + 1 # 0
      OBVIOUS
    <3> QED
      BY <3>1, <3>2
  <2>2. PICK e \in E : TRUE
    BY <2>1
  <2>3. IsFiniteSet(E) /\ E \ {e} \in SUBSET S
    BY <1>1
  <2>4. Cardinality(E \ {e}) = Cardinality(E) - 1
    BY <2>3, FS_RemoveElement
  <2>5. Cardinality(E \ {e}) = n
    BY <2>4
  <2>6. E \ {e} \in W
    BY <1>3, <2>3, <2>5
  <2> QED
    BY <2>6
<1> HIDE DEF Sizes
<1>4. \A n \in Nat : n \in Sizes
  BY <1>2, <1>3, SetInduction
<1> QED
  BY <1>1, <1>4 DEF Sizes

-----------------------------------------------------------------------------
(* ControlLedger: the defining equations                                     *)

AfterRow(state, rows, i) == IF i \in DOMAIN rows THEN Replay(state, rows[i]) ELSE state

\* The replay up to a row is the replay up to the row before, and that row.
LEMMA ReplaysEquation ==
  ASSUME NEW rows
  PROVE  /\ Replays(rows)[0] = Empty
         /\ \A i \in 1 .. MaxId : Replays(rows)[i] = AfterRow(Replays(rows)[i - 1], rows, i)
<1> DEFINE Solves(f, n) == f = [i \in 0 .. n |-> IF i = 0 THEN Empty ELSE AfterRow(f[i - 1], rows, i)]
<1> DEFINE Solvable == {n \in Nat : \E f : Solves(f, n)}
<1>1. 0 \in Solvable
  <2>1. Solves([i \in 0 .. 0 |-> Empty], 0)
    OBVIOUS
  <2> QED
    BY <2>1
<1>2. ASSUME NEW n \in Nat, n \in Solvable PROVE n + 1 \in Solvable
  <2>1. PICK f : Solves(f, n)
    BY <1>2
  <2> DEFINE g == [i \in 0 .. n + 1 |-> IF i = n + 1 THEN AfterRow(f[n], rows, n + 1) ELSE f[i]]
  <2>2. \A i \in 0 .. n + 1 : g[i] = IF i = 0 THEN Empty ELSE AfterRow(g[i - 1], rows, i)
    <3> SUFFICES ASSUME NEW i \in 0 .. n + 1
                 PROVE g[i] = IF i = 0 THEN Empty ELSE AfterRow(g[i - 1], rows, i)
      OBVIOUS
    <3>1. CASE i = n + 1
      <4>1. g[i] = AfterRow(f[n], rows, n + 1) /\ g[n] = f[n] /\ i - 1 = n /\ i # 0
        BY <3>1
      <4> QED
        BY <3>1, <4>1
    <3>2. CASE i # n + 1
      <4>1. i \in 0 .. n /\ g[i] = f[i] /\ (i # 0 => i - 1 \in 0 .. n /\ g[i - 1] = f[i - 1])
        BY <3>2
      <4>2. f[i] = IF i = 0 THEN Empty ELSE AfterRow(f[i - 1], rows, i)
        BY <2>1, <4>1
      <4> HIDE DEF g
      <4> QED
        BY <4>1, <4>2
    <3> QED
      BY <3>1, <3>2
  <2>3. g = [i \in 0 .. n + 1 |-> g[i]]
    OBVIOUS
  <2> HIDE DEF g
  <2>4. Solves(g, n + 1)
    BY <2>2, <2>3
  <2> HIDE DEF Solves
  <2> QED
    BY <2>4
<1>3. MaxId \in Nat
  BY LedgerAssumption
<1>4. MaxId \in Solvable
  <2> HIDE DEF Solvable
  <2>1. \A n \in Nat : n \in Solvable => n + 1 \in Solvable
    BY <1>2
  <2> QED
    BY <1>1, <1>3, <2>1, SetInduction
<1>5. \E f : Solves(f, MaxId)
  BY <1>4
<1>6. Solves(CHOOSE f : Solves(f, MaxId), MaxId)
  <2> HIDE DEF Solves
  <2> QED
    BY <1>5
<1>7. Replays(rows) = CHOOSE f : Solves(f, MaxId)
  BY DEF Replays, AfterRow
<1>8. Solves(Replays(rows), MaxId)
  BY <1>6, <1>7
<1> QED
  BY <1>3, <1>8

-----------------------------------------------------------------------------
(* ControlLedger: what one row makes of a subject                            *)

PublicForms == [id : EventIds, key : Keys \cup {None}, kind : Kinds,
                text : {"plain", "redacted"}, claim : Claims]
RowSpace == [event : PublicForms, digest : EventSpace, authority : BOOLEAN]

\* The authorised writer takes decisions only.
Rightful(row) ==
  row.authority => row.event.claim.type \in
    {"lineage.relation", "responsibility.confirmed", "responsibility.ended"}

WellFormed(rows) == \A i \in DOMAIN rows : rows[i] \in RowSpace /\ Rightful(rows[i])

States == [lineage : [Subjects -> LineageRecords \cup {None}],
           responsibilities : [Subjects -> ResponsibilityRecords \cup {None}]]

OfLineage(row, s) == row.event.claim.type = "lineage.relation" /\ row.event.claim.subject = s
OfResponsibility(row, s) == row.event.claim.type # "lineage.relation" /\ row.event.claim.subject = s

\* A row is about one subject, in one of the two tables.
LEMMA ReplayOfSubject ==
  ASSUME NEW state \in States, NEW row \in RowSpace, NEW s \in Subjects
  PROVE  /\ Replay(state, row).lineage[s] =
              (IF OfLineage(row, s) THEN ReplayLineage(state.lineage[s], row) ELSE state.lineage[s])
         /\ Replay(state, row).responsibilities[s] =
              (IF OfResponsibility(row, s)
               THEN ReplayResponsibility(state.responsibilities[s], row) ELSE state.responsibilities[s])
<1>1. state.lineage \in [Subjects -> LineageRecords \cup {None}]
      /\ state.responsibilities \in [Subjects -> ResponsibilityRecords \cup {None}]
  BY DEF States
<1>2. CASE row.event.claim.type = "lineage.relation"
  <2>1. Replay(state, row) =
          [state EXCEPT !.lineage[row.event.claim.subject] = ReplayLineage(@, row)]
    BY <1>2 DEF Replay
  <2> QED
    BY <1>1, <1>2, <2>1 DEF OfLineage, OfResponsibility, States
<1>3. CASE row.event.claim.type # "lineage.relation"
  <2>1. Replay(state, row) =
          [state EXCEPT !.responsibilities[row.event.claim.subject] = ReplayResponsibility(@, row)]
    BY <1>3 DEF Replay
  <2> QED
    BY <1>1, <1>3, <2>1 DEF OfLineage, OfResponsibility, States
<1> QED
  BY <1>2, <1>3

LEMMA ClaimsOfRows ==
  ASSUME NEW row \in RowSpace
  PROVE  /\ row.authority \in BOOLEAN /\ row.event.id \in EventIds
         /\ row.event.claim \in Claims
         /\ row.event.claim.type = "lineage.relation" => row.event.claim \in LineageClaims
         /\ row.event.claim.type # "lineage.relation" => row.event.claim \in ResponsibilityClaims
  BY LedgerAssumption DEF RowSpace, PublicForms, LineageClaims, ResponsibilityClaims, ResponsibilityTypes

\* A row that decides a relation.
Decides(row) == row.authority /\ LineageStatus(row) # "candidate"

\* A relation is decided by the authorised decisions about it, and by nothing
\* else: what is observed of a decided relation is dropped, and what is decided
\* does not depend on what was observed.
LEMMA LineageStep ==
  ASSUME NEW row \in RowSpace, row.event.claim.type = "lineage.relation",
         NEW current \in LineageRecords \cup {None}
  PROVE  /\ ReplayLineage(current, row) \in LineageRecords
         /\ Decided(ReplayLineage(current, row)) <=> Decided(current) \/ Decides(row)
         /\ Decided(current) /\ ~row.authority => ReplayLineage(current, row) = current
         /\ \A other \in LineageRecords \cup {None} :
              ~Decided(current) /\ ~Decided(other) /\ row.authority
                => ReplayLineage(current, row) = ReplayLineage(other, row)
<1> DEFINE claim == row.event.claim
           record == [link |-> claim.link, level |-> LineageLevel(row),
                      status |-> LineageStatus(row), evidence |-> {row.event.id}]
<1>1. /\ row.authority \in BOOLEAN /\ row.event.id \in EventIds /\ claim \in LineageClaims
  BY ClaimsOfRows
<1>2. /\ claim.link \in Links /\ claim.level \in Levels /\ claim.status \in LineageStatuses
  BY <1>1 DEF LineageClaims
<1>3. LineageLevel(row) \in Levels /\ LineageStatus(row) \in LineageStatuses
  BY <1>1, <1>2 DEF LineageLevel, LineageStatus, Levels, LineageStatuses
<1>4. ~row.authority => LineageStatus(row) = "candidate"
  BY DEF LineageStatus, LineageLevel
<1>5. record \in LineageRecords /\ record.status = LineageStatus(row) /\ record.link = claim.link
      /\ record.evidence = {row.event.id}
  BY <1>1, <1>2, <1>3 DEF LineageRecords
<1>6. None \notin LineageRecords
  BY LedgerAssumption
<1>7. \A c : ReplayLineage(c, row) =
        IF c = None THEN record
        ELSE IF KeepsLineage(c, row) THEN c
        ELSE IF row.authority THEN record
        ELSE IF c.link = claim.link THEN [c EXCEPT !.evidence = @ \cup record.evidence]
        ELSE c
  BY DEF ReplayLineage
<1> HIDE DEF record
<1>8. \A c \in LineageRecords : [c EXCEPT !.evidence = @ \cup record.evidence] \in LineageRecords
        /\ [c EXCEPT !.evidence = @ \cup record.evidence].status = c.status
  BY <1>1, <1>5 DEF LineageRecords
<1>9. \A c \in LineageRecords : c.status \in LineageStatuses
  BY DEF LineageRecords
<1>10. \A c \in LineageRecords : Decided(c) <=> c.status # "candidate"
  BY <1>6, <1>9 DEF Decided, LineageStatuses
<1>11. ~Decided(None)
  BY DEF Decided
<1>12. \A c \in LineageRecords : KeepsLineage(c, row) <=>
         Decided(c) /\ (~row.authority \/ LineageStatus(row) = "candidate")
  BY <1>10 DEF KeepsLineage
<1>13. Decided(record) <=> Decides(row)
  BY <1>4, <1>5, <1>10 DEF Decides
<1> DEFINE with == [current EXCEPT !.evidence = @ \cup record.evidence]
<1>14. current \in LineageRecords => with \in LineageRecords /\ (Decided(with) <=> Decided(current))
  BY <1>8, <1>10
<1>15. ReplayLineage(current, row) =
         IF current = None THEN record
         ELSE IF KeepsLineage(current, row) THEN current
         ELSE IF row.authority THEN record
         ELSE IF current.link = claim.link THEN with
         ELSE current
  BY <1>7
<1> HIDE DEF with
<1>16. ReplayLineage(current, row) \in LineageRecords
  BY <1>5, <1>14, <1>15
<1>17. Decided(ReplayLineage(current, row)) <=> Decided(current) \/ Decides(row)
  BY <1>4, <1>6, <1>11, <1>12, <1>13, <1>14, <1>15 DEF Decides
<1>18. Decided(current) /\ ~row.authority => ReplayLineage(current, row) = current
  BY <1>11, <1>12, <1>15
<1>19. \A c \in LineageRecords \cup {None} :
         ~Decided(c) /\ row.authority => ReplayLineage(c, row) = record
  BY <1>7, <1>12
<1> QED
  BY <1>16, <1>17, <1>18, <1>19

LEMMA MergedRoles ==
  ASSUME NEW f, NEW g, DOMAIN f \in SUBSET Roles, DOMAIN g \in SUBSET Roles,
         \A r \in DOMAIN f : f[r] \in Owners, \A r \in DOMAIN g : g[r] \in Owners
  PROVE  Merged(f, g) \in PartialRoles
<1> DEFINE R == (DOMAIN f) \cup (DOMAIN g)
<1>1. R \in SUBSET Roles /\ Merged(f, g) \in [R -> Owners]
  BY DEF Merged
<1> HIDE DEF R
<1> QED
  BY <1>1 DEF PartialRoles

LEMMA RolesTyped ==
  ASSUME NEW claim \in ResponsibilityClaims,
         NEW inherited \in ResponsibilityRecords \cup {None}
  PROVE  RolesOf(claim, inherited) \in PartialRoles
<1>1. claim.roles \in PartialRoles /\ claim.owner \in Owners \cup {None}
  BY DEF ResponsibilityClaims
<1>2. Executor \in Roles
  BY LedgerAssumption
<1>3. \A f \in PartialRoles : DOMAIN f \in SUBSET Roles /\ \A r \in DOMAIN f : f[r] \in Owners
  BY DEF PartialRoles
<1> DEFINE old == IF inherited = None THEN << >> ELSE inherited.roles
           named == Merged(claim.roles, old)
           one == [r \in {Executor} |-> claim.owner]
<1>4. DOMAIN old \in SUBSET Roles /\ \A r \in DOMAIN old : old[r] \in Owners
  <2>1. CASE inherited = None
    BY <2>1
  <2>2. CASE inherited # None
    <3>1. inherited.roles \in PartialRoles /\ old = inherited.roles
      BY <2>2 DEF ResponsibilityRecords
    <3> QED
      BY <1>3, <3>1
  <2> QED
    BY <2>1, <2>2
<1> HIDE DEF old
<1>5. named \in PartialRoles
  BY <1>1, <1>3, <1>4, MergedRoles
<1> HIDE DEF named
<1>6. claim.owner # None => Merged(named, one) \in PartialRoles
  <2>1. DOMAIN one = {Executor} /\ \A r \in DOMAIN one : one[r] = claim.owner
    OBVIOUS
  <2> HIDE DEF one
  <2> QED
    BY <1>1, <1>2, <1>3, <1>5, <2>1, MergedRoles
<1>7. RolesOf(claim, inherited) =
        IF claim.owner # None /\ Executor \notin DOMAIN named THEN Merged(named, one) ELSE named
  BY DEF RolesOf, old, named
<1> QED
  BY <1>5, <1>6, <1>7

Confirms(row) == row.authority /\ row.event.claim.type = "responsibility.confirmed"
Ends(row) == row.authority /\ row.event.claim.type = "responsibility.ended"

\* The same of a responsibility: it is confirmed by the authorised confirmations,
\* ended by an authorised end after one of them, and then it stays.
LEMMA ResponsibilityStep ==
  ASSUME NEW row \in RowSpace, row.event.claim.type # "lineage.relation",
         Rightful(row), NEW current \in ResponsibilityRecords \cup {None}
  PROVE  LET next == ReplayResponsibility(current, row) IN
         /\ next \in ResponsibilityRecords \cup {None}
         /\ Decided(next) <=> Decided(current) \/ Confirms(row)
         /\ Holds(next, "ended") <=> Holds(current, "ended") \/ (Decided(current) /\ Ends(row))
         /\ Decided(current) /\ ~row.authority => next = current
         /\ \A other \in ResponsibilityRecords \cup {None} :
              ~Decided(current) /\ ~Decided(other) /\ Confirms(row)
                => next = ReplayResponsibility(other, row)
<1> DEFINE claim == row.event.claim
           status == IF Confirms(row) THEN "confirmed" ELSE "proposed"
           ended(c) == [c EXCEPT !.status = "ended", !.evidence = @ \cup {row.event.id}]
           claimed(c) == [roles |-> RolesOf(claim, Inherited(c, status)), status |-> status,
             evidence |-> {row.event.id} \cup
               (IF Inherited(c, status) = None THEN {} ELSE Inherited(c, status).evidence)]
<1>1. /\ row.authority \in BOOLEAN /\ row.event.id \in EventIds /\ claim \in ResponsibilityClaims
  BY ClaimsOfRows
<1>2. claim.type \in ResponsibilityTypes
  BY <1>1 DEF ResponsibilityClaims
<1>3. None \notin ResponsibilityRecords
  BY LedgerAssumption
<1>4. \A c : ReplayResponsibility(c, row) =
        IF Holds(c, "ended") \/ (Holds(c, "confirmed") /\ ~row.authority) THEN c
        ELSE IF claim.type = "responsibility.ended"
        THEN IF row.authority /\ Holds(c, "confirmed") THEN ended(c) ELSE c
        ELSE claimed(c)
  BY DEF ReplayResponsibility, Confirms
<1>5. \A c \in ResponsibilityRecords : c.status \in {"proposed", "confirmed", "ended"}
        /\ c.roles \in PartialRoles /\ c.evidence \in SUBSET EventIds
  BY DEF ResponsibilityRecords
<1>6. \A c \in ResponsibilityRecords : ended(c) \in ResponsibilityRecords /\ ended(c).status = "ended"
  BY <1>1 DEF ResponsibilityRecords
<1>7. \A c \in ResponsibilityRecords \cup {None} :
        /\ Inherited(c, status) \in ResponsibilityRecords \cup {None}
        /\ ~Decided(c) /\ Confirms(row) => Inherited(c, status) = None
  BY <1>3, <1>5 DEF Inherited, Holds, Decided
<1>8. \A c \in ResponsibilityRecords \cup {None} :
        claimed(c) \in ResponsibilityRecords /\ claimed(c).status = status
  <2> SUFFICES ASSUME NEW c \in ResponsibilityRecords \cup {None}
               PROVE  claimed(c) \in ResponsibilityRecords /\ claimed(c).status = status
    OBVIOUS
  <2>1. PICK i \in ResponsibilityRecords \cup {None} : i = Inherited(c, status)
    BY <1>7
  <2>2. RolesOf(claim, i) \in PartialRoles
    BY <1>1, RolesTyped
  <2>3. {row.event.id} \cup (IF i = None THEN {} ELSE i.evidence) \in SUBSET EventIds
    BY <1>1, <1>5
  <2>4. status \in {"proposed", "confirmed", "ended"}
    OBVIOUS
  <2> HIDE DEF status, claim
  <2> QED
    BY <2>1, <2>2, <2>3, <2>4 DEF ResponsibilityRecords
<1>9. \A c \in ResponsibilityRecords \cup {None} :
        /\ Decided(c) <=> c # None /\ c.status \in {"confirmed", "ended"}
        /\ Holds(c, "ended") <=> c # None /\ c.status = "ended"
        /\ Holds(c, "confirmed") <=> c # None /\ c.status = "confirmed"
  BY <1>5 DEF Decided, Holds
<1>10. \A c \in ResponsibilityRecords \cup {None} : ~Decided(c) /\ Confirms(row) => claimed(c) =
          [roles |-> RolesOf(claim, None), status |-> status, evidence |-> {row.event.id}]
  BY <1>7
<1>11. row.authority => claim.type \in {"responsibility.confirmed", "responsibility.ended"}
  BY DEF Rightful
<1> HIDE DEF ended, claimed, claim
<1>12. \A c \in ResponsibilityRecords \cup {None} : ReplayResponsibility(c, row) \in ResponsibilityRecords \cup {None}
  BY <1>4, <1>6, <1>8, <1>9
<1>13. Decided(ReplayResponsibility(current, row)) <=> Decided(current) \/ Confirms(row)
  <2>1. CASE Holds(current, "ended") \/ (Holds(current, "confirmed") /\ ~row.authority)
    BY <1>4, <1>9, <2>1 DEF Confirms
  <2>2. CASE ~(Holds(current, "ended") \/ (Holds(current, "confirmed") /\ ~row.authority))
             /\ claim.type = "responsibility.ended"
    <3>1. ~Confirms(row)
      BY <2>2 DEF Confirms, claim
    <3>2. CASE row.authority /\ Holds(current, "confirmed")
      <4>1. ReplayResponsibility(current, row) = ended(current) /\ current \in ResponsibilityRecords
        BY <1>4, <1>9, <2>2, <3>2
      <4>2. Decided(current) /\ Decided(ended(current))
        BY <1>3, <1>6, <1>9, <3>2, <4>1
      <4> QED
        BY <4>1, <4>2
    <3>3. CASE ~(row.authority /\ Holds(current, "confirmed"))
      <4>1. ReplayResponsibility(current, row) = current
        BY <1>4, <2>2, <3>3
      <4> QED
        BY <3>1, <4>1
    <3> QED
      BY <3>2, <3>3
  <2>3. CASE ~(Holds(current, "ended") \/ (Holds(current, "confirmed") /\ ~row.authority))
             /\ claim.type # "responsibility.ended"
    <3>1. ReplayResponsibility(current, row) = claimed(current)
      BY <1>4, <2>3
    <3>2. claimed(current) \in ResponsibilityRecords /\ claimed(current).status = status
          /\ claimed(current) # None
      BY <1>3, <1>8
    <3>3. Decided(claimed(current)) <=> Confirms(row)
      BY <1>9, <3>2
    <3>4. Decided(current) => row.authority
      BY <1>9, <2>3
    <3>5. row.authority => Confirms(row)
      BY <1>11, <2>3 DEF Confirms, claim
    <3> QED
      BY <3>1, <3>3, <3>4, <3>5
  <2> QED
    BY <2>1, <2>2, <2>3
<1>14. Holds(ReplayResponsibility(current, row), "ended") <=>
         Holds(current, "ended") \/ (Decided(current) /\ Ends(row))
  <2>1. CASE Holds(current, "ended") \/ (Holds(current, "confirmed") /\ ~row.authority)
    BY <1>4, <1>9, <2>1 DEF Ends
  <2>2. CASE ~(Holds(current, "ended") \/ (Holds(current, "confirmed") /\ ~row.authority))
             /\ claim.type = "responsibility.ended"
    <3>1. CASE row.authority /\ Holds(current, "confirmed")
      <4>1. ReplayResponsibility(current, row) = ended(current) /\ current \in ResponsibilityRecords
        BY <1>4, <1>9, <2>2, <3>1
      <4>2. Decided(current) /\ Holds(ended(current), "ended") /\ Ends(row)
        BY <1>3, <1>6, <1>9, <2>2, <3>1, <4>1 DEF Ends, claim
      <4> QED
        BY <4>1, <4>2
    <3>2. CASE ~(row.authority /\ Holds(current, "confirmed"))
      <4>1. ReplayResponsibility(current, row) = current
        BY <1>4, <2>2, <3>2
      <4>2. ~(Decided(current) /\ Ends(row))
        BY <1>9, <2>2, <3>2 DEF Ends
      <4> QED
        BY <4>1, <4>2
    <3> QED
      BY <3>1, <3>2
  <2>3. CASE ~(Holds(current, "ended") \/ (Holds(current, "confirmed") /\ ~row.authority))
             /\ claim.type # "responsibility.ended"
    <3>1. ReplayResponsibility(current, row) = claimed(current)
      BY <1>4, <2>3
    <3>2. ~Holds(claimed(current), "ended")
      BY <1>8, <1>9
    <3>3. ~Ends(row)
      BY <2>3 DEF Ends, claim
    <3> QED
      BY <2>3, <3>1, <3>2, <3>3
  <2> QED
    BY <2>1, <2>2, <2>3
<1>15. Decided(current) /\ ~row.authority => ReplayResponsibility(current, row) = current
  BY <1>4, <1>9
<1>16. \A c \in ResponsibilityRecords \cup {None} : ~Decided(c) /\ Confirms(row) =>
         ReplayResponsibility(c, row) =
           [roles |-> RolesOf(claim, None), status |-> status, evidence |-> {row.event.id}]
  BY <1>4, <1>9, <1>10 DEF Confirms, claim
<1> QED
  BY <1>12, <1>13, <1>14, <1>15, <1>16

-----------------------------------------------------------------------------
(* ControlLedger: the whole projection                                       *)

LEMMA ReplayTyped ==
  ASSUME NEW state \in States, NEW row \in RowSpace, Rightful(row)
  PROVE  Replay(state, row) \in States
<1> DEFINE subject == row.event.claim.subject
<1>1. /\ subject \in Subjects
      /\ state.lineage \in [Subjects -> LineageRecords \cup {None}]
      /\ state.responsibilities \in [Subjects -> ResponsibilityRecords \cup {None}]
  BY ClaimsOfRows DEF States, LineageClaims, ResponsibilityClaims
<1>2. CASE row.event.claim.type = "lineage.relation"
  <2>1. Replay(state, row) = [state EXCEPT !.lineage[subject] = ReplayLineage(@, row)]
    BY <1>2 DEF Replay
  <2>2. ReplayLineage(state.lineage[subject], row) \in LineageRecords
    BY <1>1, <1>2, LineageStep
  <2> HIDE DEF subject
  <2> QED
    BY <1>1, <2>1, <2>2 DEF States
<1>3. CASE row.event.claim.type # "lineage.relation"
  <2>1. Replay(state, row) = [state EXCEPT !.responsibilities[subject] = ReplayResponsibility(@, row)]
    BY <1>3 DEF Replay
  <2>2. ReplayResponsibility(state.responsibilities[subject], row) \in ResponsibilityRecords \cup {None}
    BY <1>1, <1>3, ResponsibilityStep
  <2> HIDE DEF subject
  <2> QED
    BY <1>1, <2>1, <2>2 DEF States
<1> QED
  BY <1>2, <1>3

\* The replay of well-formed rows holds records of its two tables.
LEMMA ReplaysTyped ==
  ASSUME NEW rows, WellFormed(rows)
  PROVE  \A i \in 0 .. MaxId : Replays(rows)[i] \in States
<1> DEFINE Typed == {n \in Nat : n <= MaxId => Replays(rows)[n] \in States}
<1>1. MaxId \in Nat
  BY LedgerAssumption
<1>2. 0 \in Typed
  <2>1. Empty \in States
    BY DEF Empty, States
  <2> QED
    BY <2>1, ReplaysEquation
<1>3. ASSUME NEW n \in Nat, n \in Typed PROVE n + 1 \in Typed
  <2> SUFFICES ASSUME n + 1 <= MaxId PROVE Replays(rows)[n + 1] \in States
    OBVIOUS
  <2>1. n + 1 \in 1 .. MaxId /\ (n + 1) - 1 = n /\ n <= MaxId
    BY <1>1
  <2>2. Replays(rows)[n] \in States
    BY <1>3, <2>1
  <2>3. Replays(rows)[n + 1] = AfterRow(Replays(rows)[n], rows, n + 1)
    BY <2>1, ReplaysEquation
  <2>4. n + 1 \in DOMAIN rows => rows[n + 1] \in RowSpace /\ Rightful(rows[n + 1])
    BY DEF WellFormed
  <2> QED
    BY <2>2, <2>3, <2>4, ReplayTyped DEF AfterRow
<1> HIDE DEF Typed
<1>4. \A n \in Nat : n \in Typed
  BY <1>2, <1>3, SetInduction
<1> QED
  BY <1>1, <1>4 DEF Typed

\* What is decided in one of two replays is so, and the same, in the other.
SameDecisions(a, b) ==
  \A s \in Subjects :
    /\ Decided(a.lineage[s]) \/ Decided(b.lineage[s]) => a.lineage[s] = b.lineage[s]
    /\ Decided(a.responsibilities[s]) \/ Decided(b.responsibilities[s])
         => a.responsibilities[s] = b.responsibilities[s]

LEMMA SameAfterAuthorized ==
  ASSUME NEW a \in States, NEW b \in States, NEW row \in RowSpace, Rightful(row), row.authority,
         SameDecisions(a, b)
  PROVE  SameDecisions(Replay(a, row), Replay(b, row))
<1> SUFFICES ASSUME NEW s \in Subjects
             PROVE  /\ Decided(Replay(a, row).lineage[s]) \/ Decided(Replay(b, row).lineage[s])
                         => Replay(a, row).lineage[s] = Replay(b, row).lineage[s]
                    /\ Decided(Replay(a, row).responsibilities[s]) \/ Decided(Replay(b, row).responsibilities[s])
                         => Replay(a, row).responsibilities[s] = Replay(b, row).responsibilities[s]
  BY DEF SameDecisions
<1>1. PICK la \in LineageRecords \cup {None}, lb \in LineageRecords \cup {None} :
        la = a.lineage[s] /\ lb = b.lineage[s]
  BY DEF States
<1>2. PICK ra \in ResponsibilityRecords \cup {None}, rb \in ResponsibilityRecords \cup {None} :
        ra = a.responsibilities[s] /\ rb = b.responsibilities[s]
  BY DEF States
<1>3. (Decided(la) \/ Decided(lb) => la = lb) /\ (Decided(ra) \/ Decided(rb) => ra = rb)
  BY <1>1, <1>2 DEF SameDecisions
<1>4. Decided(Replay(a, row).lineage[s]) \/ Decided(Replay(b, row).lineage[s])
        => Replay(a, row).lineage[s] = Replay(b, row).lineage[s]
  <2>1. CASE ~OfLineage(row, s)
    BY <1>1, <1>3, <2>1, ReplayOfSubject
  <2>2. CASE OfLineage(row, s)
    <3>1. Replay(a, row).lineage[s] = ReplayLineage(la, row) /\ Replay(b, row).lineage[s] = ReplayLineage(lb, row)
      BY <1>1, <2>2, ReplayOfSubject
    <3>2. row.event.claim.type = "lineage.relation"
      BY <2>2 DEF OfLineage
    <3>3. ~Decided(la) /\ ~Decided(lb) => ReplayLineage(la, row) = ReplayLineage(lb, row)
      BY <3>2, LineageStep
    <3> QED
      BY <1>3, <3>1, <3>3
  <2> QED
    BY <2>1, <2>2
<1>5. Decided(Replay(a, row).responsibilities[s]) \/ Decided(Replay(b, row).responsibilities[s])
        => Replay(a, row).responsibilities[s] = Replay(b, row).responsibilities[s]
  <2>1. CASE ~OfResponsibility(row, s)
    BY <1>2, <1>3, <2>1, ReplayOfSubject
  <2>2. CASE OfResponsibility(row, s)
    <3> DEFINE na == ReplayResponsibility(ra, row)
               nb == ReplayResponsibility(rb, row)
    <3>1. Replay(a, row).responsibilities[s] = na /\ Replay(b, row).responsibilities[s] = nb
      BY <1>2, <2>2, ReplayOfSubject
    <3>2. row.event.claim.type # "lineage.relation"
      BY <2>2 DEF OfResponsibility
    <3>3. /\ Decided(na) <=> Decided(ra) \/ Confirms(row)
          /\ Decided(nb) <=> Decided(rb) \/ Confirms(row)
      BY <3>2, ResponsibilityStep
    <3>4. ~Decided(ra) /\ ~Decided(rb) /\ Confirms(row) => na = nb
      BY <3>2, ResponsibilityStep
    <3>5. ra = rb => na = nb
      OBVIOUS
    <3> HIDE DEF na, nb
    <3> QED
      BY <1>3, <3>1, <3>3, <3>4, <3>5
  <2> QED
    BY <2>1, <2>2
<1> QED
  BY <1>4, <1>5

LEMMA SameAfterObserved ==
  ASSUME NEW a \in States, NEW b \in States, NEW row \in RowSpace, Rightful(row), ~row.authority,
         SameDecisions(a, b)
  PROVE  SameDecisions(Replay(a, row), b)
<1> SUFFICES ASSUME NEW s \in Subjects
             PROVE  /\ Decided(Replay(a, row).lineage[s]) \/ Decided(b.lineage[s])
                         => Replay(a, row).lineage[s] = b.lineage[s]
                    /\ Decided(Replay(a, row).responsibilities[s]) \/ Decided(b.responsibilities[s])
                         => Replay(a, row).responsibilities[s] = b.responsibilities[s]
  BY DEF SameDecisions
<1>1. PICK la \in LineageRecords \cup {None} : la = a.lineage[s]
  BY DEF States
<1>2. PICK ra \in ResponsibilityRecords \cup {None} : ra = a.responsibilities[s]
  BY DEF States
<1>3. /\ Decided(la) \/ Decided(b.lineage[s]) => la = b.lineage[s]
      /\ Decided(ra) \/ Decided(b.responsibilities[s]) => ra = b.responsibilities[s]
  BY <1>1, <1>2 DEF SameDecisions
<1>4. Decided(Replay(a, row).lineage[s]) \/ Decided(b.lineage[s]) => Replay(a, row).lineage[s] = b.lineage[s]
  <2>1. CASE ~OfLineage(row, s)
    BY <1>1, <1>3, <2>1, ReplayOfSubject
  <2>2. CASE OfLineage(row, s)
    <3>1. Replay(a, row).lineage[s] = ReplayLineage(la, row)
      BY <1>1, <2>2, ReplayOfSubject
    <3>2. row.event.claim.type = "lineage.relation"
      BY <2>2 DEF OfLineage
    <3>3. /\ Decided(la) => ReplayLineage(la, row) = la
          /\ Decided(ReplayLineage(la, row)) <=> Decided(la)
      BY <3>2, LineageStep DEF Decides
    <3> QED
      BY <1>3, <3>1, <3>3
  <2> QED
    BY <2>1, <2>2
<1>5. Decided(Replay(a, row).responsibilities[s]) \/ Decided(b.responsibilities[s])
        => Replay(a, row).responsibilities[s] = b.responsibilities[s]
  <2>1. CASE ~OfResponsibility(row, s)
    BY <1>2, <1>3, <2>1, ReplayOfSubject
  <2>2. CASE OfResponsibility(row, s)
    <3>1. Replay(a, row).responsibilities[s] = ReplayResponsibility(ra, row)
      BY <1>2, <2>2, ReplayOfSubject
    <3>2. row.event.claim.type # "lineage.relation"
      BY <2>2 DEF OfResponsibility
    <3>3. /\ Decided(ra) => ReplayResponsibility(ra, row) = ra
          /\ Decided(ReplayResponsibility(ra, row)) <=> Decided(ra)
      BY <3>2, ResponsibilityStep DEF Confirms
    <3> QED
      BY <1>3, <3>1, <3>3
  <2> QED
    BY <2>1, <2>2
<1> QED
  BY <1>4, <1>5

\* The decisions of a ledger are those of its authorised rows.
LEMMA AuthorizedDecide ==
  ASSUME NEW rows, WellFormed(rows)
  PROVE  /\ Projection(rows) \in States /\ Projection(Authorized(rows)) \in States
         /\ SameDecisions(Projection(rows), Projection(Authorized(rows)))
<1> DEFINE trusted == Authorized(rows)
<1>1. MaxId \in Nat
  BY LedgerAssumption
<1>2. /\ \A i : i \in DOMAIN trusted <=> i \in DOMAIN rows /\ rows[i].authority
      /\ \A i \in DOMAIN trusted : trusted[i] = rows[i]
  BY DEF Authorized
<1> HIDE DEF trusted
<1>3. WellFormed(trusted)
  BY <1>2 DEF WellFormed
<1>4. \A i \in 0 .. MaxId : Replays(rows)[i] \in States /\ Replays(trusted)[i] \in States
  BY <1>3, ReplaysTyped
<1> DEFINE Same == {n \in Nat : n <= MaxId => SameDecisions(Replays(rows)[n], Replays(trusted)[n])}
<1>5. 0 \in Same
  BY ReplaysEquation DEF SameDecisions
<1>6. ASSUME NEW n \in Nat, n \in Same PROVE n + 1 \in Same
  <2> SUFFICES ASSUME n + 1 <= MaxId PROVE SameDecisions(Replays(rows)[n + 1], Replays(trusted)[n + 1])
    OBVIOUS
  <2>1. n + 1 \in 1 .. MaxId /\ (n + 1) - 1 = n /\ n \in 0 .. MaxId
    BY <1>1
  <2>2. PICK a \in States, b \in States : a = Replays(rows)[n] /\ b = Replays(trusted)[n]
    BY <1>4, <2>1
  <2>3. SameDecisions(a, b)
    BY <1>6, <2>1, <2>2
  <2>4. Replays(rows)[n + 1] = AfterRow(a, rows, n + 1) /\ Replays(trusted)[n + 1] = AfterRow(b, trusted, n + 1)
    BY <2>1, <2>2, ReplaysEquation
  <2>5. CASE n + 1 \notin DOMAIN rows
    BY <1>2, <2>3, <2>4, <2>5 DEF AfterRow
  <2>6. CASE n + 1 \in DOMAIN rows
    <3>1. PICK row : row = rows[n + 1]
      OBVIOUS
    <3>2. row \in RowSpace /\ Rightful(row)
      BY <2>6, <3>1 DEF WellFormed
    <3>3. CASE row.authority
      <4>1. Replays(rows)[n + 1] = Replay(a, row) /\ Replays(trusted)[n + 1] = Replay(b, row)
        BY <1>2, <2>4, <2>6, <3>1, <3>3 DEF AfterRow
      <4> QED
        BY <2>3, <3>2, <3>3, <4>1, SameAfterAuthorized
    <3>4. CASE ~row.authority
      <4>1. Replays(rows)[n + 1] = Replay(a, row) /\ Replays(trusted)[n + 1] = b
        BY <1>2, <2>4, <2>6, <3>1, <3>4 DEF AfterRow
      <4> QED
        BY <2>3, <3>2, <3>4, <4>1, SameAfterObserved
    <3> QED
      BY <3>3, <3>4
  <2> QED
    BY <2>5, <2>6
<1> HIDE DEF Same
<1>7. \A n \in Nat : n \in Same
  BY <1>5, <1>6, SetInduction
<1>8. SameDecisions(Replays(rows)[MaxId], Replays(trusted)[MaxId])
  BY <1>1, <1>7 DEF Same
<1>9. Replays(rows)[MaxId] \in States /\ Replays(trusted)[MaxId] \in States
  BY <1>1, <1>4
<1> QED
  BY <1>8, <1>9 DEF Projection, trusted

\* What is decided in a stays decided in b, and what is ended stays ended.
Stands(a, b) ==
  \A s \in Subjects :
    /\ Decided(a.lineage[s]) => Decided(b.lineage[s])
    /\ Decided(a.responsibilities[s]) => Decided(b.responsibilities[s])
    /\ Holds(a.responsibilities[s], "ended") => Holds(b.responsibilities[s], "ended")

\* One row more, wherever it is put, undoes nothing.
LEMMA StandsAfterMore ==
  ASSUME NEW a \in States, NEW b \in States, NEW row \in RowSpace, Rightful(row),
         Stands(a, b)
  PROVE  Stands(a, Replay(b, row))
<1> SUFFICES ASSUME NEW s \in Subjects
             PROVE  /\ Decided(a.lineage[s]) => Decided(Replay(b, row).lineage[s])
                    /\ Decided(a.responsibilities[s]) => Decided(Replay(b, row).responsibilities[s])
                    /\ Holds(a.responsibilities[s], "ended")
                         => Holds(Replay(b, row).responsibilities[s], "ended")
  BY DEF Stands
<1>1. PICK l \in LineageRecords \cup {None}, r \in ResponsibilityRecords \cup {None} :
        l = b.lineage[s] /\ r = b.responsibilities[s]
  BY DEF States
<1>2. Decided(l) => Decided(Replay(b, row).lineage[s])
  <2>1. CASE ~OfLineage(row, s)
    BY <1>1, <2>1, ReplayOfSubject
  <2>2. CASE OfLineage(row, s)
    BY <1>1, <2>2, ReplayOfSubject, LineageStep DEF OfLineage
  <2> QED
    BY <2>1, <2>2
<1>3. /\ Decided(r) => Decided(Replay(b, row).responsibilities[s])
      /\ Holds(r, "ended") => Holds(Replay(b, row).responsibilities[s], "ended")
  <2>1. CASE ~OfResponsibility(row, s)
    BY <1>1, <2>1, ReplayOfSubject
  <2>2. CASE OfResponsibility(row, s)
    <3>1. Replay(b, row).responsibilities[s] = ReplayResponsibility(r, row)
      BY <1>1, <2>2, ReplayOfSubject
    <3>2. row.event.claim.type # "lineage.relation"
      BY <2>2 DEF OfResponsibility
    <3>3. /\ Decided(r) => Decided(ReplayResponsibility(r, row))
          /\ Holds(r, "ended") => Holds(ReplayResponsibility(r, row), "ended")
      BY <3>2, ResponsibilityStep
    <3> QED
      BY <3>1, <3>3
  <2> QED
    BY <2>1, <2>2
<1> QED
  BY <1>1, <1>2, <1>3 DEF Stands

\* The same row in both keeps them in step.
LEMMA StandsAfterBoth ==
  ASSUME NEW a \in States, NEW b \in States, NEW row \in RowSpace, Rightful(row),
         Stands(a, b)
  PROVE  Stands(Replay(a, row), Replay(b, row))
<1> SUFFICES ASSUME NEW s \in Subjects
             PROVE  /\ Decided(Replay(a, row).lineage[s]) => Decided(Replay(b, row).lineage[s])
                    /\ Decided(Replay(a, row).responsibilities[s])
                         => Decided(Replay(b, row).responsibilities[s])
                    /\ Holds(Replay(a, row).responsibilities[s], "ended")
                         => Holds(Replay(b, row).responsibilities[s], "ended")
  BY DEF Stands
<1>1. PICK la \in LineageRecords \cup {None}, lb \in LineageRecords \cup {None} :
        la = a.lineage[s] /\ lb = b.lineage[s]
  BY DEF States
<1>2. PICK ra \in ResponsibilityRecords \cup {None}, rb \in ResponsibilityRecords \cup {None} :
        ra = a.responsibilities[s] /\ rb = b.responsibilities[s]
  BY DEF States
<1>3. /\ Decided(la) => Decided(lb)
      /\ Decided(ra) => Decided(rb)
      /\ Holds(ra, "ended") => Holds(rb, "ended")
  BY <1>1, <1>2 DEF Stands
<1>4. Decided(Replay(a, row).lineage[s]) => Decided(Replay(b, row).lineage[s])
  <2>1. CASE ~OfLineage(row, s)
    BY <1>1, <1>3, <2>1, ReplayOfSubject
  <2>2. CASE OfLineage(row, s)
    <3>1. Replay(a, row).lineage[s] = ReplayLineage(la, row) /\ Replay(b, row).lineage[s] = ReplayLineage(lb, row)
      BY <1>1, <2>2, ReplayOfSubject
    <3>2. row.event.claim.type = "lineage.relation"
      BY <2>2 DEF OfLineage
    <3>3. /\ Decided(ReplayLineage(la, row)) <=> Decided(la) \/ Decides(row)
          /\ Decided(ReplayLineage(lb, row)) <=> Decided(lb) \/ Decides(row)
      BY <3>2, LineageStep
    <3> QED
      BY <1>3, <3>1, <3>3
  <2> QED
    BY <2>1, <2>2
<1>5. /\ Decided(Replay(a, row).responsibilities[s]) => Decided(Replay(b, row).responsibilities[s])
      /\ Holds(Replay(a, row).responsibilities[s], "ended")
           => Holds(Replay(b, row).responsibilities[s], "ended")
  <2>1. CASE ~OfResponsibility(row, s)
    BY <1>2, <1>3, <2>1, ReplayOfSubject
  <2>2. CASE OfResponsibility(row, s)
    <3> DEFINE na == ReplayResponsibility(ra, row)
               nb == ReplayResponsibility(rb, row)
    <3>1. Replay(a, row).responsibilities[s] = na /\ Replay(b, row).responsibilities[s] = nb
      BY <1>2, <2>2, ReplayOfSubject
    <3>2. row.event.claim.type # "lineage.relation"
      BY <2>2 DEF OfResponsibility
    <3>3. /\ Decided(na) <=> Decided(ra) \/ Confirms(row)
          /\ Decided(nb) <=> Decided(rb) \/ Confirms(row)
          /\ Holds(na, "ended") <=> Holds(ra, "ended") \/ (Decided(ra) /\ Ends(row))
          /\ Holds(nb, "ended") <=> Holds(rb, "ended") \/ (Decided(rb) /\ Ends(row))
      BY <3>2, ResponsibilityStep
    <3> HIDE DEF na, nb
    <3> QED
      BY <1>3, <3>1, <3>3
  <2> QED
    BY <2>1, <2>2
<1> QED
  BY <1>4, <1>5

\* Rows that come later, whatever place they are given, undo no decision.
LEMMA MoreRowsUndoNothing ==
  ASSUME NEW rows, NEW more, WellFormed(rows), WellFormed(more),
         \A i \in DOMAIN rows : i \in DOMAIN more /\ more[i] = rows[i]
  PROVE  Stands(Projection(rows), Projection(more))
<1>1. MaxId \in Nat
  BY LedgerAssumption
<1>2. \A i \in 0 .. MaxId : Replays(rows)[i] \in States /\ Replays(more)[i] \in States
  BY ReplaysTyped
<1> DEFINE Standing == {n \in Nat : n <= MaxId => Stands(Replays(rows)[n], Replays(more)[n])}
<1>3. 0 \in Standing
  BY ReplaysEquation DEF Stands
<1>4. ASSUME NEW n \in Nat, n \in Standing PROVE n + 1 \in Standing
  <2> SUFFICES ASSUME n + 1 <= MaxId PROVE Stands(Replays(rows)[n + 1], Replays(more)[n + 1])
    OBVIOUS
  <2>1. n + 1 \in 1 .. MaxId /\ (n + 1) - 1 = n /\ n \in 0 .. MaxId
    BY <1>1
  <2>2. PICK a \in States, b \in States : a = Replays(rows)[n] /\ b = Replays(more)[n]
    BY <1>2, <2>1
  <2>3. Stands(a, b)
    BY <1>4, <2>1, <2>2
  <2>4. Replays(rows)[n + 1] = AfterRow(a, rows, n + 1) /\ Replays(more)[n + 1] = AfterRow(b, more, n + 1)
    BY <2>1, <2>2, ReplaysEquation
  <2>5. CASE n + 1 \notin DOMAIN more
    BY <2>3, <2>4, <2>5 DEF AfterRow
  <2>6. CASE n + 1 \in DOMAIN more
    <3>1. PICK row : row = more[n + 1]
      OBVIOUS
    <3>2. row \in RowSpace /\ Rightful(row)
      BY <2>6, <3>1 DEF WellFormed
    <3>3. CASE n + 1 \in DOMAIN rows
      <4>1. Replays(rows)[n + 1] = Replay(a, row) /\ Replays(more)[n + 1] = Replay(b, row)
        BY <2>4, <2>6, <3>1, <3>3 DEF AfterRow
      <4> QED
        BY <2>3, <3>2, <4>1, StandsAfterBoth
    <3>4. CASE n + 1 \notin DOMAIN rows
      <4>1. Replays(rows)[n + 1] = a /\ Replays(more)[n + 1] = Replay(b, row)
        BY <2>4, <2>6, <3>1, <3>4 DEF AfterRow
      <4> QED
        BY <2>3, <3>2, <4>1, StandsAfterMore
    <3> QED
      BY <3>3, <3>4
  <2> QED
    BY <2>5, <2>6
<1> HIDE DEF Standing
<1>5. \A n \in Nat : n \in Standing
  BY <1>3, <1>4, SetInduction
<1> QED
  BY <1>1, <1>5 DEF Standing, Projection

-----------------------------------------------------------------------------
(* ControlLedger: writing                                                    *)

\* A row under its own id whose public form is that of its content.
SoundRow(rows, i) == rows[i].digest.id = i /\ rows[i].event = Public(rows[i].digest)
SoundRows(rows) == WellFormed(rows) /\ \A i \in DOMAIN rows : SoundRow(rows, i)

\* The row holds this event.
HoldsEvent(row, e) == row.digest \in {e, Imported(e)}

LEMMA NewRowSound ==
  ASSUME NEW e \in EventSpace, NEW origin \in Origins,
         origin = "authorized" => e.claim.type \in
           {"lineage.relation", "responsibility.confirmed", "responsibility.ended"}
  PROVE  LET row == NewRow(e, origin) IN
         /\ row \in RowSpace /\ Rightful(row) /\ HoldsEvent(row, e)
         /\ row.digest.id = e.id /\ row.event = Public(row.digest)
<1>1. e.kind \in Kinds /\ e.text \in Texts /\ e.id \in EventIds /\ e.claim \in Claims
  BY DEF EventSpace
<1>2. Imported(e) \in EventSpace /\ Imported(e).id = e.id /\ Imported(e).claim = e.claim
  BY <1>1 DEF Imported, EventSpace, Kinds
<1>3. PICK c \in EventSpace : c = Classified(e, origin)
  BY <1>2 DEF Classified
<1>4. c \in {e, Imported(e)} /\ c.id = e.id /\ c.claim = e.claim
  BY <1>2, <1>3 DEF Classified
<1>5. c.text \in Texts
  BY DEF EventSpace
<1>6. Public(c) \in PublicForms /\ Public(c).claim = c.claim
  BY <1>5 DEF Public, EventSpace, PublicForms, Texts
<1>7. NewRow(e, origin) = [event |-> Public(c), digest |-> c, authority |-> (origin = "authorized")]
  BY <1>3 DEF NewRow
<1>8. NewRow(e, origin) \in RowSpace
  BY <1>6, <1>7 DEF RowSpace
<1>9. NewRow(e, origin).event = Public(c) /\ NewRow(e, origin).digest = c
      /\ NewRow(e, origin).authority = (origin = "authorized")
  BY <1>7
<1>10. Rightful(NewRow(e, origin))
  BY <1>4, <1>6, <1>9 DEF Rightful
<1> QED
  BY <1>4, <1>8, <1>9, <1>10 DEF HoldsEvent

Extends(more, rows) == \A i \in DOMAIN rows : i \in DOMAIN more /\ more[i] = rows[i]

\* An event that does not conflict is there afterwards, and nothing else is new.
LEMMA StoredSound ==
  ASSUME NEW rows, SoundRows(rows), NEW e \in EventSpace, NEW origin \in Origins,
         origin = "authorized" => e.claim.type \in
           {"lineage.relation", "responsibility.confirmed", "responsibility.ended"},
         ~Conflict(rows, e, origin)
  PROVE  LET stored == Stored(rows, e, origin) IN
         /\ SoundRows(stored) /\ Extends(stored, rows)
         /\ \E i \in DOMAIN stored : HoldsEvent(stored[i], e)
         /\ \A i \in DOMAIN stored : i \in DOMAIN rows \/ HoldsEvent(stored[i], e)
<1>1. CASE Previous(rows, e) # {}
  <2>1. PICK i \in Previous(rows, e) : TRUE
    BY <1>1
  <2>2. i \in DOMAIN rows
    BY <2>1 DEF Previous, SameId, SameKey
  <2>3. IsRetry(rows[i].digest, e, origin)
    BY <2>1 DEF Conflict
  <2>4. HoldsEvent(rows[i], e)
    BY <2>3 DEF IsRetry, Classified, HoldsEvent
  <2>5. Stored(rows, e, origin) = rows
    BY <1>1 DEF Stored
  <2> QED
    BY <2>2, <2>4, <2>5 DEF Extends
<1>2. CASE Previous(rows, e) = {}
  <2>1. e.id \notin DOMAIN rows
    BY <1>2 DEF Previous, SameId
  <2>2. PICK row : row = NewRow(e, origin)
    OBVIOUS
  <2>3. /\ row \in RowSpace /\ Rightful(row) /\ HoldsEvent(row, e)
        /\ row.digest.id = e.id /\ row.event = Public(row.digest)
    BY <2>2, NewRowSound
  <2>4. PICK stored : stored = Stored(rows, e, origin)
    OBVIOUS
  <2>5. stored = [i \in (DOMAIN rows) \cup {e.id} |-> IF i \in DOMAIN rows THEN rows[i] ELSE row]
    BY <1>2, <2>2, <2>4 DEF Stored, Merged
  <2>6. DOMAIN stored = (DOMAIN rows) \cup {e.id} /\ stored[e.id] = row
        /\ \A i \in DOMAIN rows : stored[i] = rows[i]
    BY <2>1, <2>5
  <2>7. WellFormed(stored)
    BY <2>3, <2>6 DEF WellFormed, SoundRows
  <2>8. \A i \in DOMAIN stored : SoundRow(stored, i)
    BY <2>3, <2>6 DEF SoundRow, SoundRows
  <2> QED
    BY <2>3, <2>4, <2>6, <2>7, <2>8 DEF Extends, SoundRows
<1> QED
  BY <1>1, <1>2

LEMMA AfterEventsEquation ==
  ASSUME NEW batch \in Seq(Events), NEW origin
  PROVE  /\ AfterEvents(batch, origin)[0] = [rows |-> ledger, refused |-> FALSE]
         /\ \A n \in 1 .. Len(batch) : AfterEvents(batch, origin)[n] =
              AfterEvent(AfterEvents(batch, origin)[n - 1], batch[n], origin)
<1> DEFINE start == [rows |-> ledger, refused |-> FALSE]
           Solves(f, n) == f = [m \in 0 .. n |-> IF m = 0 THEN start ELSE AfterEvent(f[m - 1], batch[m], origin)]
           Solvable == {n \in Nat : \E f : Solves(f, n)}
<1> HIDE DEF start
<1>1. 0 \in Solvable
  <2>1. Solves([m \in 0 .. 0 |-> start], 0)
    OBVIOUS
  <2> QED
    BY <2>1
<1>2. ASSUME NEW n \in Nat, n \in Solvable PROVE n + 1 \in Solvable
  <2>1. PICK f : Solves(f, n)
    BY <1>2
  <2> DEFINE g == [m \in 0 .. n + 1 |-> IF m = n + 1 THEN AfterEvent(f[n], batch[n + 1], origin) ELSE f[m]]
  <2>2. \A m \in 0 .. n + 1 : g[m] = IF m = 0 THEN start ELSE AfterEvent(g[m - 1], batch[m], origin)
    <3> SUFFICES ASSUME NEW m \in 0 .. n + 1
                 PROVE g[m] = IF m = 0 THEN start ELSE AfterEvent(g[m - 1], batch[m], origin)
      OBVIOUS
    <3>1. CASE m = n + 1
      <4>1. g[m] = AfterEvent(f[n], batch[n + 1], origin) /\ g[n] = f[n] /\ m - 1 = n /\ m # 0
        BY <3>1
      <4> QED
        BY <3>1, <4>1
    <3>2. CASE m # n + 1
      <4>1. m \in 0 .. n /\ g[m] = f[m] /\ (m # 0 => m - 1 \in 0 .. n /\ g[m - 1] = f[m - 1])
        BY <3>2
      <4>2. f[m] = IF m = 0 THEN start ELSE AfterEvent(f[m - 1], batch[m], origin)
        BY <2>1, <4>1
      <4> HIDE DEF g
      <4> QED
        BY <4>1, <4>2
    <3> QED
      BY <3>1, <3>2
  <2>3. g = [m \in 0 .. n + 1 |-> g[m]]
    OBVIOUS
  <2> HIDE DEF g
  <2>4. Solves(g, n + 1)
    BY <2>2, <2>3
  <2> HIDE DEF Solves
  <2> QED
    BY <2>4
<1>3. Len(batch) \in Nat
  OBVIOUS
<1>4. Len(batch) \in Solvable
  <2> HIDE DEF Solvable
  <2>1. \A n \in Nat : n \in Solvable => n + 1 \in Solvable
    BY <1>2
  <2> QED
    BY <1>1, <1>3, <2>1, SetInduction
<1>5. \E f : Solves(f, Len(batch))
  BY <1>4
<1>6. Solves(CHOOSE f : Solves(f, Len(batch)), Len(batch))
  <2> HIDE DEF Solves
  <2> QED
    BY <1>5
<1>7. AfterEvents(batch, origin) = CHOOSE f : Solves(f, Len(batch))
  BY DEF AfterEvents, start
<1>8. Solves(AfterEvents(batch, origin), Len(batch))
  BY <1>6, <1>7
<1>9. PICK f : f = AfterEvents(batch, origin)
  OBVIOUS
<1>10. f[0] = start /\ \A n \in 1 .. Len(batch) : f[n] = AfterEvent(f[n - 1], batch[n], origin)
  BY <1>3, <1>8, <1>9
<1> QED
  BY <1>9, <1>10 DEF start

LedgerInv == SoundRows(ledger) /\ LedgerHoldsAcknowledged

\* What is known after the first events of a batch.
Progress(outcome, batch, n) ==
  /\ outcome = [rows |-> outcome.rows, refused |-> outcome.refused]
  /\ SoundRows(outcome.rows) /\ Extends(outcome.rows, ledger)
  /\ ~outcome.refused =>
       \A m \in 1 .. n : \E i \in DOMAIN outcome.rows : HoldsEvent(outcome.rows[i], batch[m])
  /\ \A i \in DOMAIN outcome.rows : i \in DOMAIN ledger
       \/ \E m \in 1 .. n : HoldsEvent(outcome.rows[i], batch[m])

LEMMA EventProgress ==
  ASSUME NEW batch \in Seq(Events), NEW origin \in Origins,
         origin = "authorized" => MayAuthorize(batch),
         NEW n \in Nat, n + 1 <= Len(batch), NEW before, Progress(before, batch, n)
  PROVE  Progress(AfterEvent(before, batch[n + 1], origin), batch, n + 1)
<1>1. n + 1 \in DOMAIN batch /\ n + 1 \in 1 .. n + 1
  OBVIOUS
<1>2. PICK e \in EventSpace : e = batch[n + 1]
  BY <1>1, LedgerAssumption
<1>3. origin = "authorized" => e.claim.type \in
        {"lineage.relation", "responsibility.confirmed", "responsibility.ended"}
  BY <1>1, <1>2 DEF MayAuthorize
<1>4. PICK rows, refused : before = [rows |-> rows, refused |-> refused]
        /\ rows = before.rows /\ refused = before.refused
  BY DEF Progress
<1>5. /\ SoundRows(rows) /\ Extends(rows, ledger)
      /\ ~refused => \A m \in 1 .. n : \E i \in DOMAIN rows : HoldsEvent(rows[i], batch[m])
      /\ \A i \in DOMAIN rows : i \in DOMAIN ledger \/ \E m \in 1 .. n : HoldsEvent(rows[i], batch[m])
  BY <1>4 DEF Progress
<1>6. 1 .. n \subseteq 1 .. n + 1 /\ \A m \in 1 .. n + 1 : m \in 1 .. n \/ m = n + 1
  OBVIOUS
<1>7. CASE refused \/ Conflict(rows, e, origin)
  <2>1. AfterEvent(before, e, origin) = [rows |-> rows, refused |-> TRUE]
    BY <1>4, <1>7 DEF AfterEvent
  <2>2. PICK outcome : outcome = AfterEvent(before, e, origin)
    OBVIOUS
  <2>3. outcome.rows = rows /\ outcome.refused = TRUE /\ outcome = [rows |-> rows, refused |-> TRUE]
    BY <2>1, <2>2
  <2>4. \A i \in DOMAIN rows : i \in DOMAIN ledger \/ \E m \in 1 .. n + 1 : HoldsEvent(rows[i], batch[m])
    BY <1>5, <1>6
  <2>5. Progress(outcome, batch, n + 1)
    BY <1>5, <2>3, <2>4 DEF Progress
  <2> QED
    BY <1>2, <2>2, <2>5
<1>8. CASE ~(refused \/ Conflict(rows, e, origin))
  <2>1. PICK stored : stored = Stored(rows, e, origin)
    OBVIOUS
  <2>2. AfterEvent(before, e, origin) = [rows |-> stored, refused |-> refused]
    BY <1>4, <1>8, <2>1 DEF AfterEvent
  <2>3. PICK outcome : outcome = AfterEvent(before, e, origin)
    OBVIOUS
  <2>4. outcome.rows = stored /\ outcome.refused = refused
        /\ outcome = [rows |-> stored, refused |-> refused]
    BY <2>2, <2>3
  <2>5. /\ SoundRows(stored) /\ Extends(stored, rows)
        /\ \E i \in DOMAIN stored : HoldsEvent(stored[i], e)
        /\ \A i \in DOMAIN stored : i \in DOMAIN rows \/ HoldsEvent(stored[i], e)
    BY <1>3, <1>5, <1>8, <2>1, StoredSound
  <2>6. Extends(stored, ledger)
    BY <1>5, <2>5 DEF Extends
  <2>7. \A m \in 1 .. n + 1 : \E i \in DOMAIN stored : HoldsEvent(stored[i], batch[m])
    <3> SUFFICES ASSUME NEW m \in 1 .. n + 1 PROVE \E i \in DOMAIN stored : HoldsEvent(stored[i], batch[m])
      OBVIOUS
    <3>1. CASE m = n + 1
      BY <1>2, <2>5, <3>1
    <3>2. CASE m \in 1 .. n
      <4>1. PICK i \in DOMAIN rows : HoldsEvent(rows[i], batch[m])
        BY <1>5, <1>8, <3>2
      <4>2. i \in DOMAIN stored /\ stored[i] = rows[i]
        BY <2>5 DEF Extends
      <4> QED
        BY <4>1, <4>2
    <3> QED
      BY <1>6, <3>1, <3>2
  <2>8. \A i \in DOMAIN stored : i \in DOMAIN ledger \/ \E m \in 1 .. n + 1 : HoldsEvent(stored[i], batch[m])
    <3> SUFFICES ASSUME NEW i \in DOMAIN stored, i \notin DOMAIN ledger
                 PROVE \E m \in 1 .. n + 1 : HoldsEvent(stored[i], batch[m])
      OBVIOUS
    <3>1. CASE HoldsEvent(stored[i], e)
      BY <1>1, <1>2, <3>1
    <3>2. CASE i \in DOMAIN rows
      <4>1. PICK m \in 1 .. n : HoldsEvent(rows[i], batch[m])
        BY <1>5, <3>2
      <4>2. stored[i] = rows[i] /\ m \in 1 .. n + 1
        BY <1>6, <2>5, <3>2 DEF Extends
      <4> QED
        BY <4>1, <4>2
    <3> QED
      BY <2>5, <3>1, <3>2
  <2>9. Progress(outcome, batch, n + 1)
    BY <2>4, <2>5, <2>6, <2>7, <2>8 DEF Progress
  <2> QED
    BY <1>2, <2>3, <2>9
<1> QED
  BY <1>7, <1>8

\* A batch as a whole.
LEMMA BatchProgress ==
  ASSUME NEW batch \in Seq(Events), NEW origin \in Origins,
         origin = "authorized" => MayAuthorize(batch), SoundRows(ledger)
  PROVE  Progress(AfterBatch(batch, origin), batch, Len(batch))
<1> DEFINE after == AfterEvents(batch, origin)
           Good == {n \in Nat : n <= Len(batch) => Progress(after[n], batch, n)}
<1>1. Len(batch) \in Nat
  OBVIOUS
<1>2. 0 \in Good
  <2>1. PICK start : start = [rows |-> ledger, refused |-> FALSE]
    OBVIOUS
  <2>2. start.rows = ledger /\ start.refused = FALSE /\ start = [rows |-> start.rows, refused |-> start.refused]
    BY <2>1
  <2>3. Progress(start, batch, 0)
    BY <2>2 DEF Progress, Extends
  <2>4. after[0] = start
    BY <2>1, AfterEventsEquation
  <2> QED
    BY <2>3, <2>4
<1>3. ASSUME NEW n \in Nat, n \in Good PROVE n + 1 \in Good
  <2> SUFFICES ASSUME n + 1 <= Len(batch) PROVE Progress(after[n + 1], batch, n + 1)
    OBVIOUS
  <2>1. n + 1 \in 1 .. Len(batch) /\ (n + 1) - 1 = n /\ n <= Len(batch)
    BY <1>1
  <2>2. PICK before : before = after[n]
    OBVIOUS
  <2>3. Progress(before, batch, n)
    BY <1>3, <2>1, <2>2
  <2>4. after[n + 1] = AfterEvent(before, batch[n + 1], origin)
    BY <2>1, <2>2, AfterEventsEquation
  <2> HIDE DEF after
  <2> QED
    BY <2>3, <2>4, EventProgress
<1> HIDE DEF Good
<1>4. \A n \in Nat : n \in Good
  BY <1>2, <1>3, SetInduction
<1> QED
  BY <1>1, <1>4 DEF Good, AfterBatch

\* What an event that was acknowledged and a row have to do with each other.
LEMMA HeldRestated ==
  LedgerHoldsAcknowledged <=>
    /\ \A e \in acknowledged : \E i \in DOMAIN ledger : HoldsEvent(ledger[i], e)
    /\ \A i \in DOMAIN ledger : (\E e \in acknowledged : HoldsEvent(ledger[i], e)) /\ SoundRow(ledger, i)
  BY DEF LedgerHoldsAcknowledged, HoldsEvent, SoundRow

LEMMA AppendKeeps ==
  ASSUME LedgerInv, NEW batch \in Batches, NEW origin \in Origins, AppendBatch(batch, origin)
  PROVE  LedgerInv' /\ Extends(ledger', ledger)
<1>1. batch \in Seq(Events) /\ (origin = "authorized" => MayAuthorize(batch)) /\ SoundRows(ledger)
  BY LedgerAssumption DEF AppendBatch, LedgerInv
<1>2. PICK outcome : outcome = AfterBatch(batch, origin)
  OBVIOUS
<1>3. Progress(outcome, batch, Len(batch))
  BY <1>1, <1>2, BatchProgress
<1>4. /\ ledger' = IF outcome.refused THEN ledger ELSE outcome.rows
      /\ acknowledged' = acknowledged \cup {batch[n] : n \in {m \in DOMAIN batch : ~outcome.refused}}
  BY <1>2 DEF AppendBatch, CommitOrRollBack
<1>5. CASE outcome.refused
  <2>1. ledger' = ledger /\ acknowledged' = acknowledged
    BY <1>4, <1>5
  <2> QED
    BY <2>1 DEF LedgerInv, SoundRows, SoundRow, WellFormed, LedgerHoldsAcknowledged, Extends
<1>6. CASE ~outcome.refused
  <2>1. PICK rows : rows = ledger' /\ rows = outcome.rows
    BY <1>4, <1>6
  <2>2. acknowledged' = acknowledged \cup {batch[n] : n \in DOMAIN batch}
    BY <1>4, <1>6
  <2>3. DOMAIN batch = 1 .. Len(batch)
    BY <1>1
  <2>4. /\ SoundRows(rows) /\ Extends(rows, ledger)
        /\ \A m \in DOMAIN batch : \E i \in DOMAIN rows : HoldsEvent(rows[i], batch[m])
        /\ \A i \in DOMAIN rows : i \in DOMAIN ledger
             \/ \E m \in DOMAIN batch : HoldsEvent(rows[i], batch[m])
    BY <1>3, <1>6, <2>1, <2>3 DEF Progress
  <2>5. /\ \A e \in acknowledged : \E i \in DOMAIN ledger : HoldsEvent(ledger[i], e)
        /\ \A i \in DOMAIN ledger : \E e \in acknowledged : HoldsEvent(ledger[i], e)
    BY HeldRestated DEF LedgerInv
  <2>6. \A e \in acknowledged' : \E i \in DOMAIN rows : HoldsEvent(rows[i], e)
    <3> SUFFICES ASSUME NEW e \in acknowledged' PROVE \E i \in DOMAIN rows : HoldsEvent(rows[i], e)
      OBVIOUS
    <3>1. CASE e \in acknowledged
      <4>1. PICK i \in DOMAIN ledger : HoldsEvent(ledger[i], e)
        BY <2>5, <3>1
      <4>2. i \in DOMAIN rows /\ rows[i] = ledger[i]
        BY <2>4 DEF Extends
      <4> QED
        BY <4>1, <4>2
    <3>2. CASE \E n \in DOMAIN batch : e = batch[n]
      BY <2>4, <3>2
    <3> QED
      BY <2>2, <3>1, <3>2
  <2>7. \A i \in DOMAIN rows : \E e \in acknowledged' : HoldsEvent(rows[i], e)
    <3> SUFFICES ASSUME NEW i \in DOMAIN rows PROVE \E e \in acknowledged' : HoldsEvent(rows[i], e)
      OBVIOUS
    <3>1. CASE i \in DOMAIN ledger
      <4>1. PICK e \in acknowledged : HoldsEvent(ledger[i], e)
        BY <2>5, <3>1
      <4>2. rows[i] = ledger[i] /\ e \in acknowledged'
        BY <2>2, <2>4, <3>1 DEF Extends
      <4> QED
        BY <4>1, <4>2
    <3>2. CASE \E m \in DOMAIN batch : HoldsEvent(rows[i], batch[m])
      BY <2>2, <3>2
    <3> QED
      BY <2>4, <3>1, <3>2
  <2>8. \A i \in DOMAIN rows : SoundRow(rows, i)
    BY <2>4 DEF SoundRows
  <2>9. LedgerHoldsAcknowledged'
    BY <2>1, <2>6, <2>7, <2>8 DEF LedgerHoldsAcknowledged, HoldsEvent, SoundRow
  <2>10. SoundRows(ledger)'
    BY <2>1, <2>4 DEF SoundRows, SoundRow, WellFormed
  <2> QED
    BY <2>1, <2>4, <2>9, <2>10 DEF LedgerInv
<1> QED
  BY <1>5, <1>6

LEMMA LedgerStep == LedgerInv /\ [LedgerNext]_ledgerVars => LedgerInv' /\ Extends(ledger', ledger)
<1> SUFFICES ASSUME LedgerInv, [LedgerNext]_ledgerVars PROVE LedgerInv' /\ Extends(ledger', ledger)
  OBVIOUS
<1>1. CASE LedgerNext
  BY <1>1, AppendKeeps DEF LedgerNext
<1>2. CASE UNCHANGED ledgerVars
  BY <1>2 DEF ledgerVars, LedgerInv, SoundRows, SoundRow, WellFormed, LedgerHoldsAcknowledged, Extends
<1> QED
  BY <1>1, <1>2

\* The inductive invariant of append: rows are under their own ids, whole and
\* public, given authority by the authorised writer only, and those of what was
\* acknowledged.
THEOREM LedgerInvariance == LedgerSpec => []LedgerInv
<1>1. LedgerInit => LedgerInv
  BY DEF LedgerInit, LedgerInv, SoundRows, WellFormed, LedgerHoldsAcknowledged
<1>2. LedgerInv /\ [LedgerNext]_ledgerVars => LedgerInv'
  BY LedgerStep
<1> QED
  BY <1>1, <1>2, PTL DEF LedgerSpec

\* control-plane-store.ts, append(): what was acknowledged is what the ledger
\* holds, for batches of any length that repeat and contradict each other.
THEOREM LedgerHolds == LedgerSpec => []LedgerHoldsAcknowledged
<1>1. LedgerInv => LedgerHoldsAcknowledged
  BY DEF LedgerInv
<1> QED
  BY <1>1, LedgerInvariance, PTL

\* reducer.ts: the decided relations and responsibilities are those of the
\* authorised events alone, for any ledger that can be written.
THEOREM OnlyAuthorizedDecide == LedgerSpec => []DecisionsAreAuthorized
<1>1. LedgerInv => DecisionsAreAuthorized
  <2> SUFFICES ASSUME LedgerInv PROVE DecisionsAreAuthorized
    OBVIOUS
  <2> DEFINE all == Projection(ledger)
             trusted == Projection(Authorized(ledger))
  <2>1. SameDecisions(all, trusted)
    BY AuthorizedDecide DEF LedgerInv, SoundRows
  <2> HIDE DEF all, trusted
  <2>2. Decisions(all.lineage) = Decisions(trusted.lineage)
    BY <2>1 DEF SameDecisions, Decisions
  <2>3. Decisions(all.responsibilities) = Decisions(trusted.responsibilities)
    BY <2>1 DEF SameDecisions, Decisions
  <2> QED
    BY <2>2, <2>3 DEF DecisionsAreAuthorized, all, trusted
<1> QED
  BY <1>1, LedgerInvariance, PTL

\* reducer.ts and append(): no batch that comes later, whatever places its
\* events take in the order of the replay, undecides or reopens anything.
THEOREM NothingUndecided == LedgerSpec => DecisionsStand
<1> DEFINE Standing ==
      /\ \A i \in DOMAIN ledger : i \in DOMAIN ledger' /\ ledger'[i] = ledger[i]
      /\ \A s \in Subjects :
           LET before == Projection(ledger) after == Projection(ledger') IN
           /\ Decided(before.lineage[s]) => Decided(after.lineage[s])
           /\ Decided(before.responsibilities[s]) => Decided(after.responsibilities[s])
           /\ Holds(before.responsibilities[s], "ended") => Holds(after.responsibilities[s], "ended")
<1>1. LedgerInv /\ LedgerInv' /\ [LedgerNext]_ledgerVars => Standing
  <2> SUFFICES ASSUME LedgerInv, LedgerInv', [LedgerNext]_ledgerVars PROVE Standing
    OBVIOUS
  <2>1. PICK rows, more : rows = ledger /\ more = ledger'
    OBVIOUS
  <2>2. WellFormed(rows) /\ WellFormed(more)
    BY <2>1 DEF LedgerInv, SoundRows, WellFormed
  <2>3. Extends(more, rows)
    BY <2>1, LedgerStep
  <2>4. Stands(Projection(rows), Projection(more))
    BY <2>2, <2>3, MoreRowsUndoNothing DEF Extends
  <2> QED
    BY <2>1, <2>3, <2>4 DEF Extends, Stands
<1>2. LedgerInv /\ LedgerInv' /\ [LedgerNext]_ledgerVars => [Standing]_ledgerVars
  BY <1>1
<1> HIDE DEF Standing
<1>3. LedgerSpec => [][Standing]_ledgerVars
  BY <1>2, LedgerInvariance, PTL DEF LedgerSpec
<1> QED
  BY <1>3 DEF DecisionsStand, Standing

\* All three, as the run checks them.
THEOREM LedgerProved == LedgerSpec => LedgerTrusted
  BY LedgerHolds, OnlyAuthorizedDecide, NothingUndecided, PTL DEF LedgerTrusted

-----------------------------------------------------------------------------
(* TaskDerivation: the order of the events and the defining equation         *)

\* Events that are all in an order.
Ranked(C) ==
  /\ IsFiniteSet(C)
  /\ \A e \in C : e.session \in Nat /\ e.ordinal \in Nat
  /\ \A d, e \in C : d # e => Before(d, e) \/ Before(e, d)

LEMMA BeforeTransitive ==
  ASSUME NEW C, Ranked(C), NEW c \in C, NEW d \in C, NEW e \in C, Before(c, d), Before(d, e)
  PROVE  Before(c, e)
<1>1. /\ c.session \in Nat /\ d.session \in Nat /\ e.session \in Nat
      /\ c.ordinal \in Nat /\ d.ordinal \in Nat /\ e.ordinal \in Nat
  BY DEF Ranked
<1> QED
  BY <1>1 DEF Before

\* Some events have a last one.
LEMMA LastIsLast ==
  ASSUME NEW C, Ranked(C), NEW E \in SUBSET C, E # {}
  PROVE  LastOf(E) \in E /\ \A d \in E \ {LastOf(E)} : Before(d, LastOf(E))
<1> DEFINE HasLast(D) == \E e \in D : \A d \in D \ {e} : Before(d, e)
           W == {D \in SUBSET C : D = {} \/ HasLast(D)}
<1>1. IsFiniteSet(C) /\ {} \in W
  BY DEF Ranked
<1>2. ASSUME NEW D \in SUBSET C, NEW e \in D, D \ {e} \in W PROVE D \in W
  <2>1. CASE D \ {e} = {}
    BY <2>1
  <2>2. CASE HasLast(D \ {e})
    <3>1. PICK l \in D \ {e} : \A d \in (D \ {e}) \ {l} : Before(d, l)
      BY <2>2
    <3>2. CASE Before(e, l)
      BY <3>1, <3>2
    <3>3. CASE Before(l, e)
      <4>1. \A d \in D \ {e} : Before(d, e)
        BY <3>1, <3>3, BeforeTransitive
      <4> QED
        BY <4>1
    <3> QED
      BY <3>2, <3>3 DEF Ranked
  <2> QED
    BY <1>2, <2>1, <2>2
<1> HIDE DEF W
<1>3. \A D \in SUBSET C : D \in W
  BY <1>1, <1>2, FiniteInduction
<1>4. HasLast(E)
  BY <1>3 DEF W
<1> QED
  BY <1>4 DEF LastOf

\* What is derived from some events is what is derived from those before the
\* last, and the last.
LEMMA StepsEquation ==
  ASSUME NEW C, Ranked(C)
  PROVE  /\ Steps(C)[{}] = Nothing
         /\ \A E \in SUBSET C : E # {} => Steps(C)[E] = Step(Steps(C)[E \ {LastOf(E)}], LastOf(E))
<1> DEFINE Of(f, E) == IF E = {} THEN Nothing ELSE Step(f[E \ {LastOf(E)}], LastOf(E))
           UpTo(n) == {E \in SUBSET C : Cardinality(E) <= n}
           Solves(f, n) == f = [E \in UpTo(n) |-> Of(f, E)]
           Solvable == {n \in Nat : \E f : Solves(f, n)}
<1>1. \A E \in SUBSET C : IsFiniteSet(E) /\ Cardinality(E) \in Nat /\ Cardinality(E) <= Cardinality(C)
  BY FS_Subset, FS_CardinalityType DEF Ranked
<1>2. \A E \in SUBSET C : E # {} => E \ {LastOf(E)} \in SUBSET C
        /\ Cardinality(E \ {LastOf(E)}) = Cardinality(E) - 1
  BY <1>1, LastIsLast, FS_RemoveElement
<1>3. 0 \in Solvable
  <2>1. \A E \in UpTo(0) : E = {}
    BY <1>1, FS_EmptySet
  <2> DEFINE f == [E \in UpTo(0) |-> Nothing]
  <2>2. f = [E \in UpTo(0) |-> Of(f, E)]
    BY <2>1
  <2> HIDE DEF f
  <2> QED
    BY <2>2
<1>4. ASSUME NEW n \in Nat, n \in Solvable PROVE n + 1 \in Solvable
  <2>1. PICK f : Solves(f, n)
    BY <1>4
  <2> DEFINE g == [E \in UpTo(n + 1) |-> Of(f, E)]
  <2>2. \A E \in UpTo(n) : E \in UpTo(n + 1) /\ f[E] = Of(f, E)
    <3>1. \A E \in UpTo(n) : E \in UpTo(n + 1)
      BY <1>1
    <3>2. \A E \in UpTo(n) : f[E] = Of(f, E)
      <4> HIDE DEF Of, UpTo
      <4> QED
        BY <2>1
    <3> QED
      BY <3>1, <3>2
  <2>3. \A E \in UpTo(n) : g[E] = f[E]
    BY <2>2
  <2>4. \A E \in UpTo(n + 1) : E # {} => E \ {LastOf(E)} \in UpTo(n)
    BY <1>1, <1>2
  <2>5. \A E \in UpTo(n + 1) : Of(f, E) = Of(g, E)
    <3> HIDE DEF g, UpTo
    <3> QED
      BY <2>3, <2>4
  <2>6. g = [E \in UpTo(n + 1) |-> Of(g, E)]
    <3> HIDE DEF Of, UpTo
    <3>1. \A E \in UpTo(n + 1) : g[E] = Of(f, E)
      OBVIOUS
    <3>2. g = [E \in UpTo(n + 1) |-> g[E]]
      OBVIOUS
    <3> HIDE DEF g
    <3> QED
      BY <2>5, <3>1, <3>2
  <2> HIDE DEF g, Of, UpTo
  <2>7. Solves(g, n + 1)
    BY <2>6
  <2> HIDE DEF Solves
  <2> QED
    BY <2>7
<1>5. PICK size \in Nat : size = Cardinality(C)
  BY FS_CardinalityType DEF Ranked
<1>6. size \in Solvable
  <2> HIDE DEF Solvable
  <2>1. \A n \in Nat : n \in Solvable => n + 1 \in Solvable
    BY <1>4
  <2> QED
    BY <1>3, <2>1, SetInduction
<1>7. UpTo(size) = SUBSET C
  BY <1>1, <1>5
<1> DEFINE Whole(f) == f = [E \in SUBSET C |-> Of(f, E)]
<1>8. \E f : Whole(f)
  <2> HIDE DEF UpTo, Of
  <2> QED
    BY <1>6, <1>7
<1>9. Whole(CHOOSE f : Whole(f))
  <2> HIDE DEF Whole
  <2> QED
    BY <1>8
<1>10. Steps(C) = CHOOSE f : Whole(f)
  BY DEF Steps
<1>11. Whole(Steps(C))
  BY <1>9, <1>10
<1>12. \A E \in SUBSET C : Steps(C)[E] = Of(Steps(C), E)
  <2> HIDE DEF Of
  <2> QED
    BY <1>11
<1> QED
  BY <1>12

-----------------------------------------------------------------------------
(* TaskDerivation: what the steps make of some events                        *)

EventRows == [session : TaskSessions, ordinal : Nat, body : Bodies]
Groups == [session : TaskSessions, command : Commands]

DerivedStates(C) ==
  [objective : C \cup {Absent}, constraints : [Lines -> SUBSET C], users : SUBSET TaskSessions,
   failed : SUBSET Groups, latest : SUBSET C, unanswered : BOOLEAN]

MessagesOf(E) == {e \in E : IsMessage(e)}
IsUnanswered(e) == e.body.kind = "command" /\ e.body.command = Absent
Settles(f, e) == Answers(f, e) /\ e.body.exit = 0 /\ HasCompleteIdentity(e)
Unsettled(E, f) == IsRun(f) /\ f.body.exit = 1 /\ ~\E e \in E : Settles(f, e)

LEMMA KindsOfEvents ==
  ASSUME NEW e \in EventRows
  PROVE  /\ e.session \in TaskSessions /\ e.session \in Nat /\ e.ordinal \in Nat
         /\ IsMessage(e) => e.body.lines \in SUBSET Lines /\ ~IsRun(e) /\ ~IsUnanswered(e)
         /\ IsRun(e) => /\ e.body.command \in Commands /\ e.body.exit \in {0, 1, Absent}
                        /\ ~IsMessage(e) /\ ~IsUnanswered(e)
         /\ ~IsMessage(e) /\ ~IsRun(e) => IsUnanswered(e)
         /\ Absent \notin {0, 1}
<1>1. e.body \in Bodies /\ e.session \in TaskSessions /\ e.ordinal \in Nat
  BY DEF EventRows
<1>2. TaskSessions \subseteq Nat /\ Absent \notin Commands /\ Absent \notin {0, 1}
  BY DerivationAssumption
<1>3. CASE e.body \in Messages
  BY <1>1, <1>2, <1>3 DEF Messages, IsMessage, IsRun, IsUnanswered
<1>4. CASE e.body \in CommandRuns
  BY <1>1, <1>2, <1>4 DEF CommandRuns, IsMessage, IsRun, IsUnanswered
<1>5. CASE e.body = UnansweredCall
  <2>1. e.body.kind = "command" /\ e.body.command = Absent
    BY <1>5 DEF UnansweredCall
  <2> QED
    BY <1>1, <1>2, <2>1 DEF IsMessage, IsRun, IsUnanswered
<1> QED
  BY <1>1, <1>3, <1>4, <1>5 DEF Bodies

\* The event l comes after all of D.
Follows(D, l) == l \in EventRows /\ D \subseteq EventRows /\ l \notin D /\ \A d \in D : Before(d, l)

LEMMA AnswersOfLast ==
  ASSUME NEW D, NEW l, Follows(D, l), NEW d \in D
  PROVE  /\ ~Answers(l, d) /\ ~Answers(l, l)
         /\ Answers(d, l) <=> IsRun(l) /\ Group(l) = Group(d)
<1>1. /\ d.session \in Nat /\ l.session \in Nat /\ d.ordinal \in Nat /\ l.ordinal \in Nat
  BY KindsOfEvents DEF Follows
<1>2. Before(d, l)
  BY DEF Follows
<1>3. ~Later(l, d) /\ ~Later(l, l)
  BY <1>1, <1>2 DEF Before, Later
<1>4. Group(l) = Group(d) => l.session = d.session
  BY DEF Group
<1>5. l.session = d.session => Later(d, l)
  BY <1>1, <1>2 DEF Before, Later
<1> QED
  BY <1>3, <1>4, <1>5 DEF Answers

LEMMA LastUnanswered ==
  ASSUME NEW D, NEW l, Follows(D, l)
  PROVE  \A n \in D \cup {l} : ~Answers(l, n)
<1>1. ~Later(l, l)
  BY KindsOfEvents DEF Follows, Later
<1> QED
  BY <1>1, AnswersOfLast DEF Answers

\* The objective is the last message; every prohibition has its messages, and
\* the sessions that speak are known.
MessagesTold(E, state) ==
  /\ \/ MessagesOf(E) = {} /\ state.objective = Absent
     \/ state.objective \in MessagesOf(E) /\ \A e \in MessagesOf(E) \ {state.objective} : Before(e, state.objective)
  /\ \A r \in Lines : state.constraints[r] = {e \in MessagesOf(E) : r \in e.body.lines}
  /\ state.users = {e.session : e \in MessagesOf(E)} /\ IsFiniteSet(state.users)

\* A group has failed by a run that no known success answers; the latest runs
\* are those that no run answers.
RunsTold(E, state) ==
  /\ \A g : g \in state.failed <=> \E f \in E : Unsettled(E, f) /\ g = Group(f)
  /\ state.latest = {e \in E : IsRun(e) /\ ~\E n \in E : Answers(e, n)}
  /\ state.unanswered <=> \E e \in E : IsUnanswered(e)

LEMMA SaidTold ==
  ASSUME NEW C, NEW D \in SUBSET C, NEW l \in C, Follows(D, l), IsMessage(l),
         NEW state \in DerivedStates(C), MessagesTold(D, state), RunsTold(D, state)
  PROVE  /\ Step(state, l) \in DerivedStates(C)
         /\ MessagesTold(D \cup {l}, Step(state, l)) /\ RunsTold(D \cup {l}, Step(state, l))
<1> DEFINE E == D \cup {l}
           lines == [r \in Lines |-> IF r \in l.body.lines THEN state.constraints[r] \cup {l} ELSE state.constraints[r]]
<1>1. PICK next : next = Step(state, l)
  OBVIOUS
<1>2. l.body.lines \in SUBSET Lines /\ ~IsRun(l) /\ ~IsUnanswered(l) /\ l.session \in TaskSessions
  BY KindsOfEvents DEF Follows
<1>3. next = [state EXCEPT !.objective = l, !.constraints = lines, !.users = @ \cup {l.session}]
  BY <1>1 DEF Step, Said
<1>4. lines \in [Lines -> SUBSET C]
  BY DEF DerivedStates
<1> HIDE DEF lines
<1>5. next \in DerivedStates(C)
  BY <1>2, <1>3, <1>4 DEF DerivedStates
<1>6. /\ next.objective = l /\ next.constraints = lines /\ next.users = state.users \cup {l.session}
      /\ next.failed = state.failed /\ next.latest = state.latest /\ next.unanswered = state.unanswered
  BY <1>3 DEF DerivedStates
<1>7. MessagesOf(E) = MessagesOf(D) \cup {l}
  BY DEF MessagesOf
<1>8. next.objective \in MessagesOf(E) /\ \A e \in MessagesOf(E) \ {next.objective} : Before(e, next.objective)
  BY <1>6, <1>7 DEF Follows, MessagesOf
<1>9. \A r \in Lines : next.constraints[r] = {e \in MessagesOf(E) : r \in e.body.lines}
  <2> SUFFICES ASSUME NEW r \in Lines PROVE lines[r] = {e \in MessagesOf(E) : r \in e.body.lines}
    BY <1>6
  <2>1. state.constraints[r] = {e \in MessagesOf(D) : r \in e.body.lines}
    BY DEF MessagesTold
  <2> QED
    BY <1>7, <2>1 DEF lines
<1>10. next.users = {e.session : e \in MessagesOf(E)} /\ IsFiniteSet(next.users)
  <2>1. PICK users : users = state.users
    OBVIOUS
  <2>2. users = {e.session : e \in MessagesOf(D)} /\ IsFiniteSet(users)
    BY <2>1 DEF MessagesTold
  <2>3. IsFiniteSet(users \cup {l.session})
    BY <2>2, FS_AddElement
  <2>4. users \cup {l.session} = {e.session : e \in MessagesOf(E)}
    BY <1>7, <2>2
  <2> QED
    BY <1>6, <2>1, <2>3, <2>4
<1>11. MessagesTold(E, next)
  BY <1>8, <1>9, <1>10 DEF MessagesTold
<1>12. \A f : ~Answers(f, l)
  BY <1>2 DEF Answers
<1>13. \A f : Unsettled(E, f) <=> Unsettled(D, f)
  BY <1>12 DEF Unsettled, Settles
<1>14. \A g : g \in next.failed <=> \E f \in E : Unsettled(E, f) /\ g = Group(f)
  BY <1>2, <1>6, <1>13 DEF RunsTold, Unsettled
<1>15. next.latest = {e \in E : IsRun(e) /\ ~\E n \in E : Answers(e, n)}
  BY <1>2, <1>6, <1>12 DEF RunsTold
<1>16. RunsTold(E, next)
  BY <1>2, <1>6, <1>14, <1>15 DEF RunsTold
<1> QED
  BY <1>1, <1>5, <1>11, <1>16

LEMMA RanTold ==
  ASSUME NEW C, NEW D \in SUBSET C, NEW l \in C, Follows(D, l), IsRun(l),
         NEW state \in DerivedStates(C), MessagesTold(D, state), RunsTold(D, state)
  PROVE  /\ Step(state, l) \in DerivedStates(C)
         /\ MessagesTold(D \cup {l}, Step(state, l)) /\ RunsTold(D \cup {l}, Step(state, l))
<1> DEFINE E == D \cup {l}
<1>1. PICK next : next = Step(state, l)
  OBVIOUS
<1>2. /\ ~IsMessage(l) /\ ~IsUnanswered(l) /\ Group(l) \in Groups
      /\ l.body.exit \in {0, 1, Absent} /\ Absent \notin {0, 1}
  BY KindsOfEvents DEF Follows, Group, Groups
<1>3. PICK failed, latest : failed = Judged(state.failed, l)
        /\ latest = {r \in state.latest : Group(r) # Group(l)} \cup {l}
  OBVIOUS
<1>4. next = [state EXCEPT !.failed = failed, !.latest = latest]
  BY <1>1, <1>2, <1>3 DEF Step, Ran
<1>5. failed \in SUBSET Groups /\ latest \in SUBSET C
  BY <1>2, <1>3 DEF Judged, DerivedStates
<1>6. next \in DerivedStates(C)
  BY <1>4, <1>5 DEF DerivedStates
<1>7. /\ next.objective = state.objective /\ next.constraints = state.constraints /\ next.users = state.users
      /\ next.failed = failed /\ next.latest = latest /\ next.unanswered = state.unanswered
  BY <1>4 DEF DerivedStates
<1>8. MessagesOf(E) = MessagesOf(D)
  BY <1>2 DEF MessagesOf
<1>9. MessagesTold(E, next)
  BY <1>7, <1>8 DEF MessagesTold
<1>10. \A d \in D : (Answers(d, l) <=> Group(d) = Group(l)) /\ ~Answers(l, d)
  BY AnswersOfLast
<1>11. \A n \in E : ~Answers(l, n)
  BY LastUnanswered
<1>12. \A f \in D : Unsettled(E, f) <=> Unsettled(D, f) /\ ~Settles(f, l)
  BY DEF Unsettled
<1>13. Unsettled(E, l) <=> l.body.exit = 1
  BY <1>11 DEF Unsettled, Settles
<1>14. \A g : g \in state.failed <=> \E f \in D : Unsettled(D, f) /\ g = Group(f)
  BY DEF RunsTold
<1>15. \A g : g \in failed <=> \E f \in E : Unsettled(E, f) /\ g = Group(f)
  <2>1. CASE l.body.exit = 0 /\ HasCompleteIdentity(l)
    <3>1. failed = state.failed \ {Group(l)}
      BY <1>3, <2>1 DEF Judged
    <3>2. \A f \in D : Settles(f, l) <=> Group(f) = Group(l)
      BY <1>10, <2>1 DEF Settles
    <3>3. ~Unsettled(E, l)
      BY <1>13, <2>1
    <3> QED
      BY <1>12, <1>14, <3>1, <3>2, <3>3
  <2>2. CASE l.body.exit = 1
    <3>1. failed = state.failed \cup {Group(l)}
      BY <1>2, <1>3, <2>2 DEF Judged
    <3>2. \A f \in D : ~Settles(f, l)
      BY <2>2 DEF Settles
    <3>3. Unsettled(E, l)
      BY <1>13, <2>2
    <3> QED
      BY <1>12, <1>14, <3>1, <3>2, <3>3
  <2>3. CASE l.body.exit # 1 /\ ~(l.body.exit = 0 /\ HasCompleteIdentity(l))
    <3>1. failed = state.failed
      BY <1>2, <1>3, <2>3 DEF Judged
    <3>2. \A f \in D : ~Settles(f, l)
      BY <2>3 DEF Settles
    <3>3. ~Unsettled(E, l)
      BY <1>13, <2>3
    <3> QED
      BY <1>12, <1>14, <3>1, <3>2, <3>3
  <2> QED
    BY <1>2, <2>1, <2>2, <2>3
<1>16. latest = {e \in E : IsRun(e) /\ ~\E n \in E : Answers(e, n)}
  <2>1. state.latest = {e \in D : IsRun(e) /\ ~\E n \in D : Answers(e, n)}
    BY DEF RunsTold
  <2>2. \A e \in D : e \in latest <=> IsRun(e) /\ (~\E n \in D : Answers(e, n)) /\ Group(e) # Group(l)
    <3>1. l \notin D
      BY DEF Follows
    <3> QED
      BY <1>3, <2>1, <3>1
  <2>3. \A e \in D : e \in latest <=> IsRun(e) /\ ~\E n \in E : Answers(e, n)
    BY <1>10, <2>2
  <2>4. l \in latest /\ \A e \in latest : e \in E
    BY <1>3, <2>1
  <2> QED
    BY <1>11, <2>3, <2>4
<1>17. RunsTold(E, next)
  BY <1>2, <1>7, <1>15, <1>16 DEF RunsTold
<1> QED
  BY <1>1, <1>6, <1>9, <1>17

LEMMA UnansweredTold ==
  ASSUME NEW C, NEW D \in SUBSET C, NEW l \in C, Follows(D, l), ~IsRun(l), ~IsMessage(l),
         NEW state \in DerivedStates(C), MessagesTold(D, state), RunsTold(D, state)
  PROVE  /\ Step(state, l) \in DerivedStates(C)
         /\ MessagesTold(D \cup {l}, Step(state, l)) /\ RunsTold(D \cup {l}, Step(state, l))
<1> DEFINE E == D \cup {l}
<1>1. PICK next : next = Step(state, l)
  OBVIOUS
<1>2. IsUnanswered(l)
  BY KindsOfEvents DEF Follows
<1>3. next = [state EXCEPT !.unanswered = TRUE]
  BY <1>1 DEF Step
<1>4. next \in DerivedStates(C)
  BY <1>3 DEF DerivedStates
<1>5. /\ next.objective = state.objective /\ next.constraints = state.constraints /\ next.users = state.users
      /\ next.failed = state.failed /\ next.latest = state.latest /\ next.unanswered = TRUE
  BY <1>3 DEF DerivedStates
<1>6. MessagesOf(E) = MessagesOf(D)
  BY DEF MessagesOf
<1>7. MessagesTold(E, next)
  BY <1>5, <1>6 DEF MessagesTold
<1>8. \A f : ~Answers(f, l)
  BY DEF Answers
<1>9. \A f : Unsettled(E, f) <=> Unsettled(D, f)
  BY <1>8 DEF Unsettled, Settles
<1>10. \A g : g \in next.failed <=> \E f \in E : Unsettled(E, f) /\ g = Group(f)
  BY <1>5, <1>9 DEF RunsTold, Unsettled
<1>11. next.latest = {e \in E : IsRun(e) /\ ~\E n \in E : Answers(e, n)}
  BY <1>5, <1>8 DEF RunsTold
<1>12. RunsTold(E, next)
  BY <1>2, <1>5, <1>10, <1>11 DEF RunsTold
<1> QED
  BY <1>1, <1>4, <1>7, <1>12

\* What is derived from all events is what they say, whatever their order of arrival.
LEMMA AllTold ==
  ASSUME NEW C \in SUBSET EventRows, Ranked(C)
  PROVE  /\ Steps(C)[C] \in DerivedStates(C)
         /\ MessagesTold(C, Steps(C)[C]) /\ RunsTold(C, Steps(C)[C])
<1> DEFINE Told(E) == /\ Steps(C)[E] \in DerivedStates(C)
                      /\ MessagesTold(E, Steps(C)[E]) /\ RunsTold(E, Steps(C)[E])
           Sizes == {n \in Nat : \A E \in SUBSET C : Cardinality(E) = n => Told(E)}
<1>1. \A E \in SUBSET C : IsFiniteSet(E) /\ Cardinality(E) \in Nat
  BY FS_Subset, FS_CardinalityType DEF Ranked
<1>2. Told({})
  <2>1. Nothing \in DerivedStates(C)
    BY DEF Nothing, DerivedStates
  <2>2. MessagesTold({}, Nothing)
    <3>1. MessagesOf({}) = {} /\ Nothing.objective = Absent /\ Nothing.users = {}
          /\ \A r \in Lines : Nothing.constraints[r] = {}
      BY DEF Nothing, MessagesOf
    <3> QED
      BY <3>1, FS_EmptySet DEF MessagesTold
  <2>3. RunsTold({}, Nothing)
    BY DEF RunsTold, Nothing
  <2> QED
    BY <2>1, <2>2, <2>3, StepsEquation
<1>3. 0 \in Sizes
  <2> HIDE DEF Told
  <2> SUFFICES ASSUME NEW E \in SUBSET C, Cardinality(E) = 0 PROVE Told(E)
    OBVIOUS
  <2>1. E = {}
    BY <1>1, FS_EmptySet
  <2> QED
    BY <1>2, <2>1
<1>4. ASSUME NEW n \in Nat, n \in Sizes PROVE n + 1 \in Sizes
  <2> SUFFICES ASSUME NEW E \in SUBSET C, Cardinality(E) = n + 1 PROVE Told(E)
    OBVIOUS
  <2>1. E # {}
    <3>1. Cardinality({}) = 0
      BY FS_EmptySet
    <3>2. n + 1 # 0
      OBVIOUS
    <3> QED
      BY <3>1, <3>2
  <2>2. PICK l : l = LastOf(E)
    OBVIOUS
  <2>3. l \in E /\ \A d \in E \ {l} : Before(d, l)
    BY <2>1, <2>2, LastIsLast
  <2>4. PICK D : D = E \ {l}
    OBVIOUS
  <2>5. D \in SUBSET C /\ E = D \cup {l} /\ l \in C /\ Follows(D, l)
    BY <2>3, <2>4 DEF Follows
  <2>6. Cardinality(D) = Cardinality(E) - 1
    BY <1>1, <2>3, <2>4, FS_RemoveElement
  <2>7. Cardinality(D) = n
    BY <2>6
  <2>8. Told(D)
    <3> HIDE DEF Told
    <3> QED
      BY <1>4, <2>5, <2>7
  <2>9. PICK state : state = Steps(C)[D]
    OBVIOUS
  <2>10. Steps(C)[E] = Step(state, l)
    BY <2>1, <2>2, <2>4, <2>9, StepsEquation
  <2>11. state \in DerivedStates(C) /\ MessagesTold(D, state) /\ RunsTold(D, state)
    BY <2>8, <2>9
  <2>12. /\ Step(state, l) \in DerivedStates(C)
         /\ MessagesTold(E, Step(state, l)) /\ RunsTold(E, Step(state, l))
    BY <2>5, <2>11, SaidTold, RanTold, UnansweredTold
  <2> QED
    BY <2>10, <2>12
<1> HIDE DEF Sizes
<1>5. \A n \in Nat : n \in Sizes
  BY <1>3, <1>4, SetInduction
<1>6. Told(C)
  <2> HIDE DEF Told
  <2> QED
    BY <1>1, <1>5 DEF Sizes
<1> QED
  BY <1>6

-----------------------------------------------------------------------------
(* TaskDerivation: the theorems                                              *)

\* The events of a session are numbered from one on.
Numbered ==
  /\ \A e \in log : e.ordinal \in 1 .. Cardinality(EventsOf(e.session))
  /\ \A d, e \in log : d.session = e.session /\ d.ordinal = e.ordinal => d = e

DerivationInv == log \in SUBSET EventRows /\ IsFiniteSet(log) /\ attached \subseteq TaskSessions /\ Numbered

LEMMA IndexKeeps ==
  ASSUME DerivationInv, NEW s \in TaskSessions, NEW body \in Bodies, Index(s, body)
  PROVE  DerivationInv'
<1>1. PICK n \in Nat : n = Cardinality(EventsOf(s))
  <2>1. IsFiniteSet(EventsOf(s))
    BY FS_Subset DEF EventsOf, DerivationInv
  <2> QED
    BY <2>1, FS_CardinalityType
<1>2. PICK new : new = [session |-> s, ordinal |-> n + 1, body |-> body]
  OBVIOUS
<1>3. log' = log \cup {new} /\ attached' = attached
  BY <1>1, <1>2 DEF Index, NextOrdinal
<1>4. new \in EventRows /\ new.session = s /\ new.ordinal = n + 1
  BY <1>2 DEF EventRows
<1>5. IsFiniteSet(log)'
  BY <1>3, FS_AddElement DEF DerivationInv
<1>6. \A e \in log : e.session = s => e.ordinal \in 1 .. n
  BY <1>1 DEF DerivationInv, Numbered
<1>7. \A e \in log : e.session = s => e.ordinal # n + 1
  BY <1>6
<1>8. new \notin log
  BY <1>4, <1>7
<1>9. PICK old : old = EventsOf(s) /\ IsFiniteSet(old) /\ old \subseteq log
  BY FS_Subset DEF EventsOf, DerivationInv
<1>10. EventsOf(s)' = old \cup {new}
  BY <1>3, <1>4, <1>9 DEF EventsOf
<1>11. Cardinality(old \cup {new}) = n + 1
  <2>1. new \notin old
    BY <1>8, <1>9
  <2>2. Cardinality(old \cup {new}) = Cardinality(old) + 1
    BY <1>9, <2>1, FS_AddElement
  <2> QED
    BY <1>1, <1>9, <2>2
<1>12. \A e \in log : e.session # s => EventsOf(e.session)' = EventsOf(e.session)
  BY <1>3, <1>4 DEF EventsOf
<1>13. \A e \in log' : e.ordinal \in 1 .. Cardinality({d \in log' : d.session = e.session})
  <2> SUFFICES ASSUME NEW e \in log' PROVE e.ordinal \in 1 .. Cardinality({d \in log' : d.session = e.session})
    OBVIOUS
  <2>1. CASE e.session = s
    <3>1. {d \in log' : d.session = e.session} = old \cup {new}
      BY <1>10, <2>1 DEF EventsOf
    <3>2. e.ordinal \in 1 .. n + 1
      BY <1>3, <1>4, <1>6, <2>1
    <3> QED
      BY <1>11, <3>1, <3>2
  <2>2. CASE e.session # s
    <3>1. e \in log
      BY <1>3, <1>4, <2>2
    <3>2. {d \in log' : d.session = e.session} = EventsOf(e.session)
      BY <1>12, <2>2, <3>1 DEF EventsOf
    <3>3. e.ordinal \in 1 .. Cardinality(EventsOf(e.session))
      BY <3>1 DEF DerivationInv, Numbered
    <3> QED
      BY <3>2, <3>3
  <2> QED
    BY <2>1, <2>2
<1>14. \A d, e \in log' : d.session = e.session /\ d.ordinal = e.ordinal => d = e
  BY <1>3, <1>4, <1>7 DEF DerivationInv, Numbered
<1>15. Numbered'
  BY <1>13, <1>14 DEF Numbered, EventsOf
<1> QED
  BY <1>3, <1>4, <1>5, <1>15 DEF DerivationInv

LEMMA ForgetKeeps ==
  ASSUME DerivationInv, NEW s \in TaskSessions, Forget(s)
  PROVE  DerivationInv'
<1>1. log' = log \ EventsOf(s) /\ attached' = attached
  BY DEF Forget
<1>2. log' \in SUBSET log /\ \A e \in log' : e.session # s
  BY <1>1 DEF EventsOf
<1>3. IsFiniteSet(log)'
  BY <1>2, FS_Subset DEF DerivationInv
<1>4. \A e \in log' : {d \in log' : d.session = e.session} = EventsOf(e.session)
  BY <1>1, <1>2 DEF EventsOf
<1>5. \A e \in log' : e.ordinal \in 1 .. Cardinality({d \in log' : d.session = e.session})
  BY <1>2, <1>4 DEF DerivationInv, Numbered
<1>6. Numbered'
  BY <1>2, <1>5 DEF DerivationInv, Numbered, EventsOf
<1> QED
  BY <1>1, <1>2, <1>3, <1>6 DEF DerivationInv

LEMMA AttachKeeps ==
  ASSUME DerivationInv, log' = log, attached' \subseteq TaskSessions
  PROVE  DerivationInv'
  BY DEF DerivationInv, Numbered, EventsOf

\* The inductive invariant of the index a task page reads: the events of every
\* session are numbered from one on, however often it is read anew.
THEOREM DerivationInvariance == DerivationSpec => []DerivationInv
<1>1. DerivationInit => DerivationInv
  BY FS_EmptySet DEF DerivationInit, DerivationInv, Numbered
<1>2. DerivationInv /\ [DerivationNext]_derivationVars => DerivationInv'
  <2> SUFFICES ASSUME DerivationInv, [DerivationNext]_derivationVars PROVE DerivationInv'
    OBVIOUS
  <2>1. CASE DerivationNext
    <3>1. PICK s \in TaskSessions :
            (\E body \in Bodies : Index(s, body)) \/ Forget(s) \/ Attach(s) \/ Detach(s)
      BY <2>1 DEF DerivationNext
    <3>2. CASE \E body \in Bodies : Index(s, body)
      BY <3>2, IndexKeeps
    <3>3. CASE Forget(s)
      BY <3>3, ForgetKeeps
    <3>4. CASE Attach(s) \/ Detach(s)
      <4>1. log' = log /\ attached' \subseteq TaskSessions
        BY <3>4 DEF Attach, Detach, DerivationInv
      <4> QED
        BY <4>1, AttachKeeps
    <3> QED
      BY <3>1, <3>2, <3>3, <3>4
  <2>2. CASE UNCHANGED derivationVars
    <3>1. log' = log /\ attached' \subseteq TaskSessions
      BY <2>2 DEF derivationVars, DerivationInv
    <3> QED
      BY <3>1, AttachKeeps
  <2> QED
    BY <2>1, <2>2
<1> QED
  BY <1>1, <1>2, PTL DEF DerivationSpec

LEMMA ContextRanked ==
  ASSUME DerivationInv
  PROVE  Context \in SUBSET EventRows /\ Ranked(Context)
<1>1. Context \in SUBSET log /\ Context \in SUBSET EventRows
  BY DEF Context, DerivationInv
<1>2. IsFiniteSet(Context)
  BY <1>1, FS_Subset DEF DerivationInv
<1>3. \A e \in Context : e.session \in Nat /\ e.ordinal \in Nat
  BY <1>1, KindsOfEvents
<1>4. \A d, e \in Context : d # e => Before(d, e) \/ Before(e, d)
  <2> SUFFICES ASSUME NEW d \in Context, NEW e \in Context, d # e PROVE Before(d, e) \/ Before(e, d)
    OBVIOUS
  <2>1. d.session = e.session => d.ordinal # e.ordinal
    BY <1>1 DEF DerivationInv, Numbered
  <2>2. d.session \in Nat /\ e.session \in Nat /\ d.ordinal \in Nat /\ e.ordinal \in Nat
    BY <1>3
  <2> QED
    BY <2>1, <2>2 DEF Before
<1> QED
  BY <1>1, <1>2, <1>3, <1>4 DEF Ranked

LEMMA TwoMembers ==
  ASSUME NEW S, IsFiniteSet(S), NEW a \in S, NEW b \in S, a # b
  PROVE  Cardinality(S) > 1
<1>1. Cardinality({a}) = 1 /\ IsFiniteSet({a})
  BY FS_Singleton
<1>2. Cardinality({a} \cup {b}) = 2 /\ {a} \cup {b} \in SUBSET S
  BY <1>1, FS_AddElement
<1>3. Cardinality({a} \cup {b}) <= Cardinality(S) /\ Cardinality(S) \in Nat
  BY <1>2, FS_Subset, FS_CardinalityType
<1> QED
  BY <1>2, <1>3

LEMMA AttentionFlags ==
  /\ "OBJECTIVE_UNKNOWN" \in Attention <=> Derived.objective = Absent
  /\ "MULTIPLE_SESSION_OBJECTIVES" \in Attention <=> Cardinality(Derived.users) > 1
  /\ "COMMAND_FAILED" \in Attention <=> Derived.failed # {}
  /\ "COMMAND_RESULT_UNKNOWN" \in Attention <=>
       Derived.unanswered \/ \E r \in Derived.latest : r.body.exit = Absent
  BY DEF Attention

\* deriveTask: failures, objective, prohibitions and results on a task page are
\* those the task's sessions report, for any number of events indexed in any order.
THEOREM EarnedDerivation == DerivationSpec => []DerivationEarned
<1>1. DerivationInv => DerivationEarned
  <2> SUFFICES ASSUME DerivationInv PROVE DerivationEarned
    OBVIOUS
  <2>1. PICK C : C = Context
    OBVIOUS
  <2>2. PICK state : state = Derived
    OBVIOUS
  <2>3. /\ C \in SUBSET EventRows /\ Ranked(C)
        /\ state \in DerivedStates(C) /\ MessagesTold(C, state) /\ RunsTold(C, state)
    BY <2>1, <2>2, ContextRanked, AllTold DEF Derived
  <2>4. FailuresReported
    <3>1. "COMMAND_FAILED" \in Attention <=> state.failed # {}
      BY <2>2, AttentionFlags
    <3>2. state.failed # {} <=> \E f \in C : Unsettled(C, f)
      BY <2>3 DEF RunsTold
    <3> QED
      BY <2>1, <3>1, <3>2 DEF FailuresReported, Unsettled, Settles
  <2>5. ClaimsEarned
    <3> DEFINE said == {e \in Context : IsMessage(e)}
    <3>1. said = MessagesOf(C)
      BY <2>1 DEF MessagesOf
    <3>2. said # {} /\ "MULTIPLE_SESSION_OBJECTIVES" \notin Attention =>
            Derived.objective \in said /\ \A e \in said \ {Derived.objective} : Later(e, Derived.objective)
      <4> SUFFICES ASSUME said # {}, "MULTIPLE_SESSION_OBJECTIVES" \notin Attention
                   PROVE  state.objective \in said /\ \A e \in said \ {state.objective} : Later(e, state.objective)
        BY <2>2
      <4>1. PICK o \in said : o = state.objective /\ \A e \in said \ {o} : Before(e, o)
        BY <2>3, <3>1 DEF MessagesTold
      <4>2. ASSUME NEW e \in said \ {o} PROVE Later(e, o)
        <5>1. e.session = o.session
          <6>1. PICK users : users = state.users
            OBVIOUS
          <6>2. IsFiniteSet(users) /\ e.session \in users /\ o.session \in users
            BY <2>3, <3>1, <4>1, <6>1 DEF MessagesTold
          <6>3. ~(Cardinality(users) > 1)
            BY <2>2, <6>1, AttentionFlags
          <6> QED
            BY <6>2, <6>3, TwoMembers
        <5> QED
          BY <4>1, <5>1 DEF Before, Later
      <4> QED
        BY <4>1, <4>2
    <3>3. said = {} => "OBJECTIVE_UNKNOWN" \in Attention
      BY <2>2, <2>3, <3>1, AttentionFlags DEF MessagesTold
    <3>4. \A l \in Lines : Derived.constraints[l] = {e \in said : l \in e.body.lines}
      BY <2>2, <2>3, <3>1 DEF MessagesTold
    <3>5. \A e \in Context : IsRun(e) =>
            (e \in Derived.latest <=> ~\E n \in Context : Answers(e, n))
      BY <2>1, <2>2, <2>3 DEF RunsTold
    <3>6. \A e \in Context :
            e.body.kind = "command" /\ e.body.exit = Absent /\ (~\E n \in Context : IsRun(e) /\ Answers(e, n))
              => "COMMAND_RESULT_UNKNOWN" \in Attention
      <4> SUFFICES ASSUME NEW e \in Context, e.body.kind = "command", e.body.exit = Absent,
                          ~\E n \in Context : IsRun(e) /\ Answers(e, n)
                   PROVE  state.unanswered \/ \E r \in state.latest : r.body.exit = Absent
        BY <2>2, AttentionFlags
      <4>1. CASE e.body.command = Absent
        BY <2>1, <2>3, <4>1 DEF RunsTold, IsUnanswered
      <4>2. CASE e.body.command # Absent
        <5>1. IsRun(e)
          BY <4>2 DEF IsRun
        <5>2. \A n \in Context : ~Answers(e, n)
          BY <5>1
        <5> QED
          BY <2>2, <3>5, <5>1, <5>2
      <4> QED
        BY <4>1, <4>2
    <3> QED
      BY <3>2, <3>3, <3>4, <3>5, <3>6 DEF ClaimsEarned
  <2> QED
    BY <2>4, <2>5 DEF DerivationEarned
<1> QED
  BY <1>1, DerivationInvariance, PTL

-----------------------------------------------------------------------------
(* ReceiptReplay: rows, states and warnings                                  *)

RowTypes == RunTypes \cup ReceiptTypes \cup
  {"manifest.saved", "attention.opened", "attention.resolved", "invalid"}
ItemKinds == RowTypes \cup
  {"item", "manifest-integrity", "manifest-conflict", "invalid-stored-event",
   "receipt-integrity", "receipt-conflict", "unverified-completion"}
ItemIds == ItemKinds \X (Places \cup {Unset})
ReplayRows == [place : Places, task : {Home, "away"}, kind : {"source-log", "agent-report"},
               coverage : {"full", "partial"}, body : RowBodies]
ReplayStates ==
  [run : RunRecords \cup {Unset}, attention : SUBSET [id : ItemIds, open : BOOLEAN],
   receipts : [ReceiptIds -> ReceiptRecords \cup {Unset}], persisted : SUBSET ReceiptIds,
   owner : [Nonces -> ReceiptIds \cup {Unset}], manifest : ManifestRecords \cup {Unset}]

\* The ids of the items that a state holds.
Warnings(state) == {i.id : i \in state.attention}

\* What is about receipts, and hence what their replay depends on.
OfReceipts(state) == <<state.receipts, state.persisted, state.owner, state.manifest>>

\* Every item stays.
MoreWarnings(a, b) == Warnings(a) \subseteq Warnings(b)

LEMMA BodyFields ==
  ASSUME NEW b \in RowBodies
  PROVE  /\ b.type \in RowTypes
         /\ b.type = "manifest.saved" => b.content \in Manifests /\ b.sound \in BOOLEAN
         /\ b.type \in {"attention.opened", "attention.resolved"} => b.item \in AttentionItems
         /\ b.type \in ReceiptTypes =>
              b.receipt \in ReceiptIds /\ b.stage \in StageNames /\ b.input \in ReceiptInputs
<1>1. CASE b \in [type : RunTypes] \cup [type : {"invalid"}]
  BY <1>1 DEF RowTypes, RunTypes, ReceiptTypes
<1>2. CASE b \in [type : {"manifest.saved"}, content : Manifests, sound : BOOLEAN]
  BY <1>2 DEF RowTypes, ReceiptTypes
<1>3. CASE b \in [type : {"attention.opened", "attention.resolved"}, item : AttentionItems]
  BY <1>3 DEF RowTypes, ReceiptTypes
<1>4. CASE b \in [type : ReceiptTypes, receipt : ReceiptIds, stage : StageNames, input : ReceiptInputs]
  BY <1>4 DEF RowTypes, ReceiptTypes
<1> QED
  BY <1>1, <1>2, <1>3, <1>4 DEF RowBodies

\* The id of a warning is of a kind and of a place.
LEMMA IdsOfItems ==
  ASSUME NEW kind \in ItemKinds, NEW place \in Places \cup {Unset}
  PROVE  <<kind, place>> \in ItemIds /\ <<kind, place>>[2] = place
  BY DEF ItemIds

LEMMA Stated ==
  ASSUME NEW state \in ReplayStates, NEW p
  PROVE  Warned(state, p) <=> \E id \in Warnings(state) : id[2] = p
  BY DEF Warned, Warnings

LEMMA WarnAdds ==
  ASSUME NEW state \in ReplayStates, NEW item \in ItemIds
  PROVE  /\ Warn(state, item) \in ReplayStates
         /\ MoreWarnings(state, Warn(state, item)) /\ item \in Warnings(Warn(state, item))
         /\ OfReceipts(Warn(state, item)) = OfReceipts(state)
         /\ Warn(state, item).run = state.run
<1>1. CASE \E i \in state.attention : i.id = item
  BY <1>1 DEF Warn, MoreWarnings, Warnings
<1>2. CASE ~\E i \in state.attention : i.id = item
  <2>1. PICK more : more = state.attention \cup {[id |-> item, open |-> TRUE]}
    OBVIOUS
  <2>2. Warn(state, item) = [state EXCEPT !.attention = more]
    BY <1>2, <2>1 DEF Warn
  <2>3. more \in SUBSET [id : ItemIds, open : BOOLEAN]
    <3>1. state.attention \in SUBSET [id : ItemIds, open : BOOLEAN]
      BY DEF ReplayStates
    <3>2. [id |-> item, open |-> TRUE] \in [id : ItemIds, open : BOOLEAN]
      OBVIOUS
    <3> QED
      BY <2>1, <3>1, <3>2
  <2>4. [state EXCEPT !.attention = more] \in ReplayStates
    BY <2>3 DEF ReplayStates
  <2>5. [state EXCEPT !.attention = more].attention = more
    BY DEF ReplayStates
  <2>6. Warnings(state) \subseteq {i.id : i \in more} /\ item \in {i.id : i \in more}
    <3>1. PICK i : i = [id |-> item, open |-> TRUE]
      OBVIOUS
    <3>2. i.id = item /\ i \in more /\ state.attention \subseteq more
      BY <2>1, <3>1
    <3> QED
      BY <3>2 DEF Warnings
  <2>7. /\ OfReceipts([state EXCEPT !.attention = more]) = OfReceipts(state)
        /\ [state EXCEPT !.attention = more].run = state.run
    BY DEF OfReceipts, ReplayStates
  <2> QED
    BY <2>2, <2>4, <2>5, <2>6, <2>7 DEF MoreWarnings, Warnings
<1> QED
  BY <1>1, <1>2

LEMMA WarnIfAdds ==
  ASSUME NEW state \in ReplayStates, NEW item \in ItemIds, NEW condition \in BOOLEAN
  PROVE  /\ WarnIf(state, condition, item) \in ReplayStates
         /\ MoreWarnings(state, WarnIf(state, condition, item))
         /\ condition => item \in Warnings(WarnIf(state, condition, item))
         /\ OfReceipts(WarnIf(state, condition, item)) = OfReceipts(state)
         /\ WarnIf(state, condition, item).run = state.run
<1>1. CASE condition
  BY <1>1, WarnAdds DEF WarnIf
<1>2. CASE ~condition
  BY <1>2 DEF WarnIf, MoreWarnings
<1> QED
  BY <1>1, <1>2

-----------------------------------------------------------------------------
(* ReceiptReplay: what is observed at one place                              *)

\* An end of the run that was not observed in full is warned about.
EndIsCovered(state) ==
  state.run # Unset /\ state.run.fact = "ended" /\ state.run.health # "current" =>
    \/ Warned(state, state.run.by)
    \/ \E i \in state.attention : i.id = CoverageOf("run.ended")

LEMMA RunObserved ==
  ASSUME NEW state \in ReplayStates, NEW e \in ReplayRows
  PROVE  /\ ObserveRun(state, e) \in ReplayStates
         /\ Warnings(ObserveRun(state, e)) = Warnings(state)
         /\ OfReceipts(ObserveRun(state, e)) = OfReceipts(state)
         /\ \/ ObserveRun(state, e).run = state.run
            \/ ObserveRun(state, e).run = [fact |-> Fact(e), health |-> Health(e), by |-> e.place]
<1>1. PICK run : run = [fact |-> Fact(e), health |-> Health(e), by |-> e.place]
  OBVIOUS
<1>2. run \in RunRecords
  BY <1>1 DEF RunRecords, Fact, Health, ReplayRows
<1>3. /\ [state EXCEPT !.run = run] \in ReplayStates
      /\ [state EXCEPT !.run = run].run = run
      /\ [state EXCEPT !.run = run].attention = state.attention
      /\ OfReceipts([state EXCEPT !.run = run]) = OfReceipts(state)
  BY <1>2 DEF ReplayStates, OfReceipts
<1>4. ObserveRun(state, e) \in {state, [state EXCEPT !.run = run]}
  BY <1>1 DEF ObserveRun
<1> QED
  BY <1>1, <1>3, <1>4 DEF Warnings

\* What is kept of a manifest, and a warning when a row claims another one.
LEMMA ManifestObserved ==
  ASSUME NEW state \in ReplayStates, NEW e \in ReplayRows,
         NEW after, after = ObserveManifest(state, e)
  PROVE  /\ after \in ReplayStates
         /\ MoreWarnings(state, after) /\ after.run = state.run
         /\ after.receipts = state.receipts /\ after.persisted = state.persisted /\ after.owner = state.owner
         /\ state.manifest # Unset => after.manifest = state.manifest
         /\ e.body.type = "manifest.saved" =>
              Warned(after, e.place) \/ after.manifest = [task |-> e.task, content |-> e.body.content]
<1>1. PICK claimed : claimed = [task |-> e.task, content |-> e.body.content]
  OBVIOUS
<1>2. /\ <<"manifest-integrity", e.place>> \in ItemIds /\ <<"manifest-conflict", e.place>> \in ItemIds
      /\ <<"manifest-integrity", e.place>>[2] = e.place /\ <<"manifest-conflict", e.place>>[2] = e.place
  BY IdsOfItems DEF ItemKinds, ReplayRows
<1>3. CASE e.body.type # "manifest.saved"
  BY <1>3 DEF ObserveManifest, MoreWarnings
<1>4. ASSUME e.body.type = "manifest.saved", NEW id \in ItemIds, id[2] = e.place, after = Warn(state, id)
      PROVE  /\ after \in ReplayStates /\ MoreWarnings(state, after) /\ after.run = state.run
             /\ OfReceipts(after) = OfReceipts(state) /\ Warned(after, e.place)
  <2>1. after \in ReplayStates /\ MoreWarnings(state, after) /\ id \in Warnings(after)
    BY <1>4, WarnAdds
  <2>2. OfReceipts(after) = OfReceipts(state) /\ after.run = state.run
    BY <1>4, WarnAdds
  <2>3. Warned(after, e.place)
    BY <1>4, <2>1, Stated
  <2> QED
    BY <2>1, <2>2, <2>3
<1>5. CASE e.body.type = "manifest.saved" /\ ~e.body.sound
  <2>1. after = Warn(state, <<"manifest-integrity", e.place>>)
    BY <1>5 DEF ObserveManifest
  <2> QED
    BY <1>2, <1>4, <1>5, <2>1 DEF OfReceipts
<1>6. CASE e.body.type = "manifest.saved" /\ e.body.sound /\ state.manifest \notin {Unset, claimed}
  <2>1. after = Warn(state, <<"manifest-conflict", e.place>>)
    BY <1>1, <1>6 DEF ObserveManifest
  <2> QED
    BY <1>2, <1>4, <1>6, <2>1 DEF OfReceipts
<1>7. CASE e.body.type = "manifest.saved" /\ e.body.sound /\ state.manifest \in {Unset, claimed}
  <2>1. after = [state EXCEPT !.manifest = claimed]
    BY <1>1, <1>7 DEF ObserveManifest
  <2>2. claimed \in ManifestRecords
    BY <1>1, <1>7, BodyFields DEF ManifestRecords, ReplayRows
  <2>3. /\ after \in ReplayStates /\ after.attention = state.attention /\ after.run = state.run
        /\ after.receipts = state.receipts /\ after.persisted = state.persisted /\ after.owner = state.owner
        /\ after.manifest = claimed
    BY <2>1, <2>2 DEF ReplayStates
  <2> QED
    BY <1>1, <1>7, <2>3 DEF MoreWarnings, Warnings
<1> QED
  BY <1>3, <1>5, <1>6, <1>7

LEMMA AttentionObserved ==
  ASSUME NEW state \in ReplayStates, NEW e \in ReplayRows,
         NEW after, after = ObserveAttention(state, e)
  PROVE  /\ after \in ReplayStates
         /\ MoreWarnings(state, after) /\ after.run = state.run /\ OfReceipts(after) = OfReceipts(state)
         /\ e.body.type = "invalid" => Warned(after, e.place)
<1>1. e.body \in RowBodies /\ e.place \in Places
  BY DEF ReplayRows
<1>2. CASE e.body.type = "attention.opened"
  <2>1. e.body.item \in ItemIds
    <3>1. e.body.item \in {<<"item", Unset>>, <<"run.ended", Unset>>}
      BY <1>1, <1>2, BodyFields DEF AttentionItems, CoverageOf
    <3>2. {"item", "run.ended"} \subseteq ItemKinds
      BY DEF ItemKinds, RowTypes, RunTypes
    <3> QED
      BY <3>1, <3>2 DEF ItemIds
  <2>2. after = Warn(state, e.body.item)
    BY <1>2 DEF ObserveAttention
  <2> QED
    BY <1>2, <2>1, <2>2, WarnAdds
<1>3. CASE e.body.type = "invalid"
  <2>1. PICK id : id = <<"invalid-stored-event", e.place>>
    OBVIOUS
  <2>2. id \in ItemIds /\ id[2] = e.place
    BY <1>1, <2>1, IdsOfItems DEF ItemKinds
  <2>3. after = Warn(state, id)
    BY <1>3, <2>1 DEF ObserveAttention
  <2>4. after \in ReplayStates /\ id \in Warnings(after)
    BY <2>2, <2>3, WarnAdds
  <2> QED
    BY <2>2, <2>3, <2>4, WarnAdds, Stated
<1>4. CASE e.body.type = "attention.resolved"
  <2> DEFINE Closed(i) == [i EXCEPT !.open = @ /\ i.id # e.body.item]
  <2>1. PICK items : items = {Closed(i) : i \in state.attention}
    OBVIOUS
  <2>2. after = [state EXCEPT !.attention = items]
    BY <1>4, <2>1 DEF ObserveAttention
  <2>3. ASSUME NEW i \in state.attention
        PROVE  Closed(i) \in [id : ItemIds, open : BOOLEAN] /\ Closed(i).id = i.id
    <3>1. i \in [id : ItemIds, open : BOOLEAN]
      BY DEF ReplayStates
    <3>2. PICK open \in BOOLEAN : open = (i.open /\ i.id # e.body.item)
      BY <3>1
    <3>3. Closed(i) = [i EXCEPT !.open = open]
      BY <3>1, <3>2
    <3> QED
      BY <3>1, <3>2, <3>3
  <2> HIDE DEF Closed
  <2>4. items \in SUBSET [id : ItemIds, open : BOOLEAN]
    BY <2>1, <2>3
  <2>5. /\ [state EXCEPT !.attention = items] \in ReplayStates
        /\ [state EXCEPT !.attention = items].attention = items
        /\ [state EXCEPT !.attention = items].run = state.run
        /\ OfReceipts([state EXCEPT !.attention = items]) = OfReceipts(state)
    BY <2>4 DEF ReplayStates, OfReceipts
  <2>6. Warnings(state) \subseteq {i.id : i \in items}
    BY <2>1, <2>3 DEF Warnings
  <2> QED
    BY <1>4, <2>2, <2>5, <2>6 DEF MoreWarnings, Warnings
<1>5. CASE e.body.type \notin {"attention.opened", "attention.resolved", "invalid"}
  BY <1>5 DEF ObserveAttention, MoreWarnings
<1> QED
  BY <1>2, <1>3, <1>4, <1>5

\* Everything that a place makes of a state, in one fact.
LEMMA ObserveKeeps ==
  ASSUME NEW state \in ReplayStates, NEW e \in ReplayRows,
         NEW after, after = Observe(state, e)
  PROVE  /\ after \in ReplayStates /\ MoreWarnings(state, after)
         /\ after.receipts = state.receipts /\ after.persisted = state.persisted /\ after.owner = state.owner
         /\ state.manifest # Unset => after.manifest = state.manifest
         /\ e.body.type = "manifest.saved" =>
              Warned(after, e.place) \/ after.manifest = [task |-> e.task, content |-> e.body.content]
         /\ e.body.type = "invalid" => Warned(after, e.place)
         /\ EndIsCovered(state) => EndIsCovered(after)
<1>1. PICK ran : ran = ObserveRun(state, e)
  OBVIOUS
<1>2. PICK prepared : prepared = ObserveManifest(ran, e)
  OBVIOUS
<1>3. PICK seen : seen = ObserveAttention(prepared, e)
  OBVIOUS
<1>4. PICK partial \in BOOLEAN : partial = (e.coverage # "full" /\ e.body.type # "invalid")
  OBVIOUS
<1>5. PICK reported \in BOOLEAN : reported = (e.body.type = "run.ended" /\ e.kind = "agent-report")
  OBVIOUS
<1>6. PICK coverage : coverage = CoverageOf(e.body.type)
  OBVIOUS
<1>7. PICK covered : covered = WarnIf(seen, partial, coverage)
  OBVIOUS
<1>8. PICK id : id = <<"unverified-completion", e.place>>
  OBVIOUS
<1>9. after = WarnIf(covered, reported, id)
  BY <1>1, <1>2, <1>3, <1>4, <1>5, <1>6, <1>7, <1>8 DEF Observe
<1>10. e.body \in RowBodies /\ e.place \in Places /\ e.body.type \in RowTypes
  BY BodyFields DEF ReplayRows
<1>11. coverage \in ItemIds /\ id \in ItemIds /\ id[2] = e.place
  BY <1>6, <1>8, <1>10, IdsOfItems DEF CoverageOf, ItemKinds
<1>12. /\ ran \in ReplayStates /\ Warnings(ran) = Warnings(state) /\ OfReceipts(ran) = OfReceipts(state)
       /\ ran.run = state.run \/ ran.run = [fact |-> Fact(e), health |-> Health(e), by |-> e.place]
  BY <1>1, RunObserved
<1>13. /\ prepared \in ReplayStates /\ MoreWarnings(ran, prepared) /\ prepared.run = ran.run
       /\ prepared.receipts = ran.receipts /\ prepared.persisted = ran.persisted
       /\ prepared.owner = ran.owner /\ (ran.manifest # Unset => prepared.manifest = ran.manifest)
       /\ e.body.type = "manifest.saved" =>
            Warned(prepared, e.place) \/ prepared.manifest = [task |-> e.task, content |-> e.body.content]
  BY <1>2, <1>12, ManifestObserved
<1>14. /\ seen \in ReplayStates /\ MoreWarnings(prepared, seen)
       /\ seen.run = prepared.run /\ OfReceipts(seen) = OfReceipts(prepared)
       /\ e.body.type = "invalid" => Warned(seen, e.place)
  BY <1>3, <1>13, AttentionObserved
<1>15. /\ covered \in ReplayStates /\ MoreWarnings(seen, covered)
       /\ OfReceipts(covered) = OfReceipts(seen) /\ covered.run = seen.run
       /\ partial => coverage \in Warnings(covered)
  BY <1>7, <1>11, <1>14, WarnIfAdds
<1>16. /\ after \in ReplayStates /\ MoreWarnings(covered, after)
       /\ OfReceipts(after) = OfReceipts(covered) /\ after.run = covered.run
       /\ reported => id \in Warnings(after)
  BY <1>9, <1>11, <1>15, WarnIfAdds
<1>17. /\ MoreWarnings(state, after) /\ MoreWarnings(prepared, after) /\ MoreWarnings(seen, after)
       /\ partial => coverage \in Warnings(after)
  BY <1>12, <1>13, <1>14, <1>15, <1>16 DEF MoreWarnings
<1>18. /\ after.receipts = state.receipts /\ after.persisted = state.persisted /\ after.owner = state.owner
       /\ state.manifest # Unset => after.manifest = state.manifest
       /\ after.manifest = prepared.manifest
       /\ after.run = ran.run
  BY <1>12, <1>13, <1>14, <1>15, <1>16 DEF OfReceipts
<1>19. \A a, b \in ReplayStates : \A p : MoreWarnings(a, b) /\ Warned(a, p) => Warned(b, p)
  BY Stated DEF MoreWarnings
<1>20. ASSUME EndIsCovered(state) PROVE EndIsCovered(after)
  <2> SUFFICES ASSUME after.run # Unset, after.run.fact = "ended", after.run.health # "current"
               PROVE Warned(after, after.run.by) \/ CoverageOf("run.ended") \in Warnings(after)
    BY DEF EndIsCovered, Warnings
  <2>1. CASE after.run = state.run
    <3>1. Warned(state, state.run.by) \/ CoverageOf("run.ended") \in Warnings(state)
      BY <1>20, <2>1 DEF EndIsCovered, Warnings
    <3> QED
      BY <1>16, <1>17, <1>19, <2>1, <3>1 DEF MoreWarnings
  <2>2. CASE after.run = [fact |-> Fact(e), health |-> Health(e), by |-> e.place]
    <3>1. after.run.fact = Fact(e) /\ after.run.health = Health(e) /\ after.run.by = e.place
      BY <2>2
    <3>2. e.body.type = "run.ended"
      BY <3>1 DEF Fact
    <3>3. reported \/ partial
      BY <1>4, <1>5, <3>1, <3>2 DEF Health
    <3>4. CASE reported
      BY <1>11, <1>16, <3>1, <3>4, Stated
    <3>5. CASE partial
      BY <1>6, <1>17, <3>2, <3>5
    <3> QED
      BY <3>3, <3>4, <3>5
  <2> QED
    BY <1>12, <1>18, <2>1, <2>2
<1> QED
  BY <1>13, <1>14, <1>16, <1>17, <1>18, <1>19, <1>20

-----------------------------------------------------------------------------
(* ReceiptReplay: what one receipt makes of a state                          *)

LEMMA StageOrders ==
  /\ StageNames = {"received", "reported-complete", "verified-complete"}
  /\ StageOrder("received") = 1 /\ StageOrder("reported-complete") = 2 /\ StageOrder("verified-complete") = 3
<1>1. DOMAIN Stages = {1, 2, 3}
  BY DEF Stages
<1>2. Stages[1] = "received" /\ Stages[2] = "reported-complete" /\ Stages[3] = "verified-complete"
  BY DEF Stages
<1>3. StageNames = {"received", "reported-complete", "verified-complete"}
  BY <1>1, <1>2 DEF StageNames
<1>4. ASSUME NEW stage, NEW n \in {1, 2, 3}, Stages[n] = stage, \A m \in {1, 2, 3} : Stages[m] = stage => m = n
      PROVE  StageOrder(stage) = n
  BY <1>1, <1>4 DEF StageOrder
<1> QED
  BY <1>2, <1>3, <1>4

\* Who may be pending, and who owns a nonce.
ReceiptsOwned(state) ==
  /\ \A r \in ReceiptIds : state.receipts[r] # Unset =>
       /\ state.receipts[r].status # "unknown" => state.owner[state.receipts[r].nonce] = r
       /\ r \notin state.persisted =>
            /\ state.receipts[r].status \in {"unknown", "pending", "expired"}
            /\ state.receipts[r].stage # "verified-complete"
            /\ state.receipts[r].status = "pending" =>
                 /\ state.manifest # Unset /\ state.manifest.content = state.receipts[r].manifest
                 /\ state.receipts[r].target = "target"
  /\ \A r \in state.persisted : state.receipts[r] # Unset

\* No receipt is taken away, given another identity or moved back.
StandsIn(a, b) ==
  \A r \in ReceiptIds : a.receipts[r] # Unset =>
    /\ b.receipts[r] # Unset /\ Identity(b.receipts[r]) = Identity(a.receipts[r])
    /\ StageOrder(b.receipts[r].stage) >= StageOrder(a.receipts[r].stage)
    /\ r \in a.persisted => b.receipts[r] = a.receipts[r]

LEMMA StandsStill ==
  ASSUME NEW a \in ReplayStates, NEW b, b.receipts = a.receipts
  PROVE  StandsIn(a, b)
<1>1. \A r \in ReceiptIds : a.receipts[r] # Unset => StageOrder(a.receipts[r].stage) \in {1, 2, 3}
  BY StageOrders DEF ReplayStates, ReceiptRecords
<1> QED
  BY <1>1 DEF StandsIn

LEMMA StandsOn ==
  ASSUME NEW a \in ReplayStates, NEW b \in ReplayStates, NEW c \in ReplayStates, a.persisted = b.persisted,
         StandsIn(a, b), StandsIn(b, c)
  PROVE  StandsIn(a, c)
<1>1. \A s \in ReplayStates : \A r \in ReceiptIds : s.receipts[r] # Unset => StageOrder(s.receipts[r].stage) \in {1, 2, 3}
  BY StageOrders DEF ReplayStates, ReceiptRecords
<1> SUFFICES ASSUME NEW r \in ReceiptIds, a.receipts[r] # Unset
             PROVE  /\ c.receipts[r] # Unset /\ Identity(c.receipts[r]) = Identity(a.receipts[r])
                    /\ StageOrder(c.receipts[r].stage) >= StageOrder(a.receipts[r].stage)
                    /\ r \in a.persisted => c.receipts[r] = a.receipts[r]
  BY DEF StandsIn
<1>2. /\ b.receipts[r] # Unset /\ Identity(b.receipts[r]) = Identity(a.receipts[r])
      /\ StageOrder(b.receipts[r].stage) >= StageOrder(a.receipts[r].stage)
      /\ r \in a.persisted => b.receipts[r] = a.receipts[r]
  BY DEF StandsIn
<1>3. /\ c.receipts[r] # Unset /\ Identity(c.receipts[r]) = Identity(b.receipts[r])
      /\ StageOrder(c.receipts[r].stage) >= StageOrder(b.receipts[r].stage)
      /\ r \in b.persisted => c.receipts[r] = b.receipts[r]
  BY <1>2 DEF StandsIn
<1>4. {StageOrder(a.receipts[r].stage), StageOrder(b.receipts[r].stage), StageOrder(c.receipts[r].stage)} \subseteq Int
  BY <1>1, <1>2, <1>3
<1>5. StageOrder(c.receipts[r].stage) >= StageOrder(a.receipts[r].stage)
  BY <1>2, <1>3, <1>4
<1> QED
  BY <1>2, <1>3, <1>5

\* What is shown of a receipt's row.
RowReceived(state, e) ==
  \/ Warned(state, e.place)
  \/ /\ state.receipts[e.body.receipt] # Unset
     /\ Identity(state.receipts[e.body.receipt]) = e.body.input

\* What an arrival does to the receipts.
Moved(state, e, after) ==
  /\ Conflicts(state, e) \/ Fixed(state, e) => OfReceipts(after) = OfReceipts(state)
  /\ ~Conflicts(state, e) /\ ~Fixed(state, e) =>
       /\ after.receipts = [state.receipts EXCEPT ![e.body.receipt] =
                              Receipt(e.body.input, StageOf(e.body), StatusOf(state, e))]
       /\ after.owner = [state.owner EXCEPT ![e.body.input.nonce] =
                           IF Fits(state, e) THEN e.body.receipt ELSE state.owner[e.body.input.nonce]]

LEMMA ReceiveKeeps ==
  ASSUME NEW state \in ReplayStates, ReceiptsOwned(state), NEW e \in ReplayRows, IsReceipt(e),
         NEW after, after = Receive(state, e)
  PROVE  /\ after \in ReplayStates /\ MoreWarnings(state, after)
         /\ after.run = state.run /\ after.persisted = state.persisted /\ after.manifest = state.manifest
         /\ ReceiptsOwned(after) /\ StandsIn(state, after)
         /\ RowReceived(after, e) /\ Moved(state, e, after)
<1>1. PICK body : body = e.body
  OBVIOUS
<1>2. PICK fits \in BOOLEAN : fits = Fits(state, e)
  BY DEF Fits
<1>3. PICK claims \in BOOLEAN : claims = ClaimsVerified(body)
  BY DEF ClaimsVerified
<1>4. PICK id1 : id1 = <<"receipt-integrity", e.place>>
  OBVIOUS
<1>5. PICK id2 : id2 = <<"unverified-completion", e.place>>
  OBVIOUS
<1>6. PICK id3 : id3 = <<"receipt-conflict", e.place>>
  OBVIOUS
<1>7. e.place \in Places /\ {id1, id2, id3} \subseteq ItemIds /\ id1[2] = e.place /\ id2[2] = e.place /\ id3[2] = e.place
  BY <1>4, <1>5, <1>6, IdsOfItems DEF ItemKinds, ReplayRows
<1>8. body \in RowBodies /\ body.receipt \in ReceiptIds /\ body.stage \in StageNames /\ body.input \in ReceiptInputs
  BY <1>1, BodyFields DEF IsReceipt, ReplayRows
<1>9. PICK doubted : doubted = WarnIf(state, ~fits, id1)
  OBVIOUS
<1>10. PICK warned : warned = WarnIf(doubted, claims, id2)
  OBVIOUS
<1>11. doubted \in ReplayStates /\ MoreWarnings(state, doubted) /\ (~fits => id1 \in Warnings(doubted))
       /\ OfReceipts(doubted) = OfReceipts(state) /\ doubted.run = state.run
  BY <1>7, <1>9, WarnIfAdds
<1>12. warned \in ReplayStates /\ MoreWarnings(doubted, warned)
       /\ OfReceipts(warned) = OfReceipts(doubted) /\ warned.run = doubted.run
  BY <1>7, <1>10, <1>11, WarnIfAdds
<1>13. /\ MoreWarnings(state, warned) /\ (~fits => Warned(warned, e.place))
       /\ OfReceipts(warned) = OfReceipts(state) /\ warned.run = state.run
  BY <1>7, <1>11, <1>12, Stated DEF MoreWarnings
<1>14. ASSUME NEW s \in ReplayStates, OfReceipts(s) = OfReceipts(state)
       PROVE  ReceiptsOwned(s) /\ StandsIn(state, s)
  BY <1>14, StandsStill DEF ReceiptsOwned, OfReceipts
<1>15. CASE Conflicts(state, e)
  <2>1. after = Warn(warned, id3)
    BY <1>1, <1>2, <1>3, <1>4, <1>5, <1>6, <1>9, <1>10, <1>15 DEF Receive
  <2>2. /\ after \in ReplayStates /\ MoreWarnings(warned, after) /\ id3 \in Warnings(after)
        /\ OfReceipts(after) = OfReceipts(warned) /\ after.run = warned.run
    BY <1>7, <1>12, <2>1, WarnAdds
  <2>3. Warned(after, e.place) /\ MoreWarnings(state, after)
    BY <1>7, <1>13, <2>2, Stated DEF MoreWarnings
  <2> QED
    BY <1>13, <1>14, <1>15, <2>2, <2>3 DEF OfReceipts, RowReceived, Moved
<1>16. CASE ~Conflicts(state, e) /\ Fixed(state, e)
  <2>1. after = warned
    BY <1>1, <1>2, <1>3, <1>4, <1>5, <1>9, <1>10, <1>16 DEF Receive
  <2>2. state.receipts[body.receipt] # Unset
    BY <1>1, <1>16 DEF Fixed, ReceiptsOwned
  <2>3. Identity(state.receipts[body.receipt]) = body.input
    BY <1>1, <1>16, <2>2 DEF Conflicts
  <2> QED
    BY <1>1, <1>12, <1>13, <1>14, <1>16, <2>1, <2>2, <2>3 DEF OfReceipts, RowReceived, Moved
<1>17. CASE ~Conflicts(state, e) /\ ~Fixed(state, e)
  <2>1. PICK r : r = body.receipt
    OBVIOUS
  <2>2. PICK n : n = body.input.nonce
    OBVIOUS
  <2>3. PICK receipt : receipt = Receipt(body.input, StageOf(body), StatusOf(state, e))
    OBVIOUS
  <2>4. PICK holder : holder = IF fits THEN r ELSE state.owner[n]
    OBVIOUS
  <2>5. r \in ReceiptIds /\ n \in Nonces
    BY <1>8, <2>1, <2>2 DEF ReceiptInputs
  <2>6. after = [warned EXCEPT !.receipts[r] = receipt, !.owner[n] = IF fits THEN r ELSE @]
    BY <1>1, <1>2, <1>3, <1>4, <1>5, <1>9, <1>10, <1>17, <2>1, <2>2, <2>3 DEF Receive
  <2>7. PICK receipts : receipts = [state.receipts EXCEPT ![r] = receipt]
    OBVIOUS
  <2>8. PICK owner : owner = [state.owner EXCEPT ![n] = holder]
    OBVIOUS
  <2>9. warned.receipts = state.receipts /\ warned.owner = state.owner /\ warned.persisted = state.persisted
        /\ warned.manifest = state.manifest
    BY <1>13 DEF OfReceipts
  <2>10. after = [[warned EXCEPT !.receipts = receipts] EXCEPT !.owner = owner]
    <3>1. holder = IF fits THEN r ELSE warned.owner[n]
      BY <2>4, <2>9
    <3>2. after = [warned EXCEPT !.receipts[r] = receipt, !.owner[n] = holder]
      BY <2>6, <3>1
    <3>3. after = [[warned EXCEPT !.receipts = [warned.receipts EXCEPT ![r] = receipt]]
                     EXCEPT !.owner = [warned.owner EXCEPT ![n] = holder]]
      BY <1>12, <3>2 DEF ReplayStates
    <3> QED
      BY <2>7, <2>8, <2>9, <3>3
  <2>11. receipt \in ReceiptRecords /\ Identity(receipt) = body.input /\ receipt.stage # "verified-complete"
         /\ receipt.status = StatusOf(state, e) /\ receipt.stage = StageOf(body)
         /\ receipt.nonce = n /\ receipt.manifest = body.input.manifest /\ receipt.target = body.input.target
    BY <1>8, <2>2, <2>3, StageOrders DEF Receipt, ReceiptRecords, ReceiptInputs, Identity, StageOf, ClaimsVerified, StatusOf
  <2>12. receipts \in [ReceiptIds -> ReceiptRecords \cup {Unset}]
         /\ receipts[r] = receipt /\ \A q \in ReceiptIds \ {r} : receipts[q] = state.receipts[q]
    BY <2>5, <2>7, <2>11 DEF ReplayStates
  <2>13. owner \in [Nonces -> ReceiptIds \cup {Unset}]
         /\ owner[n] = holder /\ \A m \in Nonces \ {n} : owner[m] = state.owner[m]
    BY <2>4, <2>5, <2>8 DEF ReplayStates
  <2>14. /\ after \in ReplayStates /\ after.receipts = receipts /\ after.owner = owner
         /\ after.persisted = state.persisted /\ after.manifest = state.manifest
         /\ after.run = warned.run /\ after.attention = warned.attention
    BY <1>12, <2>9, <2>10, <2>12, <2>13 DEF ReplayStates
  <2>15. MoreWarnings(state, after)
    BY <1>13, <2>14 DEF MoreWarnings, Warnings
  <2>16. r \notin state.persisted /\ state.owner[n] \in {Unset, r}
    BY <1>1, <1>17, <2>1, <2>2 DEF Fixed, Conflicts
  <2>17. receipt # Unset
    BY <2>11, ReplayAssumption
  <2>18. receipt.status # "unknown" => fits
    BY <1>2, <2>11 DEF StatusOf
  <2>19. ReceiptsOwned(after)
    <3>1. ASSUME NEW q \in ReceiptIds, after.receipts[q] # Unset
          PROVE  /\ after.receipts[q].status # "unknown" => after.owner[after.receipts[q].nonce] = q
                 /\ q \notin after.persisted =>
                      /\ after.receipts[q].status \in {"unknown", "pending", "expired"}
                      /\ after.receipts[q].stage # "verified-complete"
                      /\ after.receipts[q].status = "pending" =>
                           /\ after.manifest # Unset /\ after.manifest.content = after.receipts[q].manifest
                           /\ after.receipts[q].target = "target"
      <4>1. CASE q = r
        <5>1. receipt.status # "unknown" => owner[n] = r
          BY <2>4, <2>13, <2>18
        <5>2. receipt.status \in {"unknown", "pending", "expired"}
          BY <2>11 DEF StatusOf
        <5>3. receipt.status = "pending" =>
                /\ state.manifest # Unset /\ state.manifest.content = receipt.manifest
                /\ receipt.target = "target"
          BY <1>1, <2>11 DEF StatusOf, Fits
        <5> QED
          BY <2>11, <2>12, <2>14, <4>1, <5>1, <5>2, <5>3
      <4>2. CASE q # r
        <5>1. after.receipts[q] = state.receipts[q] /\ state.receipts[q] # Unset
          BY <2>12, <2>14, <3>1, <4>2
        <5>2. state.receipts[q].nonce \in Nonces
          BY <5>1 DEF ReplayStates, ReceiptRecords
        <5>3. state.receipts[q].status # "unknown" => state.owner[state.receipts[q].nonce] = q
          BY <5>1 DEF ReceiptsOwned
        <5>4. q # Unset
          BY ReplayAssumption
        <5>5. state.receipts[q].status # "unknown" => state.receipts[q].nonce # n
          BY <2>16, <4>2, <5>3, <5>4
        <5>6. after.receipts[q].status # "unknown" => after.owner[after.receipts[q].nonce] = q
          BY <2>13, <2>14, <5>1, <5>2, <5>3, <5>5
        <5> QED
          BY <2>14, <5>1, <5>6 DEF ReceiptsOwned
      <4> QED
        BY <4>1, <4>2
    <3>2. \A q \in after.persisted : after.receipts[q] # Unset
      <4>1. \A q \in state.persisted : q \in ReceiptIds /\ q # r /\ state.receipts[q] # Unset
        BY <2>16 DEF ReceiptsOwned, ReplayStates
      <4> QED
        BY <2>12, <2>14, <4>1
    <3> QED
      BY <3>1, <3>2 DEF ReceiptsOwned
  <2>20. StandsIn(state, after)
    <3> SUFFICES ASSUME NEW q \in ReceiptIds, state.receipts[q] # Unset
                 PROVE  /\ after.receipts[q] # Unset /\ Identity(after.receipts[q]) = Identity(state.receipts[q])
                        /\ StageOrder(after.receipts[q].stage) >= StageOrder(state.receipts[q].stage)
                        /\ q \in state.persisted => after.receipts[q] = state.receipts[q]
      BY DEF StandsIn
    <3>1. StageOrder(state.receipts[q].stage) \in {1, 2, 3} /\ StageOrder(receipt.stage) \in {1, 2, 3}
      BY <2>11, StageOrders DEF ReplayStates, ReceiptRecords
    <3>2. CASE q = r
      <4>1. Identity(state.receipts[r]) = body.input /\ ~(StageOrder(StageOf(body)) < StageOrder(state.receipts[r].stage))
        BY <1>1, <1>17, <2>1, <3>2 DEF Conflicts
      <4>2. StageOrder(receipt.stage) >= StageOrder(state.receipts[q].stage)
        BY <2>11, <3>1, <3>2, <4>1
      <4> QED
        BY <2>11, <2>12, <2>14, <2>16, <2>17, <3>2, <4>1, <4>2
    <3>3. CASE q # r
      BY <2>12, <2>14, <3>1, <3>3
    <3> QED
      BY <3>2, <3>3
  <2>21. /\ receipts = [state.receipts EXCEPT ![e.body.receipt] =
                            Receipt(e.body.input, StageOf(e.body), StatusOf(state, e))]
         /\ owner = [state.owner EXCEPT ![e.body.input.nonce] =
                       IF Fits(state, e) THEN e.body.receipt ELSE state.owner[e.body.input.nonce]]
    BY <1>1, <1>2, <2>1, <2>2, <2>3, <2>4, <2>7, <2>8
  <2>22. RowReceived(after, e)
    BY <1>1, <2>1, <2>11, <2>12, <2>14, <2>17 DEF RowReceived
  <2>23. Moved(state, e, after)
    BY <1>17, <2>14, <2>21 DEF Moved
  <2> QED
    BY <1>13, <2>14, <2>15, <2>19, <2>20, <2>22, <2>23
<1> QED
  BY <1>15, <1>16, <1>17

\* What the replay of receipts does depends on what is about receipts.
LEMMA ReceiveSame ==
  ASSUME NEW a \in ReplayStates, NEW b \in ReplayStates, OfReceipts(a) = OfReceipts(b),
         NEW e \in ReplayRows, IsReceipt(e),
         ReceiptsOwned(a), ReceiptsOwned(b)
  PROVE  OfReceipts(Receive(a, e)) = OfReceipts(Receive(b, e))
<1>1. /\ a.receipts = b.receipts /\ a.persisted = b.persisted
      /\ a.owner = b.owner /\ a.manifest = b.manifest
  BY DEF OfReceipts
<1>2. Fits(a, e) <=> Fits(b, e)
  BY <1>1 DEF Fits
<1>3. /\ Conflicts(a, e) <=> Conflicts(b, e)
      /\ Fixed(a, e) <=> Fixed(b, e)
      /\ StatusOf(a, e) = StatusOf(b, e)
  BY <1>1, <1>2 DEF Conflicts, Fixed, StatusOf
<1>4. ASSUME NEW state \in ReplayStates, ReceiptsOwned(state), NEW after, after = Receive(state, e)
      PROVE  /\ after.persisted = state.persisted /\ after.manifest = state.manifest
             /\ Conflicts(state, e) \/ Fixed(state, e) => OfReceipts(after) = OfReceipts(state)
             /\ ~Conflicts(state, e) /\ ~Fixed(state, e) =>
                  /\ after.receipts = [state.receipts EXCEPT ![e.body.receipt] =
                                         Receipt(e.body.input, StageOf(e.body), StatusOf(state, e))]
                  /\ after.owner = [state.owner EXCEPT ![e.body.input.nonce] =
                                      IF Fits(state, e) THEN e.body.receipt ELSE state.owner[e.body.input.nonce]]
  BY <1>4, ReceiveKeeps DEF Moved
<1>5. PICK x, y : x = Receive(a, e) /\ y = Receive(b, e)
  OBVIOUS
<1>6. CASE Conflicts(a, e) \/ Fixed(a, e)
  BY <1>3, <1>4, <1>5, <1>6
<1>7. CASE ~Conflicts(a, e) /\ ~Fixed(a, e)
  <2>1. ~Conflicts(b, e) /\ ~Fixed(b, e)
    BY <1>3, <1>7
  <2>2. /\ x.persisted = a.persisted /\ x.manifest = a.manifest
        /\ x.receipts = [a.receipts EXCEPT ![e.body.receipt] = Receipt(e.body.input, StageOf(e.body), StatusOf(a, e))]
        /\ x.owner = [a.owner EXCEPT ![e.body.input.nonce] =
                        IF Fits(a, e) THEN e.body.receipt ELSE a.owner[e.body.input.nonce]]
    BY <1>4, <1>5, <1>7
  <2>3. /\ y.persisted = b.persisted /\ y.manifest = b.manifest
        /\ y.receipts = [b.receipts EXCEPT ![e.body.receipt] = Receipt(e.body.input, StageOf(e.body), StatusOf(b, e))]
        /\ y.owner = [b.owner EXCEPT ![e.body.input.nonce] =
                        IF Fits(b, e) THEN e.body.receipt ELSE b.owner[e.body.input.nonce]]
    BY <1>4, <1>5, <2>1
  <2>4. x.receipts = y.receipts /\ x.owner = y.owner
    BY <1>1, <1>2, <1>3, <2>2, <2>3
  <2> QED
    BY <1>1, <1>5, <2>2, <2>3, <2>4 DEF OfReceipts
<1> QED
  BY <1>6, <1>7

-----------------------------------------------------------------------------
(* ReceiptReplay: the defining equations                                     *)

\* What is observed up to a place is what was observed before it, and the row there.
LEMMA ObservedEquation ==
  ASSUME NEW view, NEW all
  PROVE  /\ Observed(view, all)[0] = Prepared(view)
         /\ \A i \in 1 .. MaxPlace : Observed(view, all)[i] = AfterPlace(Observed(view, all)[i - 1], view, all, i)
<1> DEFINE Solves(f, n) == f = [i \in 0 .. n |-> IF i = 0 THEN Prepared(view) ELSE AfterPlace(f[i - 1], view, all, i)]
<1> DEFINE Solvable == {n \in Nat : \E f : Solves(f, n)}
<1>1. 0 \in Solvable
  <2>1. Solves([i \in 0 .. 0 |-> Prepared(view)], 0)
    OBVIOUS
  <2> QED
    BY <2>1
<1>2. ASSUME NEW n \in Nat, n \in Solvable PROVE n + 1 \in Solvable
  <2>1. PICK f : Solves(f, n)
    BY <1>2
  <2> DEFINE g == [i \in 0 .. n + 1 |-> IF i = n + 1 THEN AfterPlace(f[n], view, all, n + 1) ELSE f[i]]
  <2>2. \A i \in 0 .. n + 1 : g[i] = IF i = 0 THEN Prepared(view) ELSE AfterPlace(g[i - 1], view, all, i)
    <3> SUFFICES ASSUME NEW i \in 0 .. n + 1
                 PROVE g[i] = IF i = 0 THEN Prepared(view) ELSE AfterPlace(g[i - 1], view, all, i)
      OBVIOUS
    <3>1. CASE i = n + 1
      <4>1. g[i] = AfterPlace(f[n], view, all, n + 1) /\ g[n] = f[n] /\ i - 1 = n /\ i # 0
        BY <3>1
      <4> QED
        BY <3>1, <4>1
    <3>2. CASE i # n + 1
      <4>1. i \in 0 .. n /\ g[i] = f[i] /\ (i # 0 => i - 1 \in 0 .. n /\ g[i - 1] = f[i - 1])
        BY <3>2
      <4>2. f[i] = IF i = 0 THEN Prepared(view) ELSE AfterPlace(f[i - 1], view, all, i)
        BY <2>1, <4>1
      <4> HIDE DEF g
      <4> QED
        BY <4>1, <4>2
    <3> QED
      BY <3>1, <3>2
  <2>3. g = [i \in 0 .. n + 1 |-> g[i]]
    OBVIOUS
  <2> HIDE DEF g
  <2>4. Solves(g, n + 1)
    BY <2>2, <2>3
  <2> HIDE DEF Solves
  <2> QED
    BY <2>4
<1>3. MaxPlace \in Nat
  BY ReplayAssumption
<1>4. MaxPlace \in Solvable
  <2> HIDE DEF Solvable
  <2>1. \A n \in Nat : n \in Solvable => n + 1 \in Solvable
    BY <1>2
  <2> QED
    BY <1>1, <1>3, <2>1, SetInduction
<1>5. \E f : Solves(f, MaxPlace)
  BY <1>4
<1>6. Solves(CHOOSE f : Solves(f, MaxPlace), MaxPlace)
  <2> HIDE DEF Solves
  <2> QED
    BY <1>5
<1>7. Observed(view, all) = CHOOSE f : Solves(f, MaxPlace)
  BY DEF Observed
<1>8. Solves(Observed(view, all), MaxPlace)
  BY <1>6, <1>7
<1> QED
  BY <1>3, <1>8

\* What is shown after some arrivals is what was shown before the last of them, and that one.
LEMMA ReceivedEquation ==
  ASSUME NEW view, NEW all, Len(all) \in Nat
  PROVE  /\ Received(view, all)[0] = Observed(view, all)[MaxPlace]
         /\ \A i \in 1 .. Len(all) : Received(view, all)[i] = AfterArrival(Received(view, all)[i - 1], view, all[i])
<1> DEFINE Solves(f, n) == f = [i \in 0 .. n |-> IF i = 0 THEN Observed(view, all)[MaxPlace] ELSE AfterArrival(f[i - 1], view, all[i])]
<1> DEFINE Solvable == {n \in Nat : \E f : Solves(f, n)}
<1>1. 0 \in Solvable
  <2>1. Solves([i \in 0 .. 0 |-> Observed(view, all)[MaxPlace]], 0)
    OBVIOUS
  <2> QED
    BY <2>1
<1>2. ASSUME NEW n \in Nat, n \in Solvable PROVE n + 1 \in Solvable
  <2>1. PICK f : Solves(f, n)
    BY <1>2
  <2> DEFINE g == [i \in 0 .. n + 1 |-> IF i = n + 1 THEN AfterArrival(f[n], view, all[n + 1]) ELSE f[i]]
  <2>2. \A i \in 0 .. n + 1 : g[i] = IF i = 0 THEN Observed(view, all)[MaxPlace] ELSE AfterArrival(g[i - 1], view, all[i])
    <3> SUFFICES ASSUME NEW i \in 0 .. n + 1
                 PROVE g[i] = IF i = 0 THEN Observed(view, all)[MaxPlace] ELSE AfterArrival(g[i - 1], view, all[i])
      OBVIOUS
    <3>1. CASE i = n + 1
      <4>1. g[i] = AfterArrival(f[n], view, all[n + 1]) /\ g[n] = f[n] /\ i - 1 = n /\ i # 0
        BY <3>1
      <4> QED
        BY <3>1, <4>1
    <3>2. CASE i # n + 1
      <4>1. i \in 0 .. n /\ g[i] = f[i] /\ (i # 0 => i - 1 \in 0 .. n /\ g[i - 1] = f[i - 1])
        BY <3>2
      <4>2. f[i] = IF i = 0 THEN Observed(view, all)[MaxPlace] ELSE AfterArrival(f[i - 1], view, all[i])
        BY <2>1, <4>1
      <4> HIDE DEF g
      <4> QED
        BY <4>1, <4>2
    <3> QED
      BY <3>1, <3>2
  <2>3. g = [i \in 0 .. n + 1 |-> g[i]]
    OBVIOUS
  <2> HIDE DEF g
  <2>4. Solves(g, n + 1)
    BY <2>2, <2>3
  <2> HIDE DEF Solves
  <2> QED
    BY <2>4
<1>3. Len(all) \in Nat
  OBVIOUS
<1>4. Len(all) \in Solvable
  <2> HIDE DEF Solvable
  <2>1. \A n \in Nat : n \in Solvable => n + 1 \in Solvable
    BY <1>2
  <2> QED
    BY <1>1, <1>3, <2>1, SetInduction
<1>5. \E f : Solves(f, Len(all))
  BY <1>4
<1>6. Solves(CHOOSE f : Solves(f, Len(all)), Len(all))
  <2> HIDE DEF Solves
  <2> QED
    BY <1>5
<1>7. Received(view, all) = CHOOSE f : Solves(f, Len(all))
  BY DEF Received, NthArrival
<1>8. Solves(Received(view, all), Len(all))
  BY <1>6, <1>7
<1> QED
  BY <1>3, <1>8


-----------------------------------------------------------------------------
(* ReceiptReplay: the whole projection                                       *)

\* Rows as they arrive: at most one of each place.
ReplayLog(all) ==
  /\ all \in Seq(ReplayRows)
  /\ \A m, n \in DOMAIN all : all[m].place = all[n].place => m = n

ReplayInv ==
  /\ ReplayLog(arrivals)
  /\ saved \in Manifests \cup {Unset} /\ kept \in [ReceiptIds -> ReceiptRecords \cup {Unset}]
  /\ \A r \in ReceiptIds : kept[r] # Unset => kept[r].status \in {"pending", "expired", "confirmed"}
  /\ \A q, r \in ReceiptIds :
       kept[q] # Unset /\ kept[r] # Unset /\ kept[q].nonce = kept[r].nonce => q = r

LEMMA PreparedTrue ==
  ASSUME ReplayInv, NEW view \in Views
  PROVE  /\ Prepared(view) \in ReplayStates /\ ReceiptsOwned(Prepared(view)) /\ EndIsCovered(Prepared(view))
         /\ Sees(view) => /\ Prepared(view).manifest = [task |-> Home, content |-> saved]
                          /\ Prepared(view).manifest # Unset /\ Prepared(view).receipts = kept
         /\ Prepared(view).persisted = {r \in ReceiptIds : Sees(view) /\ kept[r] # Unset}
<1>1. PICK receipts : receipts = IF Sees(view) THEN kept ELSE [r \in ReceiptIds |-> Unset]
  OBVIOUS
<1>2. receipts \in [ReceiptIds -> ReceiptRecords \cup {Unset}]
  BY <1>1 DEF ReplayInv
<1>3. PICK persisted : persisted = {r \in ReceiptIds : receipts[r] # Unset}
  OBVIOUS
<1>4. PICK owner : owner = [n \in Nonces |-> OwnerOf(n, receipts)]
  OBVIOUS
<1>5. PICK manifest : manifest = IF Sees(view) THEN [task |-> Home, content |-> saved] ELSE Unset
  OBVIOUS
<1>6. /\ manifest \in ManifestRecords \cup {Unset}
      /\ Sees(view) => manifest \in ManifestRecords
  BY <1>5 DEF Sees, ManifestRecords, ReplayInv
<1>7. \A n \in Nonces : OwnerOf(n, receipts) \in ReceiptIds \cup {Unset}
  BY DEF OwnerOf
<1>8. owner \in [Nonces -> ReceiptIds \cup {Unset}]
  BY <1>4, <1>7
<1>9. PICK p : p = Prepared(view)
  OBVIOUS
<1>10. p = [run |-> Unset, attention |-> {}, receipts |-> receipts, persisted |-> persisted,
            owner |-> owner, manifest |-> manifest]
  BY <1>1, <1>3, <1>4, <1>5, <1>9 DEF Prepared
<1>11. /\ p \in ReplayStates
       /\ p.run = Unset /\ p.receipts = receipts /\ p.persisted = persisted /\ p.owner = owner /\ p.manifest = manifest
  BY <1>2, <1>3, <1>6, <1>8, <1>10 DEF ReplayStates
<1>12. \A r \in ReceiptIds : receipts[r] # Unset => r \in persisted /\ receipts[r] \in ReceiptRecords /\ receipts[r] = kept[r]
  BY <1>1, <1>2, <1>3
<1>13. \A r \in persisted : receipts[r] # Unset
  BY <1>3
<1>14. ASSUME NEW r \in ReceiptIds, receipts[r] # Unset PROVE owner[receipts[r].nonce] = r
  <2>1. PICK n : n = receipts[r].nonce
    OBVIOUS
  <2>2. n \in Nonces
    BY <1>12, <1>14, <2>1 DEF ReceiptRecords
  <2>3. owner[n] = CHOOSE q \in ReceiptIds : receipts[q] # Unset /\ receipts[q].nonce = n
    BY <1>4, <1>14, <2>1, <2>2 DEF OwnerOf
  <2>4. \A q \in ReceiptIds : receipts[q] # Unset /\ receipts[q].nonce = n => q = r
    BY <1>12, <1>14, <2>1 DEF ReplayInv
  <2> QED
    BY <1>14, <2>1, <2>3, <2>4
<1>15. ReceiptsOwned(p)
  BY <1>11, <1>12, <1>13, <1>14 DEF ReceiptsOwned
<1>16. EndIsCovered(p)
  BY <1>11 DEF EndIsCovered
<1>17. Sees(view) => /\ manifest = [task |-> Home, content |-> saved]
                     /\ manifest # Unset /\ receipts = kept
  BY <1>1, <1>5, <1>6, ReplayAssumption
<1>18. persisted = {r \in ReceiptIds : Sees(view) /\ kept[r] # Unset}
  BY <1>1, <1>3
<1> QED
  BY <1>9, <1>11, <1>15, <1>16, <1>17, <1>18

\* What is shown of a row, other than a receipt and a run.
RowObserved(state, e) ==
  /\ e.body.type = "manifest.saved" =>
       Warned(state, e.place) \/ state.manifest = [task |-> e.task, content |-> e.body.content]
  /\ e.body.type = "invalid" => Warned(state, e.place)

\* A place without a row changes nothing, one with a row is what the row says.
LEMMA OnePlace ==
  ASSUME NEW all, ReplayLog(all), NEW view, NEW p, NEW state
  PROVE  \/ /\ AfterPlace(state, view, all, p) = state
            /\ \A n \in DOMAIN all : all[n].place = p => ~InView(view, all[n])
         \/ \E n \in DOMAIN all :
              /\ all[n].place = p /\ AfterPlace(state, view, all, p) = Observe(state, all[n])
              /\ \A m \in DOMAIN all : all[m].place = p => m = n
<1>1. PICK there : there = {n \in DOMAIN all : all[n].place = p /\ InView(view, all[n])}
  OBVIOUS
<1>2. CASE there = {}
  BY <1>1, <1>2 DEF AfterPlace
<1>3. CASE there # {}
  <2>1. PICK n : n = CHOOSE m \in there : TRUE
    OBVIOUS
  <2>2. n \in there
    BY <1>3, <2>1
  <2>3. AfterPlace(state, view, all, p) = Observe(state, all[n])
    BY <1>1, <1>3, <2>1 DEF AfterPlace
  <2> QED
    BY <1>1, <2>2, <2>3 DEF ReplayLog
<1> QED
  BY <1>2, <1>3

\* The rows up to a place were observed.
ObservedUpTo(view, all, p) ==
  LET state == Observed(view, all)[p]  start == Prepared(view) IN
    /\ state \in ReplayStates /\ EndIsCovered(state)
    /\ state.receipts = start.receipts /\ state.persisted = start.persisted /\ state.owner = start.owner
    /\ Sees(view) => state.manifest = start.manifest
    /\ \A n \in DOMAIN all : InView(view, all[n]) /\ all[n].place <= p => RowObserved(state, all[n])

LEMMA RowStaysObserved ==
  ASSUME NEW a \in ReplayStates, NEW b \in ReplayStates, NEW e \in ReplayRows, RowObserved(a, e),
         MoreWarnings(a, b), a.manifest # Unset => b.manifest = a.manifest
  PROVE  RowObserved(b, e)
<1>1. Warned(a, e.place) => Warned(b, e.place)
  BY Stated DEF MoreWarnings
<1>2. CASE e.body.type = "manifest.saved"
  <2>1. [task |-> e.task, content |-> e.body.content] \in ManifestRecords
    BY <1>2, BodyFields DEF ManifestRecords, ReplayRows
  <2>2. [task |-> e.task, content |-> e.body.content] # Unset
    BY <2>1, ReplayAssumption
  <2> QED
    BY <1>1, <1>2, <2>2 DEF RowObserved
<1>3. CASE e.body.type # "manifest.saved"
  BY <1>1, <1>3 DEF RowObserved
<1> QED
  BY <1>2, <1>3

LEMMA ObservedTrue ==
  ASSUME ReplayInv, NEW view \in Views, NEW all, ReplayLog(all)
  PROVE  ObservedUpTo(view, all, MaxPlace)
<1> DEFINE Good == {p \in Nat : p <= MaxPlace => ObservedUpTo(view, all, p)}
<1>1. \A n \in DOMAIN all : all[n] \in ReplayRows /\ all[n].place \in 1 .. MaxPlace
  <2> SUFFICES ASSUME NEW n \in DOMAIN all
               PROVE  all[n] \in ReplayRows /\ all[n].place \in 1 .. MaxPlace
    OBVIOUS
  <2>1. all[n] \in ReplayRows
    BY DEF ReplayLog
  <2> QED
    BY <2>1 DEF ReplayRows, Places
<1>2. 0 \in Good
  <2>1. Observed(view, all)[0] = Prepared(view)
    BY ObservedEquation
  <2>2. \A n \in DOMAIN all : ~(all[n].place <= 0)
    BY <1>1
  <2>3. ObservedUpTo(view, all, 0)
    BY <2>1, <2>2, PreparedTrue DEF ObservedUpTo
  <2> QED
    BY <2>3
<1>3. ASSUME NEW p \in Nat, p \in Good PROVE p + 1 \in Good
  <2> SUFFICES ASSUME p + 1 <= MaxPlace PROVE ObservedUpTo(view, all, p + 1)
    OBVIOUS
  <2>1. MaxPlace \in Nat /\ p <= MaxPlace /\ p + 1 \in 1 .. MaxPlace /\ (p + 1) - 1 = p
    BY ReplayAssumption
  <2>2. ObservedUpTo(view, all, p)
    BY <1>3, <2>1
  <2>3. PICK a, b : a = Observed(view, all)[p] /\ b = Observed(view, all)[p + 1]
    OBVIOUS
  <2>4. PICK start : start = Prepared(view)
    OBVIOUS
  <2>5. b = AfterPlace(a, view, all, p + 1)
    BY <2>1, <2>3, ObservedEquation
  <2>6. /\ a \in ReplayStates /\ EndIsCovered(a)
        /\ a.receipts = start.receipts /\ a.persisted = start.persisted /\ a.owner = start.owner
        /\ Sees(view) => a.manifest = start.manifest
        /\ \A n \in DOMAIN all : InView(view, all[n]) /\ all[n].place <= p => RowObserved(a, all[n])
    BY <2>2, <2>3, <2>4 DEF ObservedUpTo
  <2>7. Sees(view) => start.manifest # Unset
    BY <2>4, PreparedTrue
  <2>8. CASE /\ b = a /\ \A n \in DOMAIN all : all[n].place = p + 1 => ~InView(view, all[n])
    <3>1. \A n \in DOMAIN all : InView(view, all[n]) /\ all[n].place <= p + 1 => all[n].place <= p
      BY <1>1, <2>8
    <3>2. \A n \in DOMAIN all : InView(view, all[n]) /\ all[n].place <= p + 1 => RowObserved(b, all[n])
      BY <2>6, <2>8, <3>1
    <3> QED
      BY <2>3, <2>4, <2>6, <2>8, <3>2 DEF ObservedUpTo
  <2>9. CASE \E n \in DOMAIN all : /\ all[n].place = p + 1 /\ b = Observe(a, all[n])
                                   /\ \A m \in DOMAIN all : all[m].place = p + 1 => m = n
    <3>1. PICK n \in DOMAIN all : /\ all[n].place = p + 1 /\ b = Observe(a, all[n])
                                  /\ \A m \in DOMAIN all : all[m].place = p + 1 => m = n
      BY <2>9
    <3>2. PICK e \in ReplayRows : e = all[n]
      BY <1>1
    <3>3. /\ b \in ReplayStates /\ MoreWarnings(a, b)
          /\ b.receipts = a.receipts /\ b.persisted = a.persisted /\ b.owner = a.owner
          /\ a.manifest # Unset => b.manifest = a.manifest
          /\ EndIsCovered(b) /\ RowObserved(b, e)
      BY <2>6, <3>1, <3>2, ObserveKeeps DEF RowObserved
    <3>4. ASSUME NEW m \in DOMAIN all, InView(view, all[m]), all[m].place <= p + 1 PROVE RowObserved(b, all[m])
      <4>1. CASE all[m].place = p + 1
        BY <3>1, <3>2, <3>3, <4>1
      <4>2. CASE all[m].place # p + 1
        <5>1. all[m].place <= p /\ all[m] \in ReplayRows
          BY <1>1, <3>4, <4>2
        <5>2. RowObserved(a, all[m])
          BY <2>6, <3>4, <5>1
        <5> QED
          BY <2>6, <3>3, <5>1, <5>2, RowStaysObserved
      <4> QED
        BY <4>1, <4>2
    <3> QED
      BY <2>3, <2>4, <2>6, <2>7, <3>3, <3>4 DEF ObservedUpTo
  <2> QED
    BY <2>5, <2>8, <2>9, OnePlace
<1>4. MaxPlace \in Nat
  BY ReplayAssumption
<1>5. MaxPlace \in Good
  <2> HIDE DEF Good
  <2>1. \A p \in Nat : p \in Good => p + 1 \in Good
    BY <1>3
  <2> QED
    BY <1>2, <1>4, <2>1, SetInduction
<1> QED
  BY <1>4, <1>5

\* The first rows were received.
ReceivedUpTo(view, all, n) ==
  LET state == Received(view, all)[n]  start == Observed(view, all)[MaxPlace] IN
    /\ state \in ReplayStates /\ ReceiptsOwned(state)
    /\ MoreWarnings(start, state) /\ StandsIn(start, state)
    /\ state.run = start.run /\ state.persisted = start.persisted /\ state.manifest = start.manifest
    /\ \A m \in 1 .. n : IsReceipt(all[m]) /\ InView(view, all[m]) => RowReceived(state, all[m])

LEMMA RowStaysReceived ==
  ASSUME NEW a \in ReplayStates, NEW b \in ReplayStates, NEW e \in ReplayRows, IsReceipt(e),
         RowReceived(a, e), MoreWarnings(a, b), StandsIn(a, b)
  PROVE  RowReceived(b, e)
<1>1. Warned(a, e.place) => Warned(b, e.place)
  BY Stated DEF MoreWarnings
<1>2. e.body.receipt \in ReceiptIds
  BY BodyFields DEF IsReceipt, ReplayRows
<1> QED
  BY <1>1, <1>2 DEF RowReceived, StandsIn

LEMMA ReceivedTrue ==
  ASSUME ReplayInv, NEW view \in Views, NEW all, ReplayLog(all)
  PROVE  \A n \in 0 .. Len(all) : ReceivedUpTo(view, all, n)
<1> DEFINE Good == {n \in Nat : n <= Len(all) => ReceivedUpTo(view, all, n)}
<1>1. /\ Len(all) \in Nat /\ DOMAIN all = 1 .. Len(all)
      /\ \A n \in DOMAIN all : all[n] \in ReplayRows
  BY DEF ReplayLog
<1>2. PICK start : start = Observed(view, all)[MaxPlace]
  OBVIOUS
<1>3. /\ start \in ReplayStates /\ start.receipts = Prepared(view).receipts
      /\ start.persisted = Prepared(view).persisted /\ start.owner = Prepared(view).owner
      /\ Sees(view) => start.manifest = Prepared(view).manifest
  BY <1>2, ObservedTrue DEF ObservedUpTo
<1>4. ReceiptsOwned(start)
  <2>1. PICK p : p = Prepared(view)
    OBVIOUS
  <2>2. ReceiptsOwned(p) /\ p.persisted = {r \in ReceiptIds : Sees(view) /\ kept[r] # Unset}
        /\ (Sees(view) => p.receipts = kept)
    BY <2>1, PreparedTrue
  <2>3. ~Sees(view) => p.receipts = [r \in ReceiptIds |-> Unset]
    BY <2>1 DEF Prepared
  <2>4. \A r \in ReceiptIds : p.receipts[r] # Unset => r \in p.persisted
    BY <2>2, <2>3
  <2> QED
    BY <1>3, <2>1, <2>2, <2>4 DEF ReceiptsOwned
<1>5. 0 \in Good
  <2>1. Received(view, all)[0] = start
    BY <1>1, <1>2, ReceivedEquation
  <2>2. StandsIn(start, start) /\ MoreWarnings(start, start)
    BY <1>3, StandsStill DEF MoreWarnings
  <2>3. 1 .. 0 = {}
    OBVIOUS
  <2>4. ReceivedUpTo(view, all, 0)
    BY <1>2, <1>3, <1>4, <2>1, <2>2, <2>3 DEF ReceivedUpTo
  <2> QED
    BY <2>4
<1>6. ASSUME NEW a \in ReplayStates, ReceiptsOwned(a), NEW e \in ReplayRows, IsReceipt(e),
             NEW b, b = Receive(a, e)
      PROVE  /\ b \in ReplayStates /\ ReceiptsOwned(b) /\ MoreWarnings(a, b) /\ StandsIn(a, b)
             /\ b.run = a.run /\ b.persisted = a.persisted /\ b.manifest = a.manifest
             /\ RowReceived(b, e)
  BY <1>6, ReceiveKeeps
<1>7. ASSUME NEW n \in Nat, n \in Good PROVE n + 1 \in Good
  <2> SUFFICES ASSUME n + 1 <= Len(all) PROVE ReceivedUpTo(view, all, n + 1)
    OBVIOUS
  <2>1. n <= Len(all) /\ n + 1 \in 1 .. Len(all) /\ (n + 1) - 1 = n
    BY <1>1
  <2>2. ReceivedUpTo(view, all, n)
    BY <1>7, <2>1
  <2>3. PICK a, b : a = Received(view, all)[n] /\ b = Received(view, all)[n + 1]
    OBVIOUS
  <2>4. PICK e \in ReplayRows : e = all[n + 1]
    BY <1>1, <2>1
  <2>5. b = AfterArrival(a, view, e)
    BY <1>1, <2>1, <2>3, <2>4, ReceivedEquation
  <2>6. /\ a \in ReplayStates /\ ReceiptsOwned(a)
        /\ MoreWarnings(start, a) /\ StandsIn(start, a)
        /\ a.run = start.run /\ a.persisted = start.persisted /\ a.manifest = start.manifest
        /\ \A m \in 1 .. n : IsReceipt(all[m]) /\ InView(view, all[m]) => RowReceived(a, all[m])
    BY <1>2, <2>2, <2>3 DEF ReceivedUpTo
  <2>7. /\ b \in ReplayStates /\ ReceiptsOwned(b)
        /\ MoreWarnings(a, b) /\ StandsIn(a, b)
        /\ b.run = a.run /\ b.persisted = a.persisted /\ b.manifest = a.manifest
        /\ IsReceipt(e) /\ InView(view, e) => RowReceived(b, e)
    <3>1. CASE IsReceipt(e) /\ InView(view, e)
      <4>1. b = Receive(a, e)
        BY <2>5, <3>1 DEF AfterArrival
      <4>2. a \in ReplayStates /\ ReceiptsOwned(a) /\ IsReceipt(e)
        BY <2>6, <3>1
      <4> QED
        BY <1>6, <4>1, <4>2
    <3>2. CASE ~(IsReceipt(e) /\ InView(view, e))
      <4>1. b = a
        BY <2>5, <3>2 DEF AfterArrival
      <4> QED
        BY <2>6, <3>2, <4>1, StandsStill DEF MoreWarnings
    <3> QED
      BY <3>1, <3>2
  <2>8. MoreWarnings(start, b)
    BY <2>6, <2>7 DEF MoreWarnings
  <2>9. StandsIn(start, b)
    BY <1>3, <2>6, <2>7, StandsOn
  <2>10. ASSUME NEW m \in 1 .. n + 1, IsReceipt(all[m]), InView(view, all[m]) PROVE RowReceived(b, all[m])
    <3>1. CASE m = n + 1
      BY <2>4, <2>7, <2>10, <3>1
    <3>2. CASE m # n + 1
      <4>1. m \in 1 .. n /\ m \in DOMAIN all
        BY <1>1, <2>1, <3>2
      <4>2. RowReceived(a, all[m]) /\ all[m] \in ReplayRows
        BY <1>1, <2>6, <2>10, <4>1
      <4> QED
        BY <2>6, <2>7, <2>10, <4>2, RowStaysReceived
    <3> QED
      BY <3>1, <3>2
  <2>11. b.run = start.run /\ b.persisted = start.persisted /\ b.manifest = start.manifest
    BY <2>6, <2>7
  <2> QED
    BY <1>2, <2>3, <2>7, <2>8, <2>9, <2>10, <2>11 DEF ReceivedUpTo
<1> HIDE DEF Good
<1>8. \A n \in Nat : n \in Good
  BY <1>5, <1>7, SetInduction
<1> QED
  BY <1>1, <1>8 DEF Good

\* What is shown in the end.
LEMMA ShownTrue ==
  ASSUME ReplayInv, NEW view \in Views, NEW shown, shown = Shown(view, arrivals)
  PROVE  /\ shown \in ReplayStates /\ ReceiptsOwned(shown) /\ EndIsCovered(shown)
         /\ shown.persisted = {r \in ReceiptIds : Sees(view) /\ kept[r] # Unset}
         /\ Sees(view) => shown.manifest = [task |-> Home, content |-> saved]
         /\ Sees(view) => \A r \in ReceiptIds : kept[r] # Unset => shown.receipts[r] = kept[r]
         /\ \A n \in DOMAIN arrivals : InView(view, arrivals[n]) =>
              /\ RowObserved(shown, arrivals[n])
              /\ IsReceipt(arrivals[n]) => RowReceived(shown, arrivals[n])
<1>1. /\ ReplayLog(arrivals) /\ Len(arrivals) \in Nat /\ DOMAIN arrivals = 1 .. Len(arrivals)
      /\ \A n \in DOMAIN arrivals : arrivals[n] \in ReplayRows
  BY DEF ReplayInv, ReplayLog
<1>2. PICK seen : seen = Observed(view, arrivals)[MaxPlace]
  OBVIOUS
<1>3. PICK start : start = Prepared(view)
  OBVIOUS
<1>4. /\ seen \in ReplayStates /\ EndIsCovered(seen)
      /\ seen.receipts = start.receipts /\ seen.persisted = start.persisted /\ seen.owner = start.owner
      /\ Sees(view) => seen.manifest = start.manifest
      /\ \A n \in DOMAIN arrivals :
           InView(view, arrivals[n]) /\ arrivals[n].place <= MaxPlace => RowObserved(seen, arrivals[n])
  BY <1>1, <1>2, <1>3, ObservedTrue DEF ObservedUpTo
<1>5. ReceivedUpTo(view, arrivals, Len(arrivals))
  <2>1. Len(arrivals) \in 0 .. Len(arrivals)
    BY <1>1
  <2> QED
    BY <1>1, <2>1, ReceivedTrue
<1>6. /\ shown \in ReplayStates /\ ReceiptsOwned(shown)
      /\ MoreWarnings(seen, shown) /\ StandsIn(seen, shown)
      /\ shown.run = seen.run /\ shown.persisted = seen.persisted /\ shown.manifest = seen.manifest
      /\ \A m \in 1 .. Len(arrivals) :
           IsReceipt(arrivals[m]) /\ InView(view, arrivals[m]) => RowReceived(shown, arrivals[m])
  BY <1>2, <1>5 DEF ReceivedUpTo, Shown
<1>7. /\ start.persisted = {r \in ReceiptIds : Sees(view) /\ kept[r] # Unset}
      /\ Sees(view) => start.manifest = [task |-> Home, content |-> saved] /\ start.receipts = kept
  BY <1>3, PreparedTrue
<1>8. \A p : Warned(seen, p) => Warned(shown, p)
  BY <1>4, <1>6, Stated DEF MoreWarnings
<1>9. EndIsCovered(shown)
  <2>1. (\E i \in seen.attention : i.id = CoverageOf("run.ended")) => \E i \in shown.attention : i.id = CoverageOf("run.ended")
    BY <1>6 DEF MoreWarnings, Warnings
  <2> QED
    BY <1>4, <1>6, <1>8, <2>1 DEF EndIsCovered
<1>10. ASSUME Sees(view), NEW r \in ReceiptIds, kept[r] # Unset PROVE shown.receipts[r] = kept[r]
  <2>1. r \in seen.persisted /\ seen.receipts[r] = kept[r]
    BY <1>4, <1>7, <1>10
  <2> QED
    BY <1>6, <1>10, <2>1 DEF StandsIn
<1>11. ASSUME NEW n \in DOMAIN arrivals, InView(view, arrivals[n])
       PROVE  /\ RowObserved(shown, arrivals[n])
              /\ IsReceipt(arrivals[n]) => RowReceived(shown, arrivals[n])
  <2>1. arrivals[n] \in ReplayRows
    BY <1>1
  <2>2. arrivals[n].place <= MaxPlace
    BY <2>1, ReplayAssumption DEF ReplayRows, Places
  <2>3. RowObserved(seen, arrivals[n])
    BY <1>4, <1>11, <2>2
  <2>4. RowObserved(shown, arrivals[n])
    BY <1>4, <1>6, <2>1, <2>3, RowStaysObserved
  <2> QED
    BY <1>1, <1>6, <1>11, <2>4
<1> QED
  BY <1>4, <1>6, <1>7, <1>9, <1>10, <1>11

LEMMA ShownSound == ReplayInv => ReplaySound
<1> SUFFICES ASSUME ReplayInv, NEW view \in Views PROVE VouchesForNothing(view) /\ NothingDropped(view)
  BY DEF ReplaySound
<1>1. PICK shown : shown = Shown(view, arrivals)
  OBVIOUS
<1>2. /\ shown \in ReplayStates /\ ReceiptsOwned(shown) /\ EndIsCovered(shown)
      /\ shown.persisted = {r \in ReceiptIds : Sees(view) /\ kept[r] # Unset}
      /\ Sees(view) => shown.manifest = [task |-> Home, content |-> saved]
      /\ Sees(view) => \A r \in ReceiptIds : kept[r] # Unset => shown.receipts[r] = kept[r]
      /\ \A n \in DOMAIN arrivals : InView(view, arrivals[n]) =>
           /\ RowObserved(shown, arrivals[n])
           /\ IsReceipt(arrivals[n]) => RowReceived(shown, arrivals[n])
  BY <1>1, ShownTrue
<1>3. ASSUME NEW r \in ReceiptIds, ~(Sees(view) /\ kept[r] # Unset), shown.receipts[r] # Unset
      PROVE  /\ shown.receipts[r].status \in {"unknown", "pending", "expired"}
             /\ shown.receipts[r].stage # "verified-complete"
             /\ shown.receipts[r].status = "pending" =>
                  /\ shown.manifest.content = shown.receipts[r].manifest /\ shown.receipts[r].target = "target"
                  /\ \A q \in ReceiptIds \ {r} :
                       shown.receipts[q] # Unset /\ shown.receipts[q].nonce = shown.receipts[r].nonce
                         => shown.receipts[q].status = "unknown"
  <2>1. r \notin shown.persisted
    BY <1>2, <1>3
  <2>2. /\ shown.receipts[r].status # "unknown" => shown.owner[shown.receipts[r].nonce] = r
        /\ shown.receipts[r].status \in {"unknown", "pending", "expired"}
        /\ shown.receipts[r].stage # "verified-complete"
        /\ shown.receipts[r].status = "pending" =>
             /\ shown.manifest.content = shown.receipts[r].manifest /\ shown.receipts[r].target = "target"
    BY <1>2, <1>3, <2>1 DEF ReceiptsOwned
  <2>3. \A q \in ReceiptIds : shown.receipts[q] # Unset /\ shown.receipts[q].status # "unknown"
                                => shown.owner[shown.receipts[q].nonce] = q
    BY <1>2 DEF ReceiptsOwned
  <2> QED
    BY <2>2, <2>3
<1>4. VouchesForNothing(view)
  BY <1>1, <1>2, <1>3 DEF VouchesForNothing
<1>5. NothingDropped(view)
  BY <1>1, <1>2 DEF NothingDropped, RowObserved, RowReceived, EndIsCovered
<1> QED
  BY <1>4, <1>5

\* Two logs of which one begins with the other are received alike so far, if
\* the manifest is kept, however differently they are observed.
LEMMA ReceivedAlike ==
  ASSUME ReplayInv, NEW view \in Views, Sees(view),
         NEW all, ReplayLog(all), NEW more, ReplayLog(more), Len(all) <= Len(more),
         \A n \in 1 .. Len(all) : more[n] = all[n]
  PROVE  \A n \in 0 .. Len(all) : OfReceipts(Received(view, all)[n]) = OfReceipts(Received(view, more)[n])
<1> DEFINE Good == {n \in Nat : n <= Len(all) =>
                      OfReceipts(Received(view, all)[n]) = OfReceipts(Received(view, more)[n])}
<1>1. /\ Len(all) \in Nat /\ Len(more) \in Nat
      /\ \A n \in 1 .. Len(all) : all[n] \in ReplayRows
  BY DEF ReplayLog
<1>2. 0 \in Good
  <2>1. /\ Received(view, all)[0] = Observed(view, all)[MaxPlace]
        /\ Received(view, more)[0] = Observed(view, more)[MaxPlace]
    BY <1>1, ReceivedEquation
  <2>2. PICK a, b : a = Observed(view, all)[MaxPlace] /\ b = Observed(view, more)[MaxPlace]
    OBVIOUS
  <2>3. PICK start : start = Prepared(view)
    OBVIOUS
  <2>4. ASSUME NEW rows, ReplayLog(rows), NEW s, s = Observed(view, rows)[MaxPlace]
        PROVE  /\ s.receipts = start.receipts /\ s.persisted = start.persisted
               /\ s.owner = start.owner /\ s.manifest = start.manifest
    BY <2>3, <2>4, ObservedTrue DEF ObservedUpTo
  <2>5. /\ a.receipts = start.receipts /\ a.persisted = start.persisted
        /\ a.owner = start.owner /\ a.manifest = start.manifest
    BY <2>2, <2>4
  <2>6. /\ b.receipts = start.receipts /\ b.persisted = start.persisted
        /\ b.owner = start.owner /\ b.manifest = start.manifest
    BY <2>2, <2>4
  <2> QED
    BY <2>1, <2>2, <2>5, <2>6 DEF OfReceipts
<1>3. ASSUME NEW n \in Nat, n \in Good PROVE n + 1 \in Good
  <2> SUFFICES ASSUME n + 1 <= Len(all)
               PROVE  OfReceipts(Received(view, all)[n + 1]) = OfReceipts(Received(view, more)[n + 1])
    OBVIOUS
  <2>1. /\ n \in 0 .. Len(all) /\ n \in 0 .. Len(more) /\ (n + 1) - 1 = n
        /\ n + 1 \in 1 .. Len(all) /\ n + 1 \in 1 .. Len(more)
    BY <1>1
  <2>2. PICK a, b : a = Received(view, all)[n] /\ b = Received(view, more)[n]
    OBVIOUS
  <2>3. OfReceipts(a) = OfReceipts(b)
    BY <1>1, <1>3, <2>1, <2>2
  <2>4. PICK e \in ReplayRows : e = all[n + 1] /\ e = more[n + 1]
    BY <1>1, <2>1
  <2>5. Received(view, all)[n + 1] = AfterArrival(a, view, e)
    BY <1>1, <2>1, <2>2, <2>4, ReceivedEquation
  <2>6. Received(view, more)[n + 1] = AfterArrival(b, view, e)
    BY <1>1, <2>1, <2>2, <2>4, ReceivedEquation
  <2>7. a \in ReplayStates /\ ReceiptsOwned(a)
    BY <2>1, <2>2, ReceivedTrue DEF ReceivedUpTo
  <2>8. b \in ReplayStates /\ ReceiptsOwned(b)
    BY <2>1, <2>2, ReceivedTrue DEF ReceivedUpTo
  <2>9. CASE IsReceipt(e) /\ InView(view, e)
    <3>1. OfReceipts(Receive(a, e)) = OfReceipts(Receive(b, e))
      BY <2>3, <2>7, <2>8, <2>9, ReceiveSame
    <3> QED
      BY <2>5, <2>6, <2>9, <3>1 DEF AfterArrival
  <2>10. CASE ~(IsReceipt(e) /\ InView(view, e))
    BY <2>3, <2>5, <2>6, <2>10 DEF AfterArrival
  <2> QED
    BY <2>9, <2>10
<1> HIDE DEF Good
<1>4. \A n \in Nat : n \in Good
  BY <1>2, <1>3, SetInduction
<1> QED
  BY <1>1, <1>4 DEF Good

LEMMA ReceiptsStand == ReplayInv => IdentitiesStand
<1> SUFFICES ASSUME ReplayInv, saved # Unset, arrivals # <<>>, NEW view \in Views \ {"away"}, NEW r \in ReceiptIds,
                    Shown(view, SubSeq(arrivals, 1, Len(arrivals) - 1)).receipts[r] # Unset
             PROVE  LET before == Shown(view, SubSeq(arrivals, 1, Len(arrivals) - 1)).receipts
                        after == Shown(view, arrivals).receipts IN
                      /\ after[r] # Unset /\ Identity(after[r]) = Identity(before[r])
                      /\ StageOrder(after[r].stage) >= StageOrder(before[r].stage)
  BY DEF IdentitiesStand
<1>1. view \in Views /\ Sees(view)
  BY DEF Sees
<1>2. PICK front : front = SubSeq(arrivals, 1, Len(arrivals) - 1)
  OBVIOUS
<1>3. PICK last : last = Len(arrivals)
  OBVIOUS
<1>4. /\ ReplayLog(arrivals) /\ arrivals \in Seq(ReplayRows) /\ last \in Nat \ {0}
      /\ DOMAIN arrivals = 1 .. last
  BY <1>3 DEF ReplayInv, ReplayLog
<1>5. /\ front \in Seq(ReplayRows) /\ Len(front) = last - 1
      /\ \A n \in 1 .. last - 1 : front[n] = arrivals[n]
  BY <1>2, <1>3, <1>4
<1>6. ReplayLog(front)
  <2>1. DOMAIN front = 1 .. last - 1 /\ DOMAIN front \subseteq DOMAIN arrivals
    BY <1>4, <1>5
  <2> QED
    BY <1>4, <1>5, <2>1 DEF ReplayLog
<1>7. PICK before : before = Received(view, front)[last - 1]
  OBVIOUS
<1>8. PICK a : a = Received(view, arrivals)[last - 1]
  OBVIOUS
<1>9. PICK b : b = Received(view, arrivals)[last]
  OBVIOUS
<1>10. before = Shown(view, front) /\ b = Shown(view, arrivals)
  BY <1>3, <1>5, <1>7, <1>9 DEF Shown
<1>11. OfReceipts(before) = OfReceipts(a)
  <2>1. last - 1 \in 0 .. Len(front) /\ Len(front) <= Len(arrivals)
        /\ \A n \in 1 .. Len(front) : arrivals[n] = front[n]
    BY <1>3, <1>4, <1>5
  <2> QED
    BY <1>1, <1>4, <1>6, <1>7, <1>8, <2>1, ReceivedAlike
<1>12. a \in ReplayStates /\ ReceiptsOwned(a)
  <2>1. last - 1 \in 0 .. Len(arrivals)
    BY <1>3, <1>4
  <2> QED
    BY <1>1, <1>4, <1>8, <2>1, ReceivedTrue DEF ReceivedUpTo
<1>13. StandsIn(a, b)
  <2>1. PICK e \in ReplayRows : e = arrivals[last]
    BY <1>4
  <2>2. b = AfterArrival(a, view, e)
    BY <1>3, <1>4, <1>8, <1>9, <2>1, ReceivedEquation
  <2>3. CASE IsReceipt(e) /\ InView(view, e)
    <3>1. b = Receive(a, e)
      BY <2>2, <2>3 DEF AfterArrival
    <3> QED
      BY <1>12, <2>3, <3>1, ReceiveKeeps
  <2>4. CASE ~(IsReceipt(e) /\ InView(view, e))
    BY <1>12, <2>2, <2>4, StandsStill DEF AfterArrival
  <2> QED
    BY <2>3, <2>4
<1>14. before.receipts = a.receipts
  BY <1>11 DEF OfReceipts
<1>15. before.receipts[r] # Unset
  BY <1>2, <1>10
<1>16. /\ b.receipts[r] # Unset /\ Identity(b.receipts[r]) = Identity(before.receipts[r])
       /\ StageOrder(b.receipts[r].stage) >= StageOrder(before.receipts[r].stage)
  BY <1>13, <1>14, <1>15 DEF StandsIn
<1> QED
  BY <1>2, <1>10, <1>16

-----------------------------------------------------------------------------
(* ReceiptReplay: the theorems                                               *)

LEMMA RowTyped ==
  ASSUME NEW p \in Places, NEW o \in Observations
  PROVE  Row(p, o) \in ReplayRows /\ Row(p, o).place = p
<1>1. o \in [task : {Home, "away"}, kind : {"source-log", "agent-report"}, coverage : {"full", "partial"}, body : RowBodies]
  BY ReplayAssumption
<1> QED
  BY <1>1 DEF Row, ReplayRows

LEMMA ArriveKeeps ==
  ASSUME ReplayInv, NEW p \in Places, NEW o \in Observations, Arrive(p, o)
  PROVE  ReplayInv'
<1>1. PICK row : row = Row(p, o)
  OBVIOUS
<1>2. row \in ReplayRows /\ row.place = p
  BY <1>1, RowTyped
<1>3. arrivals' = Append(arrivals, row) /\ \A n \in DOMAIN arrivals : arrivals[n].place # p
  BY <1>1 DEF Arrive
<1>4. arrivals \in Seq(ReplayRows) /\ \A m, n \in DOMAIN arrivals : arrivals[m].place = arrivals[n].place => m = n
  BY DEF ReplayInv, ReplayLog
<1>5. PICK len \in Nat : len = Len(arrivals) /\ DOMAIN arrivals = 1 .. len
  BY <1>4
<1>6. /\ arrivals' \in Seq(ReplayRows) /\ DOMAIN arrivals' = 1 .. len + 1 /\ arrivals'[len + 1] = row
      /\ \A n \in 1 .. len : arrivals'[n] = arrivals[n]
  BY <1>2, <1>3, <1>4, <1>5
<1>7. \A n \in 1 .. len + 1 : n \in 1 .. len \/ n = len + 1
  OBVIOUS
<1>8. ReplayLog(arrivals)'
  BY <1>2, <1>3, <1>4, <1>5, <1>6, <1>7 DEF ReplayLog
<1> QED
  BY <1>8 DEF ReplayInv, Arrive

LEMMA SaveReceiptKeeps ==
  ASSUME ReplayInv, NEW id \in ReceiptIds, SaveReceipt(id)
  PROVE  ReplayInv'
<1>1. PICK input \in ReceiptInputs : input = RequestOf[id]
  BY ReplayAssumption
<1>2. PICK receipt : receipt = Receipt(input, "received", IF input.expires = "past" THEN "expired" ELSE "pending")
  OBVIOUS
<1>3. /\ kept' = [kept EXCEPT ![id] = receipt] /\ UNCHANGED <<arrivals, saved>>
      /\ \A r \in ReceiptIds : kept[r] # Unset => kept[r].nonce # input.nonce
  BY <1>1, <1>2 DEF SaveReceipt
<1>4. receipt \in ReceiptRecords /\ receipt.nonce = input.nonce /\ receipt.status \in {"pending", "expired"}
  BY <1>2, StageOrders DEF Receipt, ReceiptRecords, ReceiptInputs
<1>5. /\ kept \in [ReceiptIds -> ReceiptRecords \cup {Unset}]
      /\ \A r \in ReceiptIds : kept[r] # Unset => kept[r].status \in {"pending", "expired", "confirmed"}
      /\ \A q, r \in ReceiptIds : kept[q] # Unset /\ kept[r] # Unset /\ kept[q].nonce = kept[r].nonce => q = r
  BY DEF ReplayInv
<1>6. /\ kept' \in [ReceiptIds -> ReceiptRecords \cup {Unset}] /\ kept'[id] = receipt
      /\ \A r \in ReceiptIds \ {id} : kept'[r] = kept[r]
  BY <1>3, <1>4, <1>5
<1>7. \A r \in ReceiptIds : kept'[r] # Unset => kept'[r].status \in {"pending", "expired", "confirmed"}
  BY <1>4, <1>5, <1>6
<1>8. \A q, r \in ReceiptIds : kept'[q] # Unset /\ kept'[r] # Unset /\ kept'[q].nonce = kept'[r].nonce => q = r
  BY <1>3, <1>4, <1>5, <1>6
<1> QED
  BY <1>3, <1>6, <1>7, <1>8 DEF ReplayInv, ReplayLog

LEMMA ConfirmKeeps ==
  ASSUME ReplayInv, NEW id \in ReceiptIds, Confirm(id)
  PROVE  ReplayInv'
<1>1. PICK stage \in {"received", "verified-complete"} :
        kept' = [kept EXCEPT ![id].status = "confirmed", ![id].stage = stage]
  BY DEF Confirm
<1>2. /\ kept \in [ReceiptIds -> ReceiptRecords \cup {Unset}]
      /\ \A r \in ReceiptIds : kept[r] # Unset => kept[r].status \in {"pending", "expired", "confirmed"}
      /\ \A q, r \in ReceiptIds : kept[q] # Unset /\ kept[r] # Unset /\ kept[q].nonce = kept[r].nonce => q = r
  BY DEF ReplayInv
<1>3. kept[id] \in ReceiptRecords
  BY <1>2 DEF Confirm
<1>4. PICK receipt : receipt = [[kept[id] EXCEPT !.status = "confirmed"] EXCEPT !.stage = stage]
  OBVIOUS
<1>5. receipt \in ReceiptRecords /\ receipt.nonce = kept[id].nonce /\ receipt.status = "confirmed"
  BY <1>3, <1>4, StageOrders DEF ReceiptRecords
<1>6. kept' = [kept EXCEPT ![id] = receipt]
  BY <1>1, <1>2, <1>3, <1>4
<1>7. /\ kept' \in [ReceiptIds -> ReceiptRecords \cup {Unset}] /\ kept'[id] = receipt
      /\ \A r \in ReceiptIds \ {id} : kept'[r] = kept[r]
  BY <1>2, <1>5, <1>6
<1>8. \A r \in ReceiptIds : kept'[r] # Unset => kept'[r].status \in {"pending", "expired", "confirmed"}
  BY <1>2, <1>5, <1>7
<1>9. kept[id] # Unset
  BY DEF Confirm
<1>10. \A q, r \in ReceiptIds : kept'[q] # Unset /\ kept'[r] # Unset /\ kept'[q].nonce = kept'[r].nonce => q = r
  BY <1>2, <1>5, <1>7, <1>9
<1> QED
  BY <1>7, <1>8, <1>10 DEF ReplayInv, ReplayLog, Confirm

\* The rows keep places of their own, and the receipts that are kept nonces of
\* their own.
THEOREM ReplayInvariance == ReplaySpec => []ReplayInv
<1>1. ReplayInit => ReplayInv
  <2> SUFFICES ASSUME ReplayInit PROVE ReplayInv
    OBVIOUS
  <2>1. ReplayLog(arrivals)
    <3>1. CASE arrivals = <<>>
      BY <3>1 DEF ReplayLog
    <3>2. CASE \E p \in Places, t \in {Home, "away"} : arrivals = <<Unreadable(p, t)>>
      <4>1. PICK p \in Places, t \in {Home, "away"} : arrivals = <<Unreadable(p, t)>>
        BY <3>2
      <4>2. [type |-> "invalid"] \in RowBodies
        BY DEF RowBodies
      <4>3. Unreadable(p, t) \in ReplayRows
        BY <4>2 DEF Unreadable, ReplayRows
      <4>4. arrivals \in Seq(ReplayRows) /\ DOMAIN arrivals = {1}
        BY <4>1, <4>3
      <4> QED
        BY <4>4 DEF ReplayLog
    <3> QED
      BY <3>1, <3>2 DEF ReplayInit
  <2> QED
    BY <2>1 DEF ReplayInit, ReplayInv
<1>2. ReplayInv /\ [ReplayNext]_replayVars => ReplayInv'
  <2> SUFFICES ASSUME ReplayInv, [ReplayNext]_replayVars PROVE ReplayInv'
    OBVIOUS
  <2>1. ASSUME NEW m \in Manifests, SaveManifest(m) PROVE ReplayInv'
    BY <2>1 DEF SaveManifest, ReplayInv, ReplayLog
  <2>2. CASE UNCHANGED replayVars
    BY <2>2 DEF replayVars, ReplayInv, ReplayLog
  <2> QED
    BY <2>1, <2>2, ArriveKeeps, SaveReceiptKeeps, ConfirmKeeps DEF ReplayNext
<1> QED
  BY <1>1, <1>2, PTL DEF ReplaySpec

\* A replayed log vouches for nothing, drops nothing without a warning, and a
\* later arrival takes no receipt away, whatever the rows say and in whatever
\* order they come.
THEOREM TrustedReplay == ReplaySpec => []ReplayTrusted
<1>1. ReplayInv => ReplayTrusted
  BY ShownSound, ReceiptsStand DEF ReplayTrusted
<1> QED
  BY <1>1, ReplayInvariance, PTL
=============================================================================
