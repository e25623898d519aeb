-------------------------- MODULE ClaimLedgerProofs --------------------------
(***************************************************************************)
(* Proofs about ClaimLedger, for every set of series, dates, clocks and    *)
(* submissions.  OneBelief is not inductive: that a closed interval ends   *)
(* no later than a newly accepted version begins follows from LatestActive *)
(* (a slot's last version is active), and names a row only while           *)
(* identifiers are unique.                                                 *)
(***************************************************************************)
EXTENDS ClaimLedger, TLAPS, FiniteSetTheorems

\* An identifier names one row.
UniqueIds == \A v, w \in versions : v.id = w.id => v = w

\* An interval is closed only on a stored row.
ClosedIsStored ==
  \A c \in ClaimId : superseded_at[c] # NULL => \E v \in versions : v.id = c

\* Behind every closed version of a slot stands an active one, recorded at or
\* after its end.
LatestActive ==
  \A v \in versions : superseded_at[v.id] # NULL =>
    \E w \in versions : SameSlot(v, w) /\ Active(w) /\ superseded_at[v.id] <= w.recorded_at

IInv == TypeOK /\ UniqueIds /\ ClosedIsStored /\ LatestActive /\ OneBelief /\ NoGap

-----------------------------------------------------------------------------
LEMMA VersionFields ==
  ASSUME NEW v \in Version
  PROVE  /\ v.id \in ClaimId /\ v.series \in Series /\ v.recorded_at \in Time
         /\ v.recorded_at \in Nat /\ v.recorded_at # NULL
         /\ v.dependencies \in SUBSET ClaimId /\ v.evidence \in SUBSET Link
BY ClockAssumption DEF Version

\* Storing a lineage row touches no claim.
LEMMA StoreFacts ==
  ASSUME TypeOK, NEW a \in Artifact, NEW t \in ArrivalTimes, Store(a, t)
  PROVE  TypeOK' /\ UNCHANGED ledger
BY ClockAssumption DEF TypeOK, Store, ledger

\* Every step stores a lineage row, admits a submitted version, or stutters.
LEMMA NextCases ==
  ASSUME [Next]_vars
  PROVE  \/ \E a \in Artifact, t \in ArrivalTimes : Store(a, t)
         \/ \E v \in Submission : InsertClaim(v)
         \/ UNCHANGED vars
BY DEF Next, Artifact, AddSourceDocument, AddIngestionRun, AddSourceRecord,
       AddEntity, AddClaimSeries

\* The effect of insert_claim on superseded_at, row by row.
LEMMA InsertEffect ==
  ASSUME TypeOK, UniqueIds, ClosedIsStored, NEW v \in Submission, InsertClaim(v)
  PROVE  /\ v \in Version /\ v \notin versions
         /\ versions' = versions \cup {v}
         /\ \A w \in versions : w.id # v.id
         /\ superseded_at' \in [ClaimId -> Time \cup {NULL}]
         /\ superseded_at'[v.id] = NULL
         /\ \A w \in versions :
              superseded_at'[w.id] =
                IF Supersedes(v, w) THEN v.recorded_at ELSE superseded_at[w.id]
<1>1. v \in Version
  BY ShapeAssumption
<1>2. /\ versions' = versions \cup {v}
      /\ \A w \in versions : w.id # v.id
      /\ superseded_at' = [c \in ClaimId |->
           IF \E w \in versions : w.id = c /\ Supersedes(v, w)
             THEN v.recorded_at ELSE superseded_at[c]]
  BY DEF InsertClaim
<1>3. superseded_at' \in [ClaimId -> Time \cup {NULL}]
  BY <1>1, <1>2, VersionFields DEF TypeOK
<1>4. superseded_at'[v.id] = NULL
  BY <1>1, <1>2, VersionFields DEF ClosedIsStored
<1>5. ASSUME NEW w \in versions
      PROVE  superseded_at'[w.id] =
               IF Supersedes(v, w) THEN v.recorded_at ELSE superseded_at[w.id]
  <2>1. w.id \in ClaimId
    BY VersionFields DEF TypeOK
  <2>2. (\E x \in versions : x.id = w.id /\ Supersedes(v, x)) <=> Supersedes(v, w)
    BY DEF UniqueIds
  <2>3. QED
    BY <1>2, <2>1, <2>2
<1>6. QED
  BY <1>1, <1>2, <1>3, <1>4, <1>5

-----------------------------------------------------------------------------
LEMMA InitIInv == Init => IInv
BY DEF Init, IInv, TypeOK, UniqueIds, ClosedIsStored, LatestActive, OneBelief, NoGap

\* Admitting a version preserves the invariant: it is later than the active
\* version of its slot, hence later than the end of every closed one.
LEMMA InsertIInv ==
  ASSUME IInv, NEW v \in Submission, InsertClaim(v)
  PROVE  IInv'
<1>. USE DEF IInv
<1>1. /\ v \in Version /\ v \notin versions
      /\ versions' = versions \cup {v}
      /\ \A w \in versions : w.id # v.id
      /\ superseded_at' \in [ClaimId -> Time \cup {NULL}]
      /\ superseded_at'[v.id] = NULL
      /\ \A w \in versions :
           superseded_at'[w.id] =
             IF Supersedes(v, w) THEN v.recorded_at ELSE superseded_at[w.id]
  BY InsertEffect
<1>2. \A w \in versions : w \in Version /\ w.id \in ClaimId /\ w.recorded_at \in Nat
  BY VersionFields DEF TypeOK
<1>3. v.id \in ClaimId /\ v.recorded_at \in Nat /\ v.recorded_at # NULL
  BY <1>1, VersionFields
<1>4. \A w \in versions : superseded_at[w.id] # NULL => superseded_at[w.id] \in Nat
  BY <1>2, ClockAssumption DEF TypeOK
<1>5. TypeOK'
  BY <1>1 DEF TypeOK, InsertClaim
<1>6. UniqueIds'
  BY <1>1 DEF UniqueIds
<1>7. ClosedIsStored'
  <2>1. SUFFICES ASSUME NEW c \in ClaimId, superseded_at'[c] # NULL
                 PROVE  \E w \in versions' : w.id = c
    BY DEF ClosedIsStored
  <2>2. CASE \E w \in versions : w.id = c /\ Supersedes(v, w)
    BY <1>1, <2>2
  <2>3. CASE ~ \E w \in versions : w.id = c /\ Supersedes(v, w)
    <3>1. superseded_at'[c] = superseded_at[c]
      BY <2>3 DEF InsertClaim
    <3>2. QED
      BY <1>1, <2>1, <3>1 DEF ClosedIsStored
  <2>4. QED
    BY <2>2, <2>3
\* Every version of the slot ends by the clock of the new one.
<1>8. \A w \in versions : SameSlot(v, w) =>
        superseded_at'[w.id] # NULL /\ superseded_at'[w.id] <= v.recorded_at
  <2>1. SUFFICES ASSUME NEW w \in versions, SameSlot(v, w)
                 PROVE  superseded_at'[w.id] # NULL /\ superseded_at'[w.id] <= v.recorded_at
    OBVIOUS
  <2>2. CASE Active(w)
    <3>1. Supersedes(v, w)
      BY <2>1, <2>2 DEF InsertClaim, InOrder, Supersedes
    <3>2. QED
      BY <1>1, <1>3, <2>1, <3>1
  <2>3. CASE ~Active(w)
    <3>1. superseded_at'[w.id] = superseded_at[w.id]
      BY <1>1, <2>1, <2>3 DEF Supersedes
    <3>2. PICK x \in versions :
            SameSlot(w, x) /\ Active(x) /\ superseded_at[w.id] <= x.recorded_at
      BY <2>1, <2>3 DEF LatestActive, Active
    <3>3. x.recorded_at < v.recorded_at
      BY <2>1, <3>2 DEF InsertClaim, InOrder, SameSlot
    <3>4. QED
      BY <1>2, <1>3, <1>4, <2>1, <2>3, <3>1, <3>2, <3>3 DEF Active
  <2>4. QED
    BY <2>2, <2>3
\* Versions of other slots are left alone.
<1>9. \A w \in versions : ~SameSlot(v, w) => superseded_at'[w.id] = superseded_at[w.id]
  BY <1>1 DEF Supersedes
<1>10. LatestActive'
  <2>1. SUFFICES ASSUME NEW w \in versions', superseded_at'[w.id] # NULL
                 PROVE  \E x \in versions' :
                          /\ SameSlot(w, x) /\ superseded_at'[x.id] = NULL
                          /\ superseded_at'[w.id] <= x.recorded_at
    BY DEF LatestActive, Active, SameSlot
  <2>2. w \in versions
    BY <1>1, <2>1
  <2>3. CASE SameSlot(v, w)
    BY <1>1, <1>8, <2>2, <2>3 DEF SameSlot
  <2>4. CASE ~SameSlot(v, w)
    <3>1. PICK x \in versions :
            SameSlot(w, x) /\ Active(x) /\ superseded_at[w.id] <= x.recorded_at
      BY <1>9, <2>1, <2>2, <2>4 DEF LatestActive
    <3>2. ~SameSlot(v, x)
      BY <2>4, <3>1 DEF SameSlot
    <3>3. QED
      BY <1>1, <1>9, <2>2, <2>4, <3>1, <3>2 DEF Active
  <2>5. QED
    BY <2>3, <2>4
<1>11. OneBelief'
  <2>1. SUFFICES ASSUME NEW w \in versions', NEW x \in versions', w # x, SameSlot(w, x)
                 PROVE  \/ superseded_at'[w.id] # NULL /\ superseded_at'[w.id] <= x.recorded_at
                        \/ superseded_at'[x.id] # NULL /\ superseded_at'[x.id] <= w.recorded_at
    BY DEF OneBelief, SameSlot
  <2>2. CASE w = v
    BY <1>1, <1>8, <2>1, <2>2 DEF SameSlot
  <2>3. CASE x = v
    BY <1>1, <1>8, <2>1, <2>3 DEF SameSlot
  <2>4. CASE w # v /\ x # v
    <3>1. w \in versions /\ x \in versions
      BY <1>1, <2>4
    <3>2. \/ superseded_at[w.id] # NULL /\ superseded_at[w.id] <= x.recorded_at
          \/ superseded_at[x.id] # NULL /\ superseded_at[x.id] <= w.recorded_at
      BY <2>1, <3>1 DEF OneBelief
    <3>3. \A y \in versions : superseded_at[y.id] # NULL =>
            superseded_at'[y.id] = superseded_at[y.id]
      BY <1>1 DEF Supersedes, Active
    <3>4. QED
      BY <3>1, <3>2, <3>3
  <2>5. QED
    BY <2>2, <2>3, <2>4
<1>12. NoGap'
  <2>1. SUFFICES ASSUME NEW w \in versions', superseded_at'[w.id] # NULL
                 PROVE  \E x \in versions' :
                          SameSlot(w, x) /\ x.recorded_at = superseded_at'[w.id]
    BY DEF NoGap, SameSlot
  <2>2. w \in versions
    BY <1>1, <2>1
  <2>3. CASE Supersedes(v, w)
    BY <1>1, <2>2, <2>3 DEF Supersedes, SameSlot
  <2>4. CASE ~Supersedes(v, w)
    BY <1>1, <2>1, <2>2, <2>4 DEF NoGap
  <2>5. QED
    BY <2>3, <2>4
<1>13. QED
  BY <1>5, <1>6, <1>7, <1>10, <1>11, <1>12

LEMMA NextIInv == IInv /\ [Next]_vars => IInv'
<1>1. SUFFICES ASSUME IInv, [Next]_vars PROVE IInv'
  OBVIOUS
<1>2. CASE \E a \in Artifact, t \in ArrivalTimes : Store(a, t)
  <2>1. TypeOK' /\ UNCHANGED ledger
    BY <1>1, <1>2, StoreFacts DEF IInv
  <2>2. QED
    BY <1>1, <2>1 DEF IInv, ledger, UniqueIds, ClosedIsStored, LatestActive, OneBelief,
                      NoGap, Active, SameSlot
<1>3. CASE \E v \in Submission : InsertClaim(v)
  BY <1>1, <1>3, InsertIInv
<1>4. CASE UNCHANGED vars
  BY <1>1, <1>4 DEF IInv, vars, TypeOK, UniqueIds, ClosedIsStored, LatestActive,
                    OneBelief, NoGap, Active, SameSlot
<1>5. QED
  BY <1>1, <1>2, <1>3, <1>4, NextCases

LEMMA Invariance == Spec => []IInv
BY InitIInv, NextIInv, PTL DEF Spec

\* The columns of the store keep their types.
THEOREM TypeCorrect == Spec => []TypeOK
BY Invariance, PTL DEF IInv

\* At most one version of a slot is visible at any knowledge time.
THEOREM OneBeliefAlways == Spec => []OneBelief
BY Invariance, PTL DEF IInv

\* A superseded version is followed by its successor without a gap.
THEOREM NoGapAlways == Spec => []NoGap
BY Invariance, PTL DEF IInv

-----------------------------------------------------------------------------
(***************************************************************************)
(* Lineage.  What a version needs was knowable when it was recorded, and   *)
(* since rows are immutable it still is; a new version can only depend on  *)
(* versions stored before it, so no set of versions rests on itself.       *)
(***************************************************************************)
LineageKnown ==
  \A v \in versions :
    /\ \A a \in Needs(v) : KnownBy(a, v.recorded_at)
    /\ \A d \in v.dependencies : \E p \in versions : p.id = d /\ p.recorded_at <= v.recorded_at

LInv == TypeOK /\ UniqueIds /\ LineageKnown /\ WellFounded

LEMMA NeedsAreArtifacts ==
  ASSUME NEW v \in Version
  PROVE  Needs(v) \subseteq Artifact
<1>1. ASSUME NEW l \in v.evidence PROVE LinkNeeds(l) \subseteq Artifact
  BY ShapeAssumption DEF Version, Link, LinkNeeds, Artifact
<1>2. {v.series, Subject[v.series]} \cup ({Target[v.value]} \ {NULL}) \subseteq Artifact
  BY ShapeAssumption DEF Version, Artifact
<1>3. QED
  BY <1>1, <1>2 DEF Needs

\* A row stored once stays known.
LEMMA StillKnown ==
  ASSUME TypeOK, [Next]_vars, NEW a \in Artifact, NEW t, KnownBy(a, t)
  PROVE  KnownBy(a, t)'
<1>1. CASE \E b \in Artifact, u \in ArrivalTimes : Store(b, u)
  BY <1>1 DEF Store, KnownBy, Stored, TypeOK
<1>2. CASE \E v \in Submission : InsertClaim(v)
  BY <1>2 DEF InsertClaim, KnownBy, Stored
<1>3. CASE UNCHANGED vars
  BY <1>3 DEF vars, KnownBy, Stored
<1>4. QED
  BY <1>1, <1>2, <1>3, NextCases

\* Rows of claim_versions are never removed, and a step adds at most one.
LEMMA VersionsGrow ==
  ASSUME [Next]_vars
  PROVE  \/ versions' = versions
         \/ \E v \in Submission : InsertClaim(v) /\ versions' = versions \cup {v}
<1>1. CASE \E b \in Artifact, u \in ArrivalTimes : Store(b, u)
  BY <1>1 DEF Store, ledger
<1>2. CASE \E v \in Submission : InsertClaim(v)
  BY <1>2 DEF InsertClaim
<1>3. CASE UNCHANGED vars
  BY <1>3 DEF vars
<1>4. QED
  BY <1>1, <1>2, <1>3, NextCases

LEMMA NextTypeOK == TypeOK /\ [Next]_vars => TypeOK'
<1>1. SUFFICES ASSUME TypeOK, [Next]_vars PROVE TypeOK'
  OBVIOUS
<1>2. CASE \E a \in Artifact, t \in ArrivalTimes : Store(a, t)
  BY <1>1, <1>2, StoreFacts
<1>3. CASE \E v \in Submission : InsertClaim(v)
  <2>1. PICK v \in Submission : InsertClaim(v)
    BY <1>3
  <2>2. v \in Version /\ v.recorded_at \in Time
    BY ShapeAssumption, VersionFields
  <2>3. QED
    BY <1>1, <2>1, <2>2 DEF InsertClaim, TypeOK
<1>4. CASE UNCHANGED vars
  BY <1>1, <1>4 DEF TypeOK, vars
<1>5. QED
  BY <1>1, <1>2, <1>3, <1>4, NextCases

LEMMA NextUniqueIds == UniqueIds /\ [Next]_vars => UniqueIds'
BY VersionsGrow DEF UniqueIds, InsertClaim

LEMMA NextLineageKnown == TypeOK /\ LineageKnown /\ [Next]_vars => LineageKnown'
<1>1. SUFFICES ASSUME TypeOK, LineageKnown, [Next]_vars,
                      NEW v \in versions'
               PROVE  /\ \A a \in Needs(v) : KnownBy(a, v.recorded_at)'
                      /\ \A d \in v.dependencies :
                           \E p \in versions' : p.id = d /\ p.recorded_at <= v.recorded_at
  BY DEF LineageKnown, Needs, LinkNeeds
<1>2. /\ v \in Version
      /\ \A a \in Needs(v) : KnownBy(a, v.recorded_at)
      /\ \A d \in v.dependencies :
           \E p \in versions : p.id = d /\ p.recorded_at <= v.recorded_at
  <2>1. CASE v \in versions
    BY <1>1, <2>1 DEF TypeOK, LineageKnown
  <2>2. CASE v \notin versions
    <3>1. v \in Submission /\ InsertClaim(v)
      BY <1>1, <2>2, VersionsGrow
    <3>2. QED
      BY <3>1, ShapeAssumption DEF InsertClaim, LineageAvailable
  <2>3. QED
    BY <2>1, <2>2
<1>3. \A a \in Needs(v) : KnownBy(a, v.recorded_at)'
  BY <1>1, <1>2, NeedsAreArtifacts, StillKnown
<1>4. versions \subseteq versions'
  BY <1>1, VersionsGrow
<1>5. QED
  BY <1>2, <1>3, <1>4

\* A new version depends on stored ones, and no stored one depends on it.
LEMMA NextWellFounded == LInv /\ [Next]_vars => WellFounded'
<1>1. SUFFICES ASSUME LInv, [Next]_vars,
                      NEW S \in SUBSET versions', S # {}
               PROVE  \E v \in S : \A w \in S : w.id \notin v.dependencies
  BY DEF WellFounded
<1>2. CASE S \subseteq versions
  BY <1>1, <1>2 DEF LInv, WellFounded
<1>3. CASE ~(S \subseteq versions)
  <2>1. PICK u \in Submission : InsertClaim(u) /\ versions' = versions \cup {u}
    BY <1>1, <1>3, VersionsGrow
  <2>2. u \in S /\ u.id \notin u.dependencies /\ \A w \in versions : w.id # u.id
    BY <1>1, <1>3, <2>1 DEF InsertClaim, LineageAvailable
  <2>3. CASE S = {u}
    BY <2>2, <2>3
  <2>4. CASE S # {u}
    <3>1. S \ {u} \in SUBSET versions /\ S \ {u} # {}
      BY <1>1, <2>1, <2>2, <2>4
    <3>2. PICK v \in S \ {u} : \A w \in S \ {u} : w.id \notin v.dependencies
      BY <1>1, <3>1 DEF LInv, WellFounded
    <3>3. u.id \notin v.dependencies
      BY <1>1, <2>2, <3>1, <3>2 DEF LInv, LineageKnown
    <3>4. QED
      BY <3>2, <3>3
  <2>5. QED
    BY <2>3, <2>4
<1>4. QED
  BY <1>2, <1>3

LEMMA LineageInvariance == Spec => []LInv
<1>1. Init => LInv
  BY DEF Init, LInv, TypeOK, UniqueIds, LineageKnown, WellFounded
<1>2. LInv /\ [Next]_vars => LInv'
  BY NextTypeOK, NextUniqueIds, NextLineageKnown, NextWellFounded DEF LInv
<1>3. QED
  BY <1>1, <1>2, PTL DEF Spec

\* The dependency graph of claims has no cycle, whatever clocks they carry.
THEOREM WellFoundedAlways == Spec => []WellFounded
BY LineageInvariance, PTL DEF LInv

\* Whatever is visible at a knowledge time rests on lineage known by then.
THEOREM NoFutureKnowledgeAlways == Spec => []NoFutureKnowledge
<1>1. LInv => NoFutureKnowledge
  <2>1. SUFFICES ASSUME LInv, NEW k \in Time, NEW v \in Visible(k)
                 PROVE  /\ \A a \in Needs(v) : KnownBy(a, k)
                        /\ \A d \in v.dependencies :
                             \E p \in versions : p.id = d /\ p.recorded_at <= k
    BY DEF NoFutureKnowledge, Needs
  <2>2. v \in versions /\ v \in Version /\ v.recorded_at <= k
    BY <2>1 DEF Visible, LInv, TypeOK
  <2>3. k \in Nat /\ v.recorded_at \in Nat
    BY <2>2, VersionFields, ClockAssumption
  <2>4. \A a \in Needs(v) : KnownBy(a, k)
    <3>1. SUFFICES ASSUME NEW a \in Needs(v) PROVE KnownBy(a, k)
      OBVIOUS
    <3>2. a \in Artifact /\ KnownBy(a, v.recorded_at)
      BY <2>1, <2>2, <3>1, NeedsAreArtifacts DEF LInv, LineageKnown
    <3>3. known_since[a] \in Nat
      BY <2>1, <3>2, ClockAssumption DEF LInv, TypeOK, KnownBy, Stored
    <3>4. QED
      BY <2>2, <2>3, <3>2, <3>3 DEF KnownBy
  <2>5. ASSUME NEW d \in v.dependencies
        PROVE  \E p \in versions : p.id = d /\ p.recorded_at <= k
    <3>1. PICK p \in versions : p.id = d /\ p.recorded_at <= v.recorded_at
      BY <2>1, <2>2, <2>5 DEF LInv, LineageKnown
    <3>2. p.recorded_at \in Nat
      BY <2>1, VersionFields DEF LInv, TypeOK
    <3>3. QED
      BY <2>2, <2>3, <3>1, <3>2
  <2>6. QED
    BY <2>4, <2>5
<1>2. QED
  BY <1>1, LineageInvariance, PTL

-----------------------------------------------------------------------------
\* A step that admits a version closes only the version it succeeds, at its clock.
LEMMA StepForgets == IInv /\ [Next]_vars => ForgetsOnlyBySuccession \/ UNCHANGED vars
<1>1. SUFFICES ASSUME IInv, [Next]_vars, NEW k \in Time,
                      NEW v \in Visible(k), v \notin Visible(k)'
               PROVE  \E w \in versions' \ versions : SameSlot(v, w) /\ w.recorded_at <= k
  BY DEF ForgetsOnlyBySuccession
<1>2. CASE UNCHANGED ledger
  BY <1>1, <1>2 DEF Visible, ledger
<1>3. CASE \E u \in Submission : InsertClaim(u)
  <2>1. PICK u \in Submission : InsertClaim(u)
    BY <1>3
  <2>2. /\ u \in Version /\ u \notin versions
        /\ versions' = versions \cup {u}
        /\ \A w \in versions :
             superseded_at'[w.id] =
               IF Supersedes(u, w) THEN u.recorded_at ELSE superseded_at[w.id]
    BY <1>1, <2>1, InsertEffect DEF IInv
  <2>3. v \in versions /\ v.recorded_at <= k
    BY <1>1 DEF Visible
  <2>4. superseded_at'[v.id] # NULL /\ ~(k < superseded_at'[v.id])
    BY <1>1, <2>2, <2>3 DEF Visible
  <2>5. Supersedes(u, v)
    BY <1>1, <2>2, <2>3, <2>4 DEF Visible
  <2>6. u.recorded_at \in Nat /\ k \in Nat
    BY <2>2, VersionFields, ClockAssumption
  <2>7. u.recorded_at <= k
    BY <2>2, <2>3, <2>4, <2>5, <2>6
  <2>8. QED
    BY <2>2, <2>5, <2>7 DEF Supersedes, SameSlot
<1>4. UNCHANGED ledger \/ \E u \in Submission : InsertClaim(u)
  BY <1>1, NextCases, StoreFacts DEF IInv, vars, ledger
<1>5. QED
  BY <1>2, <1>3, <1>4

\* What was known in the past changes only by a backdated succession in its slot.
THEOREM PastIsStableAlways == Spec => PastIsStable
BY Invariance, StepForgets, PTL DEF Spec, PastIsStable

LEMMA StepKeepsClosed == IInv /\ [Next]_vars => ClosedStaysClosed \/ UNCHANGED vars
<1>1. SUFFICES ASSUME IInv, [Next]_vars, NEW c \in ClaimId, superseded_at[c] # NULL
               PROVE  superseded_at'[c] = superseded_at[c]
  BY DEF ClosedStaysClosed
<1>2. PICK v \in versions : v.id = c
  BY <1>1 DEF IInv, ClosedIsStored
<1>3. CASE \E u \in Submission : InsertClaim(u)
  BY <1>1, <1>2, <1>3, InsertEffect DEF IInv, Supersedes, Active
<1>4. UNCHANGED ledger \/ \E u \in Submission : InsertClaim(u)
  BY <1>1, NextCases, StoreFacts DEF IInv, vars, ledger
<1>5. QED
  BY <1>1, <1>3, <1>4 DEF ledger

\* A transaction-time interval is closed once and for all.
THEOREM SupersededOnceAlways == Spec => SupersededOnce
BY Invariance, StepKeepsClosed, PTL DEF Spec, SupersededOnce

-----------------------------------------------------------------------------
(***************************************************************************)
(* The store implements BeliefHistory.  At a knowledge time the belief is  *)
(* the one visible version of the slot; an accepted version is later than  *)
(* the active one, so that the belief had settled before its clock.        *)
(***************************************************************************)
History == [s \in Slot |-> [k \in Time |-> Believed(s, k)]]

InSlot(v, s) == v.series = s[1] /\ v.valid_from = s[2]

\* Every nonempty set of naturals has a least element.
LEMMA LeastNatural ==
  ASSUME NEW T, T \subseteq Nat, T # {}
  PROVE  \E x \in T : \A y \in T : x <= y
<1>. DEFINE Initial == {0 .. x : x \in T}
<1>1. Initial \subseteq FiniteSubsetsOf(Nat) /\ Initial # {}
  <2>1. ASSUME NEW x \in T PROVE 0 .. x \in SUBSET Nat /\ IsFiniteSet(0 .. x)
    BY FS_Interval
  <2>. QED
    BY <2>1 DEF FiniteSubsetsOf
<1>2. PICK s \in Initial : \A r \in Initial : ~ (<<r, s>> \in StrictSubsetOrdering(Nat))
  BY <1>1, WFMin, FS_StrictSubsetOrderingWellFounded
<1>3. PICK x \in T : s = 0 .. x
  BY <1>2
<1>4. ASSUME NEW y \in T, ~(x <= y) PROVE FALSE
  <2>1. 0 .. y \in Initial /\ s \in SUBSET Nat /\ 0 .. y \in SUBSET Nat
    BY <1>3
  <2>2. 0 .. y \subseteq s /\ x \in s /\ x \notin 0 .. y
    BY <1>3, <1>4
  <2>. QED
    BY <1>2, <2>1, <2>2 DEF StrictSubsetOrdering
<1>. QED
  BY <1>4

\* Of the clocks before t one is the last, if there is any.
LEMMA LastBefore ==
  ASSUME NEW t \in Time, Beliefs!Earlier(t) # {}
  PROVE  \E k \in Beliefs!Earlier(t) : \A j \in Beliefs!Earlier(t) : j <= k
<1>. DEFINE Gaps == {t - k : k \in Beliefs!Earlier(t)}
<1>1. /\ t \in Nat
      /\ \A k \in Beliefs!Earlier(t) : k \in Nat /\ k < t /\ t - k \in Nat
  BY ClockAssumption DEF Beliefs!Earlier
<1>2. Gaps \subseteq Nat /\ Gaps # {}
  BY <1>1
<1>3. PICK x \in Gaps : \A y \in Gaps : x <= y
  BY <1>2, LeastNatural
<1>4. PICK k \in Beliefs!Earlier(t) : x = t - k
  BY <1>3
<1>5. ASSUME NEW j \in Beliefs!Earlier(t) PROVE j <= k
  BY <1>1, <1>3, <1>4
<1>. QED
  BY <1>5

\* A slot shows one version at most, and that is the belief.
LEMMA BelievedIsShown ==
  ASSUME IInv, NEW s \in Slot, NEW k \in Time, NEW v \in Visible(k), InSlot(v, s)
  PROVE  Believed(s, k) = v.id
<1>. DEFINE shown == {w \in Visible(k) : w.series = s[1] /\ w.valid_from = s[2]}
<1>1. ASSUME NEW w \in shown PROVE w = v
  <2>1. /\ v \in versions /\ w \in versions /\ SameSlot(v, w)
        /\ v.recorded_at <= k /\ w.recorded_at <= k
        /\ superseded_at[v.id] # NULL => k < superseded_at[v.id]
        /\ superseded_at[w.id] # NULL => k < superseded_at[w.id]
    BY DEF Visible, SameSlot, InSlot
  <2>2. /\ k \in Nat /\ v.recorded_at \in Nat /\ w.recorded_at \in Nat
        /\ superseded_at[v.id] # NULL => superseded_at[v.id] \in Nat
        /\ superseded_at[w.id] # NULL => superseded_at[w.id] \in Nat
    BY <2>1, VersionFields, ClockAssumption DEF IInv, TypeOK
  <2>. QED
    BY <2>1, <2>2 DEF IInv, OneBelief
<1>2. shown = {v}
  BY <1>1 DEF InSlot
<1>. HIDE DEF shown
<1>3. (CHOOSE w \in shown : TRUE) = v
  BY <1>2
<1>. QED
  BY <1>2, <1>3 DEF Believed, shown

LEMMA NothingBelieved ==
  ASSUME NEW s \in Slot, NEW k \in Time, \A v \in Visible(k) : ~InSlot(v, s)
  PROVE  Believed(s, k) = NULL
BY DEF Believed, InSlot

\* An accepted version finds the belief settled: what is believed at its clock and after
\* is what was believed just before.
LEMMA InsertFindsSettled ==
  ASSUME IInv, NEW v \in Submission, InsertClaim(v), NEW s \in Slot, InSlot(v, s)
  PROVE  Beliefs!Settled(s, v.recorded_at)
<1>. DEFINE t == v.recorded_at
<1>1. /\ v \in Version /\ t \in Time /\ t \in Nat /\ InOrder(v)
      /\ \A w \in versions : w \in Version /\ w.recorded_at \in Time /\ w.recorded_at \in Nat
      /\ \A k \in Time : k \in Nat
  BY ShapeAssumption, VersionFields, ClockAssumption DEF IInv, TypeOK, InsertClaim
<1>2. CASE \E w \in versions : InSlot(w, s)
  <2>1. PICK a \in versions : InSlot(a, s) /\ Active(a)
    BY <1>2 DEF IInv, LatestActive, Active, InSlot, SameSlot
  <2>2. a.recorded_at < t
    BY <1>1, <2>1 DEF InOrder, InSlot, SameSlot
  <2>3. ASSUME NEW k \in Time, a.recorded_at <= k PROVE Believed(s, k) = a.id
    BY <2>1, <2>3, BelievedIsShown DEF Visible, Active
  <2>4. a.recorded_at \in Beliefs!Earlier(t)
    BY <1>1, <2>2 DEF Beliefs!Earlier
  <2>5. PICK m \in Beliefs!Earlier(t) : \A j \in Beliefs!Earlier(t) : j <= m
    BY <1>1, <2>4, LastBefore
  <2>. DEFINE last == CHOOSE k \in Beliefs!Earlier(t) : \A j \in Beliefs!Earlier(t) : j <= k
  <2>6. last \in Time /\ a.recorded_at <= last
    BY <2>4, <2>5 DEF Beliefs!Earlier
  <2>7. Beliefs!Before(s, t) = a.id
    BY <2>3, <2>4, <2>6 DEF Beliefs!Before
  <2>8. ASSUME NEW k \in Time, k >= t PROVE Believed(s, k) = a.id
    BY <1>1, <2>2, <2>3, <2>8
  <2>. QED
    BY <2>7, <2>8 DEF Beliefs!Settled
<1>3. CASE \A w \in versions : ~InSlot(w, s)
  <2>1. ASSUME NEW k \in Time PROVE Believed(s, k) = NULL
    BY <1>3, NothingBelieved DEF Visible
  <2>2. Beliefs!Before(s, t) = NULL
    <3>1. CASE Beliefs!Earlier(t) = {}
      BY <3>1 DEF Beliefs!Before
    <3>2. CASE Beliefs!Earlier(t) # {}
      BY <2>1, <3>2, <1>1, LastBefore DEF Beliefs!Before, Beliefs!Earlier
    <3>. QED
      BY <3>1, <3>2
  <2>. QED
    BY <2>1, <2>2 DEF Beliefs!Settled
<1>. QED
  BY <1>2, <1>3

\* A new identifier was never believed.
LEMMA InsertIsFresh ==
  ASSUME IInv, NEW v \in Submission, InsertClaim(v)
  PROVE  Beliefs!Fresh(v.id)
<1>1. v.id # NULL /\ \A w \in versions : w.id # v.id
  BY ShapeAssumption, VersionFields DEF InsertClaim
<1>2. ASSUME NEW s \in Slot, NEW k \in Time PROVE Believed(s, k) # v.id
  <2>1. CASE \E w \in Visible(k) : InSlot(w, s)
    BY <1>1, <2>1, BelievedIsShown DEF Visible
  <2>2. CASE \A w \in Visible(k) : ~InSlot(w, s)
    BY <1>1, <2>2, NothingBelieved
  <2>. QED
    BY <2>1, <2>2
<1>. QED
  BY <1>2 DEF Beliefs!Fresh

\* What BelievedIsShown says, as one formula, and in the next state.
ShownIsBelieved ==
  \A s \in Slot, k \in Time : \A v \in Visible(k) : InSlot(v, s) => Believed(s, k) = v.id

LEMMA ShownIsBelievedHolds == IInv => ShownIsBelieved
BY BelievedIsShown DEF ShownIsBelieved

LEMMA ShownIsBelievedNext == IInv' => ShownIsBelieved'
BY ShownIsBelievedHolds, PTL

LEMMA NothingBelievedNext ==
  ASSUME NEW s \in Slot, NEW k \in Time, \A v \in Visible(k)' : ~InSlot(v, s)
  PROVE  Believed(s, k)' = NULL
BY DEF Believed, InSlot

\* The belief depends on what the slot shows only.
LEMMA SameBelief ==
  ASSUME IInv, IInv', NEW s \in Slot, NEW k \in Time,
         \A w : InSlot(w, s) => (w \in Visible(k)' <=> w \in Visible(k))
  PROVE  Believed(s, k)' = Believed(s, k)
<1>1. CASE \E w \in Visible(k) : InSlot(w, s)
  BY <1>1, ShownIsBelievedHolds, ShownIsBelievedNext DEF ShownIsBelieved
<1>2. CASE \A w \in Visible(k) : ~InSlot(w, s)
  BY <1>2, NothingBelieved, NothingBelievedNext
<1>. QED
  BY <1>1, <1>2

\* An accepted version extends the history of its slot at its end, and no other history.
LEMMA InsertBelieves ==
  ASSUME IInv, IInv', NEW v \in Submission, InsertClaim(v)
  PROVE  Beliefs!Believe(<<v.series, v.valid_from>>, v.recorded_at, v.id)
<1>. DEFINE t == v.recorded_at
            s == <<v.series, v.valid_from>>
<1>1. /\ v \in Version /\ v \notin versions
      /\ versions' = versions \cup {v}
      /\ superseded_at'[v.id] = NULL
      /\ \A w \in versions :
           superseded_at'[w.id] = IF Supersedes(v, w) THEN t ELSE superseded_at[w.id]
  BY InsertEffect DEF IInv
<1>2. s \in Slot /\ InSlot(v, s) /\ t \in Time /\ t \in Nat /\ \A k \in Time : k \in Nat /\ k # NULL
  BY <1>1, VersionFields, ClockAssumption DEF Slot, InSlot, Version
<1>3. ASSUME NEW k \in Time, k >= t PROVE Believed(s, k)' = v.id
  <2>1. v \in Visible(k)'
    BY <1>1, <1>2, <1>3 DEF Visible
  <2>. QED
    BY <1>2, <2>1, ShownIsBelievedNext DEF ShownIsBelieved
<1>4. ASSUME NEW k \in Time, k < t PROVE Visible(k)' = Visible(k)
  <2>1. v \notin Visible(k)'
    BY <1>2, <1>4 DEF Visible
  <2>2. ASSUME NEW w \in versions PROVE w \in Visible(k)' <=> w \in Visible(k)
    BY <1>1, <1>2, <1>4 DEF Visible, Supersedes, Active
  <2>. QED
    BY <1>1, <2>1, <2>2 DEF Visible
<1>5. ASSUME NEW r \in Slot, r # s, NEW k \in Time PROVE Believed(r, k)' = Believed(r, k)
  <2>1. \A w \in versions \cup {v} : InSlot(w, r) => w \in versions /\ ~Supersedes(v, w)
    BY <1>5, <1>1 DEF InSlot, Supersedes, SameSlot, Slot
  <2>2. ASSUME NEW w, InSlot(w, r) PROVE w \in Visible(k)' <=> w \in Visible(k)
    BY <1>1, <2>1, <2>2 DEF Visible
  <2>. QED
    BY <2>2, SameBelief
<1>6. ASSUME NEW k \in Time, k < t PROVE Believed(s, k)' = Believed(s, k)
  BY <1>2, <1>4, <1>6, SameBelief
<1>7. History' = [History EXCEPT ![s] = [k \in Time |-> IF k < t THEN @[k] ELSE v.id]]
  <2>. DEFINE extended == [k \in Time |-> IF k < t THEN History[s][k] ELSE v.id]
  <2>1. History'[s] = extended
    BY <1>2, <1>3, <1>6 DEF History
  <2>2. ASSUME NEW r \in Slot, r # s PROVE History'[r] = History[r]
    BY <1>5, <2>2 DEF History
  <2>3. [History EXCEPT ![s] = extended]
          = [r \in Slot |-> IF r = s THEN extended ELSE History[r]]
    BY <1>2 DEF History
  <2>4. History' = [r \in Slot |-> History'[r]]
    BY DEF History
  <2>. HIDE DEF extended, History
  <2>5. History' = [History EXCEPT ![s] = extended]
    BY <2>1, <2>2, <2>3, <2>4
  <2>. QED
    BY <2>5 DEF extended
<1>8. Beliefs!Fresh(v.id) /\ Beliefs!Settled(s, t)
  BY <1>2, InsertIsFresh, InsertFindsSettled
<1>. QED
  BY <1>7, <1>8 DEF Beliefs!Believe, History

\* Only an accepted version changes what is believed.
LEMMA NextBelieves == IInv /\ IInv' /\ [Next]_vars => [Beliefs!Next]_History
<1>1. SUFFICES ASSUME IInv, IInv', [Next]_vars PROVE [Beliefs!Next]_History
  OBVIOUS
<1>2. CASE \E v \in Submission : InsertClaim(v)
  <2>1. PICK v \in Submission : InsertClaim(v)
    BY <1>2
  <2>2. <<v.series, v.valid_from>> \in Slot /\ v.recorded_at \in Time /\ v.id \in ClaimId
    BY ShapeAssumption DEF Version, Slot
  <2>. QED
    BY <1>1, <2>1, <2>2, InsertBelieves DEF Beliefs!Next
<1>3. CASE UNCHANGED ledger
  BY <1>3 DEF ledger, History, Believed, Visible
<1>4. UNCHANGED ledger \/ \E u \in Submission : InsertClaim(u)
  BY <1>1, NextCases, StoreFacts DEF IInv, vars, ledger
<1>. QED
  BY <1>2, <1>3, <1>4

\* The tables implement the abstract history of beliefs, for any number of claims with any
\* clocks and intervals.
THEOREM ImplementsBeliefHistoryAlways == Spec => ImplementsBeliefHistory
<1>1. Init => Beliefs!Init
  BY DEF Init, Beliefs!Init, Believed, Visible
<1>. QED
  BY <1>1, NextBelieves, Invariance, PTL DEF Spec, ImplementsBeliefHistory, Beliefs!Spec, History
=============================================================================
