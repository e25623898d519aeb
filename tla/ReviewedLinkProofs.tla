-------------------------- MODULE ReviewedLinkProofs --------------------------
(***************************************************************************)
(* The links between records of different sources that rest on reviews,    *)
(* proved for any clocks, number and order of the reviews: the identities  *)
(* of facilities and the links to tax units that TaxRelationship accepts   *)
(* into the store beside each other, and the links from discovered URLs to *)
(* captured texts that DiscoveryHandoff reads off two queues.              *)
(***************************************************************************)
EXTENDS TaxRelationship, DiscoveryHandoff, FiniteSetTheorems, TLAPS

-----------------------------------------------------------------------------
(* Facility reviews. *)

\* The assignments are those that the committed runs created.
AssignedByRuns ==
  /\ Runs \subseteq RunId
  /\ \A a \in Assigned : a.run \in Runs /\ a \in Creates(a.run)
  /\ \A i \in Runs : Creates(i) \subseteq Assigned

\* What a run read when the runs K had committed: S and R are the open assignments of its
\* facilities, and all others had been ended by a run of K.
Planned(id, S, R, K) ==
  /\ id \in RunId
  /\ K \subseteq Runs
  /\ S \cap R = {}
  /\ \A a \in S \cup R :
       /\ a \in Assigned /\ a.run \in K
       /\ a.observed \in Covered(id.review)
       /\ \A i \in K : a \notin runs[i].superseded
  /\ \A a \in S : a.run.at < id.at
  /\ \A a \in R : id.stale /\ Own(a, id.review) /\ IsMatch(id.review, a.observed)
  /\ \A a \in Assigned :
       a.run \in K /\ a.observed \in Covered(id.review) =>
         a \in S \/ a \in R \/ \E i \in K : a \in runs[i].superseded
  /\ id.stale => \A o \in Matched(id.review) : \E a \in R : a.observed = o

\* A committed run had not been planned on itself.
Committed(i) ==
  /\ i \notin seen[i]
  /\ Planned(i, runs[i].superseded, runs[i].reaffirmed, seen[i])

Planning(p) ==
  /\ call[p].step = "plan" => call[p].id \in RunId
  /\ call[p].step = "commit" =>
       Planned(call[p].id, call[p].superseded, call[p].reaffirmed, call[p].seen)

\* An assignment ends when the runs that supersede it say, and not otherwise.
EndedByRuns ==
  /\ \A i \in Runs : \A a \in runs[i].superseded : superseded_at[a] = RecordedAt(i.at)
  /\ \A a \in Assigned :
       superseded_at[a] # NULL => \E i \in Runs : a \in runs[i].superseded

\* Of two assignments of a facility one ends before the other is recorded.
Before(a, b) == superseded_at[a] # NULL /\ superseded_at[a] <= RecordedAt(b.run.at)

Apart ==
  \A a, b \in Assigned : a # b /\ a.observed = b.observed => Before(a, b) \/ Before(b, a)

ReviewInv ==
  /\ call = [p \in Process |-> call[p]]
  /\ AssignedByRuns
  /\ \A i \in Runs : Committed(i)
  /\ \A p \in Process : Planning(p)
  /\ EndedByRuns /\ Apart

-----------------------------------------------------------------------------
LEMMA RunTyped ==
  ASSUME NEW id \in RunId
  PROVE  /\ id.review \in Review /\ id.at \in AcceptTimes /\ id.at \in Nat /\ id.stale \in BOOLEAN
         /\ RecordedAt(id.at) \in Nat /\ RecordedAt(id.at) # NULL
<1>1. id.review \in Review /\ id.at \in AcceptTimes /\ id.stale \in BOOLEAN
  BY DEF RunId
<1>2. id.at \in Nat
  BY <1>1, ClockAssumption
<1>3. RecordedAt(id.at) \in Nat
  BY <1>2 DEF RecordedAt
<1>4. RecordedAt(id.at) # NULL
  BY <1>3, ClockAssumption
<1>. QED
  BY <1>1, <1>2, <1>3, <1>4

LEMMA CreatesOf ==
  ASSUME NEW id, NEW a \in Creates(id)
  PROVE  /\ ~id.stale /\ a.run = id /\ a = [run |-> id, observed |-> a.observed]
         /\ a.observed \in Covered(id.review) /\ IsMatch(id.review, a.observed)
BY DEF Creates, Matched

LEMMA CreatesTheMatches ==
  ASSUME NEW id, ~id.stale, NEW o \in Covered(id.review), IsMatch(id.review, o)
  PROVE  [run |-> id, observed |-> o] \in Creates(id)
BY DEF Creates, Matched

\* What a call read stays true while others commit.
LEMMA PlannedStays ==
  ASSUME NEW id, NEW S, NEW R, NEW K, Planned(id, S, R, K),
         Runs \subseteq Runs', Assigned \subseteq Assigned',
         \A i \in Runs : runs'[i].superseded = runs[i].superseded,
         \A a \in Assigned' \ Assigned : a.run \notin Runs
  PROVE  Planned(id, S, R, K)'
BY DEF Planned, Own, IsMatch, Covered, Matched

LEMMA InitReviewInv == Init => ReviewInv
<1>. SUFFICES ASSUME Init PROVE ReviewInv
  OBVIOUS
<1>1. Runs = {} /\ Assigned = {}
  BY DEF Init, Runs, Assigned
<1>2. call = [p \in Process |-> call[p]] /\ \A p \in Process : Planning(p)
  BY DEF Init, Idle, Planning
<1>. QED
  BY <1>1, <1>2 DEF ReviewInv, AssignedByRuns, EndedByRuns, Apart

\* A step of a call that commits nothing.
LEMMA CallStep ==
  ASSUME ReviewInv, UNCHANGED <<runs, superseded_at, seen>>, NEW p \in Process, NEW c,
         call' = [call EXCEPT ![p] = c],
         c.step = "plan" => c.id \in RunId,
         c.step = "commit" => Planned(c.id, c.superseded, c.reaffirmed, c.seen)
  PROVE  ReviewInv'
<1>1. \A id, S, R, K : Planned(id, S, R, K) => Planned(id, S, R, K)'
  BY DEF Planned, Runs, Assigned
<1>2. Runs' = Runs /\ Assigned' = Assigned
  BY DEF Runs, Assigned
<1>3. call'[p] = c /\ \A q \in Process \ {p} : call'[q] = call[q]
  BY DEF ReviewInv
<1>4. call' = [q \in Process |-> call'[q]]
  BY DEF ReviewInv
<1>5. ASSUME NEW q \in Process PROVE Planning(q)'
  <2>1. CASE q = p
    BY <2>1, <1>1, <1>3 DEF Planning
  <2>2. CASE q # p
    BY <2>2, <1>1, <1>3 DEF Planning, ReviewInv
  <2>. QED
    BY <2>1, <2>2
<1>6. ASSUME NEW i \in Runs' PROVE Committed(i)'
  BY <1>1, <1>2 DEF Committed, ReviewInv
<1>7. AssignedByRuns' /\ EndedByRuns' /\ Apart'
  BY <1>2 DEF ReviewInv, AssignedByRuns, EndedByRuns, Apart, Before
<1>. QED
  BY <1>4, <1>5, <1>6, <1>7 DEF ReviewInv

LEMMA PlanReviewInv ==
  ASSUME ReviewInv, NEW p \in Process, Plan(p)
  PROVE  ReviewInv'
<1>. DEFINE id == call[p].id
            S == Superseding(id)
            R == Reaffirming(id)
            c == [step |-> "commit", id |-> id, superseded |-> S, reaffirmed |-> R, seen |-> Runs]
<1>1. /\ id \in RunId /\ (id.stale => MayCorrect(id.review)) /\ ClockAllows(id)
      /\ call' = [call EXCEPT ![p] = c] /\ UNCHANGED <<runs, superseded_at, seen>>
  BY DEF Plan, ReviewInv, Planning
<1>2. S \subseteq Open(id.review) /\ R = Open(id.review) \ S
  BY DEF Superseding, Reaffirming
<1>3. ASSUME NEW a \in Open(id.review)
      PROVE  /\ a \in Assigned /\ a.run \in Runs /\ a.observed \in Covered(id.review)
             /\ \A i \in Runs : a \notin runs[i].superseded
  <2>1. a \in Assigned /\ superseded_at[a] = NULL /\ a.observed \in Covered(id.review)
    BY DEF Open
  <2>2. \A i \in Runs : RecordedAt(i.at) # NULL
    BY RunTyped DEF ReviewInv, AssignedByRuns
  <2>. QED
    BY <2>1, <2>2 DEF ReviewInv, AssignedByRuns, EndedByRuns
<1>4. ASSUME NEW a \in S PROVE a.run.at < id.at
  <2>1. RecordedAt(a.run.at) < RecordedAt(id.at)
    BY <1>1 DEF ClockAllows
  <2>2. a.run \in RunId
    BY <1>2, <1>3 DEF ReviewInv, AssignedByRuns
  <2>. QED
    BY <1>1, <2>1, <2>2, RunTyped DEF RecordedAt
<1>5. ASSUME NEW a \in R
      PROVE  id.stale /\ Own(a, id.review) /\ IsMatch(id.review, a.observed)
  <2>1. id.stale
    BY <1>1, <1>2, RunTyped DEF Superseding
  <2>. QED
    BY <1>1, <1>2, <2>1 DEF Superseding, MayCorrect
<1>6. ASSUME NEW a \in Assigned, a.observed \in Covered(id.review)
      PROVE  a \in S \/ a \in R \/ \E i \in Runs : a \in runs[i].superseded
  <2>1. CASE superseded_at[a] = NULL
    <3>1. a \in Open(id.review)
      BY <1>6, <2>1 DEF Open
    <3>. QED
      BY <1>2, <3>1
  <2>2. CASE superseded_at[a] # NULL
    BY <2>2 DEF ReviewInv, EndedByRuns
  <2>. QED
    BY <2>1, <2>2
<1>7. ASSUME id.stale, NEW o \in Matched(id.review) PROVE \E a \in R : a.observed = o
  <2>1. PICK a \in Open(id.review) : a.observed = o
    BY <1>1, <1>7 DEF MayCorrect
  <2>. QED
    BY <1>2, <1>7, <2>1 DEF Superseding, Matched
<1>8. Planned(id, S, R, Runs)
  <2>. HIDE DEF id, S, R
  <2>. QED
    BY <1>1, <1>2, <1>3, <1>4, <1>5, <1>6, <1>7 DEF Planned
<1>. QED
  <2>1. c.step = "commit" /\ c.id = id /\ c.superseded = S /\ c.reaffirmed = R /\ c.seen = Runs
    OBVIOUS
  <2>. HIDE DEF c, id, S, R
  <2>. QED
    BY <1>1, <1>8, <2>1, CallStep

\* What a commit writes.
LEMMA CommitWrites ==
  ASSUME ReviewInv, NEW p \in Process, Commit(p),
         NEW id, id = call[p].id, NEW S, S = call[p].superseded, NEW R, R = call[p].reaffirmed
  PROVE  /\ id \in RunId /\ id \notin Runs /\ Planned(id, S, R, call[p].seen)
         /\ Runs' = Runs \cup {id} /\ Assigned' = Assigned \cup Creates(id)
         /\ \A i \in Runs : runs'[i] = runs[i] /\ seen'[i] = seen[i]
         /\ runs'[id].superseded = S /\ runs'[id].reaffirmed = R /\ seen'[id] = call[p].seen
         /\ \A a \in Creates(id) : a \notin Assigned /\ superseded_at'[a] = NULL
         /\ \A a \in S : a \in Assigned /\ superseded_at[a] \in {NULL, RecordedAt(id.at)}
         /\ \A a \in S : superseded_at'[a] = RecordedAt(id.at)
         /\ \A a \in Assigned \ S : superseded_at'[a] = superseded_at[a]
         /\ \A a \in Creates(id) : RoomFor(a.observed, S, RecordedAt(id.at))
         /\ EvidenceStands(id)
         /\ call' = [call EXCEPT ![p] = Idle]
<1>1. /\ call[p].step = "commit" /\ id \notin Runs
      /\ \A a \in S : Supersedable(a, RecordedAt(id.at))
      /\ \A a \in Creates(id) : RoomFor(a.observed, S, RecordedAt(id.at))
      /\ EvidenceStands(id)
      /\ call' = [call EXCEPT ![p] = Idle]
  BY DEF Commit
<1>2. runs' = [i \in Runs \cup {id} |->
                IF i = id THEN [superseded |-> S, reaffirmed |-> R] ELSE runs[i]]
  BY DEF Commit
<1>3. superseded_at' = [a \in Assigned \cup Creates(id) |->
                          IF a \in S THEN RecordedAt(id.at)
                          ELSE IF a \in Assigned THEN superseded_at[a] ELSE NULL]
  BY DEF Commit
<1>4. seen' = [i \in Runs \cup {id} |-> IF i = id THEN call[p].seen ELSE seen[i]]
  BY DEF Commit
<1>5. Planned(id, S, R, call[p].seen)
  BY <1>1 DEF ReviewInv, Planning
<1>6. id \in RunId /\ \A a \in S : a \in Assigned
  BY <1>5 DEF Planned
<1>7. \A a \in Creates(id) : a \notin Assigned
  BY <1>1, CreatesOf DEF ReviewInv, AssignedByRuns
<1>8. Runs' = Runs \cup {id} /\ Assigned' = Assigned \cup Creates(id)
  BY <1>2, <1>3 DEF Runs, Assigned
<1>9. /\ \A i \in Runs : runs'[i] = runs[i] /\ seen'[i] = seen[i]
      /\ runs'[id].superseded = S /\ runs'[id].reaffirmed = R /\ seen'[id] = call[p].seen
  BY <1>1, <1>2, <1>4
<1>10. /\ \A a \in Creates(id) : superseded_at'[a] = NULL
       /\ \A a \in S : superseded_at'[a] = RecordedAt(id.at)
       /\ \A a \in Assigned \ S : superseded_at'[a] = superseded_at[a]
  BY <1>3, <1>6, <1>7
<1>11. \A a \in S : superseded_at[a] \in {NULL, RecordedAt(id.at)}
  BY <1>1 DEF Supersedable
<1>. QED
  BY <1>1, <1>5, <1>6, <1>7, <1>8, <1>9, <1>10, <1>11

LEMMA CommitReviewInv ==
  ASSUME ReviewInv, NEW p \in Process, Commit(p)
  PROVE  ReviewInv'
<1>. PICK id, S, R, K : id = call[p].id /\ S = call[p].superseded /\ R = call[p].reaffirmed /\
                        K = call[p].seen
  OBVIOUS
<1>1. /\ id \in RunId /\ id \notin Runs /\ Planned(id, S, R, K)
      /\ Runs' = Runs \cup {id} /\ Assigned' = Assigned \cup Creates(id)
      /\ \A i \in Runs : runs'[i] = runs[i] /\ seen'[i] = seen[i]
      /\ runs'[id].superseded = S /\ runs'[id].reaffirmed = R /\ seen'[id] = K
      /\ \A a \in Creates(id) : a \notin Assigned /\ superseded_at'[a] = NULL
  BY CommitWrites
<1>2. /\ \A a \in S : a \in Assigned /\ superseded_at[a] \in {NULL, RecordedAt(id.at)}
      /\ \A a \in S : superseded_at'[a] = RecordedAt(id.at)
      /\ \A a \in Assigned \ S : superseded_at'[a] = superseded_at[a]
      /\ \A a \in Creates(id) : RoomFor(a.observed, S, RecordedAt(id.at))
      /\ call' = [call EXCEPT ![p] = Idle]
  BY CommitWrites
<1>3. RecordedAt(id.at) \in Nat /\ RecordedAt(id.at) # NULL
  BY <1>1, RunTyped
<1>4. AssignedByRuns'
  <2>1. ASSUME NEW a \in Assigned' PROVE a.run \in Runs' /\ a \in Creates(a.run)
    BY <1>1, CreatesOf DEF ReviewInv, AssignedByRuns
  <2>2. \A i \in Runs' : Creates(i) \subseteq Assigned'
    BY <1>1 DEF ReviewInv, AssignedByRuns
  <2>3. Runs' \subseteq RunId
    BY <1>1 DEF ReviewInv, AssignedByRuns
  <2>4. \A i : Creates(i)' = Creates(i)
    BY DEF Creates, Matched, IsMatch, Covered
  <2>. QED
    BY <2>1, <2>2, <2>3, <2>4 DEF AssignedByRuns
<1>5. ASSUME NEW i, NEW T, NEW Q, NEW L, Planned(i, T, Q, L) PROVE Planned(i, T, Q, L)'
  <2>1. \A a \in Assigned' \ Assigned : a.run \notin Runs
    BY <1>1, CreatesOf
  <2>2. /\ Runs \subseteq Runs' /\ Assigned \subseteq Assigned'
        /\ \A j \in Runs : runs'[j].superseded = runs[j].superseded
    BY <1>1
  <2>. QED
    BY <1>5, <2>1, <2>2, PlannedStays
<1>6. ASSUME NEW i \in Runs' PROVE Committed(i)'
  <2>1. CASE i = id
    <3>1. id \notin K
      BY <1>1 DEF Planned
    <3>2. Planned(id, S, R, K)'
      BY <1>1, <1>5
    <3>. QED
      BY <1>1, <2>1, <3>1, <3>2 DEF Committed
  <2>2. CASE i # id
    <3>1. i \in Runs /\ Committed(i)
      BY <1>1, <2>2 DEF ReviewInv
    <3>2. Planned(i, runs[i].superseded, runs[i].reaffirmed, seen[i])'
      BY <1>1, <1>5, <3>1 DEF Committed
    <3>3. runs'[i] = runs[i] /\ seen'[i] = seen[i]
      BY <1>1, <3>1
    <3>. QED
      BY <3>1, <3>2, <3>3 DEF Committed
  <2>. QED
    BY <2>1, <2>2
<1>7. ASSUME NEW q \in Process PROVE Planning(q)'
  <2>1. CASE q = p
    BY <1>2, <2>1 DEF Planning, Idle, ReviewInv
  <2>2. CASE q # p
    <3>1. call'[q] = call[q] /\ Planning(q)
      BY <1>2, <2>2 DEF ReviewInv
    <3>. QED
      BY <1>5, <3>1 DEF Planning
  <2>. QED
    BY <2>1, <2>2
<1>8. EndedByRuns'
  <2>1. ASSUME NEW i \in Runs', NEW a \in runs'[i].superseded
        PROVE  superseded_at'[a] = RecordedAt(i.at)
    <3>1. CASE i = id
      BY <1>1, <1>2, <2>1, <3>1
    <3>2. CASE i # id
      <4>1. i \in Runs /\ a \in runs[i].superseded
        BY <1>1, <2>1, <3>2
      <4>2. superseded_at[a] = RecordedAt(i.at) /\ a \in Assigned
        BY <4>1 DEF ReviewInv, EndedByRuns, Committed, Planned
      <4>3. superseded_at[a] # NULL
        BY <4>1, <4>2, RunTyped DEF ReviewInv, AssignedByRuns
      <4>. QED
        BY <1>2, <4>2, <4>3
    <3>. QED
      BY <3>1, <3>2
  <2>2. ASSUME NEW a \in Assigned', superseded_at'[a] # NULL
        PROVE  \E i \in Runs' : a \in runs'[i].superseded
    <3>1. CASE a \in S
      BY <1>1, <3>1
    <3>2. CASE a \notin S
      <4>1. a \in Assigned /\ superseded_at[a] # NULL
        BY <1>1, <1>2, <2>2, <3>2
      <4>. QED
        BY <1>1, <4>1 DEF ReviewInv, EndedByRuns
    <3>. QED
      BY <3>1, <3>2
  <2>. QED
    BY <2>1, <2>2 DEF EndedByRuns
<1>9. Apart'
  <2>1. ASSUME NEW a \in Assigned, NEW b, Before(a, b) PROVE Before(a, b)'
    BY <1>2, <2>1 DEF Before
  <2>2. ASSUME NEW a \in Assigned, NEW b \in Creates(id), a.observed = b.observed
        PROVE  Before(a, b)'
    <3>1. b.run = id
      BY CreatesOf
    <3>2. CASE a \in S
      BY <1>2, <1>3, <3>1, <3>2 DEF Before
    <3>3. CASE a \notin S
      BY <1>2, <2>2, <3>1, <3>3 DEF Before, RoomFor
    <3>. QED
      BY <3>2, <3>3
  <2>3. ASSUME NEW a \in Creates(id), NEW b \in Creates(id), a.observed = b.observed PROVE a = b
    BY <2>3 DEF Creates
  <2>4. ASSUME NEW a \in Assigned', NEW b \in Assigned', a # b, a.observed = b.observed
        PROVE  Before(a, b)' \/ Before(b, a)'
    <3>1. CASE a \in Assigned /\ b \in Assigned
      BY <2>1, <2>4, <3>1 DEF ReviewInv, Apart
    <3>2. CASE a \in Creates(id) \/ b \in Creates(id)
      BY <1>1, <2>2, <2>3, <2>4, <3>2
    <3>. QED
      BY <1>1, <3>1, <3>2
  <2>. QED
    BY <2>4 DEF Apart
<1>10. call' = [q \in Process |-> call'[q]]
  BY <1>2 DEF ReviewInv
<1>. QED
  BY <1>4, <1>6, <1>7, <1>8, <1>9, <1>10 DEF ReviewInv

LEMMA ReviewStutter ==
  ASSUME ReviewInv, UNCHANGED <<runs, superseded_at, call, seen>>
  PROVE  ReviewInv'
<1>1. Runs' = Runs /\ Assigned' = Assigned
  BY DEF Runs, Assigned
<1>2. \A id, S, R, K : Planned(id, S, R, K) => Planned(id, S, R, K)'
  BY <1>1 DEF Planned
<1>3. \A i \in Runs' : Committed(i)'
  BY <1>1, <1>2 DEF ReviewInv, Committed
<1>4. \A p \in Process : Planning(p)'
  BY <1>2 DEF ReviewInv, Planning
<1>5. AssignedByRuns' /\ EndedByRuns' /\ Apart'
  BY <1>1 DEF ReviewInv, AssignedByRuns, EndedByRuns, Apart, Before
<1>6. call' = [p \in Process |-> call'[p]]
  BY DEF ReviewInv
<1>. QED
  BY <1>3, <1>4, <1>5, <1>6 DEF ReviewInv

LEMMA NextReviewInv ==
  ASSUME ReviewInv, Next
  PROVE  ReviewInv'
<1>1. CASE \E a \in Artifact, t \in RefreshTimes : Refresh(a, t)
  <2>1. UNCHANGED <<runs, superseded_at, call, seen>>
    BY <1>1 DEF Refresh
  <2>. QED
    BY <2>1, ReviewStutter
<1>2. ASSUME NEW p \in Process, NEW r \in Review, NEW t \in AcceptTimes, NEW s \in BOOLEAN,
             Begin(p, r, t, s)
      PROVE  ReviewInv'
  <2>. PICK c : c = [step |-> "plan", id |-> [review |-> r, at |-> t, stale |-> s]]
    OBVIOUS
  <2>1. call' = [call EXCEPT ![p] = c] /\ UNCHANGED <<runs, superseded_at, seen>>
    BY <1>2 DEF Begin
  <2>2. c.step = "plan" /\ c.id \in RunId
    BY DEF RunId
  <2>. QED
    BY <2>1, <2>2, CallStep
<1>3. ASSUME NEW p \in Process, Abort(p) PROVE ReviewInv'
  <2>1. call' = [call EXCEPT ![p] = Idle] /\ UNCHANGED <<runs, superseded_at, seen>>
    BY <1>3 DEF Abort
  <2>2. Idle.step = "idle"
    BY DEF Idle
  <2>. QED
    BY <2>1, <2>2, CallStep
<1>. QED
  BY <1>1, <1>2, <1>3, PlanReviewInv, CommitReviewInv DEF Next

-----------------------------------------------------------------------------
(* What follows of facility reviews. *)

LEMMA LatestShown ==
  ASSUME ReviewInv, NEW o, NEW k \in Nat, NEW id \in Latest(o, k),
         InClockOrder(id, o) \/ (IsMatch(id.review, o) /\ ~id.stale)
  PROVE  ShownTargets(o, k) = Says(id, o)
<1>. DEFINE Shown == {b \in Assigned : /\ b.observed = o /\ RecordedAt(b.run.at) <= k
                                       /\ superseded_at[b] # NULL => k < superseded_at[b]}
<1>1. /\ id \in Runs /\ o \in Covered(id.review) /\ RecordedAt(id.at) <= k
      /\ \A j \in Runs : o \in Covered(j.review) /\ j # id /\ RecordedAt(j.at) <= k =>
           j.at < id.at
  BY DEF Latest, About
<1>2. /\ id \in RunId /\ id \notin seen[id]
      /\ Planned(id, runs[id].superseded, runs[id].reaffirmed, seen[id])
  BY <1>1 DEF ReviewInv, AssignedByRuns, Committed
<1>3. \A i \in Runs : i.at \in Nat /\ RecordedAt(i.at) = i.at + 3 /\ RecordedAt(i.at) # NULL
  BY RunTyped DEF ReviewInv, AssignedByRuns, RecordedAt
<1>4. ASSUME NEW a \in Assigned
      PROVE  /\ a.run \in Runs /\ a.observed \in Covered(a.run.review)
             /\ IsMatch(a.run.review, a.observed)
  BY CreatesOf DEF ReviewInv, AssignedByRuns
\* An assignment is ended by a run about its facility.
<1>5. ASSUME NEW i \in Runs, NEW a \in runs[i].superseded
      PROVE  a.observed \in Covered(i.review) /\ superseded_at[a] = RecordedAt(i.at)
             /\ a.run.at < i.at
  BY DEF ReviewInv, Committed, Planned, EndedByRuns
<1>6. ASSUME NEW a \in Shown, NEW b \in Shown PROVE a = b
  <2>1. \A x, y \in Shown : ~Before(x, y)
    <3>. SUFFICES ASSUME NEW x \in Shown, NEW y \in Shown, Before(x, y) PROVE FALSE
      OBVIOUS
    <3>1. PICK i \in Runs : x \in runs[i].superseded
      BY DEF Before, ReviewInv, EndedByRuns
    <3>2. superseded_at[x] = RecordedAt(i.at) /\ RecordedAt(y.run.at) <= k /\ y.run \in Runs
      BY <1>4, <1>5, <3>1
    <3>. QED
      BY <1>3, <3>2 DEF Before
  <2>. QED
    BY <2>1 DEF ReviewInv, Apart
\* An assignment of the facility that is recorded by k and not ended by an earlier run than id
\* is shown, unless id ends it.
<1>7. ASSUME NEW a \in Assigned, a.observed = o, RecordedAt(a.run.at) <= k,
             a \notin runs[id].superseded,
             \A i \in Runs : a \in runs[i].superseded => ~(i.at < id.at)
      PROVE  a \in Shown
  <2>. SUFFICES ASSUME superseded_at[a] # NULL PROVE k < superseded_at[a]
    BY <1>7
  <2>1. PICK i \in Runs : a \in runs[i].superseded
    BY DEF ReviewInv, EndedByRuns
  <2>2. i # id /\ o \in Covered(i.review) /\ superseded_at[a] = RecordedAt(i.at) /\ ~(i.at < id.at)
    BY <1>5, <1>7, <2>1
  <2>3. ~(RecordedAt(i.at) <= k)
    BY <1>1, <2>2
  <2>. QED
    BY <1>3, <2>2, <2>3
<1>8. CASE IsMatch(id.review, o) /\ ~id.stale
  <2>. PICK a : a = [run |-> id, observed |-> o]
    OBVIOUS
  <2>1. a \in Creates(id) /\ a.run = id /\ a.observed = o
    BY <1>1, <1>8, CreatesTheMatches
  <2>2. a \in Assigned
    BY <1>1, <2>1 DEF ReviewInv, AssignedByRuns
  <2>3. \A i \in Runs : a \in runs[i].superseded => id.at < i.at
    BY <1>5, <2>1
  <2>4. a \in Shown
    BY <1>1, <1>3, <1>7, <2>1, <2>2, <2>3
  <2>5. Shown = {a}
    BY <1>6, <2>4
  <2>. QED
    BY <1>8, <2>1, <2>5 DEF ShownTargets, Says
<1>9. CASE InClockOrder(id, o)
  <2>. DEFINE S == runs[id].superseded
              R == runs[id].reaffirmed
  <2>1. \A i \in Runs : o \in Covered(i.review) /\ i # id => (i.at < id.at <=> i \in seen[id])
    BY <1>9 DEF InClockOrder, About
  <2>2. ASSUME NEW b \in Shown, b.run # id PROVE b \in R
    <3>1. b \in Assigned /\ b.observed = o /\ RecordedAt(b.run.at) <= k
      OBVIOUS
    <3>2. b.run \in seen[id]
      BY <1>1, <1>4, <2>1, <2>2, <3>1
    <3>3. b \in S \/ b \in R \/ \E i \in seen[id] : b \in runs[i].superseded
      BY <1>1, <1>2, <3>1, <3>2 DEF Planned
    <3>4. ASSUME NEW i \in Runs, b \in runs[i].superseded, i = id \/ i \in seen[id] PROVE FALSE
      <4>1. superseded_at[b] = RecordedAt(i.at) /\ o \in Covered(i.review)
        BY <1>5, <3>1, <3>4
      <4>2. i.at <= id.at
        BY <1>1, <1>3, <2>1, <3>4, <4>1
      <4>3. superseded_at[b] <= k /\ superseded_at[b] # NULL
        BY <1>1, <1>3, <4>1, <4>2
      <4>. QED
        BY <1>1, <1>3, <4>1, <4>3
    <3>. QED
      BY <1>1, <1>2, <3>3, <3>4 DEF Planned
  <2>3. ASSUME NEW a \in R PROVE /\ a \in Assigned /\ a \notin S /\ a.run \in seen[id] /\ id.stale
                                 /\ Own(a, id.review) /\ IsMatch(id.review, a.observed)
    BY <1>2 DEF Planned
  <2>4. ASSUME NEW a \in R, a.observed = o PROVE a \in Shown
    <3>1. a \in Assigned /\ a \notin S /\ a.run \in seen[id] /\ a.run \in Runs
          /\ o \in Covered(a.run.review)
      BY <1>4, <2>3, <2>4
    <3>2. a.run.at < id.at
      BY <1>2, <2>1, <3>1
    <3>3. RecordedAt(a.run.at) <= k
      BY <1>1, <1>3, <3>1, <3>2
    <3>4. ASSUME NEW i \in Runs, a \in runs[i].superseded PROVE ~(i.at < id.at)
      <4>1. i \notin seen[id] /\ i # id
        BY <1>2, <3>1, <3>4 DEF Planned
      <4>. QED
        BY <1>5, <2>1, <2>4, <3>4, <4>1
    <3>. QED
      BY <1>7, <2>4, <3>1, <3>3, <3>4
  <2>5. CASE IsMatch(id.review, o) /\ id.stale
    <3>1. PICK a \in R : a.observed = o
      BY <1>1, <1>2, <2>5 DEF Planned, Matched
    <3>2. Shown = {a}
      BY <1>6, <2>4, <3>1
    <3>3. TargetOf[ArtifactOf[a.run.review]][o] = TargetOf[ArtifactOf[id.review]][o]
      BY <2>3, <3>1 DEF Own
    <3>. QED
      BY <2>5, <3>2, <3>3 DEF ShownTargets, Says
  <2>6. CASE ~IsMatch(id.review, o)
    <3>1. \A b \in Shown : b.run # id
      BY <1>4, <2>6
    <3>2. Shown = {}
      BY <2>2, <2>3, <2>6, <3>1
    <3>. QED
      BY <2>6, <3>2 DEF ShownTargets, Says
  <2>. QED
    BY <1>2, <1>8, <2>5, <2>6, RunTyped
<1>. QED
  BY <1>8, <1>9

LEMMA ReplaysOfReviews ==
  ASSUME ReviewInv
  PROVE  ReplayVerifiesLater
<1>. SUFFICES ASSUME NEW id \in Runs,
                     \A a \in CreatedBy(id) \cup runs[id].reaffirmed, i \in Runs :
                       a \in runs[i].superseded => i.at > RecordedAt(a.run.at)
              PROVE  ReplayVerifies(id)
  BY DEF ReplayVerifiesLater
<1>1. CreatedBy(id) = Creates(id)
  BY CreatesOf DEF CreatedBy, ReviewInv, AssignedByRuns
<1>2. Planned(id, runs[id].superseded, runs[id].reaffirmed, seen[id])
  BY DEF ReviewInv, Committed
<1>3. ASSUME NEW a \in CreatedBy(id) \cup runs[id].reaffirmed, superseded_at[a] # NULL
      PROVE  Proven(a)
  <2>1. a \in Assigned
    BY <1>2 DEF Planned, CreatedBy
  <2>2. PICK i \in Runs : a \in runs[i].superseded
    BY <1>3, <2>1 DEF ReviewInv, EndedByRuns
  <2>3. i.at > RecordedAt(a.run.at) /\ superseded_at[a] = RecordedAt(i.at)
    BY <1>3, <2>2 DEF ReviewInv, EndedByRuns
  <2>. QED
    BY <2>2, <2>3 DEF Proven, StartedLater
<1>4. \A a \in runs[id].superseded : superseded_at[a] = RecordedAt(id.at)
  BY DEF ReviewInv, EndedByRuns
<1>. QED
  BY <1>1, <1>2, <1>3, <1>4 DEF ReplayVerifies, Planned

\* Only a commit stores assignments, and it verifies the evidence at their clock.
LEMMA StoresCurrentOnly ==
  ASSUME ReviewInv, Next, NEW a \in Assigned' \ Assigned,
         evidence_ended[ArtifactOf[a.run.review]] # NULL
  PROVE  evidence_ended[ArtifactOf[a.run.review]] > RecordedAt(a.run.at)
<1>1. ~UNCHANGED superseded_at
  BY DEF Assigned
<1>2. PICK p \in Process : Commit(p)
  BY <1>1 DEF Next, Refresh, Begin, Plan, Abort
<1>. PICK id, S, R : id = call[p].id /\ S = call[p].superseded /\ R = call[p].reaffirmed
  OBVIOUS
<1>3. id \in RunId /\ Assigned' = Assigned \cup Creates(id) /\ EvidenceStands(id)
  BY <1>2, CommitWrites
<1>4. a.run = id /\ ~id.stale
  BY <1>3, CreatesOf
<1>5. id.stale = FALSE
  BY <1>3, <1>4, RunTyped
<1>6. Current(ArtifactOf[id.review], RecordedAt(id.at))
  BY <1>3, <1>5 DEF EvidenceStands, Current
<1>. QED
  BY <1>4, <1>6 DEF Current

-----------------------------------------------------------------------------
(* Link reviews. *)

LinkId(id) ==
  /\ DOMAIN id = {"artifact", "valid_from", "at"}
  /\ id.at \in Nat /\ id.artifact.cutoff \in Nat

\* The links are those of the runs that keep their own: matches that restate none.
Restated(i) == links[i].kept \ {i}

StoredByRuns ==
  /\ IsFiniteSet(Stored)
  /\ \A i \in LinkRuns : LinkId(i)
  /\ Stored = {i \in LinkRuns : i \in links[i].kept}
  /\ \A i \in LinkRuns : i \in links[i].kept <=> Matches(i) /\ Restated(i) = {}

SameSubject(i, l) == Subject(i.artifact) = Subject(l.artifact)

\* Run i ends link l: as it declares, or because the link was not there when i was planned.
Ends(i, l) ==
  /\ SameSubject(i, l) /\ l.at < i.at
  /\ link_ended[l] = RecordedAt(i.at)
  /\ l \in links[i].superseded \/ (i \in links[i].kept /\ l \notin known[i])

\* What a link review read when the runs K had committed: S and R are the open links of its
\* subject, and all others had been ended by a run of K.
LinkPlanned(id, S, R, K) ==
  /\ LinkId(id)
  /\ K \subseteq Runs \cup LinkRuns
  /\ \A j \in K \cap LinkRuns : known[j] \subseteq K
  /\ S \cap R = {}
  /\ \A l \in S \cup R : l \in Stored \cap K /\ SameSubject(id, l) /\ l.at < id.at
  /\ R # {} => S = {}
  /\ \A l \in R : l.valid_from = id.valid_from
  /\ \A l \in Stored \cap K : SameSubject(id, l) =>
       l \in S \/ l \in R \/ \E i \in K \cap LinkRuns : Ends(i, l)

\* A link that is kept is ended by a run that was not read.
KeptUntil(Kept, K) ==
  \A l \in Kept : link_ended[l] # NULL => \E i \in LinkRuns \ K : Ends(i, l)

LinkCommitted(i) ==
  /\ i \notin known[i]
  /\ LinkPlanned(i, links[i].superseded, Restated(i), known[i])
  /\ \A l \in links[i].superseded : link_ended[l] = RecordedAt(i.at)
  /\ KeptUntil(links[i].kept, known[i] \cup {i})

LinkPlanning(c) ==
  /\ c.step = "plan link" => LinkId(c.id)
  /\ c.step = "commit link" =>
       /\ LinkPlanned(c.id, c.superseded, c.reaffirmed, c.known)
       /\ KeptUntil(c.reaffirmed, c.known)

LinksEnded ==
  \A l \in Stored : link_ended[l] # NULL => \E i \in LinkRuns : Ends(i, l)

\* Unless a facility review is dated back behind the cutoff, the proposal can be made again.
Reproposed(i) ==
  (\A r \in Runs \ known[i] : RecordedAt(r.at) > i.artifact.cutoff) =>
    i.artifact \in Proposed(i.artifact.cutoff)

LinkInv ==
  /\ StoredByRuns
  /\ \A i \in LinkRuns : LinkCommitted(i) /\ Reproposed(i)
  /\ \A p \in Process : LinkPlanning(call[p])
  /\ LinksEnded

IInv == ReviewInv /\ LinkInv

-----------------------------------------------------------------------------
LEMMA LinkTyped ==
  ASSUME NEW id, LinkId(id)
  PROVE  id.at \in Nat /\ RecordedAt(id.at) = id.at + 3 /\ RecordedAt(id.at) # NULL
<1>1. id.at + 3 \in Nat
  BY DEF LinkId
<1>. QED
  BY <1>1, ClockAssumption DEF LinkId, RecordedAt

\* Runs of the two kinds have different fields.
LEMMA KindsApart ==
  ASSUME NEW id, LinkId(id)
  PROVE  id \notin RunId
<1>. SUFFICES ASSUME id \in RunId PROVE FALSE
  OBVIOUS
<1>1. DOMAIN id = {"review", "at", "stale"}
  BY DEF RunId
<1>2. "review" \notin {"artifact", "valid_from", "at"}
  OBVIOUS
<1>. QED
  BY <1>1, <1>2 DEF LinkId

LEMMA InitLinkInv == LinkInit => IInv
<1>. SUFFICES ASSUME LinkInit PROVE IInv
  OBVIOUS
<1>1. LinkRuns = {} /\ Stored = {}
  BY DEF LinkInit, LinkRuns, Stored
<1>2. \A p \in Process : LinkPlanning(call[p])
  BY DEF LinkInit, Init, Idle, LinkPlanning
<1>3. ReviewInv
  BY InitReviewInv DEF LinkInit
<1>. QED
  BY <1>1, <1>2, <1>3, FS_EmptySet DEF IInv, LinkInv, StoredByRuns, LinksEnded

\* What was read of links stays true while facility reviews commit.
LEMMA LinkPlannedStays ==
  ASSUME NEW id, NEW S, NEW R, NEW K, LinkPlanned(id, S, R, K),
         UNCHANGED <<links, link_ended, known>>, Runs \subseteq Runs'
  PROVE  LinkPlanned(id, S, R, K)'
<1>1. LinkRuns' = LinkRuns /\ Stored' = Stored
  BY DEF LinkRuns, Stored
<1>2. \A i, l : Ends(i, l)' <=> Ends(i, l)
  BY DEF Ends, SameSubject, Subject
<1>3. \A i, l : SameSubject(i, l)' <=> SameSubject(i, l)
  BY DEF SameSubject, Subject
<1>4. known' = known
  OBVIOUS
<1>. QED
  BY <1>1, <1>2, <1>3, <1>4 DEF LinkPlanned, LinkId

\* A step that leaves the links alone.
LEMMA LinkFrame ==
  ASSUME LinkInv, UNCHANGED <<links, link_ended, known>>, Runs \subseteq Runs',
         \A q \in Process : call'[q] = call[q] \/ LinkPlanning(call'[q]),
         \A i \in LinkRuns : Reproposed(i)'
  PROVE  LinkInv'
<1>1. LinkRuns' = LinkRuns /\ Stored' = Stored
  BY DEF LinkRuns, Stored
<1>2. \A i, l : Ends(i, l)' <=> Ends(i, l)
  BY DEF Ends, SameSubject, Subject
<1>3. known' = known /\ links' = links /\ link_ended' = link_ended
  OBVIOUS
<1>4. \A T, K : KeptUntil(T, K) => KeptUntil(T, K)'
  BY <1>1, <1>2, <1>3 DEF KeptUntil
<1>5. \A i : Restated(i)' = Restated(i)
  BY <1>3 DEF Restated
<1>6. \A id, S, R, K : LinkPlanned(id, S, R, K) => LinkPlanned(id, S, R, K)'
  BY LinkPlannedStays
<1>7. ASSUME NEW i \in LinkRuns' PROVE LinkCommitted(i)'
  <2>1. LinkCommitted(i)
    BY <1>1 DEF LinkInv
  <2>2. LinkPlanned(i, links[i].superseded, Restated(i), known[i])'
    BY <1>3, <1>5, <1>6, <2>1 DEF LinkCommitted
  <2>3. KeptUntil(links[i].kept, known[i] \cup {i})'
    BY <1>3, <1>4, <2>1 DEF LinkCommitted
  <2>. QED
    BY <1>3, <2>1, <2>2, <2>3 DEF LinkCommitted
<1>8. ASSUME NEW q \in Process PROVE LinkPlanning(call[q])'
  BY <1>4, <1>6 DEF LinkPlanning, LinkInv
<1>9. StoredByRuns' /\ LinksEnded'
  BY <1>1, <1>2, <1>3, <1>5 DEF LinkInv, StoredByRuns, LinksEnded, LinkId, Matches
<1>. QED
  BY <1>1, <1>7, <1>8, <1>9 DEF LinkInv

LEMMA LinkStutter ==
  ASSUME LinkInv, UNCHANGED <<links, link_ended, known, runs, superseded_at>>,
         \A q \in Process : call'[q] = call[q] \/ LinkPlanning(call'[q])
  PROVE  LinkInv'
<1>1. Runs' = Runs /\ Assigned' = Assigned
  BY DEF Runs, Assigned
<1>2. \A k : Proposed(k)' = Proposed(k)
  BY <1>1 DEF Proposed, AssignmentsAsOf
<1>3. known' = known /\ LinkRuns' = LinkRuns
  BY DEF LinkRuns
<1>4. ASSUME NEW i \in LinkRuns PROVE Reproposed(i)'
  BY <1>1, <1>2, <1>3 DEF LinkInv, Reproposed
<1>. QED
  BY <1>1, <1>4, LinkFrame

\* A facility review that is recorded after a cutoff leaves what was assigned as of it.
LEMMA CommitKeepsPast ==
  ASSUME ReviewInv, NEW p \in Process, Commit(p), NEW k \in Nat,
         RecordedAt(call[p].id.at) > k
  PROVE  Proposed(k)' = Proposed(k)
<1>. PICK id, S, R : id = call[p].id /\ S = call[p].superseded /\ R = call[p].reaffirmed
  OBVIOUS
<1>1. /\ Assigned' = Assigned \cup Creates(id)
      /\ \A a \in Creates(id) : a \notin Assigned /\ superseded_at'[a] = NULL
      /\ \A a \in S : a \in Assigned /\ superseded_at[a] \in {NULL, RecordedAt(id.at)}
      /\ \A a \in S : superseded_at'[a] = RecordedAt(id.at)
      /\ \A a \in Assigned \ S : superseded_at'[a] = superseded_at[a]
  BY CommitWrites
<1>2. \A a \in Creates(id) : a.run = id
  BY CreatesOf
<1>3. ASSUME NEW a \in Assigned
      PROVE  (superseded_at'[a] # NULL => superseded_at'[a] > k) <=>
             (superseded_at[a] # NULL => superseded_at[a] > k)
  <2>1. CASE a \in S
    BY <1>1, <2>1
  <2>2. CASE a \notin S
    BY <1>1, <2>2
  <2>. QED
    BY <2>1, <2>2
<1>4. ~(RecordedAt(id.at) <= k)
  <2>1. RecordedAt(id.at) \in Nat
    BY CommitWrites, RunTyped
  <2>. QED
    BY <2>1
<1>5. AssignmentsAsOf(k)' = AssignmentsAsOf(k)
  BY <1>1, <1>2, <1>3, <1>4 DEF AssignmentsAsOf
<1>. QED
  BY <1>5 DEF Proposed

LEMMA CommitKeepsLinks ==
  ASSUME ReviewInv, LinkInv, NEW p \in Process, Commit(p), UNCHANGED linkVars
  PROVE  LinkInv'
<1>. PICK id : id = call[p].id
  OBVIOUS
<1>1. id \in RunId /\ id \notin Runs /\ Runs' = Runs \cup {id}
      /\ call' = [call EXCEPT ![p] = Idle]
  BY CommitWrites
<1>2. \A q \in Process : call'[q] = call[q] \/ call'[q] = Idle
  BY <1>1 DEF ReviewInv
<1>3. LinkPlanning(Idle)
  BY DEF LinkPlanning, Idle
<1>4. known' = known
  BY DEF linkVars
<1>5. ASSUME NEW i \in LinkRuns PROVE Reproposed(i)'
  <2>. PICK k : k = i.artifact.cutoff
    OBVIOUS
  <2>1. id \notin known[i]
    <3>1. known[i] \subseteq Runs \cup LinkRuns
      BY DEF LinkInv, LinkCommitted, LinkPlanned
    <3>2. id \notin LinkRuns
      BY <1>1, KindsApart DEF LinkInv, StoredByRuns
    <3>. QED
      BY <1>1, <3>1, <3>2
  <2>. SUFFICES ASSUME \A r \in Runs' \ known[i] : RecordedAt(r.at) > k
                PROVE  i.artifact \in Proposed(k)'
    BY <1>4 DEF Reproposed
  <2>2. RecordedAt(id.at) > k
    BY <1>1, <2>1
  <2>3. i.artifact \in Proposed(k)
    BY <1>1 DEF LinkInv, Reproposed
  <2>4. k \in Nat
    BY DEF LinkInv, StoredByRuns, LinkId
  <2>5. Proposed(k)' = Proposed(k)
    BY <2>2, <2>4, CommitKeepsPast
  <2>. QED
    BY <2>3, <2>5
<1>. QED
  BY <1>1, <1>2, <1>3, <1>5, LinkFrame DEF linkVars

LEMMA ReviewStepLinkInv ==
  ASSUME ReviewInv, LinkInv, Next, UNCHANGED linkVars
  PROVE  LinkInv'
<1>1. CASE \E a \in Artifact, t \in RefreshTimes : Refresh(a, t)
  BY <1>1, LinkStutter DEF Refresh, linkVars
<1>2. ASSUME NEW p \in Process, NEW c, c.step \notin {"plan link", "commit link"},
             call' = [call EXCEPT ![p] = c], UNCHANGED <<runs, superseded_at>>
      PROVE  LinkInv'
  <2>1. LinkPlanning(c)
    BY <1>2 DEF LinkPlanning
  <2>2. \A q \in Process : call'[q] = call[q] \/ call'[q] = c
    BY <1>2 DEF ReviewInv
  <2>. QED
    BY <1>2, <2>1, <2>2, LinkStutter DEF linkVars
<1>3. ASSUME NEW p \in Process, NEW r \in Review, NEW t \in AcceptTimes, NEW s \in BOOLEAN,
             Begin(p, r, t, s)
      PROVE  LinkInv'
  <2>. PICK c : c = [step |-> "plan", id |-> [review |-> r, at |-> t, stale |-> s]]
    OBVIOUS
  <2>1. call' = [call EXCEPT ![p] = c] /\ UNCHANGED <<runs, superseded_at>>
    BY <1>3 DEF Begin
  <2>. QED
    BY <1>2, <2>1
<1>4. ASSUME NEW p \in Process, Plan(p) PROVE LinkInv'
  <2>. PICK c : c = [step |-> "commit", id |-> call[p].id, superseded |-> Superseding(call[p].id),
                     reaffirmed |-> Reaffirming(call[p].id), seen |-> Runs]
    OBVIOUS
  <2>1. call' = [call EXCEPT ![p] = c] /\ UNCHANGED <<runs, superseded_at>>
    BY <1>4 DEF Plan
  <2>. QED
    BY <1>2, <2>1
<1>5. ASSUME NEW p \in Process, Abort(p) PROVE LinkInv'
  <2>1. call' = [call EXCEPT ![p] = Idle] /\ UNCHANGED <<runs, superseded_at>>
    BY <1>5 DEF Abort
  <2>2. Idle.step \notin {"plan link", "commit link"}
    BY DEF Idle
  <2>. QED
    BY <1>2, <2>1, <2>2
<1>. QED
  BY <1>1, <1>3, <1>4, <1>5, CommitKeepsLinks DEF Next

LEMMA RecordedInOrder ==
  ASSUME NEW s \in Nat, NEW t \in Nat
  PROVE  RecordedAt(s) < RecordedAt(t) <=> s < t
BY DEF RecordedAt

LEMMA ProposedAsOf ==
  ASSUME NEW k, NEW x \in Proposed(k)
  PROVE  x.cutoff = k
<1>1. PICK T : x \in {[cutoff |-> k, assignment |-> a] : a \in T}
  <2>. DEFINE T == IF AssignmentsAsOf(k) = {} THEN {NULL} ELSE AssignmentsAsOf(k)
  <2>1. x \in IF Cardinality(AssignmentsAsOf(k)) > 1 THEN {}
              ELSE {[cutoff |-> k, assignment |-> a] : a \in T}
    BY DEF Proposed
  <2>. HIDE DEF T
  <2>. QED
    BY <2>1
<1>. QED
  BY <1>1

LEMMA BeginLinkInv ==
  ASSUME IInv, NEW p \in Process, NEW k \in Cutoffs, NEW from, NEW t \in AcceptTimes,
         BeginLink(p, k, from, t)
  PROVE  IInv'
<1>1. PICK x \in Proposed(k) :
        call' = [call EXCEPT ![p] = [step |-> "plan link",
                                     id |-> [artifact |-> x, valid_from |-> from, at |-> t]]]
  BY DEF BeginLink
<1>. PICK id, c : id = [artifact |-> x, valid_from |-> from, at |-> t] /\
                  c = [step |-> "plan link", id |-> id]
  OBVIOUS
<1>2. call' = [call EXCEPT ![p] = c] /\ c.step = "plan link" /\ c.id = id
  BY <1>1
<1>3. x.cutoff = k
  BY ProposedAsOf
<1>4. LinkId(id)
  <2>1. DOMAIN id = {"artifact", "valid_from", "at"} /\ id.at = t /\ id.artifact = x
    OBVIOUS
  <2>2. id.at \in Nat /\ id.artifact.cutoff \in Nat
    BY <1>3, <2>1, ClockAssumption, LinkAssumption
  <2>. QED
    BY <2>1, <2>2 DEF LinkId
<1>5. LinkPlanning(c)
  BY <1>2, <1>4 DEF LinkPlanning
<1>6. UNCHANGED <<runs, superseded_at, seen, linkVars>>
  BY DEF BeginLink
<1>7. \A q \in Process : call'[q] = call[q] \/ call'[q] = c
  BY <1>2 DEF IInv, ReviewInv
<1>8. ReviewInv'
  BY <1>2, <1>6, CallStep DEF IInv
<1>9. LinkInv'
  BY <1>5, <1>6, <1>7, LinkStutter DEF IInv, linkVars
<1>. QED
  BY <1>8, <1>9 DEF IInv

LEMMA PlanLinkInv ==
  ASSUME IInv, NEW p \in Process, PlanLink(p)
  PROVE  IInv'
<1>. PICK id, S, R, K, c :
       /\ id = call[p].id /\ S = SupersededLinks(id) /\ R = ReaffirmedLinks(id)
       /\ K = Runs \cup LinkRuns
       /\ c = [step |-> "commit link", id |-> id, superseded |-> S, reaffirmed |-> R, known |-> K]
  OBVIOUS
<1>. PICK open : open = OpenLinks(Subject(id.artifact))
  OBVIOUS
<1>1. /\ call[p].step = "plan link" /\ call' = [call EXCEPT ![p] = c]
      /\ \A l \in open : RecordedAt(l.at) < RecordedAt(id.at)
      /\ UNCHANGED <<runs, superseded_at, seen, linkVars>>
  BY DEF PlanLink
<1>2. /\ c.step = "commit link" /\ c.id = id /\ c.superseded = S /\ c.reaffirmed = R
      /\ c.known = K
  OBVIOUS
<1>3. LinkId(id)
  BY <1>1 DEF IInv, LinkInv, LinkPlanning
<1>4. S = open \ R /\ R \subseteq open
  BY DEF SupersededLinks, ReaffirmedLinks
<1>5. ASSUME NEW l \in open
      PROVE  /\ l \in Stored \cap K /\ SameSubject(id, l) /\ l.at < id.at
             /\ link_ended[l] = NULL
  <2>1. l \in Stored /\ SameSubject(id, l) /\ link_ended[l] = NULL
    BY DEF OpenLinks, SameSubject
  <2>2. l \in LinkRuns /\ LinkId(l)
    BY <2>1 DEF IInv, LinkInv, StoredByRuns
  <2>3. l.at < id.at
    <3>1. RecordedAt(l.at) < RecordedAt(id.at)
      BY <1>1
    <3>2. l.at \in Nat /\ id.at \in Nat
      BY <1>3, <2>2, LinkTyped
    <3>. QED
      BY <3>1, <3>2, RecordedInOrder
  <2>. QED
    BY <2>1, <2>2, <2>3
<1>6. R # {} => S = {}
  <2>. SUFFICES ASSUME R # {} PROVE S = {}
    OBVIOUS
  <2>1. Cardinality(open) = 1
    BY DEF ReaffirmedLinks
  <2>2. IsFiniteSet(open)
    BY <1>5, FS_Subset DEF IInv, LinkInv, StoredByRuns
  <2>3. PICK l : open = {l}
    BY <2>1, <2>2, FS_Singleton
  <2>. QED
    BY <1>4, <2>3
<1>7. \A l \in R : l.valid_from = id.valid_from
  BY DEF ReaffirmedLinks
<1>8. ASSUME NEW l \in Stored \cap K, SameSubject(id, l)
      PROVE  l \in S \/ l \in R \/ \E i \in K \cap LinkRuns : Ends(i, l)
  <2>1. CASE link_ended[l] = NULL
    BY <1>4, <1>8, <2>1 DEF OpenLinks, SameSubject
  <2>2. CASE link_ended[l] # NULL
    BY <2>2 DEF IInv, LinkInv, LinksEnded
  <2>. QED
    BY <2>1, <2>2
<1>9. \A j \in K \cap LinkRuns : known[j] \subseteq K
  BY DEF IInv, LinkInv, LinkCommitted, LinkPlanned
<1>10. LinkPlanned(id, S, R, K)
  BY <1>3, <1>4, <1>5, <1>6, <1>7, <1>8, <1>9 DEF LinkPlanned
<1>11. KeptUntil(R, K)
  BY <1>4, <1>5 DEF KeptUntil
<1>12. LinkPlanning(c)
  BY <1>2, <1>10, <1>11 DEF LinkPlanning
<1>13. \A q \in Process : call'[q] = call[q] \/ call'[q] = c
  BY <1>1 DEF IInv, ReviewInv
<1>14. ReviewInv'
  BY <1>1, <1>2, CallStep DEF IInv
<1>15. LinkInv'
  BY <1>1, <1>12, <1>13, LinkStutter DEF IInv, linkVars
<1>. QED
  BY <1>14, <1>15 DEF IInv

\* The link that a review creates, if any.
CreatedLinks(id, R) == IF Matches(id) /\ R = {} THEN {id} ELSE {}

\* What the commit of a link review writes.
LinkWrites(p, id, S, R, K, C) ==
  /\ id \notin LinkRuns /\ LinkPlanned(id, S, R, K) /\ KeptUntil(R, K)
  /\ LinkRuns' = LinkRuns \cup {id} /\ Stored' = Stored \cup C
  /\ \A i \in LinkRuns : links'[i] = links[i] /\ known'[i] = known[i]
  /\ links'[id].superseded = S /\ links'[id].kept = C \cup R /\ known'[id] = K
  /\ \A l \in S : link_ended[l] = NULL /\ link_ended'[l] = RecordedAt(id.at)
  /\ \A l \in Stored \ S :
       \/ link_ended'[l] = link_ended[l]
       \/ /\ link_ended'[l] = RecordedAt(id.at) /\ link_ended[l] = NULL
          /\ C = {id} /\ l \in SlotOf(id) /\ l.at < id.at
  /\ C = {id} => link_ended'[id] = NULL
  /\ id \notin Stored /\ StillStands(id)
  /\ call' = [call EXCEPT ![p] = Idle]
  /\ UNCHANGED <<runs, superseded_at, seen, number_ended>>

LEMMA CommitLinkWrites ==
  ASSUME IInv, NEW p \in Process, CommitLink(p),
         NEW id, id = call[p].id, NEW S, S = call[p].superseded, NEW R, R = call[p].reaffirmed,
         NEW K, K = call[p].known, NEW C, C = CreatedLinks(id, R)
  PROVE  LinkWrites(p, id, S, R, K, C)
<1>. DEFINE ended == S \cup UNION {{l \in SlotOf(c) : link_ended[l] = NULL} : c \in C}
<1>1. /\ call[p].step = "commit link" /\ id \notin LinkRuns
      /\ \A l \in S : link_ended[l] = NULL
      /\ \A c \in C : Insertable(c, S)
      /\ StillStands(id)
      /\ call' = [call EXCEPT ![p] = Idle]
      /\ UNCHANGED <<runs, superseded_at, seen, number_ended>>
  BY DEF CommitLink, CreatedLinks
<1>2. links' = [i \in LinkRuns \cup {id} |->
                  IF i = id THEN [superseded |-> S, kept |-> C \cup R] ELSE links[i]]
  BY DEF CommitLink, CreatedLinks
<1>3. link_ended' = [l \in Stored \cup C |->
                       IF l \in ended THEN RecordedAt(id.at)
                       ELSE IF l \in Stored THEN link_ended[l] ELSE NULL]
  BY DEF CommitLink, CreatedLinks
<1>4. known' = [i \in LinkRuns \cup {id} |-> IF i = id THEN K ELSE known[i]]
  BY DEF CommitLink, CreatedLinks
<1>5. LinkPlanned(id, S, R, K) /\ KeptUntil(R, K)
  BY <1>1 DEF IInv, LinkInv, LinkPlanning
<1>6. id \notin Stored /\ S \subseteq Stored
  BY <1>1, <1>5 DEF LinkPlanned, IInv, LinkInv, StoredByRuns
<1>7. C \subseteq {id}
  BY DEF CreatedLinks
<1>8. \A l \in ended \ S : l \in Stored /\ l \in SlotOf(id) /\ link_ended[l] = NULL /\ C = {id}
  BY <1>7 DEF SlotOf
<1>9. \A l \in ended \ S : l.at < id.at
  BY <1>1, <1>8 DEF Insertable
<1>10. LinkRuns' = LinkRuns \cup {id} /\ Stored' = Stored \cup C
  BY <1>2, <1>3 DEF LinkRuns, Stored
<1>11. /\ \A i \in LinkRuns : links'[i] = links[i] /\ known'[i] = known[i]
       /\ links'[id].superseded = S /\ links'[id].kept = C \cup R /\ known'[id] = K
  BY <1>1, <1>2, <1>4
<1>12. ASSUME NEW l \in Stored
       PROVE  link_ended'[l] = IF l \in ended THEN RecordedAt(id.at) ELSE link_ended[l]
  <2>. HIDE DEF ended
  <2>. QED
    BY <1>3
<1>13. C = {id} => link_ended'[id] = NULL
  <2>1. id \notin ended
    BY <1>6, <1>8
  <2>. HIDE DEF ended
  <2>. QED
    BY <1>3, <1>6, <2>1
<1>14. \A l \in S : l \in ended
  OBVIOUS
<1>. HIDE DEF ended
<1>15. \A l \in S : link_ended'[l] = RecordedAt(id.at)
  BY <1>6, <1>12, <1>14
<1>16. \A l \in Stored \ S : \/ link_ended'[l] = link_ended[l]
                              \/ /\ link_ended'[l] = RecordedAt(id.at) /\ link_ended[l] = NULL
                                 /\ C = {id} /\ l \in SlotOf(id) /\ l.at < id.at
  BY <1>8, <1>9, <1>12
<1>. QED
  BY <1>1, <1>5, <1>6, <1>10, <1>11, <1>13, <1>15, <1>16 DEF LinkWrites

LEMMA CommitLinkInv ==
  ASSUME IInv, NEW p \in Process, CommitLink(p)
  PROVE  IInv'
<1>. PICK id, S, R, K, C :
       /\ id = call[p].id /\ S = call[p].superseded /\ R = call[p].reaffirmed
       /\ K = call[p].known /\ C = CreatedLinks(id, R)
  OBVIOUS
<1>0. LinkWrites(p, id, S, R, K, C)
  BY CommitLinkWrites
<1>1. /\ id \notin LinkRuns /\ LinkPlanned(id, S, R, K) /\ KeptUntil(R, K)
      /\ LinkRuns' = LinkRuns \cup {id} /\ Stored' = Stored \cup C
      /\ \A i \in LinkRuns : links'[i] = links[i] /\ known'[i] = known[i]
      /\ links'[id].superseded = S /\ links'[id].kept = C \cup R /\ known'[id] = K
  BY <1>0 DEF LinkWrites
<1>2. /\ \A l \in S : link_ended[l] = NULL /\ link_ended'[l] = RecordedAt(id.at)
      /\ \A l \in Stored \ S : \/ link_ended'[l] = link_ended[l]
                               \/ /\ link_ended'[l] = RecordedAt(id.at) /\ link_ended[l] = NULL
                                  /\ C = {id} /\ l \in SlotOf(id) /\ l.at < id.at
      /\ C = {id} => link_ended'[id] = NULL
  BY <1>0 DEF LinkWrites
<1>3. /\ id \notin Stored /\ StillStands(id)
      /\ call' = [call EXCEPT ![p] = Idle]
      /\ UNCHANGED <<runs, superseded_at, seen, number_ended>>
  BY <1>0 DEF LinkWrites
<1>4. /\ LinkId(id) /\ S \subseteq Stored /\ R \subseteq Stored /\ S \cap R = {} /\ id \notin R
      /\ C \subseteq {id} /\ (R # {} => C = {}) /\ (C = {id} <=> Matches(id) /\ R = {})
  BY <1>1, <1>3 DEF LinkPlanned, CreatedLinks
<1>5. ReviewInv'
  <2>1. Idle.step = "idle"
    BY DEF Idle
  <2>. QED
    BY <1>3, <2>1, CallStep DEF IInv
<1>6. Runs' = Runs /\ \A k : Proposed(k)' = Proposed(k)
  BY <1>3 DEF Runs, Proposed, AssignmentsAsOf, Assigned
<1>7. ASSUME NEW L, L \subseteq Runs \cup LinkRuns PROVE id \notin L
  BY <1>1, <1>4, <1>7, KindsApart DEF IInv, ReviewInv, AssignedByRuns
<1>8. \A i, l : SameSubject(i, l)' <=> SameSubject(i, l)
  BY DEF SameSubject, Subject
<1>9. ASSUME NEW l \in Stored, link_ended[l] # NULL PROVE link_ended'[l] = link_ended[l]
  BY <1>2, <1>9
<1>10. ASSUME NEW i \in LinkRuns, NEW l \in Stored, Ends(i, l) PROVE Ends(i, l)'
  <2>1. link_ended[l] # NULL
    BY <1>10, LinkTyped DEF Ends, IInv, LinkInv, StoredByRuns
  <2>. QED
    BY <1>1, <1>8, <1>9, <1>10, <2>1 DEF Ends
\* The links that this commit ends, it ends as Ends says.
<1>11. ASSUME NEW l \in Stored, link_ended[l] = NULL, link_ended'[l] # NULL PROVE Ends(id, l)'
  <2>1. CASE l \in S
    <3>1. SameSubject(id, l) /\ l.at < id.at
      BY <1>1, <2>1 DEF LinkPlanned
    <3>. QED
      BY <1>1, <1>2, <1>8, <2>1, <3>1 DEF Ends
  <2>2. CASE l \notin S
    <3>1. link_ended'[l] = RecordedAt(id.at) /\ C = {id} /\ l \in SlotOf(id) /\ l.at < id.at
      BY <1>2, <1>11, <2>2
    <3>2. SameSubject(id, l) /\ R = {}
      BY <1>4, <3>1 DEF SlotOf, SameSubject
    <3>3. \A i \in LinkRuns : ~Ends(i, l)
      BY <1>11, LinkTyped DEF Ends, IInv, LinkInv, StoredByRuns
    <3>4. l \notin K
      BY <1>1, <2>2, <3>2, <3>3 DEF LinkPlanned
    <3>. QED
      BY <1>1, <1>8, <3>1, <3>2, <3>4 DEF Ends
  <2>. QED
    BY <2>1, <2>2
<1>12. ASSUME NEW i, NEW T, NEW Q, NEW L, LinkPlanned(i, T, Q, L) PROVE LinkPlanned(i, T, Q, L)'
  <2>1. id \notin L /\ L \cap LinkRuns' = L \cap LinkRuns /\ Stored' \cap L = Stored \cap L
    BY <1>1, <1>4, <1>7, <1>12 DEF LinkPlanned
  <2>2. \A j \in L \cap LinkRuns' : known'[j] \subseteq L
    BY <1>1, <1>12, <2>1 DEF LinkPlanned
  <2>3. \A l \in Stored' \cap L : SameSubject(i, l)' =>
          l \in T \/ l \in Q \/ \E j \in L \cap LinkRuns' : Ends(j, l)'
    BY <1>8, <1>10, <1>12, <2>1 DEF LinkPlanned
  <2>4. L \subseteq Runs' \cup LinkRuns' /\ LinkId(i)'
    BY <1>1, <1>6, <1>12 DEF LinkPlanned, LinkId
  <2>5. \A l \in T \cup Q : l \in Stored' \cap L /\ SameSubject(i, l)' /\ l.at < i.at
    BY <1>8, <1>12, <2>1 DEF LinkPlanned
  <2>. QED
    BY <1>12, <2>2, <2>3, <2>4, <2>5 DEF LinkPlanned
<1>13. ASSUME NEW T, NEW L, KeptUntil(T, L), T \subseteq Stored, id \notin L PROVE KeptUntil(T, L)'
  <2>. SUFFICES ASSUME NEW l \in T, link_ended'[l] # NULL
                PROVE  \E i \in LinkRuns' \ L : Ends(i, l)'
    BY DEF KeptUntil
  <2>1. CASE link_ended[l] = NULL
    BY <1>1, <1>11, <1>13, <2>1
  <2>2. CASE link_ended[l] # NULL
    BY <1>1, <1>10, <1>13, <2>2 DEF KeptUntil
  <2>. QED
    BY <2>1, <2>2
<1>14. ASSUME NEW i \in LinkRuns PROVE LinkCommitted(i)' /\ Reproposed(i)'
  <2>1. LinkCommitted(i) /\ Reproposed(i) /\ i # id
    BY <1>1 DEF IInv, LinkInv
  <2>2. Restated(i)' = Restated(i)
    BY <1>1 DEF Restated
  <2>3. LinkPlanned(i, links[i].superseded, Restated(i), known[i])
    BY <2>1 DEF LinkCommitted
  <2>4. links[i].kept \subseteq Stored /\ links[i].superseded \subseteq Stored
    BY <2>3 DEF LinkPlanned, Restated, IInv, LinkInv, StoredByRuns
  <2>5. id \notin known[i] \cup {i}
    BY <1>7, <2>1, <2>3 DEF LinkPlanned
  <2>6. KeptUntil(links[i].kept, known[i] \cup {i})'
    <3>. PICK T, L : T = links[i].kept /\ L = known[i] \cup {i}
      OBVIOUS
    <3>1. KeptUntil(T, L)'
      BY <1>13, <2>1, <2>4, <2>5 DEF LinkCommitted
    <3>. QED
      BY <1>1, <3>1
  <2>7. LinkPlanned(i, links[i].superseded, Restated(i), known[i])'
    <3>. PICK T, Q, L : T = links[i].superseded /\ Q = Restated(i) /\ L = known[i]
      OBVIOUS
    <3>1. LinkPlanned(i, T, Q, L)'
      BY <1>12, <2>3
    <3>. QED
      BY <1>1, <2>2, <3>1
  <2>8. \A l \in links[i].superseded : link_ended'[l] = RecordedAt(i.at)
    BY <1>9, <2>1, <2>4, LinkTyped DEF LinkCommitted, LinkPlanned
  <2>9. Reproposed(i)'
    BY <1>1, <1>6, <2>1 DEF Reproposed
  <2>. QED
    BY <1>1, <2>1, <2>6, <2>7, <2>8, <2>9 DEF LinkCommitted
<1>15. LinkCommitted(id)' /\ Reproposed(id)'
  <2>1. id \notin K
    BY <1>1, <1>7 DEF LinkPlanned
  <2>2. Restated(id)' = R
    BY <1>1, <1>4 DEF Restated
  <2>3. LinkPlanned(id, S, R, K)'
    BY <1>1, <1>12
  <2>4. \A l \in S : link_ended'[l] = RecordedAt(id.at)
    BY <1>2
  <2>5. KeptUntil(C \cup R, K \cup {id})'
    <3>. SUFFICES ASSUME NEW l \in C \cup R, link_ended'[l] # NULL
                  PROVE  \E i \in LinkRuns' \ (K \cup {id}) : Ends(i, l)'
      BY DEF KeptUntil
    <3>1. l \in R /\ l \in Stored /\ l \notin S /\ C = {}
      BY <1>2, <1>4
    <3>2. link_ended[l] # NULL
      BY <1>2, <3>1
    <3>3. PICK i \in LinkRuns \ K : Ends(i, l)
      BY <1>1, <3>1, <3>2 DEF KeptUntil
    <3>. QED
      BY <1>1, <1>10, <3>1, <3>3
  <2>6. Reproposed(id)'
    BY <1>3, <1>6 DEF StillStands, LinkStands, Reproposed
  <2>. QED
    BY <1>1, <2>1, <2>2, <2>3, <2>4, <2>5, <2>6 DEF LinkCommitted
<1>16. StoredByRuns'
  <2>1. IsFiniteSet(Stored')
    <3>1. IsFiniteSet(Stored)
      BY DEF IInv, LinkInv, StoredByRuns
    <3>2. Stored' = Stored \/ Stored' = Stored \cup {id}
      BY <1>1, <1>4
    <3>. QED
      BY <3>1, <3>2, FS_AddElement
  <2>2. ASSUME NEW i \in LinkRuns PROVE i \in Stored' <=> i \in links'[i].kept
    BY <1>1, <1>4 DEF IInv, LinkInv, StoredByRuns
  <2>3. id \in Stored' <=> id \in links'[id].kept
    BY <1>1, <1>3, <1>4
  <2>4. Stored \subseteq LinkRuns
    BY DEF IInv, LinkInv, StoredByRuns
  <2>5. Stored' = {i \in LinkRuns' : i \in links'[i].kept}
    BY <1>1, <1>4, <2>2, <2>3, <2>4
  <2>6. ASSUME NEW i \in LinkRuns
        PROVE  LinkId(i)' /\ (i \in links'[i].kept <=> Matches(i) /\ Restated(i)' = {})
    BY <1>1 DEF IInv, LinkInv, StoredByRuns, Restated, LinkId
  <2>7. LinkId(id)' /\ (id \in links'[id].kept <=> Matches(id) /\ Restated(id)' = {})
    BY <1>1, <1>4 DEF Restated, LinkId
  <2>. QED
    BY <1>1, <2>1, <2>5, <2>6, <2>7 DEF StoredByRuns, Matches
<1>17. LinksEnded'
  <2>. SUFFICES ASSUME NEW l \in Stored', link_ended'[l] # NULL
                PROVE  \E i \in LinkRuns' : Ends(i, l)'
    BY DEF LinksEnded
  <2>1. l \in Stored
    BY <1>1, <1>2, <1>4
  <2>2. CASE link_ended[l] = NULL
    BY <1>1, <1>11, <2>1, <2>2
  <2>3. CASE link_ended[l] # NULL
    BY <1>1, <1>10, <2>1, <2>3 DEF IInv, LinkInv, LinksEnded
  <2>. QED
    BY <2>2, <2>3
<1>18. ASSUME NEW q \in Process PROVE LinkPlanning(call[q])'
  <2>1. CASE q = p
    <3>1. call'[q] = Idle
      BY <1>3, <2>1 DEF IInv, ReviewInv
    <3>. QED
      BY <3>1 DEF LinkPlanning, Idle
  <2>2. CASE q # p
    <3>1. call'[q] = call[q] /\ LinkPlanning(call[q])
      BY <1>3, <2>2 DEF IInv, ReviewInv, LinkInv
    <3>2. call[q].step = "commit link" =>
            /\ LinkPlanned(call[q].id, call[q].superseded, call[q].reaffirmed, call[q].known)'
            /\ KeptUntil(call[q].reaffirmed, call[q].known)'
      <4>. SUFFICES ASSUME call[q].step = "commit link"
                    PROVE  /\ LinkPlanned(call[q].id, call[q].superseded, call[q].reaffirmed,
                                          call[q].known)'
                           /\ KeptUntil(call[q].reaffirmed, call[q].known)'
        OBVIOUS
      <4>. PICK i, T, Q, L : i = call[q].id /\ T = call[q].superseded /\ Q = call[q].reaffirmed /\
                             L = call[q].known
        OBVIOUS
      <4>1. LinkPlanned(i, T, Q, L) /\ KeptUntil(Q, L)
        BY <3>1 DEF LinkPlanning
      <4>2. Q \subseteq Stored /\ id \notin L
        BY <1>7, <4>1 DEF LinkPlanned
      <4>3. LinkPlanned(i, T, Q, L)' /\ KeptUntil(Q, L)'
        BY <1>12, <1>13, <4>1, <4>2
      <4>. QED
        BY <3>1, <4>3
    <3>. QED
      BY <3>1, <3>2 DEF LinkPlanning, LinkId
  <2>. QED
    BY <2>1, <2>2
<1>19. LinkInv'
  BY <1>1, <1>14, <1>15, <1>16, <1>17, <1>18 DEF LinkInv
<1>. QED
  BY <1>5, <1>19 DEF IInv

LEMMA NextIInv == IInv /\ [LinkNext]_allVars => IInv'
<1>. SUFFICES ASSUME IInv, [LinkNext]_allVars PROVE IInv'
  OBVIOUS
<1>1. ASSUME UNCHANGED <<runs, superseded_at, call, seen, links, link_ended, known>> PROVE IInv'
  BY <1>1, ReviewStutter, LinkStutter DEF IInv
<1>2. CASE UNCHANGED allVars
  BY <1>1, <1>2 DEF allVars, vars, linkVars
<1>3. CASE \E t \in NumberTimes : RefreshNumber(t)
  BY <1>1, <1>3 DEF RefreshNumber, vars
<1>4. CASE Next /\ UNCHANGED linkVars
  BY <1>4, NextReviewInv, ReviewStepLinkInv DEF IInv
<1>5. ASSUME NEW p \in Process, NEW k \in Cutoffs, NEW from \in LinkDates \cup {NULL},
             NEW t \in AcceptTimes, BeginLink(p, k, from, t)
      PROVE  IInv'
  BY <1>5, BeginLinkInv
<1>. QED
  BY <1>2, <1>3, <1>4, <1>5, PlanLinkInv, CommitLinkInv DEF LinkNext

-----------------------------------------------------------------------------
(* What follows of link reviews. *)

\* A release that is later than the clock of a recorded review exports it.
LEMMA ExportedOnceRecorded ==
  ASSUME IInv, NEW k \in Nat, NEW i \in LinkRuns, RecordedAt(i.at) <= k
  PROVE  i \in Exported(k)
<1>1. LinkId(i) /\ LinkCommitted(i)
  BY DEF IInv, LinkInv, StoredByRuns
<1>2. i.at + 1 <= k
  BY <1>1, LinkTyped
<1>3. ASSUME NEW l \in links[i].kept PROVE RecordedAt(l.at) <= k
  <2>1. CASE l = i
    BY <2>1
  <2>2. CASE l # i
    <3>1. l \in Restated(i) /\ l \in Stored /\ l.at < i.at
      BY <1>1, <1>3, <2>2 DEF Restated, LinkCommitted, LinkPlanned
    <3>2. LinkId(l)
      BY <3>1 DEF IInv, LinkInv, StoredByRuns
    <3>3. l.at \in Nat /\ i.at \in Nat
      BY <1>1, <3>2, LinkTyped
    <3>. QED
      BY <3>1, <3>3 DEF RecordedAt
  <2>. QED
    BY <2>1, <2>2
<1>4. \A l \in links[i].superseded : link_ended[l] <= k
  BY <1>1 DEF LinkCommitted
<1>. QED
  BY <1>2, <1>3, <1>4 DEF Exported

LEMMA LatestLinkShown ==
  ASSUME IInv, NEW k \in Nat, NEW s, NEW id \in LastExported(s, k)
  PROVE  {l.valid_from : l \in ShownLinks(s, k)} = {id.valid_from} \ {NULL}
<1>1. /\ id \in LinkRuns /\ id \in Exported(k) /\ Subject(id.artifact) = s
      /\ \A j \in LinkRuns : Subject(j.artifact) = s /\ j # id =>
           /\ j.at < id.at <=> j \in Exported(k)
           /\ j.at < id.at <=> j \in known[id]
  BY DEF LastExported
<1>2. /\ LinkId(id) /\ LinkCommitted(id)
      /\ LinkPlanned(id, links[id].superseded, Restated(id), known[id])
  BY <1>1 DEF IInv, LinkInv, StoredByRuns, LinkCommitted
<1>3. ASSUME NEW l \in Stored
      PROVE  l \in LinkRuns /\ LinkId(l) /\ l \in links[l].kept /\ Matches(l)
  BY DEF IInv, LinkInv, StoredByRuns
\* A run that ends a link by k is exported.
<1>4. ASSUME NEW i \in LinkRuns, NEW l \in Stored, Ends(i, l), link_ended[l] <= k
      PROVE  i \in Exported(k)
  BY <1>4, ExportedOnceRecorded DEF Ends
<1>5. ASSUME NEW l \in ShownLinks(s, k) PROVE l \in links[id].kept
  <2>1. l \in Stored /\ Subject(l.artifact) = s /\ RecordedAt(l.at) <= k
        /\ (link_ended[l] # NULL => k < link_ended[l])
    BY DEF ShownLinks
  <2>2. l \in Exported(k)
    BY <1>3, <2>1, ExportedOnceRecorded
  <2>3. CASE l = id
    BY <1>3, <2>1, <2>3
  <2>4. CASE l # id
    <3>1. l \in known[id] /\ SameSubject(id, l)
      BY <1>1, <1>3, <2>1, <2>2, <2>4 DEF SameSubject
    <3>2. l \notin links[id].superseded
      <4>. SUFFICES ASSUME l \in links[id].superseded PROVE FALSE
        OBVIOUS
      <4>1. link_ended[l] <= k /\ link_ended[l] = RecordedAt(id.at)
        BY <1>1, <1>2 DEF Exported, LinkCommitted
      <4>. QED
        BY <1>2, <2>1, <4>1, LinkTyped
    <3>3. ASSUME NEW i \in known[id] \cap LinkRuns, Ends(i, l) PROVE FALSE
      <4>1. i # id /\ Subject(i.artifact) = s
        BY <1>2, <2>1, <3>3 DEF LinkCommitted, Ends, SameSubject
      <4>2. i \in Exported(k)
        BY <1>1, <4>1
      <4>3. l \in links[i].superseded \/ i \in links[i].kept
        BY <3>3 DEF Ends
      <4>4. link_ended[l] = RecordedAt(i.at) /\ LinkId(i)
        BY <3>3 DEF Ends, IInv, LinkInv, StoredByRuns
      <4>5. link_ended[l] <= k
        BY <4>2, <4>3, <4>4 DEF Exported
      <4>. QED
        BY <2>1, <4>4, <4>5, LinkTyped
    <3>. QED
      BY <1>2, <2>1, <3>1, <3>2, <3>3 DEF LinkPlanned, Restated
  <2>. QED
    BY <2>3, <2>4
<1>6. ASSUME NEW l \in links[id].kept
      PROVE  l \in ShownLinks(s, k) /\ l.valid_from = id.valid_from /\ Matches(id)
  <2>1. l \in Stored /\ SameSubject(id, l) /\ l.valid_from = id.valid_from
    <3>1. CASE l = id
      BY <1>1, <1>6, <3>1 DEF IInv, LinkInv, StoredByRuns, SameSubject
    <3>2. CASE l # id
      BY <1>2, <1>6, <3>2 DEF LinkPlanned, Restated
    <3>. QED
      BY <3>1, <3>2
  <2>2. RecordedAt(l.at) <= k
    BY <1>1, <1>6 DEF Exported
  <2>3. link_ended[l] # NULL => k < link_ended[l]
    <3>. SUFFICES ASSUME link_ended[l] # NULL, ~(k < link_ended[l]) PROVE FALSE
      OBVIOUS
    <3>1. PICK i \in LinkRuns \ (known[id] \cup {id}) : Ends(i, l)
      BY <1>2, <1>6 DEF LinkCommitted, KeptUntil
    <3>2. link_ended[l] = RecordedAt(i.at) /\ LinkId(i) /\ Subject(i.artifact) = s
      BY <1>1, <2>1, <3>1 DEF Ends, SameSubject, IInv, LinkInv, StoredByRuns
    <3>3. RecordedAt(i.at) \in Nat
      BY <3>2, LinkTyped
    <3>4. link_ended[l] <= k
      BY <3>2, <3>3
    <3>5. i \in Exported(k)
      BY <1>4, <2>1, <3>1, <3>4
    <3>. QED
      BY <1>1, <3>1, <3>2, <3>5
  <2>. QED
    BY <1>1, <1>3, <2>1, <2>2, <2>3 DEF ShownLinks, SameSubject, Matches
<1>7. ShownLinks(s, k) = links[id].kept
  BY <1>5, <1>6
<1>8. links[id].kept = {} <=> ~Matches(id)
  BY <1>1, <1>6 DEF IInv, LinkInv, StoredByRuns, Restated
<1>9. CASE Matches(id)
  <2>1. \E l \in ShownLinks(s, k) : TRUE
    BY <1>7, <1>8, <1>9
  <2>2. \A l \in ShownLinks(s, k) : l.valid_from = id.valid_from
    BY <1>6, <1>7
  <2>3. {l.valid_from : l \in ShownLinks(s, k)} = {id.valid_from}
    BY <2>1, <2>2
  <2>. QED
    BY <1>9, <2>3 DEF Matches
<1>10. CASE ~Matches(id)
  BY <1>7, <1>8, <1>10 DEF Matches
<1>. QED
  BY <1>9, <1>10

LEMMA ReplaysOfLinks ==
  ASSUME IInv
  PROVE  LinkReplaysLater
<1>. SUFFICES ASSUME NEW id \in LinkRuns,
                     \A i \in Runs \ known[id] : RecordedAt(i.at) > id.artifact.cutoff,
                     \A i \in LinkRuns \ (known[id] \cup {id}) :
                       id \in known[i] /\ i.at > RecordedAt(id.at)
              PROVE  LinkReplayVerifies(id)
  BY DEF LinkReplaysLater
<1>1. /\ LinkId(id) /\ LinkCommitted(id) /\ Reproposed(id)
      /\ LinkPlanned(id, links[id].superseded, Restated(id), known[id])
  BY DEF IInv, LinkInv, StoredByRuns, LinkCommitted
<1>2. id.artifact \in Proposed(id.artifact.cutoff)
  BY <1>1 DEF Reproposed
<1>3. \A l \in links[id].superseded : link_ended[l] = RecordedAt(id.at)
  BY <1>1 DEF LinkCommitted
<1>4. ASSUME NEW l \in links[id].kept, link_ended[l] # NULL PROVE LinkProven(l)
  <2>1. PICK i \in LinkRuns \ (known[id] \cup {id}) : Ends(i, l)
    BY <1>1, <1>4 DEF LinkCommitted, KeptUntil
  <2>2. id \in known[i] /\ i.at > RecordedAt(id.at)
    BY <2>1
  <2>3. LinkId(i) /\ LinkPlanned(i, links[i].superseded, Restated(i), known[i])
    BY <2>1 DEF IInv, LinkInv, StoredByRuns, LinkCommitted
  <2>4. l = id \/ (l \in known[id] /\ l \in LinkRuns /\ l.at < id.at)
    BY <1>1, <1>4 DEF LinkPlanned, Restated, IInv, LinkInv, StoredByRuns
  <2>5. l \in known[i]
    BY <2>2, <2>3, <2>4 DEF LinkPlanned
  <2>6. l \in links[i].superseded /\ link_ended[l] = RecordedAt(i.at)
    BY <2>1, <2>5 DEF Ends
  <2>7. l.at \in Nat /\ id.at \in Nat /\ i.at \in Nat
    BY <1>1, <2>3, <2>4, LinkTyped DEF IInv, LinkInv, StoredByRuns
  <2>8. i.at > RecordedAt(l.at)
    BY <2>2, <2>4, <2>7 DEF RecordedAt
  <2>. QED
    BY <2>1, <2>6, <2>8 DEF LinkProven
<1>. QED
  BY <1>2, <1>3, <1>4 DEF LinkReplayVerifies

\* Only the commit of a link review stores links, and it checks what they rest on.
LEMMA LinksStoredCurrent ==
  ASSUME IInv, LinkNext, NEW l \in Stored' \ Stored
  PROVE  LET a == l.artifact.assignment
         IN /\ number_ended # NULL => number_ended > RecordedAt(l.at)
            /\ a # NULL /\ superseded_at[a] # NULL => superseded_at[a] > RecordedAt(l.at)
<1>1. ~UNCHANGED link_ended
  BY DEF Stored
<1>2. PICK p \in Process : CommitLink(p)
  BY <1>1 DEF LinkNext, RefreshNumber, BeginLink, PlanLink, linkVars
<1>. PICK id, S, R, K, C :
       /\ id = call[p].id /\ S = call[p].superseded /\ R = call[p].reaffirmed
       /\ K = call[p].known /\ C = CreatedLinks(id, R)
  OBVIOUS
<1>3. LinkWrites(p, id, S, R, K, C)
  BY <1>2, CommitLinkWrites
<1>4. l = id /\ StillStands(id)
  BY <1>3 DEF LinkWrites, CreatedLinks
<1>. QED
  BY <1>4 DEF StillStands, LinkStands

-----------------------------------------------------------------------------
\* Reviews of both kinds, in whatever order and however interleaved, keep what their calls read.
THEOREM Invariance == LinkSpec => []IInv
BY InitLinkInv, NextIInv, PTL DEF LinkSpec

LEMMA ClocksAreNatural ==
  /\ \A k \in Clock : k \in Nat
  /\ \A t \in AcceptTimes : t + 1 \in Nat
<1>1. \A t \in AcceptTimes : t \in Nat
  BY ClockAssumption
<1>2. \A t \in AcceptTimes : RecordedAt(t) \in Nat /\ t + 1 \in Nat
  BY <1>1 DEF RecordedAt
<1>. QED
  BY <1>1, <1>2, ClockAssumption DEF Clock

\* The review with the latest clock decides what facility is shown, in whatever order and
\* however interleaved the calls that accept reviews.
THEOREM LatestReviewDecidesAlways == LinkSpec => []LatestReviewDecides
<1>1. IInv => LatestReviewDecides
  BY LatestShown, ClocksAreNatural DEF IInv, LatestReviewDecides
<1>. QED
  BY <1>1, Invariance, PTL

\* A review verifies for ever if the reviews that end its assignments started after those
\* were recorded.
THEOREM ReplayVerifiesLaterAlways == LinkSpec => []ReplayVerifiesLater
<1>1. IInv => ReplayVerifiesLater
  BY ReplaysOfReviews DEF IInv
<1>. QED
  BY <1>1, Invariance, PTL

\* No assignment is stored whose evidence had ended by its own clock, at whatever moment of
\* the call an importer refreshed it.
THEOREM NeverFromStaleEvidenceAlways == LinkSpec => NeverFromStaleEvidence
<1>1. IInv /\ [LinkNext]_allVars =>
        [\A a \in DOMAIN superseded_at' \ Assigned :
           evidence_ended[ArtifactOf[a.run.review]] # NULL =>
             evidence_ended[ArtifactOf[a.run.review]] > RecordedAt(a.run.at)]_vars
  <2>. SUFFICES ASSUME IInv, [LinkNext]_allVars, NEW a \in DOMAIN superseded_at' \ Assigned,
                       evidence_ended[ArtifactOf[a.run.review]] # NULL
                PROVE  evidence_ended[ArtifactOf[a.run.review]] > RecordedAt(a.run.at)
    OBVIOUS
  <2>1. ~UNCHANGED superseded_at
    BY DEF Assigned
  <2>2. Next
    BY <2>1 DEF LinkNext, allVars, vars, RefreshNumber, BeginLink, PlanLink, CommitLink
  <2>3. a \in Assigned' \ Assigned
    BY DEF Assigned
  <2>. QED
    BY <2>2, <2>3, StoresCurrentOnly DEF IInv
<1>. QED
  BY <1>1, Invariance, PTL DEF LinkSpec, NeverFromStaleEvidence

\* In a release, the latest review that it exports decides the links that it shows, when
\* that review was planned on the ones with earlier clocks and they are exported too.
THEOREM LatestLinkDecidesAlways == LinkSpec => []LatestLinkDecides
<1>1. IInv => LatestLinkDecides
  BY LatestLinkShown, ClocksAreNatural DEF LatestLinkDecides
<1>. QED
  BY <1>1, Invariance, PTL

\* A link review verifies for ever, whatever importers and reviewers change, if later link
\* reviews keep their distance and no facility review is dated back behind its cutoff.
THEOREM LinkReplaysLaterAlways == LinkSpec => []LinkReplaysLater
<1>1. IInv => LinkReplaysLater
  BY ReplaysOfLinks
<1>. QED
  BY <1>1, Invariance, PTL

\* No link is stored when its number or assignment had ended by the link's own clock.
THEOREM LinkRestsOnCurrentAlways == LinkSpec => LinkRestsOnCurrent
<1>1. IInv /\ [LinkNext]_allVars =>
        [\A l \in DOMAIN link_ended' \ Stored :
           LET a == l.artifact.assignment
           IN /\ number_ended # NULL => number_ended > RecordedAt(l.at)
              /\ a # NULL /\ superseded_at[a] # NULL =>
                   superseded_at[a] > RecordedAt(l.at)]_allVars
  BY LinksStoredCurrent DEF Stored
<1>. QED
  BY <1>1, Invariance, PTL DEF LinkSpec, LinkRestsOnCurrent

SourceProofs == INSTANCE ReviewQueueProofs WITH
                  Version <- Text, NULL <- None, Clock <- HostClock, RecordClock <- HostClock,
                  ReviewerActions <- SourceActions, MaxEvents <- MaxTime,
                  events <- source_events, report <- source_report

-----------------------------------------------------------------------------
(* Discovered URLs.  The queue of source texts is an instance of ReviewQueue, and *)
(* ReviewQueueProofs is used as proved there.                                    *)

\* What the queue of source texts assumes of its constants holds of this one.
LEMMA QueueAssumed == SourceProofs!QueueAssumption
BY DiscoveryAssumption, HandoffAssumption
DEF SourceProofs!QueueAssumption, HostClock, Source!Capture, SourceProofs!Capture,
    Source!Action, SourceProofs!Action

\* A sequence, whatever its elements.
Grows(s) == s \in Seq({s[n] : n \in 1 .. Len(s)})

LEMMA GrowsAppended ==
  ASSUME NEW s, Grows(s), NEW e
  PROVE  /\ Grows(Append(s, e)) /\ Len(s) \in Nat /\ Len(Append(s, e)) = Len(s) + 1
         /\ DOMAIN s = 1 .. Len(s)
         /\ \A n \in 1 .. Len(s) : Append(s, e)[n] = s[n]
         /\ Append(s, e)[Len(s) + 1] = e
<1>. DEFINE S == {s[n] : n \in 1 .. Len(s)}
            r == Append(s, e)
<1>1. s \in Seq(S) /\ \A n \in 1 .. Len(s) : s[n] \in S
  BY DEF Grows
<1>2. \A x \in S : \E n \in 1 .. Len(s) : x = s[n]
  OBVIOUS
<1>. HIDE DEF S
<1>3. s \in Seq(S \cup {e})
  BY <1>1
<1>4. /\ r \in Seq(S \cup {e}) /\ Len(s) \in Nat /\ Len(r) = Len(s) + 1
      /\ \A n \in 1 .. Len(s) : r[n] = s[n]
      /\ r[Len(s) + 1] = e
  BY <1>3
<1>. HIDE DEF r
<1>5. S \cup {e} = {r[n] : n \in 1 .. Len(r)}
  <2>1. ASSUME NEW x \in S \cup {e} PROVE \E n \in 1 .. Len(r) : x = r[n]
    <3>1. CASE x = e
      BY <1>4, <3>1
    <3>2. CASE x \in S
      BY <1>2, <1>4, <3>2
    <3>. QED
      BY <3>1, <3>2
  <2>2. ASSUME NEW n \in 1 .. Len(r) PROVE r[n] \in S \cup {e}
    <3>1. n \in 1 .. Len(s) \/ n = Len(s) + 1
      BY <1>4
    <3>. QED
      BY <1>1, <1>4, <3>1
  <2>. QED
    BY <2>1, <2>2
<1>6. Grows(r)
  BY <1>4, <1>5 DEF Grows
<1>7. DOMAIN s = 1 .. Len(s)
  BY <1>1
<1>. QED
  BY <1>4, <1>6, <1>7 DEF r

\* The clocks of the first l entries rise; they are clocks up to t; and r begins as s does.
ClocksRise(s, l) == \A m, n \in 1 .. l : m < n => s[m].recorded_at < s[n].recorded_at
ClocksUpTo(s, l, t) == \A n \in 1 .. l : s[n].recorded_at \in 1 .. t
BeginsAs(r, s, l) == \A n \in 1 .. l : r[n] = s[n]

LEMMA LaterAtEnd ==
  ASSUME NEW l \in Nat, NEW t \in Nat, NEW s, NEW r, BeginsAs(r, s, l), ClocksUpTo(s, l, t),
         r[l + 1].recorded_at = t + 1, ClocksRise(s, l)
  PROVE  ClocksRise(r, l + 1)
<1>. SUFFICES ASSUME NEW m \in 1 .. l + 1, NEW n \in 1 .. l + 1, m < n
              PROVE  r[m].recorded_at < r[n].recorded_at
  BY DEF ClocksRise
<1>1. m \in 1 .. l /\ r[m] = s[m] /\ s[m].recorded_at \in 1 .. t
  BY DEF BeginsAs, ClocksUpTo
<1>2. CASE n = l + 1
  BY <1>1, <1>2
<1>3. CASE n # l + 1
  <2>1. n \in 1 .. l /\ r[n] = s[n]
    BY <1>3 DEF BeginsAs
  <2>. QED
    BY <1>1, <2>1 DEF ClocksRise
<1>. QED
  BY <1>2, <1>3

\* A set of places that has all the places before each of its own.
LEMMA PrefixCounted ==
  ASSUME NEW l \in Nat, NEW T \in SUBSET (1 .. l), \A n \in T : \A m \in 1 .. n : m \in T
  PROVE  Cardinality(T) \in 0 .. l /\ T = 1 .. Cardinality(T)
<1>1. CASE T = {}
  BY <1>1, FS_EmptySet
<1>2. CASE T # {}
  <2>. DEFINE Gaps == {l - n : n \in T}
  <2>1. Gaps \subseteq Nat /\ Gaps # {}
    <3>1. \A n \in T : n \in 1 .. l /\ l - n \in Nat
      OBVIOUS
    <3>. QED
      BY <1>2, <3>1
  <2>2. PICK g \in Gaps : \A h \in Gaps : g <= h
    BY <2>1, QueueAssumed, SourceProofs!LeastNatural
  <2>3. PICK m \in T : g = l - m
    BY <2>2
  <2>4. ASSUME NEW n \in T PROVE n <= m
    <3>1. l - n \in Gaps
      OBVIOUS
    <3>2. l - m <= l - n
      BY <2>2, <2>3, <3>1
    <3>3. m \in Nat /\ n \in Nat
      OBVIOUS
    <3>. HIDE DEF Gaps
    <3>. QED
      BY <3>2, <3>3
  <2>5. T = 1 .. m /\ m \in 1 .. l
    <3>1. m \in 1 .. l /\ \A k \in 1 .. m : k \in T
      OBVIOUS
    <3>2. ASSUME NEW k \in T PROVE k \in 1 .. m
      <4>1. k \in 1 .. l /\ k <= m /\ m \in Nat
        BY <2>4
      <4>. HIDE DEF Gaps
      <4>. QED
        BY <4>1
    <3>. QED
      BY <3>1, <3>2
  <2>6. Cardinality(1 .. m) = m
    <3>1. Cardinality(1 .. m) = IF 1 > m THEN 0 ELSE m - 1 + 1
      BY <2>5, FS_Interval
    <3>. QED
      BY <2>5, <3>1
  <2>. QED
    BY <2>5, <2>6
<1>. QED
  BY <1>1, <1>2

\* What starts as r and at each place is r or as before ends as r.
LEMMA Unmoved ==
  ASSUME NEW f, NEW r, NEW l \in Nat, f[0] = r, \A k \in 1 .. l : f[k] = r \/ f[k] = f[k - 1]
  PROVE  f[l] = r
<1>. SUFFICES ASSUME f[l] # r PROVE FALSE
  OBVIOUS
<1>. DEFINE Others == {k \in 0 .. l : f[k] # r}
<1>1. Others \subseteq Nat /\ Others # {}
  OBVIOUS
<1>2. PICK k \in Others : \A m \in Others : k <= m
  BY <1>1, QueueAssumed, SourceProofs!LeastNatural
<1>3. k \in 1 .. l /\ k - 1 \in 0 .. l /\ k - 1 \notin Others
  BY <1>2
<1>. QED
  BY <1>2, <1>3

-----------------------------------------------------------------------------
(* The fold of discovered URLs. *)

Sighting == [at : HostClock, meta : Meta]

History == Seq(SUBSET Meta)

DiscoveredState(n) ==
  [status : OpenStatus \cup ResolvedStatus, requires_reopen : BOOLEAN, last_event : 1 .. n,
   observations : SUBSET Sighting, resolved : History \cup {None}, decision : 0 .. n]

DiscoveryTyped(r, n) ==
  /\ r = [runs |-> r.runs, candidates |-> r.candidates]
  /\ r.runs \subseteq Packets
  /\ DOMAIN r.candidates \subseteq Url
  /\ r.candidates \in [DOMAIN r.candidates -> DiscoveredState(n)]

LEMMA SignatureTyped ==
  ASSUME NEW observations \in SUBSET Sighting
  PROVE  Signature(observations) \in History /\ Signature(observations) # None
<1>1. Changes(observations) \subseteq 1 .. MaxTime
  BY DEF Changes, Clocks, Sighting, HostClock
<1>2. Cardinality(Changes(observations)) \in Nat
  <2>1. IsFiniteSet(1 .. MaxTime)
    BY DiscoveryAssumption, FS_Interval
  <2>. QED
    BY <1>1, <2>1, FS_Subset, FS_CardinalityType
<1>3. \A t : ShownAt(observations, t) \in SUBSET Meta
  BY DEF ShownAt, Sighting
<1>4. Signature(observations) \in History
  BY <1>2, <1>3 DEF Signature, Histories, History
<1>. QED
  BY <1>4, DiscoveryAssumption DEF History

\* A packet with the number n makes d of the candidate c.
Rechecked(c, d, n) ==
  /\ d.status = c.status /\ d.resolved = c.resolved /\ d.decision = c.decision
  /\ \/ d.last_event = n
     \/ d.last_event = c.last_event /\ Signature(d.observations) = Signature(c.observations)
  /\ ~d.requires_reopen =>
       /\ ~c.requires_reopen
       /\ c.resolved # None /\ Signature(c.observations) = c.resolved =>
            Signature(d.observations) = c.resolved

LEMMA FoldEntriesIs ==
  ASSUME NEW n \in Nat, n > 0, NEW c \in DiscoveredState(n), NEW u, NEW entries \in Seq(Entry),
         NEW d, d = FoldEntries(c, u, entries, n)
  PROVE  d \in DiscoveredState(n) /\ Rechecked(c, d, n)
<1>. DEFINE own == {k \in DOMAIN entries : entries[k].url = u}
            seenBy(k) == c.observations \cup {Seen(entries[j]) : j \in {i \in own : i <= k}}
            fingerprint(k) == Signature(seenBy(k))
            l == Len(entries)
            moved == \E k \in own : fingerprint(k) # fingerprint(k - 1)
            asks == c.resolved # None /\ \E k \in own : fingerprint(k) # c.resolved
            f == [k \in 0 .. l |-> fingerprint(k)]
<1>1. d = [c EXCEPT !.observations = seenBy(l),
                    !.last_event = IF moved THEN n ELSE @,
                    !.requires_reopen = @ \/ asks]
  BY DEF FoldEntries
<1>2. l \in Nat /\ own \subseteq 1 .. l /\ \A k \in own : entries[k] \in Entry
  OBVIOUS
<1>3. c.observations \subseteq Sighting
  BY DEF DiscoveredState
<1>4. seenBy(l) \subseteq Sighting
  BY <1>2, <1>3 DEF Seen, Entry, Sighting
<1>5. seenBy(0) = c.observations
  BY <1>2
<1>6. ASSUME NEW k \in 1 .. l, k \notin own PROVE seenBy(k) = seenBy(k - 1)
  <2>1. {i \in own : i <= k} = {i \in own : i <= k - 1}
    BY <1>2, <1>6
  <2>. QED
    BY <2>1
<1>7. f[0] = Signature(c.observations) /\ f[l] = fingerprint(l)
  <2>1. f[0] = fingerprint(0) /\ f[l] = fingerprint(l)
    BY <1>2
  <2>2. fingerprint(0) = Signature(c.observations)
    BY <1>5
  <2>. QED
    BY <2>1, <2>2
<1>8. ASSUME NEW k \in 1 .. l, k \notin own PROVE f[k] = f[k - 1]
  BY <1>2, <1>6, <1>8
<1>9. \A k \in own : f[k] = fingerprint(k) /\ f[k - 1] = fingerprint(k - 1)
  BY <1>2
<1>. DEFINE seenAll == seenBy(l)
<1>10. f[l] = Signature(seenAll)
  BY <1>7
<1>11. d = [c EXCEPT !.observations = seenAll, !.last_event = IF moved THEN n ELSE @,
                     !.requires_reopen = @ \/ asks]
  BY <1>1
<1>12. ~moved => \A k \in own : f[k] = f[k - 1]
  BY <1>9
<1>13. c.resolved # None /\ ~asks => \A k \in own : f[k] = c.resolved
  BY <1>9
<1>14. seenAll \subseteq Sighting /\ moved \in BOOLEAN /\ asks \in BOOLEAN
  BY <1>4
<1>. HIDE DEF own, seenAll, moved, asks, f, l
<1>15. ~moved => Signature(seenAll) = Signature(c.observations)
  <2>. SUFFICES ASSUME ~moved PROVE f[l] = f[0]
    BY <1>7, <1>10
  <2>1. \A k \in 1 .. l : f[k] = f[0] \/ f[k] = f[k - 1]
    BY <1>8, <1>12
  <2>. QED
    BY <1>2, <2>1, Unmoved
<1>16. c.resolved # None /\ ~asks /\ Signature(c.observations) = c.resolved =>
         Signature(seenAll) = c.resolved
  <2>. SUFFICES ASSUME c.resolved # None, ~asks, Signature(c.observations) = c.resolved
                PROVE  f[l] = c.resolved
    BY <1>10
  <2>1. \A k \in 1 .. l : f[k] = c.resolved \/ f[k] = f[k - 1]
    BY <1>8, <1>13
  <2>. QED
    BY <1>2, <1>7, <2>1, Unmoved
<1>17. /\ d.status = c.status /\ d.resolved = c.resolved /\ d.decision = c.decision
       /\ d.observations = seenAll /\ d.last_event = (IF moved THEN n ELSE c.last_event)
       /\ d.requires_reopen = (c.requires_reopen \/ asks)
       /\ d \in DiscoveredState(n)
  <2>. DEFINE last == IF moved THEN n ELSE c.last_event
              asked == c.requires_reopen \/ asks
  <2>1. c \in DiscoveredState(n)
    OBVIOUS
  <2>2. last \in 1 .. n /\ asked \in BOOLEAN
    BY <1>14 DEF DiscoveredState
  <2>3. d = [c EXCEPT !.observations = seenAll, !.last_event = last, !.requires_reopen = asked]
    BY <1>11, <2>1 DEF DiscoveredState
  <2>. HIDE DEF last, asked
  <2>4. /\ d.status = c.status /\ d.resolved = c.resolved /\ d.decision = c.decision
        /\ d.observations = seenAll /\ d.last_event = last /\ d.requires_reopen = asked
        /\ d \in DiscoveredState(n)
    BY <1>14, <2>1, <2>2, <2>3 DEF DiscoveredState
  <2>. QED
    BY <2>4 DEF last, asked
<1>. QED
  BY <1>15, <1>16, <1>17 DEF Rechecked

\* What a packet makes of a report.
LEMMA FoldPacketIs ==
  ASSUME NEW n \in Nat, NEW r, DiscoveryTyped(r, n), NEW p \in Packets,
         NEW next, next = FoldPacket(r, p, n + 1)
  PROVE  /\ DiscoveryTyped(next, n + 1)
         /\ next.runs = r.runs \cup {p}
         /\ DOMAIN r.candidates \subseteq DOMAIN next.candidates
         /\ \A u \in DOMAIN r.candidates : Rechecked(r.candidates[u], next.candidates[u], n + 1)
         /\ \A u \in DOMAIN next.candidates \ DOMAIN r.candidates :
              /\ next.candidates[u].status = "pending" /\ next.candidates[u].last_event = n + 1
              /\ next.candidates[u].decision = 0
<1>. DEFINE listed == {p.entries[k].url : k \in DOMAIN p.entries}
            start(u) == IF u \in DOMAIN r.candidates THEN r.candidates[u] ELSE Discovered(n + 1)
            folded(u) == FoldEntries(start(u), u, p.entries, n + 1)
<1>1. /\ next = [runs |-> r.runs \cup {p},
                 candidates |-> [u \in DOMAIN r.candidates \cup listed |-> folded(u)]]
      /\ next.runs = r.runs \cup {p}
      /\ next.candidates = [u \in DOMAIN r.candidates \cup listed |-> folded(u)]
  BY DEF FoldPacket
<1>2. p.entries \in Seq(Entry)
  BY DiscoveryAssumption
<1>3. listed \subseteq Url
  <2>1. \A k \in DOMAIN p.entries : p.entries[k] \in Entry
    BY <1>2
  <2>. QED
    BY <2>1 DEF Entry
<1>4. ASSUME NEW u
      PROVE  /\ start(u) \in DiscoveredState(n + 1)
             /\ u \notin DOMAIN r.candidates => start(u) = Discovered(n + 1)
  <2>1. CASE u \in DOMAIN r.candidates
    <3>1. r.candidates[u] \in DiscoveredState(n)
      BY <2>1 DEF DiscoveryTyped
    <3>. QED
      BY <2>1, <3>1 DEF DiscoveredState
  <2>2. CASE u \notin DOMAIN r.candidates
    <3>1. Discovered(n + 1) \in DiscoveredState(n + 1)
      BY DEF Discovered, DiscoveredState, OpenStatus
    <3>. QED
      BY <2>2, <3>1
  <2>. QED
    BY <2>1, <2>2
<1>. HIDE DEF start
<1>5. ASSUME NEW u
      PROVE  folded(u) \in DiscoveredState(n + 1) /\ Rechecked(start(u), folded(u), n + 1)
  BY <1>2, <1>4, FoldEntriesIs
<1>. HIDE DEF folded, listed
<1>6. DiscoveryTyped(next, n + 1)
  <2>1. next.runs \subseteq Packets /\ DOMAIN r.candidates \subseteq Url
    BY <1>1 DEF DiscoveryTyped
  <2>2. DOMAIN next.candidates = DOMAIN r.candidates \cup listed
    BY <1>1
  <2>3. next.candidates \in [DOMAIN next.candidates -> DiscoveredState(n + 1)]
    BY <1>1, <1>5
  <2>4. next = [runs |-> next.runs, candidates |-> next.candidates]
    BY <1>1
  <2>. QED
    BY <1>3, <2>1, <2>2, <2>3, <2>4 DEF DiscoveryTyped
<1>7. ASSUME NEW u \in DOMAIN r.candidates
      PROVE  next.candidates[u] = folded(u) /\ start(u) = r.candidates[u]
  BY <1>1 DEF start
<1>8. ASSUME NEW u \in DOMAIN next.candidates \ DOMAIN r.candidates
      PROVE  /\ next.candidates[u].status = "pending" /\ next.candidates[u].last_event = n + 1
             /\ next.candidates[u].decision = 0
  <2>1. next.candidates[u] = folded(u) /\ start(u) = Discovered(n + 1)
    BY <1>1, <1>4
  <2>. QED
    BY <1>5, <2>1 DEF Discovered, Rechecked
<1>. QED
  BY <1>1, <1>5, <1>6, <1>7, <1>8

LEMMA StatusTyped ==
  \A a \in ActionName :
    /\ StatusOf(a) \in OpenStatus \cup ResolvedStatus
    /\ StatusOf(a) = "handed_off" => a = "handoff"
BY DEF ActionName, StatusOf, OpenStatus, ResolvedStatus

\* What a decision makes of a report.
LEMMA DecideOnIs ==
  ASSUME NEW n \in Nat, NEW r, DiscoveryTyped(r, n), NEW e, e.action \in ActionName,
         e.url \in DOMAIN r.candidates, NEW next, next = DecideOn(r, e, n + 1)
  PROVE  /\ DiscoveryTyped(next, n + 1)
         /\ next.runs = r.runs
         /\ DOMAIN next.candidates = DOMAIN r.candidates
         /\ \A u \in DOMAIN r.candidates \ {e.url} : next.candidates[u] = r.candidates[u]
         /\ LET c == r.candidates[e.url]
                d == next.candidates[e.url]
            IN /\ d.status = StatusOf(e.action) /\ d.last_event = n + 1 /\ d.decision = n + 1
               /\ d.observations = c.observations
               /\ d.status \in ResolvedStatus => d.resolved = Signature(c.observations)
<1>. DEFINE u == e.url
            c == r.candidates[u]
            d == [status |-> StatusOf(e.action), requires_reopen |-> FALSE, last_event |-> n + 1,
                  decision |-> n + 1, observations |-> c.observations,
                  resolved |-> IF StatusOf(e.action) \in OpenStatus THEN None
                               ELSE Signature(c.observations)]
<1>1. c \in DiscoveredState(n) /\ u \in DOMAIN r.candidates
  BY DEF DiscoveryTyped
<1>2. d \in DiscoveredState(n + 1)
  <2>1. StatusOf(e.action) \in OpenStatus \cup ResolvedStatus
    BY StatusTyped
  <2>2. c.observations \in SUBSET Sighting
    BY <1>1 DEF DiscoveredState
  <2>3. Signature(c.observations) \in History
    BY <2>2, SignatureTyped
  <2>. HIDE DEF c
  <2>. QED
    BY <2>1, <2>2, <2>3 DEF DiscoveredState
<1>3. next = [runs |-> r.runs, candidates |-> [r.candidates EXCEPT ![u] = d]]
  <2>1. r = [runs |-> r.runs, candidates |-> r.candidates]
    BY DEF DiscoveryTyped
  <2>2. next = [r EXCEPT !.candidates[u] = d]
    BY DEF DecideOn
  <2>. HIDE DEF d
  <2>. QED
    BY <2>1, <2>2
<1>. HIDE DEF d
<1>4. /\ next.runs = r.runs /\ next.candidates = [r.candidates EXCEPT ![u] = d]
      /\ next = [runs |-> next.runs, candidates |-> next.candidates]
  BY <1>3
<1>5. \A v \in DOMAIN r.candidates : r.candidates[v] \in DiscoveredState(n + 1)
  BY DEF DiscoveryTyped, DiscoveredState
<1>6. DiscoveryTyped(next, n + 1)
  BY <1>1, <1>2, <1>4, <1>5 DEF DiscoveryTyped
<1>7. /\ DOMAIN next.candidates = DOMAIN r.candidates /\ next.candidates[u] = d
      /\ \A v \in DOMAIN r.candidates \ {u} : next.candidates[v] = r.candidates[v]
  BY <1>1, <1>4 DEF DiscoveryTyped
<1>8. /\ d.status = StatusOf(e.action) /\ d.last_event = n + 1 /\ d.decision = n + 1
      /\ d.observations = c.observations
      /\ d.status \in ResolvedStatus => d.resolved = Signature(c.observations)
  BY DEF d, ResolvedStatus, OpenStatus
<1>. QED
  BY <1>4, <1>6, <1>7, <1>8

-----------------------------------------------------------------------------
(* The queue of discovered URLs. *)

KnownUrls(n) == DOMAIN ReportAfter(n).candidates
CandidateAfter(n, u) == ReportAfter(n).candidates[u]

\* A decision was made on the state of its candidate just before, which has the same history.
DecisionSound(n) ==
  LET e == found[n]
      u == e.url
  IN /\ e.action \in ActionName
     /\ u \in KnownUrls(n - 1) /\ u \in KnownUrls(n)
     /\ e.token = CandidateAfter(n - 1, u).last_event
     /\ CandidateAfter(n, u).last_event = n
     /\ Fingerprint(n, u) = Fingerprint(n - 1, u)
     /\ e.action = "handoff" => e.evidence.at \in 1 .. now

EventSound(n) ==
  /\ found[n].recorded_at \in 1 .. now
  /\ \/ found[n].kind = "import" /\ found[n].packet \in Packets
     \/ found[n].kind = "decision" /\ DecisionSound(n)

RunsAreImports(n) ==
  \A p : p \in ReportAfter(n).runs <=>
           \E m \in 1 .. n : found[m].kind = "import" /\ found[m].packet = p

\* A token stands for one history: the candidate had the token, and the history, in every
\* report since the event that the token names.
TokenStands(n, u) ==
  \A k \in CandidateAfter(n, u).last_event .. n :
    /\ u \in KnownUrls(k)
    /\ CandidateAfter(k, u).last_event = CandidateAfter(n, u).last_event
    /\ Fingerprint(k, u) = Fingerprint(n, u)

\* A resolved candidate has the history it was resolved under, unless it asks to be reopened.
StaysResolved(n, u) ==
  LET c == CandidateAfter(n, u)
      d == c.decision
  IN /\ d # 0 => found[d].kind = "decision" /\ found[d].url = u
     /\ c.status \in ResolvedStatus =>
          /\ d # 0 /\ c.status = StatusOf(found[d].action) /\ c.resolved = Fingerprint(d, u)
          /\ c.resolved # None
          /\ ~c.requires_reopen => \A k \in d .. n : Fingerprint(k, u) = c.resolved

ReportSound(n) ==
  /\ DiscoveryTyped(ReportAfter(n), n) /\ RunsAreImports(n)
  /\ \A u \in KnownUrls(n) : TokenStands(n, u) /\ StaysResolved(n, u)

DiscoveryInv ==
  /\ now \in Nat
  /\ Grows(found) /\ Grows(reports) /\ Len(reports) = Len(found)
  /\ \A m, n \in 1 .. Len(found) : m < n => found[m].recorded_at < found[n].recorded_at
  /\ \A m, n \in 1 .. Len(found) :
       found[m].kind = "import" /\ found[n].kind = "import" /\ found[m].packet = found[n].packet
         => m = n
  /\ \A n \in 1 .. Len(found) : EventSound(n)
  /\ \A n \in 0 .. Len(found) : ReportSound(n)

\* The past of the queue.
Kept(l) ==
  /\ now \in Nat /\ now' \in Nat /\ now <= now'
  /\ \A n \in 1 .. l : found'[n] = found[n]
  /\ \A n \in 0 .. l : ReportAfter(n)' = ReportAfter(n)

LEMMA EventKept ==
  ASSUME NEW l \in Nat, Kept(l), NEW n \in 1 .. l, EventSound(n)
  PROVE  EventSound(n)'
<1>1. /\ found'[n] = found[n] /\ ReportAfter(n)' = ReportAfter(n)
      /\ ReportAfter(n - 1)' = ReportAfter(n - 1)
      /\ \A x \in 1 .. now : x \in 1 .. now'
  BY DEF Kept
<1>2. DecisionSound(n) => DecisionSound(n)'
  BY <1>1 DEF DecisionSound, KnownUrls, CandidateAfter, Fingerprint
<1>. QED
  BY <1>1, <1>2 DEF EventSound

LEMMA ReportKept ==
  ASSUME NEW l \in Nat, Kept(l), NEW n \in 0 .. l, ReportSound(n)
  PROVE  ReportSound(n)'
<1>1. /\ ReportAfter(n)' = ReportAfter(n) /\ \A m \in 1 .. n : found'[m] = found[m]
      /\ \A k \in 0 .. n : ReportAfter(k)' = ReportAfter(k)
  BY DEF Kept
<1>2. DiscoveryTyped(ReportAfter(n), n)' /\ RunsAreImports(n)'
  BY <1>1 DEF ReportSound, RunsAreImports, DiscoveryTyped
<1>3. ASSUME NEW u \in KnownUrls(n) PROVE TokenStands(n, u)' /\ StaysResolved(n, u)'
  <2>1. /\ TokenStands(n, u) /\ StaysResolved(n, u) /\ CandidateAfter(n, u)' = CandidateAfter(n, u)
        /\ CandidateAfter(n, u) \in DiscoveredState(n)
    BY <1>1 DEF ReportSound, DiscoveryTyped, CandidateAfter, KnownUrls
  <2>2. CandidateAfter(n, u).last_event \in 1 .. n /\ CandidateAfter(n, u).decision \in 0 .. n
    BY <2>1 DEF DiscoveredState
  <2>3. \A k \in 0 .. n : /\ CandidateAfter(k, u)' = CandidateAfter(k, u)
                          /\ KnownUrls(k)' = KnownUrls(k)
                          /\ Fingerprint(k, u)' = Fingerprint(k, u)
    BY <1>1 DEF CandidateAfter, KnownUrls, Fingerprint
  <2>4. TokenStands(n, u)'
    <3>1. \A k \in CandidateAfter(n, u).last_event .. n : k \in 0 .. n
      BY <2>2
    <3>. QED
      BY <2>1, <2>3, <3>1 DEF TokenStands
  <2>5. StaysResolved(n, u)'
    <3>. DEFINE d == CandidateAfter(n, u).decision
    <3>1. /\ \A k \in d .. n : k \in 0 .. n
          /\ d \in 0 .. n /\ (d # 0 => found'[d] = found[d])
      BY <1>1, <2>2
    <3>. QED
      BY <2>1, <2>3, <3>1 DEF StaysResolved
  <2>. QED
    BY <2>4, <2>5
<1>. QED
  BY <1>1, <1>2, <1>3 DEF ReportSound, KnownUrls

\* A new event is recorded at a clock of its own, and leaves the past alone.
LEMMA DiscoveryAppended ==
  ASSUME DiscoveryInv, NEW e, NEW r, found' = Append(found, e), reports' = Append(reports, r),
         now' = now + 1, e.recorded_at = now + 1, NEW l, l = Len(found)
  PROVE  /\ l \in Nat /\ Kept(l) /\ Len(found') = l + 1 /\ Len(reports') = l + 1
         /\ found'[l + 1] = e /\ ReportAfter(l + 1)' = r
         /\ Grows(found)' /\ Grows(reports)'
         /\ \A m, n \in 1 .. l + 1 : m < n => found'[m].recorded_at < found'[n].recorded_at
<1>1. /\ Grows(found) /\ Grows(reports) /\ Len(reports) = l /\ now \in Nat
  BY DEF DiscoveryInv
<1>2. /\ Grows(Append(found, e)) /\ Len(found) \in Nat /\ Len(Append(found, e)) = l + 1
      /\ \A n \in 1 .. l : Append(found, e)[n] = found[n]
      /\ Append(found, e)[l + 1] = e
  BY <1>1, GrowsAppended
<1>3. /\ Grows(Append(reports, r)) /\ Len(Append(reports, r)) = l + 1
      /\ \A n \in 1 .. l : Append(reports, r)[n] = reports[n]
      /\ Append(reports, r)[l + 1] = r
  BY <1>1, GrowsAppended
<1>4. Grows(found)' /\ Grows(reports)'
  <2>1. Grows(found)'
    BY <1>2 DEF Grows
  <2>2. Grows(reports)'
    BY <1>3 DEF Grows
  <2>. QED
    BY <2>1, <2>2
<1>5. /\ l \in Nat /\ \A n \in 0 .. l : ReportAfter(n)' = ReportAfter(n)
      /\ ReportAfter(l + 1)' = r
  BY <1>2, <1>3 DEF ReportAfter
<1>6. \A m, n \in 1 .. l + 1 : m < n => found'[m].recorded_at < found'[n].recorded_at
  <2>1. found'[l + 1].recorded_at = now + 1
    BY <1>2
  <2>2. BeginsAs(found', found, l)
    BY <1>2 DEF BeginsAs
  <2>3. ClocksUpTo(found, l, now)
    BY <1>2 DEF DiscoveryInv, EventSound, ClocksUpTo
  <2>4. ClocksRise(found, l)
    BY DEF DiscoveryInv, ClocksRise
  <2>5. ClocksRise(found', l + 1)
    BY <1>1, <1>5, <2>1, <2>2, <2>3, <2>4, LaterAtEnd
  <2>. QED
    BY <2>5 DEF ClocksRise
<1>. QED
  BY <1>1, <1>2, <1>3, <1>4, <1>5, <1>6 DEF Kept

\* It is enough to look at the new event and its report.
LEMMA DiscoveryExtended ==
  ASSUME DiscoveryInv, NEW e, NEW r, found' = Append(found, e), reports' = Append(reports, r),
         now' = now + 1, e.recorded_at = now + 1, NEW l, l = Len(found),
         EventSound(l + 1)', ReportSound(l + 1)',
         e.kind = "import" => e.packet \notin ReportAfter(l).runs
  PROVE  DiscoveryInv'
<1>1. /\ l \in Nat /\ Kept(l) /\ Len(found') = l + 1 /\ Len(reports') = l + 1
      /\ found'[l + 1] = e /\ ReportAfter(l + 1)' = r
      /\ Grows(found)' /\ Grows(reports)'
      /\ \A m, n \in 1 .. l + 1 : m < n => found'[m].recorded_at < found'[n].recorded_at
  BY DiscoveryAppended
<1>2. \A n \in 1 .. l : found'[n] = found[n]
  BY <1>1 DEF Kept
<1>3. ASSUME NEW m \in 1 .. l, found[m].kind = "import", e.kind = "import",
             found[m].packet = e.packet
      PROVE  FALSE
  <2>1. RunsAreImports(l)
    BY <1>1 DEF DiscoveryInv, ReportSound
  <2>. QED
    BY <1>3, <2>1 DEF RunsAreImports
<1>4. ASSUME NEW m \in 1 .. l + 1, NEW n \in 1 .. l + 1, found'[m].kind = "import",
             found'[n].kind = "import", found'[m].packet = found'[n].packet
      PROVE  m = n
  <2>1. m \in 1 .. l \/ m = l + 1
    BY <1>1
  <2>2. n \in 1 .. l \/ n = l + 1
    BY <1>1
  <2>3. CASE m \in 1 .. l /\ n \in 1 .. l
    BY <1>2, <1>4, <2>3 DEF DiscoveryInv
  <2>. QED
    BY <1>1, <1>2, <1>3, <1>4, <2>1, <2>2, <2>3
<1>5. ASSUME NEW n \in 1 .. l + 1 PROVE EventSound(n)'
  <2>1. CASE n \in 1 .. l
    BY <1>1, <2>1, EventKept DEF DiscoveryInv
  <2>2. CASE n = l + 1
    BY <2>2
  <2>. QED
    BY <1>1, <2>1, <2>2
<1>6. ASSUME NEW n \in 0 .. l + 1 PROVE ReportSound(n)'
  <2>1. CASE n \in 0 .. l
    BY <1>1, <2>1, ReportKept DEF DiscoveryInv
  <2>2. CASE n = l + 1
    BY <2>2
  <2>. QED
    BY <1>1, <2>1, <2>2
<1>. QED
  BY <1>1, <1>4, <1>5, <1>6 DEF DiscoveryInv, Kept

LEMMA ImportDiscoveryInv ==
  ASSUME DiscoveryInv, NEW p \in Packets, ImportDiscovery(p)
  PROVE  DiscoveryInv'
<1>. DEFINE e == [kind |-> "import", packet |-> p, recorded_at |-> now + 1]
            old == ReportAfter(Len(found))
            r == FoldPacket(old, p, Len(found) + 1)
<1>0. PICK l : l = Len(found)
  OBVIOUS
<1>1. /\ now' = now + 1 /\ found' = Append(found, e) /\ reports' = Append(reports, r)
      /\ p \notin old.runs /\ old = ReportAfter(l) /\ r = FoldPacket(old, p, l + 1)
      /\ e.kind = "import" /\ e.packet = p /\ e.recorded_at = now + 1
  BY <1>0 DEF ImportDiscovery, Append1, FoldEvent, Report
<1>. HIDE DEF e, r, old
<1>2. /\ l \in Nat /\ Kept(l) /\ Len(found') = l + 1 /\ found'[l + 1] = e
      /\ ReportAfter(l + 1)' = r /\ now \in Nat
  BY <1>0, <1>1, DiscoveryAppended DEF DiscoveryInv
<1>3. /\ DiscoveryTyped(old, l) /\ RunsAreImports(l)
      /\ \A u \in KnownUrls(l) : TokenStands(l, u) /\ StaysResolved(l, u)
  BY <1>0, <1>1, <1>2 DEF DiscoveryInv, ReportSound
<1>4. /\ DiscoveryTyped(r, l + 1) /\ r.runs = old.runs \cup {p}
      /\ DOMAIN old.candidates \subseteq DOMAIN r.candidates
      /\ \A u \in DOMAIN old.candidates : Rechecked(old.candidates[u], r.candidates[u], l + 1)
      /\ \A u \in DOMAIN r.candidates \ DOMAIN old.candidates :
           /\ r.candidates[u].status = "pending" /\ r.candidates[u].last_event = l + 1
           /\ r.candidates[u].decision = 0
  BY <1>1, <1>2, <1>3, FoldPacketIs
<1>5. EventSound(l + 1)'
  BY <1>1, <1>2, <1>4 DEF EventSound, Kept
<1>6. RunsAreImports(l + 1)'
  <2>1. \A m \in 1 .. l : found'[m] = found[m]
    BY <1>2 DEF Kept
  <2>2. ASSUME NEW q
        PROVE  q \in r.runs <=> \E m \in 1 .. l + 1 : found'[m].kind = "import" /\ found'[m].packet = q
    <3>1. q \in r.runs <=> q = p \/ \E m \in 1 .. l : found[m].kind = "import" /\ found[m].packet = q
      BY <1>1, <1>3, <1>4 DEF RunsAreImports
    <3>2. \A m : m \in 1 .. l + 1 <=> m \in 1 .. l \/ m = l + 1
      BY <1>2
    <3>. QED
      BY <1>1, <1>2, <2>1, <3>1, <3>2
  <2>. QED
    BY <1>2, <2>2 DEF RunsAreImports
<1>7. ASSUME NEW u \in DOMAIN r.candidates
      PROVE  TokenStands(l + 1, u)' /\ StaysResolved(l + 1, u)'
  <2>0. PICK c, d : c = old.candidates[u] /\ d = r.candidates[u]
    OBVIOUS
  <2>1. /\ CandidateAfter(l + 1, u)' = d /\ u \in KnownUrls(l + 1)'
        /\ Fingerprint(l + 1, u)' = Signature(d.observations) /\ d \in DiscoveredState(l + 1)
    BY <1>2, <1>4, <2>0 DEF CandidateAfter, KnownUrls, Fingerprint, DiscoveryTyped
  <2>2. ASSUME d.last_event = l + 1 PROVE TokenStands(l + 1, u)'
    <3>1. \A k \in l + 1 .. l + 1 : k = l + 1
      BY <1>2
    <3>. QED
      BY <2>1, <2>2, <3>1 DEF TokenStands
  <2>3. CASE u \notin DOMAIN old.candidates
    <3>1. d.status = "pending" /\ d.last_event = l + 1 /\ d.decision = 0
      BY <1>4, <2>0, <2>3
    <3>2. StaysResolved(l + 1, u)'
      BY <2>1, <3>1 DEF StaysResolved, ResolvedStatus
    <3>. QED
      BY <2>2, <3>1, <3>2
  <2>4. CASE u \in DOMAIN old.candidates
    <3>1. /\ CandidateAfter(l, u) = c /\ u \in KnownUrls(l) /\ c \in DiscoveredState(l)
          /\ Fingerprint(l, u) = Signature(c.observations)
      BY <1>1, <1>3, <2>0, <2>4 DEF CandidateAfter, KnownUrls, Fingerprint, DiscoveryTyped
    <3>2. /\ d.status = c.status /\ d.resolved = c.resolved /\ d.decision = c.decision
          /\ \/ d.last_event = l + 1
             \/ /\ d.last_event = c.last_event
                /\ Signature(d.observations) = Signature(c.observations)
          /\ ~d.requires_reopen =>
               /\ ~c.requires_reopen
               /\ c.resolved # None /\ Signature(c.observations) = c.resolved =>
                    Signature(d.observations) = c.resolved
      BY <1>4, <2>0, <2>4 DEF Rechecked
    <3>3. \A k \in 0 .. l : /\ CandidateAfter(k, u)' = CandidateAfter(k, u)
                            /\ KnownUrls(k)' = KnownUrls(k) /\ Fingerprint(k, u)' = Fingerprint(k, u)
      BY <1>2 DEF Kept, CandidateAfter, KnownUrls, Fingerprint
    <3>4. TokenStands(l, u) /\ StaysResolved(l, u)
      BY <1>3, <3>1
    <3>5. c.last_event \in 1 .. l /\ c.decision \in 0 .. l
      BY <3>1 DEF DiscoveredState
    <3>6. TokenStands(l + 1, u)'
      <4>1. CASE d.last_event = l + 1
        BY <2>2, <4>1
      <4>2. CASE /\ d.last_event = c.last_event
                 /\ Signature(d.observations) = Signature(c.observations)
        <5>1. ASSUME NEW k \in c.last_event .. l + 1
              PROVE  /\ u \in KnownUrls(k)' /\ CandidateAfter(k, u)'.last_event = c.last_event
                     /\ Fingerprint(k, u)' = Signature(c.observations)
          <6>1. CASE k = l + 1
            BY <2>1, <4>2, <6>1
          <6>2. CASE k # l + 1
            <7>1. k \in c.last_event .. l /\ k \in 0 .. l
              BY <1>2, <3>5, <6>2
            <7>. QED
              BY <3>1, <3>3, <3>4, <7>1 DEF TokenStands
          <6>. QED
            BY <6>1, <6>2
        <5>. QED
          BY <2>1, <4>2, <5>1 DEF TokenStands
      <4>. QED
        BY <3>2, <4>1, <4>2
    <3>7. StaysResolved(l + 1, u)'
      <4>1. c.decision # 0 => found'[c.decision] = found[c.decision]
        BY <1>2, <3>5 DEF Kept
      <4>2. Fingerprint(c.decision, u)' = Fingerprint(c.decision, u)
        BY <3>3, <3>5
      <4>3. ASSUME c.status \in ResolvedStatus, ~d.requires_reopen, NEW k \in c.decision .. l + 1
            PROVE  Fingerprint(k, u)' = c.resolved
        <5>0. /\ ~c.requires_reopen /\ c.resolved # None
              /\ \A m \in c.decision .. l : Fingerprint(m, u) = c.resolved
          BY <3>1, <3>2, <3>4, <4>3 DEF StaysResolved
        <5>1. CASE k = l + 1
          <6>1. l \in c.decision .. l
            BY <1>2, <3>5
          <6>2. Signature(c.observations) = c.resolved
            BY <3>1, <5>0, <6>1
          <6>. QED
            BY <2>1, <3>2, <4>3, <5>0, <5>1, <6>2
        <5>2. CASE k # l + 1
          <6>1. k \in c.decision .. l /\ k \in 0 .. l
            BY <1>2, <3>5, <5>2
          <6>. QED
            BY <3>3, <5>0, <6>1
        <5>. QED
          BY <5>1, <5>2
      <4>4. /\ c.decision # 0 => found[c.decision].kind = "decision" /\ found[c.decision].url = u
            /\ c.status \in ResolvedStatus =>
                 /\ c.decision # 0 /\ c.status = StatusOf(found[c.decision].action)
                 /\ c.resolved = Fingerprint(c.decision, u) /\ c.resolved # None
        BY <3>1, <3>4 DEF StaysResolved
      <4>. QED
        BY <2>1, <3>2, <4>1, <4>2, <4>3, <4>4 DEF StaysResolved
    <3>. QED
      BY <3>6, <3>7
  <2>. QED
    BY <2>3, <2>4
<1>8. ReportSound(l + 1)'
  BY <1>2, <1>4, <1>6, <1>7 DEF ReportSound, KnownUrls
<1>. QED
  BY <1>0, <1>1, <1>5, <1>8, DiscoveryExtended

LEMMA DecideDiscoveryInv ==
  ASSUME DiscoveryInv, NEW u \in Url, NEW token, NEW a \in ReviewerActions,
         DecideDiscovery(u, token, a, AccessReviews(u))
  PROVE  DiscoveryInv'
<1>1. PICK x \in IF a = "handoff" THEN AccessReviews(u) ELSE {None} :
        Append1([kind |-> "decision", url |-> u, action |-> a, token |-> token,
                 evidence |-> x, recorded_at |-> 0])
  BY DEF DecideDiscovery
<1>2. PICK e : e = [kind |-> "decision", url |-> u, action |-> a, token |-> token,
                    evidence |-> x, recorded_at |-> now + 1]
  OBVIOUS
<1>3. PICK l : l = Len(found)
  OBVIOUS
<1>4. PICK old : old = ReportAfter(l)
  OBVIOUS
<1>5. PICK r : r = DecideOn(old, e, l + 1)
  OBVIOUS
<1>6. /\ e.kind = "decision" /\ e.url = u /\ e.action = a /\ e.token = token
      /\ e.evidence = x /\ e.recorded_at = now + 1
  BY <1>2
<1>7. now' = now + 1 /\ found' = Append(found, e) /\ reports' = Append(reports, r)
  <2>. DEFINE e0 == [kind |-> "decision", url |-> u, action |-> a, token |-> token,
                     evidence |-> x, recorded_at |-> 0]
  <2>1. FoldEvent(old, e0, l + 1) = DecideOn(old, e0, l + 1)
    BY DEF FoldEvent
  <2>2. DecideOn(old, e0, l + 1) = DecideOn(old, e, l + 1)
    BY <1>6 DEF DecideOn
  <2>3. [e0 EXCEPT !.recorded_at = now + 1] = e
    BY <1>2
  <2>. QED
    BY <1>1, <1>3, <1>4, <1>5, <2>1, <2>2, <2>3 DEF Append1, Report
<1>8. /\ l \in Nat /\ Kept(l) /\ Len(found') = l + 1 /\ found'[l + 1] = e
      /\ ReportAfter(l + 1)' = r /\ now \in Nat /\ now' = now + 1
  BY <1>3, <1>6, <1>7, DiscoveryAppended DEF DiscoveryInv
<1>9. /\ DiscoveryTyped(old, l) /\ RunsAreImports(l)
      /\ \A v \in KnownUrls(l) : TokenStands(l, v) /\ StaysResolved(l, v)
  BY <1>3, <1>4, <1>8 DEF DiscoveryInv, ReportSound
<1>10. /\ a \in ActionName /\ u \in DOMAIN old.candidates
       /\ token = old.candidates[u].last_event
  BY <1>3, <1>4, DiscoveryAssumption DEF DecideDiscovery, Candidates, Report
<1>11. PICK c, d : c = old.candidates[u] /\ d = r.candidates[u]
  OBVIOUS
<1>12. /\ DiscoveryTyped(r, l + 1) /\ r.runs = old.runs
       /\ DOMAIN r.candidates = DOMAIN old.candidates
       /\ \A v \in DOMAIN old.candidates \ {u} : r.candidates[v] = old.candidates[v]
       /\ d.status = StatusOf(a) /\ d.last_event = l + 1 /\ d.decision = l + 1
       /\ d.observations = c.observations
       /\ d.status \in ResolvedStatus => d.resolved = Signature(c.observations)
  BY <1>5, <1>6, <1>8, <1>9, <1>10, <1>11, DecideOnIs
<1>13. c \in DiscoveredState(l) /\ d \in DiscoveredState(l + 1)
  BY <1>9, <1>10, <1>11, <1>12 DEF DiscoveryTyped
<1>14. /\ \A k \in 0 .. l : ReportAfter(k)' = ReportAfter(k)
       /\ \A k \in 1 .. l : found'[k] = found[k]
  BY <1>8 DEF Kept
<1>15. ASSUME NEW v
       PROVE  \A k \in 0 .. l : /\ CandidateAfter(k, v)' = CandidateAfter(k, v)
                               /\ KnownUrls(k)' = KnownUrls(k)
                               /\ Fingerprint(k, v)' = Fingerprint(k, v)
  BY <1>14 DEF CandidateAfter, KnownUrls, Fingerprint
<1>16. /\ CandidateAfter(l, u) = c /\ u \in KnownUrls(l)
       /\ Fingerprint(l, u) = Signature(c.observations)
       /\ CandidateAfter(l + 1, u)' = d /\ u \in KnownUrls(l + 1)'
       /\ Fingerprint(l + 1, u)' = Signature(c.observations)
  BY <1>4, <1>8, <1>10, <1>11, <1>12 DEF CandidateAfter, KnownUrls, Fingerprint
<1>17. EventSound(l + 1)'
  <2>1. a = "handoff" => x.at \in 1 .. now
    BY <1>1 DEF AccessReviews, Dates
  <2>2. l + 1 - 1 = l /\ l \in 0 .. l
    BY <1>8
  <2>3. /\ (l + 1 - 1)' = l /\ CandidateAfter(l, u)' = c /\ u \in KnownUrls(l)'
        /\ Fingerprint(l, u)' = Signature(c.observations)
    BY <1>15, <1>16, <2>2
  <2>4. a = "handoff" => x.at \in 1 .. now'
    BY <1>8, <2>1
  <2>5. DecisionSound(l + 1)'
    BY <1>6, <1>8, <1>10, <1>11, <1>12, <1>16, <2>2, <2>3, <2>4 DEF DecisionSound
  <2>. QED
    BY <1>6, <1>8, <2>5 DEF EventSound
<1>18. RunsAreImports(l + 1)'
  <2>1. \A m : m \in 1 .. l + 1 <=> m \in 1 .. l \/ m = l + 1
    BY <1>8
  <2>2. ASSUME NEW q
        PROVE  q \in r.runs <=> \E m \in 1 .. l + 1 : found'[m].kind = "import" /\ found'[m].packet = q
    <3>1. q \in r.runs <=> \E m \in 1 .. l : found[m].kind = "import" /\ found[m].packet = q
      BY <1>4, <1>9, <1>12 DEF RunsAreImports
    <3>. QED
      BY <1>6, <1>8, <1>14, <2>1, <3>1
  <2>. QED
    BY <1>8, <2>2 DEF RunsAreImports
<1>19. TokenStands(l + 1, u)' /\ StaysResolved(l + 1, u)'
  <2>1. \A k \in l + 1 .. l + 1 : k = l + 1
    BY <1>8
  <2>2. TokenStands(l + 1, u)'
    BY <1>12, <1>16, <2>1 DEF TokenStands
  <2>3. d.status \in ResolvedStatus => d.resolved # None
    <3>1. c.observations \in SUBSET Sighting
      BY <1>13 DEF DiscoveredState
    <3>. QED
      BY <1>12, <3>1, SignatureTyped
  <2>4. StaysResolved(l + 1, u)'
    BY <1>6, <1>8, <1>12, <1>16, <2>1, <2>3 DEF StaysResolved
  <2>. QED
    BY <2>2, <2>4
<1>20. ASSUME NEW v \in DOMAIN r.candidates \ {u}
       PROVE  TokenStands(l + 1, v)' /\ StaysResolved(l + 1, v)'
  <2>1. PICK b : b = old.candidates[v]
    OBVIOUS
  <2>2. /\ CandidateAfter(l, v) = b /\ v \in KnownUrls(l) /\ b \in DiscoveredState(l)
        /\ Fingerprint(l, v) = Signature(b.observations)
        /\ CandidateAfter(l + 1, v)' = b /\ v \in KnownUrls(l + 1)'
        /\ Fingerprint(l + 1, v)' = Signature(b.observations)
    BY <1>4, <1>8, <1>9, <1>12, <2>1 DEF CandidateAfter, KnownUrls, Fingerprint, DiscoveryTyped
  <2>3. TokenStands(l, v) /\ StaysResolved(l, v)
    BY <1>9, <2>2
  <2>4. b.last_event \in 1 .. l /\ b.decision \in 0 .. l
    BY <2>2 DEF DiscoveredState
  <2>5. TokenStands(l + 1, v)'
    <3>1. ASSUME NEW k \in b.last_event .. l + 1
          PROVE  /\ v \in KnownUrls(k)' /\ CandidateAfter(k, v)'.last_event = b.last_event
                 /\ Fingerprint(k, v)' = Signature(b.observations)
      <4>1. CASE k = l + 1
        BY <2>2, <4>1
      <4>2. CASE k # l + 1
        <5>1. k \in b.last_event .. l /\ k \in 0 .. l
          BY <1>8, <2>4, <4>2
        <5>. QED
          BY <1>15, <2>2, <2>3, <5>1 DEF TokenStands
      <4>. QED
        BY <4>1, <4>2
    <3>. QED
      BY <2>2, <3>1 DEF TokenStands
  <2>6. StaysResolved(l + 1, v)'
    <3>1. b.decision # 0 => found'[b.decision] = found[b.decision]
      BY <1>8, <1>14, <2>4
    <3>2. Fingerprint(b.decision, v)' = Fingerprint(b.decision, v)
      BY <1>15, <2>4
    <3>3. ASSUME b.status \in ResolvedStatus, ~b.requires_reopen, NEW k \in b.decision .. l + 1
          PROVE  Fingerprint(k, v)' = b.resolved
      <4>0. \A m \in b.decision .. l : Fingerprint(m, v) = b.resolved
        BY <2>2, <2>3, <3>3 DEF StaysResolved
      <4>1. CASE k = l + 1
        <5>1. l \in b.decision .. l
          BY <1>8, <2>4
        <5>. QED
          BY <2>2, <4>0, <4>1, <5>1
      <4>2. CASE k # l + 1
        <5>1. k \in b.decision .. l /\ k \in 0 .. l
          BY <1>8, <2>4, <4>2
        <5>. QED
          BY <1>15, <4>0, <5>1
      <4>. QED
        BY <4>1, <4>2
    <3>4. /\ b.decision # 0 => found[b.decision].kind = "decision" /\ found[b.decision].url = v
          /\ b.status \in ResolvedStatus =>
               /\ b.decision # 0 /\ b.status = StatusOf(found[b.decision].action)
               /\ b.resolved = Fingerprint(b.decision, v) /\ b.resolved # None
      BY <2>2, <2>3 DEF StaysResolved
    <3>. QED
      BY <2>2, <3>1, <3>2, <3>3, <3>4 DEF StaysResolved
  <2>. QED
    BY <2>5, <2>6
<1>21. ReportSound(l + 1)'
  BY <1>8, <1>12, <1>18, <1>19, <1>20 DEF ReportSound, KnownUrls
<1>. QED
  BY <1>3, <1>6, <1>7, <1>17, <1>21, DiscoveryExtended

LEMMA InitDiscoveryInv == HandoffInit => DiscoveryInv
<1>. SUFFICES ASSUME HandoffInit PROVE DiscoveryInv
  OBVIOUS
<1>1. /\ now = 0 /\ found = <<>> /\ reports = <<>> /\ Len(found) = 0 /\ Len(reports) = 0
      /\ ReportAfter(0) = NothingYet /\ KnownUrls(0) = {}
  BY DEF HandoffInit, ReportAfter, KnownUrls, NothingYet
<1>2. Grows(found) /\ Grows(reports)
  BY <1>1 DEF Grows
<1>3. ReportSound(0)
  <2>1. /\ NothingYet.runs = {} /\ NothingYet.candidates = <<>>
        /\ NothingYet = [runs |-> NothingYet.runs, candidates |-> NothingYet.candidates]
    BY DEF NothingYet
  <2>2. DOMAIN NothingYet.candidates = {}
    BY <2>1
  <2>3. NothingYet.candidates \in [DOMAIN NothingYet.candidates -> DiscoveredState(0)]
    BY <2>1, <2>2
  <2>4. DiscoveryTyped(ReportAfter(0), 0)
    BY <1>1, <2>1, <2>2, <2>3 DEF DiscoveryTyped
  <2>5. RunsAreImports(0)
    BY <1>1, <2>1 DEF RunsAreImports
  <2>. QED
    BY <1>1, <2>4, <2>5 DEF ReportSound
<1>. QED
  BY <1>1, <1>2, <1>3 DEF DiscoveryInv

\* The other queue moves the clock only.
LEMMA ClockDiscoveryInv ==
  ASSUME DiscoveryInv, now' \in Nat, now <= now', UNCHANGED <<found, reports>>
  PROVE  DiscoveryInv'
<1>1. PICK l : l = Len(found)
  OBVIOUS
<1>2. l \in Nat /\ Kept(l)
  BY <1>1 DEF DiscoveryInv, Grows, Kept, ReportAfter
<1>3. \A n \in 1 .. l : EventSound(n)'
  BY <1>1, <1>2, EventKept DEF DiscoveryInv
<1>4. \A n \in 0 .. l : ReportSound(n)'
  BY <1>1, <1>2, ReportKept DEF DiscoveryInv
<1>. QED
  BY <1>1, <1>3, <1>4 DEF DiscoveryInv, Grows

\* The model's instance of the queue and the one whose theorems are used define the same.

LEMMA SameRecurrences ==
  \A captures, i : Source!Recurrences(captures, i) = SourceProofs!Recurrences(captures, i)
BY DEF Source!Recurrences, SourceProofs!Recurrences, Source!EligibleOf, SourceProofs!EligibleOf,
       Source!Eligible, SourceProofs!Eligible, Source!Before, SourceProofs!Before,
       Source!VersionsAt, SourceProofs!VersionsAt

LEMMA SameReopens ==
  \A c, i, k, s : Source!Reopens(c, i, k, s) = SourceProofs!Reopens(c, i, k, s)
BY SameRecurrences
DEF Source!Reopens, SourceProofs!Reopens, Source!ReviewRequired, SourceProofs!ReviewRequired,
    Source!Eligible, SourceProofs!Eligible, Source!Open, SourceProofs!Open

LEMMA SameImport == \A r, c : Source!FoldImport(r, c) = SourceProofs!FoldImport(r, c)
<1>. SUFFICES ASSUME NEW r, NEW c PROVE Source!FoldImport(r, c) = SourceProofs!FoldImport(r, c)
  OBVIOUS
<1>. DEFINE n == r.event_count + 1
            captures == r.captures \cup {c}
            domain == DOMAIN r.candidates \cup
                        (IF SourceProofs!Admits(c) THEN {<<c.url, c.version>>} ELSE {})
            candidate(i) == IF i \in DOMAIN r.candidates THEN r.candidates[i]
                                                         ELSE SourceProofs!NewCandidate(n)
            one(i) == [candidate(i) EXCEPT !.requires_reopen =
                         @ \/ Source!Reopens(candidate(i), i, c, captures)]
            two(i) == [candidate(i) EXCEPT !.requires_reopen =
                         @ \/ SourceProofs!Reopens(candidate(i), i, c, captures)]
<1>1. Source!Admits(c) = SourceProofs!Admits(c)
  BY DEF Source!Admits, SourceProofs!Admits, Source!Eligible, SourceProofs!Eligible
<1>2. Source!NewCandidate(n) = SourceProofs!NewCandidate(n)
  BY DEF Source!NewCandidate, SourceProofs!NewCandidate
<1>3. ASSUME NEW i PROVE one(i) = two(i)
  BY SameReopens
<1>4. SourceProofs!FoldImport(r, c) =
        [event_count |-> n, captures |-> captures, candidates |-> [i \in domain |-> two(i)]]
  BY DEF SourceProofs!FoldImport
<1>5. Source!FoldImport(r, c) =
        [event_count |-> n, captures |-> captures, candidates |-> [i \in domain |-> one(i)]]
  BY <1>1, <1>2, Zenon DEF Source!FoldImport
<1>. HIDE DEF one, two, domain, n, captures
<1>6. [i \in domain |-> one(i)] = [i \in domain |-> two(i)]
  BY <1>3
<1>. QED
  BY <1>4, <1>5, <1>6

LEMMA SameDecision == \A r, e : Source!FoldDecision(r, e) = SourceProofs!FoldDecision(r, e)
BY SameRecurrences
DEF Source!FoldDecision, SourceProofs!FoldDecision, Source!StatusAfter, SourceProofs!StatusAfter,
    Source!Open, SourceProofs!Open

LEMMA SameFold == \A r, e : Source!Fold(r, e) = SourceProofs!Fold(r, e)
BY SameImport, SameDecision DEF Source!Fold, SourceProofs!Fold

LEMMA SameSteps ==
  ASSUME NEW t \in HostClock
  PROVE  /\ \A c \in Captures : Source!ImportCapture(c, t) => SourceProofs!Next
         /\ \A i \in Source!Candidate, token \in DOMAIN source_events, a \in SourceActions :
              Source!RecordDecision(i, token, a, t) => SourceProofs!Next
<1>1. \A e : Source!AppendEvent(e) <=> SourceProofs!AppendEvent(e)
  BY SameFold DEF Source!AppendEvent, SourceProofs!AppendEvent
<1>2. \A c \in Captures : Source!ImportCapture(c, t) => SourceProofs!ImportCapture(c, t)
  BY <1>1 DEF Source!ImportCapture, SourceProofs!ImportCapture
<1>3. \A i, token, a :
        Source!RecordDecision(i, token, a, t) => SourceProofs!RecordDecision(i, token, a, t)
  BY <1>1 DEF Source!RecordDecision, SourceProofs!RecordDecision, Source!Current,
              SourceProofs!Current, Source!ValidDecision, SourceProofs!ValidDecision, Source!Open, SourceProofs!Open
<1>4. Source!Candidate = SourceProofs!Candidate
  BY DEF Source!Candidate, SourceProofs!Candidate
<1>. QED
  BY <1>2, <1>3, <1>4 DEF SourceProofs!Next

-----------------------------------------------------------------------------
(* The queue of source texts. *)

SourceReportAfter(n) == IF n = 0 THEN Source!EmptyReport ELSE source_reports[n]

\* A review that a disposition cites is dated before it.
SourceEventSound(n) ==
  LET e == source_events[n]
  IN /\ e.recorded_at \in 1 .. now
     /\ e.kind = "review_decision" /\ e.action \in {"dismiss", "handoff"} =>
          text_reviews[n].at \in 1 .. now

\* What ResolvedKnows says of the present report, kept for each that there was.
SourceReportSound(n) ==
  LET r == SourceReportAfter(n)
  IN /\ r.captures = SourceProofs!ImportedBy(n) /\ r.captures \subseteq Captures
     /\ DOMAIN r.candidates \subseteq SourceProofs!Candidate
     /\ \A i \in DOMAIN r.candidates :
          LET c == r.candidates[i]
              d == c.last_event
          IN c.status \in SourceProofs!Resolved =>
               /\ d \in 1 .. n /\ SourceProofs!Resolves(d, i)
               /\ ~c.requires_reopen =>
                    SourceProofs!Recurrences(r.captures, i) \subseteq
                      SourceProofs!Recurrences(SourceProofs!ImportedBy(d), i)

SourceInv ==
  /\ SourceProofs!IInv
  /\ Grows(source_events)
  /\ Grows(source_reports) /\ Len(source_reports) = Len(source_events)
  /\ Grows(text_reviews) /\ Len(text_reviews) = Len(source_events)
  /\ SourceReportAfter(Len(source_events)) = source_report
  /\ \A m, n \in 1 .. Len(source_events) :
       m < n => source_events[m].recorded_at < source_events[n].recorded_at
  /\ \A m, n \in 1 .. Len(source_events) :
       /\ source_events[m].kind = "capture_imported" /\ source_events[n].kind = "capture_imported"
       /\ source_events[m].capture = source_events[n].capture
       => m = n
  /\ \A n \in 1 .. Len(source_events) : SourceEventSound(n)
  /\ \A n \in 0 .. Len(source_events) : SourceReportSound(n)

SourceKept(l) ==
  /\ now \in Nat /\ now' \in Nat /\ now <= now'
  /\ \A n \in 1 .. l : source_events'[n] = source_events[n] /\ text_reviews'[n] = text_reviews[n]
  /\ \A n \in 0 .. l : SourceReportAfter(n)' = SourceReportAfter(n)

LEMMA SourceEventKept ==
  ASSUME NEW l \in Nat, SourceKept(l), NEW n \in 1 .. l, SourceEventSound(n)
  PROVE  SourceEventSound(n)'
<1>1. /\ source_events'[n] = source_events[n] /\ text_reviews'[n] = text_reviews[n]
      /\ \A x \in 1 .. now : x \in 1 .. now'
  BY DEF SourceKept
<1>. QED
  BY <1>1 DEF SourceEventSound

LEMMA SourceReportKept ==
  ASSUME NEW l \in Nat, SourceKept(l), NEW n \in 0 .. l, SourceReportSound(n)
  PROVE  SourceReportSound(n)'
<1>1. SourceReportAfter(n)' = SourceReportAfter(n)
  BY DEF SourceKept
<1>2. ASSUME NEW k \in 0 .. n PROVE SourceProofs!ImportedBy(k)' = SourceProofs!ImportedBy(k)
  <2>1. \A m \in 1 .. k : source_events'[m] = source_events[m]
    BY DEF SourceKept
  <2>. QED
    BY <2>1 DEF SourceProofs!ImportedBy
<1>3. ASSUME NEW d \in 1 .. n, NEW i PROVE SourceProofs!Resolves(d, i)' = SourceProofs!Resolves(d, i)
  BY DEF SourceKept, SourceProofs!Resolves, SourceProofs!Decides
<1>4. PICK r : r = SourceReportAfter(n)
  OBVIOUS
<1>5. /\ r.captures = SourceProofs!ImportedBy(n) /\ r.captures \subseteq Captures
      /\ DOMAIN r.candidates \subseteq SourceProofs!Candidate
      /\ SourceProofs!ImportedBy(n)' = SourceProofs!ImportedBy(n)
      /\ SourceReportAfter(n)' = r
  BY <1>1, <1>2, <1>4 DEF SourceReportSound
<1>6. ASSUME NEW i \in DOMAIN r.candidates, NEW c, c = r.candidates[i],
             c.status \in SourceProofs!Resolved, NEW d, d = c.last_event
      PROVE  /\ d \in 1 .. n /\ SourceProofs!Resolves(d, i)'
             /\ ~c.requires_reopen =>
                  SourceProofs!Recurrences(r.captures, i) \subseteq
                    SourceProofs!Recurrences(SourceProofs!ImportedBy(d)', i)
  <2>1. /\ d \in 1 .. n /\ SourceProofs!Resolves(d, i)
        /\ ~c.requires_reopen =>
             SourceProofs!Recurrences(r.captures, i) \subseteq
               SourceProofs!Recurrences(SourceProofs!ImportedBy(d), i)
    BY <1>4, <1>6 DEF SourceReportSound
  <2>2. SourceProofs!ImportedBy(d)' = SourceProofs!ImportedBy(d)
    BY <1>2, <2>1
  <2>. QED
    BY <1>3, <2>1, <2>2
<1>. QED
  BY <1>5, <1>6 DEF SourceReportSound

LEMMA SourceAppended ==
  ASSUME SourceInv, now \in Nat, NEW e, NEW r, NEW x, source_events' = Append(source_events, e),
         source_reports' = Append(source_reports, r), text_reviews' = Append(text_reviews, x),
         now' = now + 1, e.recorded_at = now + 1, NEW l, l = Len(source_events)
  PROVE  /\ l \in Nat /\ SourceKept(l) /\ Len(source_events') = l + 1
         /\ Len(source_reports') = l + 1 /\ Len(text_reviews') = l + 1
         /\ source_events'[l + 1] = e /\ text_reviews'[l + 1] = x /\ SourceReportAfter(l + 1)' = r
         /\ Grows(source_events)' /\ Grows(source_reports)' /\ Grows(text_reviews)'
         /\ \A m, n \in 1 .. l + 1 :
              m < n => source_events'[m].recorded_at < source_events'[n].recorded_at
<1>1. /\ Grows(source_events) /\ Grows(source_reports) /\ Grows(text_reviews)
      /\ Len(source_reports) = l /\ Len(text_reviews) = l
  BY DEF SourceInv
<1>2. /\ Grows(Append(source_events, e)) /\ l \in Nat /\ Len(Append(source_events, e)) = l + 1
      /\ \A n \in 1 .. l : Append(source_events, e)[n] = source_events[n]
      /\ Append(source_events, e)[l + 1] = e
  BY <1>1, GrowsAppended
<1>3. /\ Grows(Append(source_reports, r)) /\ Len(Append(source_reports, r)) = l + 1
      /\ \A n \in 1 .. l : Append(source_reports, r)[n] = source_reports[n]
      /\ Append(source_reports, r)[l + 1] = r
  BY <1>1, GrowsAppended
<1>4. /\ Grows(Append(text_reviews, x)) /\ Len(Append(text_reviews, x)) = l + 1
      /\ \A n \in 1 .. l : Append(text_reviews, x)[n] = text_reviews[n]
      /\ Append(text_reviews, x)[l + 1] = x
  BY <1>1, GrowsAppended
<1>5. Grows(source_events)' /\ Grows(source_reports)' /\ Grows(text_reviews)'
  <2>1. Grows(source_events)'
    BY <1>2 DEF Grows
  <2>2. Grows(source_reports)'
    BY <1>3 DEF Grows
  <2>3. Grows(text_reviews)'
    BY <1>4 DEF Grows
  <2>. QED
    BY <2>1, <2>2, <2>3
<1>6. /\ \A n \in 0 .. l : SourceReportAfter(n)' = SourceReportAfter(n)
      /\ SourceReportAfter(l + 1)' = r
  BY <1>2, <1>3 DEF SourceReportAfter, Source!EmptyReport
<1>7. \A m, n \in 1 .. l + 1 :
        m < n => source_events'[m].recorded_at < source_events'[n].recorded_at
  <2>1. source_events'[l + 1].recorded_at = now + 1
    BY <1>2
  <2>2. BeginsAs(source_events', source_events, l)
    BY <1>2 DEF BeginsAs
  <2>3. ClocksUpTo(source_events, l, now)
    BY <1>2 DEF SourceInv, SourceEventSound, ClocksUpTo
  <2>4. ClocksRise(source_events, l)
    BY DEF SourceInv, ClocksRise
  <2>5. ClocksRise(source_events', l + 1)
    BY <1>2, <2>1, <2>2, <2>3, <2>4, LaterAtEnd
  <2>. QED
    BY <2>5 DEF ClocksRise
<1>. QED
  BY <1>2, <1>3, <1>4, <1>5, <1>6, <1>7 DEF SourceKept

\* What the queue's own invariant says of the present report.
LEMMA PresentReportSound ==
  ASSUME SourceProofs!IInv, NEW l, l = Len(source_events), SourceReportAfter(l) = source_report
  PROVE  SourceReportSound(l)
<1>1. /\ source_report.captures = SourceProofs!ImportedBy(l)
      /\ source_report.captures \subseteq Captures
      /\ DOMAIN source_report.candidates \subseteq SourceProofs!Candidate
  BY DEF SourceProofs!IInv, SourceProofs!Typed, SourceProofs!ReportTyped, SourceProofs!Counted,
         SourceProofs!Candidates
<1>2. ASSUME NEW i \in DOMAIN source_report.candidates,
             source_report.candidates[i].status \in SourceProofs!Resolved
      PROVE  /\ source_report.candidates[i].last_event \in 1 .. l
             /\ SourceProofs!Resolves(source_report.candidates[i].last_event, i)
             /\ ~source_report.candidates[i].requires_reopen =>
                  SourceProofs!Recurrences(SourceProofs!ImportedBy(l), i) \subseteq
                    SourceProofs!Recurrences(
                      SourceProofs!ImportedBy(source_report.candidates[i].last_event), i)
  BY <1>2, QueueAssumed, SourceProofs!ResolvedKnows DEF SourceProofs!Candidates
<1>. QED
  BY <1>1, <1>2 DEF SourceReportSound

PresentSound ==
  SourceProofs!IInv /\ SourceReportAfter(Len(source_events)) = source_report =>
    SourceReportSound(Len(source_events))

LEMMA PresentIsSound == PresentSound
BY PresentReportSound DEF PresentSound

\* It is enough to look at the new event.
LEMMA SourceExtended ==
  ASSUME SourceInv, now \in Nat, NEW e, NEW x, source_events' = Append(source_events, e),
         source_reports' = Append(source_reports, source_report'),
         text_reviews' = Append(text_reviews, x), now' = now + 1, e.recorded_at = now + 1,
         SourceProofs!IInv',
         e.kind = "review_decision" /\ e.action \in {"dismiss", "handoff"} => x.at \in 1 .. now,
         e.kind = "capture_imported" => e.capture \notin source_report.captures
  PROVE  SourceInv'
<1>0. PICK l : l = Len(source_events)
  OBVIOUS
<1>1. /\ l \in Nat /\ SourceKept(l) /\ Len(source_events') = l + 1
      /\ Len(source_reports') = l + 1 /\ Len(text_reviews') = l + 1
      /\ source_events'[l + 1] = e /\ text_reviews'[l + 1] = x
      /\ SourceReportAfter(l + 1)' = source_report'
      /\ Grows(source_events)' /\ Grows(source_reports)' /\ Grows(text_reviews)'
      /\ \A m, n \in 1 .. l + 1 :
           m < n => source_events'[m].recorded_at < source_events'[n].recorded_at
  BY <1>0, SourceAppended
<1>2. \A n \in 1 .. l : source_events'[n] = source_events[n]
  BY <1>1 DEF SourceKept
<1>3. ASSUME NEW m \in 1 .. l, source_events[m].kind = "capture_imported",
             e.kind = "capture_imported", source_events[m].capture = e.capture
      PROVE  FALSE
  <2>1. source_report.captures = SourceProofs!ImportedBy(l)
    BY <1>0 DEF SourceInv, SourceProofs!IInv, SourceProofs!Counted
  <2>2. source_events[m].capture \in SourceProofs!ImportedBy(l)
    BY <1>3 DEF SourceProofs!ImportedBy
  <2>. QED
    BY <1>3, <2>1, <2>2
<1>4. ASSUME NEW m \in 1 .. l + 1, NEW n \in 1 .. l + 1,
             source_events'[m].kind = "capture_imported", source_events'[n].kind = "capture_imported",
             source_events'[m].capture = source_events'[n].capture
      PROVE  m = n
  <2>1. m \in 1 .. l \/ m = l + 1
    BY <1>1
  <2>2. n \in 1 .. l \/ n = l + 1
    BY <1>1
  <2>3. CASE m \in 1 .. l /\ n \in 1 .. l
    BY <1>0, <1>2, <1>4, <2>3 DEF SourceInv
  <2>. QED
    BY <1>1, <1>2, <1>3, <1>4, <2>1, <2>2, <2>3
<1>5. ASSUME NEW n \in 1 .. l + 1 PROVE SourceEventSound(n)'
  <2>1. CASE n \in 1 .. l
    BY <1>0, <1>1, <2>1, SourceEventKept DEF SourceInv
  <2>2. CASE n = l + 1
    <3>1. /\ e.recorded_at \in 1 .. now' /\ x.at \in 1 .. now => x.at \in 1 .. now'
      BY <1>1 DEF SourceKept
    <3>. QED
      BY <1>1, <2>2, <3>1 DEF SourceEventSound
  <2>. QED
    BY <1>1, <2>1, <2>2
<1>6. SourceReportAfter(Len(source_events))' = source_report'
  BY <1>1
<1>7. SourceReportSound(l + 1)'
  <2>1. PresentSound'
    BY PresentIsSound, PTL
  <2>2. SourceReportSound(Len(source_events))'
    BY <1>6, <2>1 DEF PresentSound
  <2>. QED
    BY <1>1, <2>2 DEF SourceReportSound
<1>8. ASSUME NEW n \in 0 .. l + 1 PROVE SourceReportSound(n)'
  <2>1. CASE n \in 0 .. l
    BY <1>0, <1>1, <2>1, SourceReportKept DEF SourceInv
  <2>2. CASE n = l + 1
    BY <1>7, <2>2
  <2>. QED
    BY <1>1, <2>1, <2>2
<1>. QED
  BY <1>1, <1>4, <1>5, <1>6, <1>8 DEF SourceInv

LEMMA UpdateSourceInv ==
  ASSUME DiscoveryInv, SourceInv, UpdateSource
  PROVE  SourceInv'
<1>0. PICK t : t = now + 1
  OBVIOUS
<1>1. /\ now \in Nat /\ now' = t /\ t \in HostClock
      /\ source_reports' = Append(source_reports, source_report')
  BY <1>0, DiscoveryAssumption DEF DiscoveryInv, UpdateSource, HostClock
<1>2. ASSUME SourceProofs!Next PROVE SourceProofs!IInv'
  BY <1>2, QueueAssumed, SourceProofs!NextIInv DEF SourceInv
<1>3. ASSUME NEW c \in Captures, Source!ImportCapture(c, t),
             text_reviews' = Append(text_reviews, None)
      PROVE  SourceInv'
  <2>1. PICK e : e = [kind |-> "capture_imported", capture |-> c, recorded_at |-> t]
    OBVIOUS
  <2>2. /\ source_events' = Append(source_events, e) /\ c \notin source_report.captures
        /\ e.kind = "capture_imported" /\ e.capture = c /\ e.recorded_at = t
    BY <1>3, <2>1 DEF Source!ImportCapture, Source!AppendEvent
  <2>3. SourceProofs!IInv'
    BY <1>1, <1>2, <1>3, SameSteps
  <2>. QED
    BY <1>0, <1>1, <1>3, <2>2, <2>3, SourceExtended
<1>4. ASSUME NEW i \in Source!Candidate, NEW token \in DOMAIN source_events, NEW a \in SourceActions,
             Source!RecordDecision(i, token, a, t),
             NEW x \in IF a \in {"dismiss", "handoff"} THEN TextReviews(i) ELSE {None},
             text_reviews' = Append(text_reviews, x)
      PROVE  SourceInv'
  <2>1. PICK e : e = [kind |-> "review_decision", candidate |-> i, action |-> a,
                      expected_event |-> token, recorded_at |-> t]
    OBVIOUS
  <2>2. /\ source_events' = Append(source_events, e)
        /\ e.kind = "review_decision" /\ e.action = a /\ e.recorded_at = t
    BY <1>4, <2>1 DEF Source!RecordDecision, Source!AppendEvent
  <2>3. SourceProofs!IInv'
    BY <1>1, <1>2, <1>4, SameSteps
  <2>4. a \in {"dismiss", "handoff"} => x.at \in 1 .. now
    BY <1>4 DEF TextReviews, Dates
  <2>. QED
    BY <1>0, <1>1, <1>4, <2>2, <2>3, <2>4, SourceExtended
<1>. QED
  BY <1>0, <1>3, <1>4 DEF UpdateSource

LEMMA ClockSourceInv ==
  ASSUME SourceInv, now \in Nat, now' \in Nat, now <= now',
         UNCHANGED <<source_events, source_report, source_reports, text_reviews>>
  PROVE  SourceInv'
<1>1. PICK l : l = Len(source_events)
  OBVIOUS
<1>2. l \in Nat /\ SourceKept(l)
  BY <1>1 DEF SourceInv, Grows, SourceKept, SourceReportAfter, Source!EmptyReport
<1>3. \A n \in 1 .. l : SourceEventSound(n)'
  BY <1>1, <1>2, SourceEventKept DEF SourceInv
<1>4. \A n \in 0 .. l : SourceReportSound(n)'
  BY <1>1, <1>2, SourceReportKept DEF SourceInv
<1>5. SourceProofs!IInv'
  BY QueueAssumed, SourceProofs!NextIInv DEF SourceInv, SourceProofs!vars
<1>6. SourceReportAfter(Len(source_events))' = source_report'
  BY <1>1, <1>2 DEF SourceInv, SourceKept
<1>. QED
  BY <1>1, <1>3, <1>4, <1>5, <1>6 DEF SourceInv, Grows

LEMMA InitSourceInv == HandoffInit => SourceInv
<1>. SUFFICES ASSUME HandoffInit PROVE SourceInv
  OBVIOUS
<1>1. /\ source_events = <<>> /\ source_reports = <<>> /\ text_reviews = <<>>
      /\ Len(source_events) = 0 /\ Len(source_reports) = 0 /\ Len(text_reviews) = 0
      /\ source_report = Source!EmptyReport /\ SourceReportAfter(0) = source_report
  BY DEF HandoffInit, Source!Init, SourceReportAfter
<1>2. SourceProofs!IInv
  <2>1. SourceProofs!Init
    BY <1>1 DEF SourceProofs!Init, SourceProofs!EmptyReport, Source!EmptyReport
  <2>. QED
    BY <2>1, QueueAssumed, SourceProofs!InitIInv
<1>3. Grows(source_events) /\ Grows(source_reports) /\ Grows(text_reviews)
  BY <1>1 DEF Grows
<1>4. SourceReportSound(0)
  BY <1>1, <1>2, PresentReportSound
<1>. QED
  BY <1>1, <1>2, <1>3, <1>4 DEF SourceInv

\* Both halves: every event and every report there ever was is sound.
HandoffInv == DiscoveryInv /\ SourceInv

LEMMA NextHandoffInv == HandoffInv /\ [HandoffNext]_handoff_vars => HandoffInv'
<1>. SUFFICES ASSUME HandoffInv, [HandoffNext]_handoff_vars PROVE HandoffInv'
  OBVIOUS
<1>0. DiscoveryInv /\ SourceInv /\ now \in Nat
  BY DEF HandoffInv, DiscoveryInv
<1>1. CASE UNCHANGED handoff_vars
  BY <1>0, <1>1, ClockDiscoveryInv, ClockSourceInv DEF handoff_vars, HandoffInv
<1>2. CASE UpdateDiscovery
  <2>1. now' = now + 1 /\ DiscoveryInv'
    <3>1. ASSUME NEW p \in Packets, ImportDiscovery(p) PROVE now' = now + 1 /\ DiscoveryInv'
      BY <1>0, <3>1, ImportDiscoveryInv DEF ImportDiscovery, Append1
    <3>2. ASSUME NEW u \in Url, NEW token \in DOMAIN found, NEW a \in ReviewerActions,
                 DecideDiscovery(u, token, a, AccessReviews(u))
          PROVE  now' = now + 1 /\ DiscoveryInv'
      BY <1>0, <3>2, DecideDiscoveryInv DEF DecideDiscovery, Append1
    <3>. QED
      BY <1>2, <3>1, <3>2 DEF UpdateDiscovery
  <2>2. UNCHANGED <<source_events, source_report, source_reports, text_reviews>>
    BY <1>2 DEF UpdateDiscovery
  <2>. QED
    BY <1>0, <2>1, <2>2, ClockSourceInv DEF HandoffInv
<1>3. CASE UpdateSource
  <2>1. now' = now + 1 /\ UNCHANGED <<found, reports>>
    BY <1>3 DEF UpdateSource
  <2>. QED
    BY <1>0, <1>3, <2>1, ClockDiscoveryInv, UpdateSourceInv DEF HandoffInv
<1>. QED
  BY <1>1, <1>2, <1>3 DEF HandoffNext

\* Whatever is imported and decided, dated to whatever moment, every report of both queues stays
\* sound: the links read reports as of dates long past.
THEOREM HandoffInvariance == HandoffSpec => []HandoffInv
<1>1. HandoffInit => HandoffInv
  BY InitDiscoveryInv, InitSourceInv DEF HandoffInv
<1>. QED
  BY <1>1, NextHandoffInv, PTL DEF HandoffSpec

-----------------------------------------------------------------------------
(* Reports as of a clock. *)

SourceAdmittedBy(t) ==
  Cardinality({n \in DOMAIN source_events : source_events[n].recorded_at <= t})

LEMMA AdmittedPrefix ==
  ASSUME DiscoveryInv, NEW t \in Nat
  PROVE  /\ AdmittedBy(t) \in 0 .. Len(found)
         /\ \A n \in 1 .. Len(found) : n <= AdmittedBy(t) <=> found[n].recorded_at <= t
<1>. DEFINE T == {n \in DOMAIN found : found[n].recorded_at <= t}
<1>1. PICK l : l = Len(found)
  OBVIOUS
<1>2. l \in Nat /\ DOMAIN found = 1 .. l
  BY <1>1 DEF DiscoveryInv, Grows
<1>3. \A n \in 1 .. l : found[n].recorded_at \in Nat
  BY <1>1 DEF DiscoveryInv, EventSound
<1>4. T \in SUBSET (1 .. l) /\ AdmittedBy(t) = Cardinality(T)
  BY <1>2 DEF AdmittedBy
<1>5. ASSUME NEW n \in T, NEW m \in 1 .. n PROVE m \in T
  <2>1. n \in 1 .. l /\ m \in 1 .. l /\ found[n].recorded_at <= t
    BY <1>2
  <2>2. m = n \/ found[m].recorded_at < found[n].recorded_at
    BY <1>1, <2>1 DEF DiscoveryInv
  <2>3. found[m].recorded_at <= t
    BY <1>3, <2>1, <2>2
  <2>. QED
    BY <1>2, <2>1, <2>3
<1>6. \A n \in 1 .. l : n \in T <=> found[n].recorded_at <= t
  BY <1>2
<1>. HIDE DEF T
<1>7. Cardinality(T) \in 0 .. l /\ T = 1 .. Cardinality(T)
  BY <1>2, <1>4, <1>5, PrefixCounted
<1>. QED
  BY <1>1, <1>2, <1>4, <1>6, <1>7

LEMMA SourceAdmittedPrefix ==
  ASSUME SourceInv, NEW t \in Nat
  PROVE  /\ SourceAdmittedBy(t) \in 0 .. Len(source_events)
         /\ SourceAsOf(t) = SourceReportAfter(SourceAdmittedBy(t))
         /\ \A n \in 1 .. Len(source_events) :
              n <= SourceAdmittedBy(t) <=> source_events[n].recorded_at <= t
<1>. DEFINE T == {n \in DOMAIN source_events : source_events[n].recorded_at <= t}
<1>1. PICK l : l = Len(source_events)
  OBVIOUS
<1>2. l \in Nat /\ DOMAIN source_events = 1 .. l
  BY <1>1 DEF SourceInv, Grows
<1>3. \A n \in 1 .. l : source_events[n].recorded_at \in Nat
  BY <1>1 DEF SourceInv, SourceEventSound
<1>4. /\ T \in SUBSET (1 .. l) /\ SourceAdmittedBy(t) = Cardinality(T)
      /\ SourceAsOf(t) = SourceReportAfter(SourceAdmittedBy(t))
  BY <1>2 DEF SourceAdmittedBy, SourceAsOf, SourceReportAfter
<1>5. ASSUME NEW n \in T, NEW m \in 1 .. n PROVE m \in T
  <2>1. n \in 1 .. l /\ m \in 1 .. l /\ source_events[n].recorded_at <= t
    BY <1>2
  <2>2. m = n \/ source_events[m].recorded_at < source_events[n].recorded_at
    BY <1>1, <2>1 DEF SourceInv
  <2>3. source_events[m].recorded_at <= t
    BY <1>3, <2>1, <2>2
  <2>. QED
    BY <1>2, <2>1, <2>3
<1>6. \A n \in 1 .. l : n \in T <=> source_events[n].recorded_at <= t
  BY <1>2
<1>. HIDE DEF T
<1>7. Cardinality(T) \in 0 .. l /\ T = 1 .. Cardinality(T)
  BY <1>2, <1>4, <1>5, PrefixCounted
<1>. QED
  BY <1>1, <1>2, <1>4, <1>6, <1>7

\* The reports that showed a decision's token had the history that it was recorded on.
LEMMA DecisionRead ==
  ASSUME DiscoveryInv, NEW n \in 0 .. Len(found), NEW u \in KnownUrls(n),
         NEW d, d = CandidateAfter(n, u).decision, d # 0
  PROVE  /\ d \in 1 .. n /\ found[d].kind = "decision" /\ found[d].url = u
         /\ found[d].token \in 1 .. d - 1
         /\ \A k \in found[d].token .. d - 1 : Fingerprint(k, u) = Fingerprint(d, u)
         /\ found[d].action = "handoff" => found[d].evidence.at \in 1 .. now
<1>1. ReportSound(n) /\ Len(found) \in Nat
  BY DEF DiscoveryInv, Grows
<1>2. CandidateAfter(n, u) \in DiscoveredState(n)
  BY <1>1 DEF ReportSound, DiscoveryTyped, KnownUrls, CandidateAfter
<1>3. d \in 1 .. n /\ d \in 1 .. Len(found) /\ d - 1 \in 0 .. Len(found)
  BY <1>1, <1>2 DEF DiscoveredState
<1>4. found[d].kind = "decision" /\ found[d].url = u
  BY <1>1 DEF ReportSound, StaysResolved
<1>5. DecisionSound(d)
  BY <1>3, <1>4 DEF DiscoveryInv, EventSound
<1>6. PICK token : token = found[d].token
  OBVIOUS
<1>7. /\ u \in KnownUrls(d - 1) /\ token = CandidateAfter(d - 1, u).last_event
      /\ Fingerprint(d, u) = Fingerprint(d - 1, u)
      /\ found[d].action = "handoff" => found[d].evidence.at \in 1 .. now
  BY <1>4, <1>5, <1>6 DEF DecisionSound
<1>8. ReportSound(d - 1)
  BY <1>3 DEF DiscoveryInv
<1>9. CandidateAfter(d - 1, u) \in DiscoveredState(d - 1) /\ TokenStands(d - 1, u)
  BY <1>7, <1>8 DEF ReportSound, DiscoveryTyped, KnownUrls, CandidateAfter
<1>10. token \in 1 .. d - 1
  BY <1>7, <1>9 DEF DiscoveredState
<1>. QED
  BY <1>3, <1>4, <1>6, <1>7, <1>9, <1>10 DEF TokenStands

\* What a reviewer decided on is what there was to decide: every report that showed the
\* decision's token had the history the decision was recorded on, and a resolved URL has it
\* still, unless it asks to be reopened.
THEOREM DispositionMatchesReadingAlways == HandoffSpec => []DispositionMatchesReading
<1>1. ASSUME HandoffInv PROVE DispositionMatchesReading
  <2>1. PICK n : n = Len(found)
    OBVIOUS
  <2>2. DiscoveryInv /\ n \in Nat /\ n \in 0 .. Len(found) /\ Candidates = ReportAfter(n).candidates
    <3>1. DiscoveryInv /\ Grows(found)
      BY <1>1 DEF HandoffInv, DiscoveryInv
    <3>2. Len(found) \in Nat
      BY <3>1 DEF Grows
    <3>. QED
      BY <2>1, <3>1, <3>2 DEF Candidates, Report
  <2>3. ASSUME NEW u \in DOMAIN Candidates, NEW d, d = Candidates[u].decision, d # 0
        PROVE  /\ \A k \in Readings(d) : Fingerprint(k, u) = Fingerprint(d, u)
               /\ Candidates[u].status \in ResolvedStatus /\ ~Candidates[u].requires_reopen =>
                    Fingerprint(n, u) = Fingerprint(d, u)
    <3>1. /\ u \in KnownUrls(n) /\ CandidateAfter(n, u) = Candidates[u]
          /\ StaysResolved(n, u)
      BY <2>2, <2>3 DEF KnownUrls, CandidateAfter, DiscoveryInv, ReportSound
    <3>2. /\ d \in 1 .. n
          /\ \A k \in found[d].token .. d - 1 : Fingerprint(k, u) = Fingerprint(d, u)
      BY <2>2, <2>3, <3>1, DecisionRead
    <3>3. n \in d .. n
      BY <2>2, <3>2
    <3>. QED
      BY <2>3, <3>1, <3>2, <3>3 DEF Readings, StaysResolved
  <2>. QED
    BY <2>1, <2>3 DEF DispositionMatchesReading
<1>. QED
  BY <1>1, HandoffInvariance, PTL

-----------------------------------------------------------------------------
(* What follows of the links from discovered URLs. *)

LEMMA LinkIs ==
  ASSUME HandoffInv, NEW t \in Dates, NEW l \in LinksOf(t)
  PROVE  /\ t \in Nat /\ l.reviewed_at = t
         /\ l.url \in DOMAIN ReportAsOf(t).candidates
         /\ Settled(ReportAsOf(t).candidates[l.url], {"handed_off"})
         /\ l.run \in ReportAsOf(t).runs
         /\ <<l.url, l.version>> \in DOMAIN SourceAsOf(t).candidates
         /\ Settled(SourceAsOf(t).candidates[<<l.url, l.version>>], {"dismissed", "handed_off"})
         /\ l.version \in Text
         /\ l.capture \in SourceAsOf(t).captures
         /\ l.capture.url = l.url /\ l.capture.version = l.version
         /\ CurrentSource(SourceAsOf(t), l) /\ Approves(l) /\ ReadsText(l) /\ InOrder(Route(l))
<1>1. PICK discovered : discovered = ReportAsOf(t)
  OBVIOUS
<1>2. PICK acquired : acquired = SourceAsOf(t)
  OBVIOUS
<1>. DEFINE handed == {u \in DOMAIN discovered.candidates :
                         Settled(discovered.candidates[u], {"handed_off"})}
            disposed == {i \in DOMAIN acquired.candidates :
                           Settled(acquired.candidates[i], {"dismissed", "handed_off"})}
<1>3. PICK i \in disposed :
        l \in [url : {i[1]} \cap handed, version : {i[2]}, reviewed_at : {t},
               run : discovered.runs, capture : acquired.captures]
  BY <1>1, <1>2 DEF LinksOf
<1>4. /\ l.url = i[1] /\ l.url \in handed /\ l.version = i[2] /\ l.reviewed_at = t
      /\ l.run \in discovered.runs /\ l.capture \in acquired.captures
  BY <1>3
<1>5. t \in Nat
  BY DEF Dates, HandoffInv, DiscoveryInv
<1>6. DOMAIN acquired.candidates \subseteq SourceProofs!Candidate
  BY <1>2, <1>5, SourceAdmittedPrefix DEF HandoffInv, SourceInv, SourceReportSound
<1>7. i = <<l.url, l.version>> /\ l.version \in Text
  BY <1>4, <1>6 DEF SourceProofs!Candidate
<1>8. /\ l.capture.url = l.url /\ l.capture.version = l.version
      /\ CurrentSource(acquired, l) /\ Approves(l) /\ ReadsText(l) /\ InOrder(Route(l))
  BY <1>2 DEF LinksOf
<1>. QED
  BY <1>1, <1>2, <1>4, <1>5, <1>7, <1>8

\* What a link knows of the handoff of its URL: the decision, the date of the review that it
\* cites, and the one history that the URL had from the decision's token to the link.
LEMMA HandoffIs ==
  ASSUME HandoffInv, NEW t \in Dates, NEW l \in LinksOf(t)
  PROVE  \E n \in 0 .. Len(found) : \E d \in 1 .. n :
           /\ n = AdmittedBy(t)
           /\ Discovery(l).decision = d /\ Handoff(l) = found[d] /\ Access(l).at \in 1 .. now
           /\ Handoff(l).token \in 1 .. d - 1
           /\ \A k \in Handoff(l).token .. n : Fingerprint(k, l.url) = Fingerprint(d, l.url)
<1>1. DiscoveryInv
  BY DEF HandoffInv
<1>2. PICK n, u : n = AdmittedBy(t) /\ u = l.url
  OBVIOUS
<1>3. /\ t \in Nat /\ l.reviewed_at = t /\ u \in DOMAIN ReportAsOf(t).candidates
      /\ Settled(ReportAsOf(t).candidates[u], {"handed_off"})
  BY <1>2, LinkIs
<1>4. n \in 0 .. Len(found)
  BY <1>1, <1>2, <1>3, AdmittedPrefix
<1>5. /\ u \in KnownUrls(n) /\ ReportAsOf(t).candidates[u] = CandidateAfter(n, u)
      /\ StaysResolved(n, u)
  BY <1>1, <1>2, <1>3, <1>4 DEF ReportAsOf, KnownUrls, CandidateAfter, DiscoveryInv, ReportSound
<1>6. PICK d : d = CandidateAfter(n, u).decision
  OBVIOUS
<1>7. /\ CandidateAfter(n, u).status = "handed_off" /\ ~CandidateAfter(n, u).requires_reopen
      /\ "handed_off" \in ResolvedStatus
  BY <1>3, <1>5 DEF Settled, ResolvedStatus
<1>8. /\ d # 0 /\ StatusOf(found[d].action) = "handed_off"
      /\ \A k \in d .. n : Fingerprint(k, u) = Fingerprint(d, u)
  BY <1>5, <1>6, <1>7 DEF StaysResolved
<1>9. PICK token : token = found[d].token
  OBVIOUS
<1>10. /\ d \in 1 .. n /\ found[d].kind = "decision" /\ found[d].url = u /\ token \in 1 .. d - 1
       /\ \A k \in token .. d - 1 : Fingerprint(k, u) = Fingerprint(d, u)
       /\ found[d].action = "handoff" => found[d].evidence.at \in 1 .. now
  BY <1>1, <1>4, <1>5, <1>6, <1>8, <1>9, DecisionRead
<1>11. found[d].action = "handoff"
  <2>1. DecisionSound(d)
    BY <1>1, <1>4, <1>10 DEF DiscoveryInv, EventSound
  <2>2. found[d].action \in ActionName
    BY <2>1 DEF DecisionSound
  <2>. QED
    BY <1>8, <2>2, StatusTyped
<1>12. /\ Discovery(l).decision = d /\ Handoff(l) = found[d]
       /\ Access(l).at \in 1 .. now
  BY <1>2, <1>3, <1>5, <1>6, <1>10, <1>11 DEF Handoff, Access, Discovery
<1>13. \A k \in token .. n : k \in token .. d - 1 \/ k \in d .. n
  BY <1>4, <1>10
<1>14. \A k \in token .. n : Fingerprint(k, u) = Fingerprint(d, u)
  BY <1>8, <1>10, <1>13
<1>. QED
  BY <1>2, <1>4, <1>9, <1>10, <1>12, <1>14

\* From the date of the access review to the date of the link, whatever order packets and
\* decisions came in and whatever dates the reviewers wrote, the queue knew one history of
\* the URL, the one the review was written about.
THEOREM LinkRestsOnOneHistoryAlways == HandoffSpec => []LinkRestsOnOneHistory
<1>1. ASSUME HandoffInv, NEW t \in Dates, NEW l \in LinksOf(t),
             NEW s \in Access(l).at .. l.reviewed_at
      PROVE  Fingerprint(AdmittedBy(s), l.url) = Access(l).fingerprint
  <2>1. DiscoveryInv /\ now \in Nat
    BY <1>1 DEF HandoffInv, DiscoveryInv
  <2>2. PICK u, token, a : u = l.url /\ token = Handoff(l).token /\ a = Access(l).at
    OBVIOUS
  <2>3. t \in Nat /\ l.reviewed_at = t /\ Approves(l)
    BY <1>1, LinkIs
  <2>4. PICK n \in 0 .. Len(found) : \E d \in 1 .. n :
           /\ n = AdmittedBy(t) /\ a \in 1 .. now /\ token \in 1 .. d - 1
           /\ \A k \in token .. n : Fingerprint(k, u) = Fingerprint(d, u)
    BY <1>1, <2>2, HandoffIs
  <2>5. a \in Nat /\ s \in a .. t /\ s \in Nat
    BY <1>1, <2>1, <2>2, <2>3, <2>4
  <2>6. PICK b, m : b = AdmittedBy(a) /\ m = AdmittedBy(s)
    OBVIOUS
  <2>7. /\ b \in 0 .. Len(found) /\ \A k \in 1 .. Len(found) : k <= b <=> found[k].recorded_at <= a
        /\ m \in 0 .. Len(found) /\ \A k \in 1 .. Len(found) : k <= m <=> found[k].recorded_at <= s
        /\ \A k \in 1 .. Len(found) : k <= n <=> found[k].recorded_at <= t
    BY <2>1, <2>3, <2>4, <2>5, <2>6, AdmittedPrefix
  <2>8. \A k \in 1 .. Len(found) : found[k].recorded_at \in Nat
    BY <2>1 DEF DiscoveryInv, EventSound
  <2>9. b <= m /\ m <= n
    <3>1. b # 0 => b <= m
      BY <2>5, <2>7, <2>8
    <3>2. m # 0 => m <= n
      BY <2>3, <2>5, <2>7, <2>8
    <3>. QED
      BY <2>4, <2>7, <3>1, <3>2
  \* The review's author read the state that the handoff was decided on.
  <2>10. /\ u \in KnownUrls(b) /\ token = CandidateAfter(b, u).last_event
         /\ Access(l).fingerprint = Fingerprint(b, u)
    BY <2>2, <2>3, <2>6 DEF Approves, KnownUrls, CandidateAfter, Fingerprint, ReportAsOf
  <2>11. CandidateAfter(b, u) \in DiscoveredState(b)
    BY <2>1, <2>7, <2>10 DEF DiscoveryInv, ReportSound, DiscoveryTyped, KnownUrls, CandidateAfter
  <2>12. token \in 1 .. b
    BY <2>10, <2>11 DEF DiscoveredState
  <2>13. b \in token .. n /\ m \in token .. n
    BY <2>4, <2>7, <2>9, <2>12
  <2>. QED
    BY <2>2, <2>4, <2>6, <2>10, <2>13
<1>2. HandoffInv => LinkRestsOnOneHistory
  BY <1>1 DEF LinkRestsOnOneHistory, Links
<1>. QED
  BY <1>2, HandoffInvariance, PTL

\* The clocks of a route that the proofs compare.
LEMMA RouteInOrder ==
  ASSUME NEW a, NEW b, NEW c, NEW d, NEW e, NEW f, NEW g, NEW h,
         InOrder(<<a, b, c, d, e, f, g, h>>)
  PROVE  e <= f /\ f <= g
<1>. DEFINE r == <<a, b, c, d, e, f, g, h>>
<1>1. 5 \in 1 .. Len(r) - 1 /\ 6 \in 1 .. Len(r) - 1
  OBVIOUS
<1>2. r[5] <= r[6] /\ r[6] <= r[7]
  BY <1>1 DEF InOrder
<1>. QED
  BY <1>2

\* The latest of the checks of a URL.
LEMMA LatestCheck ==
  ASSUME NEW captures, captures \subseteq Captures, NEW c \in captures
  PROVE  \E w \in captures : /\ w.url = c.url
                             /\ \A d \in captures : d.url = c.url => d.captured_at <= w.captured_at
<1>. DEFINE Same == {d \in captures : d.url = c.url}
            Gaps == {MaxTime - d.captured_at : d \in Same}
<1>1. ASSUME NEW d \in Captures PROVE d.captured_at \in Nat /\ MaxTime - d.captured_at \in Nat
  BY HandoffAssumption, DiscoveryAssumption DEF Source!Capture, HostClock
<1>2. Gaps \subseteq Nat /\ Gaps # {}
  BY <1>1
<1>3. PICK g \in Gaps : \A h \in Gaps : g <= h
  BY <1>2, QueueAssumed, SourceProofs!LeastNatural
<1>4. PICK w \in Same : g = MaxTime - w.captured_at
  BY <1>3
<1>5. ASSUME NEW d \in Same PROVE d.captured_at <= w.captured_at
  <2>1. MaxTime - d.captured_at \in Gaps
    OBVIOUS
  <2>2. MaxTime - w.captured_at <= MaxTime - d.captured_at
    BY <1>3, <1>4, <2>1
  <2>3. d.captured_at \in Nat /\ w.captured_at \in Nat /\ MaxTime \in Nat
    BY <1>1, DiscoveryAssumption
  <2>. HIDE DEF Gaps, Same
  <2>. QED
    BY <2>2, <2>3
<1>. QED
  BY <1>4, <1>5

\* A capture in a report was admitted by one event.
LEMMA CaptureAdmittedIs ==
  ASSUME SourceInv, NEW m \in 0 .. Len(source_events), NEW c \in SourceProofs!ImportedBy(m)
  PROVE  \E k \in 1 .. m : /\ source_events[k].kind = "capture_imported" /\ source_events[k].capture = c
                           /\ CaptureAdmitted(c) = source_events[k].recorded_at
<1>1. PICK k \in 1 .. m : source_events[k].kind = "capture_imported" /\ source_events[k].capture = c
  BY DEF SourceProofs!ImportedBy
<1>2. Len(source_events) \in Nat /\ DOMAIN source_events = 1 .. Len(source_events)
  BY DEF SourceInv, Grows
<1>. DEFINE chosen == CHOOSE e \in Range(source_events) :
                      e.kind = "capture_imported" /\ e.capture = c
<1>3. source_events[k] \in Range(source_events)
  BY <1>2 DEF Range
<1>4. chosen \in Range(source_events) /\ chosen.kind = "capture_imported" /\ chosen.capture = c
  BY <1>1, <1>3
<1>5. CaptureAdmitted(c) = chosen.recorded_at
  BY DEF CaptureAdmitted
<1>. HIDE DEF chosen
<1>6. PICK j \in 1 .. Len(source_events) : chosen = source_events[j]
  BY <1>2, <1>4 DEF Range
<1>7. j = k
  BY <1>1, <1>2, <1>4, <1>6 DEF SourceInv
<1>. QED
  BY <1>1, <1>5, <1>6, <1>7

\* What a link knows of the disposition of its text: the event, the captures that were known
\* there, and the review that it cites.
LEMMA DisposalIs ==
  ASSUME HandoffInv, NEW t \in Dates, NEW l \in LinksOf(t)
  PROVE  \E m \in 0 .. Len(source_events) : \E d \in 1 .. m :
           /\ SourceAsOf(t).captures = SourceProofs!ImportedBy(m)
           /\ SourceAsOf(t).captures \subseteq Captures
           /\ Acquired(l).last_event = d
           /\ Disposal(l) = source_events[d] /\ TextReview(l) = text_reviews[d]
           /\ TextReview(l).at \in 1 .. now /\ Disposal(l).recorded_at \in 1 .. now
           /\ SourceAsOf(Disposal(l).recorded_at).captures = SourceProofs!ImportedBy(d)
           /\ SourceProofs!ImportedBy(d) \subseteq Captures
           /\ SourceProofs!Recurrences(SourceAsOf(t).captures, <<l.url, l.version>>) \subseteq
                SourceProofs!Recurrences(SourceProofs!ImportedBy(d), <<l.url, l.version>>)
<1>1. SourceInv /\ Len(source_events) \in Nat
  BY DEF HandoffInv, SourceInv, Grows
<1>2. PICK i : i = <<l.url, l.version>>
  OBVIOUS
<1>3. /\ t \in Nat /\ l.reviewed_at = t /\ i \in DOMAIN SourceAsOf(t).candidates
      /\ Settled(SourceAsOf(t).candidates[i], {"dismissed", "handed_off"})
  BY <1>2, LinkIs
<1>4. PICK m : m = SourceAdmittedBy(t)
  OBVIOUS
<1>5. m \in 0 .. Len(source_events) /\ SourceAsOf(t) = SourceReportAfter(m)
  BY <1>1, <1>3, <1>4, SourceAdmittedPrefix
<1>6. PICK r : r = SourceReportAfter(m)
  OBVIOUS
<1>7. PICK d : d = r.candidates[i].last_event
  OBVIOUS
<1>8. /\ r.captures = SourceProofs!ImportedBy(m) /\ r.captures \subseteq Captures
      /\ d \in 1 .. m /\ SourceProofs!Resolves(d, i)
      /\ SourceProofs!Recurrences(r.captures, i) \subseteq
           SourceProofs!Recurrences(SourceProofs!ImportedBy(d), i)
  <2>1. /\ r.candidates[i].status \in SourceProofs!Resolved /\ ~r.candidates[i].requires_reopen
        /\ i \in DOMAIN r.candidates
    BY <1>3, <1>5, <1>6 DEF Settled, SourceProofs!Resolved
  <2>2. SourceReportSound(m)
    BY <1>1, <1>5 DEF SourceInv
  <2>. QED
    BY <1>6, <1>7, <2>1, <2>2 DEF SourceReportSound
<1>9. Acquired(l) = r.candidates[i]
  BY <1>2, <1>3, <1>5, <1>6 DEF Acquired
<1>10. /\ Disposal(l) = source_events[d] /\ TextReview(l) = text_reviews[d]
       /\ Acquired(l).last_event = d
  BY <1>7, <1>9 DEF Disposal, TextReview
<1>11. d \in 1 .. Len(source_events) /\ SourceEventSound(d)
  BY <1>1, <1>5, <1>8 DEF SourceInv
<1>12. TextReview(l).at \in 1 .. now /\ Disposal(l).recorded_at \in 1 .. now
  BY <1>8, <1>10, <1>11 DEF SourceEventSound, SourceProofs!Resolves, SourceProofs!Decides
<1>13. PICK q : q = SourceAdmittedBy(source_events[d].recorded_at)
  OBVIOUS
<1>14. source_events[d].recorded_at \in Nat
  BY <1>10, <1>12
<1>15. /\ q \in 0 .. Len(source_events)
       /\ SourceAsOf(source_events[d].recorded_at) = SourceReportAfter(q)
       /\ \A n \in 1 .. Len(source_events) :
            n <= q <=> source_events[n].recorded_at <= source_events[d].recorded_at
  BY <1>1, <1>13, <1>14, SourceAdmittedPrefix
<1>16. q = d
  <2>1. d <= q
    BY <1>11, <1>14, <1>15
  <2>2. ~(d < q)
    <3>. SUFFICES ASSUME d < q PROVE FALSE
      OBVIOUS
    <3>1. q \in 1 .. Len(source_events) /\ source_events[q].recorded_at \in Nat
      BY <1>1, <1>11, <1>15 DEF SourceInv, SourceEventSound
    <3>2. source_events[d].recorded_at < source_events[q].recorded_at
      BY <1>1, <1>11, <3>1 DEF SourceInv
    <3>3. source_events[q].recorded_at <= source_events[d].recorded_at
      BY <1>15, <3>1
    <3>. QED
      BY <1>14, <3>1, <3>2, <3>3
  <2>. QED
    BY <1>11, <1>15, <2>1, <2>2
<1>17. SourceReportSound(d)
  BY <1>1, <1>11 DEF SourceInv
<1>18. /\ SourceAsOf(Disposal(l).recorded_at).captures = SourceProofs!ImportedBy(d)
       /\ SourceProofs!ImportedBy(d) \subseteq Captures
  BY <1>10, <1>15, <1>16, <1>17 DEF SourceReportSound
<1>. QED
  BY <1>2, <1>5, <1>6, <1>8, <1>10, <1>12, <1>18

\* A change of the text cannot be hidden by selecting an older capture, or by a later return
\* to the text: if none was known when the text was disposed of, none is known to the link.
THEOREM LinkHidesNoChangeAlways == HandoffSpec => []LinkHidesNoChange
<1>1. ASSUME HandoffInv, NEW t \in Dates, NEW l \in LinksOf(t),
             OtherTexts(SourceAsOf(Disposal(l).recorded_at).captures, l) = {},
             NEW c \in OtherTexts(SourceAsOf(l.reviewed_at).captures, l)
      PROVE  FALSE
  <2>1. /\ l.reviewed_at = t /\ l.capture \in SourceAsOf(t).captures
        /\ l.capture.url = l.url /\ l.capture.version = l.version /\ l.version \in Text
        /\ CurrentSource(SourceAsOf(t), l) /\ InOrder(Route(l))
    BY <1>1, LinkIs
  <2>2. PICK m \in 0 .. Len(source_events) : \E d \in 1 .. m :
           /\ SourceAsOf(t).captures = SourceProofs!ImportedBy(m)
           /\ SourceAsOf(t).captures \subseteq Captures
           /\ Acquired(l).last_event = d
           /\ Disposal(l) = source_events[d] /\ TextReview(l) = text_reviews[d]
           /\ TextReview(l).at \in 1 .. now /\ Disposal(l).recorded_at \in 1 .. now
           /\ SourceAsOf(Disposal(l).recorded_at).captures = SourceProofs!ImportedBy(d)
           /\ SourceProofs!ImportedBy(d) \subseteq Captures
           /\ SourceProofs!Recurrences(SourceAsOf(t).captures, <<l.url, l.version>>) \subseteq
                SourceProofs!Recurrences(SourceProofs!ImportedBy(d), <<l.url, l.version>>)
    BY <1>1, DisposalIs
  <2>3. PICK d \in 1 .. m :
           /\ Disposal(l) = source_events[d]
           /\ TextReview(l).at \in 1 .. now /\ Disposal(l).recorded_at \in 1 .. now
           /\ SourceAsOf(Disposal(l).recorded_at).captures = SourceProofs!ImportedBy(d)
           /\ SourceProofs!ImportedBy(d) \subseteq Captures
           /\ SourceProofs!Recurrences(SourceAsOf(t).captures, <<l.url, l.version>>) \subseteq
                SourceProofs!Recurrences(SourceProofs!ImportedBy(d), <<l.url, l.version>>)
    BY <2>2
  <2>4. PICK now0, old, i : now0 = SourceAsOf(t).captures /\ old = SourceProofs!ImportedBy(d)
                            /\ i = <<l.url, l.version>>
    OBVIOUS
  <2>5. now0 \subseteq Captures /\ old \subseteq Captures /\ i[1] = l.url /\ i[2] = l.version
    BY <2>2, <2>3, <2>4
  <2>6. \A x \in Captures : x.captured_at \in Nat
    BY HandoffAssumption DEF Source!Capture, HostClock
  \* The selected capture was known where the text was disposed of.
  <2>7. l.capture \in old
    <3>1. SourceInv /\ Len(source_events) \in Nat
      BY <1>1 DEF HandoffInv, SourceInv, Grows
    <3>2. PICK k \in 1 .. m : /\ source_events[k].kind = "capture_imported"
                              /\ source_events[k].capture = l.capture
                              /\ CaptureAdmitted(l.capture) = source_events[k].recorded_at
      BY <2>1, <2>2, <3>1, CaptureAdmittedIs
    <3>3. /\ CaptureAdmitted(l.capture) <= TextReview(l).at
          /\ TextReview(l).at <= Disposal(l).recorded_at
      BY <2>1, RouteInOrder DEF Route
    <3>4. k \in 1 .. Len(source_events) /\ d \in 1 .. Len(source_events)
      BY <3>1
    <3>5. source_events[k].recorded_at \in Nat /\ source_events[d].recorded_at \in Nat
      BY <3>1, <3>4 DEF SourceInv, SourceEventSound
    <3>6. source_events[k].recorded_at <= source_events[d].recorded_at
      BY <2>3, <3>2, <3>3, <3>5
    <3>7. ~(d < k)
      BY <3>1, <3>4, <3>5, <3>6 DEF SourceInv
    <3>8. k \in 1 .. d
      BY <3>4, <3>7
    <3>. QED
      BY <2>4, <3>2, <3>8 DEF SourceProofs!ImportedBy
  <2>8. /\ c \in now0 /\ c.url = l.url /\ c.version # l.version /\ c.version # None
        /\ c.captured_at >= l.capture.captured_at
    BY <1>1, <2>1, <2>4 DEF OtherTexts
  <2>9. PICK w \in now0 : /\ w.url = c.url
                          /\ \A x \in now0 : x.url = c.url => x.captured_at <= w.captured_at
    BY <2>5, <2>8, LatestCheck
  <2>10. w.version = l.version
    BY <2>1, <2>4, <2>8, <2>9 DEF CurrentSource
  <2>11. c.captured_at < w.captured_at
    <3>1. c.captured_at \in Nat /\ w.captured_at \in Nat /\ c.captured_at <= w.captured_at
      BY <2>5, <2>6, <2>8, <2>9
    <3>2. c.captured_at # w.captured_at
      BY <2>1, <2>4, <2>8, <2>9 DEF CurrentSource
    <3>. QED
      BY <3>1, <3>2
  <2>12. l.version # None
    BY <2>1, HandoffAssumption
  <2>13. /\ c \in SourceProofs!EligibleOf(now0, i[1]) /\ w \in SourceProofs!EligibleOf(now0, i[1])
         /\ l.capture \in SourceProofs!EligibleOf(old, i[1])
    BY <2>1, <2>5, <2>7, <2>8, <2>9, <2>10, <2>12
    DEF SourceProofs!EligibleOf, SourceProofs!Eligible
  <2>14. l.capture.captured_at <= c.captured_at
    BY <2>5, <2>6, <2>7, <2>8
  <2>15. SourceProofs!Recurrences(now0, i) \subseteq SourceProofs!Recurrences(old, i)
    BY <2>3, <2>4
  <2>16. PICK b \in SourceProofs!EligibleOf(old, i[1]) :
           b.version # i[2] /\ l.capture.captured_at <= b.captured_at
    <3>1. c.version # i[2] /\ w.version = i[2]
      BY <2>5, <2>8, <2>10
    <3>2. PICK k \in SourceProofs!EligibleOf(old, i[1]) :
            k = l.capture /\ k.captured_at <= c.captured_at
      BY <2>13, <2>14
    <3>3. now0 \subseteq Captures /\ old \subseteq Captures
      BY <2>5
    <3>4. c \in SourceProofs!EligibleOf(now0, i[1]) /\ w \in SourceProofs!EligibleOf(now0, i[1])
      BY <2>13
    <3>5. PICK r \in SourceProofs!Recurrences(now0, i) :
            c.captured_at < r[1] /\ r[1] \in HostClock
      BY <2>11, <3>1, <3>3, <3>4, QueueAssumed, SourceProofs!ReturnRecurs
    <3>6. r \in SourceProofs!Recurrences(old, i)
      BY <2>15
    <3>7. k.captured_at \in Nat /\ c.captured_at \in Nat /\ r[1] \in Nat
      BY <2>5, <2>6, <2>7, <2>8, <3>2, <3>5, QueueAssumed DEF SourceProofs!QueueAssumption
    <3>8. k.captured_at < r[1]
      BY <3>2, <3>5, <3>7
    <3>9. \E b \in SourceProofs!EligibleOf(old, i[1]) :
            b.version # i[2] /\ k.captured_at <= b.captured_at
      BY <3>3, <3>5, <3>6, <3>8, QueueAssumed, SourceProofs!RecurrenceShowsOther
    <3>. QED
      BY <3>2, <3>9
  <2>17. b \in OtherTexts(old, l)
    <3>1. b \in old /\ b.url = l.url /\ b.version # None
      BY <2>5, <2>16 DEF SourceProofs!EligibleOf, SourceProofs!Eligible
    <3>2. b.captured_at >= l.capture.captured_at
      BY <2>5, <2>6, <2>7, <2>16, <3>1
    <3>. QED
      BY <2>5, <2>16, <3>1, <3>2 DEF OtherTexts
  <2>. QED
    BY <1>1, <2>3, <2>4, <2>17
<1>2. HandoffInv => LinkHidesNoChange
  BY <1>1 DEF LinkHidesNoChange, Links
<1>. QED
  BY <1>2, HandoffInvariance, PTL

\* What a report as of a clock is, and when a packet or a capture was admitted, as said of
\* the present queues.
ReportsDated ==
  /\ DiscoveryInv =>
       \A s \in Nat : /\ AdmittedBy(s) \in 0 .. Len(found)
                      /\ \A n \in 1 .. Len(found) : n <= AdmittedBy(s) <=> found[n].recorded_at <= s
  /\ SourceInv =>
       \A s \in Nat : /\ SourceAdmittedBy(s) \in 0 .. Len(source_events)
                      /\ SourceAsOf(s) = SourceReportAfter(SourceAdmittedBy(s))
                      /\ \A n \in 1 .. Len(source_events) :
                           n <= SourceAdmittedBy(s) <=> source_events[n].recorded_at <= s

AdmissionsDated ==
  /\ DiscoveryInv =>
       \A p : \A n \in 1 .. Len(found) : found[n].kind = "import" /\ found[n].packet = p =>
                PacketAdmitted(p) = found[n].recorded_at
  /\ SourceInv =>
       \A c : \A n \in 1 .. Len(source_events) :
                source_events[n].kind = "capture_imported" /\ source_events[n].capture = c =>
                  CaptureAdmitted(c) = source_events[n].recorded_at

LEMMA ReportsAreDated == ReportsDated
BY AdmittedPrefix, SourceAdmittedPrefix DEF ReportsDated

LEMMA AdmissionsAreDated == AdmissionsDated
<1>1. ASSUME DiscoveryInv, NEW p, NEW n \in 1 .. Len(found), found[n].kind = "import",
             found[n].packet = p
      PROVE  PacketAdmitted(p) = found[n].recorded_at
  <2>. DEFINE chosen == CHOOSE e \in Range(found) : e.kind = "import" /\ e.packet = p
  <2>1. DOMAIN found = 1 .. Len(found) /\ found[n] \in Range(found)
    BY <1>1 DEF DiscoveryInv, Grows, Range
  <2>2. chosen \in Range(found) /\ chosen.kind = "import" /\ chosen.packet = p
    BY <1>1, <2>1
  <2>3. PacketAdmitted(p) = chosen.recorded_at
    BY DEF PacketAdmitted
  <2>. HIDE DEF chosen
  <2>4. PICK m \in 1 .. Len(found) : chosen = found[m]
    BY <2>1, <2>2 DEF Range
  <2>5. m = n
    BY <1>1, <2>2, <2>4 DEF DiscoveryInv
  <2>. QED
    BY <2>3, <2>4, <2>5
<1>2. ASSUME SourceInv, NEW c, NEW n \in 1 .. Len(source_events),
             source_events[n].kind = "capture_imported", source_events[n].capture = c
      PROVE  CaptureAdmitted(c) = source_events[n].recorded_at
  <2>. DEFINE chosen == CHOOSE e \in Range(source_events) :
                        e.kind = "capture_imported" /\ e.capture = c
  <2>1. DOMAIN source_events = 1 .. Len(source_events) /\ source_events[n] \in Range(source_events)
    BY <1>2 DEF SourceInv, Grows, Range
  <2>2. chosen \in Range(source_events) /\ chosen.kind = "capture_imported" /\ chosen.capture = c
    BY <1>2, <2>1
  <2>3. CaptureAdmitted(c) = chosen.recorded_at
    BY DEF CaptureAdmitted
  <2>. HIDE DEF chosen
  <2>4. PICK m \in 1 .. Len(source_events) : chosen = source_events[m]
    BY <2>1, <2>2 DEF Range
  <2>5. m = n
    BY <1>2, <2>2, <2>4 DEF SourceInv
  <2>. QED
    BY <2>3, <2>4, <2>5
<1>. QED
  BY <1>1, <1>2 DEF AdmissionsDated

\* The past, as the link reviews that are dated by now see it.
PastKept ==
  /\ now \in Nat /\ now' \in Nat /\ now <= now'
  /\ \A n \in 1 .. Len(found) : found'[n] = found[n]
  /\ \A n \in 1 .. Len(source_events) :
       source_events'[n] = source_events[n] /\ text_reviews'[n] = text_reviews[n]
  /\ \A s \in 0 .. now : ReportAsOf(s)' = ReportAsOf(s) /\ SourceAsOf(s)' = SourceAsOf(s)
  /\ \A p : \A n \in 1 .. Len(found) :
       found[n].kind = "import" /\ found[n].packet = p => PacketAdmitted(p)' = PacketAdmitted(p)
  /\ \A c : \A n \in 1 .. Len(source_events) :
       source_events[n].kind = "capture_imported" /\ source_events[n].capture = c =>
         CaptureAdmitted(c)' = CaptureAdmitted(c)

\* A later event does not count as of a clock that has passed.
LEMMA SameCut ==
  ASSUME NEW l \in Nat, NEW m \in Nat, l <= m, NEW a \in 0 .. l, NEW b \in 0 .. m,
         \A n \in 1 .. l : n <= a <=> n <= b, \A n \in l + 1 .. m : ~(n <= b)
  PROVE  a = b
<1>1. b <= l
  <2>. SUFFICES ASSUME l < b PROVE FALSE
    OBVIOUS
  <2>1. b \in l + 1 .. m
    OBVIOUS
  <2>. QED
    BY <2>1
<1>2. a # 0 => a <= b
  OBVIOUS
<1>3. b # 0 => b <= a
  BY <1>1
<1>. QED
  BY <1>1, <1>2, <1>3

\* A step of either queue is dated after all dates that a link review bears.
LEMMA StepKeepsPast ==
  ASSUME HandoffInv, HandoffInv', HandoffNext
  PROVE  PastKept
<1>1. /\ DiscoveryInv /\ SourceInv /\ DiscoveryInv' /\ SourceInv' /\ now \in Nat
  BY DEF HandoffInv, DiscoveryInv
<1>2. PICK l, k : l = Len(found) /\ k = Len(source_events)
  OBVIOUS
<1>3. l \in Nat /\ k \in Nat /\ Len(reports) = l
  BY <1>1, <1>2 DEF DiscoveryInv, SourceInv, Grows
\* One of the queues has an event of the next clock, the other one is as it was.
<1>4. /\ now' = now + 1 /\ Kept(l) /\ SourceKept(k)
      /\ Len(found') \in Nat /\ l <= Len(found')
      /\ \A n \in l + 1 .. Len(found') : found'[n].recorded_at = now + 1
      /\ Len(source_events') \in Nat /\ k <= Len(source_events')
      /\ \A n \in k + 1 .. Len(source_events') : source_events'[n].recorded_at = now + 1
  <2>1. ASSUME UNCHANGED <<found, reports>>, now' = now + 1
        PROVE  /\ Kept(l) /\ Len(found') \in Nat /\ l <= Len(found')
               /\ \A n \in l + 1 .. Len(found') : found'[n].recorded_at = now + 1
    BY <1>1, <1>2, <1>3, <2>1 DEF Kept, ReportAfter
  <2>2. ASSUME UNCHANGED <<source_events, source_report, source_reports, text_reviews>>, now' = now + 1
        PROVE  /\ SourceKept(k) /\ Len(source_events') \in Nat /\ k <= Len(source_events')
               /\ \A n \in k + 1 .. Len(source_events') : source_events'[n].recorded_at = now + 1
    BY <1>1, <1>2, <1>3, <2>2 DEF SourceKept, SourceReportAfter, Source!EmptyReport
  <2>3. CASE UpdateDiscovery
    <3>1. ASSUME NEW e0, Append1(e0)
          PROVE  /\ now' = now + 1
                 /\ found' = Append(found, [e0 EXCEPT !.recorded_at = now + 1])
                 /\ reports' = Append(reports, FoldEvent(Report, e0, Len(found) + 1))
      BY <3>1 DEF Append1
    <3>2. \E e, r : /\ e.recorded_at = now + 1 /\ now' = now + 1
                    /\ found' = Append(found, e) /\ reports' = Append(reports, r)
      <4>1. ASSUME NEW p \in Packets, ImportDiscovery(p)
            PROVE  \E e, r : /\ e.recorded_at = now + 1 /\ now' = now + 1
                             /\ found' = Append(found, e) /\ reports' = Append(reports, r)
        <5>1. PICK e : e = [kind |-> "import", packet |-> p, recorded_at |-> now + 1]
          OBVIOUS
        <5>2. found' = Append(found, e) /\ e.recorded_at = now + 1
          BY <4>1, <5>1 DEF ImportDiscovery, Append1
        <5>. QED
          BY <4>1, <5>2 DEF ImportDiscovery, Append1
      <4>2. ASSUME NEW u \in Url, NEW token \in DOMAIN found, NEW a \in ReviewerActions,
                   DecideDiscovery(u, token, a, AccessReviews(u))
            PROVE  \E e, r : /\ e.recorded_at = now + 1 /\ now' = now + 1
                             /\ found' = Append(found, e) /\ reports' = Append(reports, r)
        <5>1. PICK x : Append1([kind |-> "decision", url |-> u, action |-> a, token |-> token,
                                evidence |-> x, recorded_at |-> 0])
          BY <4>2 DEF DecideDiscovery
        <5>2. PICK e : e = [kind |-> "decision", url |-> u, action |-> a, token |-> token,
                            evidence |-> x, recorded_at |-> now + 1]
          OBVIOUS
        <5>3. found' = Append(found, e) /\ e.recorded_at = now + 1
          BY <5>1, <5>2 DEF Append1
        <5>. QED
          BY <5>1, <5>3 DEF Append1
      <4>. QED
        BY <2>3, <4>1, <4>2 DEF UpdateDiscovery
    <3>3. PICK e, r : /\ e.recorded_at = now + 1 /\ now' = now + 1
                      /\ found' = Append(found, e) /\ reports' = Append(reports, r)
      BY <3>2
    <3>4. Kept(l) /\ Len(found') = l + 1 /\ found'[l + 1] = e
      BY <1>1, <1>2, <3>3, DiscoveryAppended
    <3>5. \A n \in l + 1 .. Len(found') : n = l + 1
      BY <1>3, <3>4
    <3>6. UNCHANGED <<source_events, source_report, source_reports, text_reviews>>
      BY <2>3 DEF UpdateDiscovery
    <3>. QED
      BY <1>3, <2>2, <3>3, <3>4, <3>5, <3>6
  <2>4. CASE UpdateSource
    <3>1. now' = now + 1 /\ UNCHANGED <<found, reports>>
      BY <2>4 DEF UpdateSource
    <3>2. \E e, x : /\ e.recorded_at = now + 1
                    /\ source_events' = Append(source_events, e)
                    /\ text_reviews' = Append(text_reviews, x)
      <4>1. ASSUME NEW c \in Captures, Source!ImportCapture(c, now + 1),
                   text_reviews' = Append(text_reviews, None)
            PROVE  \E e, x : /\ e.recorded_at = now + 1
                             /\ source_events' = Append(source_events, e)
                             /\ text_reviews' = Append(text_reviews, x)
        <5>1. PICK e : e = [kind |-> "capture_imported", capture |-> c, recorded_at |-> now + 1]
          OBVIOUS
        <5>2. source_events' = Append(source_events, e) /\ e.recorded_at = now + 1
          BY <4>1, <5>1 DEF Source!ImportCapture, Source!AppendEvent
        <5>. QED
          BY <4>1, <5>2
      <4>2. ASSUME NEW i, NEW token, NEW a, Source!RecordDecision(i, token, a, now + 1),
                   NEW x, text_reviews' = Append(text_reviews, x)
            PROVE  \E e, y : /\ e.recorded_at = now + 1
                             /\ source_events' = Append(source_events, e)
                             /\ text_reviews' = Append(text_reviews, y)
        <5>1. PICK e : e = [kind |-> "review_decision", candidate |-> i, action |-> a,
                            expected_event |-> token, recorded_at |-> now + 1]
          OBVIOUS
        <5>2. source_events' = Append(source_events, e) /\ e.recorded_at = now + 1
          BY <4>2, <5>1 DEF Source!RecordDecision, Source!AppendEvent
        <5>. QED
          BY <4>2, <5>2
      <4>. QED
        BY <2>4, <4>1, <4>2 DEF UpdateSource
    <3>3. PICK e, x : /\ e.recorded_at = now + 1
                      /\ source_events' = Append(source_events, e)
                      /\ text_reviews' = Append(text_reviews, x)
      BY <3>2
    <3>4. source_reports' = Append(source_reports, source_report')
      BY <2>4 DEF UpdateSource
    <3>5. SourceKept(k) /\ Len(source_events') = k + 1 /\ source_events'[k + 1] = e
      BY <1>1, <1>2, <3>1, <3>3, <3>4, SourceAppended
    <3>6. \A n \in k + 1 .. Len(source_events') : n = k + 1
      BY <1>3, <3>5
    <3>. QED
      BY <1>3, <2>1, <3>1, <3>3, <3>5, <3>6
  <2>. QED
    BY <2>3, <2>4 DEF HandoffNext
<1>5. ReportsDated /\ ReportsDated' /\ AdmissionsDated /\ AdmissionsDated'
  BY ReportsAreDated, AdmissionsAreDated, PTL
<1>6. /\ \A n \in 1 .. l : found'[n] = found[n]
      /\ \A n \in 1 .. k : source_events'[n] = source_events[n] /\ text_reviews'[n] = text_reviews[n]
  BY <1>4 DEF Kept, SourceKept
<1>7. ASSUME NEW s \in 0 .. now
      PROVE  ReportAsOf(s)' = ReportAsOf(s) /\ SourceAsOf(s)' = SourceAsOf(s)
  <2>0. s \in Nat /\ ~(now + 1 <= s)
    BY <1>1
  <2>1. PICK a, b : a = AdmittedBy(s) /\ b = AdmittedBy(s)'
    OBVIOUS
  <2>2. /\ a \in 0 .. l /\ \A n \in 1 .. l : n <= a <=> found[n].recorded_at <= s
        /\ b \in 0 .. Len(found')
        /\ \A n \in 1 .. Len(found') : n <= b <=> found'[n].recorded_at <= s
    BY <1>1, <1>2, <1>5, <2>0, <2>1 DEF ReportsDated
  <2>3. /\ \A n \in 1 .. l : n <= a <=> n <= b
        /\ \A n \in l + 1 .. Len(found') : ~(n <= b)
    <3>1. ASSUME NEW n \in 1 .. l PROVE n <= a <=> n <= b
      <4>1. n \in 1 .. Len(found') /\ found'[n] = found[n]
        BY <1>3, <1>4, <1>6
      <4>. QED
        BY <2>2, <4>1
    <3>2. ASSUME NEW n \in l + 1 .. Len(found') PROVE ~(n <= b)
      <4>1. n \in 1 .. Len(found') /\ found'[n].recorded_at = now + 1
        BY <1>3, <1>4
      <4>. QED
        BY <2>0, <2>2, <4>1
    <3>. QED
      BY <3>1, <3>2
  <2>4. a = b
    BY <1>3, <1>4, <2>2, <2>3, SameCut
  <2>5. ReportAsOf(s)' = ReportAsOf(s)
    <3>1. ReportAfter(a)' = ReportAfter(a)
      BY <1>4, <2>2 DEF Kept
    <3>2. ReportAsOf(s)' = ReportAfter(b)'
      BY <2>1 DEF ReportAsOf, ReportAfter
    <3>. QED
      BY <2>1, <2>4, <3>1, <3>2 DEF ReportAsOf
  <2>6. PICK c, d : c = SourceAdmittedBy(s) /\ d = SourceAdmittedBy(s)'
    OBVIOUS
  <2>7. /\ c \in 0 .. k /\ \A n \in 1 .. k : n <= c <=> source_events[n].recorded_at <= s
        /\ d \in 0 .. Len(source_events')
        /\ \A n \in 1 .. Len(source_events') : n <= d <=> source_events'[n].recorded_at <= s
        /\ SourceAsOf(s) = SourceReportAfter(c)
    BY <1>1, <1>2, <1>5, <2>0, <2>6 DEF ReportsDated
  <2>8. /\ \A n \in 1 .. k : n <= c <=> n <= d
        /\ \A n \in k + 1 .. Len(source_events') : ~(n <= d)
    <3>1. ASSUME NEW n \in 1 .. k PROVE n <= c <=> n <= d
      <4>1. n \in 1 .. Len(source_events') /\ source_events'[n] = source_events[n]
        BY <1>3, <1>4, <1>6
      <4>. QED
        BY <2>7, <4>1
    <3>2. ASSUME NEW n \in k + 1 .. Len(source_events') PROVE ~(n <= d)
      <4>1. n \in 1 .. Len(source_events') /\ source_events'[n].recorded_at = now + 1
        BY <1>3, <1>4
      <4>. QED
        BY <2>0, <2>7, <4>1
    <3>. QED
      BY <3>1, <3>2
  <2>9. c = d
    BY <1>3, <1>4, <2>7, <2>8, SameCut
  <2>10. SourceAsOf(s)' = SourceReportAfter(d)'
    BY <2>6 DEF SourceAsOf, SourceAdmittedBy, SourceReportAfter
  <2>11. SourceReportAfter(c)' = SourceReportAfter(c)
    BY <1>4, <2>7 DEF SourceKept
  <2>. QED
    BY <2>5, <2>7, <2>9, <2>10, <2>11
<1>8. ASSUME NEW p, NEW n \in 1 .. l, found[n].kind = "import", found[n].packet = p
      PROVE  PacketAdmitted(p)' = PacketAdmitted(p)
  <2>1. n \in 1 .. Len(found') /\ found'[n] = found[n]
    BY <1>3, <1>4, <1>6
  <2>2. PacketAdmitted(p) = found[n].recorded_at
    BY <1>1, <1>2, <1>5, <1>8 DEF AdmissionsDated
  <2>3. PacketAdmitted(p)' = found'[n].recorded_at
    BY <1>1, <1>5, <1>8, <2>1 DEF AdmissionsDated
  <2>. QED
    BY <2>1, <2>2, <2>3
<1>9. ASSUME NEW c, NEW n \in 1 .. k, source_events[n].kind = "capture_imported",
             source_events[n].capture = c
      PROVE  CaptureAdmitted(c)' = CaptureAdmitted(c)
  <2>1. n \in 1 .. Len(source_events') /\ source_events'[n] = source_events[n]
    BY <1>3, <1>4, <1>6
  <2>2. CaptureAdmitted(c) = source_events[n].recorded_at
    BY <1>1, <1>2, <1>5, <1>9 DEF AdmissionsDated
  <2>3. CaptureAdmitted(c)' = source_events'[n].recorded_at
    BY <1>1, <1>5, <1>9, <2>1 DEF AdmissionsDated
  <2>. QED
    BY <2>1, <2>2, <2>3
<1>10. now' \in Nat /\ now <= now'
  BY <1>1, <1>4
<1>. QED
  BY <1>1, <1>2, <1>6, <1>7, <1>8, <1>9, <1>10 DEF PastKept

\* A link stays a link.
LEMMA StepKeepsLinks ==
  ASSUME HandoffInv, HandoffInv', HandoffNext, NEW t \in Dates, NEW l \in LinksOf(t)
  PROVE  t \in Dates' /\ l \in LinksOf(t)'
<1>1. PastKept
  BY StepKeepsPast
<1>2. /\ t \in 1 .. now /\ t \in Dates'
      /\ ReportAsOf(t)' = ReportAsOf(t) /\ SourceAsOf(t)' = SourceAsOf(t)
  BY <1>1 DEF PastKept, Dates
<1>3. /\ l.reviewed_at = t /\ l.run \in ReportAsOf(t).runs /\ l.capture \in SourceAsOf(t).captures
      /\ CurrentSource(SourceAsOf(t), l) /\ Approves(l) /\ ReadsText(l) /\ InOrder(Route(l))
  BY LinkIs
<1>4. DiscoveryInv /\ SourceInv /\ now \in Nat
  BY DEF HandoffInv, DiscoveryInv
\* What the route passes through is as it was.
<1>5. PICK hand, access, disposal, review :
        hand = Handoff(l) /\ access = Access(l) /\ disposal = Disposal(l) /\ review = TextReview(l)
  OBVIOUS
<1>6. access.at \in 0 .. now /\ Handoff(l)' = hand /\ Access(l)' = access
  <2>1. PICK n \in 0 .. Len(found) : \E d \in 1 .. n :
           Discovery(l).decision = d /\ Handoff(l) = found[d] /\ Access(l).at \in 1 .. now
    BY HandoffIs
  <2>2. PICK d \in 1 .. Len(found) : Discovery(l).decision = d
    BY <2>1
  <2>3. Discovery(l)' = Discovery(l)
    BY <1>2, <1>3 DEF Discovery, ReportAsOf, AdmittedBy, ReportAfter
  <2>4. found'[d] = found[d]
    BY <1>1 DEF PastKept
  <2>5. Handoff(l)' = hand
    BY <1>5, <2>2, <2>3, <2>4 DEF Handoff
  <2>. QED
    BY <1>4, <1>5, <2>1, <2>5 DEF Access
<1>7. /\ review.at \in 0 .. now /\ disposal.recorded_at \in 1 .. now
      /\ Disposal(l)' = disposal /\ TextReview(l)' = review
  <2>1. PICK m \in 0 .. Len(source_events) : \E d \in 1 .. m :
           /\ Acquired(l).last_event = d
           /\ TextReview(l).at \in 1 .. now /\ Disposal(l).recorded_at \in 1 .. now
    BY DisposalIs
  <2>2. PICK d \in 1 .. Len(source_events) : Acquired(l).last_event = d
    BY <2>1
  <2>3. Acquired(l)' = Acquired(l)
    BY <1>2, <1>3 DEF Acquired, SourceAsOf
  <2>4. source_events'[d] = source_events[d] /\ text_reviews'[d] = text_reviews[d]
    BY <1>1 DEF PastKept
  <2>. QED
    BY <1>4, <1>5, <2>1, <2>2, <2>3, <2>4 DEF Disposal, TextReview
<1>8. PacketAdmitted(l.run)' = PacketAdmitted(l.run)
  <2>1. PICK n \in 0 .. Len(found) : ReportAsOf(t) = ReportAfter(n)
    BY <1>2, <1>4, AdmittedPrefix DEF ReportAsOf
  <2>2. RunsAreImports(n)
    BY <1>4, <2>1 DEF DiscoveryInv, ReportSound
  <2>3. PICK k \in 1 .. n : found[k].kind = "import" /\ found[k].packet = l.run
    BY <1>3, <2>1, <2>2 DEF RunsAreImports
  <2>4. k \in 1 .. Len(found)
    BY <2>1, <2>3
  <2>. QED
    BY <1>1, <2>3, <2>4 DEF PastKept
<1>9. CaptureAdmitted(l.capture)' = CaptureAdmitted(l.capture)
  <2>1. PICK m \in 0 .. Len(source_events) : SourceAsOf(t).captures = SourceProofs!ImportedBy(m)
    BY DisposalIs
  <2>2. PICK k \in 1 .. m : /\ source_events[k].kind = "capture_imported"
                            /\ source_events[k].capture = l.capture
    BY <1>3, <2>1, <1>4, CaptureAdmittedIs
  <2>3. k \in 1 .. Len(source_events)
    BY <2>1, <2>2
  <2>. QED
    BY <1>1, <2>2, <2>3 DEF PastKept
\* So it is approved and in order as it was.
<1>10. Approves(l)'
  <2>1. PICK then : then = ReportAsOf(access.at).candidates
    OBVIOUS
  <2>2. ReportAsOf(access.at)' = ReportAsOf(access.at)
    BY <1>1, <1>6 DEF PastKept
  <2>3. (ReportAsOf(Access(l).at).candidates)' = then
    BY <1>6, <2>1, <2>2 DEF ReportAsOf, AdmittedBy, ReportAfter
  <2>. QED
    BY <1>3, <1>5, <1>6, <2>1, <2>3 DEF Approves
<1>11. ReadsText(l)'
  <2>1. PICK then : then = SourceAsOf(review.at)
    OBVIOUS
  <2>2. SourceAsOf(review.at)' = SourceAsOf(review.at)
    BY <1>1, <1>7 DEF PastKept
  <2>3. SourceAsOf(TextReview(l).at)' = then
    BY <1>7, <2>1, <2>2 DEF SourceAsOf
  <2>. QED
    BY <1>3, <1>5, <1>7, <2>1, <2>3 DEF ReadsText
<1>12. Route(l)' = Route(l)
  BY <1>5, <1>6, <1>7, <1>8, <1>9 DEF Route
<1>13. InOrder(Route(l))'
  BY <1>3, <1>12 DEF InOrder
<1>. QED
  BY <1>2, <1>3, <1>10, <1>11, <1>13 DEF LinksOf

\* A link that verifies is not rewritten by what the queues learn later, even about earlier
\* captures.
THEOREM LinksAreFinalAlways == HandoffSpec => LinksAreFinal
<1>1. ASSUME HandoffInv, HandoffInv', HandoffNext PROVE Links \subseteq Links'
  <2>1. ASSUME NEW t \in Dates, NEW l \in LinksOf(t) PROVE l \in Links'
    BY <1>1, <2>1, StepKeepsLinks DEF Links
  <2>. QED
    BY <2>1 DEF Links
<1>2. HandoffInv /\ HandoffInv' /\ [HandoffNext]_handoff_vars => [Links \subseteq Links']_handoff_vars
  BY <1>1
<1>3. HandoffSpec => [][HandoffNext]_handoff_vars
  BY DEF HandoffSpec
<1>. QED
  BY <1>2, <1>3, HandoffInvariance, PTL DEF LinksAreFinal
=============================================================================
