------------------------- MODULE IdentityAcceptance -------------------------
(***************************************************************************)
(* accept_taiwan_facility_review of taiwan_facility_identity.py: a review  *)
(* of a candidate artifact is turned into a resolution run, its decisions  *)
(* and the assignments they create, retract or reaffirm.                   *)
(*                                                                         *)
(* A call checks the evidence and reads the open assignments first, takes  *)
(* the write lock (BEGIN IMMEDIATE) and then writes; other processes run   *)
(* between those steps.  The operator chooses accepted_at, in seconds; the *)
(* run starts then, is complete after one second, decided after two, and   *)
(* its assignments are recorded after three.  A stale correction is a call *)
(* for an artifact whose evidence is no longer current.                    *)
(*                                                                         *)
(* One transaction is one step here: the rows it writes are those of       *)
(* EntityResolution, whose rules decide whether it commits.  Artifacts,    *)
(* reviews, snapshots and the schema are verified but never change.        *)
(***************************************************************************)
EXTENDS Integers, FiniteSets

CONSTANTS
  Process, Artifact, Review, NULL,
  TargetOf,      \* for an artifact, the target proposed for each observed facility
  ArtifactOf,    \* the artifact a review judges
  OutcomeOf,     \* its outcome for each observed facility: match, reject or defer
  ValidFromOf,   \* assignment_valid_from of its matches
  ReviewedAt,    \* the earliest accepted_at: its reviewed_at and the candidate cutoff
  AcceptTimes, RefreshTimes,   \* bound: the clocks of operators and importers
  MaxCalls       \* bound: calls that are under way or have committed

Observed == UNION {DOMAIN TargetOf[a] : a \in Artifact}
Covered(r) == DOMAIN TargetOf[ArtifactOf[r]]

\* _expected_times
RecordedAt(t) == t + 3

\* _resolution_ids: a run is named by its review, clock and mode, an assignment by
\* its run and its observed facility.
RunId == [review : Review, at : AcceptTimes, stale : BOOLEAN]
AssignmentId == [run : RunId, observed : Observed]

Clock == AcceptTimes \cup RefreshTimes \cup {RecordedAt(t) : t \in AcceptTimes}

ASSUME ClockAssumption ==
  /\ AcceptTimes \subseteq Nat /\ RefreshTimes \subseteq Nat /\ NULL \notin Nat
  /\ MaxCalls \in Nat

ASSUME ReviewAssumption ==
  \A r \in Review :
    /\ ArtifactOf[r] \in Artifact
    /\ OutcomeOf[r] \in [Covered(r) -> {"match", "reject", "defer"}]

VARIABLES
  evidence_ended,  \* when the first evidence claim of an artifact was superseded, or NULL
  runs,            \* committed runs: their superseded and reaffirmed assignments
  superseded_at,   \* for every stored assignment
  call,            \* what each process is doing
  seen             \* auxiliary: the runs committed when a committed run was planned

vars == <<evidence_ended, runs, superseded_at, call, seen>>

Idle == [step |-> "idle"]
Runs == DOMAIN runs
Assigned == DOMAIN superseded_at

Init ==
  /\ evidence_ended = [a \in Artifact |-> NULL]
  /\ runs = <<>> /\ superseded_at = <<>> /\ seen = <<>>
  /\ call = [p \in Process |-> Idle]

-----------------------------------------------------------------------------
\* _assert_evidence_current
Current(a, t) == evidence_ended[a] = NULL \/ evidence_ended[a] > t

\* An importer supersedes claims the artifact cites.
Refresh(a, t) ==
  /\ evidence_ended[a] = NULL
  /\ evidence_ended' = [evidence_ended EXCEPT ![a] = t]
  /\ UNCHANGED <<runs, superseded_at, call, seen>>

Busy == {p \in Process : call[p] # Idle}

\* The call begins.  A known run is only verified; otherwise the evidence must be
\* current at accepted_at, or not be, as the mode says.
Begin(p, r, t, stale) ==
  LET id == [review |-> r, at |-> t, stale |-> stale]
  IN /\ call[p] = Idle
     /\ Cardinality(Busy) + Cardinality(Runs) < MaxCalls
     /\ t >= ReviewedAt[r]
     /\ id \notin Runs
     /\ Current(ArtifactOf[r], t) # stale
     /\ call' = [call EXCEPT ![p] = [step |-> "plan", id |-> id]]
     /\ UNCHANGED <<evidence_ended, runs, superseded_at, seen>>

\* _open_assignments, of the facilities the review covers
Open(r) == {a \in Assigned : a.observed \in Covered(r) /\ superseded_at[a] = NULL}

IsMatch(r, o) == OutcomeOf[r][o] = "match"
Matched(r) == {o \in Covered(r) : IsMatch(r, o)}

\* _assignment_belongs_to_artifact
Own(a, r) == ArtifactOf[a.run.review] = ArtifactOf[r]

\* A stale correction touches only open assignments of its own artifact, at least
\* one, and reaffirms those it still calls a match on the same interval.
MayCorrect(r) ==
  /\ Open(r) # {}
  /\ \A a \in Open(r) :
       /\ Own(a, r)
       /\ IsMatch(r, a.observed) => ValidFromOf[a.run.review] = ValidFromOf[r]
  /\ \A o \in Matched(r) : \E a \in Open(r) : a.observed = o

\* What a run will supersede and reaffirm.
Superseding(id) ==
  IF id.stale THEN {a \in Open(id.review) : ~IsMatch(id.review, a.observed)}
              ELSE Open(id.review)

Reaffirming(id) == Open(id.review) \ Superseding(id)

\* No prior assignment was recorded at or after the time that would end it.
ClockAllows(id) ==
  \A a \in Superseding(id) : RecordedAt(a.run.at) < RecordedAt(id.at)

\* The plan is made outside any transaction.
Plan(p) ==
  /\ call[p].step = "plan"
  /\ LET id == call[p].id
     IN /\ id.stale => MayCorrect(id.review)
        /\ ClockAllows(id)
        /\ call' = [call EXCEPT ![p] =
                      [step |-> "commit", id |-> id, superseded |-> Superseding(id),
                       reaffirmed |-> Reaffirming(id), seen |-> Runs]]
  /\ UNCHANGED <<evidence_ended, runs, superseded_at, seen>>

-----------------------------------------------------------------------------
\* supersede_source_entity_assignment: once, or again with the same clock.
SupersedableAgain(a, t) == t > RecordedAt(a.run.at)

Supersedable(a, t) ==
  superseded_at[a] = t \/ (superseded_at[a] = NULL /\ t > RecordedAt(a.run.at))

\* source_entity_assignments_no_current_overlap, after the supersessions of S at t:
\* nothing is open, and nothing ends after t.
RoomIfNoneOpen(o, S, t) ==
  \A a \in Assigned : a.observed = o /\ a \notin S => superseded_at[a] # NULL

RoomFor(o, S, t) ==
  \A a \in Assigned : a.observed = o /\ a \notin S =>
    superseded_at[a] # NULL /\ superseded_at[a] <= t

Creates(id) == IF id.stale THEN {} ELSE {[run |-> id, observed |-> o] : o \in Matched(id.review)}

EvidenceAtBegin(id) == TRUE

\* The evidence is verified once more, at the recorded clock, before the commit.
EvidenceStands(id) == Current(ArtifactOf[id.review], RecordedAt(id.at)) # id.stale

\* The transaction: the run, its candidates and decisions are new, the supersessions
\* precede the new assignments.  Its decisions name the prior assignment of each
\* facility, which the plan has read.
Commit(p) ==
  /\ call[p].step = "commit"
  /\ LET id == call[p].id
         end == RecordedAt(id.at)
         S == call[p].superseded
     IN /\ id \notin Runs
        /\ \A a \in S : Supersedable(a, end)
        /\ \A a \in Creates(id) : RoomFor(a.observed, S, end)
        /\ EvidenceStands(id)
        /\ \A a \in call[p].reaffirmed : superseded_at[a] = NULL
        /\ runs' = [i \in Runs \cup {id} |->
                      IF i = id THEN [superseded |-> S, reaffirmed |-> call[p].reaffirmed]
                                ELSE runs[i]]
        /\ superseded_at' = [a \in Assigned \cup Creates(id) |->
                               IF a \in S THEN end
                               ELSE IF a \in Assigned THEN superseded_at[a] ELSE NULL]
        /\ seen' = [i \in Runs \cup {id} |-> IF i = id THEN call[p].seen ELSE seen[i]]
  /\ call' = [call EXCEPT ![p] = Idle]
  /\ UNCHANGED evidence_ended

\* A refusal, an error (the transaction is rolled back) or a crash at any step.
Abort(p) ==
  /\ call[p] # Idle
  /\ call' = [call EXCEPT ![p] = Idle]
  /\ UNCHANGED <<evidence_ended, runs, superseded_at, seen>>

Next ==
  \/ \E a \in Artifact, t \in RefreshTimes : Refresh(a, t)
  \/ \E p \in Process :
       \/ \E r \in Review, t \in AcceptTimes, s \in BOOLEAN : Begin(p, r, t, s)
       \/ Plan(p) \/ Commit(p) \/ Abort(p)

Spec == Init /\ [][Next]_vars

-----------------------------------------------------------------------------
\* What a stored run did and left behind.
CreatedBy(id) == {a \in Assigned : a.run = id}

\* _later_supersession_is_proven: a later run says that it ended assignment a.
StartedLater(i, a) == i.at > RecordedAt(a.run.at)

Proven(a) ==
  \E i \in Runs : /\ StartedLater(i, a)
                  /\ a \in runs[i].superseded
                  /\ RecordedAt(i.at) = superseded_at[a]

\* _verify_exact_replay, for the rows that later runs may touch
ReplayVerifies(id) ==
  /\ CreatedBy(id) = Creates(id)
  /\ runs[id].superseded \cap runs[id].reaffirmed = {}
  /\ \A a \in runs[id].superseded : superseded_at[a] = RecordedAt(id.at)
  /\ \A a \in CreatedBy(id) \cup runs[id].reaffirmed : superseded_at[a] # NULL => Proven(a)

\* A stale artifact creates or restores no assignment: one that a step stores rests on
\* evidence that is current at its recorded time, though the importers' refreshes may
\* come at any moment of the call (data_contract.md:194).
NeverFromStaleEvidence ==
  [][\A a \in DOMAIN superseded_at' \ Assigned :
       evidence_ended[ArtifactOf[a.run.review]] # NULL =>
         evidence_ended[ArtifactOf[a.run.review]] > RecordedAt(a.run.at)]_vars

\* The targets of o that a reader is shown as of k.
ShownTargets(o, k) ==
  {TargetOf[ArtifactOf[a.run.review]][o] : a \in
     {b \in Assigned : /\ b.observed = o /\ RecordedAt(b.run.at) <= k
                       /\ superseded_at[b] # NULL => k < superseded_at[b]}}

About(o) == {i \in Runs : o \in Covered(i.review)}
Latest(o, k) ==
  {i \in About(o) : /\ RecordedAt(i.at) <= k
                    /\ \A j \in About(o) \ {i} : RecordedAt(j.at) <= k => j.at < i.at}

Says(id, o) ==
  IF IsMatch(id.review, o) THEN {TargetOf[ArtifactOf[id.review]][o]} ELSE {}

\* Accepted after every run with an earlier clock had committed, and before any later.
InClockOrder(id, o) ==
  \A i \in About(o) \ {id} : i.at < id.at <=> i \in seen[id]

\* The review with the latest clock decides what is shown as of any time after it: a
\* match always, in whatever order and however interleaved the calls; a retraction or
\* a stale reaffirmation when it was accepted in the order of the clocks.
LatestReviewDecides ==
  \A o \in Observed, k \in Clock : \A id \in Latest(o, k) :
    (InClockOrder(id, o) \/ (IsMatch(id.review, o) /\ ~id.stale))
      => ShownTargets(o, k) = Says(id, o)

\* Replay verifies every run, whatever has been accepted since, but for assignments
\* that a run ended which started within the three seconds before they were recorded.
ReplayVerifiesLater ==
  \A id \in Runs :
    (\A a \in CreatedBy(id) \cup runs[id].reaffirmed, i \in Runs :
       a \in runs[i].superseded => i.at > RecordedAt(a.run.at))
    => ReplayVerifies(id)

\* "replay MUST verify any later supersession through its succeeded correction run"
\* (data_contract.md:196): whatever has been accepted since.
EveryReplayVerifies == \A id \in Runs : ReplayVerifies(id)
=============================================================================
