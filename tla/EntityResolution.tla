-------------------------- MODULE EntityResolution --------------------------
(***************************************************************************)
(* Who an observed entity is taken to be: the resolution runs, candidates, *)
(* decisions and source-entity assignments of repository.py (lines 453 to  *)
(* 833), under the triggers of migrations 0003, 0004 and 0010.             *)
(*                                                                         *)
(* Every row is immutable but for two transitions: a run is finalized      *)
(* once, an assignment is superseded once.  Callers may submit any clock   *)
(* in any order.  The claim store underneath is immutable and given by     *)
(* constant functions.  A candidate has at most one decision and a         *)
(* decision at most one assignment, so both are kept per candidate; ranks, *)
(* scores and texts are left out.                                          *)
(***************************************************************************)
EXTENDS Naturals

CONSTANTS
  ResolutionRun, IngestionRun, SourceRecord, Entity, ClaimVersion,
  CompletedAt,      \* completed_at of a succeeded ingestion run, or NULL
  RecordRun,        \* source_records.ingestion_run_id
  ObservedAt,       \* source_records.observed_at
  EntityKind, EntityCreatedAt,
  ClaimSubject, ClaimRecord, ClaimRun, ClaimRecordedAt,
                    \* source-backed claim versions: series.subject_entity_id,
                    \* claim_evidence.source_record_id, created_by_run_id, recorded_at
  Date, Time, NULL,
  Candidate,        \* bound: the candidates resolvers propose
  StartTimes, RunTimes, DecisionTimes, ValidPeriods
                    \* bound: the clocks and the <<valid_from, valid_to>> callers submit

Status == {"absent", "running", "succeeded", "failed"}
Outcome == {"match", "reject", "defer"}
Decision == [outcome : Outcome, decided_at : Time]
Assignment == [valid_from : Date, valid_to : Date \cup {NULL}, recorded_at : Time]

ASSUME ClockAssumption ==
  /\ Time \subseteq Nat /\ Date \subseteq Nat
  /\ NULL \notin Nat /\ NULL \notin Decision /\ NULL \notin Assignment
  /\ StartTimes \cup RunTimes \cup DecisionTimes \subseteq Time

ASSUME RowAssumption ==
  /\ CompletedAt \in [IngestionRun -> Time \cup {NULL}]
  /\ RecordRun \in [SourceRecord -> IngestionRun]
  /\ ObservedAt \in [SourceRecord -> Time]
  /\ EntityCreatedAt \in [Entity -> Time]
  /\ ClaimSubject \in [ClaimVersion -> Entity]
  /\ ClaimRecord \in [ClaimVersion -> SourceRecord]
  /\ ClaimRun \in [ClaimVersion -> IngestionRun \cup {NULL}]
  /\ ClaimRecordedAt \in [ClaimVersion -> Time]
  /\ Candidate \subseteq
       [run : ResolutionRun, record : SourceRecord, observed : Entity, canonical : Entity]
  /\ ValidPeriods \subseteq Date \X (Date \cup {NULL})

VARIABLES
  status, started_at, completed_at,   \* entity_resolution_runs
  inputs,          \* entity_resolution_run_inputs
  created_at,      \* entity_resolution_candidates; NULL: no row
  cited,           \* their target_evidence_claim_version_ids
  decision,        \* entity_resolution_decisions, by candidate; NULL: no row
  assignment,      \* source_entity_assignments, by candidate; NULL: no row
  superseded_at    \* the mutable column of an assignment

runs == <<status, started_at, completed_at>>
cohort == <<inputs, created_at, cited>>
identity == <<assignment, superseded_at>>
vars == <<runs, cohort, decision, identity>>

TypeOK ==
  /\ status \in [ResolutionRun -> Status]
  /\ started_at \in [ResolutionRun -> Time \cup {NULL}]
  /\ completed_at \in [ResolutionRun -> Time \cup {NULL}]
  /\ inputs \in [ResolutionRun -> SUBSET IngestionRun]
  /\ created_at \in [Candidate -> Time \cup {NULL}]
  /\ cited \in [Candidate -> SUBSET ClaimVersion]
  /\ decision \in [Candidate -> Decision \cup {NULL}]
  /\ assignment \in [Candidate -> Assignment \cup {NULL}]
  /\ superseded_at \in [Candidate -> Time \cup {NULL}]

Init ==
  /\ status = [r \in ResolutionRun |-> "absent"]
  /\ started_at = [r \in ResolutionRun |-> NULL]
  /\ completed_at = [r \in ResolutionRun |-> NULL]
  /\ inputs = [r \in ResolutionRun |-> {}]
  /\ created_at = [c \in Candidate |-> NULL]
  /\ cited = [c \in Candidate |-> {}]
  /\ decision = [c \in Candidate |-> NULL]
  /\ assignment = [c \in Candidate |-> NULL]
  /\ superseded_at = [c \in Candidate |-> NULL]

-----------------------------------------------------------------------------
\* Resolution runs.  A second insert of a row, or a second finalization with the
\* same clock, changes nothing; any other is refused.
AddRun(r, t) ==
  /\ status[r] = "absent"
  /\ status' = [status EXCEPT ![r] = "running"]
  /\ started_at' = [started_at EXCEPT ![r] = t]
  /\ UNCHANGED <<completed_at, cohort, decision, identity>>

AddRunInput(r, n) ==
  /\ status[r] = "running"
  /\ CompletedAt[n] # NULL /\ CompletedAt[n] <= started_at[r]
  /\ n \notin inputs[r]
  /\ inputs' = [inputs EXCEPT ![r] = @ \cup {n}]
  /\ UNCHANGED <<runs, created_at, cited, decision, identity>>

FinalizeAnyTime(r, outcome, t) ==
  /\ status[r] = "running"
  /\ t > started_at[r]
  /\ outcome = "succeeded" => inputs[r] # {}
  /\ status' = [status EXCEPT ![r] = outcome]
  /\ completed_at' = [completed_at EXCEPT ![r] = t]
  /\ UNCHANGED <<started_at, cohort, decision, identity>>

FinalizeRun(r, outcome, t) ==
  /\ status[r] = "running"
  /\ t > started_at[r]
  /\ outcome = "succeeded" => inputs[r] # {}
  /\ \A c \in Candidate : c.run = r /\ created_at[c] # NULL => created_at[c] <= t
  /\ status' = [status EXCEPT ![r] = outcome]
  /\ completed_at' = [completed_at EXCEPT ![r] = t]
  /\ UNCHANGED <<started_at, cohort, decision, identity>>

-----------------------------------------------------------------------------
\* _validate_candidate_target_evidence: claims about the proposed entity, known at
\* the run's cutoff, from declared inputs of the run.
CutoffSafe(v, c) ==
  /\ ClaimSubject[v] = c.canonical
  /\ ClaimRun[v] \in inputs[c.run]
  /\ CompletedAt[ClaimRun[v]] # NULL /\ CompletedAt[ClaimRun[v]] <= started_at[c.run]
  /\ ClaimRecordedAt[v] <= started_at[c.run]

SameKind(c) ==
  /\ EntityKind[c.observed] \in {"organization", "facility"}
  /\ EntityKind[c.canonical] = EntityKind[c.observed]
  /\ c.canonical # c.observed

\* Everything the candidate compares was known when its run started.
HasLineage(c) ==
  /\ RecordRun[c.record] \in inputs[c.run]
  /\ \E v \in ClaimVersion :
       /\ ClaimRecord[v] = c.record /\ ClaimSubject[v] = c.observed
       /\ ClaimRecordedAt[v] <= started_at[c.run]
  /\ ObservedAt[c.record] <= started_at[c.run]
  /\ EntityCreatedAt[c.observed] <= started_at[c.run]
  /\ EntityCreatedAt[c.canonical] <= started_at[c.run]

AcceptsCandidatesLate(r) == status[r] # "absent"
AcceptsCandidates(r) == status[r] = "running"

AddCandidate(c, t, V) ==
  /\ created_at[c] = NULL
  /\ AcceptsCandidates(c.run)
  /\ \A v \in V : CutoffSafe(v, c)
  /\ SameKind(c) /\ HasLineage(c)
  /\ started_at[c.run] <= t
  /\ created_at' = [created_at EXCEPT ![c] = t]
  /\ cited' = [cited EXCEPT ![c] = V]
  /\ UNCHANGED <<runs, inputs, decision, identity>>

AddDecision(c, outcome, t) ==
  /\ decision[c] = NULL /\ created_at[c] # NULL
  /\ status[c.run] = "succeeded"
  /\ t >= created_at[c] /\ t >= completed_at[c.run]
  /\ decision' = [decision EXCEPT ![c] = [outcome |-> outcome, decided_at |-> t]]
  /\ UNCHANGED <<runs, cohort, identity>>

-----------------------------------------------------------------------------
\* The two half-open intervals of an assignment, NULL being no end.
BeginsBefore(x, end) == end # NULL => x < end

ValidTogether(a, b) ==
  BeginsBefore(a.valid_from, b.valid_to) /\ BeginsBefore(b.valid_from, a.valid_to)

\* source_entity_assignments_no_current_overlap, for a new row a that ends at u.
OverlapsOpen(e, a, u) == superseded_at[e] = NULL /\ ValidTogether(assignment[e], a)

Overlaps(e, a, u) ==
  /\ BeginsBefore(a.recorded_at, superseded_at[e])
  /\ BeginsBefore(assignment[e].recorded_at, u)
  /\ ValidTogether(assignment[e], a)

\* Only a match is assigned, once, possibly with an end that is already known.
AddAssignment(c, a, u) ==
  /\ assignment[c] = NULL
  /\ decision[c] # NULL
  /\ decision[c].outcome = "match" /\ decision[c].decided_at <= a.recorded_at
  /\ SameKind(c)
  /\ a.recorded_at >= ObservedAt[c.record]
  /\ a.recorded_at >= EntityCreatedAt[c.observed]
  /\ a.recorded_at >= EntityCreatedAt[c.canonical]
  /\ BeginsBefore(a.valid_from, a.valid_to)
  /\ BeginsBefore(a.recorded_at, u)
  /\ \A e \in Candidate :
       e.observed = c.observed /\ assignment[e] # NULL => ~Overlaps(e, a, u)
  /\ assignment' = [assignment EXCEPT ![c] = a]
  /\ superseded_at' = [superseded_at EXCEPT ![c] = u]
  /\ UNCHANGED <<runs, cohort, decision>>

SupersedesAt(c, u) ==
  /\ assignment[c] # NULL /\ superseded_at[c] = NULL

MaySupersede(c, u) ==
  /\ assignment[c] # NULL /\ superseded_at[c] = NULL
  /\ u > assignment[c].recorded_at

SupersedeAssignment(c, u) ==
  /\ MaySupersede(c, u)
  /\ superseded_at' = [superseded_at EXCEPT ![c] = u]
  /\ UNCHANGED <<runs, cohort, decision, assignment>>

Next ==
  \/ \E r \in ResolutionRun :
       \/ \E t \in StartTimes : AddRun(r, t)
       \/ \E n \in IngestionRun : AddRunInput(r, n)
       \/ \E o \in {"succeeded", "failed"}, t \in RunTimes : FinalizeRun(r, o, t)
  \/ \E c \in Candidate :
       \/ \E t \in RunTimes, V \in SUBSET ClaimVersion : AddCandidate(c, t, V)
       \/ \E o \in Outcome, t \in DecisionTimes : AddDecision(c, o, t)
       \/ \E p \in ValidPeriods, t \in Time, u \in Time \cup {NULL} :
            AddAssignment(c, [valid_from |-> p[1], valid_to |-> p[2], recorded_at |-> t], u)
       \/ \E u \in Time : SupersedeAssignment(c, u)

Spec == Init /\ [][Next]_vars

-----------------------------------------------------------------------------
\* current_source_entity_assignments: the assignments of o shown on date d as known
\* at k.
Known(c, k) ==
  /\ assignment[c] # NULL
  /\ assignment[c].recorded_at <= k /\ BeginsBefore(k, superseded_at[c])

Shown(c, d, k) ==
  /\ Known(c, k)
  /\ assignment[c].valid_from <= d /\ BeginsBefore(d, assignment[c].valid_to)

Current(o, d, k) == {c \in Candidate : c.observed = o /\ Shown(c, d, k)}

\* Whatever clocks and periods are submitted, in whatever order, and whatever is
\* superseded when: on no date, as known at no time, is an observed entity shown as
\* two assignments (source_entity_assignments_no_current_overlap).
OneCanonical ==
  \A o \in Entity, d \in Date, k \in Time : \A x, y \in Current(o, d, k) : x = y

\* An assignment that a reader is shown as of k rests on a chain that was complete
\* at k: the match was decided by then, on a candidate of a run that had succeeded
\* by then, which compared only records, entities and claims of ingestion runs that
\* had completed before the run started.
RestsOnKnown ==
  \A c \in Candidate, k \in Time : Known(c, k) =>
    /\ decision[c] # NULL /\ decision[c].outcome = "match" /\ decision[c].decided_at <= k
    /\ created_at[c] # NULL /\ created_at[c] <= decision[c].decided_at
    /\ status[c.run] = "succeeded" /\ completed_at[c.run] <= decision[c].decided_at
    /\ created_at[c] <= completed_at[c.run]
    /\ \A n \in inputs[c.run] : CompletedAt[n] # NULL /\ CompletedAt[n] <= started_at[c.run]
    /\ RecordRun[c.record] \in inputs[c.run]
    /\ \A v \in cited[c] :
         ClaimRun[v] \in inputs[c.run] /\ ClaimRecordedAt[v] <= started_at[c.run]
    /\ EntityCreatedAt[c.canonical] <= started_at[c.run] /\ started_at[c.run] <= k

\* Once a candidate of a run has been decided, the alternatives and the evidence of
\* that run are what they were: nobody adds a better candidate or another input to
\* the comparison a reviewer has judged.
JudgedStaysPut ==
  \A c \in Candidate : decision[c] # NULL =>
    /\ inputs'[c.run] = inputs[c.run] /\ started_at'[c.run] = started_at[c.run]
    /\ \A e \in Candidate :
         e.run = c.run => created_at'[e] = created_at[e] /\ cited'[e] = cited[e]

SealedOnce == [][JudgedStaysPut]_vars

\* What an assignment says: who its entity is, on which dates, known when.
Extent(c) ==
  [observed : {c.observed}, canonical : {c.canonical},
   date : {d \in Date : /\ assignment[c].valid_from <= d
                        /\ BeginsBefore(d, assignment[c].valid_to)},
   known : {k \in Time : Known(c, k)}]

Facts == UNION {Extent(c) : c \in {e \in Candidate : assignment[e] # NULL}}

History == INSTANCE IdentityHistory WITH facts <- Facts

\* The tables implement the abstract identity history: an accepted assignment fills
\* a gap, a supersession withdraws the end of what was known, and no other step
\* changes who anyone is taken to be.
ImplementsIdentityHistory == History!Spec
=============================================================================
