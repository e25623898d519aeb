----------------------------- MODULE ClaimLedger -----------------------------
(***************************************************************************)
(* The append-only bitemporal claim store of                               *)
(* src/semiconductor_atlas/repository.py, under the triggers of migrations *)
(* 0001 and 0010 (schema 10 and later: clocks are exact microseconds, so   *)
(* they are naturals here).                                                *)
(*                                                                         *)
(* Every row that a claim can rest on (a document, an ingestion run, a     *)
(* source record, an entity, a claim series) is immutable once stored and  *)
(* carries the clock at which it became knowable.  A claim version is      *)
(* immutable too, but for one column: superseded_at, the end of its        *)
(* transaction-time interval.  insert_claim admits a version and, in the   *)
(* same savepoint, supersedes the active version of its slot, that is, of  *)
(* the same series and the same valid_from.                                *)
(***************************************************************************)
EXTENDS Naturals

CONSTANTS
  Document, Run, Record, Entity, Series,  \* identifiers of the rows claims rest on
  RecordDocument, RecordRun,  \* source_records.source_document_id, .ingestion_run_id
  Subject,                    \* claim_series.subject_entity_id
  SeriesKind,                 \* claim_series.value_kind
  Value,                      \* typed values, up to value_sha256
  ValueKind,                  \* the kind of a value
  Target,                     \* the entity a relationship or constraint points at, or NULL
  UpperBound,                 \* the milestone upper bounds among the values
  ClaimId, Date, Time,
  NULL,
  ArrivalTimes,   \* bound: clocks given to the rows claims rest on
  Submission      \* bound: the versions callers of insert_claim submit

Artifact == Document \cup Run \cup Record \cup Entity \cup Series
Kind == {"source_statement", "derived_estimate"}
Link == [document : Document, record : Record \cup {NULL}]

\* A row of claim_versions with its claim_evidence and claim_dependencies rows,
\* all of them immutable; superseded_at is kept apart.
Version ==
  [id : ClaimId, series : Series,
   valid_from : Date \cup {NULL}, valid_to : Date \cup {NULL},
   recorded_at : Time, kind : Kind, value : Value,
   evidence : SUBSET Link, dependencies : SUBSET ClaimId]

ASSUME ClockAssumption ==
  /\ Time \subseteq Nat /\ Date \subseteq Nat
  /\ NULL \notin Nat
  /\ ArrivalTimes \subseteq Time

ASSUME ShapeAssumption ==
  /\ NULL \notin Artifact \cup ClaimId
  /\ RecordDocument \in [Record -> Document]
  /\ RecordRun \in [Record -> Run]
  /\ Subject \in [Series -> Entity]
  /\ Target \in [Value -> Entity \cup {NULL}]
  /\ Submission \subseteq Version

VARIABLES
  known_since,    \* retrieved_at, started_at, observed_at or created_at; NULL: no row
  versions,       \* the rows of claim_versions
  superseded_at   \* their one mutable column

vars == <<known_since, versions, superseded_at>>
ledger == <<versions, superseded_at>>

TypeOK ==
  /\ known_since \in [Artifact -> Time \cup {NULL}]
  /\ versions \subseteq Version
  /\ superseded_at \in [ClaimId -> Time \cup {NULL}]

Init ==
  /\ known_since = [a \in Artifact |-> NULL]
  /\ versions = {}
  /\ superseded_at = [c \in ClaimId |-> NULL]

-----------------------------------------------------------------------------
\* Rows are stored by INSERT OR IGNORE and then compared: a second insert of an
\* identifier changes nothing, whether it agrees (False) or not (ValueError).
Stored(a) == known_since[a] # NULL
KnownBy(a, t) == Stored(a) /\ known_since[a] <= t

Store(a, t) ==
  /\ ~Stored(a)
  /\ known_since' = [known_since EXCEPT ![a] = t]
  /\ UNCHANGED ledger

AddSourceDocument(d, t) == Store(d, t)

AddIngestionRun(n, t) == Store(n, t)

AddSourceRecord(r, t) ==
  /\ Stored(RecordDocument[r]) /\ Stored(RecordRun[r])
  /\ Store(r, t)

AddEntity(e, t) == Store(e, t)

AddClaimSeries(s, t) == Stored(Subject[s]) /\ Store(s, t)

-----------------------------------------------------------------------------
\* What a version refers to, apart from other versions.
LinkNeeds(l) ==
  {l.document} \cup (IF l.record = NULL THEN {} ELSE {l.record, RecordRun[l.record]})

NeedsWithoutRun(v) ==
  (UNION {{l.document, l.record} \ {NULL} : l \in v.evidence})
    \cup {v.series, Subject[v.series]} \cup ({Target[v.value]} \ {NULL})

Needs(v) ==
  (UNION {LinkNeeds(l) : l \in v.evidence})
    \cup {v.series, Subject[v.series]} \cup ({Target[v.value]} \ {NULL})

\* An upper bound is a source statement of unknown effective time; so is every
\* version without valid_from; other intervals are not empty.
ValidShape(v) ==
  /\ v.value \in UpperBound => v.kind = "source_statement" /\ v.valid_from = NULL
  /\ IF v.valid_from = NULL
       THEN v.valid_to = NULL /\ v.kind = "source_statement"
       ELSE v.valid_to # NULL => v.valid_to > v.valid_from

AnyParentLineage(v) ==
  /\ v.evidence # {} \/ v.dependencies # {}
  /\ \A a \in Needs(v) : KnownBy(a, v.recorded_at)

\* The lineage exists and was knowable when the version is recorded.
LineageAvailable(v) ==
  /\ v.evidence # {} \/ v.dependencies # {}
  /\ v.id \notin v.dependencies
  /\ \A l \in v.evidence : l.record # NULL => RecordDocument[l.record] = l.document
  /\ \A a \in Needs(v) : KnownBy(a, v.recorded_at)
  /\ \A d \in v.dependencies :
       \E p \in versions : p.id = d /\ p.recorded_at <= v.recorded_at

SameSlot(v, w) == v.series = w.series /\ v.valid_from = w.valid_from

Active(v) == superseded_at[v.id] = NULL

\* "cannot insert an out-of-order correction behind an active version", and the
\* uniqueness of (series_id, valid_from, recorded_at).
NoOrderCheck(v) == \A w \in versions : SameSlot(v, w) => w.recorded_at # v.recorded_at

InOrder(v) ==
  \A w \in versions : SameSlot(v, w) =>
    /\ Active(w) => w.recorded_at < v.recorded_at
    /\ w.recorded_at # v.recorded_at

SupersedesSameInterval(v, w) ==
  SameSlot(v, w) /\ v.valid_to = w.valid_to /\ Active(w) /\ w.recorded_at < v.recorded_at

SupersedesSeries(v, w) == v.series = w.series /\ Active(w) /\ w.recorded_at < v.recorded_at

Supersedes(v, w) == SameSlot(v, w) /\ Active(w) /\ w.recorded_at < v.recorded_at

\* insert_claim of a new identifier.  A known identifier is compared field by
\* field and changes nothing.
InsertClaim(v) ==
  /\ \A w \in versions : w.id # v.id
  /\ ValidShape(v)
  /\ ValueKind[v.value] = SeriesKind[v.series]
  /\ LineageAvailable(v)
  /\ InOrder(v)
  /\ versions' = versions \cup {v}
  /\ superseded_at' =
       [c \in ClaimId |-> IF \E w \in versions : w.id = c /\ Supersedes(v, w)
                            THEN v.recorded_at ELSE superseded_at[c]]
  /\ UNCHANGED known_since

Next ==
  \/ \E t \in ArrivalTimes :
       \/ \E d \in Document : AddSourceDocument(d, t)
       \/ \E n \in Run : AddIngestionRun(n, t)
       \/ \E r \in Record : AddSourceRecord(r, t)
       \/ \E e \in Entity : AddEntity(e, t)
       \/ \E s \in Series : AddClaimSeries(s, t)
  \/ \E v \in Submission : InsertClaim(v)

Spec == Init /\ [][Next]_vars

-----------------------------------------------------------------------------
\* What a reader is shown.  A version is visible at knowledge time k from its
\* recorded_at on and until it is superseded.
Visible(k) ==
  {v \in versions : /\ v.recorded_at <= k
                    /\ superseded_at[v.id] # NULL => k < superseded_at[v.id]}

KnownSourceClaims(k) == {v \in Visible(k) : v.kind = "source_statement"}

-----------------------------------------------------------------------------
\* At every knowledge time at most one version of a slot is visible: the
\* transaction-time intervals that insert_claim leaves behind never overlap,
\* in whatever order callers submit their clocks.
OneBelief ==
  \A v, w \in versions : v # w /\ SameSlot(v, w) =>
    \/ superseded_at[v.id] # NULL /\ superseded_at[v.id] <= w.recorded_at
    \/ superseded_at[w.id] # NULL /\ superseded_at[w.id] <= v.recorded_at

\* A superseded version is followed without a gap: the version that ended its
\* interval begins there.  insert_claim alone never withdraws what was known.
NoGap ==
  \A v \in versions : superseded_at[v.id] # NULL =>
    \E w \in versions : SameSlot(v, w) /\ w.recorded_at = superseded_at[v.id]

\* A reader who asks what was known at k sees only versions whose evidence was
\* knowable at k and whose parents had been recorded by k.
NoFutureKnowledge ==
  \A k \in Time : \A v \in Visible(k) :
    /\ \A l \in v.evidence : \A a \in LinkNeeds(l) : KnownBy(a, k)
    /\ KnownBy(v.series, k) /\ KnownBy(Subject[v.series], k)
    /\ \A d \in v.dependencies : \E p \in versions : p.id = d /\ p.recorded_at <= k

\* No set of claims rests only on itself: the dependency graph has no cycle.
WellFounded ==
  \A S \in SUBSET versions : S # {} =>
    \E v \in S : \A w \in S : w.id \notin v.dependencies

\* The past is never rewritten: a step changes what was known at k only by
\* recording a version at k or earlier, that is, by a backdated admission, and
\* then only in the slot of that version, from its clock on.
ForgetsOnlyBySuccession ==
  \A k \in Time : \A v \in Visible(k) \ Visible(k)' :
    \E w \in versions' \ versions : SameSlot(v, w) /\ w.recorded_at <= k

PastIsStable == [][ForgetsOnlyBySuccession]_vars

Slot == Series \X (Date \cup {NULL})

\* The claim a reader believes about a slot at knowledge time k.
Believed(s, k) ==
  LET shown == {v \in Visible(k) : v.series = s[1] /\ v.valid_from = s[2]}
  IN IF shown = {} THEN NULL ELSE (CHOOSE v \in shown : TRUE).id

Beliefs == INSTANCE BeliefHistory
             WITH belief <- [s \in Slot |-> [k \in Time |-> Believed(s, k)]]

\* The store implements the abstract history of beliefs: an accepted insert_claim
\* extends one slot's history at its end and changes no other belief.
ImplementsBeliefHistory == Beliefs!Spec

\* A closed interval is never reopened or moved (the supersession trigger).
ClosedStaysClosed ==
  \A c \in ClaimId : superseded_at[c] # NULL => superseded_at'[c] = superseded_at[c]

SupersededOnce == [][ClosedStaysClosed]_vars
=============================================================================
