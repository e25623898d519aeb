------------------------ MODULE SnapshotImportProofs ------------------------
(***************************************************************************)
(* What holds of the refreshed sources whatever their snapshots, sites,    *)
(* codes and texts, and however many imports there have been.              *)
(***************************************************************************)
EXTENDS SnapshotImport, TLAPS

-----------------------------------------------------------------------------
(* The invariant. *)

Runs ==
  [snapshot : Snapshots[source], complete : BOOLEAN,
   updated_at : Date, as_of : Date, retrieved_at : Clock, accepted_at : Clock]

\* Runs are known by their acceptance, and updates follow it.
RunsInv ==
  /\ source \in Source
  /\ runs \subseteq Runs
  /\ \A a \in runs : a.as_of \in PublisherDate(a.updated_at)
  /\ \A a, b \in runs : a.accepted_at <= b.accepted_at =>
       a = b \/ (a.accepted_at < b.accepted_at /\ a.updated_at <= b.updated_at)

Fields ==
  {"id", "valid_from", "valid_to", "recorded_at", "superseded_at", "value", "dependencies"}

RowType(r) ==
  /\ DOMAIN r = Fields
  /\ r.id \in Id /\ r.dependencies \subseteq Id
  /\ r.valid_from \in Date /\ r.valid_to \in Date \cup {NULL}
  /\ r.recorded_at \in Clock /\ r.superseded_at \in Clock \cup {NULL}

\* The run that wrote a row: a closure ends on its date, a statement begins on it.
WrittenBy(r, a) ==
  /\ r.recorded_at = a.accepted_at
  /\ r.id.closure => r.valid_to = a.as_of /\ r.valid_from < a.as_of
  /\ ~r.id.closure => /\ r.valid_to = NULL /\ r.valid_from = a.as_of
                      /\ r.id.series \in Speaking(a)

RowInv(r) ==
  /\ RowType(r)
  /\ r.recorded_at = r.id.run
  /\ \E a \in runs : WrittenBy(r, a)
  /\ r.superseded_at # NULL =>
       /\ r.recorded_at < r.superseded_at
       /\ \E a \in runs : a.accepted_at = r.superseded_at
  /\ ~r.id.series.derived => r.dependencies = {}

RowsInv ==
  /\ \A r \in rows : RowInv(r)
  /\ \A r, w \in rows : r.id = w.id => r = w

IInv == RunsInv /\ RowsInv /\ ViewMatchesRuns /\ ClassificationRestsOnView /\ ReplayIsExact

-----------------------------------------------------------------------------
(* The order of the runs. *)

Latest(run) == run \in Runs /\ \A a \in runs : a.accepted_at < run.accepted_at
Dated(run) == \A a \in runs : a.as_of <= run.as_of

LEMMA RunFields ==
  ASSUME NEW a \in Runs
  PROVE  /\ a.as_of \in Date /\ a.as_of \in Nat /\ a.updated_at \in Date /\ a.updated_at \in Nat
         /\ a.accepted_at \in Clock /\ a.accepted_at \in Nat /\ a.accepted_at # NULL
         /\ a.retrieved_at \in Clock /\ a.snapshot \in Snapshots[source] /\ a.complete \in BOOLEAN
  BY TimeAssumption DEF Runs

LEMMA NewRun ==
  ASSUME RunsInv, NEW run \in Submittable, Acceptable(run)
  PROVE  /\ Latest(run)
         /\ run.as_of \in PublisherDate(run.updated_at)
         /\ \A a \in runs : a.updated_at <= run.updated_at
<1>1. PICK u \in Date :
        run \in [snapshot : Snapshots[source], complete : BOOLEAN, updated_at : {u},
                 as_of : PublisherDate(u), retrieved_at : Clock, accepted_at : Clock]
  BY DEF Submittable
<1>2. PublisherDate(u) \subseteq Date
  BY <1>1 DEF PublisherDate
<1> QED BY <1>1, <1>2 DEF Latest, Runs, Acceptable, InOrder

LEMMA RunsStep ==
  ASSUME RunsInv, NEW run \in Submittable, ImportSnapshot(run)
  PROVE  RunsInv'
<1>1. Acceptable(run) /\ runs' = runs \cup {run} /\ source' = source
  BY DEF ImportSnapshot
<1>2. /\ Latest(run) /\ run.as_of \in PublisherDate(run.updated_at)
      /\ \A a \in runs : a.updated_at <= run.updated_at
  BY <1>1, NewRun
<1>3. Runs' = Runs /\ \A u : PublisherDate(u)' = PublisherDate(u)
  BY <1>1 DEF Runs, PublisherDate
<1>4. /\ source \in Source /\ runs \subseteq Runs /\ run \in Runs
      /\ \A a \in runs : a.as_of \in PublisherDate(a.updated_at)
      /\ \A a, b \in runs : a.accepted_at <= b.accepted_at =>
           a = b \/ (a.accepted_at < b.accepted_at /\ a.updated_at <= b.updated_at)
  BY <1>2 DEF RunsInv, Latest
<1>5. ASSUME NEW a \in runs \cup {run}, NEW b \in runs \cup {run}, a.accepted_at <= b.accepted_at
      PROVE  a = b \/ (a.accepted_at < b.accepted_at /\ a.updated_at <= b.updated_at)
  <2>1. a.accepted_at \in Nat /\ b.accepted_at \in Nat
    BY <1>4, RunFields
  <2>2. CASE a \in runs /\ b \in runs
    BY <1>4, <1>5, <2>2
  <2>3. CASE b = run
    BY <1>2, <2>3 DEF Latest
  <2>4. CASE a = run /\ b \in runs
    BY <1>2, <1>5, <2>1, <2>4 DEF Latest
  <2> QED BY <2>2, <2>3, <2>4
<1> QED BY <1>1, <1>2, <1>3, <1>4, <1>5 DEF RunsInv

\* Publisher dates follow the updates where the dates are those of the updates.
LEMMA DatesMonotone ==
  ASSUME RunsInv, DatesInOrder, NEW a \in runs, NEW b \in runs, a.accepted_at <= b.accepted_at
  PROVE  a.as_of <= b.as_of
<1>1. a \in Runs /\ b \in Runs /\ a.as_of \in Nat /\ b.as_of \in Nat
  BY RunFields DEF RunsInv
<1>2. a = b \/ (a.accepted_at < b.accepted_at /\ a.updated_at <= b.updated_at)
  BY DEF RunsInv
<1>3. CASE source = "taiwan_mof"
  BY <1>1, <1>2, <1>3 DEF DatesInOrder, DatesFollow
<1>4. CASE source # "taiwan_mof"
  BY <1>1, <1>2, <1>4 DEF RunsInv, PublisherDate
<1> QED BY <1>3, <1>4

LEMMA NewRunDated ==
  ASSUME RunsInv, NEW run \in Submittable, Acceptable(run), DatesFollow(run)
  PROVE  Dated(run)
<1> SUFFICES ASSUME NEW a \in runs PROVE a.as_of <= run.as_of
  BY DEF Dated
<1>1. /\ Latest(run) /\ run.as_of \in PublisherDate(run.updated_at)
      /\ a.updated_at <= run.updated_at
  BY NewRun
<1>2. CASE source = "taiwan_mof"
  BY <1>1, <1>2 DEF DatesFollow, Latest
<1>3. CASE source # "taiwan_mof"
  BY <1>1, <1>3 DEF RunsInv, PublisherDate
<1> QED BY <1>2, <1>3

LEMMA DatesBefore ==
  ASSUME NEW run, runs' = runs \cup {run}, source' = source, DatesInOrder'
  PROVE  DatesInOrder /\ DatesFollow(run)
  BY DEF DatesInOrder, DatesFollow

-----------------------------------------------------------------------------
(* What rows look like to the latest run. *)

LEMMA RowBefore ==
  ASSUME RunsInv, RowsInv, NEW run, Latest(run), NEW r \in rows
  PROVE  /\ r.recorded_at < run.accepted_at /\ r.recorded_at \in Nat /\ r.id.run # run.accepted_at
         /\ r.superseded_at # NULL => r.superseded_at \in Nat /\ r.superseded_at < run.accepted_at
         /\ r.superseded_at # run.accepted_at
<1>1. RowInv(r) /\ RowType(r)
  BY DEF RowsInv, RowInv
<1>2. run.accepted_at \in Nat /\ run.accepted_at # NULL
  BY RunFields DEF Latest
<1>3. r.recorded_at < run.accepted_at /\ r.recorded_at \in Nat /\ r.id.run = r.recorded_at
  BY <1>1, TimeAssumption DEF RowInv, WrittenBy, RowType, Latest
<1>4. r.superseded_at # NULL => r.superseded_at \in Nat /\ r.superseded_at < run.accepted_at
  BY <1>1, TimeAssumption DEF RowInv, RowType, Latest
<1> QED BY <1>2, <1>3, <1>4

LEMMA PriorIsOpen ==
  ASSUME RunsInv, RowsInv, NEW run, Latest(run), NEW r
  PROVE  r \in Prior(run) <=> r \in rows /\ r.superseded_at = NULL /\ r.valid_to = NULL
<1>1. run.accepted_at \in Nat
  BY RunFields DEF Latest
<1>2. ASSUME r \in rows
      PROVE  /\ r.id.run # run.accepted_at /\ r.recorded_at < run.accepted_at
             /\ (r.superseded_at # NULL => r.superseded_at >= run.accepted_at)
                  <=> r.superseded_at = NULL
  BY <1>1, <1>2, RowBefore
<1> QED BY <1>2 DEF Prior

\* The last row of two to be written, and the later of the dates that they begin on.
LEMMA OpenIsShown ==
  ASSUME RunsInv, RowsInv, NEW r \in rows, NEW w \in rows,
         r.superseded_at = NULL \/ (w.recorded_at < r.superseded_at),
         w.superseded_at = NULL \/ (r.recorded_at < w.superseded_at),
         r.valid_to = NULL \/ w.valid_from < r.valid_to,
         w.valid_to = NULL \/ r.valid_from < w.valid_to
  PROVE  \E d \in Date, k \in Clock : r \in View(d, k) /\ w \in View(d, k)
<1>1. RowInv(r) /\ RowType(r) /\ RowInv(w) /\ RowType(w)
  BY DEF RowsInv, RowInv
<1>2. /\ r.recorded_at \in Nat /\ w.recorded_at \in Nat
      /\ r.valid_from \in Nat /\ w.valid_from \in Nat
      /\ r.recorded_at \in Clock /\ w.recorded_at \in Clock
      /\ r.valid_from \in Date /\ w.valid_from \in Date
      /\ r.superseded_at # NULL => r.superseded_at \in Nat /\ r.recorded_at < r.superseded_at
      /\ w.superseded_at # NULL => w.superseded_at \in Nat /\ w.recorded_at < w.superseded_at
      /\ r.valid_to # NULL => r.valid_to \in Nat
      /\ w.valid_to # NULL => w.valid_to \in Nat
  BY <1>1, TimeAssumption DEF RowType, RowInv
<1>3. /\ r.valid_to # NULL => r.valid_from < r.valid_to
      /\ w.valid_to # NULL => w.valid_from < w.valid_to
  BY <1>1 DEF RowInv, WrittenBy
<1>4. PICK k \in Clock : /\ r.recorded_at <= k /\ w.recorded_at <= k
                         /\ k = r.recorded_at \/ k = w.recorded_at
  <2>1. CASE r.recorded_at <= w.recorded_at
    BY <1>2, <2>1
  <2>2. CASE w.recorded_at <= r.recorded_at
    BY <1>2, <2>2
  <2> QED BY <1>2, <2>1, <2>2
<1>5. PICK d \in Date : /\ r.valid_from <= d /\ w.valid_from <= d
                        /\ d = r.valid_from \/ d = w.valid_from
  <2>1. CASE r.valid_from <= w.valid_from
    BY <1>2, <2>1
  <2>2. CASE w.valid_from <= r.valid_from
    BY <1>2, <2>2
  <2> QED BY <1>2, <2>1, <2>2
<1>6. r \in View(d, k)
  BY <1>2, <1>3, <1>4, <1>5 DEF View, Visible
<1>7. w \in View(d, k)
  BY <1>2, <1>3, <1>4, <1>5 DEF View, Visible
<1> QED BY <1>6, <1>7

-----------------------------------------------------------------------------
(* What a snapshot states. *)

LEMMA ItemType ==
  ASSUME source \in Source, NEW run \in Runs, NEW x \in Listed(run)
  PROVE  /\ x \in Site
         /\ run.snapshot[x].codes \subseteq Code /\ run.snapshot[x].codes # {}
         /\ run.snapshot[x].texts \subseteq Text
         /\ source = "moenv" => run.snapshot[x].texts # {}
<1>1. run.snapshot \in Snapshots[source]
  BY RunFields
<1>2. run.snapshot \in [Site -> Listing \cup {NULL}]
  BY <1>1, SnapshotAssumption
<1>3. x \in Site /\ run.snapshot[x] # NULL
  BY DEF Listed
<1>4. run.snapshot[x] \in Listing
  BY <1>2, <1>3
<1>5. run.snapshot[x] \in [codes : (SUBSET Code) \ {{}}, texts : SUBSET Text]
  BY <1>4 DEF Listing
<1> QED BY <1>1, <1>3, <1>5, SnapshotAssumption

LEMMA StatedFacts ==
  ASSUME source \in Source, NEW run \in Runs, NEW s \in Stated(run)
  PROVE  /\ s \in Series /\ ~s.derived /\ s.site \in Listed(run) /\ s = Of(s.site, s.key)
         /\ s \in StatedOf(run, s.site)
<1>1. PICK x \in Listed(run) : s \in StatedOf(run, x)
  BY DEF Stated
<1>2. /\ x \in Site
      /\ run.snapshot[x].codes \subseteq Code /\ run.snapshot[x].texts \subseteq Text
  BY ItemType
<1>3. PICK key \in Code \cup Text \cup {"name", "identity"} : s = Of(x, key)
  BY <1>1, <1>2 DEF StatedOf
<1>4. s \in [site : Site, derived : {FALSE}, key : Code \cup Text \cup {"name", "identity"}]
  BY <1>2, <1>3 DEF Of
<1>5. s.site = x /\ s.key = key /\ ~s.derived
  BY <1>3 DEF Of
<1> QED BY <1>1, <1>3, <1>4, <1>5 DEF Series

LEMMA ClassifiedFacts ==
  ASSUME source \in Source, NEW run \in Runs, NEW s \in Classified(run)
  PROVE  /\ s \in Series /\ s.derived /\ s.site \in Listed(run) /\ s = Derived(s.site, s.key)
         /\ s \in DerivedOf(run, s.site)
<1>1. PICK x \in Listed(run) : s \in DerivedOf(run, x)
  BY DEF Classified
<1>2. x \in Site /\ run.snapshot[x].codes \subseteq Code
  BY ItemType
<1>3. PICK key \in Code \cup {"class", "regulated"} : s = Derived(x, key)
  BY <1>1, <1>2 DEF DerivedOf
<1>4. s \in [site : Site, derived : {TRUE}, key : Code \cup {"class", "regulated"}]
  BY <1>2, <1>3 DEF Derived
<1>5. s.site = x /\ s.key = key /\ s.derived
  BY <1>3 DEF Derived
<1> QED BY <1>1, <1>3, <1>4, <1>5 DEF Series

LEMMA SpeakingFacts ==
  ASSUME source \in Source, NEW run \in Runs, NEW s \in Speaking(run)
  PROVE  /\ s \in Series /\ s.site \in Listed(run)
         /\ s \in Stated(run) <=> ~s.derived
         /\ s \in Classified(run) <=> s.derived
<1>1. s \in Stated(run) \/ s \in Classified(run)
  BY DEF Speaking
<1>2. s \in Stated(run) => s \in Series /\ ~s.derived /\ s.site \in Listed(run)
  BY StatedFacts
<1>3. s \in Classified(run) => s \in Series /\ s.derived /\ s.site \in Listed(run)
  BY ClassifiedFacts
<1> QED BY <1>1, <1>2, <1>3

LEMMA OfStated ==
  ASSUME NEW run, NEW x \in Listed(run), NEW key, Of(x, key) \in StatedOf(run, x)
  PROVE  Of(x, key) \in Stated(run)
  BY DEF Stated

LEMMA OfFields ==
  ASSUME NEW x, NEW key
  PROVE  /\ Of(x, key).site = x /\ Of(x, key).key = key /\ ~Of(x, key).derived
         /\ Derived(x, key).site = x /\ Derived(x, key).key = key /\ Derived(x, key).derived
  BY DEF Of, Derived

\* A classification rests on statements of the same snapshot, on one at least.
LEMMA BasisStated ==
  ASSUME source \in Source, NEW run \in Runs, NEW s \in Classified(run)
  PROVE  /\ StatedBasis(run, s) # {}
         /\ \A key \in StatedBasis(run, s) : Of(s.site, key) \in Stated(run)
<1>1. /\ s.site \in Listed(run) /\ s = Derived(s.site, s.key) /\ s \in DerivedOf(run, s.site)
  BY ClassifiedFacts
<1>2. /\ run.snapshot[s.site].codes # {}
      /\ source = "moenv" => run.snapshot[s.site].texts # {}
  BY <1>1, ItemType
<1>3. StatedBasis(run, s) # {}
  BY <1>2 DEF StatedBasis
<1>4. ASSUME NEW key \in StatedBasis(run, s)
      PROVE  Of(s.site, key) \in StatedOf(run, s.site)
  <2>1. CASE source = "moenv" /\ s.key = "regulated"
    BY <1>4, <2>1 DEF StatedBasis, StatedOf
  <2>2. CASE source = "moenv" /\ s.key # "regulated"
    <3>1. PICK c \in run.snapshot[s.site].codes : s = Derived(s.site, c)
      BY <1>1, <2>2, OfFields DEF DerivedOf
    <3>2. s.key = c
      BY <3>1, OfFields
    <3> QED BY <1>4, <2>2, <3>2 DEF StatedBasis, StatedOf
  <2>3. CASE source = "epa_frs"
    BY <1>4, <2>3 DEF StatedBasis, StatedOf
  <2>4. CASE source # "epa_frs" /\ source # "moenv"
    <3>1. Registry
      BY <2>4, SourceAssumption DEF Registry, Sources
    <3>2. key = "identity"
      BY <1>4, <2>4 DEF StatedBasis
    <3> QED BY <3>1, <3>2 DEF StatedOf
  <2> QED BY <2>1, <2>2, <2>3, <2>4
<1> QED BY <1>1, <1>3, <1>4, OfStated

-----------------------------------------------------------------------------
(* What an import keeps, closes and writes. *)

LEMMA RestatedMember ==
  ASSUME NEW run, NEW p
  PROVE  p \in Restated(run) <=> /\ p \in Prior(run) /\ p.id.series \in Stated(run)
                                 /\ p.value = ValueOf(run, p.id.series)
  BY DEF Restated

LEMMA KeptMember ==
  ASSUME NEW run, NEW p
  PROVE  p \in Kept(run) <=>
           \/ p \in Restated(run)
           \/ /\ p \in Prior(run) /\ p.id.series \in Classified(run)
              /\ p.value = ValueOf(run, p.id.series)
              /\ p.dependencies = Basis(run, p.id.series)
  BY DEF Kept

LEMMA WrittenMember ==
  ASSUME NEW run, NEW s
  PROVE  s \in Written(run) <=> s \in Speaking(run) /\ \A p \in Kept(run) : p.id.series # s
  BY DEF Written

LEMMA ClosedMember ==
  ASSUME NEW run, NEW p
  PROVE  p \in Closed(run) <=>
           /\ p \in Prior(run)
           /\ p.id.series \in Written(run) \/ (run.complete /\ p.id.series \notin Speaking(run))
  BY DEF Closed

LEMMA KeptFacts ==
  ASSUME NEW run, NEW p \in Kept(run)
  PROVE  /\ p \in Prior(run) /\ p \in rows /\ p \notin Closed(run)
         /\ p.id.series \in Speaking(run) /\ p.id.series \notin Written(run)
         /\ p.value = ValueOf(run, p.id.series)
<1>1. p \in Prior(run) /\ p.id.series \in Stated(run) \cup Classified(run)
      /\ p.value = ValueOf(run, p.id.series)
  BY KeptMember, RestatedMember
<1>2. p.id.series \in Speaking(run) /\ p.id.series \notin Written(run)
  BY <1>1, WrittenMember DEF Speaking
<1>3. p \in rows
  BY <1>1 DEF Prior
<1> QED BY <1>1, <1>2, <1>3, ClosedMember

Bounded(run) == {p \in Closed(run) : ClosesInterval(run, p)}

ClosureOf(run, p) ==
  Row(ClosureId(run, p), p.valid_from, run.as_of, run.accepted_at, p.value,
      ClosedDependencies(run, p, Bounded(run)))

StatementOf(run, s) ==
  Row(NewId(run, s), run.as_of, NULL, run.accepted_at, ValueOf(run, s),
      IF s.derived THEN Basis(run, s) ELSE {})

LEMMA ClosureMember ==
  ASSUME NEW run, NEW n
  PROVE  n \in Closures(run) <=>
           \E p \in Closed(run) :
             /\ p.valid_from < run.as_of
             /\ n = ClosureOf(run, p)
  BY DEF Closures, ClosesInterval, Bounded, ClosureOf

LEMMA StatementMember ==
  ASSUME NEW run, NEW n
  PROVE  n \in Statements(run) <=>
           \E s \in Written(run) :
             n = StatementOf(run, s)
  BY DEF Statements, StatementOf

LEMMA RowFields ==
  ASSUME NEW id, NEW from, NEW to, NEW t, NEW value, NEW dependencies, NEW n,
         n = Row(id, from, to, t, value, dependencies)
  PROVE  /\ n.id = id /\ n.valid_from = from /\ n.valid_to = to /\ n.recorded_at = t
         /\ n.superseded_at = NULL /\ n.value = value /\ n.dependencies = dependencies
         /\ DOMAIN n = Fields
  BY DEF Row, Fields

\* The claim that a statement of the snapshot ends up as: an open one or a new one.
LEMMA ClaimOfCases ==
  ASSUME NEW run, NEW s
  PROVE  \/ \E p \in Restated(run) : p.id.series = s /\ ClaimOf(run, s) = p.id
         \/ /\ \A p \in Restated(run) : p.id.series # s
            /\ ClaimOf(run, s) = NewId(run, s)
<1> DEFINE restated == {p \in Restated(run) : p.id.series = s}
<1>1. CASE restated = {}
  BY <1>1 DEF ClaimOf
<1>2. CASE restated # {}
  <2>1. (CHOOSE p \in restated : TRUE) \in restated
    BY <1>2
  <2>2. ClaimOf(run, s) = (CHOOSE p \in restated : TRUE).id
    BY <1>2 DEF ClaimOf
  <2> QED BY <2>1, <2>2
<1> QED BY <1>1, <1>2

LEMMA BasisMember ==
  ASSUME NEW run, NEW s, NEW i
  PROVE  i \in Basis(run, s) <=>
           \/ \E key \in StatedBasis(run, s) : i = ClaimOf(run, Of(s.site, key))
           \/ /\ source = "epa_frs"
              /\ \E p \in Prior(run) : /\ i = p.id /\ ~run.complete /\ p.id.series.site = s.site
                                       /\ p.id.series.key \in Code
                                       /\ p.id.series \notin Stated(run)
  BY DEF Basis, UnmentionedCodes

LEMMA NewIdType ==
  ASSUME NEW run \in Runs, NEW s \in Series
  PROVE  NewId(run, s) \in Id /\ NewId(run, s).run = run.accepted_at
         /\ NewId(run, s).series = s /\ ~NewId(run, s).closure
  BY RunFields DEF NewId, Id

LEMMA BasisType ==
  ASSUME RunsInv, RowsInv, NEW run \in Runs, NEW s \in Classified(run)
  PROVE  Basis(run, s) \subseteq Id
<1> SUFFICES ASSUME NEW i \in Basis(run, s) PROVE i \in Id
  OBVIOUS
<1>1. \A p \in Prior(run) : p.id \in Id
  BY DEF Prior, RowsInv, RowInv, RowType
<1>2. source \in Source
  BY DEF RunsInv
<1>3. CASE \E key \in StatedBasis(run, s) : i = ClaimOf(run, Of(s.site, key))
  <2>1. PICK key \in StatedBasis(run, s) : i = ClaimOf(run, Of(s.site, key))
    BY <1>3
  <2>2. Of(s.site, key) \in Series
    BY <1>2, BasisStated, StatedFacts
  <2> QED BY <1>1, <2>1, <2>2, ClaimOfCases, RestatedMember, NewIdType
<1> QED BY <1>1, <1>3, BasisMember

-----------------------------------------------------------------------------
(* What an import does to the rows: it ends some and adds others. *)

\* A row as the import leaves it.
Left(run, r) == IF r \in Ended(run) THEN [r EXCEPT !.superseded_at = run.accepted_at] ELSE r

LEMMA AfterMember ==
  ASSUME NEW run, ImportSnapshot(run), NEW n
  PROVE  n \in rows' <=> \/ \E r \in rows : n = Left(run, r)
                         \/ n \in Closures(run) \/ n \in Statements(run)
  BY DEF ImportSnapshot, AfterImport, Left

LEMMA EndedOpen ==
  ASSUME RunsInv, RowsInv, NEW run, Latest(run), NEW r \in Ended(run)
  PROVE  r \in rows /\ r.superseded_at = NULL
<1>1. CASE r \in EndedDirectly(run)
  BY <1>1, ClosedMember, PriorIsOpen DEF EndedDirectly
<1> QED BY <1>1 DEF Ended

LEMMA LeftFacts ==
  ASSUME RunsInv, RowsInv, NEW run, Latest(run), NEW r \in rows
  PROVE  LET n == Left(run, r)
         IN  /\ n.id = r.id /\ n.valid_from = r.valid_from /\ n.valid_to = r.valid_to
             /\ n.recorded_at = r.recorded_at /\ n.value = r.value
             /\ n.dependencies = r.dependencies /\ DOMAIN n = Fields
             /\ r \in Ended(run) => r.superseded_at = NULL /\ n.superseded_at = run.accepted_at
             /\ r \notin Ended(run) => n = r
             /\ r.superseded_at # NULL => n = r
<1>1. DOMAIN r = Fields
  BY DEF RowsInv, RowInv, RowType
<1>2. r \in Ended(run) => r.superseded_at = NULL
  BY EndedOpen
<1>3. CASE r \in Ended(run)
  BY <1>1, <1>2, <1>3 DEF Left, Fields
<1>4. CASE r \notin Ended(run)
  BY <1>1, <1>4 DEF Left
<1> QED BY <1>2, <1>3, <1>4

LEMMA SourceOnly ==
  ASSUME source' = source
  PROVE  /\ Runs' = Runs
         /\ \A run : /\ Stated(run)' = Stated(run) /\ Classified(run)' = Classified(run)
                     /\ Speaking(run)' = Speaking(run)
         /\ \A run, x : StatedOf(run, x)' = StatedOf(run, x)
         /\ \A run, s : /\ StatedBasis(run, s)' = StatedBasis(run, s)
                        /\ ValueOf(run, s)' = ValueOf(run, s)
                        /\ Speaks(run, s)' = Speaks(run, s)
         /\ Registry' = Registry
<1>1. /\ Runs' = Runs /\ Registry' = Registry
      /\ \A run : Listed(run)' = Listed(run)
      /\ \A run, s : ValueOf(run, s)' = ValueOf(run, s)
  BY DEF Runs, Registry, Listed, ValueOf
<1>2. ASSUME NEW run, NEW x
      PROVE  StatedOf(run, x)' = StatedOf(run, x) /\ DerivedOf(run, x)' = DerivedOf(run, x)
  BY <1>1 DEF StatedOf, DerivedOf, Of, Derived
<1>3. \A run : Stated(run)' = Stated(run) /\ Classified(run)' = Classified(run)
  BY <1>1, <1>2 DEF Stated, Classified
<1>4. \A run : Speaking(run)' = Speaking(run)
  BY <1>3 DEF Speaking
<1>5. \A run, s : StatedBasis(run, s)' = StatedBasis(run, s)
  BY DEF StatedBasis
<1>6. \A run, s : Speaks(run, s)' = Speaks(run, s)
  BY <1>4 DEF Speaks
<1> QED BY <1>1, <1>2, <1>3, <1>4, <1>5, <1>6

\* Rows survive with the run that wrote them.
LEMMA LeftInv ==
  ASSUME RunsInv, RowsInv, NEW run, Latest(run), ImportSnapshot(run), NEW r \in rows,
         NEW n, n = Left(run, r)
  PROVE  RowInv(n)'
<1>0. run.accepted_at \in Nat /\ run.accepted_at \in Clock
  BY RunFields DEF Latest
<1>1. RowInv(r) /\ RowType(r) /\ r.recorded_at < run.accepted_at
  BY RowBefore DEF RowsInv, RowInv
<1>2. /\ n.id = r.id /\ n.valid_from = r.valid_from /\ n.valid_to = r.valid_to
      /\ n.recorded_at = r.recorded_at /\ n.value = r.value
      /\ n.dependencies = r.dependencies /\ DOMAIN n = Fields
      /\ r \in Ended(run) => r.superseded_at = NULL /\ n.superseded_at = run.accepted_at
      /\ r \notin Ended(run) => n = r
  BY LeftFacts
<1>4. runs' = runs \cup {run} /\ source' = source
  BY DEF ImportSnapshot
<1>5. \A a : Speaking(a)' = Speaking(a)
  BY <1>4, SourceOnly
<1>6. RowType(n)'
  BY <1>0, <1>1, <1>2 DEF RowType
<1>7. \E a \in runs' : WrittenBy(n, a)'
  BY <1>1, <1>2, <1>4, <1>5 DEF RowInv, WrittenBy
<1>8. n.superseded_at # NULL =>
        /\ n.recorded_at < n.superseded_at
        /\ \E a \in runs' : a.accepted_at = n.superseded_at
  BY <1>1, <1>2, <1>4 DEF RowInv
<1> QED BY <1>1, <1>2, <1>6, <1>7, <1>8 DEF RowInv

SeriesIn(ids) == {i.series : i \in ids}

\* A closure is the closed claim, bounded.
LEMMA ClosureFacts ==
  ASSUME RunsInv, RowsInv, NEW run, Latest(run), NEW p \in Closed(run), NEW n,
         n = ClosureOf(run, p)
  PROVE  /\ n.id = ClosureId(run, p) /\ n.id \in Id /\ n.id.series = p.id.series
         /\ n.id.run = run.accepted_at /\ n.id.closure
         /\ n.valid_from = p.valid_from /\ n.valid_to = run.as_of
         /\ n.recorded_at = run.accepted_at /\ n.superseded_at = NULL /\ n.value = p.value
         /\ DOMAIN n = Fields /\ n.dependencies \subseteq Id
         /\ p.dependencies = {} => n.dependencies = {}
         /\ SeriesIn(n.dependencies) = SeriesIn(p.dependencies)
         /\ p \in rows /\ p.superseded_at = NULL /\ p.valid_to = NULL
<1> DEFINE bounded == Bounded(run)
           Moved(d) == IF \E q \in bounded : q.id = d
                         THEN [d EXCEPT !.run = run.accepted_at, !.closure = TRUE] ELSE d
<1>1. p \in rows /\ p.superseded_at = NULL /\ p.valid_to = NULL
  BY ClosedMember, PriorIsOpen
<1>2. RowType(p) /\ run.accepted_at \in Clock
  BY <1>1, RunFields DEF RowsInv, RowInv, Latest
<1>3. /\ n.id = ClosureId(run, p) /\ n.valid_from = p.valid_from /\ n.valid_to = run.as_of
      /\ n.recorded_at = run.accepted_at /\ n.superseded_at = NULL /\ n.value = p.value
      /\ n.dependencies = ClosedDependencies(run, p, bounded) /\ DOMAIN n = Fields
  BY RowFields DEF ClosureOf
<1>4. ClosureId(run, p) = [series |-> p.id.series, run |-> run.accepted_at, closure |-> TRUE]
  BY DEF ClosureId
<1>5. p.id.series \in Series
  BY <1>2 DEF RowType, Id
<1>6. n.dependencies = {Moved(d) : d \in p.dependencies}
  BY <1>3 DEF ClosedDependencies
<1>7. ASSUME NEW d \in Id PROVE Moved(d) \in Id /\ Moved(d).series = d.series
  <2>1. /\ [d EXCEPT !.run = run.accepted_at, !.closure = TRUE] \in Id
        /\ [d EXCEPT !.run = run.accepted_at, !.closure = TRUE].series = d.series
    BY <1>2, <1>7 DEF Id
  <2> QED BY <1>7, <2>1
<1>8. p.dependencies \subseteq Id
  BY <1>2 DEF RowType
<1> HIDE DEF Moved, bounded
<1>9. n.dependencies \subseteq Id /\ (p.dependencies = {} => n.dependencies = {})
  BY <1>6, <1>7, <1>8
<1>10. SeriesIn(n.dependencies) = SeriesIn(p.dependencies)
  BY <1>6, <1>7, <1>8 DEF SeriesIn
<1>11. n.id \in Id /\ n.id.series = p.id.series /\ n.id.run = run.accepted_at /\ n.id.closure
  BY <1>2, <1>3, <1>4, <1>5 DEF Id
<1> QED BY <1>1, <1>3, <1>4, <1>9, <1>10, <1>11

LEMMA StatementFacts ==
  ASSUME RunsInv, RowsInv, NEW run, Latest(run), NEW s \in Written(run), NEW n,
         n = StatementOf(run, s)
  PROVE  /\ n.id = NewId(run, s) /\ n.id \in Id /\ n.id.series = s /\ n.id.run = run.accepted_at
         /\ ~n.id.closure
         /\ n.valid_from = run.as_of /\ n.valid_to = NULL
         /\ n.recorded_at = run.accepted_at /\ n.superseded_at = NULL /\ n.value = ValueOf(run, s)
         /\ DOMAIN n = Fields /\ n.dependencies \subseteq Id
         /\ s.derived => n.dependencies = Basis(run, s)
         /\ ~s.derived => n.dependencies = {}
         /\ s \in Speaking(run)
<1>1. /\ n.id = NewId(run, s) /\ n.valid_from = run.as_of /\ n.valid_to = NULL
      /\ n.recorded_at = run.accepted_at /\ n.superseded_at = NULL /\ n.value = ValueOf(run, s)
      /\ n.dependencies = (IF s.derived THEN Basis(run, s) ELSE {})
      /\ DOMAIN n = Fields
  BY RowFields DEF StatementOf
<1>2. s \in Speaking(run) /\ run \in Runs /\ source \in Source
  BY WrittenMember DEF Latest, RunsInv
<1>3. s \in Series /\ (s.derived => s \in Classified(run))
  BY <1>2, SpeakingFacts
<1>4. s.derived => Basis(run, s) \subseteq Id
  BY <1>2, <1>3, BasisType
<1>5. NewId(run, s) \in Id /\ NewId(run, s).run = run.accepted_at
      /\ NewId(run, s).series = s /\ ~NewId(run, s).closure
  BY <1>2, <1>3, NewIdType
<1> QED BY <1>1, <1>2, <1>3, <1>4, <1>5

LEMMA AddedInv ==
  ASSUME RunsInv, RowsInv, NEW run, Latest(run), ImportSnapshot(run),
         NEW n \in Closures(run) \cup Statements(run)
  PROVE  RowInv(n)'
<1>0. /\ run.as_of \in Date /\ run.as_of \in Nat /\ run.accepted_at \in Clock
      /\ run.accepted_at \in Nat
  BY RunFields DEF Latest
<1>1. runs' = runs \cup {run} /\ source' = source
  BY DEF ImportSnapshot
<1>2. \A a : Speaking(a)' = Speaking(a)
  BY <1>1, SourceOnly
<1>3. CASE n \in Closures(run)
  <2>1. PICK p \in Closed(run) :
          /\ p.valid_from < run.as_of
          /\ n = ClosureOf(run, p)
    BY <1>3, ClosureMember
  <2>2. /\ n.id \in Id /\ n.id.series = p.id.series /\ n.id.run = run.accepted_at /\ n.id.closure
        /\ n.valid_from = p.valid_from /\ n.valid_to = run.as_of
        /\ n.recorded_at = run.accepted_at /\ n.superseded_at = NULL /\ n.value = p.value
        /\ DOMAIN n = Fields /\ n.dependencies \subseteq Id
        /\ p.dependencies = {} => n.dependencies = {}
        /\ p \in rows
    BY <2>1, ClosureFacts
  <2>3. RowInv(p) /\ RowType(p)
    BY <2>2 DEF RowsInv, RowInv
  <2>4. RowType(n)'
    BY <1>0, <2>2, <2>3 DEF RowType
  <2>5. WrittenBy(n, run)'
    BY <2>1, <2>2 DEF WrittenBy
  <2>6. ~n.id.series.derived => n.dependencies = {}
    BY <2>2, <2>3 DEF RowInv
  <2> QED BY <1>1, <2>2, <2>4, <2>5, <2>6 DEF RowInv
<1>4. CASE n \in Statements(run)
  <2>1. PICK s \in Written(run) :
          n = StatementOf(run, s)
    BY <1>4, StatementMember
  <2>2. /\ n.id \in Id /\ n.id.series = s /\ n.id.run = run.accepted_at /\ ~n.id.closure
        /\ n.valid_from = run.as_of /\ n.valid_to = NULL
        /\ n.recorded_at = run.accepted_at /\ n.superseded_at = NULL
        /\ DOMAIN n = Fields /\ n.dependencies \subseteq Id
        /\ ~s.derived => n.dependencies = {}
        /\ s \in Speaking(run)
    BY <2>1, StatementFacts
  <2>3. RowType(n)'
    BY <1>0, <2>2 DEF RowType
  <2>4. WrittenBy(n, run)'
    BY <1>2, <2>2 DEF WrittenBy
  <2> QED BY <1>1, <2>2, <2>3, <2>4 DEF RowInv
<1> QED BY <1>3, <1>4

LEMMA RowsStep ==
  ASSUME RunsInv, RowsInv, NEW run \in Submittable, ImportSnapshot(run)
  PROVE  RowsInv'
<1>1. Latest(run)
  BY NewRun DEF ImportSnapshot
<1>2. ASSUME NEW n \in rows' PROVE RowInv(n)'
  <2>1. CASE \E r \in rows : n = Left(run, r)
    <3>1. PICK r \in rows : n = Left(run, r)
      BY <2>1
    <3> QED BY <1>1, <3>1, LeftInv
  <2>2. CASE n \in Closures(run) \cup Statements(run)
    BY <1>1, <2>2, AddedInv
  <2> QED BY <2>1, <2>2, AfterMember
<1>3. \A p, q \in Prior(run) : p.id.series = q.id.series => p = q
  BY DEF ImportSnapshot, Importable
<1>4. ASSUME NEW n \in Closures(run) \cup Statements(run),
             NEW m \in Closures(run) \cup Statements(run),
             n.id = m.id
      PROVE  n = m
  <2>1. CASE n \in Closures(run) /\ m \in Closures(run)
    <3>1. PICK p \in Closed(run) :
            n = ClosureOf(run, p)
      BY <2>1, ClosureMember
    <3>2. PICK q \in Closed(run) :
            m = ClosureOf(run, q)
      BY <2>1, ClosureMember
    <3>3. n.id.series = p.id.series
      BY <1>1, <3>1, ClosureFacts
    <3>4. m.id.series = q.id.series
      BY <1>1, <3>2, ClosureFacts
    <3>5. p = q
      BY <1>3, <1>4, <3>3, <3>4, ClosedMember
    <3> QED BY <3>1, <3>2, <3>5
  <2>2. \A o \in Closures(run) : o.id.closure
    BY <1>1, ClosureMember, ClosureFacts
  <2>3. \A o \in Statements(run) : ~o.id.closure
    BY <1>1, StatementMember, StatementFacts
  <2>4. CASE n \in Statements(run) /\ m \in Statements(run)
    <3>1. PICK s \in Written(run) :
            n = StatementOf(run, s)
      BY <2>4, StatementMember
    <3>2. PICK w \in Written(run) :
            m = StatementOf(run, w)
      BY <2>4, StatementMember
    <3>3. n.id.series = s
      BY <1>1, <3>1, StatementFacts
    <3>4. m.id.series = w
      BY <1>1, <3>2, StatementFacts
    <3> QED BY <1>4, <3>1, <3>2, <3>3, <3>4
  <2> QED BY <1>4, <2>1, <2>2, <2>3, <2>4
<1>5. \A n \in Closures(run) \cup Statements(run) : n.id.run = run.accepted_at
  <2>1. \A n \in Closures(run) : n.id.run = run.accepted_at
    BY <1>1, ClosureMember, ClosureFacts
  <2>2. \A n \in Statements(run) : n.id.run = run.accepted_at
    BY <1>1, StatementMember, StatementFacts
  <2> QED BY <2>1, <2>2
<1>6. \A r \in rows : Left(run, r).id = r.id /\ r.id.run # run.accepted_at
  BY <1>1, LeftFacts, RowBefore
<1>7. \A r, w \in rows : r.id = w.id => r = w
  BY DEF RowsInv
<1>8. ASSUME NEW n \in rows', NEW m \in rows', n.id = m.id PROVE n = m
  <2>1. CASE n \in Closures(run) \cup Statements(run) /\ m \in Closures(run) \cup Statements(run)
    BY <1>4, <1>8, <2>1
  <2>2. CASE (\E r \in rows : n = Left(run, r)) /\ (\E w \in rows : m = Left(run, w))
    BY <1>6, <1>7, <1>8, <2>2
  <2>3. CASE (\E r \in rows : n = Left(run, r)) /\ m \in Closures(run) \cup Statements(run)
    BY <1>5, <1>6, <1>8, <2>3
  <2>4. CASE (\E r \in rows : m = Left(run, r)) /\ n \in Closures(run) \cup Statements(run)
    BY <1>5, <1>6, <1>8, <2>4
  <2> QED BY <2>1, <2>2, <2>3, <2>4, AfterMember
<1> QED BY <1>2, <1>8 DEF RowsInv

-----------------------------------------------------------------------------
(* The views, one date and one knowledge time at a time. *)

LEMMA LastWordMember ==
  ASSUME NEW s, NEW known, NEW a
  PROVE  a \in LastWord(s, known) <=>
           /\ a \in known /\ Speaks(a, s)
           /\ \A b \in known : Speaks(b, s) => b.accepted_at <= a.accepted_at
  BY DEF LastWord

ShowsWhatIsSaid(d, k) ==
  \A s : (\E r \in View(d, k) : r.id.series = s)
           <=> \E a \in LastWord(s, Known(d, k)) : s \in Speaking(a)
ShowsItsValue(d, k) ==
  \A r \in View(d, k) : \A a \in LastWord(r.id.series, Known(d, k)) :
    r.value = ValueOf(a, r.id.series)
ShowsItOnce(d, k) ==
  \A r, w \in View(d, k) : r.id.series = w.id.series => r = w
Matches(d, k) == ShowsWhatIsSaid(d, k) /\ ShowsItsValue(d, k) /\ ShowsItOnce(d, k)

LEMMA ViewMatchesPointwise ==
  ViewMatchesRuns <=> (DatesInOrder => \A d \in Date, k \in Clock : Matches(d, k))
<1> DEFINE Shown(d, k) == {r.id.series : r \in View(d, k)}
           Last(d, k) == {s \in UNION {Speaking(a) : a \in Known(d, k)} :
                            \E a \in LastWord(s, Known(d, k)) : s \in Speaking(a)}
<1>1. ViewMatchesRuns <=>
        (DatesInOrder =>
           \A d \in Date, k \in Clock :
             Shown(d, k) = Last(d, k) /\ ShowsItsValue(d, k) /\ ShowsItOnce(d, k))
  BY DEF ViewMatchesRuns, ShowsItsValue, ShowsItOnce
<1>2. ASSUME NEW d \in Date, NEW k \in Clock
      PROVE  Shown(d, k) = Last(d, k) <=> ShowsWhatIsSaid(d, k)
  <2>1. ASSUME NEW s
        PROVE  s \in Last(d, k) <=> \E a \in LastWord(s, Known(d, k)) : s \in Speaking(a)
    BY LastWordMember
  <2>2. ASSUME NEW s PROVE s \in Shown(d, k) <=> \E r \in View(d, k) : r.id.series = s
    OBVIOUS
  <2> HIDE DEF Shown, Last
  <2>3. Shown(d, k) = Last(d, k) <=> \A s : s \in Shown(d, k) <=> s \in Last(d, k)
    OBVIOUS
  <2> QED BY <2>1, <2>2, <2>3 DEF ShowsWhatIsSaid
<1> HIDE DEF Shown, Last
<1> QED BY <1>1, <1>2 DEF Matches

LEMMA ViewMember ==
  ASSUME NEW d, NEW k, NEW r
  PROVE  r \in View(d, k) <=>
           /\ r \in rows
           /\ r.recorded_at <= k /\ (r.superseded_at # NULL => k < r.superseded_at)
           /\ r.valid_from <= d /\ (r.valid_to # NULL => d < r.valid_to)
  BY DEF View, Visible

\* Two rows of a series never hold on the same date to the same reader.
LEMMA Tiles ==
  ASSUME RunsInv, RowsInv, ViewMatchesRuns, DatesInOrder,
         NEW r \in rows, NEW w \in rows, r.id.series = w.id.series,
         r.superseded_at = NULL \/ (w.recorded_at < r.superseded_at),
         w.superseded_at = NULL \/ (r.recorded_at < w.superseded_at),
         r.valid_to = NULL \/ w.valid_from < r.valid_to,
         w.valid_to = NULL \/ r.valid_from < w.valid_to
  PROVE  r = w
<1>1. PICK d \in Date, k \in Clock : r \in View(d, k) /\ w \in View(d, k)
  BY OpenIsShown
<1> QED BY <1>1, ViewMatchesPointwise DEF Matches, ShowsItOnce

\* The open claims of a source when a run was accepted are one for each series.
LEMMA PriorUnique ==
  ASSUME RunsInv, RowsInv, ViewMatchesRuns, DatesInOrder, NEW run \in Runs,
         NEW p \in Prior(run), NEW q \in Prior(run), p.id.series = q.id.series
  PROVE  p = q
<1>1. run.accepted_at \in Nat
  BY RunFields
<1>2. /\ p \in rows /\ q \in rows /\ p.valid_to = NULL /\ q.valid_to = NULL
      /\ p.recorded_at < run.accepted_at /\ q.recorded_at < run.accepted_at
      /\ p.superseded_at # NULL => p.superseded_at >= run.accepted_at
      /\ q.superseded_at # NULL => q.superseded_at >= run.accepted_at
  BY DEF Prior
<1>3. /\ p.recorded_at \in Nat /\ q.recorded_at \in Nat
      /\ p.superseded_at # NULL => p.superseded_at \in Nat
      /\ q.superseded_at # NULL => q.superseded_at \in Nat
  BY <1>2, TimeAssumption DEF RowsInv, RowInv, RowType
<1> QED BY <1>1, <1>2, <1>3, Tiles

-----------------------------------------------------------------------------
(* The step of the views. *)

\* A reachable state and a new run whose date follows.
Before(run) ==
  /\ RunsInv /\ RowsInv /\ ViewMatchesRuns /\ DatesInOrder
  /\ Latest(run) /\ Dated(run)

\* The dates of rows to a run whose date follows.
LEMMA RowDates ==
  ASSUME NEW run, Before(run), NEW r \in rows
  PROVE  /\ r.valid_from \in Nat /\ r.valid_from \in Date /\ r.valid_from <= run.as_of
         /\ r.valid_to # NULL => /\ r.valid_to \in Nat /\ r.valid_from < r.valid_to
                                 /\ r.valid_to <= run.as_of
         /\ run.as_of \in Nat
<1>1. RowInv(r) /\ RowType(r)
  BY DEF Before, RowsInv, RowInv
<1>2. PICK a \in runs : WrittenBy(r, a)
  BY <1>1 DEF RowInv
<1>3. a.as_of <= run.as_of /\ a.as_of \in Nat /\ run.as_of \in Nat
  BY RunFields DEF Before, RunsInv, Dated, Latest
<1>4. r.valid_from \in Nat /\ r.valid_from \in Date /\ (r.valid_to # NULL => r.valid_to \in Nat)
  BY <1>1, TimeAssumption DEF RowType
<1>5. CASE r.id.closure
  BY <1>2, <1>3, <1>4, <1>5 DEF WrittenBy
<1>6. CASE ~r.id.closure
  BY <1>2, <1>3, <1>4, <1>6 DEF WrittenBy
<1> QED BY <1>3, <1>4, <1>5, <1>6

\* What an import supersedes is what it closes and nothing else.
LEMMA EndedIsClosed ==
  ASSUME NEW run, Before(run), NEW r
  PROVE  r \in Ended(run) <=> r \in Closed(run)
<1>0. RunsInv /\ RowsInv /\ ViewMatchesRuns /\ DatesInOrder /\ Latest(run)
  BY DEF Before
<1>1. r \in Ended(run) <=>
        \/ r \in EndedDirectly(run)
        \/ /\ r \in rows /\ r.superseded_at = NULL
           /\ \E n \in Closures(run) \cup Statements(run) : SameSlot(n, r)
  BY DEF Ended
<1>2. ASSUME r \in Closed(run) PROVE r \in Ended(run)
  <2>1. CASE ClosesInterval(run, r)
    <3>1. ClosureOf(run, r) \in Closures(run)
      BY <1>2, <2>1, ClosureMember DEF ClosesInterval
    <3>2. PICK n : n = ClosureOf(run, r)
      OBVIOUS
    <3>3. n.id.series = r.id.series /\ n.valid_from = r.valid_from /\ r \in rows
          /\ r.superseded_at = NULL
      BY <1>0, <1>2, <3>2, ClosureFacts
    <3> QED BY <1>1, <3>1, <3>2, <3>3 DEF SameSlot
  <2>2. CASE ~ClosesInterval(run, r)
    BY <1>1, <1>2, <2>2 DEF EndedDirectly
  <2> QED BY <2>1, <2>2
<1>3. ASSUME r \in rows, r.superseded_at = NULL, NEW n \in Closures(run), SameSlot(n, r)
      PROVE  r \in Closed(run)
  <2>1. PICK p \in Closed(run) : n = ClosureOf(run, p)
    BY ClosureMember
  <2>2. /\ n.id.series = p.id.series /\ n.valid_from = p.valid_from
        /\ p \in rows /\ p.superseded_at = NULL /\ p.valid_to = NULL
    BY <1>0, <2>1, ClosureFacts
  <2>3. r.id.series = p.id.series /\ r.valid_from = p.valid_from
    BY <1>3, <2>2 DEF SameSlot
  <2>4. r.valid_to = NULL \/ p.valid_from < r.valid_to
    BY <1>3, <2>3, RowDates
  <2>5. r = p
    BY <1>0, <1>3, <2>2, <2>3, <2>4, Tiles
  <2> QED BY <2>5
<1>4. ASSUME r \in rows, r.superseded_at = NULL, NEW n \in Statements(run), SameSlot(n, r)
      PROVE  r \in Closed(run)
  <2>1. PICK s \in Written(run) : n = StatementOf(run, s)
    BY StatementMember
  <2>2. n.id.series = s /\ n.valid_from = run.as_of
    BY <1>0, <2>1, StatementFacts
  <2>3. r.id.series \in Written(run) /\ r.valid_from = run.as_of
    BY <1>4, <2>2 DEF SameSlot
  <2>4. r.valid_to = NULL
    BY <1>4, <2>3, RowDates
  <2> QED BY <1>0, <1>4, <2>3, <2>4, PriorIsOpen, ClosedMember
<1> QED BY <1>1, <1>2, <1>3, <1>4 DEF EndedDirectly

\* An earlier reader sees what he saw.
LEMMA EarlierReader ==
  ASSUME RunsInv, RowsInv, NEW run, Latest(run), ImportSnapshot(run),
         NEW d \in Date, NEW k \in Clock, k < run.accepted_at, NEW n
  PROVE  n \in View(d, k)' <=> \E r \in View(d, k) : n = Left(run, r)
<1>1. run.accepted_at \in Nat /\ k \in Nat /\ run.accepted_at # NULL
  BY RunFields, TimeAssumption DEF Latest
<1>2. n \in View(d, k)' <=>
           /\ n \in rows'
           /\ n.recorded_at <= k /\ (n.superseded_at # NULL => k < n.superseded_at)
           /\ n.valid_from <= d /\ (n.valid_to # NULL => d < n.valid_to)
  BY DEF View, Visible
<1>3. ASSUME n \in Closures(run) \cup Statements(run) PROVE ~(n.recorded_at <= k)
  <2>1. n.recorded_at = run.accepted_at
    BY <1>3, ClosureMember, ClosureFacts, StatementMember, StatementFacts
  <2> QED BY <1>1, <2>1
<1>4. ASSUME NEW r \in rows, n = Left(run, r)
      PROVE  n \in View(d, k)' <=> r \in View(d, k)
  <2>1. /\ n.valid_from = r.valid_from /\ n.valid_to = r.valid_to /\ n.recorded_at = r.recorded_at
        /\ r \in Ended(run) => r.superseded_at = NULL /\ n.superseded_at = run.accepted_at
        /\ r \notin Ended(run) => n = r
    BY <1>4, LeftFacts
  <2>2. n \in rows'
    BY <1>4, AfterMember
  <2>3. CASE r \in Ended(run)
    BY <1>1, <1>2, <2>1, <2>2, <2>3, ViewMember
  <2>4. CASE r \notin Ended(run)
    BY <1>2, <2>1, <2>2, <2>4, <1>4, ViewMember
  <2> QED BY <2>3, <2>4
<1>5. View(d, k) \subseteq rows
  BY ViewMember
<1> QED BY <1>2, <1>3, <1>4, <1>5, AfterMember

LEMMA ViewBeforeImport ==
  ASSUME NEW run, Before(run), ImportSnapshot(run), NEW d \in Date, NEW k \in Clock,
         k < run.accepted_at, NEW n
  PROVE  n \in View(d, k)' <=> \E r \in View(d, k) : n = Left(run, r)
  BY EarlierReader DEF Before

LEMMA CurrentAfter ==
  ASSUME NEW run, Before(run), ImportSnapshot(run), NEW d \in Date, NEW k \in Clock,
         run.accepted_at <= k, NEW n
  PROVE  /\ n \in View(d, k) <=>
              /\ n \in rows /\ n.superseded_at = NULL
              /\ n.valid_from <= d /\ (n.valid_to # NULL => d < n.valid_to)
         /\ n \in View(d, k)' <=>
              /\ \/ n \in rows /\ n.superseded_at = NULL /\ n \notin Closed(run)
                 \/ n \in Closures(run) \/ n \in Statements(run)
              /\ n.valid_from <= d /\ (n.valid_to # NULL => d < n.valid_to)
<1>0. RunsInv /\ RowsInv /\ Latest(run)
  BY DEF Before
<1>1. run.accepted_at \in Nat /\ k \in Nat /\ run.accepted_at # NULL
  BY <1>0, RunFields, TimeAssumption DEF Latest
<1>2. n \in View(d, k)' <=>
           /\ n \in rows'
           /\ n.recorded_at <= k /\ (n.superseded_at # NULL => k < n.superseded_at)
           /\ n.valid_from <= d /\ (n.valid_to # NULL => d < n.valid_to)
  BY DEF View, Visible
<1>3. ASSUME n \in rows
      PROVE  /\ n.recorded_at <= k
             /\ (n.superseded_at # NULL => k < n.superseded_at) <=> n.superseded_at = NULL
  BY <1>0, <1>1, <1>3, RowBefore
<1>4. ASSUME n \in Closures(run) \cup Statements(run)
      PROVE  n.recorded_at <= k /\ n.superseded_at = NULL
  <2>1. n.recorded_at = run.accepted_at /\ n.superseded_at = NULL
    BY <1>0, <1>4, ClosureMember, ClosureFacts, StatementMember, StatementFacts
  <2> QED BY <1>1, <2>1
<1>5. ASSUME NEW r \in rows, n = Left(run, r), n \in View(d, k)'
      PROVE  n = r /\ n \in rows /\ n.superseded_at = NULL /\ n \notin Closed(run)
  <2>1. /\ r \in Ended(run) => n.superseded_at = run.accepted_at
        /\ r \notin Ended(run) => n = r
    BY <1>0, <1>5, LeftFacts
  <2>2. r \notin Ended(run)
    BY <1>1, <1>2, <1>5, <2>1
  <2> QED BY <1>2, <1>3, <1>5, <2>1, <2>2, EndedIsClosed
<1>6. ASSUME n \in rows, n.superseded_at = NULL, n \notin Closed(run)
      PROVE  n \in rows' /\ n.recorded_at <= k
  <2>1. Left(run, n) = n
    BY <1>6, EndedIsClosed DEF Left
  <2> QED BY <1>3, <1>6, <2>1, AfterMember
<1>7. n \in Closures(run) \/ n \in Statements(run) => n \in rows'
  BY AfterMember
<1>8. n \in View(d, k) <=>
              /\ n \in rows /\ n.superseded_at = NULL
              /\ n.valid_from <= d /\ (n.valid_to # NULL => d < n.valid_to)
  BY <1>3, ViewMember
<1>9. n \in View(d, k)' =>
              \/ n \in rows /\ n.superseded_at = NULL /\ n \notin Closed(run)
              \/ n \in Closures(run) \/ n \in Statements(run)
  BY <1>2, <1>5, AfterMember
<1> QED BY <1>2, <1>4, <1>6, <1>7, <1>8, <1>9

\* On an earlier date, the closures stand for what they close.
LEMMA ViewEarlier ==
  ASSUME NEW run, Before(run), ImportSnapshot(run), NEW d \in Date, NEW k \in Clock,
         run.accepted_at <= k, d < run.as_of, NEW n
  PROVE  n \in View(d, k)' <=>
           \/ n \in View(d, k) /\ n \notin Closed(run)
           \/ \E p \in View(d, k) : p \in Closed(run) /\ n = ClosureOf(run, p)
<1>0. RunsInv /\ RowsInv /\ Latest(run)
  BY DEF Before
<1>1. run.as_of \in Nat /\ d \in Nat
  BY <1>0, RunFields, TimeAssumption DEF Latest
<1>2. n \in Statements(run) => ~(n.valid_from <= d)
  <2>1. n \in Statements(run) => n.valid_from = run.as_of
    BY <1>0, StatementMember, StatementFacts
  <2> QED BY <1>1, <2>1
<1>3. ASSUME NEW p \in Closed(run), n = ClosureOf(run, p)
      PROVE  /\ n.valid_from = p.valid_from /\ n.valid_to = run.as_of /\ p \in rows
             /\ p.superseded_at = NULL /\ p.valid_to = NULL
  BY <1>0, <1>3, ClosureFacts
<1>4. ASSUME NEW p \in Closed(run), n = ClosureOf(run, p), p \in View(d, k)
      PROVE  n \in View(d, k)'
  <2>1. p.valid_from <= d /\ p.valid_from \in Nat
    BY <1>3, <1>4, ViewMember, RowDates
  <2>2. p.valid_from < run.as_of
    BY <1>1, <2>1
  <2>3. n \in Closures(run)
    BY <1>4, <2>2, ClosureMember
  <2> QED BY <1>3, <1>4, <2>1, <2>3, CurrentAfter
<1>5. ASSUME n \in Closures(run), n \in View(d, k)'
      PROVE  \E p \in View(d, k) : p \in Closed(run) /\ n = ClosureOf(run, p)
  <2>1. PICK p \in Closed(run) : n = ClosureOf(run, p)
    BY <1>5, ClosureMember
  <2>2. p \in rows /\ p.superseded_at = NULL /\ p.valid_to = NULL /\ p.valid_from <= d
    BY <1>3, <1>5, <2>1, CurrentAfter
  <2>3. p \in View(d, k)
    BY <2>2, CurrentAfter
  <2> QED BY <2>1, <2>3
<1> QED BY <1>2, <1>4, <1>5, CurrentAfter

\* From its date on, the view is what stays open and what is stated.
LEMMA ViewSince ==
  ASSUME NEW run, Before(run), ImportSnapshot(run), NEW d \in Date, NEW k \in Clock,
         run.accepted_at <= k, run.as_of <= d, NEW n
  PROVE  /\ n \in View(d, k) <=> n \in Prior(run)
         /\ n \in View(d, k)' <=> \/ n \in Prior(run) /\ n \notin Closed(run)
                                  \/ n \in Statements(run)
<1>0. RunsInv /\ RowsInv /\ Latest(run)
  BY DEF Before
<1>1. run.as_of \in Nat /\ d \in Nat /\ NULL \notin Nat
  BY <1>0, RunFields, TimeAssumption DEF Latest
<1>2. ASSUME n \in rows
      PROVE  n.valid_from <= d /\ ((n.valid_to # NULL => d < n.valid_to) <=> n.valid_to = NULL)
  <2>1. /\ n.valid_from \in Nat /\ n.valid_from <= run.as_of
        /\ n.valid_to # NULL => n.valid_to \in Nat /\ n.valid_to <= run.as_of
    BY <1>2, RowDates
  <2> QED BY <1>1, <2>1
<1>3. n \in Closures(run) => n.valid_to # NULL /\ ~(d < n.valid_to)
  <2>1. n \in Closures(run) => n.valid_to = run.as_of
    BY <1>0, ClosureMember, ClosureFacts
  <2> QED BY <1>1, <2>1
<1>4. n \in Statements(run) => n.valid_from <= d /\ n.valid_to = NULL
  <2>1. n \in Statements(run) => n.valid_from = run.as_of /\ n.valid_to = NULL
    BY <1>0, StatementMember, StatementFacts
  <2> QED BY <1>1, <2>1
<1>5. n \in Prior(run) <=> n \in rows /\ n.superseded_at = NULL /\ n.valid_to = NULL
  BY <1>0, PriorIsOpen
<1> QED BY <1>2, <1>3, <1>4, <1>5, CurrentAfter

LEMMA KnownSame ==
  ASSUME NEW run, Before(run), ImportSnapshot(run), NEW d \in Date, NEW k \in Clock,
         k < run.accepted_at \/ d < run.as_of
  PROVE  /\ Known(d, k)' = Known(d, k)
         /\ \A s : LastWord(s, Known(d, k))' = LastWord(s, Known(d, k))
<1>0. runs' = runs \cup {run} /\ source' = source
  BY DEF ImportSnapshot
<1>1. /\ run.accepted_at \in Nat /\ run.as_of \in Nat /\ k \in Nat /\ d \in Nat
  BY RunFields, TimeAssumption DEF Before, Latest
<1>2. ~(run.accepted_at <= k /\ run.as_of <= d)
  BY <1>1
<1>3. Known(d, k)' = Known(d, k)
  BY <1>0, <1>2 DEF Known
<1>4. \A a, s : Speaks(a, s)' = Speaks(a, s)
  BY <1>0, SourceOnly
<1> QED BY <1>3, <1>4 DEF LastWord

\* The latest run has the last word where it speaks.
LEMMA KnownMore ==
  ASSUME NEW run, Before(run), ImportSnapshot(run), NEW d \in Date, NEW k \in Clock,
         run.accepted_at <= k, run.as_of <= d, NEW s, NEW a
  PROVE  a \in LastWord(s, Known(d, k))' <=>
           IF Speaks(run, s) THEN a = run ELSE a \in LastWord(s, Known(d, k))
<1>0. runs' = runs \cup {run} /\ source' = source
  BY DEF ImportSnapshot
<1>1. /\ run.accepted_at \in Nat /\ run.as_of \in Nat /\ k \in Nat /\ d \in Nat
      /\ run \in Runs /\ runs \subseteq Runs
  BY RunFields, TimeAssumption DEF Before, Latest, RunsInv
<1>2. \A b \in runs : /\ b.accepted_at \in Nat /\ b.as_of \in Nat
                      /\ b.accepted_at < run.accepted_at /\ b.as_of <= run.as_of
  BY <1>1, RunFields DEF Before, Latest, Dated
<1>3. \A b \in runs : b.accepted_at <= k /\ b.as_of <= d
  BY <1>1, <1>2
<1>4. Known(d, k) = runs
  BY <1>3 DEF Known
<1>5. Known(d, k)' = runs \cup {run}
  BY <1>0, <1>1, <1>3 DEF Known
<1>6. \A b : Speaks(b, s)' = Speaks(b, s)
  BY <1>0, SourceOnly
<1>7. a \in LastWord(s, Known(d, k))' <=>
           /\ a \in runs \cup {run} /\ Speaks(a, s)
           /\ \A b \in runs \cup {run} : Speaks(b, s) => b.accepted_at <= a.accepted_at
  BY <1>5, <1>6 DEF LastWord
<1>8. a \in LastWord(s, Known(d, k)) <=>
           /\ a \in runs /\ Speaks(a, s)
           /\ \A b \in runs : Speaks(b, s) => b.accepted_at <= a.accepted_at
  BY <1>4, LastWordMember
<1>9. \A b \in runs : b.accepted_at <= run.accepted_at /\ ~(run.accepted_at <= b.accepted_at)
  BY <1>1, <1>2
<1>10. run.accepted_at <= run.accepted_at
  BY <1>1
<1>11. CASE Speaks(run, s)
  BY <1>7, <1>9, <1>10, <1>11
<1>12. CASE ~Speaks(run, s)
  BY <1>7, <1>8, <1>12
<1> QED BY <1>11, <1>12

LEMMA BeforeMatches ==
  ASSUME NEW run, Before(run), NEW d \in Date, NEW k \in Clock
  PROVE  ShowsWhatIsSaid(d, k) /\ ShowsItsValue(d, k) /\ ShowsItOnce(d, k)
  BY ViewMatchesPointwise DEF Before, Matches

LEMMA MatchesEarlierReader ==
  ASSUME NEW run, Before(run), ImportSnapshot(run), NEW d \in Date, NEW k \in Clock,
         k < run.accepted_at
  PROVE  Matches(d, k)'
<1>0. RunsInv /\ RowsInv /\ Latest(run) /\ source' = source
  BY DEF Before, ImportSnapshot
<1>1. ShowsWhatIsSaid(d, k) /\ ShowsItsValue(d, k) /\ ShowsItOnce(d, k)
  BY BeforeMatches
<1>2. \A n : n \in View(d, k)' <=> \E r \in View(d, k) : n = Left(run, r)
  BY ViewBeforeImport
<1>3. \A r \in View(d, k) : /\ Left(run, r).id = r.id /\ Left(run, r).value = r.value
  BY <1>0, LeftFacts, ViewMember
<1>4. \A s : LastWord(s, Known(d, k))' = LastWord(s, Known(d, k))
  BY KnownSame
<1>5. \A a : Speaking(a)' = Speaking(a)
  BY <1>0, SourceOnly
<1>6. \A a, s : ValueOf(a, s)' = ValueOf(a, s)
  BY <1>0, SourceOnly
<1>7. ShowsWhatIsSaid(d, k)'
  BY <1>1, <1>2, <1>3, <1>4, <1>5 DEF ShowsWhatIsSaid
<1>8. ShowsItsValue(d, k)'
  BY <1>1, <1>2, <1>3, <1>4, <1>6 DEF ShowsItsValue
<1>9. ShowsItOnce(d, k)'
  BY <1>1, <1>2, <1>3 DEF ShowsItOnce
<1> QED BY <1>7, <1>8, <1>9 DEF Matches

LEMMA MatchesEarlierDate ==
  ASSUME NEW run, Before(run), ImportSnapshot(run), NEW d \in Date, NEW k \in Clock,
         run.accepted_at <= k, d < run.as_of
  PROVE  Matches(d, k)'
<1>0. RunsInv /\ RowsInv /\ Latest(run) /\ source' = source
  BY DEF Before, ImportSnapshot
<1>1. ShowsWhatIsSaid(d, k) /\ ShowsItsValue(d, k) /\ ShowsItOnce(d, k)
  BY BeforeMatches
<1>2. \A n : n \in View(d, k)' <=>
               \/ n \in View(d, k) /\ n \notin Closed(run)
               \/ \E p \in View(d, k) : p \in Closed(run) /\ n = ClosureOf(run, p)
  BY ViewEarlier
<1>3. ASSUME NEW p \in Closed(run)
      PROVE  ClosureOf(run, p).id.series = p.id.series /\ ClosureOf(run, p).value = p.value
  <2>1. PICK n : n = ClosureOf(run, p)
    OBVIOUS
  <2> QED BY <1>0, <2>1, ClosureFacts
<1>4. \A s : LastWord(s, Known(d, k))' = LastWord(s, Known(d, k))
  BY KnownSame
<1>5. \A a : Speaking(a)' = Speaking(a)
  BY <1>0, SourceOnly
<1>6. \A a, s : ValueOf(a, s)' = ValueOf(a, s)
  BY <1>0, SourceOnly
<1>7. \A s : (\E r \in View(d, k)' : r.id.series = s) <=> (\E r \in View(d, k) : r.id.series = s)
  BY <1>2, <1>3
<1>8. ShowsWhatIsSaid(d, k)'
  BY <1>1, <1>4, <1>5, <1>7 DEF ShowsWhatIsSaid
<1>9. ShowsItsValue(d, k)'
  BY <1>1, <1>2, <1>3, <1>4, <1>6 DEF ShowsItsValue
<1>10. ShowsItOnce(d, k)'
  <2>1. \A n \in View(d, k)' : \E r \in View(d, k) :
          /\ r.id.series = n.id.series
          /\ n = IF r \in Closed(run) THEN ClosureOf(run, r) ELSE r
    BY <1>2, <1>3
  <2> QED BY <1>1, <2>1 DEF ShowsItOnce
<1> QED BY <1>8, <1>9, <1>10 DEF Matches

\* The open claims and the statements of a run: of each series it speaks of one, with its value.
LEMMA KeptOrWritten ==
  ASSUME NEW run, Before(run), NEW s \in Speaking(run)
  PROVE  s \in Written(run) \/ \E p \in Kept(run) : p.id.series = s
  BY WrittenMember

LEMMA OpenStaysKept ==
  ASSUME NEW run, Before(run), NEW p \in Prior(run), p \notin Closed(run),
         p.id.series \in Speaking(run)
  PROVE  p \in Kept(run)
<1>1. p.id.series \notin Written(run)
  BY ClosedMember
<1>2. PICK q \in Kept(run) : q.id.series = p.id.series
  BY <1>1, KeptOrWritten
<1>3. q \in Prior(run)
  BY KeptFacts
<1>4. p = q
  BY <1>2, <1>3, PriorUnique DEF Before, Latest
<1> QED BY <1>4

LEMMA MatchesSince ==
  ASSUME NEW run, Before(run), ImportSnapshot(run), NEW d \in Date, NEW k \in Clock,
         run.accepted_at <= k, run.as_of <= d
  PROVE  Matches(d, k)'
<1>0. RunsInv /\ RowsInv /\ Latest(run) /\ source' = source /\ run \in Runs
  BY DEF Before, ImportSnapshot, Latest
<1>1. ShowsWhatIsSaid(d, k) /\ ShowsItsValue(d, k) /\ ShowsItOnce(d, k)
  BY BeforeMatches
<1>2. \A n : /\ n \in View(d, k) <=> n \in Prior(run)
             /\ n \in View(d, k)' <=> \/ n \in Prior(run) /\ n \notin Closed(run)
                                      \/ n \in Statements(run)
  BY ViewSince
<1>3. ASSUME NEW n \in Statements(run)
      PROVE  /\ n.id.series \in Written(run) /\ n = StatementOf(run, n.id.series)
             /\ n.value = ValueOf(run, n.id.series) /\ n.id.series \in Speaking(run)
  <2>1. PICK s \in Written(run) : n = StatementOf(run, s)
    BY StatementMember
  <2> QED BY <1>0, <2>1, StatementFacts
<1>4. \A s : \A a : a \in LastWord(s, Known(d, k))' <=>
                      IF Speaks(run, s) THEN a = run ELSE a \in LastWord(s, Known(d, k))
  BY KnownMore
<1>5. \A a : Speaking(a)' = Speaking(a)
  BY <1>0, SourceOnly
<1>6. \A a, s : ValueOf(a, s)' = ValueOf(a, s)
  BY <1>0, SourceOnly
<1>7. \A s : Speaks(run, s) <=> run.complete \/ s \in Speaking(run)
  BY DEF Speaks
<1>8. ASSUME NEW s \in Written(run) PROVE StatementOf(run, s) \in Statements(run)
                                          /\ StatementOf(run, s).id.series = s
  <2>1. PICK n : n = StatementOf(run, s)
    OBVIOUS
  <2> QED BY <1>0, <2>1, StatementFacts, StatementMember
<1>9. ShowsWhatIsSaid(d, k)'
  <2>1. ASSUME NEW s
        PROVE  (\E r \in View(d, k)' : r.id.series = s)
                 <=> \E a \in LastWord(s, Known(d, k))' : s \in Speaking(a)
    <3>1. CASE s \in Speaking(run)
      <4>1. \E a \in LastWord(s, Known(d, k))' : s \in Speaking(a)
        BY <1>4, <1>7, <3>1
      <4>2. CASE s \in Written(run)
        BY <1>2, <1>8, <4>1, <4>2
      <4>3. CASE \E p \in Kept(run) : p.id.series = s
        <5>1. PICK p \in Kept(run) : p.id.series = s
          BY <4>3
        <5>2. p \in Prior(run) /\ p \notin Closed(run)
          BY KeptFacts
        <5> QED BY <1>2, <4>1, <5>1, <5>2
      <4> QED BY <3>1, <4>2, <4>3, KeptOrWritten
    <3>2. CASE s \notin Speaking(run) /\ run.complete
      <4>1. \A a \in LastWord(s, Known(d, k))' : a = run
        BY <1>4, <1>7, <3>2
      <4>2. \A r \in View(d, k)' : r.id.series # s
        BY <1>2, <1>3, <3>2, ClosedMember
      <4> QED BY <3>2, <4>1, <4>2
    <3>3. CASE s \notin Speaking(run) /\ ~run.complete
      <4>1. \A a : a \in LastWord(s, Known(d, k))' <=> a \in LastWord(s, Known(d, k))
        BY <1>4, <1>7, <3>3
      <4>2. s \notin Written(run)
        BY <3>3, WrittenMember
      <4>3. (\E r \in View(d, k)' : r.id.series = s) <=> (\E r \in View(d, k) : r.id.series = s)
        BY <1>2, <1>3, <3>3, <4>2, ClosedMember
      <4> QED BY <1>1, <4>1, <4>3 DEF ShowsWhatIsSaid
    <3> QED BY <3>1, <3>2, <3>3
  <2> QED BY <1>5, <2>1 DEF ShowsWhatIsSaid
<1>10. ShowsItsValue(d, k)'
  <2>1. ASSUME NEW r \in View(d, k)', NEW a \in LastWord(r.id.series, Known(d, k))'
        PROVE  r.value = ValueOf(a, r.id.series)
    <3>1. CASE r \in Statements(run)
      BY <1>3, <1>4, <1>7, <3>1
    <3>2. CASE r \in Prior(run) /\ r \notin Closed(run) /\ r.id.series \in Speaking(run)
      BY <1>4, <1>7, <3>2, OpenStaysKept, KeptFacts
    <3>3. CASE r \in Prior(run) /\ r \notin Closed(run) /\ r.id.series \notin Speaking(run)
      <4>1. ~run.complete
        BY <3>3, ClosedMember
      <4>2. a \in LastWord(r.id.series, Known(d, k))
        BY <1>4, <1>7, <3>3, <4>1
      <4> QED BY <1>1, <1>2, <3>3, <4>2 DEF ShowsItsValue
    <3> QED BY <1>2, <3>1, <3>2, <3>3
  <2> QED BY <1>6, <2>1 DEF ShowsItsValue
<1>11. ShowsItOnce(d, k)'
  <2>1. ASSUME NEW r \in View(d, k)', NEW w \in View(d, k)', r.id.series = w.id.series
        PROVE  r = w
    <3>1. CASE r \in Statements(run) /\ w \in Statements(run)
      BY <1>3, <2>1, <3>1
    <3>2. CASE r \in Prior(run) /\ w \in Prior(run)
      BY <1>1, <1>2, <2>1, <3>2 DEF ShowsItOnce
    <3>3. CASE r \in Statements(run) /\ w \in Prior(run) /\ w \notin Closed(run)
      BY <1>3, <2>1, <3>3, ClosedMember
    <3>4. CASE w \in Statements(run) /\ r \in Prior(run) /\ r \notin Closed(run)
      BY <1>3, <2>1, <3>4, ClosedMember
    <3> QED BY <1>2, <3>1, <3>2, <3>3, <3>4
  <2> QED BY <2>1 DEF ShowsItOnce
<1> QED BY <1>9, <1>10, <1>11 DEF Matches

LEMMA ReadyBefore ==
  ASSUME RunsInv, RowsInv, ViewMatchesRuns, NEW run \in Submittable, ImportSnapshot(run),
         DatesInOrder'
  PROVE  /\ DatesInOrder /\ Before(run)
         /\ \A d \in Date, k \in Clock :
              \/ k < run.accepted_at
              \/ run.accepted_at <= k /\ d < run.as_of
              \/ run.accepted_at <= k /\ run.as_of <= d
<1>1. /\ runs' = runs \cup {run} /\ source' = source /\ Acceptable(run)
  BY DEF ImportSnapshot
<1>2. DatesInOrder /\ DatesFollow(run)
  BY <1>1, DatesBefore
<1>3. Before(run)
  BY <1>1, <1>2, NewRun, NewRunDated DEF Before
<1>4. run.accepted_at \in Nat /\ run.as_of \in Nat
  BY <1>3, RunFields DEF Before, Latest
<1>5. \A d \in Date, k \in Clock :
              \/ k < run.accepted_at
              \/ run.accepted_at <= k /\ d < run.as_of
              \/ run.accepted_at <= k /\ run.as_of <= d
  BY <1>4, TimeAssumption
<1> QED BY <1>2, <1>3, <1>5

LEMMA ViewStep ==
  ASSUME RunsInv, RowsInv, ViewMatchesRuns, NEW run \in Submittable, ImportSnapshot(run)
  PROVE  ViewMatchesRuns'
<1>0. (ViewMatchesRuns <=> (DatesInOrder => \A d \in Date, k \in Clock : Matches(d, k)))'
  BY ViewMatchesPointwise, PTL
<1> SUFFICES ASSUME DatesInOrder' PROVE \A d \in Date, k \in Clock : Matches(d, k)'
  BY <1>0
<1>1. Before(run)
  BY ReadyBefore
<1> TAKE d \in Date, k \in Clock
<1>2. \/ k < run.accepted_at
      \/ run.accepted_at <= k /\ d < run.as_of
      \/ run.accepted_at <= k /\ run.as_of <= d
  BY ReadyBefore
<1> QED BY <1>1, <1>2, MatchesEarlierReader, MatchesEarlierDate, MatchesSince

-----------------------------------------------------------------------------
(* What classifications rest on. *)

\* The statements w that qualify a classification s whose dependencies are about the series D.
Qualifies(s, D, w) ==
  /\ ~w.derived /\ w.site = s.site
  /\ source = "epa_frs" => w.key \in Code
  /\ source = "moenv" /\ s.key = "regulated" => w.key \in Text /\ w \in D
  /\ source = "moenv" /\ s.key # "regulated" => w.key = s.key
  /\ source \notin {"epa_frs", "moenv"} => w.key = "identity"

RestsOn(r, q) == Qualifies(r.id.series, SeriesIn(r.dependencies), q.id.series)

LEMMA ShouldRestOnMeans ==
  ASSUME NEW r, NEW q
  PROVE  ShouldRestOn(r, q) <=> RestsOn(r, q)
<1>1. CASE source = "epa_frs"
  BY <1>1 DEF ShouldRestOn, RestsOn, Qualifies
<1>2. CASE source = "moenv" /\ r.id.series.key = "regulated"
  BY <1>2 DEF ShouldRestOn, RestsOn, Qualifies, SeriesIn
<1>3. CASE source = "moenv" /\ r.id.series.key # "regulated"
  BY <1>3 DEF ShouldRestOn, RestsOn, Qualifies
<1>4. CASE source \notin {"epa_frs", "moenv"}
  BY <1>4 DEF ShouldRestOn, RestsOn, Qualifies
<1> QED BY <1>1, <1>2, <1>3, <1>4

Rests(d, k, r) ==
  /\ \E q \in View(d, k) : RestsOn(r, q)
  /\ \A s : s \in SeriesIn(r.dependencies)
              <=> \E q \in View(d, k) : RestsOn(r, q) /\ q.id.series = s
  /\ r.valid_to = NULL =>
       \A i : i \in r.dependencies <=> \E q \in View(d, k) : RestsOn(r, q) /\ q.id = i

AllRest(d, k) == \A r \in View(d, k) : r.id.series.derived => Rests(d, k, r)

LEMMA ClassificationPointwise ==
  ClassificationRestsOnView <=> (DatesInOrder => \A d \in Date, k \in Clock : AllRest(d, k))
<1> DEFINE basis(d, k, r) == {q \in View(d, k) : ShouldRestOn(r, q)}
           basisIds(d, k, r) == {q.id : q \in basis(d, k, r)}
           basisSeries(d, k, r) == {q.id.series : q \in basis(d, k, r)}
           Right(d, k, r) ==
             /\ basis(d, k, r) # {}
             /\ SeriesIn(r.dependencies) = basisSeries(d, k, r)
             /\ r.valid_to = NULL => r.dependencies = basisIds(d, k, r)
<1>1. ClassificationRestsOnView <=>
        (DatesInOrder =>
           \A d \in Date, k \in Clock : \A r \in View(d, k) : r.id.series.derived => Right(d, k, r))
  BY DEF ClassificationRestsOnView, SeriesIn
<1>2. ASSUME NEW d, NEW k, NEW r PROVE Right(d, k, r) <=> Rests(d, k, r)
  <2>1. \A q : q \in basis(d, k, r) <=> q \in View(d, k) /\ RestsOn(r, q)
    BY ShouldRestOnMeans
  <2>2. \A s : s \in basisSeries(d, k, r)
                 <=> \E q \in View(d, k) : RestsOn(r, q) /\ q.id.series = s
    BY ShouldRestOnMeans
  <2>3. \A i : i \in basisIds(d, k, r) <=> \E q \in View(d, k) : RestsOn(r, q) /\ q.id = i
    BY ShouldRestOnMeans
  <2>4. basis(d, k, r) # {} <=> \E q \in View(d, k) : RestsOn(r, q)
    BY <2>1
  <2>5. SeriesIn(r.dependencies) = basisSeries(d, k, r) <=>
          \A s : s \in SeriesIn(r.dependencies) <=> s \in basisSeries(d, k, r)
    BY DEF SeriesIn
  <2>6. r.dependencies = basisIds(d, k, r) <=>
          \A i : i \in r.dependencies <=> i \in basisIds(d, k, r)
    OBVIOUS
  <2> HIDE DEF basisIds, basisSeries, basis
  <2> QED BY <2>2, <2>3, <2>4, <2>5, <2>6 DEF Rests
<1> HIDE DEF Right
<1> QED BY <1>1, <1>2 DEF AllRest

LEMMA QualifiesSame ==
  ASSUME source' = source
  PROVE  \A r, q : RestsOn(r, q)' <=> RestsOn(r, q)
  BY DEF RestsOn, Qualifies, SeriesIn

\* What a row rests on is decided by what it is about and what its dependencies are about.
LEMMA QualifiesAlike ==
  ASSUME NEW r, NEW w, NEW q, NEW o, r.id.series = w.id.series, q.id.series = o.id.series,
         SeriesIn(r.dependencies) = SeriesIn(w.dependencies)
  PROVE  RestsOn(r, q) <=> RestsOn(w, o)
  BY DEF RestsOn

\* The keys of derived series.
LEMMA DerivedKey ==
  ASSUME RunsInv, NEW run \in Runs, NEW s \in Classified(run)
  PROVE  /\ s.site \in Listed(run)
         /\ source # "moenv" => s = Derived(s.site, "class")
         /\ source = "moenv" /\ s.key # "regulated" =>
              s.key \in run.snapshot[s.site].codes /\ s.key \in Code
         /\ s = Derived(s.site, s.key)
<1>1. /\ s.site \in Listed(run) /\ s = Derived(s.site, s.key) /\ s \in DerivedOf(run, s.site)
  BY ClassifiedFacts DEF RunsInv
<1>2. run.snapshot[s.site].codes \subseteq Code
  BY <1>1, ItemType DEF RunsInv
<1>3. CASE source # "moenv"
  BY <1>1, <1>3 DEF DerivedOf
<1>4. CASE source = "moenv"
  <2>1. CASE s = Derived(s.site, "regulated")
    BY <1>1, <1>4, <2>1, OfFields
  <2>2. CASE \E c \in run.snapshot[s.site].codes : s = Derived(s.site, c)
    <3>1. PICK c \in run.snapshot[s.site].codes : s = Derived(s.site, c)
      BY <2>2
    <3>2. s.key = c
      BY <3>1, OfFields
    <3> QED BY <1>1, <1>2, <1>4, <3>2
  <2> QED BY <1>1, <1>4, <2>1, <2>2 DEF DerivedOf
<1> QED BY <1>3, <1>4

LEMMA RowSpoken ==
  ASSUME RunsInv, RowsInv, NEW r \in rows, r.valid_to = NULL
  PROVE  /\ \E a \in runs : /\ r.id.series \in Speaking(a) /\ a \in Runs
                            /\ r.recorded_at = a.accepted_at /\ r.valid_from = a.as_of
         /\ ~r.id.closure
<1>1. RowInv(r) /\ RowType(r)
  BY DEF RowsInv, RowInv
<1>2. PICK a \in runs : WrittenBy(r, a)
  BY <1>1 DEF RowInv
<1>3. a \in Runs /\ a.as_of # NULL
  BY RunFields, TimeAssumption DEF RunsInv
<1> QED BY <1>2, <1>3 DEF WrittenBy

\* A run that does not classify a series does not state what the series rests on.
LEMMA NotTouched ==
  ASSUME RunsInv, RowsInv, NEW run \in Runs, NEW r \in rows, r.valid_to = NULL,
         r.id.series.derived, r.id.series \notin Speaking(run),
         NEW w \in Stated(run), NEW D
  PROVE  ~Qualifies(r.id.series, D, w)
<1>1. PICK a \in runs : r.id.series \in Speaking(a) /\ a \in Runs
  BY RowSpoken
<1> DEFINE s == r.id.series
           x == s.site
<1>2. s \in Classified(a)
  BY <1>1, SpeakingFacts DEF RunsInv
<1>3. /\ source # "moenv" => s = Derived(x, "class")
      /\ source = "moenv" /\ s.key # "regulated" => s.key \in Code
      /\ s = Derived(x, s.key)
  BY <1>1, <1>2, DerivedKey
<1>4. /\ w.site \in Listed(run) /\ w = Of(w.site, w.key) /\ w \in StatedOf(run, w.site)
  BY StatedFacts DEF RunsInv
<1>5. s \notin Classified(run)
  BY DEF Speaking
<1> HIDE DEF s
<1> SUFFICES ASSUME Qualifies(s, D, w) PROVE FALSE
  BY DEF s
<1>6. w.site = x /\ x \in Listed(run)
  BY <1>4 DEF Qualifies
<1>7. s \notin DerivedOf(run, x)
  BY <1>5, <1>6 DEF Classified
<1>8. CASE source # "moenv"
  BY <1>3, <1>7, <1>8 DEF DerivedOf
<1>9. CASE source = "moenv" /\ s.key = "regulated"
  BY <1>3, <1>7, <1>9 DEF DerivedOf
<1>10. CASE source = "moenv" /\ s.key # "regulated"
  <2>1. w.key = s.key /\ s.key \in Code
    BY <1>3, <1>10 DEF Qualifies
  <2>2. /\ run.snapshot[x].texts \subseteq Text /\ ~Registry
    BY <1>6, <1>10, ItemType DEF RunsInv, Registry
  <2>3. PICK key \in run.snapshot[x].codes \cup run.snapshot[x].texts : w = Of(x, key)
    BY <1>4, <1>6, <1>10, <2>2 DEF StatedOf
  <2>4. key = s.key
    BY <2>1, <2>3, OfFields
  <2>5. s.key \in run.snapshot[x].codes
    BY <2>1, <2>2, <2>3, <2>4, KeyAssumption
  <2>6. Derived(x, s.key) \in DerivedOf(run, x)
    BY <1>10, <2>5 DEF DerivedOf
  <2> QED BY <1>3, <1>7, <2>6
<1> QED BY <1>8, <1>9, <1>10

LEMMA BeforeRests ==
  ASSUME NEW run, Before(run), ClassificationRestsOnView, NEW d \in Date, NEW k \in Clock,
         NEW r \in View(d, k), r.id.series.derived
  PROVE  Rests(d, k, r)
  BY ClassificationPointwise DEF Before, AllRest

\* What a kept classification rests on stays open.
LEMMA BasisStaysOpen ==
  ASSUME NEW run, Before(run), ClassificationRestsOnView, ImportSnapshot(run),
         NEW r \in Prior(run), r.id.series.derived, r \notin Closed(run),
         NEW q \in Prior(run), RestsOn(r, q)
  PROVE  q \notin Closed(run)
<1>0. RunsInv /\ RowsInv /\ Latest(run) /\ run \in Runs /\ run.as_of \in Date
      /\ run.accepted_at \in Clock /\ run.accepted_at \in Nat /\ run.as_of \in Nat
  BY RunFields DEF Before, Latest
<1>1. \A n : n \in View(run.as_of, run.accepted_at) <=> n \in Prior(run)
  BY <1>0, ViewSince
<1>2. Rests(run.as_of, run.accepted_at, r)
  BY <1>0, <1>1, BeforeRests
<1>3. /\ r \in rows /\ r.valid_to = NULL /\ q \in rows
  BY <1>0, PriorIsOpen
<1>4. q.id \in r.dependencies
  BY <1>1, <1>2, <1>3 DEF Rests
<1>5. ~q.id.series.derived
  BY DEF RestsOn, Qualifies
<1>6. \A p \in Prior(run) : p.id = q.id => p = q
  BY <1>0, <1>3, PriorIsOpen DEF RowsInv
<1>7. CASE r.id.series \in Speaking(run)
  <2>1. r \in Kept(run) /\ r \notin Restated(run)
    <3>1. r.id.series \notin Stated(run)
      BY <1>0, StatedFacts DEF RunsInv
    <3> QED BY <1>7, <3>1, OpenStaysKept, RestatedMember
  <2>2. q.id \in Basis(run, r.id.series)
    BY <1>4, <2>1, KeptMember
  <2>3. CASE \E key \in StatedBasis(run, r.id.series) :
               q.id = ClaimOf(run, Of(r.id.series.site, key))
    <3>1. PICK key \in StatedBasis(run, r.id.series) :
               q.id = ClaimOf(run, Of(r.id.series.site, key))
      BY <2>3
    <3>2. PICK w : w = Of(r.id.series.site, key)
      OBVIOUS
    <3>3. CASE \E p \in Restated(run) : q.id = p.id
      <4>1. q \in Restated(run)
        BY <1>6, <3>3, RestatedMember
      <4> QED BY <4>1, KeptMember, KeptFacts
    <3>4. CASE q.id = NewId(run, w)
      BY <1>0, <1>3, <3>4, RowBefore DEF NewId
    <3> QED BY <3>1, <3>2, <3>3, <3>4, ClaimOfCases
  <2>4. CASE ~run.complete /\ q.id.series \notin Stated(run)
    <3>1. q.id.series \notin Speaking(run)
      BY <1>0, <1>5, <2>4, SpeakingFacts DEF RunsInv
    <3> QED BY <2>4, <3>1, ClosedMember, WrittenMember
  <2> QED BY <1>6, <2>2, <2>3, <2>4, BasisMember
<1>8. CASE r.id.series \notin Speaking(run)
  <2>1. ~run.complete
    BY <1>8, ClosedMember
  <2>2. q.id.series \notin Stated(run)
    BY <1>0, <1>3, <1>8, NotTouched DEF RestsOn
  <2>3. q.id.series \notin Speaking(run)
    BY <1>0, <1>5, <2>2, SpeakingFacts DEF RunsInv
  <2> QED BY <2>1, <2>3, ClosedMember, WrittenMember
<1> QED BY <1>7, <1>8

LEMMA RestEarlierReader ==
  ASSUME NEW run, Before(run), ClassificationRestsOnView, ImportSnapshot(run),
         NEW d \in Date, NEW k \in Clock, k < run.accepted_at
  PROVE  AllRest(d, k)'
<1>0. RunsInv /\ RowsInv /\ Latest(run) /\ source' = source
  BY DEF Before, ImportSnapshot
<1>1. \A n : n \in View(d, k)' <=> \E r \in View(d, k) : n = Left(run, r)
  BY ViewBeforeImport
<1>2. \A r \in View(d, k) :
        /\ Left(run, r).id = r.id /\ Left(run, r).valid_to = r.valid_to
        /\ Left(run, r).dependencies = r.dependencies
  BY <1>0, LeftFacts, ViewMember
<1>3. \A r, q : RestsOn(r, q)' <=> RestsOn(r, q)
  BY <1>0, QualifiesSame
<1>4. ASSUME NEW r \in View(d, k), NEW q \in View(d, k)
      PROVE  RestsOn(Left(run, r), Left(run, q)) <=> RestsOn(r, q)
  <2>1. PICK n, m : n = Left(run, r) /\ m = Left(run, q)
    OBVIOUS
  <2> QED BY <1>2, <2>1 DEF RestsOn
<1>5. ASSUME NEW r \in View(d, k), r.id.series.derived, NEW n, n = Left(run, r)
      PROVE  Rests(d, k, n)'
  <2>1. Rests(d, k, r)
    BY <1>5, BeforeRests
  <2>2. n.dependencies = r.dependencies /\ n.valid_to = r.valid_to
    BY <1>2, <1>5
  <2>3. \A q \in View(d, k) : RestsOn(n, Left(run, q)) <=> RestsOn(r, q)
    BY <1>4, <1>5
  <2>4. \E q \in View(d, k)' : RestsOn(n, q)
    BY <1>1, <2>1, <2>3 DEF Rests
  <2>5. \A s : (\E q \in View(d, k)' : RestsOn(n, q) /\ q.id.series = s)
                 <=> \E q \in View(d, k) : RestsOn(r, q) /\ q.id.series = s
    BY <1>1, <1>2, <2>3
  <2>6. \A i : (\E q \in View(d, k)' : RestsOn(n, q) /\ q.id = i)
                 <=> \E q \in View(d, k) : RestsOn(r, q) /\ q.id = i
    BY <1>1, <1>2, <2>3
  <2> QED BY <1>3, <2>1, <2>2, <2>4, <2>5, <2>6 DEF Rests
<1>6. \A n \in View(d, k)' : n.id.series.derived => Rests(d, k, n)'
  BY <1>1, <1>2, <1>5
<1> QED BY <1>6 DEF AllRest

LEMMA RestEarlierDate ==
  ASSUME NEW run, Before(run), ClassificationRestsOnView, ImportSnapshot(run),
         NEW d \in Date, NEW k \in Clock, run.accepted_at <= k, d < run.as_of
  PROVE  AllRest(d, k)'
<1>0. RunsInv /\ RowsInv /\ Latest(run) /\ source' = source /\ run.as_of \in Date
      /\ run.accepted_at \in Clock /\ run.accepted_at \in Nat /\ run.as_of \in Nat
      /\ run.as_of # NULL
  BY RunFields, TimeAssumption DEF Before, ImportSnapshot, Latest
<1>1. \A n : n \in View(d, k)' <=>
               \/ n \in View(d, k) /\ n \notin Closed(run)
               \/ \E p \in View(d, k) : p \in Closed(run) /\ n = ClosureOf(run, p)
  BY ViewEarlier
<1>2. ASSUME NEW p \in Closed(run), NEW n, n = ClosureOf(run, p)
      PROVE  /\ n.id.series = p.id.series /\ n.valid_to = run.as_of
             /\ SeriesIn(n.dependencies) = SeriesIn(p.dependencies)
  BY <1>0, <1>2, ClosureFacts
<1>3. \A r, q : RestsOn(r, q)' <=> RestsOn(r, q)
  BY <1>0, QualifiesSame
\* The rows of the new view stand for those of the old one.
<1> DEFINE For(n, r) == /\ r \in View(d, k) /\ n.id.series = r.id.series
                        /\ SeriesIn(n.dependencies) = SeriesIn(r.dependencies)
                        /\ (n = r /\ n \notin Closed(run)) \/ n.valid_to = run.as_of
<1>4. \A n \in View(d, k)' : \E r : For(n, r)
  BY <1>1, <1>2
<1>5. \A r \in View(d, k) : \E n \in View(d, k)' : For(n, r)
  BY <1>1, <1>2
<1>6. ASSUME NEW n, NEW r, NEW m, NEW q, For(n, r), For(m, q)
      PROVE  RestsOn(n, m) <=> RestsOn(r, q)
  BY <1>6 DEF RestsOn
<1>7. \A n, r : For(n, r) => r \in View(d, k) /\ n.id.series = r.id.series
                             /\ SeriesIn(n.dependencies) = SeriesIn(r.dependencies)
                             /\ ((n = r /\ n \notin Closed(run)) \/ n.valid_to = run.as_of)
  OBVIOUS
<1> HIDE DEF For
<1>8. ASSUME NEW n \in View(d, k)', n.id.series.derived
      PROVE  Rests(d, k, n)'
  <2>1. PICK r : For(n, r)
    BY <1>4
  <2>2. Rests(d, k, r)
    BY <1>7, <1>8, <2>1, BeforeRests
  <2>3. \E m \in View(d, k)' : RestsOn(n, m)
    BY <1>5, <1>6, <2>1, <2>2 DEF Rests
  <2>4. ASSUME NEW s
        PROVE  (\E m \in View(d, k)' : RestsOn(n, m) /\ m.id.series = s)
                 <=> \E q \in View(d, k) : RestsOn(r, q) /\ q.id.series = s
    <3>1. ASSUME NEW m \in View(d, k)', RestsOn(n, m), m.id.series = s
          PROVE  \E q \in View(d, k) : RestsOn(r, q) /\ q.id.series = s
      <4>1. PICK q : For(m, q)
        BY <1>4
      <4> QED BY <1>6, <1>7, <2>1, <3>1, <4>1
    <3>2. ASSUME NEW q \in View(d, k), RestsOn(r, q), q.id.series = s
          PROVE  \E m \in View(d, k)' : RestsOn(n, m) /\ m.id.series = s
      <4>1. PICK m \in View(d, k)' : For(m, q)
        BY <1>5
      <4> QED BY <1>6, <1>7, <2>1, <3>2, <4>1
    <3> QED BY <3>1, <3>2
  <2>5. ASSUME n.valid_to = NULL
        PROVE  \A i : i \in n.dependencies <=> \E q \in View(d, k)' : RestsOn(n, q) /\ q.id = i
    <3>1. n = r /\ n \in View(d, k) /\ n \notin Closed(run)
      BY <1>0, <1>7, <2>1, <2>5
    <3>2. n \in Prior(run)
      BY <1>0, <2>5, <3>1, CurrentAfter, PriorIsOpen, ViewMember
    <3>3. \A w : w \in View(run.as_of, run.accepted_at) <=> w \in Prior(run)
      BY <1>0, ViewSince
    <3>4. Rests(run.as_of, run.accepted_at, n)
      BY <1>0, <1>8, <3>2, <3>3, BeforeRests
    <3>5. ASSUME NEW q \in View(d, k), RestsOn(n, q)
          PROVE  q \in Prior(run) /\ q \notin Closed(run) /\ q \in View(d, k)'
      <4>1. q.id \in n.dependencies
        BY <2>2, <2>5, <3>1, <3>5 DEF Rests
      <4>2. PICK w \in Prior(run) : w.id = q.id
        BY <2>5, <3>3, <3>4, <4>1 DEF Rests
      <4>3. w = q
        BY <1>0, <4>2, PriorIsOpen, ViewMember DEF RowsInv
      <4>4. q \notin Closed(run)
        BY <1>8, <3>1, <3>2, <3>5, <4>2, <4>3, BasisStaysOpen
      <4> QED BY <1>1, <4>2, <4>3, <4>4
    <3>6. ASSUME NEW i, i \in n.dependencies
          PROVE  \E q \in View(d, k)' : RestsOn(n, q) /\ q.id = i
      <4>1. PICK q \in View(d, k) : RestsOn(n, q) /\ q.id = i
        BY <2>2, <2>5, <3>1, <3>6 DEF Rests
      <4> QED BY <3>5, <4>1
    <3>7. ASSUME NEW m \in View(d, k)', RestsOn(n, m)
          PROVE  m.id \in n.dependencies
      <4>1. PICK q : For(m, q)
        BY <1>4
      <4>2. q \in View(d, k) /\ RestsOn(n, q)
        BY <1>6, <1>7, <2>1, <3>1, <3>7, <4>1
      <4>3. q \in Prior(run) /\ q \notin Closed(run)
        BY <3>5, <4>2
      <4>4. CASE m \in View(d, k)
        <5>1. m.id.series = q.id.series
          BY <1>7, <4>1
        <5>2. ShowsItOnce(d, k)
          BY BeforeMatches
        <5> QED BY <2>2, <2>5, <3>1, <4>2, <4>4, <5>1, <5>2 DEF Rests, ShowsItOnce
      <4>5. CASE \E p \in View(d, k) : p \in Closed(run) /\ m = ClosureOf(run, p)
        <5>1. PICK p \in View(d, k) : p \in Closed(run) /\ m = ClosureOf(run, p)
          BY <4>5
        <5>2. m.id.series = p.id.series /\ m.id.series = q.id.series
          BY <1>2, <1>7, <4>1, <5>1
        <5>3. ShowsItOnce(d, k)
          BY BeforeMatches
        <5>4. p = q
          BY <4>2, <5>1, <5>2, <5>3 DEF ShowsItOnce
        <5> QED BY <4>3, <5>1, <5>4
      <4> QED BY <1>1, <4>4, <4>5
    <3> QED BY <3>6, <3>7
  <2>6. SeriesIn(n.dependencies) = SeriesIn(r.dependencies)
    BY <1>7, <2>1
  <2>7. \A s : s \in SeriesIn(n.dependencies)
                 <=> \E q \in View(d, k)' : RestsOn(n, q) /\ q.id.series = s
    BY <2>2, <2>4, <2>6 DEF Rests
  <2> QED BY <1>3, <2>3, <2>5, <2>7 DEF Rests
<1> QED BY <1>8 DEF AllRest

\* Each statement of a run is shown from then on, by the claim that a classification names.
LEMMA ClaimShown ==
  ASSUME NEW run, Before(run), ImportSnapshot(run), NEW d \in Date, NEW k \in Clock,
         run.accepted_at <= k, run.as_of <= d, NEW s \in Stated(run)
  PROVE  \E q \in View(d, k)' :
           /\ q.id.series = s /\ q.id = ClaimOf(run, s)
           /\ \A o \in View(d, k)' : o.id.series = s => o = q
<1>0. RunsInv /\ RowsInv /\ Latest(run)
  BY DEF Before
<1>1. \A n : /\ n \in View(d, k) <=> n \in Prior(run)
             /\ n \in View(d, k)' <=> \/ n \in Prior(run) /\ n \notin Closed(run)
                                      \/ n \in Statements(run)
  BY ViewSince
<1>2. ShowsItOnce(d, k)'
  BY MatchesSince DEF Matches
<1>3. SUFFICES \E q \in View(d, k)' : q.id.series = s /\ q.id = ClaimOf(run, s)
  BY <1>2 DEF ShowsItOnce
<1>4. CASE \E p \in Restated(run) : p.id.series = s /\ ClaimOf(run, s) = p.id
  <2>1. PICK p \in Restated(run) : p.id.series = s /\ ClaimOf(run, s) = p.id
    BY <1>4
  <2>2. p \in Prior(run) /\ p \notin Closed(run)
    BY KeptMember, KeptFacts
  <2> QED BY <1>1, <2>1, <2>2
<1>5. CASE /\ \A p \in Restated(run) : p.id.series # s
           /\ ClaimOf(run, s) = NewId(run, s)
  <2>1. s \notin Classified(run)
    BY <1>0, StatedFacts, ClassifiedFacts DEF RunsInv, Latest
  <2>2. \A p \in Kept(run) : p.id.series # s
    BY <1>5, <2>1, KeptMember
  <2>3. s \in Written(run)
    BY <2>2, WrittenMember DEF Speaking
  <2>4. PICK n : n = StatementOf(run, s)
    OBVIOUS
  <2>5. n.id = NewId(run, s) /\ n.id.series = s
    BY <1>0, <2>3, <2>4, StatementFacts
  <2>6. n \in Statements(run)
    BY <2>3, <2>4, StatementMember
  <2> QED BY <1>1, <1>5, <2>5, <2>6
<1> QED BY <1>4, <1>5, ClaimOfCases

\* A classification that a run states, or restates, rests on what is shown since then.
LEMMA BasisShown ==
  ASSUME NEW run, Before(run), ImportSnapshot(run), NEW d \in Date, NEW k \in Clock,
         run.accepted_at <= k, run.as_of <= d,
         NEW r, r.id.series \in Classified(run), r.dependencies = Basis(run, r.id.series)
  PROVE  Rests(d, k, r)'
<1> DEFINE s == r.id.series
           x == s.site
<1>0. RunsInv /\ RowsInv /\ Latest(run) /\ source' = source /\ run \in Runs /\ source \in Source
  BY DEF Before, ImportSnapshot, Latest, RunsInv
<1>1. \A n : n \in View(d, k)' <=> \/ n \in Prior(run) /\ n \notin Closed(run)
                                   \/ n \in Statements(run)
  BY ViewSince
<1>2. \A w, q : RestsOn(w, q)' <=> RestsOn(w, q)
  BY <1>0, QualifiesSame
<1>3. /\ x \in Listed(run)
      /\ source = "moenv" /\ s.key # "regulated" => s.key \in Code
      /\ run.snapshot[x].codes \subseteq Code /\ run.snapshot[x].texts \subseteq Text
  BY <1>0, DerivedKey, ItemType
<1>4. /\ StatedBasis(run, s) # {}
      /\ \A key \in StatedBasis(run, s) : Of(x, key) \in Stated(run)
  BY <1>0, BasisStated
<1>5. /\ source = "epa_frs" => StatedBasis(run, s) = run.snapshot[x].codes
      /\ source = "moenv" /\ s.key = "regulated" => StatedBasis(run, s) = run.snapshot[x].texts
      /\ source = "moenv" /\ s.key # "regulated" => StatedBasis(run, s) = {s.key}
      /\ source \notin {"epa_frs", "moenv"} => StatedBasis(run, s) = {"identity"}
  BY DEF StatedBasis
\* What is shown of a site that is no statement of the run is an open claim it left alone.
<1>6. ASSUME NEW q \in View(d, k)', ~q.id.series.derived, q.id.series \notin Stated(run)
      PROVE  q \in Prior(run) /\ ~run.complete
  <2>1. q.id.series \notin Speaking(run)
    BY <1>0, <1>6, SpeakingFacts
  <2>2. q \notin Statements(run)
    BY <1>0, <2>1, StatementMember, StatementFacts
  <2> QED BY <1>1, <2>1, <2>2, ClosedMember
<1>7. ASSUME NEW p \in Prior(run), ~run.complete, p.id.series.key \in Code,
             p.id.series \notin Stated(run), source = "epa_frs"
      PROVE  p \in View(d, k)' /\ ~p.id.series.derived
  <2>1. p \in rows /\ p.valid_to = NULL
    BY <1>0, PriorIsOpen
  <2>2. PICK a \in Runs : p.id.series \in Speaking(a)
    BY <1>0, <2>1, RowSpoken
  <2>3. ~p.id.series.derived
    <3>1. SUFFICES ASSUME p.id.series.derived PROVE FALSE
      OBVIOUS
    <3>2. p.id.series \in Classified(a)
      BY <1>0, <2>2, <3>1, SpeakingFacts
    <3>3. p.id.series = Derived(p.id.series.site, "class")
      BY <1>0, <1>7, <3>2, DerivedKey
    <3>4. p.id.series.key = "class"
      BY <3>3, OfFields
    <3> QED BY <1>7, <3>4, KeyAssumption
  <2>4. p.id.series \notin Speaking(run)
    BY <1>0, <1>7, <2>3, SpeakingFacts
  <2> QED BY <1>1, <1>7, <2>3, <2>4, ClosedMember, WrittenMember
\* Every identifier named is one shown, and about what the snapshot states or leaves open.
<1>8. ASSUME NEW i \in Basis(run, s)
      PROVE  \E q \in View(d, k)' :
               /\ q.id = i /\ ~q.id.series.derived /\ q.id.series.site = x
               /\ \/ \E key \in StatedBasis(run, s) : q.id.series = Of(x, key)
                  \/ source = "epa_frs" /\ q.id.series.key \in Code
  <2>1. CASE \E key \in StatedBasis(run, s) : i = ClaimOf(run, Of(x, key))
    <3>1. PICK key \in StatedBasis(run, s) : i = ClaimOf(run, Of(x, key))
      BY <2>1
    <3>2. PICK w : w = Of(x, key) /\ w \in Stated(run)
      BY <1>4
    <3>3. PICK q \in View(d, k)' : q.id.series = w /\ q.id = ClaimOf(run, w)
      BY <3>2, ClaimShown
    <3>4. ~w.derived /\ w.site = x
      BY <3>2, OfFields
    <3> QED BY <3>1, <3>2, <3>3, <3>4
  <2>2. CASE /\ source = "epa_frs"
             /\ \E p \in Prior(run) : /\ i = p.id /\ ~run.complete /\ p.id.series.site = x
                                      /\ p.id.series.key \in Code
                                      /\ p.id.series \notin Stated(run)
    BY <1>7, <2>2
  <2> QED BY <2>1, <2>2, BasisMember
<1>9. ASSUME NEW q \in View(d, k)', NEW key \in StatedBasis(run, s), q.id.series = Of(x, key)
      PROVE  q.id \in Basis(run, s)
  <2>1. PICK w : w = Of(x, key) /\ w \in Stated(run)
    BY <1>4
  <2>2. q.id = ClaimOf(run, w)
    BY <1>9, <2>1, ClaimShown
  <2> QED BY <2>1, <2>2, BasisMember
<1>10. ASSUME NEW q \in View(d, k)', source = "epa_frs", ~q.id.series.derived,
              q.id.series.site = x, q.id.series.key \in Code
       PROVE  q.id \in Basis(run, s)
  <2>1. CASE q.id.series \in Stated(run)
    <3>1. PICK w : w = q.id.series
      OBVIOUS
    <3>2. w = Of(x, w.key) /\ w \in StatedOf(run, x)
      BY <1>0, <1>10, <2>1, <3>1, StatedFacts
    <3>3. PICK key \in run.snapshot[x].codes \cup {"name"} : w = Of(x, key)
      BY <1>10, <3>2 DEF StatedOf, Registry
    <3>4. w.key = key
      BY <3>3, OfFields
    <3>5. key \in run.snapshot[x].codes
      BY <1>10, <3>1, <3>3, <3>4, KeyAssumption
    <3> QED BY <1>5, <1>9, <1>10, <3>1, <3>3, <3>5
  <2>2. CASE q.id.series \notin Stated(run)
    <3>1. q \in Prior(run) /\ ~run.complete
      BY <1>6, <1>10, <2>2
    <3> QED BY <1>10, <2>2, <3>1, BasisMember
  <2> QED BY <2>1, <2>2
<1>11. ASSUME NEW w
       PROVE  w \in SeriesIn(r.dependencies) <=> \E i \in Basis(run, s) : w = i.series
  BY DEF SeriesIn
<1>12. \A key \in StatedBasis(run, s) : Of(x, key) \in SeriesIn(r.dependencies)
  <2>1. ASSUME NEW key \in StatedBasis(run, s) PROVE Of(x, key) \in SeriesIn(r.dependencies)
    <3>1. PICK w : w = Of(x, key) /\ w \in Stated(run)
      BY <1>4
    <3>2. PICK q \in View(d, k)' : q.id.series = w /\ q.id = ClaimOf(run, w)
      BY <3>1, ClaimShown
    <3> QED BY <1>11, <3>1, <3>2, BasisMember
  <2> QED BY <2>1
<1>13. ASSUME NEW q \in View(d, k)', RestsOn(r, q)
       PROVE  q.id \in Basis(run, s)
  <2>1. /\ Qualifies(s, SeriesIn(r.dependencies), q.id.series)
    BY <1>13 DEF RestsOn
  <2>2. ~q.id.series.derived /\ q.id.series.site = x
    BY <2>1 DEF Qualifies
  <2>3. CASE source = "epa_frs"
    BY <1>10, <2>1, <2>2, <2>3 DEF Qualifies
  <2>4. q.id.series = Of(x, q.id.series.key)
    <3>1. q.id.series \in Series
      <4>1. q \in Prior(run) => q.id \in Id
        BY <1>0, PriorIsOpen DEF RowsInv, RowInv, RowType
      <4>2. q \in Statements(run) => q.id \in Id
        BY <1>0, StatementMember, StatementFacts
      <4> QED BY <1>1, <4>1, <4>2 DEF Id
    <3> QED BY <2>2, <3>1 DEF Series, Of
  <2>5. CASE source = "moenv" /\ s.key = "regulated"
    <3>1. q.id.series \in SeriesIn(r.dependencies)
      BY <2>1, <2>5 DEF Qualifies
    <3>2. PICK i \in Basis(run, s) : q.id.series = i.series
      BY <1>11, <3>1
    <3>3. PICK o \in View(d, k)' :
            o.id = i /\ \E key \in StatedBasis(run, s) : o.id.series = Of(x, key)
      BY <1>8, <2>5
    <3> QED BY <1>9, <3>2, <3>3
  <2>6. CASE source = "moenv" /\ s.key # "regulated"
    BY <1>5, <1>9, <2>1, <2>4, <2>6 DEF Qualifies
  <2>7. CASE source \notin {"epa_frs", "moenv"}
    BY <1>5, <1>9, <2>1, <2>4, <2>7 DEF Qualifies
  <2> QED BY <2>3, <2>5, <2>6, <2>7
<1>14. ASSUME NEW i \in Basis(run, s)
       PROVE  \E q \in View(d, k)' : RestsOn(r, q) /\ q.id = i
  <2>1. PICK q \in View(d, k)' :
               /\ q.id = i /\ ~q.id.series.derived /\ q.id.series.site = x
               /\ \/ \E key \in StatedBasis(run, s) : q.id.series = Of(x, key)
                  \/ source = "epa_frs" /\ q.id.series.key \in Code
    BY <1>8
  <2>2. CASE \E key \in StatedBasis(run, s) : q.id.series = Of(x, key)
    <3>1. PICK key \in StatedBasis(run, s) : q.id.series = Of(x, key)
      BY <2>2
    <3>2. q.id.series.key = key /\ q.id.series \in SeriesIn(r.dependencies)
      BY <1>12, <3>1, OfFields
    <3>3. Qualifies(s, SeriesIn(r.dependencies), q.id.series)
      BY <1>3, <1>5, <2>1, <3>1, <3>2 DEF Qualifies
    <3> QED BY <2>1, <3>3 DEF RestsOn
  <2>3. CASE source = "epa_frs" /\ q.id.series.key \in Code
    BY <2>1, <2>3 DEF RestsOn, Qualifies
  <2> QED BY <2>1, <2>2, <2>3
<1>15. Basis(run, s) # {}
  BY <1>4, BasisMember
<1>16. \A i : i \in r.dependencies <=> \E q \in View(d, k)' : RestsOn(r, q) /\ q.id = i
  BY <1>13, <1>14
<1>17. \E q \in View(d, k)' : RestsOn(r, q)
  BY <1>14, <1>15
<1>18. \A w : w \in SeriesIn(r.dependencies)
                <=> \E q \in View(d, k)' : RestsOn(r, q) /\ q.id.series = w
  BY <1>11, <1>13, <1>14
<1> QED BY <1>2, <1>16, <1>17, <1>18 DEF Rests, SeriesIn

\* A classification that a partial run leaves alone keeps what it rests on.
LEMMA UntouchedRests ==
  ASSUME NEW run, Before(run), ClassificationRestsOnView, ImportSnapshot(run),
         NEW d \in Date, NEW k \in Clock, run.accepted_at <= k, run.as_of <= d,
         NEW r \in Prior(run), r.id.series.derived, r \notin Closed(run),
         r.id.series \notin Speaking(run)
  PROVE  Rests(d, k, r)'
<1>0. RunsInv /\ RowsInv /\ Latest(run) /\ source' = source /\ run \in Runs
  BY DEF Before, ImportSnapshot, Latest
<1>1. \A n : /\ n \in View(d, k) <=> n \in Prior(run)
             /\ n \in View(d, k)' <=> \/ n \in Prior(run) /\ n \notin Closed(run)
                                      \/ n \in Statements(run)
  BY ViewSince
<1>2. \A w, q : RestsOn(w, q)' <=> RestsOn(w, q)
  BY <1>0, QualifiesSame
<1>3. Rests(d, k, r)
  BY <1>1, BeforeRests
<1>4. r \in rows /\ r.valid_to = NULL
  BY <1>0, PriorIsOpen
<1>5. ASSUME NEW q, RestsOn(r, q) PROVE q \in View(d, k) <=> q \in View(d, k)'
  <2>1. q \in Prior(run) => q \notin Closed(run)
    BY <1>5, BasisStaysOpen
  <2>2. q \notin Statements(run)
    <3>1. SUFFICES ASSUME q \in Statements(run) PROVE FALSE
      OBVIOUS
    <3>2. q.id.series \in Speaking(run)
      BY <1>0, <3>1, StatementMember, StatementFacts
    <3>3. ~q.id.series.derived
      BY <1>5 DEF RestsOn, Qualifies
    <3>4. q.id.series \in Stated(run)
      BY <1>0, <3>2, <3>3, SpeakingFacts DEF RunsInv
    <3> QED BY <1>0, <1>4, <1>5, <3>4, NotTouched DEF RestsOn
  <2> QED BY <1>1, <2>1, <2>2
<1> QED BY <1>2, <1>3, <1>5 DEF Rests, SeriesIn

LEMMA RestSince ==
  ASSUME NEW run, Before(run), ClassificationRestsOnView, ImportSnapshot(run),
         NEW d \in Date, NEW k \in Clock, run.accepted_at <= k, run.as_of <= d
  PROVE  AllRest(d, k)'
<1>0. RunsInv /\ RowsInv /\ Latest(run) /\ run \in Runs /\ source \in Source
  BY DEF Before, Latest, RunsInv
<1>1. ASSUME NEW r \in View(d, k)', r.id.series.derived PROVE Rests(d, k, r)'
  <2>1. CASE r \in Statements(run)
    <3>1. PICK s \in Written(run) : r = StatementOf(run, s)
      BY <2>1, StatementMember
    <3>2. /\ r.id.series = s /\ s \in Speaking(run)
          /\ s.derived => r.dependencies = Basis(run, s)
      BY <1>0, <3>1, StatementFacts
    <3>3. s \in Classified(run)
      BY <1>0, <1>1, <3>2, SpeakingFacts
    <3> QED BY <1>1, <3>2, <3>3, BasisShown
  <2>2. CASE r \in Prior(run) /\ r \notin Closed(run) /\ r.id.series \in Speaking(run)
    <3>1. r.id.series \in Classified(run) /\ r.id.series \notin Stated(run)
      BY <1>0, <1>1, <2>2, SpeakingFacts
    <3>2. r \in Kept(run) /\ r \notin Restated(run)
      BY <2>2, <3>1, OpenStaysKept, RestatedMember
    <3>3. r.dependencies = Basis(run, r.id.series)
      BY <3>2, KeptMember
    <3> QED BY <3>1, <3>3, BasisShown
  <2>3. CASE r \in Prior(run) /\ r \notin Closed(run) /\ r.id.series \notin Speaking(run)
    BY <1>1, <2>3, UntouchedRests
  <2> QED BY <2>1, <2>2, <2>3, ViewSince
<1> QED BY <1>1 DEF AllRest

LEMMA ClassificationStep ==
  ASSUME RunsInv, RowsInv, ViewMatchesRuns, ClassificationRestsOnView,
         NEW run \in Submittable, ImportSnapshot(run)
  PROVE  ClassificationRestsOnView'
<1>0. (ClassificationRestsOnView <=>
         (DatesInOrder => \A d \in Date, k \in Clock : AllRest(d, k)))'
  BY ClassificationPointwise, PTL
<1> SUFFICES ASSUME DatesInOrder' PROVE \A d \in Date, k \in Clock : AllRest(d, k)'
  BY <1>0
<1>1. Before(run)
  BY ReadyBefore
<1> TAKE d \in Date, k \in Clock
<1>2. \/ k < run.accepted_at
      \/ run.accepted_at <= k /\ d < run.as_of
      \/ run.accepted_at <= k /\ run.as_of <= d
  BY ReadyBefore
<1> QED BY <1>1, <1>2, RestEarlierReader, RestEarlierDate, RestSince

-----------------------------------------------------------------------------
(* Replays, of the source that computes its changes again. *)

\* What a run compared with stays what it was, but for the clock of its end.
LEMMA PriorLater ==
  ASSUME NEW run, Before(run), ImportSnapshot(run), NEW a \in Runs,
         a.accepted_at <= run.accepted_at, NEW n
  PROVE  n \in Prior(a)' <=> \E p \in Prior(a) : n = Left(run, p)
<1>0. RunsInv /\ RowsInv /\ Latest(run) /\ run.accepted_at \in Nat /\ a.accepted_at \in Nat
  BY RunFields DEF Before, Latest
<1>1. n \in Prior(a)' <=>
        /\ n \in rows' /\ n.id.run # a.accepted_at /\ n.recorded_at < a.accepted_at
        /\ n.superseded_at # NULL => n.superseded_at >= a.accepted_at
        /\ n.valid_to = NULL
  BY DEF Prior
<1>2. \A p : p \in Prior(a) <=>
        /\ p \in rows /\ p.id.run # a.accepted_at /\ p.recorded_at < a.accepted_at
        /\ p.superseded_at # NULL => p.superseded_at >= a.accepted_at
        /\ p.valid_to = NULL
  BY DEF Prior
<1>3. n \in Closures(run) \cup Statements(run) => ~(n.recorded_at < a.accepted_at)
  <2>1. n \in Closures(run) \cup Statements(run) => n.recorded_at = run.accepted_at
    BY <1>0, ClosureMember, ClosureFacts, StatementMember, StatementFacts
  <2> QED BY <1>0, <2>1
<1>4. ASSUME NEW r \in rows, n = Left(run, r)
      PROVE  n \in Prior(a)' <=> r \in Prior(a)
  <2>1. /\ n.id = r.id /\ n.valid_to = r.valid_to /\ n.recorded_at = r.recorded_at
        /\ r \in Ended(run) => r.superseded_at = NULL /\ n.superseded_at = run.accepted_at
        /\ r \notin Ended(run) => n = r
    BY <1>0, <1>4, LeftFacts
  <2>2. n \in rows'
    BY <1>4, AfterMember
  <2>3. CASE r \in Ended(run)
    BY <1>0, <1>1, <1>2, <1>4, <2>1, <2>2, <2>3
  <2>4. CASE r \notin Ended(run)
    BY <1>1, <1>2, <1>4, <2>1, <2>2, <2>4
  <2> QED BY <2>3, <2>4
<1> QED BY <1>1, <1>2, <1>3, <1>4, AfterMember

LEMMA LeftOfPrior ==
  ASSUME NEW run, Before(run), NEW a \in Runs, NEW p \in Prior(a)
  PROVE  LET n == Left(run, p)
         IN  /\ n.id = p.id /\ n.value = p.value /\ n.dependencies = p.dependencies
             /\ n.valid_from = p.valid_from
  BY LeftFacts DEF Before, Prior

LEMMA RestatedLater ==
  ASSUME NEW run, Before(run), ImportSnapshot(run), NEW a \in Runs,
         a.accepted_at <= run.accepted_at, NEW n
  PROVE  n \in Restated(a)' <=> \E p \in Restated(a) : n = Left(run, p)
<1>1. source' = source
  BY DEF ImportSnapshot
<1>2. Stated(a)' = Stated(a) /\ \A s : ValueOf(a, s)' = ValueOf(a, s)
  BY <1>1, SourceOnly
<1>3. n \in Restated(a)' <=> /\ n \in Prior(a)' /\ n.id.series \in Stated(a)
                             /\ n.value = ValueOf(a, n.id.series)
  BY <1>2 DEF Restated
<1> QED BY <1>3, PriorLater, LeftOfPrior, RestatedMember

LEMMA ClaimOfUnique ==
  ASSUME NEW run, Before(run), NEW a \in Runs, NEW s, NEW p \in Restated(a), p.id.series = s
  PROVE  ClaimOf(a, s) = p.id
<1>1. PICK q \in Restated(a) : q.id.series = s /\ ClaimOf(a, s) = q.id
  BY ClaimOfCases
<1> QED BY <1>1, RestatedMember, PriorUnique DEF Before

LEMMA ClaimOfLater ==
  ASSUME NEW run, Before(run), ImportSnapshot(run), NEW a \in Runs,
         a.accepted_at <= run.accepted_at, NEW s
  PROVE  ClaimOf(a, s)' = ClaimOf(a, s)
<1> DEFINE later == {n \in Restated(a)' : n.id.series = s}
<1>1. \A n : n \in Restated(a)' <=> \E p \in Restated(a) : n = Left(run, p)
  BY RestatedLater
<1>2. \A p \in Restated(a) : Left(run, p).id = p.id
  BY LeftOfPrior, RestatedMember
<1>3. ClaimOf(a, s)' = IF later = {} THEN NewId(a, s) ELSE (CHOOSE n \in later : TRUE).id
  BY DEF ClaimOf, NewId
<1>4. CASE \E p \in Restated(a) : p.id.series = s /\ ClaimOf(a, s) = p.id
  <2>1. later # {}
    BY <1>1, <1>2, <1>4
  <2>2. PICK n \in later : n = CHOOSE m \in later : TRUE
    BY <2>1
  <2>3. PICK q \in Restated(a) : n = Left(run, q) /\ q.id.series = s
    BY <1>1, <1>2, <2>2
  <2>4. ClaimOf(a, s) = q.id
    BY <2>3, ClaimOfUnique
  <2> QED BY <1>2, <1>3, <2>1, <2>2, <2>3, <2>4
<1>5. CASE /\ \A p \in Restated(a) : p.id.series # s
           /\ ClaimOf(a, s) = NewId(a, s)
  <2>1. later = {}
    BY <1>1, <1>2, <1>5
  <2> QED BY <1>3, <1>5, <2>1
<1> QED BY <1>4, <1>5, ClaimOfCases

LEMMA BasisLater ==
  ASSUME NEW run, Before(run), ImportSnapshot(run), NEW a \in Runs,
         a.accepted_at <= run.accepted_at, NEW s
  PROVE  Basis(a, s)' = Basis(a, s)
<1>1. source' = source
  BY DEF ImportSnapshot
<1>2. Stated(a)' = Stated(a) /\ StatedBasis(a, s)' = StatedBasis(a, s)
  BY <1>1, SourceOnly
<1>3. \A key : ClaimOf(a, Of(s.site, key))' = ClaimOf(a, Of(s.site, key))
  <2>1. ASSUME NEW key PROVE ClaimOf(a, Of(s.site, key))' = ClaimOf(a, Of(s.site, key))
    <3>1. PICK w : w = Of(s.site, key)
      OBVIOUS
    <3>2. ClaimOf(a, w)' = ClaimOf(a, w)
      BY ClaimOfLater
    <3> QED BY <3>1, <3>2
  <2> QED BY <2>1
<1>4. UnmentionedCodes(a, s.site)' = UnmentionedCodes(a, s.site)
  <2>1. \A i : i \in UnmentionedCodes(a, s.site)' <=>
                 \E n \in Prior(a)' : /\ i = n.id /\ ~a.complete /\ n.id.series.site = s.site
                                      /\ n.id.series.key \in Code /\ n.id.series \notin Stated(a)
    BY <1>2 DEF UnmentionedCodes
  <2>2. \A i : i \in UnmentionedCodes(a, s.site) <=>
                 \E p \in Prior(a) : /\ i = p.id /\ ~a.complete /\ p.id.series.site = s.site
                                     /\ p.id.series.key \in Code /\ p.id.series \notin Stated(a)
    BY DEF UnmentionedCodes
  <2>3. \A i : i \in UnmentionedCodes(a, s.site)' <=> i \in UnmentionedCodes(a, s.site)
    BY <2>1, <2>2, PriorLater, LeftOfPrior
  <2> QED BY <2>3 DEF UnmentionedCodes
<1> QED BY <1>1, <1>2, <1>3, <1>4 DEF Basis

LEMMA KeptLater ==
  ASSUME NEW run, Before(run), ImportSnapshot(run), NEW a \in Runs,
         a.accepted_at <= run.accepted_at
  PROVE  /\ \A n : n \in Kept(a)' <=> \E p \in Kept(a) : n = Left(run, p)
         /\ Written(a)' = Written(a)
         /\ \A n : n \in Closed(a)' <=> \E p \in Closed(a) : n = Left(run, p)
<1>1. source' = source
  BY DEF ImportSnapshot
<1>2. /\ Classified(a)' = Classified(a) /\ Speaking(a)' = Speaking(a)
      /\ \A s : ValueOf(a, s)' = ValueOf(a, s)
  BY <1>1, SourceOnly
<1>3. \A p \in Prior(a) : /\ Left(run, p).id = p.id /\ Left(run, p).value = p.value
                          /\ Left(run, p).dependencies = p.dependencies
  BY LeftOfPrior
<1>4. \A n : n \in Prior(a)' <=> \E p \in Prior(a) : n = Left(run, p)
  BY PriorLater
<1>5. \A s : Basis(a, s)' = Basis(a, s)
  BY BasisLater
<1>6. \A n : n \in Kept(a)' <=>
           \/ n \in Restated(a)'
           \/ /\ n \in Prior(a)' /\ n.id.series \in Classified(a)
              /\ n.value = ValueOf(a, n.id.series)
              /\ n.dependencies = Basis(a, n.id.series)
  BY <1>2, <1>5 DEF Kept
<1>7. \A n : n \in Kept(a)' <=> \E p \in Kept(a) : n = Left(run, p)
  BY <1>3, <1>4, <1>6, RestatedLater, KeptMember
<1>8. \A p \in Kept(a) : Left(run, p).id = p.id
  BY <1>3, KeptFacts
<1>9. \A s : s \in Written(a)' <=> s \in Speaking(a) /\ \A n \in Kept(a)' : n.id.series # s
  BY <1>2 DEF Written
<1>10. \A s : s \in Written(a)' <=> s \in Written(a)
  BY <1>7, <1>8, <1>9, WrittenMember
<1>11. Written(a)' = Written(a)
  BY <1>10 DEF Written
<1>12. \A n : n \in Closed(a)' <=>
           /\ n \in Prior(a)'
           /\ n.id.series \in Written(a) \/ (a.complete /\ n.id.series \notin Speaking(a))
  BY <1>2, <1>11 DEF Closed
<1>13. \A n : n \in Closed(a)' <=> \E p \in Closed(a) : n = Left(run, p)
  BY <1>3, <1>4, <1>12, ClosedMember
<1> QED BY <1>7, <1>11, <1>13

LEMMA ClosureOfLater ==
  ASSUME NEW run, Before(run), ImportSnapshot(run), NEW a \in Runs,
         a.accepted_at <= run.accepted_at, NEW p \in Closed(a), NEW n, n = Left(run, p)
  PROVE  ClosureOf(a, n)' = ClosureOf(a, p)
<1>1. \A q \in Closed(a) : Left(run, q).id = q.id /\ Left(run, q).valid_from = q.valid_from
  BY LeftOfPrior, ClosedMember
<1>2. n.id = p.id /\ n.value = p.value /\ n.dependencies = p.dependencies
      /\ n.valid_from = p.valid_from
  BY LeftOfPrior, ClosedMember
<1>3. \A m : m \in Bounded(a)' <=> \E q \in Bounded(a) : m = Left(run, q)
  <2>1. \A m : m \in Bounded(a)' <=> m \in Closed(a)' /\ m.valid_from < a.as_of
    BY DEF Bounded, ClosesInterval
  <2>2. \A m : m \in Bounded(a) <=> m \in Closed(a) /\ m.valid_from < a.as_of
    BY DEF Bounded, ClosesInterval
  <2> QED BY <1>1, <2>1, <2>2, KeptLater
<1>4. \A d : (\E m \in Bounded(a)' : m.id = d) <=> (\E q \in Bounded(a) : q.id = d)
  BY <1>1, <1>3 DEF Bounded
<1> DEFINE Moved(B, d) == IF \E q \in B : q.id = d
                            THEN [d EXCEPT !.run = a.accepted_at, !.closure = TRUE] ELSE d
<1>5. ClosedDependencies(a, n, Bounded(a)') = ClosedDependencies(a, p, Bounded(a))
  <2>1. \A d : Moved(Bounded(a)', d) = Moved(Bounded(a), d)
    BY <1>4
  <2>2. ClosedDependencies(a, n, Bounded(a)') = {Moved(Bounded(a)', d) : d \in p.dependencies}
    BY <1>2 DEF ClosedDependencies
  <2>3. ClosedDependencies(a, p, Bounded(a)) = {Moved(Bounded(a), d) : d \in p.dependencies}
    BY DEF ClosedDependencies
  <2> HIDE DEF Moved
  <2> QED BY <2>1, <2>2, <2>3
<1>6. ClosureId(a, n) = ClosureId(a, p)
  BY <1>2 DEF ClosureId
<1> QED BY <1>2, <1>5, <1>6 DEF ClosureOf, Row, ClosureId, ClosedDependencies

LEMMA AddedLater ==
  ASSUME NEW run, Before(run), ImportSnapshot(run), NEW a \in Runs,
         a.accepted_at <= run.accepted_at, NEW n
  PROVE  /\ n \in Closures(a)' <=> n \in Closures(a)
         /\ n \in Statements(a)' <=> n \in Statements(a)
<1>1. source' = source
  BY DEF ImportSnapshot
<1>2. \A s : ValueOf(a, s)' = ValueOf(a, s)
  BY <1>1, SourceOnly
<1>3. \A m : m \in Closed(a)' <=> \E p \in Closed(a) : m = Left(run, p)
  BY KeptLater
<1>4. n \in Closures(a)' <=>
        \E m \in Closed(a)' : m.valid_from < a.as_of /\ n = ClosureOf(a, m)'
  BY DEF Closures, ClosesInterval, Bounded, ClosureOf
<1>5. \A p \in Closed(a) : Left(run, p).valid_from = p.valid_from
  BY LeftOfPrior, ClosedMember
<1>6. n \in Closures(a)' <=> n \in Closures(a)
  BY <1>3, <1>4, <1>5, ClosureMember, ClosureOfLater
<1>7. Written(a)' = Written(a)
  BY KeptLater
<1>8. \A s : Basis(a, s)' = Basis(a, s)
  BY BasisLater
<1>9. n \in Statements(a)' <=> \E s \in Written(a) : n = StatementOf(a, s)'
  BY <1>7 DEF Statements, StatementOf
<1>10. \A s : StatementOf(a, s)' = StatementOf(a, s)
  BY <1>2, <1>8 DEF StatementOf, Row, NewId
<1>11. n \in Statements(a)' <=> n \in Statements(a)
  BY <1>9, <1>10, StatementMember
<1> QED BY <1>6, <1>11

LEMMA ContentLeft ==
  ASSUME RunsInv, RowsInv, NEW run, Latest(run), NEW r \in rows
  PROVE  Content(Left(run, r)) = Content(r)
<1>1. DOMAIN r = Fields
  BY DEF RowsInv, RowInv, RowType
<1> QED BY <1>1 DEF Content, Left, Fields

LEMMA ContentOfNew ==
  ASSUME NEW run, NEW n \in Closures(run) \cup Statements(run)
  PROVE  Content(n) = n
<1>1. PICK id, from, to, t, value, dependencies : n = Row(id, from, to, t, value, dependencies)
  BY DEF Closures, Statements
<1> QED BY <1>1 DEF Content, Row

LEMMA RecomputesStep ==
  ASSUME NEW run, Before(run), ImportSnapshot(run), NEW a \in runs \cup {run},
         a = run \/ Recomputes(a)
  PROVE  Recomputes(a)'
<1>0. RunsInv /\ RowsInv /\ Latest(run) /\ run.accepted_at \in Nat /\ run.accepted_at # NULL
  BY RunFields DEF Before, Latest
<1>1. /\ a \in Runs /\ a.accepted_at \in Nat /\ a.accepted_at # NULL
      /\ a.accepted_at <= run.accepted_at
      /\ a # run => a.accepted_at < run.accepted_at
  <2>1. a \in Runs
    BY <1>0 DEF RunsInv, Latest
  <2> QED BY <1>0, <2>1, RunFields DEF Latest
<1>2. /\ \A n : n \in Kept(a)' <=> \E p \in Kept(a) : n = Left(run, p)
      /\ \A n : n \in Closed(a)' <=> \E p \in Closed(a) : n = Left(run, p)
  BY <1>1, KeptLater
<1>3. \A p \in Kept(a) \cup Closed(a) :
        /\ p \in rows
        /\ p \in Ended(run) => Left(run, p).superseded_at = run.accepted_at
        /\ p \notin Ended(run) => Left(run, p) = p
        /\ p.superseded_at # NULL => Left(run, p) = p
  BY <1>0, LeftFacts, KeptFacts, ClosedMember DEF Prior
<1>4. ASSUME NEW p \in Closed(a) PROVE Left(run, p).superseded_at = a.accepted_at
  <2>1. CASE a = run
    BY <1>3, <2>1, EndedIsClosed
  <2>2. CASE a # run
    <3>1. p.superseded_at = a.accepted_at
      BY <2>2 DEF Recomputes
    <3> QED BY <1>1, <1>3, <3>1
  <2> QED BY <2>1, <2>2
<1>5. ASSUME NEW p \in Kept(a), Left(run, p).superseded_at # NULL
      PROVE  Left(run, p).superseded_at > a.accepted_at
  <2>1. CASE a = run
    <3>1. p \notin Ended(run) /\ p \in Prior(run)
      BY <2>1, KeptFacts, EndedIsClosed
    <3>2. p.superseded_at = NULL
      BY <1>0, <3>1, PriorIsOpen
    <3> QED BY <1>3, <1>5, <3>1, <3>2
  <2>2. CASE a # run
    <3>1. p.superseded_at # NULL => p.superseded_at > a.accepted_at
      BY <2>2 DEF Recomputes
    <3>2. CASE p \in Ended(run)
      BY <1>0, <1>1, <1>3, <2>2, <3>2
    <3>3. CASE p \notin Ended(run)
      BY <1>3, <1>5, <3>1, <3>3
    <3> QED BY <3>2, <3>3
  <2> QED BY <2>1, <2>2
<1>6. ASSUME NEW n \in Closures(a) \cup Statements(a)
      PROVE  \E r \in rows' : n = Content(r)
  <2>1. CASE a = run
    BY <1>6, <2>1, ContentOfNew, AfterMember
  <2>2. CASE a # run
    <3>1. PICK r \in rows : n = Content(r)
      BY <1>6, <2>2 DEF Recomputes
    <3>2. Left(run, r) \in rows'
      BY AfterMember
    <3> QED BY <1>0, <3>1, <3>2, ContentLeft
  <2> QED BY <2>1, <2>2
<1>7. \A n : n \in Closures(a)' \cup Statements(a)' => n \in Closures(a) \cup Statements(a)
  BY <1>1, AddedLater
<1>8. \A n \in Closed(a)' : n.superseded_at = a.accepted_at
  BY <1>2, <1>4
<1>9. \A n \in Kept(a)' : n.superseded_at # NULL => n.superseded_at > a.accepted_at
  BY <1>2, <1>5
<1>10. (Closures(a) \cup Statements(a))' \subseteq {Content(r) : r \in rows'}
  BY <1>6, <1>7
<1> QED BY <1>8, <1>9, <1>10 DEF Recomputes, Content

-----------------------------------------------------------------------------
(* Replays, of the sources that look at the view. *)

LEMMA ShownBasisMember ==
  ASSUME NEW run, NEW view, NEW s, NEW i
  PROVE  i \in ShownBasis(run, view, s) <=>
           \E key \in StatedBasis(run, s) : \E q \in view :
             q.id.series = Of(s.site, key) /\ q.id = i
  BY DEF ShownBasis, ShownBy

\* The view states the snapshot.
Restates(run, view) ==
  \A s \in Speaking(run) : \E r \in view :
    /\ r.id.series = s /\ r.value = ValueOf(run, s)
    /\ ~s.derived => r.dependencies = {}
    /\ s.derived =>
         \A i : i \in r.dependencies <=>
           \E key \in StatedBasis(run, s) : \E q \in view :
             q.id.series = Of(s.site, key) /\ q.id = i

EndedEarlier(run, p) ==
  /\ p.id.run # run.accepted_at /\ p.superseded_at = run.accepted_at /\ p.valid_from < run.as_of

\* The claims that a run made are what its view shows of them and what it closed.
Accounts(run, view) ==
  /\ run.complete => \A r \in view : r.id.series \in Speaking(run)
  /\ \A r \in view : (r.id.run = run.accepted_at /\ r.id.series \in Speaking(run))
                      => r.id = NewId(run, r.id.series)
  /\ \A p \in rows : EndedEarlier(run, p) =>
       \E r \in rows : /\ r.id = ClosureId(run, p) /\ r.valid_to = run.as_of
                       /\ r.recorded_at = run.accepted_at
  /\ \A i : (\E r \in rows : r.id.run = run.accepted_at /\ r.id = i) <=>
       \/ \E r \in view : /\ r.id.run = run.accepted_at /\ r.id.series \in Speaking(run)
                          /\ r.id = i
       \/ \E p \in rows : EndedEarlier(run, p) /\ i = ClosureId(run, p)

LEMMA VerifiesPointwise ==
  ASSUME NEW run
  PROVE  VerifiesFromView(run) <=>
           /\ Restates(run, View(run.as_of, run.accepted_at))
           /\ Accounts(run, View(run.as_of, run.accepted_at))
<1> DEFINE view == View(run.as_of, run.accepted_at)
           superseded == {p \in rows : p.id.run # run.accepted_at /\ p.superseded_at = run.accepted_at}
           closures == {ClosureId(run, p) : p \in {q \in superseded : ClosesInterval(run, q)}}
           created == {r \in view : r.id.run = run.accepted_at /\ r.id.series \in Speaking(run)}
           series == {r.id.series : r \in view}
           mine == {r.id : r \in {q \in rows : q.id.run = run.accepted_at}}
           createdIds == {r.id : r \in created}
<1>1. VerifiesFromView(run) <=>
        /\ \A s \in Speaking(run) : \E r \in view :
             /\ r.id.series = s /\ r.value = ValueOf(run, s)
             /\ r.dependencies = IF s.derived THEN ShownBasis(run, view, s) ELSE {}
        /\ run.complete => series = Speaking(run)
        /\ \A r \in created : r.id = NewId(run, r.id.series)
        /\ \A i \in closures : \E r \in rows :
             r.id = i /\ r.valid_to = run.as_of /\ r.recorded_at = run.accepted_at
        /\ mine = createdIds \cup closures
  BY DEF VerifiesFromView
<1>2. ASSUME NEW s
      PROVE  (\E r \in view :
                /\ r.id.series = s /\ r.value = ValueOf(run, s)
                /\ r.dependencies = IF s.derived THEN ShownBasis(run, view, s) ELSE {})
             <=> \E r \in view :
                /\ r.id.series = s /\ r.value = ValueOf(run, s)
                /\ ~s.derived => r.dependencies = {}
                /\ s.derived =>
                     \A i : i \in r.dependencies <=>
                       \E key \in StatedBasis(run, s) : \E q \in view :
                         q.id.series = Of(s.site, key) /\ q.id = i
  <2>1. ASSUME NEW r
        PROVE  r.dependencies = ShownBasis(run, view, s) <=>
                 \A i : i \in r.dependencies <=>
                   \E key \in StatedBasis(run, s) : \E q \in view :
                     q.id.series = Of(s.site, key) /\ q.id = i
    <3>1. r.dependencies = ShownBasis(run, view, s) <=>
            \A i : i \in r.dependencies <=> i \in ShownBasis(run, view, s)
      BY DEF ShownBasis
    <3> HIDE DEF view
    <3> QED BY <3>1, ShownBasisMember
  <2> HIDE DEF view
  <2> QED BY <2>1
<1>3. (\A s \in Speaking(run) : \E r \in view :
             /\ r.id.series = s /\ r.value = ValueOf(run, s)
             /\ r.dependencies = IF s.derived THEN ShownBasis(run, view, s) ELSE {})
        <=> Restates(run, view)
  <2> DEFINE Stored(s) == \E r \in view :
               /\ r.id.series = s /\ r.value = ValueOf(run, s)
               /\ r.dependencies = IF s.derived THEN ShownBasis(run, view, s) ELSE {}
             Spelled(s) == \E r \in view :
               /\ r.id.series = s /\ r.value = ValueOf(run, s)
               /\ ~s.derived => r.dependencies = {}
               /\ s.derived =>
                    \A i : i \in r.dependencies <=>
                      \E key \in StatedBasis(run, s) : \E q \in view :
                        q.id.series = Of(s.site, key) /\ q.id = i
  <2> HIDE DEF view
  <2>1. \A s : Stored(s) <=> Spelled(s)
    BY <1>2
  <2>2. Restates(run, view) <=> \A s \in Speaking(run) : Spelled(s)
    BY DEF Restates
  <2> HIDE DEF Stored, Spelled
  <2>3. (\A s \in Speaking(run) : Stored(s)) <=> Restates(run, view)
    BY <2>1, <2>2
  <2> QED BY <2>3 DEF Stored
<1>4. \A p : (p \in superseded /\ ClosesInterval(run, p)) <=> p \in rows /\ EndedEarlier(run, p)
  BY DEF EndedEarlier, ClosesInterval
<1>5. \A i : i \in closures <=> \E p \in rows : EndedEarlier(run, p) /\ i = ClosureId(run, p)
  BY <1>4
<1>6. \A i : i \in mine <=> \E r \in rows : r.id.run = run.accepted_at /\ r.id = i
  OBVIOUS
<1>7. \A i : i \in createdIds <=>
               \E r \in view : /\ r.id.run = run.accepted_at /\ r.id.series \in Speaking(run)
                               /\ r.id = i
  OBVIOUS
<1>8. mine = createdIds \cup closures <=>
        \A i : i \in mine <=> i \in createdIds \/ i \in closures
  OBVIOUS
<1>9. Restates(run, view) =>
        (series = Speaking(run) <=> \A r \in view : r.id.series \in Speaking(run))
  <2>1. \A s : s \in series <=> \E r \in view : r.id.series = s
    OBVIOUS
  <2>2. series = Speaking(run) <=> \A s : s \in series <=> s \in Speaking(run)
    BY DEF Speaking
  <2> HIDE DEF view, series
  <2> QED BY <2>1, <2>2 DEF Restates
<1>10. \A r : r \in created <=>
                r \in view /\ r.id.run = run.accepted_at /\ r.id.series \in Speaking(run)
  OBVIOUS
<1> HIDE DEF view, superseded, closures, created, series, mine, createdIds
<1>11. ASSUME Restates(run, view) PROVE VerifiesFromView(run) <=> Accounts(run, view)
  <2>1. (run.complete => series = Speaking(run)) <=>
        (run.complete => \A r \in view : r.id.series \in Speaking(run))
    BY <1>9, <1>11
  <2>2. (\A r \in created : r.id = NewId(run, r.id.series)) <=>
        \A r \in view : (r.id.run = run.accepted_at /\ r.id.series \in Speaking(run))
                         => r.id = NewId(run, r.id.series)
    BY <1>10
  <2>3. (\A i \in closures : \E r \in rows :
           r.id = i /\ r.valid_to = run.as_of /\ r.recorded_at = run.accepted_at) <=>
        \A p \in rows : EndedEarlier(run, p) =>
          \E r \in rows : /\ r.id = ClosureId(run, p) /\ r.valid_to = run.as_of
                          /\ r.recorded_at = run.accepted_at
    BY <1>5
  <2>4. mine = createdIds \cup closures <=>
        \A i : (\E r \in rows : r.id.run = run.accepted_at /\ r.id = i) <=>
          \/ \E r \in view : /\ r.id.run = run.accepted_at /\ r.id.series \in Speaking(run)
                             /\ r.id = i
          \/ \E p \in rows : EndedEarlier(run, p) /\ i = ClosureId(run, p)
    BY <1>5, <1>6, <1>7, <1>8
  <2>5. \A s \in Speaking(run) : \E r \in view :
             /\ r.id.series = s /\ r.value = ValueOf(run, s)
             /\ r.dependencies = IF s.derived THEN ShownBasis(run, view, s) ELSE {}
    BY <1>3, <1>11
  <2> DEFINE A1 == run.complete => series = Speaking(run)
             A2 == \A r \in created : r.id = NewId(run, r.id.series)
             A3 == \A i \in closures : \E r \in rows :
                     r.id = i /\ r.valid_to = run.as_of /\ r.recorded_at = run.accepted_at
             A4 == mine = createdIds \cup closures
  <2>6. VerifiesFromView(run) <=> A1 /\ A2 /\ A3 /\ A4
    BY <1>1, <2>5
  <2>7. Accounts(run, view) <=> A1 /\ A2 /\ A3 /\ A4
    BY <2>1, <2>2, <2>3, <2>4 DEF Accounts
  <2> QED BY <2>6, <2>7
<1>12. VerifiesFromView(run) => Restates(run, view)
  BY <1>1, <1>3
<1>13. VerifiesFromView(run) <=> Restates(run, view) /\ Accounts(run, view)
  BY <1>11, <1>12
<1> QED BY <1>13 DEF view

VerifyingMeansBoth ==
  \A run : VerifiesFromView(run) <=>
             /\ Restates(run, View(run.as_of, run.accepted_at))
             /\ Accounts(run, View(run.as_of, run.accepted_at))

LEMMA VerifiesMeans == VerifyingMeansBoth
  BY VerifiesPointwise DEF VerifyingMeansBoth

LEMMA EndedEarlierLater ==
  ASSUME NEW run, Before(run), ImportSnapshot(run), NEW a \in runs, NEW i
  PROVE  (\E n \in rows' : EndedEarlier(a, n) /\ i = ClosureId(a, n))
           <=> \E p \in rows : EndedEarlier(a, p) /\ i = ClosureId(a, p)
<1>0. RunsInv /\ RowsInv /\ Latest(run)
  BY DEF Before
<1>1. a.accepted_at \in Nat /\ a.accepted_at < run.accepted_at /\ run.accepted_at \in Nat
      /\ a.accepted_at # NULL
  BY <1>0, RunFields DEF Latest, RunsInv
<1>2. \A n \in Closures(run) \cup Statements(run) : n.superseded_at = NULL
  BY <1>0, ClosureMember, ClosureFacts, StatementMember, StatementFacts
<1>3. ASSUME NEW r \in rows PROVE EndedEarlier(a, Left(run, r)) <=> EndedEarlier(a, r)
  <2>1. /\ r \in Ended(run) => /\ r.superseded_at = NULL
                               /\ Left(run, r).superseded_at = run.accepted_at
        /\ r \notin Ended(run) => Left(run, r) = r
    BY <1>0, LeftFacts
  <2> QED BY <1>1, <2>1 DEF EndedEarlier
<1>4. \A r \in rows : ClosureId(a, Left(run, r)) = ClosureId(a, r)
  BY <1>0, LeftFacts DEF ClosureId
<1>5. \A n \in rows' : EndedEarlier(a, n) => \E r \in rows : n = Left(run, r)
  BY <1>1, <1>2, AfterMember DEF EndedEarlier
<1>6. \A r \in rows : Left(run, r) \in rows'
  BY AfterMember
<1> QED BY <1>3, <1>4, <1>5, <1>6

\* An earlier run still verifies: what it was shown and what it made are as they were.
LEMMA VerifiesLater ==
  ASSUME NEW run, Before(run), ImportSnapshot(run), NEW a \in runs, VerifiesFromView(a)
  PROVE  VerifiesFromView(a)'
<1> DEFINE view == View(a.as_of, a.accepted_at)
<1>0. RunsInv /\ RowsInv /\ Latest(run) /\ source' = source /\ a \in Runs
  BY DEF Before, ImportSnapshot, RunsInv
<1>1. /\ a.accepted_at \in Nat /\ a.accepted_at < run.accepted_at /\ a.accepted_at \in Clock
      /\ a.as_of \in Date /\ run.accepted_at \in Nat
  BY <1>0, RunFields DEF Latest
<1>2. Restates(a, view) /\ Accounts(a, view)
  BY VerifiesPointwise
<1>3. \A n : n \in view' <=> \E r \in view : n = Left(run, r)
  BY <1>1, ViewBeforeImport
<1>4. view \subseteq rows
  BY ViewMember
<1>5. \A r \in rows :
        /\ Left(run, r).id = r.id /\ Left(run, r).value = r.value
        /\ Left(run, r).dependencies = r.dependencies /\ Left(run, r).valid_to = r.valid_to
        /\ Left(run, r).recorded_at = r.recorded_at
  BY <1>0, LeftFacts
<1>6. /\ Speaking(a)' = Speaking(a)
      /\ \A s : ValueOf(a, s)' = ValueOf(a, s) /\ StatedBasis(a, s)' = StatedBasis(a, s)
  BY <1>0, SourceOnly
<1>7. \A r \in rows : Left(run, r) \in rows'
  BY AfterMember
<1>8. \A n \in Closures(run) \cup Statements(run) : n.id.run # a.accepted_at
  <2>1. \A n \in Closures(run) \cup Statements(run) : n.id.run = run.accepted_at
    BY <1>0, ClosureMember, ClosureFacts, StatementMember, StatementFacts
  <2> QED BY <1>1, <2>1
<1> HIDE DEF view
<1>9. Restates(a, view)'
  <2>1. ASSUME NEW s \in Speaking(a)
        PROVE  \E n \in view' :
                 /\ n.id.series = s /\ n.value = ValueOf(a, s)
                 /\ ~s.derived => n.dependencies = {}
                 /\ s.derived =>
                      \A i : i \in n.dependencies <=>
                        \E key \in StatedBasis(a, s) : \E q \in view' :
                          q.id.series = Of(s.site, key) /\ q.id = i
    <3>1. PICK r \in view :
             /\ r.id.series = s /\ r.value = ValueOf(a, s)
             /\ ~s.derived => r.dependencies = {}
             /\ s.derived =>
                  \A i : i \in r.dependencies <=>
                    \E key \in StatedBasis(a, s) : \E q \in view :
                      q.id.series = Of(s.site, key) /\ q.id = i
      BY <1>2 DEF Restates
    <3>2. \A i, w : (\E q \in view' : q.id.series = w /\ q.id = i)
                      <=> \E q \in view : q.id.series = w /\ q.id = i
      BY <1>3, <1>4, <1>5
    <3>3. PICK n \in view' : n = Left(run, r)
      BY <1>3
    <3>4. n.id = r.id /\ n.value = r.value /\ n.dependencies = r.dependencies
      BY <1>4, <1>5, <3>3
    <3>5. s.derived =>
            \A i : i \in n.dependencies <=>
              \E key \in StatedBasis(a, s) : \E q \in view' :
                q.id.series = Of(s.site, key) /\ q.id = i
      BY <3>1, <3>2, <3>4
    <3> QED BY <3>1, <3>4, <3>5
  <2>2. \A s \in Speaking(a)' : \E n \in view' :
          /\ n.id.series = s /\ n.value = ValueOf(a, s)'
          /\ ~s.derived => n.dependencies = {}
          /\ s.derived =>
               \A i : i \in n.dependencies <=>
                 \E key \in StatedBasis(a, s)' : \E q \in view' :
                   q.id.series = Of(s.site, key) /\ q.id = i
    BY <1>6, <2>1
  <2> QED BY <2>2 DEF Restates, Of
<1>10. Accounts(a, view)'
  <2>1. a.complete => \A n \in view' : n.id.series \in Speaking(a)
    BY <1>2, <1>3, <1>4, <1>5 DEF Accounts
  <2>2. \A n \in view' : (n.id.run = a.accepted_at /\ n.id.series \in Speaking(a))
                         => n.id = NewId(a, n.id.series)
    BY <1>2, <1>3, <1>4, <1>5 DEF Accounts
  <2>3. \A n \in rows' : EndedEarlier(a, n) =>
          \E r \in rows' : /\ r.id = ClosureId(a, n) /\ r.valid_to = a.as_of
                           /\ r.recorded_at = a.accepted_at
    <3>1. ASSUME NEW n \in rows', EndedEarlier(a, n)
          PROVE  \E r \in rows' : /\ r.id = ClosureId(a, n) /\ r.valid_to = a.as_of
                                  /\ r.recorded_at = a.accepted_at
      <4>1. PICK p \in rows : EndedEarlier(a, p) /\ ClosureId(a, n) = ClosureId(a, p)
        BY <3>1, EndedEarlierLater
      <4>2. PICK r \in rows : /\ r.id = ClosureId(a, p) /\ r.valid_to = a.as_of
                              /\ r.recorded_at = a.accepted_at
        BY <1>2, <4>1 DEF Accounts
      <4> QED BY <1>5, <1>7, <4>1, <4>2
    <3> QED BY <3>1
  <2>4. ASSUME NEW i
        PROVE  (\E r \in rows' : r.id.run = a.accepted_at /\ r.id = i) <=>
                 \/ \E r \in view' : /\ r.id.run = a.accepted_at /\ r.id.series \in Speaking(a)
                                     /\ r.id = i
                 \/ \E p \in rows' : EndedEarlier(a, p) /\ i = ClosureId(a, p)
    <3>1. (\E r \in rows' : r.id.run = a.accepted_at /\ r.id = i)
            <=> \E r \in rows : r.id.run = a.accepted_at /\ r.id = i
      BY <1>5, <1>7, <1>8, AfterMember
    <3>2. (\E r \in view' : r.id.run = a.accepted_at /\ r.id.series \in Speaking(a) /\ r.id = i)
            <=> \E r \in view : r.id.run = a.accepted_at /\ r.id.series \in Speaking(a) /\ r.id = i
      BY <1>3, <1>4, <1>5
    <3>3. (\E p \in rows' : EndedEarlier(a, p) /\ i = ClosureId(a, p))
            <=> \E p \in rows : EndedEarlier(a, p) /\ i = ClosureId(a, p)
      BY EndedEarlierLater
    <3> QED BY <1>2, <3>1, <3>2, <3>3 DEF Accounts
  <2> QED BY <1>6, <2>1, <2>2, <2>3, <2>4 DEF Accounts, EndedEarlier, NewId, ClosureId
<1>11. (VerifiesFromView(a) <=> Restates(a, view) /\ Accounts(a, view))'
  <2>1. VerifyingMeansBoth'
    BY VerifiesMeans, PTL
  <2> QED BY <2>1 DEF view, VerifyingMeansBoth
<1> QED BY <1>9, <1>10, <1>11

\* The latest run verifies as soon as it is stored.
LEMMA VerifiesNew ==
  ASSUME NEW run, Before(run), ImportSnapshot(run), source # "epa_frs"
  PROVE  VerifiesFromView(run)'
<1> DEFINE view == View(run.as_of, run.accepted_at)
<1>0. /\ RunsInv /\ RowsInv /\ Latest(run) /\ source' = source /\ run \in Runs
      /\ source \in Source
  BY DEF Before, ImportSnapshot, RunsInv, Latest
<1>1. /\ run.accepted_at \in Nat /\ run.accepted_at \in Clock /\ run.accepted_at # NULL
      /\ run.as_of \in Date /\ run.as_of \in Nat
  BY <1>0, RunFields
<1>2. \A n : n \in view' <=> \/ n \in Prior(run) /\ n \notin Closed(run)
                             \/ n \in Statements(run)
  BY <1>1, ViewSince
<1>3. \A s \in Stated(run) : \E q \in view' :
        /\ q.id.series = s /\ q.id = ClaimOf(run, s)
        /\ \A o \in view' : o.id.series = s => o = q
  BY <1>1, ClaimShown
<1>4. /\ Speaking(run)' = Speaking(run)
      /\ \A s : ValueOf(run, s)' = ValueOf(run, s) /\ StatedBasis(run, s)' = StatedBasis(run, s)
  BY <1>0, SourceOnly
<1>5. ASSUME NEW n \in Statements(run)
      PROVE  /\ n.id = NewId(run, n.id.series) /\ n.id.series \in Speaking(run)
             /\ n.id.run = run.accepted_at /\ n.superseded_at = NULL /\ n \in rows'
  <2>1. PICK s \in Written(run) : n = StatementOf(run, s)
    BY StatementMember
  <2> QED BY <1>0, <2>1, StatementFacts, AfterMember
<1>6. \A n \in Closures(run) : n.superseded_at = NULL
  BY <1>0, ClosureMember, ClosureFacts
<1>7. \A p \in Prior(run) : p.id.run # run.accepted_at
  BY DEF Prior
<1>8. \A r \in rows : Left(run, r).id = r.id /\ Left(run, r).valid_from = r.valid_from
                      /\ r.id.run # run.accepted_at
  BY <1>0, LeftFacts, RowBefore
<1>9. \A i : (\E n \in rows' : EndedEarlier(run, n) /\ i = ClosureId(run, n))
               <=> \E n \in Closures(run) : i = n.id
  <2>1. ASSUME NEW n \in rows', EndedEarlier(run, n)
        PROVE  \E m \in Closures(run) : ClosureId(run, n) = m.id
    <3>1. PICK r \in rows : n = Left(run, r)
      BY <1>1, <1>5, <1>6, <2>1, AfterMember DEF EndedEarlier
    <3>2. r \in Ended(run)
      BY <1>0, <2>1, <3>1, LeftFacts, RowBefore DEF EndedEarlier
    <3>3. r \in Closed(run) /\ r.valid_from < run.as_of
      BY <1>8, <2>1, <3>1, <3>2, EndedIsClosed DEF EndedEarlier
    <3>4. PICK m : m = ClosureOf(run, r)
      OBVIOUS
    <3>5. m \in Closures(run) /\ m.id = ClosureId(run, r)
      BY <1>0, <3>3, <3>4, ClosureMember, ClosureFacts
    <3>6. ClosureId(run, n) = ClosureId(run, r)
      BY <1>8, <3>1 DEF ClosureId
    <3> QED BY <3>5, <3>6
  <2>2. ASSUME NEW m \in Closures(run)
        PROVE  \E n \in rows' : EndedEarlier(run, n) /\ m.id = ClosureId(run, n)
    <3>1. PICK p \in Closed(run) : p.valid_from < run.as_of /\ m = ClosureOf(run, p)
      BY ClosureMember
    <3>2. p \in rows /\ m.id = ClosureId(run, p)
      BY <1>0, <3>1, ClosureFacts
    <3>3. PICK n : n = Left(run, p)
      OBVIOUS
    <3>4. n.id = p.id /\ n.valid_from = p.valid_from /\ n.superseded_at = run.accepted_at
      BY <1>0, <3>1, <3>2, <3>3, LeftFacts, EndedIsClosed
    <3>5. n \in rows'
      BY <3>2, <3>3, AfterMember
    <3>6. ClosureId(run, n) = ClosureId(run, p)
      BY <3>4 DEF ClosureId
    <3>7. EndedEarlier(run, n)
      BY <1>8, <3>1, <3>2, <3>4 DEF EndedEarlier
    <3> QED BY <3>2, <3>5, <3>6, <3>7
  <2> QED BY <2>1, <2>2
<1> HIDE DEF view
<1>10. Restates(run, view)'
  <2>1. ASSUME NEW s \in Speaking(run)
        PROVE  \E n \in view' :
                 /\ n.id.series = s /\ n.value = ValueOf(run, s)
                 /\ ~s.derived => n.dependencies = {}
                 /\ s.derived => n.dependencies = Basis(run, s)
    <3>1. CASE s \in Written(run)
      <4>1. PICK n : n = StatementOf(run, s)
        OBVIOUS
      <4>2. n \in Statements(run)
        BY <3>1, <4>1, StatementMember
      <4> QED BY <1>0, <1>2, <3>1, <4>1, <4>2, StatementFacts
    <3>2. CASE \E p \in Kept(run) : p.id.series = s
      <4>1. PICK p \in Kept(run) : p.id.series = s
        BY <3>2
      <4>2. p \in Prior(run) /\ p \notin Closed(run) /\ p \in rows /\ p.value = ValueOf(run, s)
        BY <4>1, KeptFacts
      <4>3. ~s.derived => p.dependencies = {}
        BY <1>0, <4>1, <4>2 DEF RowsInv, RowInv
      <4>4. s.derived => p.dependencies = Basis(run, s)
        BY <1>0, <4>1, KeptMember, RestatedMember, StatedFacts
      <4> QED BY <1>2, <4>1, <4>2, <4>3, <4>4
    <3> QED BY <3>1, <3>2, KeptOrWritten
  <2>2. ASSUME NEW s \in Speaking(run), s.derived, NEW i
        PROVE  i \in Basis(run, s) <=>
                 \E key \in StatedBasis(run, s) : \E q \in view' :
                   q.id.series = Of(s.site, key) /\ q.id = i
    <3>1. s \in Classified(run)
      BY <1>0, <2>2, SpeakingFacts
    <3>2. \A key \in StatedBasis(run, s) : Of(s.site, key) \in Stated(run)
      BY <1>0, <3>1, BasisStated
    <3>3. i \in Basis(run, s) <=> \E key \in StatedBasis(run, s) : i = ClaimOf(run, Of(s.site, key))
      BY BasisMember
    <3>4. ASSUME NEW key \in StatedBasis(run, s)
          PROVE  i = ClaimOf(run, Of(s.site, key)) <=>
                   \E q \in view' : q.id.series = Of(s.site, key) /\ q.id = i
      <4>1. PICK w : w = Of(s.site, key) /\ w \in Stated(run)
        BY <3>2
      <4>2. PICK q \in view' : /\ q.id.series = w /\ q.id = ClaimOf(run, w)
                               /\ \A o \in view' : o.id.series = w => o = q
        BY <1>3, <4>1
      <4> QED BY <4>1, <4>2
    <3> QED BY <3>3, <3>4
  <2>3. ASSUME NEW s \in Speaking(run)
        PROVE  \E n \in view' :
                 /\ n.id.series = s /\ n.value = ValueOf(run, s)
                 /\ ~s.derived => n.dependencies = {}
                 /\ s.derived =>
                      \A i : i \in n.dependencies <=>
                        \E key \in StatedBasis(run, s) : \E q \in view' :
                          q.id.series = Of(s.site, key) /\ q.id = i
    BY <2>1, <2>2
  <2>4. \A s \in Speaking(run)' : \E n \in view' :
          /\ n.id.series = s /\ n.value = ValueOf(run, s)'
          /\ ~s.derived => n.dependencies = {}
          /\ s.derived =>
               \A i : i \in n.dependencies <=>
                 \E key \in StatedBasis(run, s)' : \E q \in view' :
                   q.id.series = Of(s.site, key) /\ q.id = i
    BY <1>4, <2>3
  <2> QED BY <2>4 DEF Restates, Of
<1>11. Accounts(run, view)'
  <2>1. run.complete => \A n \in view' : n.id.series \in Speaking(run)
    BY <1>2, <1>5, ClosedMember
  <2>2. \A n \in view' : (n.id.run = run.accepted_at /\ n.id.series \in Speaking(run))
                         => n.id = NewId(run, n.id.series)
    BY <1>2, <1>5, <1>7
  <2>3. \A n \in rows' : EndedEarlier(run, n) =>
          \E r \in rows' : /\ r.id = ClosureId(run, n) /\ r.valid_to = run.as_of
                           /\ r.recorded_at = run.accepted_at
    <3>1. ASSUME NEW n \in rows', EndedEarlier(run, n)
          PROVE  \E r \in rows' : /\ r.id = ClosureId(run, n) /\ r.valid_to = run.as_of
                                  /\ r.recorded_at = run.accepted_at
      <4>1. PICK m \in Closures(run) : ClosureId(run, n) = m.id
        BY <1>9, <3>1
      <4>2. m.valid_to = run.as_of /\ m.recorded_at = run.accepted_at
        BY <1>0, ClosureMember, ClosureFacts
      <4> QED BY <4>1, <4>2, AfterMember
    <3> QED BY <3>1
  <2>4. ASSUME NEW i
        PROVE  (\E r \in rows' : r.id.run = run.accepted_at /\ r.id = i) <=>
                 \/ \E r \in view' : /\ r.id.run = run.accepted_at
                                     /\ r.id.series \in Speaking(run) /\ r.id = i
                 \/ \E p \in rows' : EndedEarlier(run, p) /\ i = ClosureId(run, p)
    <3>1. (\E r \in rows' : r.id.run = run.accepted_at /\ r.id = i)
            <=> \/ \E n \in Closures(run) : n.id = i
                \/ \E n \in Statements(run) : n.id = i
      <4>1. \A n \in Closures(run) \cup Statements(run) : n.id.run = run.accepted_at
        BY <1>0, <1>5, ClosureMember, ClosureFacts
      <4> QED BY <1>8, <4>1, AfterMember
    <3>2. (\E r \in view' : r.id.run = run.accepted_at /\ r.id.series \in Speaking(run) /\ r.id = i)
            <=> \E n \in Statements(run) : n.id = i
      BY <1>2, <1>5, <1>7
    <3> QED BY <1>9, <3>1, <3>2
  <2> QED BY <1>4, <2>1, <2>2, <2>3, <2>4 DEF Accounts, EndedEarlier, NewId, ClosureId
<1>12. (VerifiesFromView(run) <=> Restates(run, view) /\ Accounts(run, view))'
  <2>1. VerifyingMeansBoth'
    BY VerifiesMeans, PTL
  <2> QED BY <2>1 DEF view, VerifyingMeansBoth
<1> QED BY <1>10, <1>11, <1>12

-----------------------------------------------------------------------------
(* Importing an accepted snapshot again. *)

\* Every earlier run verifies as it did, and the new one from now on.
LEMMA ReplayStep ==
  ASSUME RunsInv, RowsInv, ViewMatchesRuns, ReplayIsExact,
         NEW run \in Submittable, ImportSnapshot(run)
  PROVE  ReplayIsExact'
<1> SUFFICES ASSUME DatesInOrder' PROVE EveryImportReplays'
  BY DEF ReplayIsExact
<1>1. DatesInOrder /\ Before(run)
  BY ReadyBefore
<1>2. runs' = runs \cup {run} /\ source' = source
  BY DEF ImportSnapshot
<1>3. \A a \in runs : Replays(a)
  BY <1>1 DEF ReplayIsExact, EveryImportReplays
<1>4. ASSUME NEW a \in runs \cup {run} PROVE Replays(a)'
  <2>1. CASE source = "epa_frs"
    <3>1. a = run \/ Recomputes(a)
      BY <1>3, <1>4, <2>1 DEF Replays
    <3>2. Recomputes(a)'
      BY <1>1, <3>1, RecomputesStep
    <3> QED BY <1>2, <2>1, <3>2 DEF Replays
  <2>2. CASE source # "epa_frs"
    <3>1. CASE a = run
      <4>1. VerifiesFromView(run)'
        BY <1>1, <2>2, VerifiesNew
      <4> QED BY <1>2, <2>2, <3>1, <4>1 DEF Replays
    <3>2. CASE a \in runs
      <4>1. VerifiesFromView(a)
        BY <1>3, <2>2, <3>2 DEF Replays
      <4>2. VerifiesFromView(a)'
        BY <1>1, <3>2, <4>1, VerifiesLater
      <4> QED BY <1>2, <2>2, <4>2 DEF Replays
    <3> QED BY <1>4, <3>1, <3>2
  <2> QED BY <2>1, <2>2
<1> QED BY <1>2, <1>4 DEF EveryImportReplays

-----------------------------------------------------------------------------
(* Why the next snapshot can be imported. *)

\* The registries find the record that a classification came from as it was.
LEMMA OriginIsFound ==
  ASSUME RunsInv, RowsInv, ViewMatchesRuns, ReplayIsExact, DatesInOrder, Registry,
         NEW p \in rows, p.superseded_at = NULL, p.valid_to = NULL, p.id.series.derived
  PROVE  OriginVerifies(p)
<1> SUFFICES ASSUME NEW a \in runs, a.accepted_at = p.id.run
    PROVE LET view == View(a.as_of, a.accepted_at)
          IN /\ \A s \in StatedOf(a, p.id.series.site) : \E r \in view : r.id.series = s
             /\ p.dependencies =
                  {r.id : r \in {q \in view : q.id.series = Of(p.id.series.site, "identity")}}
  BY DEF OriginVerifies
<1> DEFINE view == View(a.as_of, a.accepted_at)
<1>1. a \in Runs /\ source \in Source
  BY DEF RunsInv
<1>2. /\ a.accepted_at \in Nat /\ a.accepted_at \in Clock
      /\ a.as_of \in Date /\ a.as_of \in Nat
  BY <1>1, RunFields
<1>3. /\ p.recorded_at = a.accepted_at /\ p.valid_from = a.as_of
      /\ p.id.series \in Speaking(a)
  <2>1. PICK b \in runs : /\ p.id.series \in Speaking(b)
                          /\ p.recorded_at = b.accepted_at /\ p.valid_from = b.as_of
    BY RowSpoken
  <2>2. p.recorded_at = p.id.run
    BY DEF RowsInv, RowInv
  <2>3. a.accepted_at <= b.accepted_at /\ ~(a.accepted_at < b.accepted_at)
    BY <1>2, <2>1, <2>2
  <2>4. a = b
    BY <2>3 DEF RunsInv
  <2> QED BY <2>1, <2>4
<1>4. p \in view
  BY <1>2, <1>3, ViewMember
<1>5. source \in {"taiwan_factory", "taiwan_mof"}
  BY DEF Registry
<1>6. Restates(a, view)
  <2>1. VerifiesFromView(a)
    BY <1>5 DEF ReplayIsExact, EveryImportReplays, Replays
  <2> QED BY <2>1, VerifiesPointwise
<1>7. ShowsItOnce(a.as_of, a.accepted_at)
  BY <1>2, ViewMatchesPointwise DEF Matches
<1>8. /\ p.id.series.site \in Listed(a)
      /\ StatedBasis(a, p.id.series) = {"identity"}
  <2>1. p.id.series.site \in Listed(a)
    BY <1>1, <1>3, SpeakingFacts
  <2>2. StatedBasis(a, p.id.series) = {"identity"}
    BY <1>5 DEF StatedBasis
  <2> QED BY <2>1, <2>2
<1> HIDE DEF view
<1>9. ASSUME NEW s \in StatedOf(a, p.id.series.site)
      PROVE  \E r \in view : r.id.series = s
  <2>1. s \in Speaking(a)
    BY <1>8 DEF Stated, Speaking
  <2> QED BY <1>6, <2>1 DEF Restates
<1>10. \A i : i \in p.dependencies <=>
         \E q \in view : q.id.series = Of(p.id.series.site, "identity") /\ q.id = i
  <2>1. PICK r \in view :
          /\ r.id.series = p.id.series
          /\ \A i : i \in r.dependencies <=>
               \E key \in StatedBasis(a, p.id.series) : \E q \in view :
                 q.id.series = Of(p.id.series.site, key) /\ q.id = i
    BY <1>3, <1>6 DEF Restates
  <2>2. r = p
    BY <1>4, <1>7, <2>1 DEF ShowsItOnce, view
  <2> QED BY <1>8, <2>1, <2>2
<1>11. p.dependencies = {r.id : r \in {q \in view : q.id.series = Of(p.id.series.site, "identity")}}
  BY <1>10
<1> QED BY <1>9, <1>11 DEF view

LEMMA NothingStandsInTheWay ==
  ASSUME RunsInv, RowsInv, ViewMatchesRuns, ReplayIsExact, DatesInOrder,
         NEW run \in Submittable, Acceptable(run), DatesFollow(run)
  PROVE  Importable(run)
<1>1. Latest(run) /\ run \in Runs /\ Before(run)
  BY NewRun, NewRunDated DEF Before, Latest
<1>2. \A p, q \in Prior(run) : p.id.series = q.id.series => p = q
  BY <1>1, PriorUnique
<1>3. ASSUME NEW p \in Prior(run) PROVE p.valid_from <= run.as_of
  BY <1>1, RowDates DEF Prior
<1>4. \A r \in rows : r.recorded_at < run.accepted_at /\ r.recorded_at # run.accepted_at
  <2>1. run.accepted_at \in Nat
    BY <1>1, RunFields
  <2> QED BY <1>1, <2>1, RowBefore
<1>5. ASSUME Registry, NEW p \in Prior(run), p.id.series.derived PROVE OriginVerifies(p)
  BY <1>1, <1>5, PriorIsOpen, OriginIsFound
<1>6. Kept(run) \subseteq Prior(run) /\ Closed(run) \subseteq Prior(run)
  BY KeptFacts, ClosedMember
<1> QED BY <1>2, <1>3, <1>4, <1>5, <1>6 DEF Importable

-----------------------------------------------------------------------------
(* The theorems. *)

LEMMA InitIInv == Init => IInv
<1> SUFFICES ASSUME Init PROVE IInv
  OBVIOUS
<1>1. source \in Source /\ runs = {} /\ rows = {}
  BY DEF Init
<1>2. RunsInv /\ RowsInv
  BY <1>1 DEF RunsInv, RowsInv
<1>3. \A d, k : View(d, k) = {} /\ Known(d, k) = {}
  BY <1>1 DEF View, Visible, Known
<1>4. \A d, k, s : LastWord(s, Known(d, k)) = {}
  BY <1>3 DEF LastWord
<1>5. ViewMatchesRuns
  BY <1>3, <1>4, ViewMatchesPointwise DEF Matches, ShowsWhatIsSaid, ShowsItsValue, ShowsItOnce
<1>6. ClassificationRestsOnView
  BY <1>3 DEF ClassificationRestsOnView
<1>7. ReplayIsExact
  BY <1>1 DEF ReplayIsExact, EveryImportReplays
<1> QED BY <1>2, <1>5, <1>6, <1>7 DEF IInv

\* A step that changes nothing.
LEMMA NothingChanges ==
  ASSUME UNCHANGED vars, IInv
  PROVE  IInv'
<1>0. source' = source /\ runs' = runs /\ rows' = rows
  BY DEF vars
<1>1. /\ Runs' = Runs
      /\ \A a : /\ Stated(a)' = Stated(a) /\ Classified(a)' = Classified(a)
                /\ Speaking(a)' = Speaking(a)
      /\ \A a, s : StatedBasis(a, s)' = StatedBasis(a, s) /\ ValueOf(a, s)' = ValueOf(a, s)
                   /\ Speaks(a, s)' = Speaks(a, s)
  BY <1>0, SourceOnly
<1>2. /\ \A d, k : View(d, k)' = View(d, k) /\ Known(d, k)' = Known(d, k)
      /\ \A a : Prior(a)' = Prior(a)
      /\ DatesInOrder' = DatesInOrder
  BY <1>0 DEF View, Visible, Known, Prior, DatesInOrder, DatesFollow
<1>3. RunsInv'
  BY <1>0, <1>1 DEF IInv, RunsInv, PublisherDate
<1>4. RowsInv'
  BY <1>0, <1>1 DEF IInv, RowsInv, RowInv, RowType, WrittenBy
<1>5. ViewMatchesRuns'
  <2>1. \A d, k, s : LastWord(s, Known(d, k))' = LastWord(s, Known(d, k))
    BY <1>1, <1>2 DEF LastWord
  <2>2. ASSUME NEW d \in Date, NEW k \in Clock PROVE Matches(d, k)' <=> Matches(d, k)
    <3>1. /\ View(d, k)' = View(d, k)
          /\ \A s : LastWord(s, Known(d, k))' = LastWord(s, Known(d, k))
      BY <1>2, <2>1
    <3>2. ShowsWhatIsSaid(d, k)' <=> ShowsWhatIsSaid(d, k)
      BY <1>1, <3>1 DEF ShowsWhatIsSaid
    <3>3. ShowsItsValue(d, k)' <=> ShowsItsValue(d, k)
      BY <1>1, <3>1 DEF ShowsItsValue
    <3>4. ShowsItOnce(d, k)' <=> ShowsItOnce(d, k)
      BY <3>1 DEF ShowsItOnce
    <3> QED BY <3>2, <3>3, <3>4 DEF Matches
  <2>3. (ViewMatchesRuns <=> (DatesInOrder => \A d \in Date, k \in Clock : Matches(d, k)))'
    BY ViewMatchesPointwise, PTL
  <2> QED BY <1>2, <2>2, <2>3, ViewMatchesPointwise DEF IInv
<1>6. ClassificationRestsOnView'
  <2>1. \A r, q : RestsOn(r, q)' <=> RestsOn(r, q)
    BY <1>0, QualifiesSame
  <2>2. \A d, k, r : Rests(d, k, r)' <=> Rests(d, k, r)
    BY <1>2, <2>1 DEF Rests
  <2>3. \A d \in Date, k \in Clock : AllRest(d, k)' <=> AllRest(d, k)
    BY <1>2, <2>2 DEF AllRest
  <2>4. (ClassificationRestsOnView <=>
           (DatesInOrder => \A d \in Date, k \in Clock : AllRest(d, k)))'
    BY ClassificationPointwise, PTL
  <2> QED BY <1>2, <2>3, <2>4, ClassificationPointwise DEF IInv
<1>7. ASSUME NEW a PROVE Recomputes(a)' <=> Recomputes(a)
  <2>1. Restated(a)' = Restated(a)
    BY <1>1, <1>2 DEF Restated
  <2>2. \A s : ClaimOf(a, s)' = ClaimOf(a, s)
    BY <2>1 DEF ClaimOf, NewId
  <2>3. \A x : UnmentionedCodes(a, x)' = UnmentionedCodes(a, x)
    BY <1>1, <1>2 DEF UnmentionedCodes
  <2>4. \A s : Basis(a, s)' = Basis(a, s)
    BY <1>0, <1>1, <2>2, <2>3 DEF Basis, Of
  <2>5. Kept(a)' = Kept(a)
    BY <1>1, <1>2, <2>1, <2>4 DEF Kept
  <2>6. Written(a)' = Written(a)
    BY <1>1, <2>5 DEF Written
  <2>7. Closed(a)' = Closed(a)
    BY <1>1, <1>2, <2>6 DEF Closed
  <2>8. Closures(a)' = Closures(a)
    BY <2>7 DEF Closures, ClosesInterval, Row, ClosureId, ClosedDependencies
  <2>9. Statements(a)' = Statements(a)
    BY <1>1, <2>4, <2>6 DEF Statements, Row, NewId
  <2> QED BY <1>0, <2>5, <2>7, <2>8, <2>9 DEF Recomputes, Content
<1>8. ASSUME NEW a, VerifiesFromView(a) PROVE VerifiesFromView(a)'
  <2>1. VerifyingMeansBoth'
    BY VerifiesMeans, PTL
  <2>2. ASSUME Restates(a, View(a.as_of, a.accepted_at))
        PROVE  Restates(a, View(a.as_of, a.accepted_at))'
    <3>1. Speaking(a)' = Speaking(a) /\ View(a.as_of, a.accepted_at)' = View(a.as_of, a.accepted_at)
      BY <1>1, <1>2
    <3>2. ASSUME NEW s \in Speaking(a)
          PROVE  \E r \in View(a.as_of, a.accepted_at) :
                   /\ r.id.series = s /\ r.value = ValueOf(a, s)'
                   /\ ~s.derived => r.dependencies = {}
                   /\ s.derived =>
                        \A i : i \in r.dependencies <=>
                          \E key \in StatedBasis(a, s)' : \E q \in View(a.as_of, a.accepted_at) :
                            q.id.series = Of(s.site, key) /\ q.id = i
      <4>1. PICK r \in View(a.as_of, a.accepted_at) :
              /\ r.id.series = s /\ r.value = ValueOf(a, s)
              /\ ~s.derived => r.dependencies = {}
              /\ s.derived =>
                   \A i : i \in r.dependencies <=>
                     \E key \in StatedBasis(a, s) : \E q \in View(a.as_of, a.accepted_at) :
                       q.id.series = Of(s.site, key) /\ q.id = i
        BY <2>2 DEF Restates
      <4>2. ValueOf(a, s)' = ValueOf(a, s) /\ StatedBasis(a, s)' = StatedBasis(a, s)
        BY <1>1
      <4> QED BY <4>1, <4>2
    <3>3. Restates(a, View(a.as_of, a.accepted_at))' <=>
            \A s \in Speaking(a)' : \E r \in View(a.as_of, a.accepted_at)' :
              /\ r.id.series = s /\ r.value = ValueOf(a, s)'
              /\ ~s.derived => r.dependencies = {}
              /\ s.derived =>
                   \A i : i \in r.dependencies <=>
                     \E key \in StatedBasis(a, s)' : \E q \in View(a.as_of, a.accepted_at)' :
                       q.id.series = Of(s.site, key) /\ q.id = i
      BY DEF Restates, Of
    <3> QED BY <3>1, <3>2, <3>3
  <2>3. Accounts(a, View(a.as_of, a.accepted_at))' <=> Accounts(a, View(a.as_of, a.accepted_at))
    <3>1. /\ rows' = rows /\ Speaking(a)' = Speaking(a)
          /\ View(a.as_of, a.accepted_at)' = View(a.as_of, a.accepted_at)
      BY <1>0, <1>1, <1>2
    <3>2. \A q : EndedEarlier(a, q)' <=> EndedEarlier(a, q)
      BY DEF EndedEarlier
    <3> QED BY <3>1, <3>2 DEF Accounts, NewId, ClosureId
  <2>4. Restates(a, View(a.as_of, a.accepted_at)) /\ Accounts(a, View(a.as_of, a.accepted_at))
    BY <1>8, VerifiesMeans DEF VerifyingMeansBoth
  <2>5. /\ Restates(a, View(a.as_of, a.accepted_at))'
        /\ Accounts(a, View(a.as_of, a.accepted_at))'
    BY <2>2, <2>3, <2>4
  <2>6. (VerifiesFromView(a) <=> /\ Restates(a, View(a.as_of, a.accepted_at))
                                 /\ Accounts(a, View(a.as_of, a.accepted_at)))'
    BY <2>1 DEF VerifyingMeansBoth
  <2> QED BY <2>5, <2>6
<1>9. ReplayIsExact'
  BY <1>0, <1>2, <1>7, <1>8 DEF IInv, ReplayIsExact, EveryImportReplays, Replays
<1> QED BY <1>3, <1>4, <1>5, <1>6, <1>9 DEF IInv

LEMMA NextIInv == IInv /\ [Next]_vars => IInv'
<1> SUFFICES ASSUME IInv, [Next]_vars PROVE IInv'
  OBVIOUS
<1>1. ASSUME NEW run \in Submittable, ImportSnapshot(run) PROVE IInv'
  <2>1. RunsInv /\ RowsInv /\ ViewMatchesRuns /\ ClassificationRestsOnView /\ ReplayIsExact
    BY DEF IInv
  <2>2. RunsInv'
    BY <1>1, <2>1, RunsStep
  <2>3. RowsInv'
    BY <1>1, <2>1, RowsStep
  <2>4. ViewMatchesRuns'
    BY <1>1, <2>1, ViewStep
  <2>5. ClassificationRestsOnView'
    BY <1>1, <2>1, ClassificationStep
  <2>6. ReplayIsExact'
    BY <1>1, <2>1, ReplayStep
  <2> QED BY <2>2, <2>3, <2>4, <2>5, <2>6 DEF IInv
<1>2. CASE UNCHANGED vars
  BY <1>2, NothingChanges
<1> QED BY <1>1, <1>2 DEF Next

LEMMA IInvAlways == Spec => []IInv
  BY InitIInv, NextIInv, PTL DEF Spec

\* The store of a source keeps its types under any number of imports of any snapshots.
THEOREM TypeCorrect == Spec => []TypeOK
<1>1. IInv => TypeOK
  <2> SUFFICES ASSUME IInv PROVE TypeOK
    OBVIOUS
  <2>1. source \in Source /\ runs \subseteq Runs
    BY DEF IInv, RunsInv
  <2>2. Runs \subseteq RunRecord
    BY <2>1 DEF Runs, RunRecord
  <2>3. \A r \in rows : RowType(r)
    BY DEF IInv, RowsInv, RowInv
  <2> QED BY <2>1, <2>2, <2>3 DEF TypeOK, RowType
<1> QED BY <1>1, IInvAlways, PTL

\* What is shown of any date at any knowledge time is what the runs accepted by then
\* say in order (the closing and inserting loops of the four importers): no statement
\* is lost or shown twice, and closures leave no gap and no overlap.
THEOREM ViewMatchesRunsAlways == Spec => []ViewMatchesRuns
<1>1. IInv => ViewMatchesRuns
  BY DEF IInv
<1> QED BY <1>1, IInvAlways, PTL

\* In every view a classification rests on exactly the statements that qualify its site
\* there, also in views of the past after imports that closed those statements (the
\* lineage that the importers rebuild when they close a derived claim).
THEOREM ClassificationRestsOnViewAlways == Spec => []ClassificationRestsOnView
<1>1. IInv => ClassificationRestsOnView
  BY DEF IInv
<1> QED BY <1>1, IInvAlways, PTL

\* An accepted snapshot verifies again after any number of later imports: the replay
\* branch of each importer finds the closures and statements of its own time.
THEOREM ReplayIsExactAlways == Spec => []ReplayIsExact
<1>1. IInv => ReplayIsExact
  BY DEF IInv
<1> QED BY <1>1, IInvAlways, PTL

\* No history of accepted imports leads to a store that refuses the next one: an
\* acceptable snapshot meets none of the errors that would roll its import back.
THEOREM NeverBlockedAlways == Spec => []NeverBlocked
<1>1. IInv => NeverBlocked
  <2> SUFFICES ASSUME IInv, DatesInOrder, NEW run \in Submittable,
                      Acceptable(run), DatesFollow(run)
               PROVE  Importable(run)
    BY DEF NeverBlocked
  <2> QED BY NothingStandsInTheWay DEF IInv
<1> QED BY <1>1, IInvAlways, PTL

\* An import changes nothing of what an earlier reader was shown, its versions, their
\* values and their lineage, whatever the dates of the snapshots.
PastViewsAreFixed ==
  [][\A run \in runs' \ runs : \A d \in Date, k \in Clock : k < run.accepted_at =>
       {Content(r) : r \in View(d, k)}' = {Content(r) : r \in View(d, k)}]_vars

THEOREM PastViewsAreFixedAlways == Spec => PastViewsAreFixed
<1> DEFINE Fixed == \A run \in runs' \ runs : \A d \in Date, k \in Clock : k < run.accepted_at =>
                      {Content(r) : r \in View(d, k)}' = {Content(r) : r \in View(d, k)}
<1>1. ASSUME IInv, Next PROVE Fixed
  <2>1. PICK run \in Submittable : ImportSnapshot(run)
    BY <1>1 DEF Next
  <2>2. RunsInv /\ RowsInv /\ Latest(run) /\ runs' = runs \cup {run}
    BY <1>1, <2>1, NewRun DEF IInv, ImportSnapshot
  <2>3. ASSUME NEW d \in Date, NEW k \in Clock, k < run.accepted_at
        PROVE  {Content(r) : r \in View(d, k)}' = {Content(r) : r \in View(d, k)}
    <3>1. \A n : n \in View(d, k)' <=> \E r \in View(d, k) : n = Left(run, r)
      BY <2>1, <2>2, <2>3, EarlierReader
    <3>2. \A r \in View(d, k) : Content(Left(run, r)) = Content(r)
      BY <2>2, ViewMember, ContentLeft
    <3>3. \A n : Content(n)' = Content(n)
      BY DEF Content
    <3> QED BY <3>1, <3>2, <3>3
  <2> QED BY <2>2, <2>3
<1>2. IInv /\ [Next]_vars => [Fixed]_vars
  BY <1>1
<1> QED BY <1>2, IInvAlways, PTL DEF Spec, PastViewsAreFixed
=============================================================================
