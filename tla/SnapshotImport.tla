---------------------------- MODULE SnapshotImport ----------------------------
(***************************************************************************)
(* Refreshing one source from whole-file snapshots, on top of              *)
(* insert_claim: import_epa_frs_candidates (ingest_epa_frs.py),            *)
(* import_moenv_ems_candidates (ingest_moenv.py),                          *)
(* import_taiwan_factory_candidates (ingest_taiwan_factory.py) and         *)
(* import_taiwan_mof_snapshot (ingest_taiwan_mof.py).                      *)
(*                                                                         *)
(* A snapshot lists sites; a listed site states some codes and some texts, *)
(* and classifications are derived from the claims that state them.  An    *)
(* import compares the snapshot with the open claims of the source and, in *)
(* one transaction, keeps what is restated, closes in valid time what      *)
(* changed (or, in a complete snapshot, what disappeared) and writes the   *)
(* new statements.  Importing the same snapshot again may only verify.     *)
(*                                                                         *)
(* The sources differ in which statements are series of their own, in what *)
(* is derived and what that rests on, in the date their claims begin on,   *)
(* and in how an import that is already stored is verified.                *)
(***************************************************************************)
EXTENDS Naturals, FiniteSets

CONSTANTS
  Source,            \* the sources considered, each with a store of its own
  Site, Code, Text, NULL,
  Controlled,        \* the flag "1" among the texts of the MOENV source
  Date, Clock,       \* publisher dates and update clocks; retrieved_at and accepted_at
  Snapshots,         \* bound: per source, the snapshot contents that arrive
  MaxRuns            \* bound: the number of accepted snapshots

Sources == {"epa_frs", "moenv", "taiwan_factory", "taiwan_mof"}

ASSUME SourceAssumption == Source \subseteq Sources
ASSUME TimeAssumption == Date \subseteq Nat /\ Clock \subseteq Nat \ {0} /\ NULL \notin Nat

Listing == [codes : (SUBSET Code) \ {{}}, texts : SUBSET Text]

\* The keys of the series of a site are told apart.
ASSUME KeyAssumption ==
  /\ Code \cap Text = {}
  /\ (Code \cup Text) \cap {"name", "identity", "class", "regulated"} = {}

\* A snapshot lists a site or does not; MOENV requires the flags of every facility.
ASSUME SnapshotAssumption ==
  /\ NULL \notin Listing
  /\ \A src \in Source : \A S \in Snapshots[src] :
       /\ S \in [Site -> Listing \cup {NULL}]
       /\ src = "moenv" => \A x \in Site : S[x] # NULL => S[x].texts # {}

RunRecord ==
  [snapshot : UNION {Snapshots[src] : src \in Source}, complete : BOOLEAN,
   updated_at : Date, as_of : Date, retrieved_at : Clock, accepted_at : Clock]

VARIABLES
  source,  \* the source this store is refreshed from
  runs,    \* its succeeded ingestion runs
  rows     \* the claim versions they created

vars == <<source, runs, rows>>

\* What a claim is about: a key of the source's own or a derived one.
Series ==
  [site : Site, derived : {FALSE}, key : Code \cup Text \cup {"name", "identity"}] \cup
  [site : Site, derived : {TRUE}, key : Code \cup {"class", "regulated"}]
Id == [series : Series, run : Clock, closure : BOOLEAN]

TypeOK ==
  /\ source \in Source
  /\ runs \subseteq RunRecord
  /\ \A r \in rows :
       /\ r.id \in Id /\ r.dependencies \subseteq Id
       /\ r.valid_from \in Date /\ r.valid_to \in Date \cup {NULL}
       /\ r.recorded_at \in Clock /\ r.superseded_at \in Clock \cup {NULL}

Init == source \in Source /\ runs = {} /\ rows = {}

-----------------------------------------------------------------------------
\* A version identifier is a hash over the series and the run (over the closed
\* version, for a closure); the acceptance clock names the run.
NewId(run, s) == [series |-> s, run |-> run.accepted_at, closure |-> FALSE]
ClosureId(run, p) == [series |-> p.id.series, run |-> run.accepted_at, closure |-> TRUE]

Row(id, from, to, t, value, dependencies) ==
  [id |-> id, valid_from |-> from, valid_to |-> to, recorded_at |-> t,
   superseded_at |-> NULL, value |-> value, dependencies |-> dependencies]

Content(r) == [r EXCEPT !.superseded_at = NULL]

PriorNow(run) ==
  {r \in rows : /\ r.id.run # run.accepted_at
                /\ r.superseded_at = NULL
                /\ r.valid_to = NULL}

\* The open claims of the source as they stood when the run was accepted: also
\* right when the run is replayed after later ones.
Prior(run) ==
  {r \in rows : /\ r.id.run # run.accepted_at
                /\ r.recorded_at < run.accepted_at
                /\ r.superseded_at # NULL => r.superseded_at >= run.accepted_at
                /\ r.valid_to = NULL}

Visible(k) ==
  {r \in rows : /\ r.recorded_at <= k
                /\ r.superseded_at # NULL => k < r.superseded_at}

\* What is shown of date d to a reader at knowledge time k.
View(d, k) ==
  {r \in Visible(k) : r.valid_from <= d /\ (r.valid_to # NULL => d < r.valid_to)}

-----------------------------------------------------------------------------
\* What the snapshot states.  The two registries always state an identity that
\* qualified the record (the product token, the business number).  A MOENV
\* facility has a series per distinct flag, the others one for the name.
Registry == source \in {"taiwan_factory", "taiwan_mof"}

Listed(run) == {x \in Site : run.snapshot[x] # NULL}
Of(x, key) == [site |-> x, derived |-> FALSE, key |-> key]
Derived(x, key) == [site |-> x, derived |-> TRUE, key |-> key]

StatedOf(run, x) ==
  LET item == run.snapshot[x]
  IN {Of(x, c) : c \in item.codes} \cup
     (IF source = "moenv" THEN {Of(x, v) : v \in item.texts}
      ELSE {Of(x, "name") : v \in item.texts}) \cup
     (IF Registry THEN {Of(x, "identity")} ELSE {})

DerivedOf(run, x) ==
  IF source = "moenv"
    THEN {Derived(x, c) : c \in run.snapshot[x].codes} \cup {Derived(x, "regulated")}
    ELSE {Derived(x, "class")}

Stated(run) == UNION {StatedOf(run, x) : x \in Listed(run)}
Classified(run) == UNION {DerivedOf(run, x) : x \in Listed(run)}
Speaking(run) == Stated(run) \cup Classified(run)

ValueOf(run, s) ==
  CASE s.key = "name" -> CHOOSE v \in run.snapshot[s.site].texts : TRUE
    [] s.key = "regulated" -> Controlled \in run.snapshot[s.site].texts
    [] OTHER -> s.key

Restated(run) ==
  LET stated == Stated(run)
  IN {p \in Prior(run) : p.id.series \in stated /\ p.value = ValueOf(run, p.id.series)}

\* The claim a classification can rest on: the restated one or the new one.
ClaimOf(run, s) ==
  LET restated == {p \in Restated(run) : p.id.series = s}
  IN IF restated = {} THEN NewId(run, s) ELSE (CHOOSE p \in restated : TRUE).id

\* A partial EPA snapshot keeps the earlier codes of a site that it does not mention.
UnmentionedCodes(run, x) ==
  {p.id : p \in {q \in Prior(run) : /\ ~run.complete
                                    /\ q.id.series.site = x /\ q.id.series.key \in Code
                                    /\ q.id.series \notin Stated(run)}}

StatedBasis(run, s) ==
  CASE source = "moenv" /\ s.key = "regulated" -> run.snapshot[s.site].texts
    [] source = "moenv" /\ s.key # "regulated" -> {s.key}
    [] source = "epa_frs" -> run.snapshot[s.site].codes
    [] OTHER -> {"identity"}

BasisForgetting(run, s) == {ClaimOf(run, Of(s.site, key)) : key \in StatedBasis(run, s)}

Basis(run, s) ==
  {ClaimOf(run, Of(s.site, key)) : key \in StatedBasis(run, s)} \cup
  (IF source = "epa_frs" THEN UnmentionedCodes(run, s.site) ELSE {})

Kept(run) ==
  LET classified == Classified(run)
  IN Restated(run) \cup
     {p \in Prior(run) : /\ p.id.series \in classified
                         /\ p.value = ValueOf(run, p.id.series)
                         /\ p.dependencies = Basis(run, p.id.series)}

Written(run) == Speaking(run) \ {p.id.series : p \in Kept(run)}

ClosedAlsoWhenPartial(run) ==
  LET written == Written(run)  speaking == Speaking(run)
  IN {p \in Prior(run) : p.id.series \in written \/ p.id.series \notin speaking}

\* Changed claims and, for a complete snapshot, claims it no longer states.
Closed(run) ==
  LET written == Written(run)  speaking == Speaking(run)
  IN {p \in Prior(run) : \/ p.id.series \in written
                         \/ run.complete /\ p.id.series \notin speaking}

-----------------------------------------------------------------------------
\* A claim that began on the snapshot's own date is only superseded; an earlier
\* one gets a closure, the same statement bounded by that date.
ClosesInterval(run, p) == p.valid_from < run.as_of

\* Statements are closed before what is derived from them, which then rests on
\* their closures.
ClosedDependencies(run, p, bounded) ==
  {IF \E q \in bounded : q.id = d
     THEN [d EXCEPT !.run = run.accepted_at, !.closure = TRUE] ELSE d : d \in p.dependencies}

Closures(run) ==
  LET bounded == {p \in Closed(run) : ClosesInterval(run, p)}
  IN {Row(ClosureId(run, p), p.valid_from, run.as_of, run.accepted_at, p.value,
          ClosedDependencies(run, p, bounded)) : p \in bounded}

Statements(run) ==
  {Row(NewId(run, s), run.as_of, NULL, run.accepted_at, ValueOf(run, s),
       IF s.derived THEN Basis(run, s) ELSE {}) : s \in Written(run)}

SameSlot(r, w) == r.id.series = w.id.series /\ r.valid_from = w.valid_from

EndedDirectly(run) == {p \in Closed(run) : ~ClosesInterval(run, p)}

\* The transaction ends a claim by a direct update, or by inserting another version
\* of its slot: its closure, as a rule.
Ended(run) ==
  LET added == Closures(run) \cup Statements(run)
  IN EndedDirectly(run) \cup
     {r \in rows : r.superseded_at = NULL /\ \E n \in added : SameSlot(n, r)}

AfterImport(run) ==
  LET ended == Ended(run)
  IN {IF r \in ended THEN [r EXCEPT !.superseded_at = run.accepted_at] ELSE r : r \in rows}
       \cup Closures(run) \cup Statements(run)

-----------------------------------------------------------------------------
\* The three order checks of a new run.
SameOrLaterDate(run) == \A a \in runs : a.accepted_at < run.accepted_at

InOrder(run) ==
  \A a \in runs : /\ a.accepted_at < run.accepted_at
                  /\ a.retrieved_at <= run.retrieved_at
                  /\ a.updated_at <= run.updated_at

\* Claims begin on the date of the update, but those of the tax registry on the
\* date printed in the file: that of the update in UTC, or in Taiwan, a day later.
PublisherDate(updated) ==
  IF source = "taiwan_mof" THEN {updated, updated + 1} \cap Date ELSE {updated}

Acceptable(run) ==
  /\ run.as_of \in PublisherDate(run.updated_at)
  /\ run.updated_at <= run.retrieved_at /\ run.retrieved_at <= run.accepted_at
  /\ InOrder(run)

\* The two registries derive every prior claim they touch once more, from the
\* record it came from and the view its own run had.
OriginVerifies(p) ==
  \A a \in runs : a.accepted_at = p.id.run =>
    LET view == View(a.as_of, a.accepted_at)
    IN /\ \A s \in StatedOf(a, p.id.series.site) : \E r \in view : r.id.series = s
       /\ p.dependencies = {r.id : r \in {q \in view : q.id.series = Of(p.id.series.site, "identity")}}

\* The errors that end an import half way and roll it back: two open claims in a
\* series, a claim from a later date, a slot whose active version is not older, a
\* prior claim that its origin does not explain.
Importable(run) ==
  LET closed == Closed(run)
      added == Closures(run) \cup Statements(run)
  IN /\ \A p, q \in Prior(run) : p.id.series = q.id.series => p = q
     /\ \A p \in closed : p.valid_from <= run.as_of
     /\ \A n \in added, r \in rows : SameSlot(n, r) =>
          /\ r.superseded_at = NULL => r.recorded_at < run.accepted_at
          /\ r.recorded_at # run.accepted_at
     /\ Registry => \A p \in Kept(run) \cup closed : p.id.series.derived => OriginVerifies(p)

\* The identity of a run is its snapshot, retrieval, date and mode; only a run
\* that is not stored yet is checked for order and written.
SameRun(a, b) == [a EXCEPT !.accepted_at = b.accepted_at] = b

ImportSnapshot(run) ==
  /\ \A a \in runs : ~SameRun(a, run)
  /\ Acceptable(run)
  /\ Importable(run)
  /\ runs' = runs \cup {run}
  /\ rows' = AfterImport(run)
  /\ UNCHANGED source

Submittable ==
  UNION {[snapshot : Snapshots[source], complete : BOOLEAN, updated_at : {u},
          as_of : PublisherDate(u), retrieved_at : Clock, accepted_at : Clock] : u \in Date}

Next ==
  /\ Cardinality(runs) < MaxRuns
  /\ \E run \in Submittable : ImportSnapshot(run)

Spec == Init /\ [][Next]_vars

-----------------------------------------------------------------------------
\* What an EPA import that is already stored recomputes and compares: what it closes
\* was superseded by that run, what it keeps was not superseded then, what it
\* would insert is stored.
Recomputes(run) ==
  /\ \A p \in Closed(run) : p.superseded_at = run.accepted_at
  /\ \A p \in Kept(run) : p.superseded_at # NULL => p.superseded_at > run.accepted_at
  /\ Closures(run) \cup Statements(run) \subseteq {Content(r) : r \in rows}

\* What the other importers verify instead: the view of the run's own date and
\* clock states the snapshot (and nothing else, if complete), and the claims the
\* run created are that view's and the closures of what it superseded.
ShownBy(view, s) == {r.id : r \in {q \in view : q.id.series = s}}

ShownBasis(run, view, s) ==
  UNION {ShownBy(view, Of(s.site, key)) : key \in StatedBasis(run, s)}

VerifiesFromView(run) ==
  LET view == View(run.as_of, run.accepted_at)
      superseded == {p \in rows : p.id.run # run.accepted_at /\ p.superseded_at = run.accepted_at}
      closures == {ClosureId(run, p) : p \in {q \in superseded : ClosesInterval(run, q)}}
      created == {r \in view : r.id.run = run.accepted_at /\ r.id.series \in Speaking(run)}
  IN /\ \A s \in Speaking(run) : \E r \in view :
          /\ r.id.series = s /\ r.value = ValueOf(run, s)
          /\ r.dependencies = IF s.derived THEN ShownBasis(run, view, s) ELSE {}
     /\ run.complete => {r.id.series : r \in view} = Speaking(run)
     /\ \A r \in created : r.id = NewId(run, r.id.series)
     /\ \A i \in closures : \E r \in rows :
          r.id = i /\ r.valid_to = run.as_of /\ r.recorded_at = run.accepted_at
     /\ {r.id : r \in {q \in rows : q.id.run = run.accepted_at}} = {r.id : r \in created} \cup closures

Replays(run) == IF source = "epa_frs" THEN Recomputes(run) ELSE VerifiesFromView(run)

-----------------------------------------------------------------------------
\* Nothing in the code makes the printed dates of the tax registry follow its
\* updates; the properties below speak of that source as long as they do.
DatesFollow(run) ==
  source = "taiwan_mof" =>
    \A a \in runs : a.accepted_at < run.accepted_at => a.as_of <= run.as_of
DatesInOrder == \A run \in runs : DatesFollow(run)

\* A run says something about a series when it states it or when, being complete,
\* it would have; a classification stands or falls with its site's listing.
Speaks(run, s) == run.complete \/ s \in Speaking(run)

Known(d, k) == {a \in runs : a.accepted_at <= k /\ a.as_of <= d}

LastWord(s, known) ==
  LET speaking == {a \in known : Speaks(a, s)}
  IN {a \in speaking : \A b \in speaking : b.accepted_at <= a.accepted_at}

\* The view of any date at any knowledge time is what the runs accepted by then,
\* of data up to that date, say when read in order: a complete snapshot
\* replaces, a partial one adds and corrects, nothing else changes. The intervals
\* that the closures leave behind tile: no two visible versions of a series hold
\* on the same date.
ViewMatchesRuns ==
  DatesInOrder =>
    \A d \in Date, k \in Clock :
      LET view == View(d, k)
          known == Known(d, k)
          said == UNION {Speaking(a) : a \in known}
      IN /\ {r.id.series : r \in view} =
              {s \in said : \E a \in LastWord(s, known) : s \in Speaking(a)}
         /\ \A r \in view : \A a \in LastWord(r.id.series, known) : r.value = ValueOf(a, r.id.series)
         /\ \A r, w \in view : r.id.series = w.id.series => r = w

\* The shown claims that a classification should rest on, all of them unless it is
\* the MOENV union of flags, of which a partial refresh may leave older ones open.
ShouldRestOn(r, q) ==
  /\ ~q.id.series.derived /\ q.id.series.site = r.id.series.site
  /\ CASE source = "epa_frs" -> q.id.series.key \in Code
       [] source = "moenv" /\ r.id.series.key = "regulated" ->
            q.id.series.key \in Text /\ q.id.series \in {i.series : i \in r.dependencies}
       [] source = "moenv" /\ r.id.series.key # "regulated" -> q.id.series.key = r.id.series.key
       [] OTHER -> q.id.series.key = "identity"

\* In every view a classification rests on exactly the shown statements that
\* qualify its site, and while it is open on exactly their visible versions.
ClassificationRestsOnView ==
  DatesInOrder =>
    \A d \in Date, k \in Clock :
      LET view == View(d, k)
      IN \A r \in view : r.id.series.derived =>
           LET basis == {q \in view : ShouldRestOn(r, q)}
           IN /\ basis # {}
              /\ {i.series : i \in r.dependencies} = {q.id.series : q \in basis}
              /\ r.valid_to = NULL => r.dependencies = {q.id : q \in basis}

\* Importing an accepted snapshot again, however many imports later, verifies: the
\* closures and statements of its own time are found again and nothing is written.
EveryImportReplays == \A run \in runs : Replays(run)

\* The same of sources whose publisher dates follow their updates.
ReplayIsExact == DatesInOrder => EveryImportReplays

\* A snapshot that passes the order checks never fails half way: no history of
\* accepted imports leads to a store that refuses the next one.
NeverBlocked ==
  DatesInOrder =>
    \A run \in Submittable : Acceptable(run) /\ DatesFollow(run) => Importable(run)
=============================================================================
