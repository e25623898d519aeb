------------------------------ MODULE NistAwards ------------------------------
(***************************************************************************)
(* The award pages of NIST, imported by import_nist_awards                 *)
(* (ingest_nist.py) on top of insert_claim.                                *)
(*                                                                         *)
(* Unlike the other importers this one compares nothing with the claims    *)
(* already open: every run states all it reads anew, from its as_of_date   *)
(* on and known since its retrieved_at, and runs may arrive in any order.  *)
(* A complete snapshot then retires, at its retrieval, whatever earlier    *)
(* runs left active.  A partial one never speaks of absence.               *)
(*                                                                         *)
(* Pages that announce one shared amount form a group; a group's claims    *)
(* name an award program, an entity that outlives the grouping: it is      *)
(* found again through any claim ever made about any of the pages.         *)
(***************************************************************************)
EXTENDS Naturals, FiniteSets, FiniteSetsExt

CONSTANTS
  Award,             \* the award pages, in the order of their URLs
  Text, Feature,     \* descriptions, and what can be extracted from them
  Extracts,          \* the features that the extraction finds in each description
  NULL,
  Date, Clock,       \* as_of_date and retrieved_at
  Snapshots,         \* bound: the snapshot contents that arrive
  MaxRuns            \* bound: the number of accepted runs

ASSUME AwardAssumption == Award \subseteq Nat /\ NULL \notin Award
ASSUME TimeAssumption == Date \subseteq Nat /\ Clock \subseteq Nat /\ NULL \notin Nat
\* No feature has the predicate of a description or of a program.
ASSUME ExtractAssumption ==
  Extracts \in [Text -> SUBSET Feature] /\ Feature \cap {"description", "program"} = {}

\* An import without a record is refused, and every record has a text.
ASSUME SnapshotAssumption ==
  /\ IsFiniteSet(Award)
  /\ \A S \in Snapshots :
       /\ \E a \in Award : S[a] # NULL
       /\ \A a \in Award : S[a] # NULL => S[a].text \in Text

\* The identity of a run: its documents, retrieval, date and mode.
Run == [snapshot : Snapshots, as_of : Date, complete : BOOLEAN, retrieved_at : Clock]

VARIABLES
  runs,   \* the succeeded ingestion runs
  rows,   \* the claim versions they created
  late    \* history: runs first imported after a complete one retrieved later

vars == <<runs, rows, late>>

Series == [award : Award, key : Feature \cup {"description", "program"}]

TypeOK ==
  /\ runs \subseteq Run /\ late \subseteq runs
  /\ \A r \in rows : /\ r.run \in runs /\ r.series \in Series
                     /\ r.superseded_at \in Clock \cup {NULL}

Init == runs = {} /\ rows = {} /\ late = {}

-----------------------------------------------------------------------------
\* Groups of pages that share an amount, and the programs that claims of any time,
\* superseded ones included, ever named for a page.
Listed(run) == {a \in Award : run.snapshot[a] # NULL}
Grouped(run) == {a \in Listed(run) : run.snapshot[a].group # NULL}
GroupOf(run, a) == {b \in Grouped(run) : run.snapshot[b].group = run.snapshot[a].group}
Groups(run) == {GroupOf(run, a) : a \in Grouped(run)}

ProgramsStillActive(pages) ==
  {r.value : r \in {q \in rows : /\ q.series.key = "program" /\ q.series.award \in pages
                                 /\ q.superseded_at = NULL}}

Programs(pages) ==
  {r.value : r \in {q \in rows : q.series.key = "program" /\ q.series.award \in pages}}

\* Groups that would join two programs, or split one, need a person to decide.
Resolvable(run) ==
  /\ \A G \in Groups(run) : Cardinality(Programs(G)) <= 1
  /\ \A G, H \in Groups(run) : G # H => Programs(G) \cap Programs(H) = {}

ProgramOf(G) == IF Programs(G) = {} THEN Min(G) ELSE CHOOSE p \in Programs(G) : TRUE

-----------------------------------------------------------------------------
\* What a run states: a description for each page, every feature it extracts in a
\* series of its own, and the program of a grouped page.
About(a, key) == [award |-> a, key |-> key]

SeriesOf(run, a) ==
  {About(a, "description")} \cup {About(a, f) : f \in Extracts[run.snapshot[a].text]} \cup
  (IF a \in Grouped(run) THEN {About(a, "program")} ELSE {})

Stated(run) == UNION {SeriesOf(run, a) : a \in Listed(run)}

ValueOf(run, s) ==
  CASE s.key = "description" -> run.snapshot[s.award].text
    [] s.key = "program" -> ProgramOf(GroupOf(run, s.award))
    [] OTHER -> s.key

Claims(run) ==
  {[series |-> s, value |-> ValueOf(run, s), run |-> run, superseded_at |-> NULL] : s \in Stated(run)}

\* The identifier of a version is a hash over its series, run, date and value; a
\* stored one is verified and left as it is.
Content(r) == [r EXCEPT !.superseded_at = NULL]
New(run) == LET stored == {Content(r) : r \in rows} IN Claims(run) \ stored

Active == {r \in rows : r.superseded_at = NULL}
SameSlot(r, n) == r.series = n.series /\ r.run.as_of = n.run.as_of

\* insert_claim refuses a version that is not later than the active one of its slot.
Insertable(run) ==
  \A n \in New(run), r \in rows : SameSlot(r, n) =>
    /\ r.superseded_at = NULL => r.run.retrieved_at < run.retrieved_at
    /\ r.run.retrieved_at # run.retrieved_at

\* Absence retires everything of other runs, and fails on a claim not older.
RetiresNone(run) == {}
Retires(run) == IF run.complete THEN {r \in Active : r.run # run} ELSE {}

Accepts(run) ==
  /\ Resolvable(run)
  /\ Insertable(run)
  /\ \A r \in Retires(run) : r.run.retrieved_at < run.retrieved_at

After(run) ==
  LET new == New(run)
      ended == Retires(run) \cup {r \in Active : \E n \in new : SameSlot(r, n)}
  IN {IF r \in ended THEN [r EXCEPT !.superseded_at = run.retrieved_at] ELSE r : r \in rows}
       \cup new

Late(run) ==
  IF run \notin runs /\ \E c \in runs : c.complete /\ run.retrieved_at < c.retrieved_at
    THEN {run} ELSE {}

\* One savepoint: the run that is already stored takes the same path again.
ImportNistAwards(run) ==
  /\ Accepts(run)
  /\ runs' = runs \cup {run}
  /\ rows' = After(run)
  /\ late' = late \cup Late(run)

Next ==
  \E run \in Run : /\ run \in runs \/ Cardinality(runs) < MaxRuns
                   /\ ImportNistAwards(run)

Spec == Init /\ [][Next]_vars

-----------------------------------------------------------------------------
\* current_claims: of the versions visible at k that began by d, the one of the
\* latest date, then of the latest clock.
Visible(d, k) ==
  {r \in rows : /\ r.run.as_of <= d /\ r.run.retrieved_at <= k
                /\ r.superseded_at # NULL => k < r.superseded_at}

Later(r, w) ==
  \/ r.run.as_of > w.run.as_of
  \/ r.run.as_of = w.run.as_of /\ r.run.retrieved_at > w.run.retrieved_at

Current(d, k) ==
  LET visible == Visible(d, k)
  IN {r \in visible : \A w \in visible : w.series = r.series /\ w # r => Later(r, w)}

\* The runs a reader at k counts: none retrieved before the last complete one.
Counted(k) ==
  LET known == {run \in runs : run.retrieved_at <= k}
  IN {run \in known : \A c \in known : c.complete => c.retrieved_at <= run.retrieved_at}

\* As long as no run was imported late, each view is the reading of the counted
\* runs: a series is shown exactly when one of them states it for that date, with
\* the value and run of the latest such statement, whatever the order of arrival.
ShownIsWhatRunsSaid ==
  late = {} =>
    \A d \in Date, k \in Clock :
      LET counted == {run \in Counted(k) : run.as_of <= d}
          shown == Current(d, k)
      IN /\ {r.series : r \in shown} = UNION {Stated(run) : run \in counted}
         /\ \A r \in shown :
              /\ r.run \in counted /\ r.series \in Stated(r.run)
              /\ r.value = ValueOf(r.run, r.series)
              /\ \A run \in counted : r.series \in Stated(run) /\ run # r.run =>
                   Later(r, [r EXCEPT !.run = run])

\* Importing a stored snapshot again succeeds, unless it is a complete one and a
\* claim of a later retrieval stands, and then it changes nothing, although the
\* programs are resolved again from a store that has grown since.
ReimportIsQuiet ==
  late = {} =>
    \A run \in runs :
      /\ Accepts(run) <=>
           (run.complete => \A other \in runs \ {run} : other.retrieved_at < run.retrieved_at)
      /\ Accepts(run) => After(run) = rows

\* A page belongs to one program for ever, and two pages grouped by a run belong to
\* the same program exactly when that run put them in one group.
NamedFor(a) == {r.value : r \in {q \in rows : q.series = About(a, "program")}}

ProgramsAreStable ==
  \A run \in runs : \A a, b \in Grouped(run) :
    /\ Cardinality(NamedFor(a)) = 1
    /\ NamedFor(a) = NamedFor(b) <=> GroupOf(run, a) = GroupOf(run, b)
=============================================================================
