-------------------------- MODULE NistAwardsProofs --------------------------
(***************************************************************************)
(* What holds of the award pages whatever they say, in whatever order      *)
(* their snapshots are imported.                                           *)
(***************************************************************************)
EXTENDS NistAwards, FiniteSetTheorems, TLAPS

-----------------------------------------------------------------------------
(* The invariant. *)

Row(s, v, run, t) == [series |-> s, value |-> v, run |-> run, superseded_at |-> t]
IsProgram(r) == r.series.key = "program"

\* What the text of a page says.
Said(run, s) == IF s.key = "description" THEN run.snapshot[s.award].text ELSE s.key

RowInv(r) ==
  /\ r = Row(r.series, r.value, r.run, r.superseded_at)
  /\ r.run \in runs /\ r.series \in Stated(r.run)
  /\ r.superseded_at \in Clock \cup {NULL}
  /\ ~IsProgram(r) => r.value = Said(r.run, r.series)

\* Every statement of a run is stored once.
StoredOnce ==
  /\ \A run \in runs : \A s \in Stated(run) : \E r \in rows : r.run = run /\ r.series = s
  /\ \A r, w \in rows : r.run = w.run /\ r.series = w.series => r = w

\* Programs are named for a page of theirs, a page has one, and the pages that a run
\* groups share one.
ProgramInv ==
  /\ \A r \in rows : IsProgram(r) =>
       /\ r.value \in Award
       /\ \E w \in rows : w.series = About(r.value, "program") /\ w.value = r.value
  /\ \A r, w \in rows : IsProgram(r) /\ w.series = r.series => r.value = w.value
  /\ \A r, w \in rows : IsProgram(r) /\ IsProgram(w) /\ r.run = w.run =>
       (r.value = w.value <=> GroupOf(r.run, r.series.award) = GroupOf(w.run, w.series.award))

RowsInv ==
  /\ runs \subseteq Run /\ late \subseteq runs
  /\ \A r \in rows : RowInv(r)
  /\ StoredOnce
  /\ ProgramInv

\* A run ends earlier claims: a complete one all, any one those of its slots.
EndsClaim(run, r) ==
  /\ r.run.retrieved_at < run.retrieved_at
  /\ run.complete \/ (r.series \in Stated(run) /\ run.as_of = r.run.as_of)

\* A claim is ended by the first run that ends it and by no other.
EndedByFirst ==
  \A r \in rows :
    /\ \A run \in runs : EndsClaim(run, r) =>
         r.superseded_at # NULL /\ r.superseded_at <= run.retrieved_at
    /\ r.superseded_at # NULL =>
         \E run \in runs : EndsClaim(run, r) /\ run.retrieved_at = r.superseded_at

OneOfAClock ==
  \A r, w \in rows : SameSlot(r, w) /\ r.run.retrieved_at = w.run.retrieved_at => r = w

\* Behind a claim that has ended stands a later one of its slot, or a complete run.
LaterStands ==
  \A r \in rows :
    \/ r.superseded_at = NULL
    \/ \E run \in runs : run.complete /\ r.run.retrieved_at < run.retrieved_at
    \/ \E w \in Active : SameSlot(r, w) /\ r.run.retrieved_at < w.run.retrieved_at

\* Behind a run stands a claim of its own, or one of a later retrieval.
RunStands ==
  \A run \in runs : \E r \in Active : r.run = run \/ run.retrieved_at < r.run.retrieved_at

OrderInv == EndedByFirst /\ OneOfAClock /\ LaterStands /\ RunStands

IInv == RowsInv /\ (late = {} => OrderInv)

-----------------------------------------------------------------------------
(* What runs say. *)

LEMMA RunFields ==
  ASSUME NEW run \in Run
  PROVE  /\ run.retrieved_at \in Clock /\ run.retrieved_at \in Nat
         /\ run.as_of \in Date /\ run.as_of \in Nat
         /\ run.complete \in BOOLEAN /\ run.snapshot \in Snapshots
  BY TimeAssumption DEF Run

LEMMA AboutFields ==
  ASSUME NEW a, NEW key
  PROVE  About(a, key).award = a /\ About(a, key).key = key
  BY DEF About

LEMMA AboutInjective ==
  ASSUME NEW a, NEW b, NEW key, NEW l, About(a, key) = About(b, l)
  PROVE  a = b /\ key = l
  BY AboutFields

LEMMA GroupMember ==
  ASSUME NEW run, NEW a, NEW b
  PROVE  b \in GroupOf(run, a) <=>
           b \in Grouped(run) /\ run.snapshot[b].group = run.snapshot[a].group
  BY DEF GroupOf

\* The groups of a run part its grouped pages.
LEMMA GroupFacts ==
  ASSUME NEW run, NEW a \in Grouped(run)
  PROVE  /\ a \in GroupOf(run, a) /\ a \in Award
         /\ GroupOf(run, a) \subseteq Award /\ GroupOf(run, a) \subseteq Grouped(run)
         /\ GroupOf(run, a) \in Groups(run)
         /\ \A b \in Grouped(run) : b \in GroupOf(run, a) => GroupOf(run, b) = GroupOf(run, a)
<1>1. a \in GroupOf(run, a) /\ a \in Award
  BY DEF GroupOf, Grouped, Listed
<1>2. GroupOf(run, a) \subseteq Award /\ GroupOf(run, a) \subseteq Grouped(run)
  BY DEF GroupOf, Grouped, Listed
<1>3. GroupOf(run, a) \in Groups(run)
  BY DEF Groups
<1>4. ASSUME NEW b \in Grouped(run), b \in GroupOf(run, a)
      PROVE  GroupOf(run, b) = GroupOf(run, a)
  BY <1>4 DEF GroupOf
<1> QED BY <1>1, <1>2, <1>3, <1>4

LEMMA StatedFacts ==
  ASSUME NEW run \in Run, NEW s \in Stated(run)
  PROVE  /\ s \in Series /\ s.award \in Listed(run) /\ s = About(s.award, s.key)
         /\ s.key = "program" => s.award \in Grouped(run)
<1>1. PICK a \in Listed(run) : s \in SeriesOf(run, a)
  BY DEF Stated
<1>2. a \in Award /\ run.snapshot[a] # NULL /\ run.snapshot \in Snapshots
  BY RunFields DEF Listed
<1>3. run.snapshot[a].text \in Text
  BY <1>2, SnapshotAssumption
<1>4. Extracts[run.snapshot[a].text] \subseteq Feature
  BY <1>3, ExtractAssumption
<1>5. CASE s = About(a, "description")
  BY <1>1, <1>2, <1>5 DEF About, Series
<1>6. CASE \E f \in Extracts[run.snapshot[a].text] : s = About(a, f)
  <2>1. PICK f \in Feature : s = About(a, f)
    BY <1>4, <1>6
  <2>2. f # "program"
    BY ExtractAssumption
  <2> QED BY <1>1, <1>2, <2>1, <2>2 DEF About, Series
<1>7. CASE s = About(a, "program") /\ a \in Grouped(run)
  BY <1>1, <1>2, <1>7 DEF About, Series
<1>8. \/ s = About(a, "description")
      \/ \E f \in Extracts[run.snapshot[a].text] : s = About(a, f)
      \/ s = About(a, "program") /\ a \in Grouped(run)
  BY <1>1 DEF SeriesOf
<1> QED BY <1>5, <1>6, <1>7, <1>8

LEMMA ProgramStated ==
  ASSUME NEW run, NEW a \in Grouped(run)
  PROVE  About(a, "program") \in Stated(run)
  BY DEF Stated, SeriesOf, Grouped

LEMMA StatesSomething ==
  ASSUME NEW run \in Run
  PROVE  \E s : s \in Stated(run)
<1>1. PICK a \in Award : run.snapshot[a] # NULL
  BY RunFields, SnapshotAssumption
<1>2. About(a, "description") \in Stated(run)
  BY <1>1 DEF Stated, Listed, SeriesOf
<1> QED BY <1>2

LEMMA SaidIsValue ==
  ASSUME NEW run, NEW s
  PROVE  ValueOf(run, s) =
           IF s.key = "program" THEN ProgramOf(GroupOf(run, s.award)) ELSE Said(run, s)
  BY DEF ValueOf, Said

LEMMA ClaimMember ==
  ASSUME NEW run, NEW n
  PROVE  n \in Claims(run) <=> \E s \in Stated(run) : n = Row(s, ValueOf(run, s), run, NULL)
  BY DEF Claims, Row

LEMMA RowFields ==
  ASSUME NEW s, NEW v, NEW run, NEW t
  PROVE  LET r == Row(s, v, run, t)
         IN  r.series = s /\ r.value = v /\ r.run = run /\ r.superseded_at = t
  BY DEF Row

\* The row that a row becomes.
Left(run, r) == [r EXCEPT !.superseded_at = run.retrieved_at]

LEMMA LeftFields ==
  ASSUME NEW r, RowInv(r), NEW t
  PROVE  [r EXCEPT !.superseded_at = t] = Row(r.series, r.value, r.run, t)
<1>1. r = [series |-> r.series, value |-> r.value, run |-> r.run, superseded_at |-> r.superseded_at]
  BY DEF RowInv, Row
<1> DEFINE s == r.series  v == r.value  u == r.run  w == r.superseded_at
<1>2. r = [series |-> s, value |-> v, run |-> u, superseded_at |-> w]
  BY <1>1
<1> HIDE DEF s, v, u, w
<1>3. [r EXCEPT !.superseded_at = t] = [series |-> s, value |-> v, run |-> u, superseded_at |-> t]
  BY <1>2
<1> QED BY <1>3 DEF s, v, u, Row

-----------------------------------------------------------------------------
(* Finite sets and least elements. *)

LEMMA LeastNatural ==
  ASSUME NEW T, T \subseteq Nat, T # {}
  PROVE  \E x \in T : \A y \in T : x <= y
<1> DEFINE Below == {0 .. x : x \in T}
<1>1. Below \subseteq FiniteSubsetsOf(Nat) /\ Below # {}
  <2>1. ASSUME NEW x \in T PROVE 0 .. x \in SUBSET Nat /\ IsFiniteSet(0 .. x)
    BY FS_Interval
  <2> QED BY <2>1 DEF FiniteSubsetsOf
<1>2. PICK s \in Below : \A r \in Below : ~ (<<r, s>> \in StrictSubsetOrdering(Nat))
  BY <1>1, WFMin, FS_StrictSubsetOrderingWellFounded
<1>3. PICK x \in T : s = 0 .. x
  BY <1>2
<1>4. ASSUME NEW y \in T, ~(x <= y) PROVE FALSE
  <2>1. 0 .. y \in Below /\ s \in SUBSET Nat /\ 0 .. y \in SUBSET Nat
    BY <1>3
  <2>2. 0 .. y \subseteq s /\ x \in s /\ x \notin 0 .. y
    BY <1>3, <1>4
  <2> QED BY <1>2, <2>1, <2>2 DEF StrictSubsetOrdering
<1> QED BY <1>4

LEMMA LeastPage ==
  ASSUME NEW G, G \subseteq Award, G # {}
  PROVE  Min(G) \in G
<1>1. \E x \in G : \A y \in G : x <= y
  BY AwardAssumption, LeastNatural
<1> QED BY <1>1 DEF Min

\* Of naturals up to a bound one is the greatest.
LEMMA GreatestBelow ==
  ASSUME NEW T, T \subseteq Nat, T # {}, NEW bound \in Nat, \A x \in T : x <= bound
  PROVE  \E x \in T : \A y \in T : y <= x
<1> DEFINE Gaps == {bound - x : x \in T}
<1>0. \A x \in T : bound - x \in Nat
  OBVIOUS
<1>1. Gaps \subseteq Nat /\ Gaps # {}
  BY <1>0
<1>2. PICK g \in Gaps : \A h \in Gaps : g <= h
  BY <1>1, LeastNatural
<1>3. PICK x \in T : g = bound - x
  BY <1>2
<1>4. \A y \in T : bound - y \in Gaps
  OBVIOUS
<1> HIDE DEF Gaps
<1> QED BY <1>2, <1>3, <1>4

LEMMA AtMostOne ==
  ASSUME NEW S, IsFiniteSet(S)
  PROVE  Cardinality(S) <= 1 <=> \A x, y \in S : x = y
<1>1. ASSUME Cardinality(S) <= 1, NEW x \in S, NEW y \in S, x # y PROVE FALSE
  <2>1. IsFiniteSet({x}) /\ Cardinality({x}) = 1
    BY FS_Singleton
  <2>2. IsFiniteSet({x} \cup {y}) /\ Cardinality({x} \cup {y}) = 2
    <3>1. y \notin {x}
      BY <1>1
    <3> QED BY <2>1, <3>1, FS_AddElement
  <2>3. {x} \cup {y} \subseteq S
    OBVIOUS
  <2>4. Cardinality({x} \cup {y}) <= Cardinality(S)
    BY <2>3, FS_Subset
  <2> QED BY <1>1, <2>2, <2>4, FS_CardinalityType
<1>2. ASSUME \A x, y \in S : x = y PROVE Cardinality(S) <= 1
  <2>1. CASE S = {}
    BY <2>1, FS_EmptySet
  <2>2. CASE S # {}
    <3>1. PICK x : S = {x}
      BY <1>2, <2>2
    <3> QED BY <3>1, FS_Singleton
  <2> QED BY <2>1, <2>2
<1> QED BY <1>1, <1>2

-----------------------------------------------------------------------------
(* Programs. *)

LEMMA ProgramsMember ==
  ASSUME NEW G, NEW v
  PROVE  v \in Programs(G) <=>
           \E r \in rows : IsProgram(r) /\ r.series.award \in G /\ r.value = v
  BY DEF Programs, IsProgram

LEMMA ProgramsFinite ==
  ASSUME ProgramInv, NEW G
  PROVE  Programs(G) \subseteq Award /\ IsFiniteSet(Programs(G))
<1>1. Programs(G) \subseteq Award
  BY ProgramsMember DEF ProgramInv
<1> QED BY <1>1, SnapshotAssumption, FS_Subset

LEMMA ProgramRow ==
  ASSUME RowsInv, NEW r \in rows, IsProgram(r)
  PROVE  /\ r.series.award \in Grouped(r.run) /\ r.series = About(r.series.award, "program")
         /\ r.run \in Run /\ r.run \in runs
<1>1. r.run \in Run /\ r.run \in runs /\ r.series \in Stated(r.run)
  BY DEF RowsInv, RowInv
<1> QED BY <1>1, StatedFacts DEF IsProgram

\* Rows about one page name one program.
LEMMA SamePage ==
  ASSUME RowsInv, NEW r \in rows, NEW w \in rows, IsProgram(r), IsProgram(w),
         r.series.award = w.series.award
  PROVE  r.value = w.value
<1>1. r.series = w.series
  BY ProgramRow
<1> QED BY <1>1 DEF RowsInv, ProgramInv

\* The pages that a stored run grouped have one program, and it is found again.
LEMMA OneProgram ==
  ASSUME RowsInv, NEW run \in runs, NEW a \in Grouped(run),
         NEW r \in rows, IsProgram(r), r.series.award \in GroupOf(run, a)
  PROVE  /\ r.value = ProgramOf(GroupOf(run, a))
         /\ \A w \in rows : IsProgram(w) /\ w.series.award \in GroupOf(run, a) => w.value = r.value
<1> DEFINE G == GroupOf(run, a)
<1>1. PICK o \in rows : o.run = run /\ o.series = About(a, "program")
  BY ProgramStated DEF RowsInv, StoredOnce
<1>2. IsProgram(o) /\ o.series.award = a
  BY <1>1, AboutFields DEF IsProgram
<1>3. ASSUME NEW w \in rows, IsProgram(w), w.series.award \in G
      PROVE  w.value = o.value
  <2>1. w.series.award \in Grouped(run) /\ GroupOf(run, w.series.award) = GroupOf(run, a)
    BY <1>3, GroupFacts
  <2>2. PICK u \in rows : u.run = run /\ u.series = About(w.series.award, "program")
    BY <2>1, ProgramStated DEF RowsInv, StoredOnce
  <2>3. IsProgram(u) /\ u.series.award = w.series.award
    BY <2>2, AboutFields DEF IsProgram
  <2>4. u.value = o.value
    BY <1>1, <1>2, <2>1, <2>2, <2>3 DEF RowsInv, ProgramInv
  <2>5. u.value = w.value
    BY <1>3, <2>3, SamePage
  <2> QED BY <2>4, <2>5
<1>4. Programs(G) = {o.value}
  <2>1. a \in G
    BY GroupFacts
  <2> QED BY <1>2, <1>3, <2>1, ProgramsMember
<1>5. ProgramOf(G) = o.value
  BY <1>4 DEF ProgramOf
<1> QED BY <1>3, <1>5

LEMMA ProgramOfPage ==
  ASSUME RowsInv, NEW run \in runs, NEW a \in Grouped(run)
  PROVE  \E r \in rows : /\ r.run = run /\ r.series = About(a, "program") /\ IsProgram(r)
                         /\ r.series.award = a /\ r.value = ProgramOf(GroupOf(run, a))
<1>1. PICK r \in rows : r.run = run /\ r.series = About(a, "program")
  BY ProgramStated DEF RowsInv, StoredOnce
<1>2. IsProgram(r) /\ r.series.award = a
  BY <1>1, AboutFields DEF IsProgram
<1>3. a \in GroupOf(run, a)
  BY GroupFacts
<1> QED BY <1>1, <1>2, <1>3, OneProgram

\* A stored run would state what it has stated.
LEMMA ValueOfStored ==
  ASSUME RowsInv, NEW r \in rows
  PROVE  r.value = ValueOf(r.run, r.series)
<1>1. CASE IsProgram(r)
  <2>1. r.series.award \in Grouped(r.run) /\ r.run \in runs
    BY <1>1, ProgramRow
  <2>2. r.series.award \in GroupOf(r.run, r.series.award)
    BY <2>1, GroupFacts
  <2>3. r.value = ProgramOf(GroupOf(r.run, r.series.award))
    BY <1>1, <2>1, <2>2, OneProgram
  <2> QED BY <1>1, <2>3, SaidIsValue DEF IsProgram
<1>2. CASE ~IsProgram(r)
  BY <1>2, SaidIsValue DEF IsProgram, RowsInv, RowInv
<1> QED BY <1>1, <1>2

LEMMA ContentOfRow ==
  ASSUME RowsInv, NEW r \in rows
  PROVE  Content(r) = Row(r.series, r.value, r.run, NULL)
  BY LeftFields DEF RowsInv, Content

LEMMA NewClaims ==
  ASSUME RowsInv, NEW run \in Run
  PROVE  /\ run \in runs => New(run) = {}
         /\ run \notin runs => New(run) = Claims(run)
<1>1. ASSUME run \in runs, NEW n \in Claims(run) PROVE \E r \in rows : n = Content(r)
  <2>1. PICK s \in Stated(run) : n = Row(s, ValueOf(run, s), run, NULL)
    BY ClaimMember
  <2>2. PICK r \in rows : r.run = run /\ r.series = s
    BY <1>1 DEF RowsInv, StoredOnce
  <2>3. Content(r) = n
    BY <2>1, <2>2, ValueOfStored, ContentOfRow
  <2> QED BY <2>3
<1>2. ASSUME run \notin runs, NEW n \in Claims(run), NEW r \in rows PROVE n # Content(r)
  <2>1. n.run = run
    BY <1>2, ClaimMember, RowFields
  <2>2. Content(r).run = r.run /\ r.run \in runs
    BY ContentOfRow, RowFields DEF RowsInv, RowInv
  <2> QED BY <1>2, <2>1, <2>2
<1> QED BY <1>1, <1>2 DEF New

\* What an acceptable run names its groups for.
LEMMA ProgramChosen ==
  ASSUME RowsInv, NEW run \in Run, Resolvable(run), NEW a \in Grouped(run)
  PROVE  LET G == GroupOf(run, a)
             p == ProgramOf(G)
         IN  /\ p \in Award
             /\ \A r \in rows : IsProgram(r) /\ r.series.award \in G => r.value = p
             /\ p \in G \/ \E w \in rows : w.series = About(p, "program") /\ w.value = p
             /\ p \in G \/ p \in Programs(G)
             /\ Programs(G) = {} => p \in G
<1> DEFINE G == GroupOf(run, a)
           p == ProgramOf(G)
<1>1. G \in Groups(run) /\ G \subseteq Award /\ G # {}
  BY GroupFacts
<1>2. \A x, y \in Programs(G) : x = y
  BY <1>1, ProgramsFinite, AtMostOne DEF RowsInv, Resolvable
<1> HIDE DEF G
<1>3. CASE Programs(G) = {}
  <2>1. p = Min(G)
    BY <1>3 DEF ProgramOf
  <2>2. p \in G
    BY <1>1, <2>1, LeastPage
  <2> QED BY <1>1, <1>3, <2>2, ProgramsMember DEF G
<1>4. CASE Programs(G) # {}
  <2>1. p \in Programs(G)
    BY <1>4 DEF ProgramOf
  <2>2. PICK r \in rows : IsProgram(r) /\ r.series.award \in G /\ r.value = p
    BY <2>1, ProgramsMember
  <2>3. p \in Award /\ \E w \in rows : w.series = About(p, "program") /\ w.value = p
    BY <2>2 DEF RowsInv, ProgramInv
  <2>4. \A w \in rows : IsProgram(w) /\ w.series.award \in G => w.value = p
    BY <1>2, <2>1, ProgramsMember
  <2> QED BY <1>4, <2>1, <2>3, <2>4 DEF G
<1> QED BY <1>3, <1>4

LEMMA ProgramsDiffer ==
  ASSUME RowsInv, NEW run \in Run, Resolvable(run), NEW a \in Grouped(run), NEW b \in Grouped(run),
         ProgramOf(GroupOf(run, a)) = ProgramOf(GroupOf(run, b))
  PROVE  GroupOf(run, a) = GroupOf(run, b)
<1> SUFFICES ASSUME GroupOf(run, a) # GroupOf(run, b) PROVE FALSE
  OBVIOUS
<1>1. PICK p : p = ProgramOf(GroupOf(run, a)) /\ p = ProgramOf(GroupOf(run, b))
  OBVIOUS
<1>2. ~(p \in Programs(GroupOf(run, a)) /\ p \in Programs(GroupOf(run, b)))
  BY GroupFacts DEF Resolvable
<1>3. ~(p \in GroupOf(run, a) /\ p \in GroupOf(run, b))
  BY GroupFacts
<1>4. ASSUME NEW x \in Grouped(run), NEW y \in Grouped(run), p = ProgramOf(GroupOf(run, y)),
             p \in GroupOf(run, x), p \in Programs(GroupOf(run, y))
      PROVE  p \in Programs(GroupOf(run, x))
  <2>1. PICK r \in rows : IsProgram(r) /\ r.value = p
    BY <1>4, ProgramsMember
  <2>2. PICK w \in rows : w.series = About(p, "program") /\ w.value = p
    BY <2>1 DEF RowsInv, ProgramInv
  <2>3. IsProgram(w) /\ w.series.award = p
    BY <2>2, AboutFields DEF IsProgram
  <2> QED BY <1>4, <2>2, <2>3, ProgramsMember
<1>5. /\ p \in GroupOf(run, a) \/ p \in Programs(GroupOf(run, a))
      /\ p \in GroupOf(run, b) \/ p \in Programs(GroupOf(run, b))
  BY <1>1, ProgramChosen
<1> QED BY <1>1, <1>2, <1>3, <1>4, <1>5

-----------------------------------------------------------------------------
(* What an import makes of the rows. *)

EndedBy(run) == Retires(run) \cup {r \in Active : \E n \in New(run) : SameSlot(r, n)}
Became(run, r) == IF r \in EndedBy(run) THEN Left(run, r) ELSE r

LEMMA AfterMember ==
  ASSUME NEW run, NEW n
  PROVE  n \in After(run) <=> (\E r \in rows : n = Became(run, r)) \/ n \in New(run)
  BY DEF After, Became, EndedBy, Left

LEMMA EndedMember ==
  ASSUME NEW run, NEW r
  PROVE  r \in EndedBy(run) <=>
           /\ r \in rows /\ r.superseded_at = NULL
           /\ \/ run.complete /\ r.run # run
              \/ \E n \in New(run) : SameSlot(r, n)
  BY DEF EndedBy, Retires, Active

LEMMA BecameFields ==
  ASSUME RowsInv, NEW run, NEW r \in rows, NEW w, w = Became(run, r)
  PROVE  /\ w.series = r.series /\ w.value = r.value /\ w.run = r.run
         /\ r \in EndedBy(run) => w.superseded_at = run.retrieved_at /\ r.superseded_at = NULL
         /\ r \notin EndedBy(run) => w = r /\ w.superseded_at = r.superseded_at
         /\ w = Row(r.series, r.value, r.run, w.superseded_at)
<1>1. RowInv(r)
  BY DEF RowsInv
<1>2. CASE r \in EndedBy(run)
  <2>1. w = Row(r.series, r.value, r.run, run.retrieved_at)
    BY <1>1, <1>2, LeftFields DEF Became, Left
  <2>2. r.superseded_at = NULL
    BY <1>2, EndedMember
  <2> QED BY <1>2, <2>1, <2>2, RowFields
<1>3. CASE r \notin EndedBy(run)
  BY <1>1, <1>3 DEF Became, RowInv
<1> QED BY <1>2, <1>3

LEMMA NewFields ==
  ASSUME RowsInv, NEW run \in Run, NEW n \in New(run)
  PROVE  /\ run \notin runs /\ n.run = run /\ n.series \in Stated(run)
         /\ n.value = ValueOf(run, n.series) /\ n.superseded_at = NULL
         /\ n = Row(n.series, n.value, run, NULL)
<1>1. run \notin runs /\ n \in Claims(run)
  BY NewClaims
<1>2. PICK s \in Stated(run) : n = Row(s, ValueOf(run, s), run, NULL)
  BY <1>1, ClaimMember
<1> QED BY <1>1, <1>2, RowFields

LEMMA NewRow ==
  ASSUME RowsInv, NEW run \in Run, run \notin runs, NEW s \in Stated(run)
  PROVE  \E n \in New(run) : n.series = s /\ n.run = run /\ n.superseded_at = NULL
<1>1. Row(s, ValueOf(run, s), run, NULL) \in New(run)
  BY NewClaims, ClaimMember
<1> QED BY <1>1, RowFields

LEMMA RunSays ==
  /\ \A run : Stated(run)' = Stated(run)
  /\ \A run, s : Said(run, s)' = Said(run, s)
  /\ \A run, a : GroupOf(run, a)' = GroupOf(run, a)
  BY DEF Stated, SeriesOf, Listed, Grouped, Said, GroupOf

LEMMA RowsStep ==
  ASSUME RowsInv, NEW run \in Run, ImportNistAwards(run)
  PROVE  RowsInv'
<1>1. /\ runs' = runs \cup {run} /\ rows' = After(run) /\ late' = late \cup Late(run)
      /\ Resolvable(run)
  BY DEF ImportNistAwards, Accepts
<1>2. runs' \subseteq Run /\ late' \subseteq runs'
  BY <1>1 DEF RowsInv, Late
<1>3. \A n : n \in rows' <=> (\E r \in rows : n = Became(run, r)) \/ n \in New(run)
  BY <1>1, AfterMember
<1>4. \A r \in rows : /\ Became(run, r).series = r.series /\ Became(run, r).value = r.value
                      /\ Became(run, r).run = r.run
  BY BecameFields
<1>5. run.retrieved_at \in Clock
  BY RunFields
<1>6. ASSUME NEW n \in rows' PROVE RowInv(n)'
  <2>1. CASE \E r \in rows : n = Became(run, r)
    <3>1. PICK r \in rows : n = Became(run, r)
      BY <2>1
    <3>2. RowInv(r)
      BY DEF RowsInv
    <3>3. /\ n.series = r.series /\ n.value = r.value /\ n.run = r.run
          /\ n = Row(n.series, n.value, n.run, n.superseded_at)
          /\ n.superseded_at = run.retrieved_at \/ n.superseded_at = r.superseded_at
      BY <3>1, BecameFields
    <3>4. n.superseded_at \in Clock \cup {NULL}
      BY <1>5, <3>2, <3>3 DEF RowInv
    <3> QED BY <1>1, <3>2, <3>3, <3>4, RunSays DEF RowInv, IsProgram, Row
  <2>2. CASE n \in New(run)
    <3>1. /\ n.run = run /\ n.series \in Stated(run) /\ n.value = ValueOf(run, n.series)
          /\ n.superseded_at = NULL /\ n = Row(n.series, n.value, run, NULL)
      BY <2>2, NewFields
    <3>2. ~IsProgram(n) => n.value = Said(run, n.series)
      BY <3>1, SaidIsValue DEF IsProgram
    <3> QED BY <1>1, <3>1, <3>2, RunSays DEF RowInv, IsProgram, Row
  <2> QED BY <1>3, <2>1, <2>2
<1>7. StoredOnce'
  <2>1. ASSUME NEW u \in runs', NEW s \in Stated(u) PROVE \E n \in rows' : n.run = u /\ n.series = s
    <3>1. CASE u \in runs
      <4>1. PICK r \in rows : r.run = u /\ r.series = s
        BY <2>1, <3>1 DEF RowsInv, StoredOnce
      <4> QED BY <1>3, <1>4, <4>1
    <3>2. CASE u = run /\ run \notin runs
      BY <1>3, <2>1, <3>2, NewRow
    <3> QED BY <1>1, <3>1, <3>2
  <2>2. ASSUME NEW n \in rows', NEW m \in rows', n.run = m.run, n.series = m.series
        PROVE  n = m
    <3>1. CASE n \in New(run) /\ m \in New(run)
      BY <2>2, <3>1, NewFields
    <3>2. ASSUME NEW r \in rows, n = Became(run, r), m \in New(run) PROVE FALSE
      BY <1>4, <2>2, <3>2, NewFields DEF RowsInv, RowInv
    <3>3. ASSUME NEW r \in rows, m = Became(run, r), n \in New(run) PROVE FALSE
      BY <1>4, <2>2, <3>3, NewFields DEF RowsInv, RowInv
    <3>4. ASSUME NEW r \in rows, NEW w \in rows, n = Became(run, r), m = Became(run, w) PROVE n = m
      BY <1>4, <2>2, <3>4 DEF RowsInv, StoredOnce
    <3> QED BY <1>3, <3>1, <3>2, <3>3, <3>4
  <2>3. \A u : Stated(u)' = Stated(u)
    BY RunSays
  <2> QED BY <2>1, <2>2, <2>3 DEF StoredOnce
<1>8. ASSUME NEW n \in New(run), IsProgram(n)
      PROVE  /\ n.series.award \in Grouped(run) /\ n.series = About(n.series.award, "program")
             /\ n.value = ProgramOf(GroupOf(run, n.series.award)) /\ n.run = run
             /\ n.series.award \in GroupOf(run, n.series.award)
             /\ run \notin runs
  <2>1. /\ n.series \in Stated(run) /\ n.value = ValueOf(run, n.series)
        /\ n.run = run /\ run \notin runs
    BY NewFields
  <2>2. n.series.award \in Grouped(run) /\ n.series = About(n.series.award, "program")
    BY <1>8, <2>1, StatedFacts DEF IsProgram
  <2>3. n.value = ProgramOf(GroupOf(run, n.series.award))
    BY <1>8, <2>1, SaidIsValue DEF IsProgram
  <2> QED BY <2>1, <2>2, <2>3, GroupFacts
<1>9. ASSUME NEW n \in rows', IsProgram(n)
      PROVE  /\ n.value \in Award
             /\ \E w \in rows' : w.series = About(n.value, "program") /\ w.value = n.value
  <2>1. CASE \E r \in rows : n = Became(run, r)
    <3>1. PICK r \in rows : n = Became(run, r)
      BY <2>1
    <3>2. IsProgram(r) /\ r.value = n.value
      BY <1>4, <1>9, <3>1 DEF IsProgram
    <3>3. /\ n.value \in Award
          /\ \E w \in rows : w.series = About(n.value, "program") /\ w.value = n.value
      BY <3>2 DEF RowsInv, ProgramInv
    <3> QED BY <1>3, <1>4, <3>3
  <2>2. CASE n \in New(run)
    <3>1. PICK a \in Grouped(run) : /\ n.value = ProgramOf(GroupOf(run, a))
                                    /\ run \notin runs
      BY <1>8, <1>9, <2>2
    <3>2. n.value \in Award
      BY <1>1, <3>1, ProgramChosen
    <3>3. CASE n.value \in GroupOf(run, a)
      <4>1. n.value \in Grouped(run) /\ GroupOf(run, n.value) = GroupOf(run, a)
        BY <3>3, GroupFacts
      <4>2. About(n.value, "program") \in Stated(run)
        BY <4>1, ProgramStated
      <4>3. PICK m \in New(run) : m.series = About(n.value, "program")
        BY <3>1, <4>2, NewRow
      <4>4. IsProgram(m) /\ m.series.award = n.value
        BY <4>3, AboutFields DEF IsProgram
      <4>5. m.value = ProgramOf(GroupOf(run, n.value))
        BY <1>8, <4>4
      <4> QED BY <1>3, <3>1, <3>2, <4>1, <4>3, <4>5
    <3>4. CASE n.value \notin GroupOf(run, a)
      <4>1. PICK w \in rows : w.series = About(n.value, "program") /\ w.value = n.value
        BY <1>1, <3>1, <3>4, ProgramChosen
      <4> QED BY <1>3, <1>4, <3>2, <4>1
    <3> QED BY <3>3, <3>4
  <2> QED BY <1>3, <2>1, <2>2
<1>10. ASSUME NEW r \in rows, IsProgram(r), NEW n \in New(run), r.series = n.series
       PROVE  r.value = n.value
  <2>1. IsProgram(n)
    BY <1>10 DEF IsProgram
  <2> QED BY <1>1, <1>8, <1>10, <2>1, ProgramChosen
<1>11. ASSUME NEW n \in rows', NEW m \in rows', IsProgram(n), m.series = n.series
       PROVE  n.value = m.value
  <2>1. IsProgram(m)
    BY <1>11 DEF IsProgram
  <2>2. CASE n \in New(run) /\ m \in New(run)
    BY <1>11, <2>2, NewFields
  <2>3. ASSUME NEW r \in rows, n = Became(run, r), m \in New(run) PROVE n.value = m.value
    BY <1>4, <1>10, <1>11, <2>3 DEF IsProgram
  <2>4. ASSUME NEW r \in rows, m = Became(run, r), n \in New(run) PROVE n.value = m.value
    BY <1>4, <1>10, <1>11, <2>1, <2>4 DEF IsProgram
  <2>5. ASSUME NEW r \in rows, NEW w \in rows, n = Became(run, r), m = Became(run, w)
        PROVE  n.value = m.value
    BY <1>4, <1>11, <2>5 DEF RowsInv, ProgramInv, IsProgram
  <2> QED BY <1>3, <2>2, <2>3, <2>4, <2>5
<1>12. ASSUME NEW n \in rows', NEW m \in rows', IsProgram(n), IsProgram(m), n.run = m.run
       PROVE  n.value = m.value <=> GroupOf(n.run, n.series.award) = GroupOf(m.run, m.series.award)
  <2>1. CASE n \in New(run) /\ m \in New(run)
    BY <1>1, <1>8, <1>12, <2>1, ProgramsDiffer
  <2>2. ASSUME NEW r \in rows, n = Became(run, r), m \in New(run) PROVE FALSE
    BY <1>4, <1>12, <2>2, NewFields DEF RowsInv, RowInv
  <2>3. ASSUME NEW r \in rows, m = Became(run, r), n \in New(run) PROVE FALSE
    BY <1>4, <1>12, <2>3, NewFields DEF RowsInv, RowInv
  <2>4. ASSUME NEW r \in rows, NEW w \in rows, n = Became(run, r), m = Became(run, w)
        PROVE  n.value = m.value <=> GroupOf(n.run, n.series.award) = GroupOf(m.run, m.series.award)
    BY <1>4, <1>12, <2>4 DEF RowsInv, ProgramInv, IsProgram
  <2> QED BY <1>3, <2>1, <2>2, <2>3, <2>4
<1>13. ProgramInv'
  BY <1>9, <1>11, <1>12, RunSays DEF ProgramInv, IsProgram, About
<1> QED BY <1>2, <1>6, <1>7, <1>13 DEF RowsInv

-----------------------------------------------------------------------------
(* The order of retrievals. *)

LEMMA RowRun ==
  ASSUME RowsInv, NEW r \in rows
  PROVE  /\ r.run \in runs /\ r.run \in Run /\ r.series \in Stated(r.run)
         /\ r.run.retrieved_at \in Nat /\ r.run.as_of \in Nat
         /\ r.superseded_at # NULL => r.superseded_at \in Nat
<1>1. r.run \in runs /\ r.run \in Run /\ r.series \in Stated(r.run)
      /\ r.superseded_at \in Clock \cup {NULL}
  BY DEF RowsInv, RowInv
<1> QED BY <1>1, RunFields, TimeAssumption

\* An import that is not late and is accepted is later than all it could end.
LEMMA EndsOnlyEarlier ==
  ASSUME RowsInv, OrderInv, NEW run \in Run, run \notin runs, Accepts(run),
         \A c \in runs : c.complete => ~(run.retrieved_at < c.retrieved_at),
         NEW r \in rows, run.complete \/ \E n \in New(run) : SameSlot(r, n)
  PROVE  r.run.retrieved_at < run.retrieved_at
<1>1. ASSUME NEW w \in rows, w.superseded_at = NULL,
             run.complete \/ \E n \in New(run) : SameSlot(w, n)
      PROVE  w.run.retrieved_at < run.retrieved_at
  <2>1. CASE run.complete
    <3>1. w.run # run
      BY RowRun
    <3>2. w \in Retires(run)
      BY <1>1, <2>1, <3>1 DEF Retires, Active
    <3> QED BY <3>2 DEF Accepts
  <2>2. CASE \E n \in New(run) : SameSlot(w, n)
    BY <1>1, <2>2 DEF Accepts, Insertable
  <2> QED BY <1>1, <2>1, <2>2
<1>2. run.retrieved_at \in Nat /\ r.run.retrieved_at \in Nat
  BY RunFields, RowRun
<1>3. CASE r.superseded_at = NULL
  BY <1>1, <1>3
<1>4. CASE \E c \in runs : c.complete /\ r.run.retrieved_at < c.retrieved_at
  <2>1. PICK c \in runs : c.complete /\ r.run.retrieved_at < c.retrieved_at
    BY <1>4
  <2>2. c.retrieved_at \in Nat /\ ~(run.retrieved_at < c.retrieved_at)
    BY <2>1, RunFields DEF RowsInv
  <2> QED BY <1>2, <2>1, <2>2
<1>5. CASE \E w \in Active : SameSlot(r, w) /\ r.run.retrieved_at < w.run.retrieved_at
  <2>1. PICK w \in Active : SameSlot(r, w) /\ r.run.retrieved_at < w.run.retrieved_at
    BY <1>5
  <2>2. w \in rows /\ w.superseded_at = NULL
    BY <2>1 DEF Active
  <2>3. run.complete \/ \E n \in New(run) : SameSlot(w, n)
    BY <2>1 DEF SameSlot
  <2>4. w.run.retrieved_at < run.retrieved_at /\ w.run.retrieved_at \in Nat
    BY <1>1, <2>2, <2>3, RowRun
  <2> QED BY <1>2, <2>1, <2>4
<1> QED BY <1>3, <1>4, <1>5 DEF OrderInv, LaterStands

LEMMA ReimportChangesNothing ==
  ASSUME RowsInv, OrderInv, NEW run \in runs, Accepts(run)
  PROVE  After(run) = rows
<1>1. New(run) = {} /\ run \in Run
  BY NewClaims DEF RowsInv
<1>2. ASSUME NEW r \in EndedBy(run) PROVE FALSE
  <2>1. r \in rows /\ r.superseded_at = NULL /\ run.complete /\ r.run # run
    BY <1>1, EndedMember
  <2>2. r \in Retires(run)
    BY <2>1 DEF Retires, Active
  <2>3. EndsClaim(run, r)
    BY <2>1, <2>2 DEF Accepts, EndsClaim
  <2> QED BY <2>1, <2>3 DEF OrderInv, EndedByFirst
<1> QED BY <1>1, <1>2, AfterMember DEF Became

LEMMA OrderStepNew ==
  ASSUME RowsInv, OrderInv, NEW run \in Run, run \notin runs, ImportNistAwards(run), late' = {}
  PROVE  OrderInv'
<1>1. /\ runs' = runs \cup {run} /\ rows' = After(run) /\ Accepts(run)
  BY DEF ImportNistAwards
<1>2. \A c \in runs : c.complete => ~(run.retrieved_at < c.retrieved_at)
  BY DEF ImportNistAwards, Late
<1>3. \A n : n \in rows' <=> (\E r \in rows : n = Became(run, r)) \/ n \in New(run)
  BY <1>1, AfterMember
<1>4. run.retrieved_at \in Nat /\ run.retrieved_at # NULL
  BY RunFields, TimeAssumption
<1>5. ASSUME NEW r \in rows, run.complete \/ \E n \in New(run) : SameSlot(r, n)
      PROVE  r.run.retrieved_at < run.retrieved_at
  BY <1>1, <1>2, <1>5, EndsOnlyEarlier
<1>6. ASSUME NEW r \in rows, NEW n, n = Became(run, r)
      PROVE  /\ n.series = r.series /\ n.run = r.run
             /\ r \in EndedBy(run) => /\ n.superseded_at = run.retrieved_at
                                      /\ r.superseded_at = NULL
                                      /\ r.run.retrieved_at < run.retrieved_at
                                      /\ EndsClaim(run, r)
             /\ r \notin EndedBy(run) => n = r
             /\ n \in rows'
  <2>1. /\ n.series = r.series /\ n.run = r.run /\ n \in rows'
        /\ r \in EndedBy(run) => n.superseded_at = run.retrieved_at /\ r.superseded_at = NULL
        /\ r \notin EndedBy(run) => n = r
    BY <1>3, <1>6, BecameFields
  <2>2. ASSUME r \in EndedBy(run) PROVE r.run.retrieved_at < run.retrieved_at /\ EndsClaim(run, r)
    <3>1. run.complete \/ \E m \in New(run) : SameSlot(r, m)
      BY <2>2, EndedMember
    <3>2. r.run.retrieved_at < run.retrieved_at
      BY <1>5, <3>1
    <3>3. \A m \in New(run) : m.series \in Stated(run) /\ m.run = run
      BY NewFields
    <3> QED BY <3>1, <3>2, <3>3 DEF EndsClaim, SameSlot
  <2> QED BY <2>1, <2>2
<1>7. ASSUME NEW n \in New(run)
      PROVE  /\ n.run = run /\ n.series \in Stated(run) /\ n.superseded_at = NULL /\ n \in rows'
  BY <1>3, NewFields
<1>8. ASSUME NEW s \in Stated(run) PROVE \E n \in New(run) : n.series = s /\ n.run = run
  BY NewRow
<1>9. ASSUME NEW u \in runs, NEW w, run.retrieved_at < u.retrieved_at,
             u.complete \/ w \in Stated(u),
             run.complete \/ (w \in Stated(run) /\ run.as_of = u.as_of)
      PROVE  FALSE
  <2>1. ~u.complete
    BY <1>2, <1>9
  <2>2. PICK v \in rows : v.run = u /\ v.series = w
    BY <1>9, <2>1 DEF RowsInv, StoredOnce
  <2>3. run.complete \/ \E n \in New(run) : SameSlot(v, n)
    BY <1>8, <1>9, <2>2 DEF SameSlot
  <2>4. v.run.retrieved_at < run.retrieved_at /\ v.run.retrieved_at \in Nat
    BY <1>5, <2>2, <2>3, RowRun
  <2> QED BY <1>4, <1>9, <2>2, <2>4
<1>10. ASSUME NEW n \in rows'
       PROVE  /\ \A u \in runs' : EndsClaim(u, n) =>
                   n.superseded_at # NULL /\ n.superseded_at <= u.retrieved_at
              /\ n.superseded_at # NULL =>
                   \E u \in runs' : EndsClaim(u, n) /\ u.retrieved_at = n.superseded_at
  <2>1. CASE n \in New(run)
    <3>1. n.run = run /\ n.superseded_at = NULL /\ n.series \in Stated(run)
      BY <1>7, <2>1
    <3>2. ASSUME NEW u \in runs', EndsClaim(u, n) PROVE FALSE
      <4>1. u # run
        BY <1>4, <3>1, <3>2 DEF EndsClaim
      <4>2. u \in runs
        BY <1>1, <4>1
      <4>3. /\ run.retrieved_at < u.retrieved_at
            /\ u.complete \/ (n.series \in Stated(u) /\ u.as_of = run.as_of)
        BY <3>1, <3>2 DEF EndsClaim
      <4>4. CASE u.complete
        BY <1>2, <4>2, <4>3, <4>4
      <4>5. CASE n.series \in Stated(u) /\ u.as_of = run.as_of
        BY <1>9, <3>1, <4>2, <4>3, <4>5
      <4> QED BY <4>3, <4>4, <4>5
    <3> QED BY <3>1, <3>2
  <2>2. ASSUME NEW r \in rows, n = Became(run, r)
        PROVE  /\ \A u \in runs' : EndsClaim(u, n) =>
                    n.superseded_at # NULL /\ n.superseded_at <= u.retrieved_at
               /\ n.superseded_at # NULL =>
                    \E u \in runs' : EndsClaim(u, n) /\ u.retrieved_at = n.superseded_at
    <3>1. \A u : EndsClaim(u, n) <=> EndsClaim(u, r)
      BY <1>6, <2>2 DEF EndsClaim
    <3>2. /\ \A u \in runs : EndsClaim(u, r) =>
               r.superseded_at # NULL /\ r.superseded_at <= u.retrieved_at
          /\ r.superseded_at # NULL =>
               \E u \in runs : EndsClaim(u, r) /\ u.retrieved_at = r.superseded_at
      BY DEF OrderInv, EndedByFirst
    <3>3. CASE r \in EndedBy(run)
      <4>1. /\ n.superseded_at = run.retrieved_at /\ r.superseded_at = NULL /\ EndsClaim(run, r)
        BY <1>6, <2>2, <3>3
      <4>2. \A u \in runs : ~EndsClaim(u, r)
        BY <3>2, <4>1
      <4> QED BY <1>1, <1>4, <3>1, <4>1, <4>2
    <3>4. CASE r \notin EndedBy(run)
      <4>1. n = r
        BY <1>6, <2>2, <3>4
      <4>2. ASSUME EndsClaim(run, r)
            PROVE  r.superseded_at # NULL /\ r.superseded_at <= run.retrieved_at
        <5>1. run.complete \/ (r.series \in Stated(run) /\ run.as_of = r.run.as_of)
          BY <4>2 DEF EndsClaim
        <5>2. run.complete \/ \E m \in New(run) : SameSlot(r, m)
          BY <1>8, <5>1 DEF SameSlot
        <5>3. r.run # run
          BY RowRun
        <5>4. r.superseded_at # NULL
          BY <3>4, <5>2, <5>3, EndedMember
        <5>5. PICK u \in runs : EndsClaim(u, r) /\ u.retrieved_at = r.superseded_at
          BY <3>2, <5>4
        <5>6. u.complete \/ (r.series \in Stated(u) /\ u.as_of = r.run.as_of)
          BY <5>5 DEF EndsClaim
        <5>7. u.complete \/ r.series \in Stated(u)
          BY <5>6
        <5>8. ~(run.retrieved_at < u.retrieved_at)
          BY <1>2, <1>9, <5>1, <5>6
        <5>9. u.retrieved_at \in Nat
          BY RunFields DEF RowsInv
        <5> QED BY <1>4, <5>4, <5>5, <5>8, <5>9
      <4> QED BY <1>1, <3>2, <4>1, <4>2
    <3> QED BY <3>3, <3>4
  <2> QED BY <1>3, <2>1, <2>2
<1>11. ASSUME NEW n \in rows', NEW m \in rows', SameSlot(n, m),
              n.run.retrieved_at = m.run.retrieved_at
       PROVE  n = m
  <2>1. ASSUME NEW r \in rows, NEW k \in New(run), NEW j, j = Became(run, r), SameSlot(j, k),
               j.run.retrieved_at = k.run.retrieved_at
        PROVE  FALSE
    BY <1>1, <1>6, <1>7, <2>1 DEF Accepts, Insertable, SameSlot
  <2>2. CASE n \in New(run) /\ m \in New(run)
    BY <1>11, <2>2, NewFields DEF SameSlot
  <2>3. ASSUME NEW r \in rows, NEW w \in rows, n = Became(run, r), m = Became(run, w)
        PROVE  n = m
    <3>1. SameSlot(r, w) /\ r.run.retrieved_at = w.run.retrieved_at
      BY <1>6, <1>11, <2>3 DEF SameSlot
    <3> QED BY <2>3, <3>1 DEF OrderInv, OneOfAClock
  <2>4. SameSlot(m, n)
    BY <1>11 DEF SameSlot
  <2> QED BY <1>3, <1>11, <2>1, <2>2, <2>3, <2>4
<1>12. ASSUME NEW n \in rows'
       PROVE  \/ n.superseded_at = NULL
              \/ \E u \in runs' : u.complete /\ n.run.retrieved_at < u.retrieved_at
              \/ \E w \in rows' : /\ w.superseded_at = NULL /\ SameSlot(n, w)
                                  /\ n.run.retrieved_at < w.run.retrieved_at
  <2>0. ASSUME NEW v \in EndedBy(run), v \in rows, SameSlot(n, v) \/ run.complete,
               n.run.retrieved_at <= v.run.retrieved_at, n.run.retrieved_at \in Nat
        PROVE  \/ \E u \in runs' : u.complete /\ n.run.retrieved_at < u.retrieved_at
               \/ \E w \in rows' : /\ w.superseded_at = NULL /\ SameSlot(n, w)
                                   /\ n.run.retrieved_at < w.run.retrieved_at
    <3>1. v.run.retrieved_at < run.retrieved_at /\ v.run.retrieved_at \in Nat
      BY <1>6, <2>0, RowRun
    <3>2. n.run.retrieved_at < run.retrieved_at
      BY <1>4, <2>0, <3>1
    <3>3. CASE run.complete
      BY <1>1, <3>2, <3>3
    <3>4. CASE ~run.complete
      <4>1. PICK m \in New(run) : SameSlot(v, m)
        BY <2>0, <3>4, EndedMember
      <4>2. SameSlot(n, m) /\ m.superseded_at = NULL /\ m \in rows' /\ m.run = run
        BY <1>7, <2>0, <3>4, <4>1 DEF SameSlot
      <4> QED BY <3>2, <4>2
    <3> QED BY <3>3, <3>4
  <2>1. CASE n \in New(run)
    BY <1>7, <2>1
  <2>2. ASSUME NEW r \in rows, n = Became(run, r), r \in EndedBy(run)
        PROVE  \/ \E u \in runs' : u.complete /\ n.run.retrieved_at < u.retrieved_at
               \/ \E w \in rows' : /\ w.superseded_at = NULL /\ SameSlot(n, w)
                                   /\ n.run.retrieved_at < w.run.retrieved_at
    <3>1. n.run = r.run /\ SameSlot(n, r) /\ n.run.retrieved_at \in Nat
      BY <1>6, <2>2, RowRun DEF SameSlot
    <3> QED BY <2>0, <2>2, <3>1
  <2>3. ASSUME NEW r \in rows, n = Became(run, r), r \notin EndedBy(run)
        PROVE  \/ n.superseded_at = NULL
               \/ \E u \in runs' : u.complete /\ n.run.retrieved_at < u.retrieved_at
               \/ \E w \in rows' : /\ w.superseded_at = NULL /\ SameSlot(n, w)
                                   /\ n.run.retrieved_at < w.run.retrieved_at
    <3>1. n = r /\ n.run.retrieved_at \in Nat
      BY <1>6, <2>3, RowRun
    <3>2. CASE \E w \in Active : SameSlot(r, w) /\ r.run.retrieved_at < w.run.retrieved_at
      <4>1. PICK w \in Active : SameSlot(r, w) /\ r.run.retrieved_at < w.run.retrieved_at
        BY <3>2
      <4>2. w \in rows /\ w.superseded_at = NULL /\ w.run.retrieved_at \in Nat
        BY <4>1, RowRun DEF Active
      <4>3. CASE w \in EndedBy(run)
        BY <2>0, <3>1, <4>1, <4>2, <4>3
      <4>4. CASE w \notin EndedBy(run)
        <5>1. w \in rows'
          BY <1>3, <4>2, <4>4 DEF Became
        <5> QED BY <3>1, <4>1, <4>2, <5>1
      <4> QED BY <4>3, <4>4
    <3> QED BY <1>1, <3>1, <3>2 DEF OrderInv, LaterStands
  <2> QED BY <1>3, <2>1, <2>2, <2>3
<1>13. ASSUME NEW u \in runs'
       PROVE  \E n \in rows' : n.superseded_at = NULL
                               /\ (n.run = u \/ u.retrieved_at < n.run.retrieved_at)
  <2>1. PICK m \in New(run) : m \in rows' /\ m.superseded_at = NULL /\ m.run = run
    BY <1>7, <1>8, StatesSomething
  <2>2. CASE u = run
    BY <2>1, <2>2
  <2>3. CASE u \in runs
    <3>1. PICK r \in rows : /\ r.superseded_at = NULL
                            /\ r.run = u \/ u.retrieved_at < r.run.retrieved_at
      BY <2>3 DEF OrderInv, RunStands, Active
    <3>2. CASE r \in EndedBy(run)
      <4>1. r.run.retrieved_at < run.retrieved_at /\ r.run.retrieved_at \in Nat
            /\ u.retrieved_at \in Nat
        BY <1>6, <2>3, <3>2, RowRun, RunFields DEF RowsInv
      <4>2. u.retrieved_at < run.retrieved_at
        BY <1>4, <3>1, <4>1
      <4> QED BY <2>1, <4>2
    <3>3. CASE r \notin EndedBy(run)
      <4>1. r \in rows'
        BY <1>3, <3>3 DEF Became
      <4> QED BY <3>1, <4>1
    <3> QED BY <3>2, <3>3
  <2> QED BY <1>1, <2>2, <2>3
<1>14. EndedByFirst'
  BY <1>10, RunSays DEF EndedByFirst, EndsClaim
<1>15. OneOfAClock'
  BY <1>11 DEF OneOfAClock, SameSlot
<1>16. LaterStands'
  BY <1>12 DEF LaterStands, SameSlot, Active
<1>17. RunStands'
  BY <1>13 DEF RunStands, Active
<1> QED BY <1>14, <1>15, <1>16, <1>17 DEF OrderInv

LEMMA OrderSame ==
  ASSUME rows' = rows, runs' = runs, OrderInv
  PROVE  OrderInv'
<1>1. EndedByFirst'
  BY RunSays DEF OrderInv, EndedByFirst, EndsClaim
<1>2. OneOfAClock' /\ RunStands'
  BY DEF OrderInv, OneOfAClock, SameSlot, RunStands, Active
<1>3. LaterStands'
  BY DEF OrderInv, LaterStands, SameSlot, Active
<1> QED BY <1>1, <1>2, <1>3 DEF OrderInv

LEMMA OrderStep ==
  ASSUME RowsInv, late = {} => OrderInv, NEW run \in Run, ImportNistAwards(run), late' = {}
  PROVE  OrderInv'
<1>1. late = {} /\ OrderInv
  BY DEF ImportNistAwards
<1>2. CASE run \in runs
  <2>1. rows' = rows /\ runs' = runs
    BY <1>1, <1>2, ReimportChangesNothing DEF ImportNistAwards
  <2> QED BY <1>1, <2>1, OrderSame
<1>3. CASE run \notin runs
  BY <1>1, <1>3, OrderStepNew
<1> QED BY <1>2, <1>3

LEMMA RowsSame ==
  ASSUME UNCHANGED vars, RowsInv
  PROVE  RowsInv'
<1>1. \A r : RowInv(r) => RowInv(r)'
  BY RunSays DEF vars, RowInv, IsProgram, Row
<1>2. StoredOnce'
  BY RunSays DEF vars, RowsInv, StoredOnce
<1>3. ProgramInv'
  BY RunSays DEF vars, RowsInv, ProgramInv, IsProgram, About
<1> QED BY <1>1, <1>2, <1>3 DEF vars, RowsInv

LEMMA InitIInv == Init => IInv
  BY DEF Init, IInv, RowsInv, StoredOnce, ProgramInv, OrderInv, EndedByFirst, OneOfAClock,
         LaterStands, RunStands

LEMMA NextIInv == IInv /\ [Next]_vars => IInv'
<1> SUFFICES ASSUME IInv, [Next]_vars PROVE IInv'
  OBVIOUS
<1>1. CASE Next
  <2>1. PICK run \in Run : ImportNistAwards(run)
    BY <1>1 DEF Next
  <2>2. RowsInv'
    BY <2>1, RowsStep DEF IInv
  <2>3. late' = {} => OrderInv'
    BY <2>1, OrderStep DEF IInv
  <2> QED BY <2>2, <2>3 DEF IInv
<1>2. CASE UNCHANGED vars
  <2>1. RowsInv'
    BY <1>2, RowsSame DEF IInv
  <2>2. late' = {} => OrderInv'
    BY <1>2, OrderSame DEF IInv, vars
  <2> QED BY <2>1, <2>2 DEF IInv
<1> QED BY <1>1, <1>2

\* Every stored claim version is the statement of a stored run, each run's once; and
\* while no run came late, a version is ended by the first later run that speaks of
\* its slot or that is complete (import_nist_awards, insert_claim).
THEOREM IInvAlways == Spec => []IInv
  BY InitIInv, NextIInv, PTL DEF Spec

\* The variables keep their types: a version's series is one that a page can have.
THEOREM TypeCorrect == Spec => []TypeOK
<1>1. IInv => TypeOK
  <2> SUFFICES ASSUME RowsInv PROVE TypeOK
    BY DEF IInv
  <2>1. ASSUME NEW r \in rows
        PROVE  r.run \in runs /\ r.series \in Series /\ r.superseded_at \in Clock \cup {NULL}
    BY StatedFacts DEF RowsInv, RowInv
  <2> QED BY <2>1 DEF RowsInv, TypeOK
<1> QED BY <1>1, IInvAlways, PTL

-----------------------------------------------------------------------------
(* Programs outlive the groups. *)

LEMMA NamedOnce ==
  ASSUME RowsInv, NEW run \in runs, NEW a \in Grouped(run)
  PROVE  NamedFor(a) = {ProgramOf(GroupOf(run, a))}
<1>1. PICK r \in rows : /\ r.series = About(a, "program") /\ IsProgram(r)
                        /\ r.value = ProgramOf(GroupOf(run, a))
  BY ProgramOfPage
<1>2. \A w \in rows : w.series = About(a, "program") => w.value = r.value
  BY <1>1 DEF RowsInv, ProgramInv
<1> QED BY <1>1, <1>2 DEF NamedFor

\* A page belongs to one program for ever, and two pages that a run grouped belong to
\* one program exactly if it put them in one group (_existing_award_program_entity).
THEOREM ProgramsAreStableAlways == Spec => []ProgramsAreStable
<1>1. RowsInv => ProgramsAreStable
  <2> SUFFICES ASSUME RowsInv, NEW run \in runs, NEW a \in Grouped(run), NEW b \in Grouped(run)
               PROVE  /\ Cardinality(NamedFor(a)) = 1
                      /\ NamedFor(a) = NamedFor(b) <=> GroupOf(run, a) = GroupOf(run, b)
    BY DEF ProgramsAreStable
  <2>1. NamedFor(a) = {ProgramOf(GroupOf(run, a))} /\ NamedFor(b) = {ProgramOf(GroupOf(run, b))}
    BY NamedOnce
  <2>2. Cardinality(NamedFor(a)) = 1
    BY <2>1, FS_Singleton
  <2>3. PICK r \in rows : /\ r.run = run /\ IsProgram(r) /\ r.series.award = a
                          /\ r.value = ProgramOf(GroupOf(run, a))
    BY ProgramOfPage
  <2>4. PICK w \in rows : /\ w.run = run /\ IsProgram(w) /\ w.series.award = b
                          /\ w.value = ProgramOf(GroupOf(run, b))
    BY ProgramOfPage
  <2>5. r.value = w.value <=> GroupOf(run, a) = GroupOf(run, b)
    BY <2>3, <2>4 DEF RowsInv, ProgramInv
  <2> QED BY <2>1, <2>2, <2>3, <2>4, <2>5
<1>2. IInv => ProgramsAreStable
  BY <1>1 DEF IInv
<1> QED BY <1>2, IInvAlways, PTL

-----------------------------------------------------------------------------
(* Stored runs, imported again. *)

LEMMA GroupsMember ==
  ASSUME NEW run, NEW G \in Groups(run)
  PROVE  \E a \in Grouped(run) : G = GroupOf(run, a)
  BY DEF Groups

LEMMA StoredResolvable ==
  ASSUME RowsInv, NEW run \in runs
  PROVE  Resolvable(run)
<1>1. ASSUME NEW G \in Groups(run) PROVE Cardinality(Programs(G)) <= 1
  <2>1. PICK a \in Grouped(run) : G = GroupOf(run, a)
    BY GroupsMember
  <2>2. \A x, y \in Programs(G) : x = y
    BY <2>1, OneProgram, ProgramsMember
  <2>3. IsFiniteSet(Programs(G))
    BY ProgramsFinite DEF RowsInv
  <2> QED BY <2>2, <2>3, AtMostOne
<1>2. ASSUME NEW G \in Groups(run), NEW H \in Groups(run), NEW p \in Programs(G), p \in Programs(H)
      PROVE  G = H
  <2>1. PICK a \in Grouped(run) : G = GroupOf(run, a)
    BY GroupsMember
  <2>2. PICK b \in Grouped(run) : H = GroupOf(run, b)
    BY GroupsMember
  <2>3. p = ProgramOf(GroupOf(run, a))
    BY <2>1, OneProgram, ProgramsMember
  <2>4. p = ProgramOf(GroupOf(run, b))
    BY <1>2, <2>2, OneProgram, ProgramsMember
  <2>5. PICK r \in rows : /\ r.run = run /\ IsProgram(r) /\ r.series.award = a
                          /\ r.value = ProgramOf(GroupOf(run, a))
    BY ProgramOfPage
  <2>6. PICK w \in rows : /\ w.run = run /\ IsProgram(w) /\ w.series.award = b
                          /\ w.value = ProgramOf(GroupOf(run, b))
    BY ProgramOfPage
  <2>7. r.value = w.value <=> GroupOf(run, a) = GroupOf(run, b)
    BY <2>5, <2>6 DEF RowsInv, ProgramInv
  <2> QED BY <2>1, <2>2, <2>3, <2>4, <2>5, <2>6, <2>7
<1> QED BY <1>1, <1>2 DEF Resolvable

LEMMA RetiresOlder ==
  ASSUME RowsInv, OrderInv, NEW run \in runs, run.complete
  PROVE  (\A r \in Retires(run) : r.run.retrieved_at < run.retrieved_at) <=>
           \A other \in runs \ {run} : other.retrieved_at < run.retrieved_at
<1>1. ASSUME \A r \in Retires(run) : r.run.retrieved_at < run.retrieved_at,
             NEW other \in runs, other # run
      PROVE  other.retrieved_at < run.retrieved_at
  <2>1. PICK r \in Active : r.run = other \/ other.retrieved_at < r.run.retrieved_at
    BY DEF OrderInv, RunStands
  <2>2. r \in rows /\ r.run \in runs /\ r.run.retrieved_at \in Nat
    BY <2>1, RowRun DEF Active
  <2>3. other.retrieved_at \in Nat /\ run.retrieved_at \in Nat
    BY RunFields DEF RowsInv
  <2>4. CASE r.run = run
    BY <1>1, <2>1, <2>4
  <2>5. CASE r.run # run
    <3>1. r.run.retrieved_at < run.retrieved_at
      BY <1>1, <2>1, <2>5 DEF Retires
    <3> QED BY <2>1, <2>2, <2>3, <3>1
  <2> QED BY <2>4, <2>5
<1>2. ASSUME \A other \in runs \ {run} : other.retrieved_at < run.retrieved_at,
             NEW r \in Retires(run)
      PROVE  r.run.retrieved_at < run.retrieved_at
  <2>1. r \in rows /\ r.run # run
    BY DEF Retires, Active
  <2> QED BY <1>2, <2>1, RowRun
<1> QED BY <1>1, <1>2

\* Importing a stored snapshot again succeeds, unless it is a complete one and a claim
\* of a later retrieval stands, and then it changes nothing (import_nist_awards).
THEOREM ReimportIsQuietAlways == Spec => []ReimportIsQuiet
<1>1. ASSUME RowsInv, OrderInv, NEW run \in runs
      PROVE  /\ Accepts(run) <=>
                  (run.complete =>
                     \A other \in runs \ {run} : other.retrieved_at < run.retrieved_at)
             /\ Accepts(run) => After(run) = rows
  <2>1. Resolvable(run)
    BY <1>1, StoredResolvable
  <2>2. Insertable(run)
    BY <1>1, NewClaims DEF Insertable, RowsInv
  <2>3. Accepts(run) <=> \A r \in Retires(run) : r.run.retrieved_at < run.retrieved_at
    BY <2>1, <2>2 DEF Accepts
  <2>4. ~run.complete => Retires(run) = {}
    BY DEF Retires
  <2> QED BY <1>1, <2>3, <2>4, RetiresOlder, ReimportChangesNothing
<1>2. IInv => ReimportIsQuiet
  BY <1>1 DEF IInv, ReimportIsQuiet
<1> QED BY <1>2, IInvAlways, PTL

-----------------------------------------------------------------------------
(* What readers see. *)

\* The runs a reader of date d at k counts that state a series, and their order.
Stating(d, k, s) == {run \in Counted(k) : run.as_of <= d /\ s \in Stated(run)}

Follows(u, v) ==
  \/ v.as_of < u.as_of
  \/ v.as_of = u.as_of /\ v.retrieved_at < u.retrieved_at

LEMMA StatingMember ==
  ASSUME RowsInv, NEW d, NEW k, NEW s, NEW u
  PROVE  /\ u \in Stating(d, k, s) <=>
              /\ u \in runs /\ u.retrieved_at <= k /\ u.as_of <= d /\ s \in Stated(u)
              /\ \A c \in runs :
                   c.retrieved_at <= k /\ c.complete => c.retrieved_at <= u.retrieved_at
         /\ u \in Stating(d, k, s) => u \in Run /\ u.retrieved_at \in Nat /\ u.as_of \in Nat
<1>1. u \in runs => u \in Run /\ u.retrieved_at \in Nat /\ u.as_of \in Nat
  BY RunFields DEF RowsInv
<1> QED BY <1>1 DEF Stating, Counted

\* Of the runs that state a series one follows all the others.
LEMMA LatestStating ==
  ASSUME RowsInv, OrderInv, NEW d \in Nat, NEW k \in Nat, NEW s, Stating(d, k, s) # {}
  PROVE  \E u \in Stating(d, k, s) : \A v \in Stating(d, k, s) : v # u => Follows(u, v)
<1> DEFINE U == Stating(d, k, s)
<1>1. \A u \in U : /\ u \in runs /\ u.retrieved_at <= k /\ u.as_of <= d /\ s \in Stated(u)
                   /\ u.retrieved_at \in Nat /\ u.as_of \in Nat
  BY StatingMember
<1>0. U # {}
  OBVIOUS
<1> HIDE DEF U
<1> DEFINE Dates == {u.as_of : u \in U}
<1>2. PICK x \in Dates : \A y \in Dates : y <= x
  <2>1. Dates \subseteq Nat /\ Dates # {} /\ \A y \in Dates : y <= d
    BY <1>0, <1>1
  <2> QED BY <2>1, GreatestBelow
<1>3. PICK u0 \in U : u0.as_of = x
  BY <1>2
<1> DEFINE Clocks == {u.retrieved_at : u \in {v \in U : v.as_of = x}}
<1>4. PICK t \in Clocks : \A y \in Clocks : y <= t
  <2>1. Clocks \subseteq Nat /\ Clocks # {} /\ \A y \in Clocks : y <= k
    BY <1>1, <1>3
  <2> QED BY <2>1, GreatestBelow
<1>5. PICK u \in U : u.as_of = x /\ u.retrieved_at = t
  BY <1>4
<1>6. ASSUME NEW v \in U, v # u PROVE Follows(u, v)
  <2>1. v.as_of <= u.as_of /\ (v.as_of = u.as_of => v.retrieved_at <= u.retrieved_at)
    BY <1>2, <1>4, <1>5
  <2>2. PICK r \in rows : r.run = u /\ r.series = s
    BY <1>1 DEF RowsInv, StoredOnce
  <2>3. PICK w \in rows : w.run = v /\ w.series = s
    BY <1>1, <1>6 DEF RowsInv, StoredOnce
  <2>4. ~(v.as_of = u.as_of /\ v.retrieved_at = u.retrieved_at)
    BY <1>6, <2>2, <2>3 DEF OrderInv, OneOfAClock, SameSlot
  <2> QED BY <1>1, <1>6, <2>1, <2>4 DEF Follows
<1> QED BY <1>6 DEF U

\* A version that is visible is the statement of a run that counts.
LEMMA VisibleStates ==
  ASSUME RowsInv, OrderInv, NEW d \in Nat, NEW k \in Nat, NEW r \in Visible(d, k)
  PROVE  r \in rows /\ r.run \in Stating(d, k, r.series)
<1>1. /\ r \in rows /\ r.run.as_of <= d /\ r.run.retrieved_at <= k
      /\ r.superseded_at # NULL => k < r.superseded_at
  BY DEF Visible
<1>2. /\ r.run \in runs /\ r.series \in Stated(r.run) /\ r.run.retrieved_at \in Nat
      /\ r.superseded_at # NULL => r.superseded_at \in Nat
  BY <1>1, RowRun
<1>3. ASSUME NEW c \in runs, c.retrieved_at <= k, c.complete,
             ~(c.retrieved_at <= r.run.retrieved_at)
      PROVE  FALSE
  <2>1. c.retrieved_at \in Nat
    BY RunFields DEF RowsInv
  <2>2. EndsClaim(c, r)
    BY <1>2, <1>3, <2>1 DEF EndsClaim
  <2>3. r.superseded_at # NULL /\ r.superseded_at <= c.retrieved_at
    BY <1>1, <2>2 DEF OrderInv, EndedByFirst
  <2> QED BY <1>1, <1>2, <1>3, <2>1, <2>3
<1> QED BY <1>1, <1>2, <1>3, StatingMember

\* The statement of the run that follows the others is visible.
LEMMA LatestVisible ==
  ASSUME RowsInv, OrderInv, NEW d \in Nat, NEW k \in Nat, NEW s, NEW u \in Stating(d, k, s),
         \A v \in Stating(d, k, s) : v # u => Follows(u, v),
         NEW r \in rows, r.run = u, r.series = s
  PROVE  r \in Visible(d, k)
<1>1. /\ u \in runs /\ u.retrieved_at <= k /\ u.as_of <= d
      /\ u.retrieved_at \in Nat /\ u.as_of \in Nat
      /\ \A c \in runs : c.retrieved_at <= k /\ c.complete => c.retrieved_at <= u.retrieved_at
  BY StatingMember
<1>2. r.superseded_at # NULL => r.superseded_at \in Nat
  BY RowRun
<1>3. ASSUME r.superseded_at # NULL, ~(k < r.superseded_at) PROVE FALSE
  <2>1. PICK e \in runs : EndsClaim(e, r) /\ e.retrieved_at = r.superseded_at
    BY <1>3 DEF OrderInv, EndedByFirst
  <2>2. /\ u.retrieved_at < e.retrieved_at /\ e.retrieved_at <= k /\ e.retrieved_at \in Nat
        /\ e.complete \/ (s \in Stated(e) /\ e.as_of = u.as_of)
    BY <1>2, <1>3, <2>1 DEF EndsClaim
  <2>3. ~e.complete
    BY <1>1, <2>2
  <2>4. \A c \in runs : c.retrieved_at <= k /\ c.complete => c.retrieved_at <= e.retrieved_at
    <3>1. ASSUME NEW c \in runs, c.retrieved_at <= k, c.complete
          PROVE  c.retrieved_at <= e.retrieved_at
      <4>1. c.retrieved_at \in Nat /\ c.retrieved_at <= u.retrieved_at
        BY <1>1, <3>1, RunFields DEF RowsInv
      <4> QED BY <1>1, <2>2, <4>1
    <3> QED BY <3>1
  <2>5. e \in Stating(d, k, s)
    BY <1>1, <2>2, <2>3, <2>4, StatingMember
  <2>6. e # u
    BY <1>1, <2>2
  <2> QED BY <1>1, <2>2, <2>3, <2>5, <2>6 DEF Follows
<1> QED BY <1>1, <1>3 DEF Visible

LEMMA LaterFollows ==
  ASSUME NEW r, NEW w, r.run.as_of \in Nat, w.run.as_of \in Nat,
         r.run.retrieved_at \in Nat, w.run.retrieved_at \in Nat
  PROVE  Later(r, w) <=> Follows(r.run, w.run)
  BY DEF Later, Follows

\* Current is that statement and no other.
LEMMA CurrentIsLatest ==
  ASSUME RowsInv, OrderInv, NEW d \in Nat, NEW k \in Nat, NEW r
  PROVE  r \in Current(d, k) <=>
           /\ r \in rows /\ r.run \in Stating(d, k, r.series)
           /\ \A v \in Stating(d, k, r.series) : v # r.run => Follows(r.run, v)
<1>1. ASSUME r \in rows, r.run \in Stating(d, k, r.series),
             \A v \in Stating(d, k, r.series) : v # r.run => Follows(r.run, v)
      PROVE  r \in Current(d, k)
  <2>1. r \in Visible(d, k)
    BY <1>1, LatestVisible
  <2>2. ASSUME NEW w \in Visible(d, k), w.series = r.series, w # r PROVE Later(r, w)
    <3>1. w \in rows /\ w.run \in Stating(d, k, r.series)
      BY <2>2, VisibleStates
    <3>2. w.run # r.run
      BY <1>1, <2>2, <3>1 DEF RowsInv, StoredOnce
    <3>3. Follows(r.run, w.run)
      BY <1>1, <3>1, <3>2
    <3> QED BY <1>1, <3>1, <3>3, RowRun, LaterFollows
  <2> QED BY <2>1, <2>2 DEF Current
<1>2. ASSUME r \in Current(d, k)
      PROVE  /\ r \in rows /\ r.run \in Stating(d, k, r.series)
             /\ \A v \in Stating(d, k, r.series) : v # r.run => Follows(r.run, v)
  <2>1. r \in Visible(d, k) /\ \A w \in Visible(d, k) : w.series = r.series /\ w # r => Later(r, w)
    BY <1>2 DEF Current
  <2>2. r \in rows /\ r.run \in Stating(d, k, r.series)
    BY <2>1, VisibleStates
  <2>3. PICK u \in Stating(d, k, r.series) :
               \A v \in Stating(d, k, r.series) : v # u => Follows(u, v)
    BY <2>2, LatestStating
  <2>4. u \in runs /\ r.series \in Stated(u)
    BY StatingMember
  <2>5. PICK w \in rows : w.run = u /\ w.series = r.series
    BY <2>4 DEF RowsInv, StoredOnce
  <2>6. w \in Visible(d, k)
    BY <2>3, <2>5, LatestVisible
  <2>7. CASE w = r
    BY <2>2, <2>3, <2>5, <2>7
  <2>8. CASE w # r
    <3>1. Follows(r.run, u)
      BY <2>1, <2>2, <2>5, <2>6, <2>8, RowRun, LaterFollows
    <3>2. u # r.run
      BY <2>2, <2>5, <2>8 DEF RowsInv, StoredOnce
    <3>3. Follows(u, r.run)
      BY <2>2, <2>3, <3>2
    <3>4. /\ u.as_of \in Nat /\ u.retrieved_at \in Nat
          /\ r.run.as_of \in Nat /\ r.run.retrieved_at \in Nat
      BY <2>2, <2>5, RowRun
    <3> QED BY <3>1, <3>3, <3>4 DEF Follows
  <2> QED BY <2>7, <2>8
<1> QED BY <1>1, <1>2

LEMMA OtherRun ==
  ASSUME NEW r, RowInv(r), NEW u
  PROVE  [r EXCEPT !.run = u].run = u
<1>1. r = [series |-> r.series, value |-> r.value, run |-> r.run, superseded_at |-> r.superseded_at]
  BY DEF RowInv, Row
<1> DEFINE s == r.series  v == r.value  o == r.run  t == r.superseded_at
<1>2. r = [series |-> s, value |-> v, run |-> o, superseded_at |-> t]
  BY <1>1
<1> HIDE DEF s, v, o, t
<1> QED BY <1>2

\* While no run came late, what current_claims shows for any date and clock is what the
\* runs a reader counts have said, each series with the value of the latest statement.
THEOREM ShownIsWhatRunsSaidAlways == Spec => []ShownIsWhatRunsSaid
<1>1. ASSUME RowsInv, OrderInv, NEW d \in Date, NEW k \in Clock
      PROVE  LET counted == {run \in Counted(k) : run.as_of <= d}
                 shown == Current(d, k)
             IN /\ {r.series : r \in shown} = UNION {Stated(run) : run \in counted}
                /\ \A r \in shown :
                     /\ r.run \in counted /\ r.series \in Stated(r.run)
                     /\ r.value = ValueOf(r.run, r.series)
                     /\ \A run \in counted : r.series \in Stated(run) /\ run # r.run =>
                          Later(r, [r EXCEPT !.run = run])
  <2> DEFINE counted == {run \in Counted(k) : run.as_of <= d}
             shown == Current(d, k)
  <2>1. d \in Nat /\ k \in Nat
    BY TimeAssumption
  <2>2. \A s, u : u \in Stating(d, k, s) <=> u \in counted /\ s \in Stated(u)
    BY DEF Stating
  <2> HIDE DEF counted, shown
  <2>3. ASSUME NEW r \in shown
        PROVE  /\ r \in rows /\ r.run \in Stating(d, k, r.series)
               /\ \A v \in Stating(d, k, r.series) : v # r.run => Follows(r.run, v)
    BY <1>1, <2>1, CurrentIsLatest DEF shown
  <2>4. ASSUME NEW r \in shown PROVE r.series \in UNION {Stated(run) : run \in counted}
    BY <2>2, <2>3
  <2>5. ASSUME NEW run \in counted, NEW s \in Stated(run)
        PROVE  \E r \in shown : r.series = s
    <3>1. PICK u \in Stating(d, k, s) : \A v \in Stating(d, k, s) : v # u => Follows(u, v)
      BY <1>1, <2>1, <2>2, <2>5, LatestStating
    <3>2. PICK r \in rows : r.run = u /\ r.series = s
      BY <1>1, <3>1, StatingMember DEF RowsInv, StoredOnce
    <3> QED BY <1>1, <2>1, <3>1, <3>2, CurrentIsLatest DEF shown
  <2>6. ASSUME NEW r \in shown, NEW run \in counted, r.series \in Stated(run), run # r.run
        PROVE  Later(r, [r EXCEPT !.run = run])
    <3>1. run \in Stating(d, k, r.series)
      BY <2>2, <2>6
    <3>2. Follows(r.run, run)
      BY <2>3, <2>6, <3>1
    <3>3. [r EXCEPT !.run = run].run = run
      BY <1>1, <2>3, OtherRun DEF RowsInv
    <3>4. /\ r.run.as_of \in Nat /\ r.run.retrieved_at \in Nat
          /\ run.as_of \in Nat /\ run.retrieved_at \in Nat
      BY <1>1, <2>3, <3>1, StatingMember
    <3> QED BY <3>2, <3>3, <3>4, LaterFollows
  <2>7. \A r \in shown : r.value = ValueOf(r.run, r.series)
    BY <1>1, <2>3, ValueOfStored
  <2>8. {r.series : r \in shown} = UNION {Stated(run) : run \in counted}
    BY <2>4, <2>5
  <2> QED BY <2>2, <2>3, <2>6, <2>7, <2>8 DEF counted, shown
<1>2. IInv => ShownIsWhatRunsSaid
  BY <1>1 DEF IInv, ShownIsWhatRunsSaid
<1> QED BY <1>2, IInvAlways, PTL
=============================================================================
