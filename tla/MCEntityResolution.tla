------------------------ MODULE MCEntityResolution ------------------------
(***************************************************************************)
(* One observed organization that two runs may take for either of two      *)
(* others.  A third candidate crosses kinds and a fourth comes from a      *)
(* record whose import failed: both must be refused.                       *)
(***************************************************************************)
EXTENDS EntityResolution, TLC

CONSTANTS r1, r2, n1, n2, q1, q2, o, e1, e2, f, v1, v2

Proposed(r, q, c) == [run |-> r, record |-> q, observed |-> o, canonical |-> c]
Proposals == {Proposed(r1, q1, e1), Proposed(r1, q1, e2), Proposed(r2, q1, e2),
              Proposed(r1, q1, f), Proposed(r1, q2, e1)}

\* n1 has completed by 0, n2 has failed.
Completions == n1 :> 0 @@ n2 :> NULL
RecordRuns == q1 :> n1 @@ q2 :> n2
Observations == q1 :> 0 @@ q2 :> 0
Kinds == o :> "organization" @@ e1 :> "organization" @@ e2 :> "organization" @@ f :> "facility"
\* e2 becomes known at 1, after a run that starts at 0.
Creations == o :> 0 @@ e1 :> 0 @@ e2 :> 1 @@ f :> 0
\* v1 states the observed entity, v2 the canonical e1, recorded after a start at 0.
Subjects == v1 :> o @@ v2 :> e1
ClaimRecords == v1 :> q1 @@ v2 :> q1
ClaimRuns == v1 :> n1 @@ v2 :> n1
ClaimClocks == v1 :> 0 @@ v2 :> 1

Periods == {<<1, NULL>>, <<1, 2>>, <<2, NULL>>}
=============================================================================
