---------------------------- MODULE MCClaimLedger ----------------------------
(***************************************************************************)
(* A small instance of ClaimLedger: two series, callers who submit clocks  *)
(* and valid-time intervals in any order, and lineage that arrives late,   *)
(* in any order, with claims that depend on each other.                    *)
(***************************************************************************)
EXTENDS ClaimLedger, FiniteSets, TLC

CONSTANTS e1, s1, s2, d1, r1, n1, v1, v2, v3, c1, c2, c3

OneEntity == s1 :> e1 @@ s2 :> e1
OneRecordDocument == r1 :> d1
OneRecordRun == r1 :> n1
TwoKinds == s1 :> "milestone" @@ s2 :> "relationship"
ThreeValues == v1 :> "milestone" @@ v2 :> "relationship" @@ v3 :> "milestone"
LinkTarget == v1 :> NULL @@ v2 :> e1 @@ v3 :> NULL

\* Open and bounded intervals; v3 is an upper bound, of unknown effective time.
Intervals == {<<1, NULL>>, <<1, 2>>, <<2, NULL>>}

\* c1 and c3 are milestones of one series, c2 a relationship of the other or a
\* third version of the first.  A claim rests on the document alone, on the
\* record, or on claims, itself included.
Lineage(c) ==
  {[evidence |-> {[document |-> d1, record |-> r1]}, dependencies |-> {}]} \cup
  {[evidence |-> {}, dependencies |-> D] :
     D \in IF c = c2 THEN {{c1}, {c3}, {c2}} ELSE {{c2}}}

Stating(c, s, i, t, x) ==
  [id |-> c, series |-> s, valid_from |-> i[1], valid_to |-> i[2],
   recorded_at |-> t, kind |-> IF x.evidence = {} THEN "derived_estimate" ELSE "source_statement",
   value |-> IF s = s2 THEN v2 ELSE IF i[1] = NULL THEN v3 ELSE v1,
   evidence |-> x.evidence, dependencies |-> x.dependencies]

OnDocument == [evidence |-> {[document |-> d1, record |-> NULL]}, dependencies |-> {}]

LedgerSubmission ==
  {Stating(c, s1, i, t, OnDocument) : c \in {c1, c3}, i \in Intervals, t \in Time} \cup
  {Stating(c2, s1, i, t, OnDocument) : i \in {<<1, NULL>>, <<NULL, NULL>>}, t \in Time} \cup
  UNION {{Stating(c, IF c = c2 THEN s2 ELSE s1, <<1, NULL>>, t, x) : t \in Time, x \in Lineage(c)} :
           c \in ClaimId}

MilestoneSymmetry == Permutations({c1, c3})
=============================================================================
