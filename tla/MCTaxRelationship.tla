-------------------------- MODULE MCTaxRelationship --------------------------
(***************************************************************************)
(* Two artifacts propose different targets for one facility; the first     *)
(* also covers a second facility.  Accepted at 1, 2 or 5, a run starts     *)
(* within three seconds of another, at the end of them, or after; links    *)
(* are proposed as of a time before and a time after the first of them.    *)
(***************************************************************************)
EXTENDS TaxRelationship, TLC

CONSTANTS A, B, both, second, later, other, o1, o2, t1, t2, p1, p2

Targets == A :> (o1 :> t1 @@ o2 :> t1) @@ B :> (o1 :> t2)
Artifacts == both :> A @@ second :> A @@ later :> A @@ other :> B
Outcomes ==
  both :> (o1 :> "match" @@ o2 :> "match") @@ second :> (o1 :> "reject" @@ o2 :> "match") @@
  later :> (o1 :> "match" @@ o2 :> "reject") @@ other :> (o1 :> "match")
\* "later" gives its match another first valid date.
ValidFroms == [r \in Review |-> IF r = later THEN 1 ELSE 0]
ReviewTimes == [r \in Review |-> IF r = both THEN 1 ELSE 2]
ProcessSymmetry == Permutations(Process)
=============================================================================
