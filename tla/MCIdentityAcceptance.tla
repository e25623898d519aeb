----------------------- MODULE MCIdentityAcceptance -----------------------
(***************************************************************************)
(* Two artifacts propose different targets for one facility; the first     *)
(* also covers a second facility.  Accepted at 1, 2 or 5, a run starts     *)
(* within three seconds of another, at the end of them, or after.          *)
(***************************************************************************)
EXTENDS IdentityAcceptance, TLC

CONSTANTS A, B, both, second, none, later, other, drop, o1, o2, t1, t2, p1, p2

Targets == A :> (o1 :> t1 @@ o2 :> t1) @@ B :> (o1 :> t2)
Artifacts == both :> A @@ second :> A @@ none :> A @@ later :> A @@ other :> B @@ drop :> B
Outcomes ==
  both :> (o1 :> "match" @@ o2 :> "match") @@ second :> (o1 :> "reject" @@ o2 :> "match") @@
  none :> (o1 :> "reject" @@ o2 :> "defer") @@ later :> (o1 :> "match" @@ o2 :> "reject") @@
  other :> (o1 :> "match") @@ drop :> (o1 :> "defer")
\* "later" gives its match another first valid date.
ValidFroms == [r \in Review |-> IF r = later THEN 1 ELSE 0]
ReviewTimes == [r \in Review |-> IF r = drop THEN 2 ELSE 1]
ProcessSymmetry == Permutations(Process)
=============================================================================
