----------------------------- MODULE Publication -----------------------------
(***************************************************************************)
(* What a managed release directory promises: at any time one release is   *)
(* published, or none.  A newer release replaces it in one step and keeps  *)
(* the notes people have left beside it; a release whose own files someone *)
(* has edited is never replaced.                                           *)
(***************************************************************************)
EXTENDS Naturals

CONSTANTS Note, MaxReleases, NULL

Release == 1 .. MaxReleases
Content == [release : Release, notes : SUBSET Note, edited : BOOLEAN]

VARIABLE shown   \* the published release, or NULL

TypeOK == shown \in Content \cup {NULL}

Init == shown = NULL

Replaceable(r) == shown # NULL => ~shown.edited /\ shown.release < r

Publish(r) ==
  /\ Replaceable(r)
  /\ shown' = [release |-> r, notes |-> IF shown = NULL THEN {} ELSE shown.notes,
               edited |-> FALSE]

AddNote(n) == shown # NULL /\ shown' = [shown EXCEPT !.notes = @ \cup {n}]

Edit == shown # NULL /\ shown' = [shown EXCEPT !.edited = TRUE]

Next == (\E r \in Release : Publish(r)) \/ (\E n \in Note : AddNote(n)) \/ Edit

Spec == Init /\ [][Next]_shown
=============================================================================
