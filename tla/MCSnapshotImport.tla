-------------------------- MODULE MCSnapshotImport --------------------------
(***************************************************************************)
(* A small instance of SnapshotImport for the four sources.  One site      *)
(* shows every interaction of codes, texts and classifications; the second *)
(* is there so that an import about one site meets claims of another.      *)
(***************************************************************************)
EXTENDS SnapshotImport, TLC

CONSTANTS x1, x2, c1, c2, n1, n2

Says(C, V) == [codes |-> C, texts |-> V]

\* The site is missing, or gains, loses and changes codes and name.
SiteSnapshots ==
  {x1 :> NULL @@ x2 :> NULL,
   x1 :> Says({c1}, {n1}) @@ x2 :> NULL,
   x1 :> Says({c1, c2}, {n2}) @@ x2 :> NULL,
   x1 :> Says({c2}, {n1}) @@ x2 :> Says({c2}, {}),
   x1 :> NULL @@ x2 :> Says({c1, c2}, {n2})}

\* A facility has at least one flag value, and both when its records disagree.
FacilitySnapshots ==
  {x1 :> NULL @@ x2 :> NULL,
   x1 :> Says({c1}, {n1}) @@ x2 :> NULL,
   x1 :> Says({c1, c2}, {n1, n2}) @@ x2 :> NULL,
   x1 :> Says({c2}, {n2}) @@ x2 :> Says({c2}, {n1})}

RegistrySnapshots ==
  {x1 :> NULL @@ x2 :> NULL,
   x1 :> Says({c1}, {n1}) @@ x2 :> NULL,
   x1 :> Says({c1}, {n2}) @@ x2 :> NULL,
   x1 :> Says({c1, c2}, {n1}) @@ x2 :> Says({c2}, {n1})}

\* The tax registry has more pairs of dates, and fewer contents for each.
TaxSnapshots ==
  {x1 :> NULL @@ x2 :> NULL,
   x1 :> Says({c1}, {n1}) @@ x2 :> NULL,
   x1 :> Says({c1, c2}, {n2}) @@ x2 :> Says({c2}, {n1})}

SnapshotsOf ==
  [src \in Sources |-> CASE src = "epa_frs" -> SiteSnapshots
                         [] src = "moenv" -> FacilitySnapshots
                         [] src = "taiwan_factory" -> RegistrySnapshots
                         [] src = "taiwan_mof" -> TaxSnapshots]
=============================================================================
