----------------------------- MODULE MCNistAwards -----------------------------
(***************************************************************************)
(* A small instance of NistAwards: three pages whose groups meet, part and *)
(* overlap, and two descriptions with different features.                  *)
(***************************************************************************)
EXTENDS NistAwards, TLC

CONSTANTS t1, t2, f1, f2, g1, g2

ExtractsOf == t1 :> {f1} @@ t2 :> {f1, f2}

Says(t, g) == [text |-> t, group |-> g]

PageSnapshots ==
  {1 :> Says(t1, NULL) @@ 2 :> NULL @@ 3 :> NULL,
   1 :> Says(t2, NULL) @@ 2 :> NULL @@ 3 :> NULL,
   1 :> NULL @@ 2 :> Says(t1, g1) @@ 3 :> Says(t2, g1),
   1 :> Says(t1, g1) @@ 2 :> Says(t1, g1) @@ 3 :> NULL,
   1 :> Says(t2, g1) @@ 2 :> NULL @@ 3 :> Says(t1, g2),
   1 :> NULL @@ 2 :> Says(t2, g2) @@ 3 :> NULL}
=============================================================================
