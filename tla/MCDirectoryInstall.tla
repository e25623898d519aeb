-------------------------- MODULE MCDirectoryInstall --------------------------
(***************************************************************************)
(* The two ways in which directories are installed: releases, which        *)
(* replace each other at one name, and snapshots, which never do.  They    *)
(* share neither names nor processes, so that a behaviour is about one.    *)
(*                                                                         *)
(* Releases: three of them, two crashes and a failure, two notes.          *)
(* Snapshots: two processes for the same family or for a tax registry      *)
(* snapshot and one that it reads; two LEIs in at most two attempts, while *)
(* up to two golden copies appear; two faults, a power loss, a deletion.   *)
(***************************************************************************)
EXTENDS ReleaseInstall, SnapshotAcquisition, TLC

CONSTANTS n1, n2, p1, p2

JobPairs ==
  {p1 :> pair[1] @@ p2 :> pair[2] : pair \in
     {<<"epa_frs", "epa_frs">>, <<"taiwan_factory", "taiwan_factory">>, <<"gleif", "gleif">>,
      <<"eea_industrial", "eea_industrial">>, <<"taiwan_mof", "taiwan_mof">>,
      <<"taiwan_mof", "moenv">>}}

VARIABLE subject

DirectoryInit ==
  /\ Init /\ AcquisitionInit
  /\ subject \in {"release", "snapshot"}
  /\ subject = "release" => job = [p \in Process |-> "epa_frs"]

DirectoryNext ==
  /\ UNCHANGED subject
  /\ \/ subject = "release" /\ Next /\ UNCHANGED avars
     \/ subject = "snapshot" /\ AcquisitionNext /\ UNCHANGED vars

DirectorySpec ==
  DirectoryInit /\ [][DirectoryNext]_<<subject, vars, avars>> /\ AcquisitionFairness
=============================================================================
