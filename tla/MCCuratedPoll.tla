---------------------------- MODULE MCCuratedPoll ----------------------------
(***************************************************************************)
(* Small instances of CuratedPoll.                                         *)
(***************************************************************************)
EXTENDS CuratedPoll, TLC

CONSTANTS k1, k2, p1, p2

OneTarget == <<k1>>
TwoTargets == <<k1, k2>>
=============================================================================
