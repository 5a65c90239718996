----------------------------- MODULE MCRecords -----------------------------
(***************************************************************************)
(* Records with two versions, for TLC.                                     *)
(***************************************************************************)
EXTENDS Records, TLC

CONSTANTS v1, v2

RankDef == [v \in Versions |-> IF v = v1 THEN 1 ELSE 2]
=============================================================================
