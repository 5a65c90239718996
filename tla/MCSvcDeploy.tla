---------------------------- MODULE MCSvcDeploy ----------------------------
(***************************************************************************)
(* SvcDeploy with three or four versions, for TLC.                         *)
(***************************************************************************)
EXTENDS Properties, TLC

CONSTANTS v1, v2, v3, v4

\* v1 is the oldest; the others compare equal, as versions do that differ only
\* in a way semver.Compare does not see.
RankDef == [v \in Versions |-> IF v = v1 THEN 1 ELSE 2]

\* All compare equal, so that a prune may take them in any order: whatever it
\* does with versions of different ranks it may do with these.
TiedDef == [v \in Versions |-> 1]

\* The operators run the same commands, and versions of one rank whose
\* archives ship the same are alike.
Symmetry ==
  Permutations(Operators) \cup Permutations(Versions \ ({v1} \cup ShipsDb))

\* Where none ships a database and all have one rank.
AllAlike == Permutations(Operators) \cup Permutations(Versions)
=============================================================================
