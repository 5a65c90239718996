------------------------------ MODULE Retention ------------------------------
(***************************************************************************)
(* Which releases go, by what the two pruning loops come to: a deploy      *)
(* keeps so many besides the releases the links name, `prune` counts those *)
(* as kept.  The loops themselves are in PruneLoops.  sort.Slice is not    *)
(* stable, so that releases of equal rank come in any order.               *)
(***************************************************************************)
EXTENDS FiniteSets, Integers

CONSTANTS
  Versions,  \* the release versions
  Rank       \* Rank[v]: the place of v in the order of semver.Compare

DefaultKeepReleases == 5

ToKeep(keep) == IF keep < 1 THEN DefaultKeepReleases ELSE keep

\* The sets of the n newest releases of S (all of S when it has fewer).
Newest(S, n) ==
  { K \in SUBSET S :
      /\ Cardinality(K) = IF Cardinality(S) < n THEN Cardinality(S) ELSE n
      /\ \A k \in K, r \in S \ K : Rank[k] >= Rank[r] }

\* Variant: the releases the links name are not exempt.
PruneVictimsAny(listed, protected, keep) ==
  { listed \ K : K \in Newest(listed, ToKeep(keep)) }

\* pruneOldReleases keeps `keep` releases besides the protected ones.
PruneVictims(listed, protected, keep) ==
  LET candidates == listed \ protected
  IN  { candidates \ K : K \in Newest(candidates, ToKeep(keep)) }

\* prune's Run: an unprotected release goes when `keep` releases, protected
\* or not, are newer than it.
PruneRemovals(listed, protected, keep) ==
  { (listed \ K) \ protected : K \in Newest(listed, ToKeep(keep)) }
=============================================================================
