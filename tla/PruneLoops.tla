----------------------------- MODULE PruneLoops -----------------------------
(***************************************************************************)
(* The two loops that decide which releases go, step by step: that of      *)
(* pruneOldReleases at the end of a deploy and that of prune's Run.  They  *)
(* are given the directory listing and the versions the links name.        *)
(***************************************************************************)
EXTENDS Semver, SequencesExt, FiniteSetsExt

CONSTANTS
  Versions,  \* the release directories that may exist, a set of Names
  Keeps      \* cfg.KeepReleases and --keep, 0 when not given

ASSUME PruneLoopsAssumption ==
  /\ Versions \subseteq Names /\ IsFiniteSet(Versions)
  /\ Keeps \subseteq Int

VARIABLES
  loop,       \* "deploy" or "prune"
  entries,    \* what ListDirectory returned
  protected,  \* the versions `current` and `previous` name
  configured, \* cfg.KeepReleases
  given,      \* op.keep of prune, 0 in a deploy
  releases,   \* the slice the loop goes over
  next,       \* the index of the release it comes to
  kept,       \* its counter
  removed,    \* the releases whose RemoveAll it has called
  failed      \* those of them whose RemoveAll failed

inputs == <<loop, entries, protected, configured, given>>
vars == <<inputs, releases, next, kept, removed, failed>>

\* Variant: the oldest come first.
SortedOldestFirst(S) ==
  { s \in SetToSeqs(S) :
      \A i, j \in DOMAIN s : i < j => Compare(s[i], s[j]) <= 0 }

\* sort.Slice by Compare(...) > 0, in any of the orders it may leave ties in.
Sorted(S) ==
  { s \in SetToSeqs(S) :
      \A i, j \in DOMAIN s : i < j => Compare(s[i], s[j]) >= 0 }

\* How many to keep.
Limit == IF given < 1 THEN configured ELSE given

\* How the versions would be ranked by their keys.
RankByKey == [v \in Versions |-> Cardinality({ w \in Versions : Older(w, v) })]

INSTANCE Retention WITH Rank <- RankByKey

Init ==
  /\ loop \in {"deploy", "prune"}
  /\ entries \in SUBSET Versions
  /\ protected \in UNION { kSubset(n, Versions) : n \in 0 .. 2 }
  /\ configured \in Keeps
  /\ given \in IF loop = "prune" THEN Keeps ELSE {0}
  /\ releases = << >>
  /\ next = 0
  /\ kept = 0
  /\ removed = {}
  /\ failed = {}

\* A deploy leaves the protected releases out before it sorts, prune does not.
Sort ==
  /\ next = 0
  /\ next' = 1
  /\ releases' \in Sorted(IF loop = "deploy" THEN entries \ protected ELSE entries)
  /\ UNCHANGED <<inputs, kept, removed, failed>>

Release == releases[next]

IsKept(v) == (loop = "prune" /\ v \in protected) \/ kept < ToKeep(Limit)

\* Variant: a protected release is kept and not counted.
KeepReleaseUncounted ==
  /\ next \in DOMAIN releases
  /\ IsKept(Release)
  /\ kept' = IF Release \in protected THEN kept ELSE kept + 1
  /\ next' = next + 1
  /\ UNCHANGED <<inputs, releases, removed, failed>>

KeepRelease ==
  /\ next \in DOMAIN releases
  /\ IsKept(Release)
  /\ kept' = kept + 1
  /\ next' = next + 1
  /\ UNCHANGED <<inputs, releases, removed, failed>>

\* Variant: what cannot be removed is not among the removed.
RemoveReleaseOrFail ==
  /\ next \in DOMAIN releases
  /\ ~IsKept(Release)
  /\ \/ removed' = removed \cup {Release} /\ UNCHANGED failed
     \/ failed' = failed \cup {Release} /\ UNCHANGED removed
  /\ next' = next + 1
  /\ UNCHANGED <<inputs, releases, kept>>

\* A removal that fails is passed over, and counted nowhere.
RemoveRelease ==
  /\ next \in DOMAIN releases
  /\ ~IsKept(Release)
  /\ removed' = removed \cup {Release}
  /\ failed' \in {failed, failed \cup {Release}}
  /\ next' = next + 1
  /\ UNCHANGED <<inputs, releases, kept>>

Next == Sort \/ KeepRelease \/ RemoveRelease

Spec == Init /\ [][Next]_vars

Done == next > Len(releases)

-----------------------------------------------------------------------------
(* What the loops come to                                                  *)

LoopsTypeOK ==
  /\ releases \in Seq(entries)
  /\ next \in 0 .. Cardinality(entries) + 1
  /\ kept \in 0 .. Cardinality(entries)
  /\ failed \subseteq removed
  /\ removed \subseteq entries

\* pruneOldReleases asks for the removal of what PruneVictims says: all
\* unprotected releases but the newest by Key, numbers as numbers and what
\* follows a "-" as a string, in whatever order ties were left.
DeployPrunesVictims ==
  loop = "deploy" /\ Done => removed \in PruneVictims(entries, protected, Limit)

\* So does the loop of prune with PruneRemovals, which counts the protected
\* releases as kept although it may come to them late.
PruneRemovesOld ==
  loop = "prune" /\ Done => removed \in PruneRemovals(entries, protected, Limit)

\* Where no removal fails, prune reports as Remaining how many releases there
\* are afterwards.
RemainingIsTrue ==
  loop = "prune" /\ Done /\ failed = {} => kept = Cardinality(entries \ removed)

\* What the design document says of prune: it keeps exactly the configured
\* number of releases, where there are so many, and where the linked ones are
\* no more than that.  The loop counts a linked release when it comes to it,
\* so that one late in the order is kept beside as many newer ones.
PruneKeepsExactly ==
  loop = "prune" /\ Done /\ failed = {}
    /\ Cardinality(protected) <= ToKeep(Limit) /\ ToKeep(Limit) <= Cardinality(entries)
    => Cardinality(entries \ removed) = ToKeep(Limit)
=============================================================================
