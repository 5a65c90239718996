-------------------------------- MODULE Prune --------------------------------
(***************************************************************************)
(* `svc-deploy prune <service> [--keep N]`: Operation.Run of               *)
(* internal/prune.  It takes no lock, so each of its reads and removals    *)
(* may come between any two steps of a deploy or a rollback.               *)
(***************************************************************************)
EXTENDS Rollback

CONSTANTS
  Pruners,  \* the prune processes
  Keeps     \* the values of --keep, 0 when the flag is not given

ASSUME PruneAssumption == Pruners \cap Operators = {} /\ Keeps \subseteq Nat

VARIABLES
  prunepc,   \* prunepc[q]: where pruner q is
  protected, \* protected[q]: the versions its Readlinks have found
  victims    \* victims[q]: releases its loop has yet to remove

prunevars == <<prunepc, protected, victims>>

PruneStep(q, here, next) ==
  /\ prunepc[q] = here
  /\ prunepc' = [prunepc EXCEPT ![q] = next]

Protect(q, link) ==
  protected' = [protected EXCEPT ![q] = @ \cup ({link} \ {NoVersion})]

PruneReadCurrent(q) ==
  /\ PruneStep(q, "idle", "readPrevious")
  /\ Protect(q, current)
  /\ UNCHANGED <<smvars, hostvars, opvars, victims>>

PruneReadPrevious(q) ==
  /\ PruneStep(q, "readPrevious", "list")
  /\ Protect(q, previous)
  /\ UNCHANGED <<smvars, hostvars, opvars, victims>>

PruneList(q) ==
  /\ PruneStep(q, "list", "pruning")
  /\ \E keep \in Keeps :
       \E removals \in PruneRemovals(dirs, protected[q],
                                    IF keep < 1 THEN KeepReleases ELSE keep) :
         victims' = [victims EXCEPT ![q] = removals]
  /\ UNCHANGED <<smvars, hostvars, opvars, protected>>

\* RemoveAll, newest first; a release that cannot be removed is skipped.
PruneRemove(q) ==
  /\ prunepc[q] = "pruning"
  /\ \E v \in victims[q] :
       /\ \A w \in victims[q] : Rank[v] >= Rank[w]
       /\ RemoveAll(v)
       /\ victims' = [victims EXCEPT ![q] = @ \ {v}]
  /\ UNCHANGED <<smvars, lock, running, opvars, prunepc, protected>>

\* Variant: the releases are listed again until no more than `keep` are left.
PruneEndWhenFew(q) ==
  /\ victims[q] = {}
  /\ PruneStep(q, "pruning", IF Cardinality(dirs) > KeepReleases THEN "list" ELSE "idle")
  /\ UNCHANGED <<smvars, hostvars, opvars, protected, victims>>

PruneEnd(q) ==
  /\ victims[q] = {}
  /\ PruneStep(q, "pruning", "idle")
  /\ protected' = [protected EXCEPT ![q] = {}]
  /\ UNCHANGED <<smvars, hostvars, opvars, victims>>

PruneNext(q) ==
  \/ PruneReadCurrent(q) \/ PruneReadPrevious(q) \/ PruneList(q)
  \/ PruneRemove(q) \/ PruneEnd(q)
=============================================================================
