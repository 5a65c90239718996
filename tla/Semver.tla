------------------------------- MODULE Semver -------------------------------
(***************************************************************************)
(* internal/semver: how Compare orders the names of releases.              *)
(*                                                                         *)
(* A name is what parse makes of it: without its "v", the parts between    *)
(* the dots up to the first "-" (core; a part that Atoi takes for no number *)
(* is NaN), what comes from that "-" on (rest), and the whole (name).  The *)
(* last two are only ever given to strings.Compare: they are numbers in    *)
(* its order, and 0 is the empty string.                                   *)
(***************************************************************************)
EXTENDS Integers, Sequences

CONSTANTS
  MaxInt,  \* the largest int: strconv.Atoi fails on what is beyond
  NaN      \* a part of a core that is no number

ASSUME SemverAssumption == MaxInt \in Nat /\ NaN \notin Int

Names == [core : Seq(Nat \cup {NaN}), rest : Nat, name : Nat]

IsInt(part) == part # NaN /\ part <= MaxInt

\* The ok that parse returns.
Valid(v) ==
  /\ Len(v.core) \in {2, 3}
  /\ \A i \in DOMAIN v.core : IsInt(v.core[i])

Major(v) == v.core[1]
Minor(v) == v.core[2]
Patch(v) == IF Len(v.core) = 3 THEN v.core[3] ELSE 0

\* strings.Compare, or the two ifs for one number of a core.
Sign(a, b) == CASE a > b -> 1 [] a < b -> -1 [] OTHER -> 0

\* Variant: a pre-release counts as newer than its release.
CompareRestPlain(v, w) == Sign(v.rest, w.rest)

\* A release comes after its pre-releases.
CompareRest(v, w) ==
  CASE v.rest = 0 /\ w.rest # 0 -> 1
    [] v.rest # 0 /\ w.rest = 0 -> -1
    [] OTHER -> Sign(v.rest, w.rest)

CompareParsed(v, w) ==
  CASE Major(v) # Major(w) -> Sign(Major(v), Major(w))
    [] Major(v) = Major(w) /\ Minor(v) # Minor(w) -> Sign(Minor(v), Minor(w))
    [] Major(v) = Major(w) /\ Minor(v) = Minor(w) /\ Patch(v) # Patch(w)
         -> Sign(Patch(v), Patch(w))
    [] OTHER -> CompareRest(v, w)

Compare(v, w) ==
  CASE Valid(v) /\ Valid(w) -> CompareParsed(v, w)
    [] Valid(v) /\ ~Valid(w) -> 1
    [] ~Valid(v) /\ Valid(w) -> -1
    [] OTHER -> Sign(v.name, w.name)

-----------------------------------------------------------------------------
(* What it should be: names in the lexicographic order of their keys, the  *)
(* three numbers as numbers.  A key has the rest of a pre-release as the   *)
(* string that it is to Compare, so that "-rc10" is before "-rc9", which   *)
(* the precedence of semver.org, number by number, would have the other    *)
(* way round: nothing in the repository promises that one.                 *)

Key(v) ==
  IF Valid(v)
    THEN <<1, Major(v), Minor(v), Patch(v), IF v.rest = 0 THEN 1 ELSE 0, v.rest>>
    ELSE <<0, v.name, 0, 0, 0, 0>>

Before(j, k) ==
  \E i \in 1 .. 6 : j[i] < k[i] /\ \A h \in 1 .. i - 1 : j[h] = k[h]

Older(v, w) == Before(Key(v), Key(w))
=============================================================================
