-------------------------- MODULE RetentionProofs --------------------------
(***************************************************************************)
(* Proofs that Compare orders the names of releases as sort.Slice needs,   *)
(* and that the two pruning loops, which go through a listing so sorted,   *)
(* come to what Retention says of them.                                    *)
(***************************************************************************)
EXTENDS PruneLoops, FiniteSetTheorems, TLAPS

-----------------------------------------------------------------------------
(* What is so between any two iterations                                   *)

InputsOK ==
  /\ loop \in {"deploy", "prune"}
  /\ entries \subseteq Versions /\ protected \subseteq Versions
  /\ configured \in Int /\ given \in Int

\* The releases that are sorted.
Listed == IF loop = "deploy" THEN entries \ protected ELSE entries

\* The loop has been over releases[1] .. releases[next - 1].  None of the
\* first ToKeep(Limit) went, and of those behind only the protected stayed.
Gone == { releases[i] : i \in ToKeep(Limit) + 1 .. next - 1 } \ protected

LoopInv ==
  \/ next = 0 /\ releases = << >> /\ kept = 0 /\ removed = {} /\ failed = {}
  \/ /\ releases \in Sorted(Listed)
     /\ next \in 1 .. Cardinality(Listed) + 1
     /\ removed = Gone
     /\ failed \subseteq removed
     /\ kept \in Nat /\ kept + Cardinality(removed) = next - 1

-----------------------------------------------------------------------------
(* Compare                                                                 *)

\* The parts of a version that parse accepts are ints.
LEMMA ValidParts ==
  ASSUME NEW v \in Names, Valid(v)
  PROVE  Major(v) \in Nat /\ Minor(v) \in Nat /\ Patch(v) \in Nat
<1>1. v.core \in Seq(Nat \cup {NaN}) /\ Len(v.core) \in {2, 3}
  BY DEF Names, Valid
<1>2. \A i \in 1 .. Len(v.core) : v.core[i] \in Nat
  BY <1>1 DEF Valid, IsInt
<1> QED
  BY <1>1, <1>2 DEF Major, Minor, Patch

\* Key by key.
LEMMA BeforeIsLexicographic ==
  ASSUME NEW a1, NEW a2, NEW a3, NEW a4, NEW a5, NEW a6,
         NEW b1, NEW b2, NEW b3, NEW b4, NEW b5, NEW b6
  PROVE  Before(<<a1, a2, a3, a4, a5, a6>>, <<b1, b2, b3, b4, b5, b6>>) <=>
           \/ a1 < b1
           \/ a1 = b1 /\ a2 < b2
           \/ a1 = b1 /\ a2 = b2 /\ a3 < b3
           \/ a1 = b1 /\ a2 = b2 /\ a3 = b3 /\ a4 < b4
           \/ a1 = b1 /\ a2 = b2 /\ a3 = b3 /\ a4 = b4 /\ a5 < b5
           \/ a1 = b1 /\ a2 = b2 /\ a3 = b3 /\ a4 = b4 /\ a5 = b5 /\ a6 < b6
  BY DEF Before

\* "Compare compares two semantic versions": it is the lexicographic order
\* of the keys, for all names, the ones that parse rejects included.
THEOREM CompareFollowsKeys ==
  ASSUME NEW v \in Names, NEW w \in Names
  PROVE  /\ Compare(v, w) = 1 <=> Older(w, v)
         /\ Compare(v, w) = -1 <=> Older(v, w)
         /\ Compare(v, w) \in {-1, 0, 1}
<1>1. v.rest \in Nat /\ w.rest \in Nat /\ v.name \in Nat /\ w.name \in Nat
  BY DEF Names
<1>2. CASE Valid(v) /\ Valid(w)
  BY <1>1, <1>2, ValidParts, BeforeIsLexicographic
  DEF Compare, CompareParsed, CompareRest, Sign, Older, Key
<1>3. CASE ~(Valid(v) /\ Valid(w))
  BY <1>1, <1>3, BeforeIsLexicographic DEF Compare, Sign, Older, Key
<1> QED
  BY <1>2, <1>3

\* Swapping the arguments swaps the sign: of two releases at most one is
\* newer, whichever way the sort asks.
THEOREM CompareAntisymmetric ==
  ASSUME NEW v \in Names, NEW w \in Names
  PROVE  Compare(w, v) = -Compare(v, w)
  BY CompareFollowsKeys

\* A key is six integers.
LEMMA KeyParts ==
  ASSUME NEW v \in Names
  PROVE  \E a1, a2, a3, a4, a5, a6 \in Int : Key(v) = <<a1, a2, a3, a4, a5, a6>>
<1>1. v.rest \in Nat /\ v.name \in Nat
  BY DEF Names
<1>2. CASE Valid(v)
  <2>1. Key(v) = <<1, Major(v), Minor(v), Patch(v), IF v.rest = 0 THEN 1 ELSE 0, v.rest>>
    BY <1>2 DEF Key
  <2>2. (IF v.rest = 0 THEN 1 ELSE 0) \in Int /\ 1 \in Int
    OBVIOUS
  <2>3. Major(v) \in Int /\ Minor(v) \in Int /\ Patch(v) \in Int /\ v.rest \in Int
    BY <1>1, <1>2, ValidParts
  <2> QED
    BY ONLY <2>1, <2>2, <2>3, Zenon
<1>3. CASE ~Valid(v)
  <2>1. Key(v) = <<0, v.name, 0, 0, 0, 0>>
    BY <1>3 DEF Key
  <2>2. v.name \in Int /\ 0 \in Int
    BY <1>1
  <2> QED
    BY ONLY <2>1, <2>2, Zenon
<1> QED
  BY <1>2, <1>3

\* "Newer or tied" is transitive, ties included: the less function given to
\* sort.Slice is a strict weak order.
THEOREM CompareTransitive ==
  ASSUME NEW u \in Names, NEW v \in Names, NEW w \in Names,
         Compare(u, v) >= 0, Compare(v, w) >= 0
  PROVE  Compare(u, w) >= 0
<1>1. ~Older(u, v) /\ ~Older(v, w)
  BY CompareFollowsKeys
<1>2. ~Older(u, w)
  <2>1. PICK a1, a2, a3, a4, a5, a6 \in Int : Key(u) = <<a1, a2, a3, a4, a5, a6>>
    BY KeyParts
  <2>2. PICK b1, b2, b3, b4, b5, b6 \in Int : Key(v) = <<b1, b2, b3, b4, b5, b6>>
    BY KeyParts
  <2>3. PICK c1, c2, c3, c4, c5, c6 \in Int : Key(w) = <<c1, c2, c3, c4, c5, c6>>
    BY KeyParts
  <2>4. /\ ~Before(<<a1, a2, a3, a4, a5, a6>>, <<b1, b2, b3, b4, b5, b6>>)
        /\ ~Before(<<b1, b2, b3, b4, b5, b6>>, <<c1, c2, c3, c4, c5, c6>>)
    BY <1>1, <2>1, <2>2, <2>3 DEF Older
  <2>5. ~Before(<<a1, a2, a3, a4, a5, a6>>, <<c1, c2, c3, c4, c5, c6>>)
    BY <2>4, BeforeIsLexicographic, SMTT(60)
  <2> QED
    BY <2>1, <2>3, <2>5 DEF Older
<1> QED
  BY <1>2, CompareFollowsKeys

-----------------------------------------------------------------------------
(* The sorted listing                                                      *)

\* What is not older by Compare has a rank as high: sorting by Compare is
\* sorting by the rank of the keys.
LEMMA RankFollowsCompare ==
  ASSUME NEW v \in Versions, NEW w \in Versions, Compare(v, w) >= 0
  PROVE  RankByKey[v] >= RankByKey[w]
<1> DEFINE below(x) == { u \in Versions : Older(u, x) }
<1>1. v \in Names /\ w \in Names /\ IsFiniteSet(Versions)
  BY PruneLoopsAssumption
<1>2. below(w) \subseteq below(v)
  <2> SUFFICES ASSUME NEW u \in Versions, Older(u, w), ~Older(u, v)
               PROVE  FALSE
    OBVIOUS
  <2>1. u \in Names
    BY PruneLoopsAssumption
  <2>2. Compare(u, v) >= 0 /\ Compare(u, w) = -1
    BY <1>1, <2>1, CompareFollowsKeys
  <2>3. Compare(u, w) >= 0
    BY <1>1, <2>1, <2>2, CompareTransitive
  <2> QED
    BY <2>2, <2>3
<1>3. IsFiniteSet(below(v)) /\ IsFiniteSet(below(w))
  BY <1>1, FS_Subset
<1>4. Cardinality(below(w)) <= Cardinality(below(v))
  BY <1>2, <1>3, FS_Subset
<1>5. Cardinality(below(w)) \in Nat /\ Cardinality(below(v)) \in Nat
  BY <1>3, FS_CardinalityType
<1>6. /\ RankByKey[v] = Cardinality(below(v))
      /\ RankByKey[w] = Cardinality(below(w))
  BY DEF RankByKey
<1> QED
  BY <1>4, <1>5, <1>6

\* A sorted listing has every release of S once.
LEMMA SortedEnumerates ==
  ASSUME NEW S, IsFiniteSet(S), NEW s \in Sorted(S)
  PROVE  /\ s \in Bijection(1 .. Cardinality(S), S)
         /\ s \in Seq(S) /\ Len(s) = Cardinality(S)
<1> DEFINE D == 1 .. Cardinality(S)
<1>1. s \in [D -> S] /\ \A i, j \in D : i # j => s[i] # s[j]
  BY DEF Sorted, SetToSeqs
<1>2. Cardinality(S) \in Nat
  BY FS_CardinalityType
<1>3. s \in Injection(D, S)
  BY <1>1 DEF Injection, IsInjective
<1>4. Cardinality(D) = Cardinality(S)
  BY <1>2, FS_Interval
<1>5. s \in Surjection(D, S)
  BY <1>3, <1>4, FS_Injection
<1>6. s \in Seq(S) /\ Len(s) = Cardinality(S)
  BY <1>1, <1>2
<1> QED
  BY <1>3, <1>5, <1>6 DEF Bijection

\* The first n of a sorted listing are its newest n releases.
LEMMA PrefixIsNewest ==
  ASSUME NEW S \in SUBSET Versions, NEW s \in Sorted(S), NEW n \in Nat
  PROVE  { s[i] : i \in 1 .. IF Cardinality(S) < n THEN Cardinality(S) ELSE n }
           \in Newest(S, n)
<1> DEFINE N == Cardinality(S)
           m == IF N < n THEN N ELSE n
           K == { s[i] : i \in 1 .. m }
<1>1. IsFiniteSet(S)
  BY PruneLoopsAssumption, FS_Subset
<1>2. s \in Bijection(1 .. N, S) /\ Len(s) = N /\ s \in [1 .. N -> S]
  BY <1>1, SortedEnumerates DEF Bijection, Injection
<1>3. N \in Nat /\ m \in 0 .. N
  BY <1>1, FS_CardinalityType
<1>4. K \in SUBSET S
  BY <1>2, <1>3
<1>5. Cardinality(K) = m
  <2> DEFINE f == [i \in 1 .. m |-> s[i]]
  <2>1. \A i, j \in 1 .. N : s[i] = s[j] => i = j
    BY <1>2 DEF Bijection, Injection, IsInjective
  <2>2. f \in Bijection(1 .. m, K)
    BY <1>3, <2>1 DEF Bijection, Injection, Surjection, IsInjective
  <2>3. ExistsBijection(1 .. m, K)
    BY <2>2 DEF ExistsBijection
  <2> HIDE DEF m, K
  <2> QED
    BY <1>3, <2>3, FS_CountingElements
<1>6. \A k \in K, r \in S \ K : RankByKey[k] >= RankByKey[r]
  <2> SUFFICES ASSUME NEW i \in 1 .. m, NEW r \in S \ K
               PROVE  RankByKey[s[i]] >= RankByKey[r]
    OBVIOUS
  <2>1. PICK j \in 1 .. N : s[j] = r
    BY <1>2 DEF Bijection, Surjection
  <2>2. i \in 1 .. N /\ i < j
    BY <1>3, <2>1
  <2>3. Compare(s[i], s[j]) >= 0
    BY <1>2, <2>1, <2>2 DEF Sorted
  <2> QED
    BY <1>2, <2>1, <2>2, <2>3, RankFollowsCompare
<1> QED
  BY <1>4, <1>5, <1>6 DEF Newest

-----------------------------------------------------------------------------
(* The loops                                                               *)

LoopsInv == InputsOK /\ LoopInv

\* The inputs do not change.
LEMMA InputsHold ==
  ASSUME InputsOK, [Next]_vars
  PROVE  InputsOK' /\ UNCHANGED <<loop, entries, protected, configured, given>>
  BY DEF InputsOK, Next, Sort, KeepRelease, RemoveRelease, vars, inputs

\* What a sorted slice holds, in the words of the loops.
LEMMA ListedFacts ==
  ASSUME InputsOK
  PROVE  /\ Listed \in SUBSET entries /\ Listed \in SUBSET Versions
         /\ IsFiniteSet(entries) /\ IsFiniteSet(Listed)
         /\ Cardinality(entries) \in Nat
         /\ Cardinality(Listed) \in 0 .. Cardinality(entries)
         /\ ToKeep(Limit) \in Nat \ {0}
<1>1. entries \in SUBSET Versions /\ IsFiniteSet(Versions)
  BY PruneLoopsAssumption DEF InputsOK
<1>2. Listed \in SUBSET entries
  BY DEF Listed
<1>3. IsFiniteSet(entries) /\ IsFiniteSet(Listed)
  BY <1>1, <1>2, FS_Subset
<1>4. Cardinality(entries) \in Nat /\ Cardinality(Listed) \in Nat
  BY <1>3, FS_CardinalityType
<1>5. Cardinality(Listed) <= Cardinality(entries)
  BY <1>2, <1>3, FS_Subset
<1>6. ToKeep(Limit) \in Nat \ {0}
  BY DEF InputsOK, Limit, ToKeep, DefaultKeepReleases
<1> QED
  BY <1>1, <1>2, <1>3, <1>4, <1>5, <1>6

\* A step keeps the invariant.  A release at one of the first ToKeep(Limit)
\* places is kept because the counter cannot have got past its place; one
\* behind them is kept only when it is protected, because the counter was at
\* ToKeep(Limit) when the loop came to the first of them.
LEMMA LoopStep ==
  ASSUME LoopsInv, [Next]_vars
  PROVE  LoopsInv'
<1> DEFINE k == ToKeep(Limit)
           N == Cardinality(Listed)
<1>1. InputsOK' /\ UNCHANGED <<loop, entries, protected, configured, given>>
  BY InputsHold DEF LoopsInv
<1>2. UNCHANGED <<Listed, k, N>>
  BY <1>1 DEF Listed, Limit
<1>3. /\ Listed \in SUBSET Versions /\ IsFiniteSet(Listed)
      /\ N \in Nat /\ k \in Nat \ {0}
  BY ListedFacts DEF LoopsInv
<1>4. CASE Sort
  <2>1. /\ releases' \in Sorted(Listed) /\ next' = 1
        /\ kept' = 0 /\ removed' = {} /\ failed' = {}
    BY <1>4 DEF Sort, LoopsInv, LoopInv, Listed
  <2>2. Gone' = {}
    BY <1>1, <1>2, <1>3, <2>1 DEF Gone
  <2>3. Cardinality({}) = 0
    BY FS_EmptySet
  <2> QED
    BY <1>1, <1>2, <1>3, <2>1, <2>2, <2>3 DEF LoopsInv, LoopInv
<1>5. CASE KeepRelease \/ RemoveRelease
  <2>1. /\ releases \in Sorted(Listed) /\ next \in 1 .. N + 1
        /\ removed = Gone /\ failed \subseteq removed
        /\ kept \in Nat /\ kept + Cardinality(removed) = next - 1
    BY <1>5 DEF LoopsInv, LoopInv, KeepRelease, RemoveRelease
  <2>2. /\ releases \in Seq(Listed) /\ Len(releases) = N
        /\ \A i, j \in 1 .. N : releases[i] = releases[j] => i = j
    BY <1>3, <2>1, SortedEnumerates DEF Bijection, Injection, IsInjective
  <2>3. next \in 1 .. N /\ next' = next + 1 /\ UNCHANGED releases
    BY <1>5, <2>2 DEF KeepRelease, RemoveRelease
  <2>4. Gone' = IF next > k /\ Release \notin protected
                  THEN Gone \cup {Release} ELSE Gone
    <3>1. k + 1 .. next' - 1 = IF next > k THEN (k + 1 .. next - 1) \cup {next}
                                           ELSE k + 1 .. next - 1
      <4>1. k \in Nat /\ next \in Nat /\ next' = next + 1
        BY <1>3, <2>3
      <4> HIDE DEF k
      <4>2. next > k => k + 1 .. next' - 1 = (k + 1 .. next - 1) \cup {next}
        BY <4>1
      <4>3. ~(next > k) => k + 1 .. next' - 1 = k + 1 .. next - 1
        BY <4>1
      <4> QED
        BY <4>2, <4>3
    <3>2. Gone' = { releases[i] : i \in k + 1 .. next' - 1 } \ protected
      BY <1>1, <1>2, <2>3 DEF Gone
    <3> QED
      BY <3>1, <3>2 DEF Gone, Release
  <2>5. removed \in SUBSET Listed /\ IsFiniteSet(removed) /\ Cardinality(removed) \in Nat
    <3>1. removed \in SUBSET Listed
      BY <1>3, <2>1, <2>2, <2>3 DEF Gone
    <3> QED
      BY <1>3, <3>1, FS_Subset, FS_CardinalityType
  <2>6. Release \notin removed
    BY <1>3, <2>1, <2>2, <2>3 DEF Gone, Release
  <2>7. next <= k => kept = next - 1
    <3>1. next <= k => Gone = {}
      BY <1>3, <2>3 DEF Gone
    <3> QED
      BY <2>1, <2>3, <3>1, FS_EmptySet
  <2>8. next > k => kept >= k
    <3> SUFFICES ASSUME next > k  PROVE Cardinality(removed) <= next - 1 - k
      BY <1>3, <2>1, <2>3, <2>5
    <3> DEFINE I == k + 1 .. next - 1
               T == { releases[i] : i \in I }
               f == [i \in I |-> releases[i]]
    <3>1. f \in Surjection(I, T)
      BY DEF Surjection
    <3>2. IsFiniteSet(I) /\ Cardinality(I) = next - 1 - k
      <4>1. k + 1 \in Int /\ next - 1 \in Int
        BY <1>3, <2>3
      <4>2. Cardinality(I) = IF k + 1 > next - 1 THEN 0 ELSE next - 1 - (k + 1) + 1
        BY <4>1, FS_Interval
      <4>3. IsFiniteSet(I)
        BY <4>1, FS_Interval
      <4> HIDE DEF k, I
      <4> QED
        BY <1>3, <2>3, <4>2, <4>3
    <3>3. IsFiniteSet(T) /\ Cardinality(T) <= next - 1 - k
      BY <3>1, <3>2, FS_Surjection
    <3>4. removed \in SUBSET T
      BY <2>1 DEF Gone
    <3> QED
      BY <1>3, <2>3, <2>5, <3>3, <3>4, FS_Subset, FS_CardinalityType
  <2>9. CASE KeepRelease
    <3>1. kept' = kept + 1 /\ UNCHANGED <<removed, failed>>
      BY <2>9 DEF KeepRelease
    <3>2. ~(next > k /\ Release \notin protected)
      BY <1>3, <2>1, <2>3, <2>8, <2>9 DEF KeepRelease, IsKept
    <3>3. Gone' = removed
      BY <2>1, <2>4, <3>2
    <3> QED
      BY <1>1, <1>2, <1>3, <2>1, <2>3, <2>5, <3>1, <3>3 DEF LoopsInv, LoopInv
  <2>10. CASE RemoveRelease
    <3>1. /\ removed' = removed \cup {Release} /\ UNCHANGED kept
          /\ failed' \in {failed, failed \cup {Release}}
      BY <2>10 DEF RemoveRelease
    <3>2. ~IsKept(Release)
      BY <2>10 DEF RemoveRelease
    <3>3. Release \notin protected
      BY <2>2, <2>3, <3>2 DEF Release, IsKept, Listed, LoopsInv, InputsOK
    <3>4. next > k
      BY <1>3, <2>1, <2>3, <2>7, <3>2 DEF IsKept
    <3>5. Gone' = removed'
      BY <2>1, <2>4, <3>1, <3>3, <3>4
    <3>6. Cardinality(removed') = Cardinality(removed) + 1
      BY <2>5, <2>6, <3>1, FS_AddElement
    <3> QED
      BY <1>1, <1>2, <1>3, <2>1, <2>3, <2>5, <3>1, <3>5, <3>6 DEF LoopsInv, LoopInv
  <2> QED
    BY <1>5, <2>9, <2>10
<1>6. CASE UNCHANGED vars
  BY <1>1, <1>2, <1>6 DEF LoopsInv, LoopInv, Gone, vars
<1> QED
  BY <1>4, <1>5, <1>6 DEF Next

\* Before the sort nothing is counted and nothing is gone.
LEMMA LoopsInit ==
  ASSUME Init
  PROVE  LoopsInv
<1>1. protected \subseteq Versions
  BY DEF Init, kSubset
<1>2. configured \in Int /\ given \in Int
  BY PruneLoopsAssumption DEF Init
<1> QED
  BY <1>1, <1>2 DEF Init, LoopsInv, InputsOK, LoopInv

\* At any time a loop has called RemoveAll for the unprotected releases that
\* it has come to behind the first ToKeep(Limit) places, and for no other.
THEOREM LoopsInvHolds == Spec => []LoopsInv
<1>1. Init => LoopsInv
  BY LoopsInit
<1>2. LoopsInv /\ [Next]_vars => LoopsInv'
  BY LoopStep
<1> QED
  BY <1>1, <1>2, PTL DEF Spec

\* The invariant at the end of a loop: what is gone is what lay behind the
\* newest ToKeep(Limit) of the listing, the protected releases apart.
LEMMA DoneRemoves ==
  ASSUME LoopsInv, next # 0, Done
  PROVE  /\ \E K \in Newest(Listed, ToKeep(Limit)) : removed = (Listed \ K) \ protected
         /\ removed \in SUBSET Listed
         /\ kept \in Nat /\ kept + Cardinality(removed) = Cardinality(Listed)
<1> DEFINE k == ToKeep(Limit)
           N == Cardinality(Listed)
           m == IF N < k THEN N ELSE k
           K == { releases[i] : i \in 1 .. m }
<1>1. /\ Listed \in SUBSET Versions /\ IsFiniteSet(Listed)
      /\ N \in Nat /\ k \in Nat \ {0}
  BY ListedFacts DEF LoopsInv
<1>2. /\ releases \in Sorted(Listed) /\ next \in 1 .. N + 1
      /\ removed = Gone
      /\ kept \in Nat /\ kept + Cardinality(removed) = next - 1
  BY DEF LoopsInv, LoopInv
<1>3. /\ Len(releases) = N /\ releases \in Surjection(1 .. N, Listed)
      /\ releases \in Injection(1 .. N, Listed)
  BY <1>1, <1>2, SortedEnumerates DEF Bijection
<1>4. next - 1 = N
  BY <1>1, <1>2, <1>3 DEF Done
<1>5. K \in Newest(Listed, k)
  BY <1>1, <1>2, PrefixIsNewest
<1>6. { releases[i] : i \in k + 1 .. N } = Listed \ K
  <2>1. \A i, j \in 1 .. N : releases[i] = releases[j] => i = j
    BY <1>3 DEF Injection, IsInjective
  <2>2. \A v \in Listed : \E i \in 1 .. N : releases[i] = v
    BY <1>3 DEF Surjection
  <2>3. \A i \in 1 .. N : releases[i] \in Listed
    BY <1>3 DEF Injection
  <2>4. m \in 0 .. N /\ \A i \in 1 .. N : i \in 1 .. m <=> ~(i \in k + 1 .. N)
    BY <1>1
  <2>5. (k + 1 .. N) \subseteq 1 .. N /\ (1 .. m) \subseteq 1 .. N
    BY <1>1
  <2> HIDE DEF k, N, m
  <2> QED
    BY <2>1, <2>2, <2>3, <2>4, <2>5
<1>7. removed = (Listed \ K) \ protected
  BY <1>2, <1>4, <1>6 DEF Gone
<1> HIDE DEF K
<1> QED
  BY <1>2, <1>4, <1>5, <1>7

\* Unless it has not begun.
LEMMA DoneBegan ==
  ASSUME LoopsInv, Done
  PROVE  next # 0
<1> SUFFICES ASSUME next = 0  PROVE FALSE
  OBVIOUS
<1>1. releases = << >>
  BY DEF LoopsInv, LoopInv
<1> QED
  BY <1>1 DEF Done

\* The slice, the index and the counter stay in their bounds, and a removal
\* is called for nothing that was not listed.
THEOREM LoopTypesHold == Spec => []LoopsTypeOK
<1>1. LoopsInv => LoopsTypeOK
  <2> SUFFICES ASSUME LoopsInv  PROVE LoopsTypeOK
    OBVIOUS
  <2>1. /\ Listed \in SUBSET entries /\ IsFiniteSet(Listed)
        /\ Cardinality(entries) \in Nat
        /\ Cardinality(Listed) \in 0 .. Cardinality(entries)
        /\ ToKeep(Limit) \in Nat \ {0}
    BY ListedFacts DEF LoopsInv
  <2>2. CASE next = 0
    BY <2>1, <2>2 DEF LoopsInv, LoopInv, LoopsTypeOK
  <2>3. CASE next # 0
    <3>1. /\ releases \in Sorted(Listed)
          /\ next \in 1 .. Cardinality(Listed) + 1
          /\ removed = Gone /\ failed \subseteq removed
          /\ kept \in Nat /\ kept + Cardinality(removed) = next - 1
      BY <2>3 DEF LoopsInv, LoopInv
    <3>2. releases \in Seq(Listed) /\ Len(releases) = Cardinality(Listed)
      BY <2>1, <3>1, SortedEnumerates
    <3>3. releases \in Seq(entries)
      BY <2>1, <3>2
    <3>4. removed \in SUBSET Listed
      BY <2>1, <3>1, <3>2 DEF Gone
    <3>5. Cardinality(removed) \in Nat
      BY <2>1, <3>4, FS_Subset, FS_CardinalityType
    <3> QED
      BY <2>1, <3>1, <3>3, <3>4, <3>5 DEF LoopsTypeOK
  <2> QED
    BY <2>2, <2>3
<1> QED
  BY <1>1, LoopsInvHolds, PTL

\* pruneOldReleases at the end of a deploy calls for the removal of all
\* unprotected releases but the newest KeepReleases, by semver.Compare.
THEOREM DeployPrunesVictimsHolds == Spec => []DeployPrunesVictims
<1>1. LoopsInv => DeployPrunesVictims
  <2> SUFFICES ASSUME LoopsInv, loop = "deploy", Done
               PROVE  removed \in PruneVictims(entries, protected, Limit)
    BY DEF DeployPrunesVictims
  <2>1. PICK K \in Newest(Listed, ToKeep(Limit)) : removed = (Listed \ K) \ protected
    BY DoneBegan, DoneRemoves
  <2>2. Listed = entries \ protected
    BY DEF Listed
  <2>3. removed = (entries \ protected) \ K
    BY <2>1, <2>2
  <2> QED
    BY <2>1, <2>2, <2>3 DEF PruneVictims
<1> QED
  BY <1>1, LoopsInvHolds, PTL

\* prune's Run calls for the removal of the unprotected releases that are
\* not among the newest --keep of all.
THEOREM PruneRemovesOldHolds == Spec => []PruneRemovesOld
<1>1. LoopsInv => PruneRemovesOld
  <2> SUFFICES ASSUME LoopsInv, loop = "prune", Done
               PROVE  removed \in PruneRemovals(entries, protected, Limit)
    BY DEF PruneRemovesOld
  <2>1. PICK K \in Newest(Listed, ToKeep(Limit)) : removed = (Listed \ K) \ protected
    BY DoneBegan, DoneRemoves
  <2>2. Listed = entries
    BY DEF Listed
  <2> QED
    BY <2>1, <2>2 DEF PruneRemovals
<1> QED
  BY <1>1, LoopsInvHolds, PTL

\* The Remaining that prune reports is how many releases are left.
THEOREM RemainingIsTrueHolds == Spec => []RemainingIsTrue
<1>1. LoopsInv => RemainingIsTrue
  <2> SUFFICES ASSUME LoopsInv, loop = "prune", Done
               PROVE  kept = Cardinality(entries \ removed)
    BY DEF RemainingIsTrue
  <2>1. /\ removed \in SUBSET entries
        /\ kept \in Nat /\ kept + Cardinality(removed) = Cardinality(entries)
    BY DoneBegan, DoneRemoves DEF Listed
  <2>2. IsFiniteSet(entries)
    BY ListedFacts DEF LoopsInv
  <2>3. /\ Cardinality(entries \ removed) = Cardinality(entries) - Cardinality(entries \cap removed)
        /\ IsFiniteSet(entries \ removed) /\ IsFiniteSet(removed)
    BY <2>1, <2>2, FS_Difference, FS_Subset
  <2>4. Cardinality(entries \cap removed) = Cardinality(removed)
    <3>1. entries \cap removed = removed
      BY <2>1
    <3> QED
      BY <3>1
  <2>5. /\ Cardinality(entries) \in Nat /\ Cardinality(removed) \in Nat
        /\ Cardinality(entries \ removed) \in Nat
    BY <2>2, <2>3, FS_CardinalityType
  <2> QED
    BY <2>1, <2>3, <2>4, <2>5
<1> QED
  BY <1>1, LoopsInvHolds, PTL

-----------------------------------------------------------------------------
(* How many releases that leaves                                           *)

\* After pruneOldReleases there are the protected releases and KeepReleases
\* others, or all of them where there are fewer: no more and no less.
THEOREM DeployKeepsLimit ==
  ASSUME NEW listed, IsFiniteSet(listed), NEW linked, NEW keep \in Int,
         NEW victims \in PruneVictims(listed, linked, keep)
  PROVE  LET candidates == Cardinality(listed \ linked)
         IN  Cardinality(listed \ victims) =
               Cardinality(listed \cap linked)
                 + IF candidates < ToKeep(keep) THEN candidates ELSE ToKeep(keep)
<1> DEFINE candidates == listed \ linked
<1>1. PICK K \in Newest(candidates, ToKeep(keep)) : victims = candidates \ K
  BY DEF PruneVictims
<1>2. /\ K \in SUBSET candidates
      /\ Cardinality(K) = IF Cardinality(candidates) < ToKeep(keep)
                            THEN Cardinality(candidates) ELSE ToKeep(keep)
  BY <1>1 DEF Newest
<1>3. listed \ victims = (listed \cap linked) \cup K
  BY <1>1, <1>2
<1>4. IsFiniteSet(listed \cap linked) /\ IsFiniteSet(K) /\ (listed \cap linked) \cap K = {}
  <2>1. listed \cap linked \in SUBSET listed /\ K \in SUBSET listed
    BY <1>2
  <2> QED
    BY <1>2, <2>1, FS_Subset
<1> DEFINE there == listed \cap linked
<1>5. IsFiniteSet(there) /\ IsFiniteSet(K) /\ there \cap K = {} /\ listed \ victims = there \cup K
  BY <1>3, <1>4
<1> HIDE DEF there
<1>6. /\ Cardinality(there \cup K) = Cardinality(there) + Cardinality(K) - Cardinality(there \cap K)
      /\ Cardinality(there) \in Nat /\ Cardinality(K) \in Nat
  BY ONLY <1>5, FS_Union, FS_CardinalityType
<1>7. Cardinality(there \cap K) = 0
  BY ONLY <1>5, FS_EmptySet
<1>8. Cardinality(listed \ victims) = Cardinality(there) + Cardinality(K)
  <2>1. Cardinality(listed \ victims) = Cardinality(there \cup K)
    BY ONLY <1>5, Zenon
  <2> QED
    BY ONLY <1>6, <1>7, <2>1
<1> QED
  BY ONLY <1>2, <1>8 DEF there

\* After prune there are --keep releases, or all of them where there are
\* fewer, and at most the protected ones more.
THEOREM PruneKeepsLimit ==
  ASSUME NEW listed, IsFiniteSet(listed), NEW linked, NEW keep \in Int,
         NEW victims \in PruneRemovals(listed, linked, keep)
  PROVE  LET left == listed \ victims
             fewest == IF Cardinality(listed) < ToKeep(keep)
                         THEN Cardinality(listed) ELSE ToKeep(keep)
         IN  /\ listed \cap linked \subseteq left
             /\ Cardinality(left) >= fewest
             /\ Cardinality(left) <= fewest + Cardinality(listed \cap linked)
<1> DEFINE left == listed \ victims
           fewest == IF Cardinality(listed) < ToKeep(keep)
                       THEN Cardinality(listed) ELSE ToKeep(keep)
<1>1. PICK K \in Newest(listed, ToKeep(keep)) : victims = (listed \ K) \ linked
  BY DEF PruneRemovals
<1>2. K \in SUBSET listed /\ Cardinality(K) = fewest
  BY <1>1 DEF Newest
<1>3. left = K \cup (listed \cap linked)
  BY <1>1, <1>2
<1>4. IsFiniteSet(K) /\ IsFiniteSet(listed \cap linked) /\ IsFiniteSet(left)
  <2>1. K \in SUBSET listed /\ listed \cap linked \in SUBSET listed /\ left \in SUBSET listed
    BY <1>2
  <2> QED
    BY <2>1, FS_Subset
<1>5. Cardinality(K) <= Cardinality(left)
  <2>1. K \in SUBSET left
    BY <1>3
  <2> QED
    BY <1>4, <2>1, FS_Subset
<1>6. Cardinality(left) =
        Cardinality(K) + Cardinality(listed \cap linked) - Cardinality(K \cap (listed \cap linked))
  BY <1>3, <1>4, FS_Union
<1>7. Cardinality(K \cap (listed \cap linked)) \in Nat
  <2>1. K \cap (listed \cap linked) \in SUBSET K
    OBVIOUS
  <2> QED
    BY <1>4, <2>1, FS_Subset, FS_CardinalityType
<1>8. Cardinality(K) \in Nat /\ Cardinality(listed \cap linked) \in Nat /\ Cardinality(left) \in Nat
  BY <1>4, FS_CardinalityType
<1>9. listed \cap linked \subseteq left
  BY <1>3
<1> HIDE DEF left, fewest
<1>10. Cardinality(left) >= fewest /\ Cardinality(left) <= fewest + Cardinality(listed \cap linked)
  BY <1>2, <1>5, <1>6, <1>7, <1>8
<1> QED
  BY <1>9, <1>10 DEF left, fewest
=============================================================================
