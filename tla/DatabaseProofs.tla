--------------------------- MODULE DatabaseProofs ---------------------------
(***************************************************************************)
(* Proofs that the copy of a database opens as the database was at one     *)
(* moment since the deploy began, for any number of pages, transactions    *)
(* and attempts, although the service commits and checkpoints beside it.   *)
(***************************************************************************)
EXTENDS DatabaseCopy, FiniteSetTheorems, TLAPS

-----------------------------------------------------------------------------
(* What is so between any two steps                                        *)

\* What is behind the log is of older ones, and the log ends with a commit.
SourceInv ==
  /\ main = NoFile => wal = NoFile
  /\ wal # NoFile =>
       /\ \A i \in DOMAIN wal : wal[i].salt <= wal[i].tx
       /\ \A i \in DOMAIN wal : wal[i].salt = wal[1].salt => i \in InLog(wal)
       /\ \A i \in InLog(wal) : i + 1 \notin InLog(wal) => wal[i].commit
  /\ committed # << >>
  /\ State = committed[Len(committed)]

ControlInv ==
  /\ next # 0
  /\ pc # "idle" => began > 0
  /\ main = NoFile => dstMain = NoFile
  /\ pc \in {"main", "findWal", "openWal", "wal"} => main # NoFile /\ dstMain # NoFile
  /\ pc = "main" => next \in Pages
  /\ pc = "wal" => dstWal # NoFile /\ (wal # NoFile \/ orphan # NoFile)
  /\ pc = "backup" => main # NoFile /\ backup # NoFile /\ next \in Pages
  /\ orphan # NoFile => pc = "wal" /\ restarted

NoFrames(p) == wal = NoFile \/ \A i \in InLog(wal) : wal[i].page # p

\* A page the log has no frame of is still as it was copied.
PagesFollow ==
  \A p \in IF pc = "main" THEN 1 .. next - 1 ELSE Pages :
    NoFrames(p) => dstMain[p] = main[p]

\* The frames copied so far are the beginning of the log.
LogFollows ==
  /\ next = Len(dstWal) + 1
  /\ \A i \in DOMAIN dstWal : i \in InLog(wal) /\ dstWal[i] = wal[i]

\* The copy has come to the end of the log, and what it reads from there on
\* does not belong to it.
LogEnded ==
  /\ \E i \in DOMAIN dstWal : dstWal[i].salt # dstWal[1].salt
  /\ Recover(dstMain, dstWal) \in Since

CopyInv ==
  ~restarted =>
    /\ pc \in {"main", "findWal", "openWal"} => PagesFollow
    /\ pc = "wal" => (PagesFollow /\ LogFollows) \/ LogEnded
    /\ pc \in {"shm", "copied", "backup", "ended"} /\ ~stale
         => Recover(dstMain, dstWal) \in Since

-----------------------------------------------------------------------------
(* Finite sets of numbers                                                  *)

\* The place of p among the members of W.
Place(W, p) == Cardinality({q \in W : q <= p})

\* Each member of W has a place of its own, and every place is taken.
LEMMA Places ==
  ASSUME NEW W \in SUBSET Nat, IsFiniteSet(W)
  PROVE  /\ \A p \in W : Place(W, p) \in 1 .. Cardinality(W)
         /\ \A p, r \in W : Place(W, p) = Place(W, r) => p = r
         /\ \A i \in 1 .. Cardinality(W) : \E p \in W : Place(W, p) = i
<1> DEFINE upTo(p) == {q \in W : q <= p}
           f == [p \in W |-> Place(W, p)]
<1>1. Cardinality(W) \in Nat
  BY FS_CardinalityType
<1>2. ASSUME NEW p \in W
      PROVE  /\ upTo(p) \in SUBSET W /\ IsFiniteSet(upTo(p))
             /\ Place(W, p) = Cardinality(upTo(p))
             /\ Place(W, p) \in 1 .. Cardinality(W)
  <2>1. upTo(p) \in SUBSET W
    OBVIOUS
  <2>2. IsFiniteSet(upTo(p)) /\ Cardinality(upTo(p)) <= Cardinality(W)
    BY <2>1, FS_Subset
  <2>3. Cardinality(upTo(p)) \in Nat
    BY <2>2, FS_CardinalityType
  <2>4. p \in upTo(p)
    BY <1>2
  <2>5. Cardinality(upTo(p)) # 0
    BY <2>2, <2>4, FS_EmptySet
  <2>6. Place(W, p) = Cardinality(upTo(p))
    BY DEF Place
  <2> QED
    BY <1>1, <2>1, <2>2, <2>3, <2>5, <2>6
<1>3. ASSUME NEW p \in W, NEW r \in W, p < r
      PROVE  Place(W, p) # Place(W, r)
  <2>1. upTo(p) \in SUBSET upTo(r)
    <3>1. \A q \in W : q <= p => q <= r
      BY <1>3
    <3> QED
      BY <3>1
  <2>2. r \in upTo(r) /\ r \notin upTo(p)
    BY <1>3
  <2>3. IsFiniteSet(upTo(r)) /\ upTo(p) # upTo(r)
    BY <1>2, <2>2
  <2>4. Cardinality(upTo(r)) # Cardinality(upTo(p))
    <3> HIDE DEF upTo
    <3> QED
      BY <2>1, <2>3, FS_Subset
  <2> QED
    BY <1>2, <2>4
<1>4. ASSUME NEW p \in W, NEW r \in W, Place(W, p) = Place(W, r)
      PROVE  p = r
  <2>1. p \in Nat /\ r \in Nat
    OBVIOUS
  <2>2. ~(p < r) /\ ~(r < p)
    BY <1>3, <1>4
  <2> QED
    BY <2>1, <2>2
<1>5. f \in Injection(W, 1 .. Cardinality(W))
  <2>1. f \in [W -> 1 .. Cardinality(W)]
    BY <1>2
  <2> QED
    BY <1>4, <2>1 DEF Injection, IsInjective
<1>6. IsFiniteSet(1 .. Cardinality(W)) /\ Cardinality(1 .. Cardinality(W)) = Cardinality(W)
  BY <1>1, FS_Interval
<1>7. f \in Surjection(W, 1 .. Cardinality(W))
  BY <1>5, <1>6, FS_Injection
<1>8. \A i \in 1 .. Cardinality(W) : \E p \in W : f[p] = i
  BY <1>7 DEF Surjection
<1> HIDE DEF upTo
<1> QED
  BY <1>2, <1>4, <1>8

\* A finite set of numbers that is not empty has a largest.
LEMMA MaxIsLargest ==
  ASSUME NEW W \in SUBSET Nat, IsFiniteSet(W), W # {}
  PROVE  Max(W) \in W /\ \A p \in W : p <= Max(W)
<1>1. Cardinality(W) \in Nat /\ Cardinality(W) # 0
  BY FS_CardinalityType, FS_EmptySet
<1>2. PICK m \in W : Place(W, m) = Cardinality(W)
  <2>1. Cardinality(W) \in 1 .. Cardinality(W)
    BY <1>1
  <2> QED
    BY <2>1, Places
<1>3. {q \in W : q <= m} = W
  <2>1. {q \in W : q <= m} \in SUBSET W
    OBVIOUS
  <2>2. Cardinality({q \in W : q <= m}) = Cardinality(W)
    BY <1>2 DEF Place
  <2> QED
    BY <2>1, <2>2, FS_Subset
<1>4. \A p \in W : m >= p
  BY <1>3
<1>5. Max(W) \in W /\ \A p \in W : Max(W) >= p
  <2>1. \E x \in W : \A y \in W : x >= y
    BY <1>2, <1>4
  <2> QED
    BY ONLY <2>1, Zenon DEF Max
<1>6. Max(W) \in Nat
  BY <1>5
<1> QED
  BY <1>5, <1>6

\* Indices are finitely many.
LEMMA FiniteIndices ==
  ASSUME NEW n \in Nat, NEW S \in SUBSET (1 .. n)
  PROVE  IsFiniteSet(S) /\ S \in SUBSET Nat
<1>1. IsFiniteSet(1 .. n)
  BY FS_Interval
<1>2. IsFiniteSet(S)
  BY <1>1, FS_Subset
<1> QED
  BY <1>2

-----------------------------------------------------------------------------
(* The log and what it says of the pages                                   *)

\* The log is the beginning of its file.
LEMMA LogIsPrefix ==
  ASSUME NEW w \in Seq(FrameSet)
  PROVE  /\ \E L \in 0 .. Len(w) : InLog(w) = 1 .. L /\ Cardinality(InLog(w)) = L
         /\ w # << >> => 1 \in InLog(w)
         /\ Replayed(w) \in SUBSET InLog(w)
<1>1. Len(w) \in Nat /\ DOMAIN w = 1 .. Len(w)
  OBVIOUS
<1>2. InLog(w) \in SUBSET (1 .. Len(w))
  BY <1>1 DEF InLog
<1>3. w # << >> => 1 \in InLog(w)
  BY <1>1 DEF InLog
<1>4. CASE InLog(w) = {}
  <2>1. InLog(w) = 1 .. 0 /\ Cardinality(InLog(w)) = 0
    BY <1>4, FS_EmptySet
  <2> QED
    BY <1>1, <1>3, <2>1 DEF Replayed
<1>5. CASE InLog(w) # {}
  <2> DEFINE L == Max(InLog(w))
  <2>1. IsFiniteSet(InLog(w))
    BY <1>1, <1>2, FiniteIndices
  <2>2. InLog(w) \in SUBSET Nat
    BY <1>2
  <2>3. L \in InLog(w) /\ \A i \in InLog(w) : i <= L
    BY <1>5, <2>1, <2>2, MaxIsLargest
  <2>4. L \in 1 .. Len(w)
    BY <1>2, <2>3
  <2>5. \A i \in 1 .. L : i \in InLog(w)
    BY <1>1, <2>3, <2>4 DEF InLog
  <2>6. InLog(w) = 1 .. L
    <3>1. \A i \in InLog(w) : i \in 1 .. L
      BY <1>2, <2>3, <2>4
    <3> QED
      BY <2>5, <3>1
  <2>7. Cardinality(1 .. L) = L
    BY <2>4, FS_Interval
  <2> HIDE DEF L
  <2> QED
    BY <1>1, <1>3, <2>4, <2>6, <2>7 DEF Replayed
<1> QED
  BY <1>4, <1>5

\* The frames of page p that count.
FramesOf(w, p) == {i \in IF w = NoFile THEN {} ELSE Replayed(w) : w[i].page = p}

\* Page by page: the latest frame, or the main file.
LEMMA RecoverBy ==
  ASSUME NEW m, m # NoFile, NEW w
  PROVE  Recover(m, w) =
           [p \in Pages |-> IF FramesOf(w, p) = {} THEN m[p]
                             ELSE w[Max(FramesOf(w, p))].tx]
  BY DEF Recover, FramesOf

\* The same for one page.
LEMMA RecoverAt ==
  ASSUME NEW m, m # NoFile, NEW w, NEW p \in Pages
  PROVE  Recover(m, w)[p] = IF FramesOf(w, p) = {} THEN m[p]
                            ELSE w[Max(FramesOf(w, p))].tx
  BY DEF Recover, FramesOf

\* There is a latest one.
LEMMA LatestFrame ==
  ASSUME NEW w \in Seq(FrameSet) \cup {NoFile}, NEW p, FramesOf(w, p) # {}
  PROVE  /\ w \in Seq(FrameSet)
         /\ Max(FramesOf(w, p)) \in FramesOf(w, p)
         /\ Max(FramesOf(w, p)) \in DOMAIN w
         /\ \A i \in FramesOf(w, p) : i <= Max(FramesOf(w, p))
         /\ w[Max(FramesOf(w, p))].tx \in Txs
<1>1. w # NoFile /\ w \in Seq(FrameSet)
  BY DEF FramesOf
<1>2. Len(w) \in Nat /\ DOMAIN w = 1 .. Len(w)
  BY <1>1
<1>3. FramesOf(w, p) \in SUBSET (1 .. Len(w))
  BY <1>1, <1>2 DEF FramesOf, Replayed, InLog
<1>4. IsFiniteSet(FramesOf(w, p)) /\ FramesOf(w, p) \in SUBSET Nat
  BY <1>2, <1>3, FiniteIndices
<1>5. /\ Max(FramesOf(w, p)) \in FramesOf(w, p)
      /\ \A i \in FramesOf(w, p) : i <= Max(FramesOf(w, p))
  BY <1>4, MaxIsLargest
<1>6. \A i \in DOMAIN w : w[i].tx \in Txs
  <2>1. \A i \in DOMAIN w : w[i] \in FrameSet
    BY <1>1
  <2> QED
    BY <2>1 DEF FrameSet
<1> QED
  BY <1>1, <1>2, <1>3, <1>5, <1>6

\* A database opens with a transaction for each page.
LEMMA RecoverType ==
  ASSUME NEW S, Txs \subseteq S, NEW m \in [Pages -> S], m # NoFile,
         NEW w \in Seq(FrameSet) \cup {NoFile}
  PROVE  Recover(m, w) \in [Pages -> S]
<1>1. \A p \in Pages : FramesOf(w, p) # {} => w[Max(FramesOf(w, p))].tx \in S
  BY LatestFrame
<1> QED
  BY <1>1, RecoverBy

\* Two files whose logs are the same.
LEMMA SameLog ==
  ASSUME NEW m, NEW w \in Seq(FrameSet), NEW d \in Seq(FrameSet),
         Replayed(w) = Replayed(d), \A i \in Replayed(w) : w[i] = d[i]
  PROVE  Recover(m, w) = Recover(m, d)
<1>1. w # NoFile /\ d # NoFile
  BY NoFileAssumption
<1>2. CASE m = NoFile
  BY <1>2 DEF Recover
<1>3. CASE m # NoFile
  <2>1. \A p : FramesOf(w, p) = FramesOf(d, p)
    BY <1>1 DEF FramesOf
  <2>2. \A p : FramesOf(w, p) # {} =>
               w[Max(FramesOf(w, p))].tx = d[Max(FramesOf(w, p))].tx
    <3> SUFFICES ASSUME NEW p, FramesOf(w, p) # {}
                 PROVE  w[Max(FramesOf(w, p))] = d[Max(FramesOf(w, p))]
      OBVIOUS
    <3>1. Max(FramesOf(w, p)) \in FramesOf(w, p)
      BY LatestFrame
    <3> QED
      BY <1>1, <3>1 DEF FramesOf
  <2>3. Recover(m, d) =
          [p \in Pages |-> IF FramesOf(d, p) = {} THEN m[p]
                            ELSE d[Max(FramesOf(d, p))].tx]
    BY <1>3, RecoverBy
  <2>4. Recover(m, w) =
          [p \in Pages |-> IF FramesOf(w, p) = {} THEN m[p]
                            ELSE w[Max(FramesOf(w, p))].tx]
    BY <1>3, RecoverBy
  <2>5. \A p \in Pages :
          (IF FramesOf(w, p) = {} THEN m[p] ELSE w[Max(FramesOf(w, p))].tx)
            = (IF FramesOf(d, p) = {} THEN m[p] ELSE d[Max(FramesOf(d, p))].tx)
    <3> SUFFICES ASSUME NEW p \in Pages
                 PROVE  (IF FramesOf(w, p) = {} THEN m[p] ELSE w[Max(FramesOf(w, p))].tx)
                         = (IF FramesOf(w, p) = {} THEN m[p] ELSE d[Max(FramesOf(w, p))].tx)
      BY <2>1, Zenon
    <3> QED
      BY <2>2
  <2> QED
    BY ONLY <2>3, <2>4, <2>5
<1> QED
  BY <1>2, <1>3

\* Two main files that differ only in pages the log has frames of.
LEMMA SamePages ==
  ASSUME NEW m, m # NoFile, NEW n, n # NoFile, NEW w,
         \A p \in Pages : FramesOf(w, p) = {} => m[p] = n[p]
  PROVE  Recover(m, w) = Recover(n, w)
  BY RecoverBy

-----------------------------------------------------------------------------
(* What a transaction adds                                                 *)

\* One frame for each of its pages, the last of them marked.
LEMMA FramesOfTransaction ==
  ASSUME NEW W \in (SUBSET Pages) \ {{}}, NEW tx \in Txs, NEW salt \in Txs
  PROVE  /\ Cardinality(W) \in Nat \ {0}
         /\ Frames(W, tx, salt) \in Seq(FrameSet)
         /\ Len(Frames(W, tx, salt)) = Cardinality(W)
         /\ \A i \in 1 .. Cardinality(W) : Frames(W, tx, salt)[i].page \in W
         /\ \A i \in 1 .. Cardinality(W) : Frames(W, tx, salt)[i].tx = tx
         /\ \A i \in 1 .. Cardinality(W) : Frames(W, tx, salt)[i].salt = salt
         /\ \A i \in 1 .. Cardinality(W) :
              Frames(W, tx, salt)[i].commit <=> i = Cardinality(W)
         /\ \A p \in W : \E i \in 1 .. Cardinality(W) : Frames(W, tx, salt)[i].page = p
<1> DEFINE a == Cardinality(W)
           page(i) == CHOOSE p \in W : Place(W, p) = i
           F == Frames(W, tx, salt)
<1>1. IsFiniteSet(W) /\ W \in SUBSET Nat
  BY DatabaseAssumption, FiniteIndices DEF Pages
<1>2. a \in Nat \ {0}
  BY <1>1, FS_CardinalityType, FS_EmptySet
<1>a. /\ \A p \in W : Place(W, p) \in 1 .. a
      /\ \A p, r \in W : Place(W, p) = Place(W, r) => p = r
      /\ \A i \in 1 .. a : \E p \in W : Place(W, p) = i
  BY <1>1, Places
<1>3. \A i \in 1 .. a : page(i) \in W /\ Place(W, page(i)) = i
  <2> SUFFICES ASSUME NEW i \in 1 .. a
               PROVE  page(i) \in W /\ Place(W, page(i)) = i
    OBVIOUS
  <2>1. \E p \in W : Place(W, p) = i
    BY <1>a
  <2> QED
    BY <2>1, Zenon
<1> DEFINE frame(i, c) == [page |-> page(i), tx |-> tx, commit |-> c, salt |-> salt]
<1>4. F = [i \in 1 .. a |-> frame(i, i = a)]
  BY DEF Frames, Place
<1> HIDE DEF page, F, a
<1>5. ASSUME NEW i, NEW c
      PROVE  /\ frame(i, c).page = page(i) /\ frame(i, c).tx = tx
             /\ frame(i, c).salt = salt /\ frame(i, c).commit = c
             /\ page(i) \in Pages /\ c \in BOOLEAN => frame(i, c) \in FrameSet
  BY DEF FrameSet
<1>6. ASSUME NEW i \in 1 .. a
      PROVE  /\ F[i] = frame(i, i = a)
             /\ F[i].page = page(i) /\ F[i].tx = tx /\ F[i].salt = salt
             /\ F[i].commit = (i = a)
             /\ F[i] \in FrameSet
  <2>1. F[i] = frame(i, i = a)
    BY <1>4, Zenon
  <2>2. page(i) \in Pages /\ (i = a) \in BOOLEAN
    BY <1>3
  <2>3. frame(i, i = a).page = page(i) /\ frame(i, i = a).tx = tx
        /\ frame(i, i = a).salt = salt
    OBVIOUS
  <2>4. frame(i, i = a).commit = (i = a)
    OBVIOUS
  <2>5. frame(i, i = a) \in FrameSet
    BY <2>2 DEF FrameSet
  <2> HIDE DEF frame
  <2> QED
    BY <2>1, <2>2, <2>3, <2>4, <2>5, Zenon
<1>7. F \in Seq(FrameSet) /\ Len(F) = a
  <2>1. F \in [1 .. a -> FrameSet]
    BY <1>4, <1>6, Zenon
  <2> QED
    BY <1>2, <2>1
<1>8. ASSUME NEW p \in W
      PROVE  \E i \in 1 .. a : F[i].page = p
  <2>1. Place(W, p) \in 1 .. a
    BY <1>a
  <2>2. page(Place(W, p)) = p
    BY <1>3, <1>a, <2>1
  <2> QED
    BY <1>6, <2>1, <2>2, Zenon
<1>9. ASSUME NEW i \in 1 .. a
      PROVE  F[i].page \in W /\ F[i].tx = tx /\ F[i].salt = salt /\ (F[i].commit <=> i = a)
  BY <1>3, <1>6, Zenon
<1> QED
  BY <1>2, <1>7, <1>8, <1>9, Zenon DEF F, a

\* A log that is followed by older ones and ends with a commit.
LEMMA LogOf ==
  ASSUME NEW d \in Seq(FrameSet), NEW M \in 1 .. Len(d),
         \A i \in 1 .. Len(d) : d[i].salt = d[1].salt <=> i <= M,
         d[M].commit
  PROVE  InLog(d) = 1 .. M /\ Replayed(d) = 1 .. M
<1>1. DOMAIN d = 1 .. Len(d) /\ Len(d) \in Nat
  OBVIOUS
<1>2. InLog(d) = 1 .. M
  BY <1>1 DEF InLog
<1> QED
  BY <1>2 DEF Replayed

\* A log with the frames of a transaction behind it opens as the same
\* database with the transaction done.
LEMMA TransactionRecovered ==
  ASSUME NEW W \in (SUBSET Pages) \ {{}}, NEW tx \in Txs, NEW salt \in Txs,
         NEW w \in Seq(FrameSet), NEW d \in Seq(FrameSet),
         NEW L \in 0 .. Len(w), Replayed(w) = 1 .. L,
         Replayed(d) = 1 .. L + Cardinality(W),
         \A i \in 1 .. L : d[i] = w[i],
         \A i \in 1 .. Cardinality(W) : d[L + i] = Frames(W, tx, salt)[i],
         NEW m, m # NoFile
  PROVE  \A p \in Pages : Recover(m, d)[p] = IF p \in W THEN tx ELSE Recover(m, w)[p]
<1> DEFINE a == Cardinality(W)
<1>1. a \in Nat \ {0} /\ L \in Nat
  BY FramesOfTransaction
<1>2. w # NoFile /\ d # NoFile
  BY NoFileAssumption
<1>m. m # NoFile
  OBVIOUS
<1>f. \A j \in 1 .. a : Frames(W, tx, salt)[j].page \in W /\ Frames(W, tx, salt)[j].tx = tx
  <2> SUFFICES ASSUME NEW j \in 1 .. a
               PROVE  Frames(W, tx, salt)[j].page \in W /\ Frames(W, tx, salt)[j].tx = tx
    OBVIOUS
  <2> QED
    BY FramesOfTransaction
<1>r. \A p \in Pages :
        Recover(m, w)[p] = IF FramesOf(w, p) = {} THEN m[p] ELSE w[Max(FramesOf(w, p))].tx
  BY ONLY <1>m, RecoverAt
<1>3. \A i \in L + 1 .. L + a : d[i].page \in W /\ d[i].tx = tx
  <2> SUFFICES ASSUME NEW i \in L + 1 .. L + a  PROVE d[i].page \in W /\ d[i].tx = tx
    OBVIOUS
  <2>1. PICK j \in 1 .. a : L + j = i
    <3>1. i - L \in 1 .. a /\ L + (i - L) = i
      BY <1>1
    <3> QED
      BY <3>1
  <2>2. d[i] = Frames(W, tx, salt)[j]
    BY <2>1
  <2> QED
    BY <1>f, <2>2
<1>4. ASSUME NEW p \in W
      PROVE  FramesOf(d, p) # {} /\ d[Max(FramesOf(d, p))].tx = tx
  <2>1. PICK i \in 1 .. a : Frames(W, tx, salt)[i].page = p
    BY FramesOfTransaction
  <2>2. L + i \in FramesOf(d, p)
    BY <1>1, <1>2, <2>1 DEF FramesOf
  <2>3. /\ Max(FramesOf(d, p)) \in 1 .. L + a
        /\ L + i <= Max(FramesOf(d, p))
    BY <1>2, <2>2, LatestFrame DEF FramesOf
  <2>4. Max(FramesOf(d, p)) \in L + 1 .. L + a
    BY <1>1, <2>3
  <2> QED
    BY <1>3, <2>2, <2>4
<1>5. ASSUME NEW p \in Pages \ W
      PROVE  /\ FramesOf(d, p) = FramesOf(w, p)
             /\ FramesOf(w, p) # {} => d[Max(FramesOf(w, p))] = w[Max(FramesOf(w, p))]
  <2>1. \A i \in 1 .. L + a : d[i].page = p => i \in 1 .. L
    BY <1>1, <1>3
  <2>2. FramesOf(d, p) = {i \in 1 .. L + a : d[i].page = p}
    BY <1>2 DEF FramesOf
  <2>3. FramesOf(w, p) = {i \in 1 .. L : w[i].page = p}
    BY <1>2 DEF FramesOf
  <2>4. FramesOf(d, p) = FramesOf(w, p)
    BY <1>1, <2>1, <2>2, <2>3
  <2>5. FramesOf(w, p) # {} => Max(FramesOf(w, p)) \in 1 .. L
    BY <2>3, LatestFrame
  <2> QED
    BY <2>4, <2>5
<1>6. \A p \in Pages :
        (IF FramesOf(d, p) = {} THEN m[p] ELSE d[Max(FramesOf(d, p))].tx)
          = (IF p \in W THEN tx ELSE Recover(m, w)[p])
  <2> SUFFICES ASSUME NEW p \in Pages
               PROVE  (IF FramesOf(d, p) = {} THEN m[p] ELSE d[Max(FramesOf(d, p))].tx)
                        = (IF p \in W THEN tx ELSE Recover(m, w)[p])
    OBVIOUS
  <2>1. Recover(m, w)[p] = IF FramesOf(w, p) = {} THEN m[p] ELSE w[Max(FramesOf(w, p))].tx
    BY <1>r
  <2>2. CASE p \in W
    BY <1>4, <2>2
  <2>3. CASE p \notin W
    BY <1>5, <2>1, <2>3
  <2> QED
    BY <2>2, <2>3
<1>7. \A p \in Pages :
        Recover(m, d)[p] = IF FramesOf(d, p) = {} THEN m[p] ELSE d[Max(FramesOf(d, p))].tx
  BY ONLY <1>m, RecoverAt
<1> QED
  BY ONLY <1>6, <1>7

\* So does one that is started over with a transaction, where the main file
\* has everything of before.
LEMMA RestartRecovered ==
  ASSUME NEW W \in (SUBSET Pages) \ {{}}, NEW tx \in Txs,
         NEW d \in Seq(FrameSet), Replayed(d) = 1 .. Cardinality(W),
         \A i \in 1 .. Cardinality(W) : d[i] = Frames(W, tx, tx)[i],
         NEW m, m # NoFile
  PROVE  \A p \in Pages : Recover(m, d)[p] = IF p \in W THEN tx ELSE m[p]
<1>1. d # NoFile
  BY NoFileAssumption
<1>2. \A i \in 1 .. Cardinality(W) : d[i].page \in W
  BY FramesOfTransaction
<1>3. \A i \in 1 .. Cardinality(W) : d[i].tx = tx
  BY FramesOfTransaction
<1>4. \A p \in W : \E i \in 1 .. Cardinality(W) : d[i].page = p
  BY FramesOfTransaction
<1>5. \A p : FramesOf(d, p) = {i \in 1 .. Cardinality(W) : d[i].page = p}
  BY <1>1 DEF FramesOf
<1>6. ASSUME NEW p \in W
      PROVE  FramesOf(d, p) # {} /\ d[Max(FramesOf(d, p))].tx = tx
  <2>1. FramesOf(d, p) # {}
    BY <1>4, <1>5
  <2>2. Max(FramesOf(d, p)) \in 1 .. Cardinality(W)
    BY <1>5, <2>1, LatestFrame
  <2> QED
    BY <1>3, <2>1, <2>2
<1>7. ASSUME NEW p \in Pages \ W
      PROVE  FramesOf(d, p) = {}
  BY <1>2, <1>5
<1>8. \A p \in Pages :
        Recover(m, d)[p] = IF FramesOf(d, p) = {} THEN m[p] ELSE d[Max(FramesOf(d, p))].tx
  BY RecoverAt
<1> QED
  BY <1>6, <1>7, <1>8

-----------------------------------------------------------------------------
(* The service                                                             *)

\* The whole log of the source counts: it ends with a commit.
LEMMA SourceLog ==
  ASSUME DbTypeOK, SourceInv, wal # NoFile
  PROVE  /\ main # NoFile /\ main \in [Pages -> Txs] /\ wal \in Seq(FrameSet)
         /\ \E L \in 0 .. Len(wal) :
              /\ InLog(wal) = 1 .. L /\ Replayed(wal) = 1 .. L
              /\ Cardinality(InLog(wal)) = L
              /\ \A i \in 1 .. Len(wal) : wal[i].salt = wal[1].salt <=> i <= L
              /\ L = 0 => wal = << >>
         /\ \A p \in Pages : NoFrames(p) <=> FramesOf(wal, p) = {}
<1>1. /\ main # NoFile /\ main \in [Pages -> Txs] /\ wal \in Seq(FrameSet)
      /\ DOMAIN wal = 1 .. Len(wal) /\ Len(wal) \in Nat
  BY DEF DbTypeOK, SourceInv
<1>2. PICK L \in 0 .. Len(wal) : InLog(wal) = 1 .. L /\ Cardinality(InLog(wal)) = L
  BY <1>1, LogIsPrefix
<1>3. L = 0 => wal = << >>
  <2>1. L = 0 => 1 \notin InLog(wal)
    BY <1>2
  <2> QED
    BY <1>1, <2>1, LogIsPrefix
<1>4. L # 0 => wal[L].commit
  <2>1. L # 0 => L \in InLog(wal) /\ L + 1 \notin InLog(wal)
    BY <1>2
  <2> QED
    BY <2>1 DEF SourceInv
<1>5. Replayed(wal) = 1 .. L
  <2>1. \A i \in 1 .. L : L \in 1 .. L /\ L >= i /\ L # 0
    BY <1>1
  <2> QED
    BY <1>2, <1>4, <2>1 DEF Replayed
<1>6. \A i \in 1 .. Len(wal) : wal[i].salt = wal[1].salt <=> i <= L
  <2> SUFFICES ASSUME NEW i \in 1 .. Len(wal)
               PROVE  wal[i].salt = wal[1].salt <=> i <= L
    OBVIOUS
  <2>1. wal[i].salt = wal[1].salt => i \in InLog(wal)
    BY <1>1 DEF SourceInv
  <2>2. i \in InLog(wal) => wal[i].salt = wal[1].salt
    BY <1>1 DEF InLog
  <2> QED
    BY <1>1, <1>2, <2>1, <2>2
<1>7. \A p \in Pages : NoFrames(p) <=> FramesOf(wal, p) = {}
  BY <1>2, <1>5 DEF NoFrames, FramesOf
<1> QED
  BY <1>1, <1>2, <1>3, <1>5, <1>6, <1>7

\* Without a log the main file is the database.
LEMMA StateWithoutLog ==
  ASSUME NEW m \in [Pages -> Txs \cup {Missing}], NEW w, w = NoFile \/ w = << >>
  PROVE  Recover(m, w) = m
<1>1. m # NoFile
  BY NoFileAssumption
<1>2. \A p : FramesOf(w, p) = {}
  BY DEF FramesOf, Replayed, InLog
<1>3. Recover(m, w) = [p \in Pages |-> m[p]]
  BY <1>1, <1>2, RecoverBy
<1> QED
  BY <1>3

SourceTypeOK ==
  /\ main \in [Pages -> Txs] \cup {NoFile}
  /\ wal \in Seq(FrameSet) \cup {NoFile}
  /\ committed \in Seq([Pages -> Txs] \cup {NoFile})

\* Unless the log is started over or deleted, a step of the service only
\* adds frames to it, and writes only pages back that it has frames of.
LogGrows ==
  /\ main # NoFile => main' # NoFile
  /\ wal # NoFile => wal' # NoFile \/ DeleteWal
  /\ ~restarted' =>
       /\ \A p \in Pages :
            main # NoFile /\ NoFrames(p)' => NoFrames(p) /\ main'[p] = main[p]
       /\ wal # NoFile =>
            wal' # NoFile /\ \A i \in InLog(wal) : i \in InLog(wal') /\ wal'[i] = wal[i]

\* Two sequences in one.
LEMMA Appended ==
  ASSUME NEW S, NEW x \in Seq(S), NEW y \in Seq(S)
  PROVE  /\ x \o y \in Seq(S) /\ Len(x \o y) = Len(x) + Len(y)
         /\ \A i \in 1 .. Len(x) : (x \o y)[i] = x[i]
         /\ \A i \in 1 .. Len(y) : (x \o y)[Len(x) + i] = y[i]
  OBVIOUS

\* Three sequences in one.
LEMMA Concatenated ==
  ASSUME NEW S, NEW x \in Seq(S), NEW f \in Seq(S), NEW y \in Seq(S)
  PROVE  /\ x \o f \o y \in Seq(S) /\ Len(x \o f \o y) = Len(x) + Len(f) + Len(y)
         /\ \A i \in 1 .. Len(x) : (x \o f \o y)[i] = x[i]
         /\ \A i \in 1 .. Len(f) : (x \o f \o y)[Len(x) + i] = f[i]
         /\ \A i \in 1 .. Len(y) : (x \o f \o y)[Len(x) + Len(f) + i] = y[i]
<1> DEFINE e == x \o f
           d == x \o f \o y
<1>1. /\ e \in Seq(S) /\ Len(e) = Len(x) + Len(f)
      /\ \A i \in 1 .. Len(x) : e[i] = x[i]
      /\ \A i \in 1 .. Len(f) : e[Len(x) + i] = f[i]
  BY Appended
<1>2. d = e \o y
  OBVIOUS
<1> HIDE DEF e, d
<1>3. /\ d \in Seq(S) /\ Len(d) = Len(e) + Len(y)
      /\ \A i \in 1 .. Len(e) : d[i] = e[i]
      /\ \A i \in 1 .. Len(y) : d[Len(e) + i] = y[i]
  <2>1. y \in Seq(S) /\ e \in Seq(S)
    BY <1>1
  <2>2. /\ e \o y \in Seq(S) /\ Len(e \o y) = Len(e) + Len(y)
        /\ \A i \in 1 .. Len(e) : (e \o y)[i] = e[i]
        /\ \A i \in 1 .. Len(y) : (e \o y)[Len(e) + i] = y[i]
    BY ONLY <2>1, Appended
  <2> QED
    BY ONLY <1>2, <2>2
<1>4. Len(x) \in Nat /\ Len(f) \in Nat
  OBVIOUS
<1>5. \A i \in 1 .. Len(x) : i \in 1 .. Len(e)
  BY <1>1, <1>4
<1>6. \A i \in 1 .. Len(f) : Len(x) + i \in 1 .. Len(e)
  BY <1>1, <1>4
<1> QED
  BY <1>1, <1>3, <1>5, <1>6 DEF d

\* The end of a file behind its n-th frame.
LEMMA Behind ==
  ASSUME NEW S, NEW w \in Seq(S), NEW n \in Nat
  PROVE  /\ SubSeq(w, n + 1, Len(w)) \in Seq(S)
         /\ \A i \in 1 .. Len(SubSeq(w, n + 1, Len(w))) :
              /\ SubSeq(w, n + 1, Len(w))[i] = w[n + i]
              /\ n + i \in 1 .. Len(w)
<1> DEFINE y == SubSeq(w, n + 1, Len(w))
<1>1. Len(w) \in Nat
  OBVIOUS
<1>2. Len(y) = IF n + 1 <= Len(w) THEN Len(w) - n ELSE 0
  BY <1>1
<1>3. y \in Seq(S) /\ \A i \in 1 .. Len(y) : y[i] = w[n + 1 + i - 1]
  BY <1>1
<1>4. \A i \in 1 .. Len(y) : n + 1 + i - 1 = n + i /\ n + i \in 1 .. Len(w)
  BY <1>1, <1>2
<1> QED
  BY <1>3, <1>4

\* A new transaction has the highest number.
LEMMA NextTransaction ==
  ASSUME DbTypeOK, SourceInv, wal # NoFile,
         NEW tx, tx = Max({main[p] : p \in Pages} \cup {wal[i].tx : i \in DOMAIN wal}) + 1,
         tx <= MaxTx
  PROVE  tx \in Txs /\ \A i \in 1 .. Len(wal) : wal[i].salt < tx /\ wal[i].tx < tx
<1> DEFINE S == {main[p] : p \in Pages} \cup {wal[i].tx : i \in DOMAIN wal}
<1>1. /\ main \in [Pages -> Txs] /\ wal \in Seq(FrameSet)
      /\ DOMAIN wal = 1 .. Len(wal) /\ Len(wal) \in Nat
  BY SourceLog
<1>2. \A i \in 1 .. Len(wal) : wal[i].tx \in Txs /\ wal[i].salt \in Txs
  <2>1. \A i \in 1 .. Len(wal) : wal[i] \in FrameSet
    BY <1>1
  <2> QED
    BY <2>1 DEF FrameSet
<1>3. Txs = 0 .. MaxTx /\ MaxTx \in Nat /\ 1 \in Pages
  BY DatabaseAssumption DEF Txs, Pages
<1>4. S \in SUBSET Txs /\ S # {}
  <2>1. \A p \in Pages : main[p] \in Txs
    BY <1>1
  <2>2. main[1] \in S
    BY <1>3
  <2> QED
    BY <1>1, <1>2, <2>1, <2>2
<1>5. IsFiniteSet(S) /\ S \in SUBSET Nat
  <2> HIDE DEF S
  <2>1. IsFiniteSet(Txs)
    BY <1>3, FS_Interval
  <2>2. IsFiniteSet(S)
    BY <1>4, <2>1, FS_Subset
  <2>3. Txs \subseteq Nat
    BY <1>3
  <2> QED
    BY <1>4, <2>2, <2>3
<1>6. Max(S) \in S /\ \A n \in S : n <= Max(S)
  <2> HIDE DEF S
  <2> QED
    BY <1>4, <1>5, MaxIsLargest
<1>7. tx = Max(S) + 1 /\ Max(S) \in Nat
  BY <1>5, <1>6
<1>8. \A i \in 1 .. Len(wal) : wal[i].tx \in S /\ wal[i].salt <= wal[i].tx
  BY <1>1 DEF SourceInv
<1>9. \A i \in 1 .. Len(wal) : wal[i].tx <= Max(S)
  BY <1>6, <1>8
<1> HIDE DEF S
<1>10. tx \in Txs
  BY <1>3, <1>7
<1>11. ASSUME NEW i \in 1 .. Len(wal)
       PROVE  wal[i].salt < tx /\ wal[i].tx < tx
  <2>1. wal[i].tx \in Nat /\ wal[i].salt \in Nat
    BY <1>2, <1>3
  <2> QED
    BY <1>7, <1>8, <1>9, <2>1
<1> QED
  BY <1>10, <1>11

\* A transaction makes a log of the live frames and its own, or of its own
\* alone; what is left of older ones behind it stays of other salts.
LEMMA TransactionStep ==
  ASSUME DbTypeOK, SourceInv, NEW W \in (SUBSET Pages) \ {{}}, Transaction(W)
  PROVE  SourceTypeOK' /\ SourceInv' /\ LogGrows
<1> DEFINE tx == Max({main[p] : p \in Pages} \cup {wal[i].tx : i \in DOMAIN wal}) + 1
           L == Cardinality(InLog(wal))
           a == Cardinality(W)
           salt == IF L = 0 THEN tx ELSE wal[1].salt
           new == [p \in Pages |-> IF p \in W THEN tx ELSE State[p]]
           rest(n) == SubSeq(wal, n + 1, Len(wal))
<1>1. /\ wal # NoFile /\ main # NoFile /\ UNCHANGED main /\ tx <= MaxTx
      /\ committed' = Append(committed, new)
      /\ \/ wal' = SubSeq(wal, 1, L) \o Frames(W, tx, salt) \o rest(L + a)
         \/ /\ L > 0 /\ main = State /\ restarted'
            /\ wal' = Frames(W, tx, tx) \o rest(a)
  BY DEF Transaction
<1>2. /\ main \in [Pages -> Txs] /\ wal \in Seq(FrameSet)
      /\ L \in 0 .. Len(wal) /\ Len(wal) \in Nat
      /\ InLog(wal) = 1 .. L /\ Replayed(wal) = 1 .. L
      /\ \A i \in 1 .. Len(wal) : wal[i].salt = wal[1].salt <=> i <= L
      /\ L = 0 => wal = << >>
  BY <1>1, SourceLog
<1>3. tx \in Txs /\ \A i \in 1 .. Len(wal) : wal[i].salt < tx /\ wal[i].tx < tx
  BY <1>1, NextTransaction
<1>4. Txs \subseteq Nat
  BY DatabaseAssumption DEF Txs
<1>5. \A i \in 1 .. Len(wal) : /\ wal[i] \in FrameSet /\ wal[i].salt \in Txs
                                /\ wal[i].tx \in Txs /\ wal[i].salt <= wal[i].tx
  <2>1. \A i \in 1 .. Len(wal) : wal[i] \in FrameSet
    BY <1>2
  <2> QED
    BY <1>1, <1>2, <2>1 DEF FrameSet, SourceInv
<1> HIDE DEF tx, L, a, salt
<1>6. salt \in Txs /\ salt <= tx
  <2>1. L # 0 => 1 \in 1 .. Len(wal)
    BY <1>2
  <2>2. L # 0 => wal[1].salt \in Txs /\ wal[1].salt < tx
    BY <1>3, <1>5, <2>1
  <2>3. tx \in Nat /\ \A s \in Txs : s \in Nat
    BY <1>3, <1>4
  <2>4. CASE L = 0
    BY <1>3, <2>3, <2>4 DEF salt
  <2>5. CASE L # 0
    <3>1. salt = wal[1].salt
      BY <2>5 DEF salt
    <3>2. wal[1].salt \in Nat
      BY <2>2, <2>3, <2>5
    <3> QED
      BY <2>2, <2>3, <2>5, <3>1, <3>2
  <2> QED
    BY <2>4, <2>5
<1>7. a \in Nat \ {0}
  BY <1>3, FramesOfTransaction DEF a
<1>f. ASSUME NEW s \in Txs
      PROVE  /\ Frames(W, tx, s) \in Seq(FrameSet) /\ Len(Frames(W, tx, s)) = a
             /\ \A i \in 1 .. a : Frames(W, tx, s)[i].tx = tx
             /\ \A i \in 1 .. a : Frames(W, tx, s)[i].salt = s
             /\ \A i \in 1 .. a : Frames(W, tx, s)[i].commit <=> i = a
  BY <1>3, FramesOfTransaction DEF a
<1>8. State \in [Pages -> Txs] /\ new \in [Pages -> Txs]
  <2>1. State \in [Pages -> Txs]
    BY <1>1, <1>2, RecoverType DEF State, DbTypeOK
  <2> QED
    BY <1>3, <2>1
<1> HIDE DEF new
<1>9. /\ committed' \in Seq([Pages -> Txs] \cup {NoFile}) /\ committed' # << >>
      /\ committed'[Len(committed')] = new
  <2> DEFINE T == [Pages -> Txs] \cup {NoFile}
  <2>1. committed \in Seq(T) /\ new \in T
    BY <1>8 DEF DbTypeOK
  <2> HIDE DEF T
  <2>2. committed' \in Seq(T) /\ committed' # << >> /\ committed'[Len(committed')] = new
    BY <1>1, <2>1
  <2> QED
    BY <2>2 DEF T
<1>10. ASSUME NEW M \in 1 .. Len(wal'), wal' \in Seq(FrameSet),
              \A i \in 1 .. Len(wal') : wal'[i].salt = wal'[1].salt <=> i <= M,
              wal'[M].commit,
              \A i \in 1 .. Len(wal') : wal'[i].salt <= wal'[i].tx,
              InLog(wal') = 1 .. M /\ Replayed(wal') = 1 .. M => Recover(main, wal') = new
       PROVE  SourceTypeOK' /\ SourceInv' /\ InLog(wal') = 1 .. M
  <2>1. InLog(wal') = 1 .. M /\ Replayed(wal') = 1 .. M
    BY <1>10, LogOf
  <2>2. DOMAIN wal' = 1 .. Len(wal') /\ Len(wal') \in Nat
    BY <1>10
  <2>3. State' = new
    BY <1>1, <1>10, <2>1 DEF State
  <2>4. \A i \in DOMAIN wal' : wal'[i].salt = wal'[1].salt => i \in InLog(wal')
    BY <1>10, <2>1, <2>2
  <2>5. \A i \in InLog(wal') : i + 1 \notin InLog(wal') => wal'[i].commit
    <3>1. \A i \in 1 .. M : i + 1 \notin 1 .. M => i = M
      BY <2>2
    <3> QED
      BY <1>10, <2>1, <3>1
  <2>6. SourceTypeOK'
    BY <1>1, <1>2, <1>9, <1>10 DEF SourceTypeOK
  <2>7. SourceInv'
    BY <1>1, <1>9, <1>10, <2>2, <2>3, <2>4, <2>5 DEF SourceInv
  <2> QED
    BY <2>1, <2>6, <2>7
<1>11. CASE wal' = SubSeq(wal, 1, L) \o Frames(W, tx, salt) \o rest(L + a)
  <2> DEFINE F == Frames(W, tx, salt)
             x == SubSeq(wal, 1, L)
             y == rest(L + a)
  <2>1. x \in Seq(FrameSet) /\ Len(x) = L /\ \A i \in 1 .. L : x[i] = wal[i]
    BY <1>2
  <2>2. /\ F \in Seq(FrameSet) /\ Len(F) = a
        /\ \A i \in 1 .. a : F[i].tx = tx
        /\ \A i \in 1 .. a : F[i].salt = salt
        /\ \A i \in 1 .. a : F[i].commit <=> i = a
    BY <1>f, <1>6
  <2>3. /\ y \in Seq(FrameSet)
        /\ \A i \in 1 .. Len(y) : y[i] = wal[L + a + i] /\ L + a + i \in 1 .. Len(wal)
    BY <1>2, <1>7, Behind
  <2> HIDE DEF F, x, y
  <2>4. /\ wal' \in Seq(FrameSet) /\ Len(wal') = L + a + Len(y)
        /\ \A i \in 1 .. L : wal'[i] = wal[i]
        /\ \A i \in 1 .. a : wal'[L + i] = F[i]
        /\ \A i \in 1 .. Len(y) : wal'[L + a + i] = wal[L + a + i]
    <3>1. wal' = x \o F \o y
      BY <1>11 DEF x, F, y
    <3>2. /\ wal' \in Seq(FrameSet) /\ Len(wal') = Len(x) + Len(F) + Len(y)
          /\ \A i \in 1 .. Len(x) : wal'[i] = x[i]
          /\ \A i \in 1 .. Len(F) : wal'[Len(x) + i] = F[i]
          /\ \A i \in 1 .. Len(y) : wal'[Len(x) + Len(F) + i] = y[i]
      <4>1. /\ x \o F \o y \in Seq(FrameSet)
            /\ Len(x \o F \o y) = Len(x) + Len(F) + Len(y)
            /\ \A i \in 1 .. Len(x) : (x \o F \o y)[i] = x[i]
            /\ \A i \in 1 .. Len(F) : (x \o F \o y)[Len(x) + i] = F[i]
            /\ \A i \in 1 .. Len(y) : (x \o F \o y)[Len(x) + Len(F) + i] = y[i]
        <5>1. x \in Seq(FrameSet) /\ F \in Seq(FrameSet) /\ y \in Seq(FrameSet)
          BY <2>1, <2>2, <2>3
        <5> QED
          BY ONLY <5>1, Concatenated
      <4> QED
        BY ONLY <3>1, <4>1
    <3> QED
      BY ONLY <2>1, <2>2, <2>3, <3>2
  <2>5. Len(y) \in Nat
    BY <2>3
  <2>6. wal'[1].salt = salt
    <3>1. CASE L = 0
      <4>1. 1 \in 1 .. a /\ L + 1 = 1
        BY <1>7, <3>1
      <4> QED
        BY <2>2, <2>4, <4>1
    <3>2. CASE L # 0
      <4>1. 1 \in 1 .. L
        BY <1>2, <3>2
      <4> QED
        BY <2>4, <3>2, <4>1 DEF salt
    <3> QED
      BY <3>1, <3>2
  <2>7. ASSUME NEW i \in 1 .. Len(wal')
        PROVE  (wal'[i].salt = salt <=> i <= L + a) /\ wal'[i].salt <= wal'[i].tx
    <3>1. CASE i <= L
      <4>1. i \in 1 .. L /\ i \in 1 .. Len(wal) /\ L # 0
        BY <1>2, <3>1
      <4>2. wal'[i] = wal[i] /\ salt = wal[1].salt
        BY <2>4, <4>1 DEF salt
      <4> QED
        BY <1>2, <1>5, <1>7, <3>1, <4>1, <4>2
    <3>2. CASE i > L /\ i <= L + a
      <4>1. PICK j \in 1 .. a : L + j = i
        <5>1. i - L \in 1 .. a /\ L + (i - L) = i
          BY <1>2, <1>7, <3>2
        <5> QED
          BY <5>1
      <4> QED
        BY <1>6, <2>2, <2>4, <3>2, <4>1
    <3>3. CASE i > L + a
      <4>1. PICK j \in 1 .. Len(y) : L + a + j = i
        <5>1. i - (L + a) \in 1 .. Len(y) /\ L + a + (i - (L + a)) = i
          BY <1>2, <1>7, <2>4, <2>5, <3>3
        <5> QED
          BY <5>1
      <4>2. wal'[i] = wal[i] /\ i \in 1 .. Len(wal) /\ i > L
        BY <1>2, <1>7, <2>3, <2>4, <3>3, <4>1
      <4>3. L # 0 /\ salt = wal[1].salt
        BY <1>2, <4>2 DEF salt
      <4>4. wal[i].salt # salt /\ ~(i <= L + a)
        BY <1>2, <1>7, <3>3, <4>2, <4>3
      <4> QED
        BY <1>5, <4>2, <4>4
    <3> QED
      BY <1>2, <1>7, <3>1, <3>2, <3>3
  <2>8. L + a \in 1 .. Len(wal')
    BY <1>2, <1>7, <2>4, <2>5
  <2>9. wal'[L + a].commit
    BY <1>7, <2>2, <2>4
  <2>10. ASSUME InLog(wal') = 1 .. L + a /\ Replayed(wal') = 1 .. L + a
         PROVE  Recover(main, wal') = new
    <3>1. \A i \in 1 .. Cardinality(W) : wal'[L + i] = Frames(W, tx, salt)[i]
      BY <2>4 DEF a, F
    <3>2. Replayed(wal') = 1 .. L + Cardinality(W)
      BY <2>10 DEF a
    <3>3. \A p \in Pages :
            Recover(main, wal')[p] = IF p \in W THEN tx ELSE Recover(main, wal)[p]
      <4>1. W \in (SUBSET Pages) \ {{}} /\ tx \in Txs /\ salt \in Txs /\ main # NoFile
        BY <1>1, <1>3, <1>6
      <4>2. /\ wal \in Seq(FrameSet) /\ wal' \in Seq(FrameSet)
            /\ L \in 0 .. Len(wal) /\ Replayed(wal) = 1 .. L
            /\ \A i \in 1 .. L : wal'[i] = wal[i]
        BY <1>2, <2>4
      <4> QED
        BY ONLY <3>1, <3>2, <4>1, <4>2, TransactionRecovered
    <3>4. Recover(main, wal') \in [Pages -> Txs]
      BY <1>1, <1>2, <2>4, RecoverType
    <3> QED
      BY <3>3, <3>4 DEF new, State
  <2>11. SourceTypeOK' /\ SourceInv' /\ InLog(wal') = 1 .. L + a
    BY <1>10, <2>4, <2>6, <2>7, <2>8, <2>9, <2>10
  <2>12. \A i \in InLog(wal) : i \in InLog(wal') /\ wal'[i] = wal[i]
    BY <1>2, <1>7, <2>4, <2>11
  <2>13. wal' # NoFile
    BY <2>4, NoFileAssumption
  <2>14. LogGrows
    BY <1>1, <2>12, <2>13 DEF LogGrows, NoFrames
  <2> QED
    BY <2>11, <2>14
<1>12. CASE L > 0 /\ main = State /\ restarted' /\ wal' = Frames(W, tx, tx) \o rest(a)
  <2> DEFINE F == Frames(W, tx, tx)
             y == rest(a)
  <2>1. << >> \in Seq(FrameSet) /\ Len(<< >>) = 0
    OBVIOUS
  <2>2. /\ F \in Seq(FrameSet) /\ Len(F) = a
        /\ \A i \in 1 .. a : F[i].tx = tx
        /\ \A i \in 1 .. a : F[i].salt = tx
        /\ \A i \in 1 .. a : F[i].commit <=> i = a
    BY <1>f, <1>3
  <2>3. /\ y \in Seq(FrameSet)
        /\ \A i \in 1 .. Len(y) : y[i] = wal[a + i] /\ a + i \in 1 .. Len(wal)
    BY <1>2, <1>7, Behind
  <2> HIDE DEF F, y
  <2>4. /\ wal' \in Seq(FrameSet) /\ Len(wal') = a + Len(y)
        /\ \A i \in 1 .. a : wal'[i] = F[i]
        /\ \A i \in 1 .. Len(y) : wal'[a + i] = wal[a + i]
    <3>1. wal' = F \o y
      BY <1>12 DEF F, y
    <3>2. /\ wal' \in Seq(FrameSet) /\ Len(wal') = Len(F) + Len(y)
          /\ \A i \in 1 .. Len(F) : wal'[i] = F[i]
          /\ \A i \in 1 .. Len(y) : wal'[Len(F) + i] = y[i]
      <4>1. /\ F \o y \in Seq(FrameSet) /\ Len(F \o y) = Len(F) + Len(y)
            /\ \A i \in 1 .. Len(F) : (F \o y)[i] = F[i]
            /\ \A i \in 1 .. Len(y) : (F \o y)[Len(F) + i] = y[i]
        <5>1. F \in Seq(FrameSet) /\ y \in Seq(FrameSet)
          BY <2>2, <2>3
        <5> QED
          BY ONLY <5>1, Appended
      <4> QED
        BY ONLY <3>1, <4>1
    <3> QED
      BY ONLY <2>2, <2>3, <3>2
  <2>5. Len(y) \in Nat
    BY <2>3
  <2>6. wal'[1].salt = tx
    <3>1. 1 \in 1 .. a
      BY <1>7
    <3> QED
      BY <2>2, <2>4, <3>1
  <2>7. ASSUME NEW i \in 1 .. Len(wal')
        PROVE  (wal'[i].salt = tx <=> i <= a) /\ wal'[i].salt <= wal'[i].tx
    <3>1. CASE i <= a
      <4>1. i \in 1 .. a
        BY <3>1
      <4> QED
        BY <1>3, <1>4, <2>2, <2>4, <3>1, <4>1
    <3>2. CASE i > a
      <4>1. PICK j \in 1 .. Len(y) : a + j = i
        <5>1. i - a \in 1 .. Len(y) /\ a + (i - a) = i
          BY <1>7, <2>4, <2>5, <3>2
        <5> QED
          BY <5>1
      <4>2. wal'[i] = wal[i] /\ i \in 1 .. Len(wal)
        BY <2>3, <2>4, <4>1
      <4> QED
        BY <1>3, <1>4, <1>5, <1>7, <3>2, <4>2
    <3> QED
      BY <1>7, <3>1, <3>2
  <2>8. a \in 1 .. Len(wal')
    BY <1>7, <2>4, <2>5
  <2>9. wal'[a].commit
    BY <1>7, <2>2, <2>4
  <2>10. ASSUME InLog(wal') = 1 .. a /\ Replayed(wal') = 1 .. a
         PROVE  Recover(main, wal') = new
    <3>1. \A i \in 1 .. Cardinality(W) : wal'[i] = Frames(W, tx, tx)[i]
      BY <2>4 DEF a, F
    <3>2. Replayed(wal') = 1 .. Cardinality(W)
      BY <2>10 DEF a
    <3>3. \A p \in Pages : Recover(main, wal')[p] = IF p \in W THEN tx ELSE main[p]
      <4>1. W \in (SUBSET Pages) \ {{}} /\ tx \in Txs /\ main # NoFile /\ wal' \in Seq(FrameSet)
        BY <1>1, <1>3, <2>4
      <4> QED
        BY ONLY <3>1, <3>2, <4>1, RestartRecovered
    <3>4. Recover(main, wal') \in [Pages -> Txs]
      BY <1>1, <1>2, <2>4, RecoverType
    <3> QED
      BY <1>12, <3>3, <3>4 DEF new
  <2>11. SourceTypeOK' /\ SourceInv'
    BY <1>10, <2>4, <2>6, <2>7, <2>8, <2>9, <2>10
  <2>12. wal' # NoFile
    BY <2>4, NoFileAssumption
  <2> QED
    BY <1>1, <1>12, <2>11, <2>12 DEF LogGrows
<1> QED
  BY <1>1, <1>11, <1>12

\* The first database, or an empty log, changes nothing that was there.
LEMMA CreateStep ==
  ASSUME DbTypeOK, SourceInv, CreateFile
  PROVE  SourceTypeOK' /\ SourceInv' /\ LogGrows
<1>1. CASE main = NoFile
  <2> DEFINE fresh == [p \in Pages |-> 0]
             T == [Pages -> Txs] \cup {NoFile}
  <2>1. /\ wal = NoFile /\ wal' = NoFile /\ main' = fresh
        /\ committed' = Append(committed, main')
    BY <1>1 DEF CreateFile, SourceInv
  <2>2. 0 \in Txs
    BY DatabaseAssumption DEF Txs
  <2>3. fresh \in [Pages -> Txs] /\ fresh \in [Pages -> Txs \cup {Missing}]
    BY <2>2
  <2>4. main' # NoFile
    BY <2>1, <2>3, NoFileAssumption
  <2>5. State' = main'
    BY <2>1, <2>3, StateWithoutLog DEF State
  <2>6. committed \in Seq(T) /\ main' \in T
    BY <2>1, <2>3 DEF DbTypeOK
  <2> HIDE DEF T, fresh
  <2>7. /\ committed' \in Seq(T) /\ committed' # << >>
        /\ committed'[Len(committed')] = main'
    BY <2>1, <2>6
  <2>8. SourceTypeOK'
    BY <2>1, <2>6, <2>7 DEF SourceTypeOK, T
  <2>9. SourceInv'
    BY <2>1, <2>4, <2>5, <2>7 DEF SourceInv
  <2> QED
    BY <1>1, <2>1, <2>4, <2>8, <2>9 DEF LogGrows
<1>2. CASE main # NoFile
  <2>1. wal = NoFile /\ wal' = << >> /\ UNCHANGED <<main, committed>>
    BY <1>2 DEF CreateFile
  <2>2. main \in [Pages -> Txs \cup {Missing}]
    BY <1>2 DEF DbTypeOK
  <2>3. Recover(main, NoFile) = main /\ Recover(main, << >>) = main
    BY <2>2, StateWithoutLog
  <2>4. State' = State
    BY <2>1, <2>3 DEF State
  <2>5. << >> \in Seq(FrameSet) /\ DOMAIN << >> = {}
    OBVIOUS
  <2>6. << >> # NoFile
    BY <2>5, NoFileAssumption
  <2>7. InLog(wal') = {}
    BY <2>1 DEF InLog
  <2>8. SourceTypeOK'
    BY <2>1, <2>5 DEF SourceTypeOK, DbTypeOK
  <2>9. SourceInv'
    BY <1>2, <2>1, <2>4, <2>5, <2>7 DEF SourceInv
  <2> QED
    BY <1>2, <2>1, <2>6, <2>8, <2>9 DEF LogGrows, NoFrames
<1> QED
  BY <1>1, <1>2

\* Only a page the log has frames of differs from the state, and so a
\* checkpoint writes nothing else.
LEMMA CheckpointStep ==
  ASSUME DbTypeOK, SourceInv, NEW p \in Pages, CheckpointPage(p)
  PROVE  SourceTypeOK' /\ SourceInv' /\ LogGrows
<1>1. /\ main # NoFile /\ main[p] # State[p]
      /\ main' = [main EXCEPT ![p] = State[p]]
      /\ UNCHANGED <<wal, committed, restarted>>
  BY DEF CheckpointPage, history
<1>2. main \in [Pages -> Txs] /\ wal \in Seq(FrameSet) \cup {NoFile}
  BY <1>1 DEF DbTypeOK
<1>3. State \in [Pages -> Txs]
  BY <1>1, <1>2, RecoverType DEF State
<1>4. main' \in [Pages -> Txs] /\ \A q \in Pages : q # p => main'[q] = main[q]
  BY <1>1, <1>2, <1>3
<1>5. main' # NoFile
  BY <1>4, NoFileAssumption
<1>6. FramesOf(wal, p) # {}
  <2>1. State[p] = IF FramesOf(wal, p) = {} THEN main[p] ELSE wal[Max(FramesOf(wal, p))].tx
    BY <1>1, RecoverAt DEF State
  <2> QED
    BY <1>1, <2>1
<1>7. State' = State
  <2>1. \A q \in Pages : FramesOf(wal, q) = {} => main'[q] = main[q]
    BY <1>4, <1>6
  <2>2. Recover(main', wal) = Recover(main, wal)
    <3>1. main # NoFile /\ main' # NoFile
      BY <1>1, <1>5
    <3> QED
      BY ONLY <2>1, <3>1, SamePages
  <2> QED
    BY <1>1, <2>2 DEF State
<1>8. wal # NoFile
  BY <1>6 DEF FramesOf
<1>9. ~NoFrames(p)
  BY <1>6, <1>8, SourceLog
<1>10. SourceTypeOK'
  BY <1>1, <1>2, <1>4 DEF SourceTypeOK, DbTypeOK
<1>11. SourceInv'
  BY <1>1, <1>5, <1>7, <1>8 DEF SourceInv
<1>12. \A q \in Pages : NoFrames(q)' <=> NoFrames(q)
  BY <1>1 DEF NoFrames
<1> QED
  BY <1>1, <1>4, <1>5, <1>9, <1>10, <1>11, <1>12 DEF LogGrows

\* A log that is deleted has been written back.
LEMMA DeleteStep ==
  ASSUME DbTypeOK, SourceInv, DeleteWal
  PROVE  SourceTypeOK' /\ SourceInv' /\ LogGrows
<1>1. /\ wal # NoFile /\ main = State /\ wal' = NoFile /\ restarted'
      /\ UNCHANGED <<main, committed>>
  BY DEF DeleteWal
<1>2. main # NoFile /\ main \in [Pages -> Txs]
  BY <1>1, SourceLog
<1>3. main \in [Pages -> Txs \cup {Missing}]
  BY <1>2
<1>4. State' = State
  BY <1>1, <1>3, StateWithoutLog DEF State
<1>5. SourceTypeOK'
  BY <1>1, <1>2 DEF SourceTypeOK, DbTypeOK
<1>6. SourceInv'
  BY <1>1, <1>2, <1>4 DEF SourceInv
<1> QED
  BY <1>1, <1>2, <1>5, <1>6 DEF LogGrows

DbInv == DbTypeOK /\ SourceInv /\ ControlInv /\ CopyInv

\* What a database was at one time it was.
LEMMA SinceGrows ==
  ASSUME NEW T, committed \in Seq(T), committed' \in Seq(T), NEW s,
         committed' = committed \/ committed' = Append(committed, s),
         began \in Nat \ {0}, UNCHANGED began
  PROVE  Since \subseteq Since'
<1>1. Len(committed) \in Nat /\ Len(committed') \in Nat /\ Len(committed) <= Len(committed')
  OBVIOUS
<1>2. \A i \in 1 .. Len(committed) : committed'[i] = committed[i]
  OBVIOUS
<1>3. \A i \in began .. Len(committed) : i \in 1 .. Len(committed) /\ i \in began' .. Len(committed')
  BY <1>1
<1> QED
  BY <1>2, <1>3 DEF Since

\* What the service does to the source does not lose what the copy has.
LEMMA ServiceStep ==
  ASSUME DbInv, Service
  PROVE  DbInv'
<1> USE DEF DbInv
<1>1. SourceTypeOK' /\ SourceInv' /\ LogGrows
  BY CreateStep, TransactionStep, CheckpointStep, DeleteStep DEF Service
<1>2. UNCHANGED <<pc, next, dstMain, dstWal, backup, attempts, began, stale>>
  BY DEF Service, CreateFile, Transaction, CheckpointPage, DeleteWal, copy, history
<1>3. restarted' \in {restarted, TRUE}
  BY DEF Service, CreateFile, Transaction, CheckpointPage, DeleteWal, history
<1>4. IF DeleteWal /\ pc = "wal" /\ orphan = NoFile
        THEN orphan' = wal /\ wal # NoFile /\ restarted' ELSE UNCHANGED orphan
  BY DEF Service, CreateFile, Transaction, CheckpointPage, DeleteWal
<1>5. PICK s : committed' = committed \/ committed' = Append(committed, s)
  <2>1. CASE CreateFile
    BY <2>1 DEF CreateFile
  <2>2. CASE \E W \in (SUBSET Pages) \ {{}} : Transaction(W)
    BY <2>2 DEF Transaction
  <2>3. CASE (\E p \in Pages : CheckpointPage(p)) \/ DeleteWal
    BY <2>3 DEF CheckpointPage, DeleteWal
  <2> QED
    BY <2>1, <2>2, <2>3 DEF Service
<1>6. Len(committed) \in Nat /\ Len(committed') \in Nat /\ Len(committed) <= Len(committed')
  <2> DEFINE T == [Pages -> Txs] \cup {NoFile}
  <2>1. committed \in Seq(T) /\ committed' \in Seq(T)
    BY <1>1 DEF DbTypeOK, SourceTypeOK
  <2> HIDE DEF T
  <2> QED
    BY <1>5, <2>1
<1>7. DbTypeOK'
  <2>1. began' \in 0 .. Len(committed')
    BY <1>2, <1>6 DEF DbTypeOK
  <2>2. orphan' \in Seq(FrameSet) \cup {NoFile}
    BY <1>4 DEF DbTypeOK
  <2>3. State' = committed'[Len(committed')]
    BY <1>1 DEF SourceInv
  <2> QED
    BY <1>1, <1>2, <1>3, <2>1, <2>2, <2>3 DEF DbTypeOK, SourceTypeOK
<1>8. ControlInv'
  <2>1. main' = NoFile => dstMain' = NoFile
    BY <1>1, <1>2 DEF LogGrows, ControlInv
  <2>2. pc' = "wal" => wal' # NoFile \/ orphan' # NoFile
    BY <1>1, <1>2, <1>4 DEF LogGrows, ControlInv
  <2>3. orphan' # NoFile => pc' = "wal" /\ restarted'
    BY <1>2, <1>3, <1>4 DEF ControlInv, DbTypeOK
  <2> QED
    BY <1>1, <1>2, <2>1, <2>2, <2>3 DEF ControlInv, LogGrows
<1>9. pc # "idle" => Since \subseteq Since'
  <2> DEFINE T == [Pages -> Txs] \cup {NoFile}
  <2>1. committed \in Seq(T) /\ committed' \in Seq(T)
    BY <1>1 DEF DbTypeOK, SourceTypeOK
  <2>2. pc # "idle" => began \in Nat \ {0}
    BY <1>6 DEF ControlInv, DbTypeOK
  <2> HIDE DEF T
  <2> QED
    BY <1>2, <1>5, <2>1, <2>2, SinceGrows
<1>10. CopyInv'
  <2> SUFFICES ASSUME ~restarted'  PROVE CopyInv'
    BY DEF CopyInv
  <2>1. ~restarted
    BY <1>3
  <2>2. main # NoFile /\ PagesFollow /\ (pc = "main" => next \in Pages) => PagesFollow'
    <3> SUFFICES ASSUME main # NoFile, PagesFollow, pc = "main" => next \in Pages
                 PROVE  PagesFollow'
      OBVIOUS
    <3>1. \A p \in IF pc = "main" THEN 1 .. next - 1 ELSE Pages : p \in Pages
      BY DatabaseAssumption DEF Pages
    <3>2. \A p \in Pages : NoFrames(p)' => NoFrames(p) /\ main'[p] = main[p]
      BY <1>1 DEF LogGrows
    <3> QED
      BY <1>2, <3>1, <3>2 DEF PagesFollow
  <2>3. CASE pc \in {"main", "findWal", "openWal"}
    BY <1>2, <2>1, <2>2, <2>3 DEF CopyInv, ControlInv
  <2>4. CASE pc = "wal"
    <3>1. main # NoFile /\ wal # NoFile
      BY <2>1, <2>4 DEF ControlInv
    <3>2. \A i \in InLog(wal) : i \in InLog(wal') /\ wal'[i] = wal[i]
      BY <1>1, <3>1 DEF LogGrows
    <3>3. LogFollows => LogFollows'
      BY <1>2, <3>2 DEF LogFollows
    <3>4. LogEnded => LogEnded'
      BY <1>2, <1>9, <2>4 DEF LogEnded
    <3> QED
      BY <1>2, <2>1, <2>2, <2>4, <3>1, <3>3, <3>4 DEF CopyInv
  <2>5. CASE pc \in {"shm", "copied", "backup", "ended"}
    BY <1>2, <1>9, <2>1, <2>5 DEF CopyInv
  <2>6. CASE pc \in {"idle", "cleanup"}
    BY <1>2, <2>6 DEF CopyInv
  <2> QED
    BY <2>3, <2>4, <2>5, <2>6 DEF DbTypeOK, Copying
<1> QED
  BY <1>1, <1>7, <1>8, <1>10

-----------------------------------------------------------------------------
(* The deploy                                                              *)

\* The state of the source is one of those since the deploy began.
LEMMA StateIsSince ==
  ASSUME DbInv
  PROVE  State \in Since
<1>1. began \in 0 .. Len(committed) /\ Len(committed) \in Nat
  BY DEF DbInv, DbTypeOK
<1>2. Len(committed) \in began .. Len(committed)
  BY <1>1
<1> QED
  BY <1>2 DEF DbInv, SourceInv, Since

\* Where every page follows the source, its log completes the copy.
LEMMA CopyWithLog ==
  ASSUME DbInv, main # NoFile, dstMain # NoFile, pc # "main", PagesFollow
  PROVE  Recover(dstMain, wal) = State
<1>1. \A p \in Pages : FramesOf(wal, p) = {} => dstMain[p] = main[p]
  <2>1. \A p \in Pages : NoFrames(p) => dstMain[p] = main[p]
    BY DEF PagesFollow
  <2>2. \A p \in Pages : FramesOf(wal, p) = {} => NoFrames(p)
    <3>1. CASE wal = NoFile
      BY <3>1 DEF NoFrames
    <3>2. CASE wal # NoFile
      BY <3>2, SourceLog DEF DbInv
    <3> QED
      BY <3>1, <3>2
  <2> QED
    BY <2>1, <2>2
<1>2. dstMain # NoFile /\ main # NoFile
  OBVIOUS
<1> QED
  BY ONLY <1>1, <1>2, SamePages DEF State

\* Once a frame of an older log has been copied, what follows does not count.
LEMMA EndedStays ==
  ASSUME NEW m, NEW d \in Seq(FrameSet), NEW f \in FrameSet,
         \E i \in DOMAIN d : d[i].salt # d[1].salt
  PROVE  Recover(m, Append(d, f)) = Recover(m, d)
<1> DEFINE e == Append(d, f)
<1>1. /\ e \in Seq(FrameSet) /\ DOMAIN d = 1 .. Len(d) /\ Len(d) \in Nat
      /\ DOMAIN e = 1 .. Len(d) + 1 /\ \A i \in 1 .. Len(d) : e[i] = d[i]
  OBVIOUS
<1>2. PICK k \in 1 .. Len(d) : d[k].salt # d[1].salt
  BY <1>1
<1> HIDE DEF e
<1>3. 1 \in 1 .. Len(d)
  BY <1>1, <1>2
<1>4. InLog(e) = InLog(d)
  <2>1. \A i \in 1 .. Len(d) : i \in InLog(e) <=> i \in InLog(d)
    <3> SUFFICES ASSUME NEW i \in 1 .. Len(d)
                 PROVE  i \in InLog(e) <=> i \in InLog(d)
      OBVIOUS
    <3>1. \A j \in 1 .. i : j \in 1 .. Len(d)
      BY <1>1
    <3> QED
      BY <1>1, <1>3, <3>1 DEF InLog
  <2>2. Len(d) + 1 \notin InLog(e)
    BY <1>1, <1>2, <1>3 DEF InLog
  <2>3. InLog(e) \subseteq 1 .. Len(d) + 1 /\ InLog(d) \subseteq 1 .. Len(d)
    BY <1>1 DEF InLog
  <2> QED
    BY <1>1, <2>1, <2>2, <2>3
<1>5. \A i \in InLog(d) : e[i] = d[i]
  BY <1>1 DEF InLog
<1>6. Replayed(e) = Replayed(d) /\ \A i \in Replayed(d) : d[i] = e[i]
  BY <1>4, <1>5 DEF Replayed
<1>7. d \in Seq(FrameSet)
  OBVIOUS
<1>8. Recover(m, d) = Recover(m, e)
  BY ONLY <1>1, <1>6, <1>7, SameLog
<1> QED
  BY <1>8 DEF e

\* One frame more: of the log, or behind its end.  The latter comes when all
\* of the log has been copied, however it has grown since it was opened.
LEMMA FrameStep ==
  ASSUME DbInv, pc = "wal", ~restarted, CopyFrame
  PROVE  CopyInv'
<1> USE DEF DbInv
<1>1. /\ orphan = NoFile /\ wal # NoFile /\ main # NoFile
      /\ dstMain # NoFile /\ dstWal # NoFile
  BY DEF ControlInv
<1>2. /\ wal \in Seq(FrameSet) /\ dstWal \in Seq(FrameSet) /\ next \in Nat \ {0}
      /\ Len(wal) \in Nat /\ Len(dstWal) \in Nat
      /\ DOMAIN dstWal = 1 .. Len(dstWal) /\ DOMAIN wal = 1 .. Len(wal)
  BY <1>1 DEF DbTypeOK, ControlInv
<1>3. /\ UNCHANGED <<main, wal, committed, dstMain, began, restarted, stale>>
      /\ IF next <= Len(wal)
           THEN dstWal' = Append(dstWal, wal[next]) /\ next' = next + 1 /\ UNCHANGED pc
           ELSE pc' = "shm" /\ UNCHANGED <<dstWal, next>>
  BY <1>1 DEF CopyFrame, source, history
<1>4. UNCHANGED Since
  BY <1>3 DEF Since
<1>5. State \in Since
  BY StateIsSince
<1>6. PICK L \in 0 .. Len(wal) :
        /\ InLog(wal) = 1 .. L /\ Replayed(wal) = 1 .. L
        /\ \A i \in 1 .. Len(wal) : wal[i].salt = wal[1].salt <=> i <= L
        /\ L = 0 => wal = << >>
  BY <1>1, SourceLog
<1>7. (PagesFollow /\ LogFollows) \/ LogEnded
  BY DEF CopyInv
<1>8. CASE LogEnded
  <2>1. CASE next <= Len(wal)
    <3>1. wal[next] \in FrameSet
      BY <1>2, <2>1
    <3>2. \E i \in DOMAIN dstWal : dstWal[i].salt # dstWal[1].salt
      BY <1>8 DEF LogEnded
    <3>3. Recover(dstMain, dstWal') = Recover(dstMain, dstWal)
      BY <1>2, <1>3, <2>1, <3>1, <3>2, EndedStays
    <3>4. \E i \in DOMAIN dstWal' : dstWal'[i].salt # dstWal'[1].salt
      <4>1. PICK i \in 1 .. Len(dstWal) : dstWal[i].salt # dstWal[1].salt
        BY <1>2, <3>2
      <4>2. /\ i \in DOMAIN dstWal' /\ dstWal'[i] = dstWal[i]
            /\ 1 \in 1 .. Len(dstWal) /\ dstWal'[1] = dstWal[1]
        BY <1>2, <1>3, <2>1, <3>1, <4>1
      <4> QED
        BY <4>1, <4>2
    <3>5. LogEnded'
      BY <1>3, <1>4, <1>8, <3>3, <3>4 DEF LogEnded
    <3> QED
      BY <1>3, <2>1, <3>5 DEF CopyInv
  <2>2. CASE ~(next <= Len(wal))
    BY <1>3, <1>4, <1>8, <2>2 DEF CopyInv, LogEnded
  <2> QED
    BY <2>1, <2>2
<1>9. CASE PagesFollow /\ LogFollows
  <2>1. Recover(dstMain, wal) = State
    BY <1>1, <1>9, CopyWithLog
  <2>2. /\ next = Len(dstWal) + 1
        /\ \A i \in 1 .. Len(dstWal) : i \in 1 .. L /\ dstWal[i] = wal[i]
    BY <1>2, <1>6, <1>9 DEF LogFollows
  <2>3. Len(dstWal) <= L
    <3>1. Len(dstWal) # 0 => Len(dstWal) \in 1 .. Len(dstWal)
      BY <1>2
    <3> QED
      BY <1>2, <1>6, <2>2, <3>1
  <2>4. /\ L \in Nat /\ L <= Len(wal) /\ Len(wal) \in Nat
        /\ Len(dstWal) \in Nat /\ next = Len(dstWal) + 1
    BY <1>2, <2>2
  <2>5. CASE next <= L
    <3>1. next <= Len(wal) /\ next \in InLog(wal) /\ wal[next] \in FrameSet
      BY <1>2, <1>6, <2>5
    <3>2. LogFollows'
      <4>1. dstWal' = Append(dstWal, wal[next]) /\ next' = next + 1
        BY <1>3, <3>1
      <4>2. /\ Len(dstWal') = Len(dstWal) + 1 /\ DOMAIN dstWal' = 1 .. Len(dstWal) + 1
            /\ \A i \in 1 .. Len(dstWal) : dstWal'[i] = dstWal[i]
            /\ dstWal'[next] = wal[next]
        BY <1>2, <2>2, <3>1, <4>1
      <4>3. \A i \in 1 .. Len(dstWal) + 1 : i \in 1 .. Len(dstWal) \/ i = next
        BY <1>2, <2>2
      <4>4. \A i \in DOMAIN dstWal' : i \in InLog(wal) /\ dstWal'[i] = wal[i]
        BY <1>6, <2>2, <3>1, <4>2, <4>3
      <4> QED
        BY <1>3, <2>2, <4>1, <4>2, <4>4 DEF LogFollows
    <3>3. PagesFollow'
      BY <1>3, <1>9, <3>1 DEF PagesFollow, NoFrames
    <3> QED
      BY <1>3, <3>1, <3>2, <3>3 DEF CopyInv
  <2>6. CASE next > L /\ next <= Len(wal)
    <3>1. next = L + 1 /\ Len(dstWal) = L
      BY ONLY <2>3, <2>6, <2>4
    <3>2. L # 0
      BY <1>2, <1>6, <2>6
    <3>3. wal[next] \in FrameSet /\ dstWal' = Append(dstWal, wal[next])
      BY <1>2, <1>3, <2>6
    <3>4. /\ dstWal' \in Seq(FrameSet) /\ Len(dstWal') = L + 1
          /\ DOMAIN dstWal' = 1 .. L + 1
          /\ \A i \in 1 .. L + 1 : dstWal'[i] = wal[i]
      <4>1. /\ dstWal' \in Seq(FrameSet) /\ Len(dstWal') = L + 1
            /\ DOMAIN dstWal' = 1 .. L + 1
            /\ \A i \in 1 .. L : dstWal'[i] = dstWal[i]
            /\ dstWal'[L + 1] = wal[next]
        BY <1>2, <3>1, <3>3
      <4>2. \A i \in 1 .. L + 1 : i \in 1 .. L \/ i = L + 1
        BY <1>6
      <4> QED
        BY <2>2, <3>1, <4>1, <4>2
    <3>5. wal[L].commit
      <4>1. L \in Replayed(wal)
        BY <1>6, <3>2
      <4>2. PICK j \in InLog(wal) : j >= L /\ wal[j].commit
        BY <4>1 DEF Replayed
      <4>3. j = L
        BY <1>6, <4>2
      <4> QED
        BY <4>2, <4>3
    <3>6. /\ L \in 1 .. Len(dstWal') /\ 1 \in 1 .. L + 1 /\ dstWal'[L].commit
          /\ \A i \in 1 .. Len(dstWal') : dstWal'[i].salt = dstWal'[1].salt <=> i <= L
      <4>1. L \in 1 .. L + 1 /\ 1 \in 1 .. L + 1 /\ \A i \in 1 .. L + 1 : i \in 1 .. Len(wal)
        BY <1>2, <1>6, <2>6, <3>1, <3>2
      <4> QED
        BY <1>6, <3>4, <3>5, <4>1
    <3>7. Replayed(dstWal') = 1 .. L
      BY ONLY <3>4, <3>6, LogOf
    <3>8. Replayed(wal) = Replayed(dstWal') /\ \A i \in Replayed(wal) : wal[i] = dstWal'[i]
      BY <1>6, <3>4, <3>7
    <3>9. Recover(dstMain, wal) = Recover(dstMain, dstWal')
      BY <1>2, <3>4, <3>8, SameLog
    <3>10. dstWal'[L + 1].salt # dstWal'[1].salt
      BY <1>6, <3>4, <3>6
    <3>11. LogEnded'
      BY <1>3, <1>4, <1>5, <1>6, <2>1, <3>4, <3>9, <3>10 DEF LogEnded
    <3> QED
      BY <1>3, <2>6, <3>11 DEF CopyInv
  <2>7. CASE next > Len(wal)
    <3>1. Len(dstWal) = Len(wal)
      BY ONLY <2>3, <2>7, <2>4
    <3>2. dstWal = wal
      BY <1>2, <2>2, <3>1
    <3>3. Recover(dstMain', dstWal') \in Since'
      BY <1>2, <1>3, <1>4, <1>5, <2>1, <2>7, <3>2
    <3> QED
      BY <1>2, <1>3, <2>7, <3>3 DEF CopyInv
  <2> QED
    BY <1>2, <1>6, <2>5, <2>6, <2>7
<1> QED
  BY <1>7, <1>8, <1>9

\* Every step of the deploy reads the source only, and keeps the types and
\* what holds where it is.
LEMMA DeployControl ==
  ASSUME DbInv, DeployCopies
  PROVE  DbTypeOK' /\ SourceInv' /\ ControlInv' /\ UNCHANGED <<main, wal, committed>>
<1> USE DEF DbInv
<1>1. UNCHANGED <<main, wal, committed>>
  BY DEF DeployCopies, CopyBegin, CopyPage, CopyFindWal, CopyOpenWal, CopyFrame,
         CopyShm, CopyFails, CopyCleanup, BackupBegin, BackupPage, BackupFails,
         Kill, source
<1>2. SourceInv' /\ State' = State
  BY <1>1 DEF SourceInv, State
<1>3. SourceTypeOK'
  BY <1>1 DEF SourceTypeOK, DbTypeOK
<1>4. Len(committed) \in Nat /\ Len(committed) # 0
  BY DEF DbTypeOK, SourceInv
<1>5. /\ next \in Nat \ {0} /\ NumPages \in Nat \ {0} /\ Pages = 1 .. NumPages
      /\ State = committed[Len(committed)]
  BY DatabaseAssumption DEF DbTypeOK, ControlInv, Pages
<1> DEFINE Copies == [Pages -> Txs \cup {Missing}]
<1>6. [p \in Pages |-> Missing] \in Copies /\ NoFile \notin Copies
  BY NoFileAssumption
<1>7. ASSUME NEW m \in Copies, NEW p \in Pages, main # NoFile
      PROVE  [m EXCEPT ![p] = main[p]] \in Copies
  <2>1. main[p] \in Txs
    BY <1>7 DEF DbTypeOK
  <2> QED
    BY <2>1
<1>8. CASE CopyBegin
  <2>1. /\ attempts' = attempts + 1 /\ attempts < MaxAttempts /\ began' = Len(committed)
        /\ restarted' = FALSE /\ stale' = FALSE /\ next' = 1 /\ backup' = NoFile
        /\ UNCHANGED <<orphan, dstWal>> /\ pc \in {"idle", "ended"}
        /\ \/ main = NoFile /\ pc' = "copied" /\ UNCHANGED dstMain
           \/ main # NoFile /\ pc' = "main" /\ dstMain' = [p \in Pages |-> Missing]
    BY <1>8 DEF CopyBegin
  <2>2. attempts' \in 0 .. MaxAttempts /\ began' \in 0 .. Len(committed') /\ began' > 0
    BY <1>1, <1>4, <2>1, DatabaseAssumption DEF DbTypeOK
  <2>3. dstMain' \in Copies \cup {NoFile}
    BY <1>6, <2>1 DEF DbTypeOK
  <2>4. pc' = "main" => dstMain' # NoFile /\ 1 \in Pages
    BY <1>5, <1>6, <2>1
  <2>5. DbTypeOK'
    BY <1>1, <1>2, <1>3, <1>5, <2>1, <2>2, <2>3 DEF DbTypeOK, SourceTypeOK, Copying
  <2>6. ControlInv'
    BY <1>1, <2>1, <2>2, <2>4 DEF ControlInv
  <2> QED
    BY <1>1, <1>2, <2>5, <2>6
<1>9. CASE CopyPage
  <2>1. /\ pc = "main" /\ pc' = IF next = NumPages THEN "findWal" ELSE "main"
        /\ dstMain' = [dstMain EXCEPT ![next] = main[next]] /\ next' = next + 1
        /\ UNCHANGED <<orphan, dstWal, backup, attempts, began, restarted, stale>>
    BY <1>9 DEF CopyPage, Goto, history
  <2>2. next \in Pages /\ main # NoFile /\ dstMain \in Copies
    BY <2>1 DEF ControlInv, DbTypeOK
  <2>3. dstMain' \in Copies /\ dstMain' # NoFile
    BY <1>6, <1>7, <2>1, <2>2
  <2>4. next' \in Nat \ {0} /\ (pc' = "main" => next' \in Pages)
    BY <1>5, <2>1, <2>2
  <2>5. DbTypeOK'
    BY <1>1, <1>2, <1>3, <1>5, <2>1, <2>3, <2>4 DEF DbTypeOK, SourceTypeOK, Copying
  <2>6. ControlInv'
    BY <1>1, <2>1, <2>2, <2>3, <2>4 DEF ControlInv
  <2> QED
    BY <1>1, <1>2, <2>5, <2>6
<1>10. CASE CopyFindWal \/ CopyShm \/ CopyFails \/ BackupFails \/ Kill
  <2>1. /\ UNCHANGED <<next, dstMain, dstWal, backup, attempts, began, restarted>>
        /\ stale' \in BOOLEAN
        /\ orphan' \in {orphan, NoFile} /\ (CopyFails \/ Kill => orphan' = NoFile)
    BY <1>10 DEF CopyFindWal, CopyShm, CopyFails, BackupFails, Kill, copy, history, DbTypeOK
  <2>2. \/ pc = "findWal" /\ pc' \in {"shm", "openWal"}
        \/ pc = "shm" /\ pc' = "copied"
        \/ pc \in Copying /\ pc' = "cleanup" /\ orphan' = NoFile
        \/ pc = "backup" /\ pc' = "ended"
        \/ pc' = "idle" /\ orphan' = NoFile
    BY <1>10 DEF CopyFindWal, CopyShm, CopyFails, BackupFails, Kill, Goto
  <2>3. pc' \in {"idle", "copied", "backup", "ended", "cleanup"} \cup Copying
    BY <2>2 DEF Copying
  <2>4. DbTypeOK'
    BY <1>1, <1>2, <1>3, <1>5, <2>1, <2>3 DEF DbTypeOK, SourceTypeOK
  <2>5. ControlInv'
    BY <1>1, <2>1, <2>2 DEF ControlInv, Copying
  <2> QED
    BY <1>1, <1>2, <2>4, <2>5
<1>11. CASE CopyOpenWal
  <2> DEFINE none == << >>
  <2>1. /\ pc = "openWal" /\ UNCHANGED <<orphan, dstMain, backup, attempts, began, restarted, stale>>
        /\ \/ wal = NoFile /\ pc' = "cleanup" /\ UNCHANGED <<next, dstWal>>
           \/ wal # NoFile /\ pc' = "wal" /\ next' = 1 /\ dstWal' = none
    <3>1. CASE wal = NoFile
      BY <1>11, <3>1 DEF CopyOpenWal, Goto, history
    <3>2. CASE wal # NoFile
      BY <1>11, <3>2 DEF CopyOpenWal, Goto, history
    <3> QED
      BY <3>1, <3>2
  <2>2. none \in Seq(FrameSet)
    OBVIOUS
  <2> HIDE DEF none
  <2>3. none # NoFile
    BY <2>2, NoFileAssumption
  <2>4. dstWal' \in Seq(FrameSet) \cup {NoFile}
    BY <2>1, <2>2 DEF DbTypeOK
  <2>5. DbTypeOK'
    BY <1>1, <1>2, <1>3, <1>5, <2>1, <2>4 DEF DbTypeOK, SourceTypeOK, Copying
  <2>6. ControlInv'
    BY <1>1, <2>1, <2>3 DEF ControlInv
  <2> QED
    BY <1>1, <1>2, <2>5, <2>6
<1>12. CASE CopyFrame
  <2> DEFINE file == IF orphan = NoFile THEN wal ELSE orphan
  <2>1. /\ pc = "wal" /\ UNCHANGED <<dstMain, backup, attempts, began, restarted, stale>>
        /\ \/ /\ next <= Len(file) /\ dstWal' = Append(dstWal, file[next])
              /\ next' = next + 1 /\ UNCHANGED <<pc, orphan>>
           \/ pc' = "shm" /\ orphan' = NoFile /\ UNCHANGED <<dstWal, next>>
    BY <1>12 DEF CopyFrame, history
  <2>2. file \in Seq(FrameSet) /\ dstWal \in Seq(FrameSet)
    BY <2>1 DEF ControlInv, DbTypeOK
  <2> HIDE DEF file
  <2>3. dstWal' \in Seq(FrameSet) /\ dstWal' # NoFile
    <3>1. next <= Len(file) => file[next] \in FrameSet
      BY <1>5, <2>2
    <3>2. dstWal' \in Seq(FrameSet)
      BY <2>1, <2>2, <3>1
    <3> QED
      BY <3>2, NoFileAssumption
  <2>4. next' \in Nat \ {0}
    BY <1>5, <2>1
  <2>5. DbTypeOK'
    BY <1>1, <1>2, <1>3, <2>1, <2>3, <2>4 DEF DbTypeOK, SourceTypeOK, Copying
  <2>6. ControlInv'
    BY <1>1, <2>1, <2>3, <2>4 DEF ControlInv
  <2> QED
    BY <1>1, <1>2, <2>5, <2>6
<1>13. CASE CopyCleanup
  <2>1. /\ pc = "cleanup" /\ pc' = "idle"
        /\ dstMain' \in {NoFile, dstMain} /\ dstWal' \in {NoFile, dstWal}
        /\ UNCHANGED <<orphan, next, backup, attempts, began, restarted, stale>>
    BY <1>13 DEF CopyCleanup, Goto, history
  <2>2. DbTypeOK'
    BY <1>1, <1>2, <1>3, <1>5, <2>1 DEF DbTypeOK, SourceTypeOK
  <2>3. ControlInv'
    BY <1>1, <2>1 DEF ControlInv
  <2> QED
    BY <1>1, <1>2, <2>2, <2>3
<1>14. CASE BackupBegin
  <2>1. /\ pc = "copied" /\ next' = 1
        /\ UNCHANGED <<orphan, dstMain, dstWal, attempts, began, restarted, stale>>
        /\ \/ pc' = "ended" /\ UNCHANGED backup
           \/ main # NoFile /\ pc' = "backup" /\ backup' = [p \in Pages |-> Missing]
    BY <1>14 DEF BackupBegin, Goto, history
  <2>2. 1 \in Pages /\ (pc' = "backup" => backup' \in Copies /\ backup' # NoFile)
    BY <1>5, <1>6, <2>1
  <2>3. DbTypeOK'
    BY <1>1, <1>2, <1>3, <1>5, <2>1, <2>2 DEF DbTypeOK, SourceTypeOK
  <2>4. ControlInv'
    BY <1>1, <2>1, <2>2 DEF ControlInv
  <2> QED
    BY <1>1, <1>2, <2>3, <2>4
<1>15. CASE BackupPage
  <2>1. /\ pc = "backup" /\ pc' = IF next = NumPages THEN "ended" ELSE "backup"
        /\ backup' = [backup EXCEPT ![next] = main[next]] /\ next' = next + 1
        /\ UNCHANGED <<orphan, dstMain, dstWal, attempts, began, restarted, stale>>
    BY <1>15 DEF BackupPage, Goto, history
  <2>2. next \in Pages /\ main # NoFile /\ backup \in Copies
    BY <2>1 DEF ControlInv, DbTypeOK
  <2>3. backup' \in Copies /\ backup' # NoFile
    BY <1>6, <1>7, <2>1, <2>2
  <2>4. next' \in Nat \ {0} /\ (pc' = "backup" => next' \in Pages)
    BY <1>5, <2>1, <2>2
  <2>5. DbTypeOK'
    BY <1>1, <1>2, <1>3, <1>5, <2>1, <2>3, <2>4 DEF DbTypeOK, SourceTypeOK
  <2>6. ControlInv'
    BY <1>1, <2>1, <2>2, <2>3, <2>4 DEF ControlInv
  <2> QED
    BY <1>1, <1>2, <2>5, <2>6
<1> QED
  BY <1>8, <1>9, <1>10, <1>11, <1>12, <1>13, <1>14, <1>15 DEF DeployCopies

\* What the deploy does keeps the copy as far as it has come; only frames
\* are read of a log that grows meanwhile.
LEMMA DeployCopy ==
  ASSUME DbInv, DeployCopies
  PROVE  CopyInv'
<1> USE DEF DbInv
<1>1. UNCHANGED <<main, wal, committed>> /\ UNCHANGED State
  BY DeployControl DEF State
<1>2. State \in Since /\ Len(committed) \in Nat /\ State = committed[Len(committed)]
  BY StateIsSince DEF DbTypeOK
<1>3. next \in Nat \ {0} /\ NumPages \in Nat \ {0} /\ Pages = 1 .. NumPages
  BY DatabaseAssumption DEF DbTypeOK, ControlInv, Pages
<1>4. CASE CopyBegin
  <2>1. /\ began' = Len(committed) /\ next' = 1
        /\ \/ main = NoFile /\ pc' = "copied" /\ UNCHANGED dstMain
           \/ main # NoFile /\ pc' = "main"
    BY <1>4 DEF CopyBegin
  <2>2. State \in Since'
    <3>1. Len(committed') \in began' .. Len(committed')
      BY <1>1, <1>2, <2>1
    <3> QED
      BY <1>1, <1>2, <3>1 DEF Since
  <2>3. CASE main = NoFile
    <3>1. dstMain' = NoFile /\ pc' = "copied"
      BY <2>1, <2>3 DEF ControlInv
    <3>2. Recover(dstMain', dstWal') = State
      BY <2>3, <3>1 DEF Recover, State
    <3> QED
      BY <2>2, <3>1, <3>2 DEF CopyInv
  <2>4. CASE main # NoFile
    <3>1. pc' = "main" /\ next' = 1
      BY <2>1, <2>4
    <3>2. PagesFollow'
      BY <3>1 DEF PagesFollow
    <3> QED
      BY <3>1, <3>2 DEF CopyInv
  <2> QED
    BY <2>3, <2>4
<1>5. CASE CopyPage
  <2>1. /\ pc = "main" /\ pc' = IF next = NumPages THEN "findWal" ELSE "main"
        /\ dstMain' = [dstMain EXCEPT ![next] = main[next]] /\ next' = next + 1
        /\ UNCHANGED restarted
    BY <1>5 DEF CopyPage, Goto, history
  <2>2. next \in Pages /\ dstMain \in [Pages -> Txs \cup {Missing}]
    BY <2>1 DEF ControlInv, DbTypeOK
  <2>3. ASSUME ~restarted
        PROVE  PagesFollow'
    <3>1. \A p \in 1 .. next - 1 : NoFrames(p) => dstMain[p] = main[p]
      BY <2>1, <2>3 DEF CopyInv, PagesFollow
    <3>2. \A p \in 1 .. next : p \in Pages /\ (p \in 1 .. next - 1 \/ p = next)
      BY <1>3, <2>2
    <3>3. \A p \in 1 .. next : NoFrames(p) => dstMain'[p] = main[p]
      BY <2>1, <2>2, <3>1, <3>2
    <3>4. \A p \in IF pc' = "main" THEN 1 .. next' - 1 ELSE Pages : p \in 1 .. next
      BY <1>3, <2>1, <2>2
    <3> QED
      BY <1>1, <3>3, <3>4 DEF PagesFollow, NoFrames
  <2> QED
    BY <2>1, <2>3 DEF CopyInv
<1>6. CASE CopyFindWal
  <2>1. /\ pc = "findWal" /\ pc' = IF wal = NoFile THEN "shm" ELSE "openWal"
        /\ stale' = (wal = NoFile /\ dstWal # NoFile)
        /\ UNCHANGED <<dstMain, dstWal, began, restarted>>
    BY <1>6 DEF CopyFindWal, Goto, copy
  <2>2. main # NoFile /\ dstMain # NoFile /\ (~restarted => PagesFollow)
    BY <2>1 DEF ControlInv, CopyInv
  <2>3. UNCHANGED Since
    BY <1>1, <2>1 DEF Since
  <2>4. CASE wal = NoFile
    <3>1. ~restarted /\ ~stale' => Recover(dstMain, dstWal) = State
      BY <2>1, <2>2, <2>4, CopyWithLog
    <3>2. pc' = "shm" /\ UNCHANGED <<dstMain, dstWal, restarted>>
      BY <2>1, <2>4
    <3> QED
      BY <1>2, <2>3, <3>1, <3>2 DEF CopyInv
  <2>5. CASE wal # NoFile
    <3>1. pc' = "openWal"
      BY <2>1, <2>5
    <3>2. ~restarted => PagesFollow'
      BY <1>1, <2>1, <2>2, <3>1 DEF PagesFollow, NoFrames
    <3> QED
      BY <2>1, <3>1, <3>2 DEF CopyInv
  <2> QED
    BY <2>4, <2>5
<1>7. CASE CopyOpenWal
  <2>1. CASE wal = NoFile
    <3>1. pc' = "cleanup"
      BY <1>7, <2>1 DEF CopyOpenWal, Goto
    <3> QED
      BY <3>1 DEF CopyInv
  <2>2. CASE wal # NoFile
    <3>1. /\ pc = "openWal" /\ pc' = "wal" /\ next' = 1 /\ dstWal' = << >>
          /\ UNCHANGED <<dstMain, restarted>>
      BY <1>7, <2>2 DEF CopyOpenWal, Goto, history
    <3>2. ~restarted => PagesFollow
      BY <3>1 DEF CopyInv
    <3>3. ~restarted => PagesFollow'
      BY <1>1, <3>1, <3>2 DEF PagesFollow, NoFrames
    <3>4. LogFollows'
      BY <3>1 DEF LogFollows
    <3> QED
      BY <3>1, <3>3, <3>4 DEF CopyInv
  <2> QED
    BY <2>1, <2>2
<1>8. CASE CopyFrame
  <2>1. pc = "wal" /\ UNCHANGED restarted
    BY <1>8 DEF CopyFrame, history
  <2>2. CASE restarted
    BY <2>1, <2>2 DEF CopyInv
  <2> QED
    BY <1>8, <2>1, <2>2, FrameStep
<1>9. CASE CopyShm \/ BackupBegin \/ BackupPage \/ BackupFails
  <2>1. UNCHANGED <<dstMain, dstWal, began, restarted, stale>>
    BY <1>9 DEF CopyShm, BackupBegin, BackupPage, BackupFails, copy, history
  <2>2. /\ pc \in {"shm", "copied", "backup", "ended"}
        /\ pc' \in {"shm", "copied", "backup", "ended"}
    BY <1>9 DEF CopyShm, BackupBegin, BackupPage, BackupFails, Goto
  <2>3. UNCHANGED Since
    BY <1>1, <2>1 DEF Since
  <2> QED
    BY <2>1, <2>2, <2>3 DEF CopyInv
<1>10. CASE CopyFails \/ CopyCleanup \/ Kill
  <2>1. pc' \in {"cleanup", "idle"}
    BY <1>10 DEF CopyFails, CopyCleanup, Kill, Goto
  <2> QED
    BY <2>1 DEF CopyInv
<1> QED
  BY <1>4, <1>5, <1>6, <1>7, <1>8, <1>9, <1>10 DEF DeployCopies

-----------------------------------------------------------------------------
(* The results                                                             *)

\* Before the first deploy.
LEMMA InitDb ==
  ASSUME DbInit
  PROVE  DbInv
<1>1. 0 \in Txs /\ 0 \in 0 .. MaxAttempts /\ NumPages \in Nat
  BY DatabaseAssumption DEF Txs
<1>2. /\ main \in [Pages -> Txs] \cup {NoFile}
      /\ wal = NoFile /\ orphan = NoFile /\ dstMain = NoFile /\ dstWal = NoFile
      /\ backup = NoFile /\ pc = "idle" /\ next = 1 /\ attempts = 0 /\ began = 0
      /\ restarted = FALSE /\ stale = FALSE
  BY <1>1 DEF DbInit
<1>3. State = main
  <2>1. CASE main = NoFile
    BY <2>1 DEF State, Recover
  <2>2. CASE main # NoFile
    <3>1. main \in [Pages -> Txs \cup {Missing}]
      BY <1>2, <2>2
    <3> QED
      BY <1>2, <3>1, StateWithoutLog DEF State
  <2> QED
    BY <2>1, <2>2
<1>4. /\ committed \in Seq([Pages -> Txs] \cup {NoFile}) /\ Len(committed) = 1
      /\ committed[Len(committed)] = main /\ committed # << >>
  <2> DEFINE S == [Pages -> Txs] \cup {NoFile}
  <2>1. main \in S /\ committed = <<main>>
    BY <1>2 DEF DbInit
  <2> HIDE DEF S
  <2>2. committed \in Seq(S)
    BY ONLY <2>1
  <2>3. Len(committed) = 1 /\ committed[Len(committed)] = main /\ committed # << >>
    BY ONLY <2>1
  <2>4. committed \in Seq([Pages -> Txs] \cup {NoFile})
    BY ONLY <2>2, Zenon DEF S
  <2> QED
    BY ONLY <2>3, <2>4
<1>5. DbTypeOK
  <2>1. began \in 0 .. Len(committed) /\ attempts \in 0 .. MaxAttempts
    BY <1>1, <1>2, <1>4
  <2>2. State = committed[Len(committed)] /\ committed \in Seq([Pages -> Txs] \cup {NoFile})
    BY <1>3, <1>4
  <2> QED
    BY ONLY <1>2, <2>1, <2>2 DEF DbTypeOK
<1>6. SourceInv
  BY <1>2, <1>3, <1>4 DEF SourceInv
<1>7. ControlInv
  BY <1>2 DEF ControlInv
<1>8. CopyInv
  BY <1>2 DEF CopyInv
<1> QED
  BY <1>5, <1>6, <1>7, <1>8 DEF DbInv

\* The files of the source and of the copy, and how far the copy has come,
\* fit together between any two steps of the service and of copyDatabase.
THEOREM DbInvHolds == DbSpec => []DbInv
<1>1. DbInit => DbInv
  BY InitDb
<1>2. DbInv /\ [DbNext]_dbvars => DbInv'
  <2> SUFFICES ASSUME DbInv, [DbNext]_dbvars
               PROVE  DbInv'
    OBVIOUS
  <2>1. CASE Service
    BY <2>1, ServiceStep
  <2>2. CASE DeployCopies
    BY <2>2, DeployControl, DeployCopy DEF DbInv
  <2>3. CASE UNCHANGED dbvars
    BY <2>3 DEF dbvars, source, copy, history, DbInv, DbTypeOK, SourceInv, ControlInv,
           CopyInv, State, Since, PagesFollow, NoFrames, LogFollows, LogEnded
  <2> QED
    BY <2>1, <2>2, <2>3 DEF DbNext
<1> QED
  BY <1>1, <1>2, PTL DEF DbSpec

\* What the database opens as is always its last committed state, and every
\* file has pages and frames of its transactions.
THEOREM DbTypesHold == DbSpec => []DbTypeOK
<1>1. DbInv => DbTypeOK
  BY DEF DbInv
<1> QED
  BY <1>1, DbInvHolds, PTL

\* Unless the log was started over or deleted while the copy was on its way,
\* or the target keeps a log the source no longer has, copyDatabase takes the
\* database as it was at one moment since the deploy began, for any number of
\* pages and of transactions the service commits meanwhile.  Both exceptions
\* can happen while the service commits, and the copy may then open as a
\* database that never was.
THEOREM CopyIsSnapshotHolds == DbSpec => []CopyIsSnapshot
<1>1. DbInv => CopyIsSnapshot
  BY DEF DbInv, CopyInv, CopyIsSnapshot, Copied
<1> QED
  BY <1>1, DbInvHolds, PTL
=============================================================================
