------------------------ MODULE TorrentXDatabase_proofs ------------------------
(***************************************************************************)
(* Proofs about the choice of files and TorrentX.json, for any torrents.   *)
(***************************************************************************)
EXTENDS TorrentXDatabase, Arithmetic, FiniteSetTheorems, SequenceTheorems

------------------------------------------------------------------------------
(* Orders of finite sets. *)

Under(S, R, x) == {y \in S : <<y, x>> \in R}

\* A relation that orders the elements of a set one after the other.
Orders(R, S) ==
  /\ \A x \in S : <<x, x>> \notin R
  /\ \A x, y, z \in S : <<x, y>> \in R /\ <<y, z>> \in R => <<x, z>> \in R
  /\ \A x, y \in S : x # y => <<x, y>> \in R \/ <<y, x>> \in R

\* The number of elements under an element gives its place in the order.
LEMMA Ranking ==
  ASSUME NEW S, IsFiniteSet(S), NEW R, Orders(R, S)
  PROVE  /\ \A x \in S : Cardinality(Under(S, R, x)) \in 0..Cardinality(S) - 1
         /\ \A x, y \in S : <<x, y>> \in R <=> Cardinality(Under(S, R, x)) < Cardinality(Under(S, R, y))
         /\ \A i \in 0..Cardinality(S) - 1 : \E x \in S : Cardinality(Under(S, R, x)) = i
  <1> DEFINE n == Cardinality(S)
             rank == [x \in S |-> Cardinality(Under(S, R, x))]
  <1>1. n \in Nat
    BY FS_CardinalityType
  <1>2. \A x \in S : IsFiniteSet(Under(S, R, x)) /\ rank[x] \in 0..n-1
    <2> TAKE x \in S
    <2>1. Under(S, R, x) \in SUBSET S /\ Under(S, R, x) # S
      BY DEF Under, Orders
    <2>2. IsFiniteSet(Under(S, R, x)) /\ rank[x] <= n /\ rank[x] # n
      BY <2>1, FS_Subset
    <2>3. rank[x] \in Nat
      BY <2>2, FS_CardinalityType
    <2> QED BY <1>1, <2>2, <2>3
  <1>3. ASSUME NEW x \in S, NEW y \in S, <<x, y>> \in R PROVE rank[x] < rank[y]
    <2>1. Under(S, R, x) \in SUBSET Under(S, R, y) /\ Under(S, R, x) # Under(S, R, y)
      BY <1>3 DEF Under, Orders
    <2>2. rank[x] <= rank[y] /\ rank[x] # rank[y]
      BY <1>2, <2>1, FS_Subset
    <2> QED BY <1>2, <2>2
  <1>4. \A x, y \in S : <<x, y>> \in R <=> rank[x] < rank[y]
    <2> TAKE x \in S, y \in S
    <2>1. rank[x] \in Int /\ rank[y] \in Int
      BY <1>2
    <2>2. CASE x = y
      BY <2>1, <2>2 DEF Orders
    <2>3. CASE <<y, x>> \in R
      <3>1. <<x, y>> \notin R
        BY <2>3 DEF Orders
      <3> QED BY <1>3, <2>1, <2>3, <3>1
    <2>4. CASE <<x, y>> \in R
      BY <1>3, <2>4
    <2> QED BY <2>2, <2>3, <2>4 DEF Orders
  <1>5. \A i \in 0..n-1 : \E x \in S : rank[x] = i
    <2>1. rank \in Injection(S, 0..n-1)
      <3>1. ASSUME NEW x \in S, NEW y \in S, x # y PROVE rank[x] # rank[y]
        <4>1. <<x, y>> \in R \/ <<y, x>> \in R
          BY <3>1 DEF Orders
        <4> QED BY <1>2, <1>3, <4>1
      <3>2. rank \in [S -> 0..n-1]
        BY <1>2
      <3> HIDE DEF rank
      <3> QED BY <3>1, <3>2 DEF Injection, IsInjective
    <2>2. IsFiniteSet(0..n-1) /\ Cardinality(0..n-1) = n
      BY <1>1, FS_Interval
    <2>3. rank \in Surjection(S, 0..n-1)
      BY <2>1, <2>2, FS_Injection
    <2> HIDE DEF rank
    <2> QED BY <2>3 DEF Surjection
  <1> QED BY <1>2, <1>4, <1>5

------------------------------------------------------------------------------
(* Paths. *)

Path == Seq(STRING)

LEMMA PrefixFacts ==
  ASSUME NEW v \in Path, NEW w \in Path
  PROVE  /\ IsPrefix(v, w) <=> Len(v) <= Len(w) /\ \A i \in 1..Len(v) : v[i] = w[i]
         /\ \A n \in 0..Len(v) : /\ SubSeq(v, 1, n) \in Path /\ Len(SubSeq(v, 1, n)) = n
                                 /\ \A i \in 1..n : SubSeq(v, 1, n)[i] = v[i]
                                 /\ IsPrefix(SubSeq(v, 1, n), v)
         /\ \A n \in 0..Len(v) : n <= Len(w) =>
              (SubSeq(v, 1, n) = SubSeq(w, 1, n) <=> \A i \in 1..n : v[i] = w[i])
  <1>1. \A u \in Path : \A n \in 0..Len(u) :
          /\ SubSeq(u, 1, n) \in Path /\ Len(SubSeq(u, 1, n)) = n
          /\ \A i \in 1..n : SubSeq(u, 1, n)[i] = u[i]
    BY DEF Path
  <1>2. \A n \in 0..Len(v) : n <= Len(w) =>
              (SubSeq(v, 1, n) = SubSeq(w, 1, n) <=> \A i \in 1..n : v[i] = w[i])
    <2> TAKE n \in 0..Len(v)
    <2> HAVE n <= Len(w)
    <2>1. n \in 0..Len(w) /\ n \in Nat
      BY DEF Path
    <2> DEFINE a == SubSeq(v, 1, n)
               b == SubSeq(w, 1, n)
    <2>2. /\ a \in Path /\ Len(a) = n /\ \A i \in 1..n : a[i] = v[i]
          /\ b \in Path /\ Len(b) = n /\ \A i \in 1..n : b[i] = w[i]
      BY <1>1, <2>1
    <2> HIDE DEF a, b
    <2>3. a = b <=> \A i \in 1..n : a[i] = b[i]
      BY <2>1, <2>2, SeqEqual DEF Path
    <2> QED BY <2>2, <2>3 DEF a, b
  <1>3. \A u \in Path : SubSeq(u, 1, Len(u)) = u /\ Len(u) \in 0..Len(u)
    BY DEF Path
  <1>4. IsPrefix(v, w) <=> Len(v) <= Len(w) /\ \A i \in 1..Len(v) : v[i] = w[i]
    BY <1>2, <1>3 DEF IsPrefix
  <1>5. ASSUME NEW n \in 0..Len(v) PROVE IsPrefix(SubSeq(v, 1, n), v)
    <2> DEFINE a == SubSeq(v, 1, n)
    <2>1. a \in Path /\ Len(a) = n /\ n <= Len(v) /\ \A i \in 1..n : a[i] = v[i]
      BY <1>1 DEF Path
    <2>2. SubSeq(a, 1, n) = a
      BY <1>3, <2>1
    <2> HIDE DEF a
    <2> QED BY <2>1, <2>2 DEF IsPrefix, a
  <1> QED BY <1>1, <1>2, <1>4, <1>5

LEMMA PrefixOrder ==
  /\ \A u \in Path : IsPrefix(u, u)
  /\ \A u, v, w \in Path : IsPrefix(u, v) /\ IsPrefix(v, w) => IsPrefix(u, w)
  /\ \A u, v, w \in Path : IsPrefix(u, w) /\ IsPrefix(v, w) => IsPrefix(u, v) \/ IsPrefix(v, u)
  /\ \A u, v, w \in Path : IsPrefix(u, w) /\ IsPrefix(v, w) /\ Len(u) <= Len(v) => IsPrefix(u, v)
  /\ \A u, v \in Path : IsPrefix(u, v) /\ IsPrefix(v, u) => u = v
  /\ \A u, v \in Path : IsPrefix(u, v) /\ Len(u) = Len(v) => u = v
  <1>1. \A u, v \in Path : IsPrefix(u, v) <=> Len(u) <= Len(v) /\ \A i \in 1..Len(u) : u[i] = v[i]
    BY PrefixFacts
  <1>2. \A u \in Path : Len(u) \in Nat
    BY DEF Path
  <1>3. \A u, v \in Path : Len(u) = Len(v) /\ (\A i \in 1..Len(u) : u[i] = v[i]) => u = v
    BY SeqEqual DEF Path
  <1> QED BY <1>1, <1>2, <1>3

\* A torrent's paths, and the vertices of its tree.
LEMMA VerticesArePaths ==
  ASSUME NEW fs \in Torrents
  PROVE  /\ fs \in Seq(Path) /\ Len(fs) \in Nat /\ fs # <<>> /\ DOMAIN fs = 1..Len(fs)
         /\ \A i \in DOMAIN fs : fs[i] \in Path /\ fs[i] # <<>> /\ Len(fs[i]) >= 1 /\ fs[i] \in Vertices(fs)
         /\ \A v \in Vertices(fs) : v \in Path /\ Len(v) \in Nat /\ Len(v) >= 1
         /\ \A v \in Path : v \in Vertices(fs) <=> Len(v) >= 1 /\ \E i \in DOMAIN fs : IsPrefix(v, fs[i])
         /\ \A v \in Vertices(fs) : \A n \in 1..Len(v) : SubSeq(v, 1, n) \in Vertices(fs)
         /\ IsFiniteSet(Vertices(fs))
  <1> USE FilesAssumption
  <1>1. fs \in Seq(Path) /\ Len(fs) \in Nat /\ DOMAIN fs = 1..Len(fs)
    <2>1. Seq(STRING) \ {<<>>} \subseteq Path
      BY DEF Path
    <2> QED BY <2>1, SeqMonotonic
  <1>2. \A i \in DOMAIN fs : fs[i] \in Path /\ fs[i] # <<>> /\ Len(fs[i]) \in Nat /\ Len(fs[i]) >= 1
    <2> TAKE i \in DOMAIN fs
    <2>1. fs[i] \in Path /\ fs[i] # <<>>
      BY DEF Path
    <2> QED BY <2>1, EmptySeq DEF Path
  <1>3. \A v : v \in Vertices(fs) <=> \E i \in DOMAIN fs : \E n \in 1..Len(fs[i]) : v = SubSeq(fs[i], 1, n)
    BY DEF Vertices, ToSet
  <1>4. \A v \in Vertices(fs) : v \in Path /\ Len(v) \in Nat /\ Len(v) >= 1 /\ \E i \in DOMAIN fs : IsPrefix(v, fs[i])
    <2> TAKE v \in Vertices(fs)
    <2>1. PICK i \in DOMAIN fs : \E n \in 1..Len(fs[i]) : v = SubSeq(fs[i], 1, n)
      BY <1>3
    <2>2. PICK n \in 1..Len(fs[i]) : v = SubSeq(fs[i], 1, n)
      BY <2>1
    <2>3. n \in 0..Len(fs[i]) /\ n \in Nat /\ n >= 1 /\ fs[i] \in Path
      BY <1>2, <2>2
    <2> QED BY <2>2, <2>3, PrefixFacts
  <1>5. \A v \in Path : Len(v) >= 1 /\ (\E i \in DOMAIN fs : IsPrefix(v, fs[i])) => v \in Vertices(fs)
    <2> SUFFICES ASSUME NEW v \in Path, Len(v) >= 1, NEW i \in DOMAIN fs, IsPrefix(v, fs[i])
                 PROVE  v \in Vertices(fs)
      OBVIOUS
    <2>1. Len(v) \in 1..Len(fs[i]) /\ SubSeq(v, 1, Len(v)) = SubSeq(fs[i], 1, Len(v)) /\ SubSeq(v, 1, Len(v)) = v
      BY <1>2 DEF IsPrefix, Path
    <2> QED BY <1>3, <2>1
  <1>6. \A i \in DOMAIN fs : fs[i] \in Vertices(fs)
    BY <1>2, <1>5, PrefixOrder
  <1>7. \A v \in Vertices(fs) : \A n \in 1..Len(v) : SubSeq(v, 1, n) \in Vertices(fs)
    <2> SUFFICES ASSUME NEW v \in Vertices(fs), NEW n \in 1..Len(v) PROVE SubSeq(v, 1, n) \in Vertices(fs)
      OBVIOUS
    <2>1. v \in Path /\ n \in 0..Len(v) /\ n >= 1
      BY <1>4
    <2>2. SubSeq(v, 1, n) \in Path /\ Len(SubSeq(v, 1, n)) = n /\ IsPrefix(SubSeq(v, 1, n), v)
      BY <2>1, PrefixFacts
    <2>3. \E i \in DOMAIN fs : IsPrefix(SubSeq(v, 1, n), fs[i])
      BY <1>2, <1>4, <2>1, <2>2, PrefixOrder
    <2> QED BY <1>5, <2>1, <2>2, <2>3
  <1>8. IsFiniteSet(Vertices(fs))
    <2> DEFINE Parts(f) == {SubSeq(f, 1, n) : n \in 1..Len(f)}
               W == {Parts(f) : f \in ToSet(fs)}
    <2>1. \A f \in ToSet(fs) : IsFiniteSet(Parts(f))
      <3> TAKE f \in ToSet(fs)
      <3> DEFINE g == [n \in 1..Len(f) |-> SubSeq(f, 1, n)]
      <3>1. g \in Surjection(1..Len(f), Parts(f))
        BY DEF Surjection
      <3>2. IsFiniteSet(1..Len(f))
        BY <1>2, FS_Interval DEF ToSet
      <3> HIDE DEF g, Parts
      <3> QED BY <3>1, <3>2, FS_Surjection
    <2>2. IsFiniteSet(W)
      <3> DEFINE g == [i \in DOMAIN fs |-> Parts(fs[i])]
      <3>1. g \in Surjection(DOMAIN fs, W)
        <4> HIDE DEF Parts
        <4> QED BY DEF Surjection, ToSet
      <3>2. IsFiniteSet(DOMAIN fs)
        BY <1>1, FS_Interval
      <3> HIDE DEF g, W
      <3> QED BY <3>1, <3>2, FS_Surjection
    <2>3. \A X \in W : IsFiniteSet(X)
      BY <2>1
    <2>4. IsFiniteSet(UNION W)
      <3> HIDE DEF W
      <3> QED BY <2>2, <2>3, FS_UNION
    <2> QED BY <2>4 DEF Vertices
  <1> QED BY <1>1, <1>2, <1>4, <1>5, <1>6, <1>7, <1>8

------------------------------------------------------------------------------
(* Depth-first order. *)

LEMMA FirstFiles ==
  ASSUME NEW fs \in Torrents
  PROVE  /\ \A v \in Vertices(fs) :
              /\ FirstFile(fs, v) \in DOMAIN fs /\ FirstFile(fs, v) \in Nat
              /\ IsPrefix(v, fs[FirstFile(fs, v)])
              /\ \A i \in DOMAIN fs : IsPrefix(v, fs[i]) => FirstFile(fs, v) <= i
         /\ \A v, w \in Vertices(fs) :
              Len(v) = Len(w) /\ v # w => FirstFile(fs, v) # FirstFile(fs, w)
  <1>1. ASSUME NEW v \in Vertices(fs)
        PROVE  /\ FirstFile(fs, v) \in DOMAIN fs /\ FirstFile(fs, v) \in Nat
               /\ IsPrefix(v, fs[FirstFile(fs, v)])
               /\ \A i \in DOMAIN fs : IsPrefix(v, fs[i]) => FirstFile(fs, v) <= i
    <2> DEFINE F == {i \in DOMAIN fs : IsPrefix(v, fs[i])}
    <2>1. F \in SUBSET Nat
      <3>1. DOMAIN fs = 1..Len(fs) /\ Len(fs) \in Nat
        BY VerticesArePaths
      <3> QED BY <3>1
    <2>2. F # {}
      BY VerticesArePaths
    <2>3. PICK n \in F : \A m \in F : n <= m
      <3> HIDE DEF F
      <3> QED BY <2>1, <2>2, LeastElement
    <2>4. FirstFile(fs, v) \in F /\ \A m \in F : FirstFile(fs, v) <= m
      <3>1. FirstFile(fs, v) = CHOOSE x \in F : \A y \in F : x <= y
        BY DEF FirstFile, Min
      <3> HIDE DEF F
      <3> QED BY <2>3, <3>1
    <2> QED BY <2>1, <2>4
  <1>2. ASSUME NEW v \in Vertices(fs), NEW w \in Vertices(fs), Len(v) = Len(w),
               FirstFile(fs, v) = FirstFile(fs, w)
        PROVE  v = w
    <2>1. \A i \in DOMAIN fs : fs[i] \in Path
      BY VerticesArePaths
    <2>2. v \in Path /\ w \in Path /\ Len(v) <= Len(w)
      BY <1>2, VerticesArePaths
    <2>3. IsPrefix(v, w)
      BY <1>1, <1>2, <2>1, <2>2, PrefixOrder
    <2> QED BY <1>2, <2>2, <2>3, PrefixOrder
  <1> QED BY <1>1, <1>2

\* The child to which the way to v leads at its n-th part, by its number.
Turn(fs, v, n) == FirstFile(fs, SubSeq(v, 1, n))

\* The paths of v and w part at their n-th part, where dfs turns to v first.
Parts(fs, v, w, n) ==
  /\ n \in 1..Len(v) /\ n \in 1..Len(w)
  /\ \A i \in 1..n-1 : v[i] = w[i]
  /\ Turn(fs, v, n) < Turn(fs, w, n)

LEMMA BeforeByParts ==
  ASSUME NEW fs \in Torrents, NEW v \in Vertices(fs), NEW w \in Vertices(fs)
  PROVE  Before(fs, v, w) <=> IsStrictPrefix(v, w) \/ \E n \in Nat : Parts(fs, v, w, n)
  <1>1. /\ v \in Path /\ w \in Path /\ Len(v) \in Nat /\ Len(w) \in Nat
        /\ DOMAIN v = 1..Len(v) /\ DOMAIN w = 1..Len(w)
    BY VerticesArePaths DEF Path
  <1>2. \A n \in 1..Len(v) : n <= Len(w) =>
          (SubSeq(v, 1, n - 1) = SubSeq(w, 1, n - 1) <=> \A i \in 1..n-1 : v[i] = w[i])
    <2> TAKE n \in 1..Len(v)
    <2> HAVE n <= Len(w)
    <2>1. n - 1 \in 0..Len(v) /\ n - 1 <= Len(w)
      BY <1>1
    <2> QED BY <1>1, <2>1, PrefixFacts
  <1>3. \A n : n \in DOMAIN v \cap DOMAIN w => n \in 1..Len(v) /\ n <= Len(w) /\ n \in Nat
    BY <1>1
  <1>4. \A n \in Nat : n \in 1..Len(v) /\ n \in 1..Len(w) => n \in DOMAIN v \cap DOMAIN w /\ n <= Len(w)
    BY <1>1
  <1>5. Before(fs, v, w) <=> IsStrictPrefix(v, w) \/ \E n \in DOMAIN v \cap DOMAIN w : Parts(fs, v, w, n)
    <2>1. \A n \in DOMAIN v \cap DOMAIN w :
            Parts(fs, v, w, n) <=> /\ SubSeq(v, 1, n - 1) = SubSeq(w, 1, n - 1)
                                   /\ FirstFile(fs, SubSeq(v, 1, n)) < FirstFile(fs, SubSeq(w, 1, n))
      BY <1>1, <1>2, <1>3 DEF Parts, Turn
    <2> QED BY <2>1 DEF Before
  <1>6. (\E n \in DOMAIN v \cap DOMAIN w : Parts(fs, v, w, n)) <=> \E n \in Nat : Parts(fs, v, w, n)
    BY <1>3, <1>4 DEF Parts
  <1> QED BY <1>5, <1>6

LEMMA BeforeIsTotal ==
  ASSUME NEW fs \in Torrents, NEW v \in Vertices(fs), NEW w \in Vertices(fs), v # w
  PROVE  Before(fs, v, w) \/ Before(fs, w, v)
  <1>1. v \in Path /\ w \in Path /\ Len(v) \in Nat /\ Len(w) \in Nat
    BY VerticesArePaths
  <1>2. SUFFICES ASSUME ~IsPrefix(v, w), ~IsPrefix(w, v)
                 PROVE  Before(fs, v, w) \/ Before(fs, w, v)
    BY BeforeByParts DEF IsStrictPrefix
  <1> DEFINE D == {n \in Nat : n \in 1..Len(v) /\ n \in 1..Len(w) /\ v[n] # w[n]}
  <1>3. D # {}
    <2>1. CASE Len(v) <= Len(w)
      <3>1. PICK n \in 1..Len(v) : v[n] # w[n]
        BY <1>1, <1>2, <2>1, PrefixFacts
      <3> QED BY <1>1, <2>1, <3>1
    <2>2. CASE Len(w) <= Len(v)
      <3>1. PICK n \in 1..Len(w) : w[n] # v[n]
        BY <1>1, <1>2, <2>2, PrefixFacts
      <3> QED BY <1>1, <2>2, <3>1
    <2> QED BY <1>1, <2>1, <2>2
  <1>4. PICK n \in D : \A m \in D : n <= m
    <2>1. D \in SUBSET Nat
      OBVIOUS
    <2> HIDE DEF D
    <2> QED BY <1>3, <2>1, LeastElement
  <1>5. n \in Nat /\ n \in 1..Len(v) /\ n \in 1..Len(w) /\ v[n] # w[n] /\ \A i \in 1..n-1 : v[i] = w[i]
    <2>1. n \in Nat /\ n \in 1..Len(v) /\ n \in 1..Len(w) /\ v[n] # w[n]
      OBVIOUS
    <2>2. ASSUME NEW i \in 1..n-1 PROVE v[i] = w[i]
      <3>1. i \in Nat /\ i \in 1..Len(v) /\ i \in 1..Len(w) /\ ~(n <= i)
        BY <1>1, <2>1
      <3> QED BY <1>4, <3>1
    <2> QED BY <2>1, <2>2
  <1> DEFINE a == SubSeq(v, 1, n)
             b == SubSeq(w, 1, n)
  <1>6. a \in Vertices(fs) /\ b \in Vertices(fs) /\ Len(a) = Len(b) /\ a # b
    <2>1. a \in Vertices(fs) /\ b \in Vertices(fs)
      BY <1>5, VerticesArePaths
    <2>2. n \in 0..Len(v) /\ n \in 0..Len(w) /\ n <= Len(w) /\ n \in 1..n
      BY <1>1, <1>5
    <2>3. Len(a) = n /\ Len(b) = n
      BY <1>1, <2>2, PrefixFacts
    <2>4. a # b
      BY <1>1, <1>5, <2>2, PrefixFacts
    <2> QED BY <2>1, <2>3, <2>4
  <1>7. FirstFile(fs, a) < FirstFile(fs, b) \/ FirstFile(fs, b) < FirstFile(fs, a)
    <2> HIDE DEF a, b
    <2>1. FirstFile(fs, a) \in Nat /\ FirstFile(fs, b) \in Nat /\ FirstFile(fs, a) # FirstFile(fs, b)
      BY <1>6, FirstFiles
    <2> QED BY <2>1
  <1>8. Parts(fs, v, w, n) \/ Parts(fs, w, v, n)
    BY <1>5, <1>7 DEF Parts, Turn
  <1> QED BY <1>5, <1>8, BeforeByParts

LEMMA BeforeIsTransitive ==
  ASSUME NEW fs \in Torrents, NEW u \in Vertices(fs), NEW v \in Vertices(fs), NEW w \in Vertices(fs),
         Before(fs, u, v), Before(fs, v, w)
  PROVE  Before(fs, u, w)
  <1>1. /\ u \in Path /\ v \in Path /\ w \in Path
        /\ Len(u) \in Nat /\ Len(v) \in Nat /\ Len(w) \in Nat
    BY VerticesArePaths
  <1>2. \A x, y \in {u, v, w} : \A n \in 1..Len(x) :
          n <= Len(y) /\ (\A i \in 1..n : x[i] = y[i]) => Turn(fs, x, n) = Turn(fs, y, n)
    <2> TAKE x \in {u, v, w}, y \in {u, v, w}
    <2> TAKE n \in 1..Len(x)
    <2>1. n \in 0..Len(x) /\ x \in Path /\ y \in Path
      BY <1>1
    <2> QED BY <2>1, PrefixFacts DEF Turn
  <1>3. \A x, y \in {u, v, w} :
          IsStrictPrefix(x, y) <=> IsPrefix(x, y) /\ x # y
    BY DEF IsStrictPrefix
  <1>4. \A x, y \in {u, v, w} : IsPrefix(x, y) <=> Len(x) <= Len(y) /\ \A i \in 1..Len(x) : x[i] = y[i]
    <2> TAKE x \in {u, v, w}, y \in {u, v, w}
    <2>1. x \in Path /\ y \in Path
      BY <1>1
    <2> QED BY <2>1, PrefixFacts
  <1>5. CASE IsStrictPrefix(u, v) /\ IsStrictPrefix(v, w)
    <2>1. IsPrefix(u, w) /\ u # w
      BY <1>1, <1>3, <1>5, PrefixOrder
    <2> QED BY <1>3, <2>1, BeforeByParts
  <1>6. CASE IsStrictPrefix(u, v) /\ \E n \in Nat : Parts(fs, v, w, n)
    <2>1. PICK n \in Nat : Parts(fs, v, w, n)
      BY <1>6
    <2>2. Len(u) <= Len(v) /\ \A i \in 1..Len(u) : u[i] = v[i]
      BY <1>3, <1>4, <1>6
    <2>3. CASE n <= Len(u)
      <3>1. n \in 1..Len(u) /\ n <= Len(v) /\ \A i \in 1..n : u[i] = v[i]
        BY <1>1, <2>1, <2>2, <2>3 DEF Parts
      <3>2. Turn(fs, u, n) = Turn(fs, v, n)
        BY <1>2, <3>1
      <3>3. Parts(fs, u, w, n)
        BY <1>1, <2>1, <3>1, <3>2 DEF Parts
      <3> QED BY <3>3, BeforeByParts
    <2>4. CASE n > Len(u)
      <3>1. Len(u) < Len(w) /\ \A i \in 1..Len(u) : u[i] = w[i]
        BY <1>1, <2>1, <2>2, <2>4 DEF Parts
      <3>2. IsPrefix(u, w) /\ u # w
        BY <1>1, <1>4, <3>1
      <3> QED BY <1>3, <3>2, BeforeByParts
    <2> QED BY <1>1, <2>3, <2>4
  <1>7. CASE (\E n \in Nat : Parts(fs, u, v, n)) /\ IsStrictPrefix(v, w)
    <2>1. PICK n \in Nat : Parts(fs, u, v, n)
      BY <1>7
    <2>2. Len(v) <= Len(w) /\ \A i \in 1..Len(v) : v[i] = w[i]
      BY <1>3, <1>4, <1>7
    <2>3. n \in 1..Len(v) /\ n <= Len(w) /\ n \in 1..Len(w) /\ \A i \in 1..n : v[i] = w[i]
      BY <1>1, <2>1, <2>2 DEF Parts
    <2>4. Turn(fs, v, n) = Turn(fs, w, n)
      BY <1>2, <2>3
    <2>5. Parts(fs, u, w, n)
      BY <1>1, <2>1, <2>3, <2>4 DEF Parts
    <2> QED BY <2>5, BeforeByParts
  <1>8. CASE (\E n \in Nat : Parts(fs, u, v, n)) /\ (\E n \in Nat : Parts(fs, v, w, n))
    <2>1. PICK n \in Nat : Parts(fs, u, v, n)
      BY <1>8
    <2>2. PICK m \in Nat : Parts(fs, v, w, m)
      BY <1>8
    <2>3. CASE n < m
      <3>1. n \in 1..Len(v) /\ n <= Len(w) /\ n \in 1..Len(w) /\ \A i \in 1..n : v[i] = w[i]
        BY <1>1, <2>1, <2>2, <2>3 DEF Parts
      <3>2. Turn(fs, v, n) = Turn(fs, w, n)
        BY <1>2, <3>1
      <3>3. Parts(fs, u, w, n)
        BY <1>1, <2>1, <3>1, <3>2 DEF Parts
      <3> QED BY <3>3, BeforeByParts
    <2>4. CASE m < n
      <3>1. m \in 1..Len(u) /\ m <= Len(v) /\ \A i \in 1..m : u[i] = v[i]
        BY <1>1, <2>1, <2>2, <2>4 DEF Parts
      <3>2. Turn(fs, u, m) = Turn(fs, v, m)
        BY <1>2, <3>1
      <3>3. Parts(fs, u, w, m)
        BY <1>1, <2>2, <3>1, <3>2 DEF Parts
      <3> QED BY <3>3, BeforeByParts
    <2>5. CASE m = n
      <3>1. /\ SubSeq(u, 1, n) \in Vertices(fs) /\ SubSeq(v, 1, n) \in Vertices(fs)
            /\ SubSeq(w, 1, n) \in Vertices(fs)
        BY <2>1, <2>2, <2>5, VerticesArePaths DEF Parts
      <3>2. Turn(fs, u, n) \in Nat /\ Turn(fs, v, n) \in Nat /\ Turn(fs, w, n) \in Nat
        BY <3>1, FirstFiles DEF Turn
      <3>3. Parts(fs, u, w, n)
        BY <1>1, <2>1, <2>2, <2>5, <3>2 DEF Parts
      <3> QED BY <3>3, BeforeByParts
    <2> QED BY <2>3, <2>4, <2>5
  <1> QED BY <1>5, <1>6, <1>7, <1>8, BeforeByParts

LEMMA BeforeIsIrreflexive ==
  ASSUME NEW fs \in Torrents, NEW v \in Vertices(fs)
  PROVE  ~Before(fs, v, v)
  <1>1. ~IsStrictPrefix(v, v)
    BY DEF IsStrictPrefix
  <1>2. ASSUME NEW n \in Nat, Parts(fs, v, v, n) PROVE FALSE
    <2>1. SubSeq(v, 1, n) \in Vertices(fs)
      BY <1>2, VerticesArePaths DEF Parts
    <2>2. Turn(fs, v, n) \in Nat
      BY <2>1, FirstFiles DEF Turn
    <2> QED BY <1>2, <2>2 DEF Parts
  <1> QED BY <1>1, <1>2, BeforeByParts

------------------------------------------------------------------------------
(* The nodes of a torrent. *)

LEMMA DfsIsInOrder ==
  ASSUME NEW fs \in Torrents
  PROVE  /\ dfs(fs) \in Seq(FileNode) /\ Len(dfs(fs)) = Cardinality(Vertices(fs))
         /\ \A i \in 1..Len(dfs(fs)) :
              dfs(fs)[i].name_ \in Vertices(fs) /\ dfs(fs)[i] = NewNode(fs, dfs(fs)[i].name_)
         /\ \A i, j \in 1..Len(dfs(fs)) : i < j <=> Before(fs, dfs(fs)[i].name_, dfs(fs)[j].name_)
         /\ \A v \in Vertices(fs) : \E i \in 1..Len(dfs(fs)) : dfs(fs)[i].name_ = v
  <1> DEFINE V == Vertices(fs)
             n == Cardinality(V)
             R == {p \in V \X V : Before(fs, p[1], p[2])}
             Earlier(v) == {w \in V : Before(fs, w, v)}
             at(i) == CHOOSE v \in V : Cardinality(Earlier(v)) = i - 1
  <1>1. n \in Nat /\ IsFiniteSet(V)
    BY VerticesArePaths, FS_CardinalityType
  <1>2. \A v, w \in V : <<v, w>> \in R <=> Before(fs, v, w)
    OBVIOUS
  <1>3. \A v \in V : Earlier(v) = Under(V, R, v)
    BY DEF Under
  <1>4. Orders(R, V)
    <2> HIDE DEF V, R
    <2>1. \A v \in V : <<v, v>> \notin R
      BY <1>2, BeforeIsIrreflexive DEF V
    <2>2. \A u, v, w \in V : <<u, v>> \in R /\ <<v, w>> \in R => <<u, w>> \in R
      BY <1>2, BeforeIsTransitive DEF V
    <2>3. \A v, w \in V : v # w => <<v, w>> \in R \/ <<w, v>> \in R
      BY <1>2, BeforeIsTotal DEF V
    <2> QED BY <2>1, <2>2, <2>3 DEF Orders
  <1>5. /\ \A v \in V : Cardinality(Earlier(v)) \in 0..n - 1
        /\ \A v, w \in V : Before(fs, v, w) <=> Cardinality(Earlier(v)) < Cardinality(Earlier(w))
        /\ \A i \in 0..n - 1 : \E v \in V : Cardinality(Earlier(v)) = i
    <2> HIDE DEF V, R, Earlier
    <2>1. /\ \A v \in V : Cardinality(Under(V, R, v)) \in 0..n - 1
          /\ \A v, w \in V : <<v, w>> \in R <=> Cardinality(Under(V, R, v)) < Cardinality(Under(V, R, w))
          /\ \A i \in 0..n - 1 : \E v \in V : Cardinality(Under(V, R, v)) = i
      BY <1>1, <1>4, Ranking
    <2> QED BY <1>2, <1>3, <2>1
  <1>6. \A i \in 1..n : at(i) \in V /\ Cardinality(Earlier(at(i))) = i - 1
    <2> TAKE i \in 1..n
    <2> HIDE DEF V, Earlier
    <2>1. i - 1 \in 0..n - 1
      BY <1>1
    <2>2. \E v \in V : Cardinality(Earlier(v)) = i - 1
      BY <1>5, <2>1
    <2> QED BY <2>2
  <1>7. dfs(fs) = [i \in 1..n |-> NewNode(fs, at(i))]
    BY DEF dfs
  <1>8. \A v \in V : NewNode(fs, v) \in FileNode /\ NewNode(fs, v).name_ = v
    BY VerticesArePaths DEF NewNode, FileNode, Path
  <1> HIDE DEF V, Earlier, at
  <1>9. \A i \in 1..n : dfs(fs)[i] = NewNode(fs, at(i)) /\ dfs(fs)[i].name_ = at(i) /\ dfs(fs)[i] \in FileNode
    BY <1>6, <1>7, <1>8
  <1>10. dfs(fs) \in Seq(FileNode) /\ Len(dfs(fs)) = n
    <2>1. dfs(fs) \in [1..n -> FileNode]
      BY <1>7, <1>9
    <2> HIDE DEF n
    <2> QED BY <1>1, <2>1
  <1>11. \A i, j \in 1..n : i < j <=> Before(fs, at(i), at(j))
    <2> TAKE i \in 1..n, j \in 1..n
    <2>1. Before(fs, at(i), at(j)) <=> i - 1 < j - 1
      BY <1>5, <1>6
    <2> QED BY <1>1, <2>1
  <1>12. \A v \in V : \E i \in 1..n : at(i) = v
    <2> TAKE v \in V
    <2> DEFINE i == Cardinality(Earlier(v)) + 1
    <2>1. i \in 1..n /\ i - 1 = Cardinality(Earlier(v))
      BY <1>1, <1>5
    <2>2. at(i) \in V /\ Cardinality(Earlier(at(i))) = Cardinality(Earlier(v))
      BY <1>6, <2>1
    <2>3. ~Before(fs, at(i), v) /\ ~Before(fs, v, at(i))
      BY <1>5, <2>2
    <2>4. at(i) = v
      BY <2>2, <2>3, BeforeIsTotal DEF V
    <2> QED BY <2>1, <2>4
  <1> QED BY <1>6, <1>9, <1>10, <1>11, <1>12 DEF V

\* The holders of a torrent: its nodes, with any marks.
Nodes(fs) ==
  {h \in Seq(FileNode) :
     /\ Len(h) = Len(dfs(fs))
     /\ \A i \in 1..Len(h) : /\ h[i].name_ = dfs(fs)[i].name_ /\ h[i].level_ = dfs(fs)[i].level_
                             /\ h[i].is_leaf_ = dfs(fs)[i].is_leaf_}

LEMMA NodesAreInOrder ==
  ASSUME NEW fs \in Torrents, NEW h \in Nodes(fs)
  PROVE  /\ Len(h) \in Nat /\ DOMAIN h = 1..Len(h) /\ Len(h) = Cardinality(Vertices(fs))
         /\ \A i \in DOMAIN h :
              /\ h[i] \in FileNode /\ h[i].name_ \in Vertices(fs) /\ h[i].level_ = Len(h[i].name_)
              /\ h[i].is_leaf_ <=> Children(fs, h[i].name_) = {}
         /\ \A i, j \in DOMAIN h : i < j <=> Before(fs, h[i].name_, h[j].name_)
         /\ \A v \in Vertices(fs) : \E i \in DOMAIN h : h[i].name_ = v
         /\ \A i, j \in DOMAIN h : h[i].name_ = h[j].name_ => i = j
  <1>1. h \in Seq(FileNode) /\ Len(h) \in Nat /\ DOMAIN h = 1..Len(h) /\ Len(h) = Cardinality(Vertices(fs))
    BY DfsIsInOrder DEF Nodes
  <1>2. \A i \in 1..Len(h) : /\ h[i].name_ = dfs(fs)[i].name_ /\ h[i].level_ = dfs(fs)[i].level_
                             /\ h[i].is_leaf_ = dfs(fs)[i].is_leaf_ /\ i \in 1..Len(dfs(fs))
    BY DEF Nodes
  <1>3. \A i \in 1..Len(h) : /\ h[i].name_ \in Vertices(fs) /\ h[i].level_ = Len(h[i].name_)
                             /\ h[i].is_leaf_ <=> Children(fs, h[i].name_) = {}
    <2> TAKE i \in 1..Len(h)
    <2> DEFINE d == dfs(fs)[i]
    <2>1. d.name_ \in Vertices(fs) /\ d = NewNode(fs, d.name_)
      BY <1>2, DfsIsInOrder
    <2>2. \A v : /\ NewNode(fs, v).level_ = Len(v)
                 /\ NewNode(fs, v).is_leaf_ <=> Children(fs, v) = {}
      BY DEF NewNode
    <2> HIDE DEF d
    <2>3. d.level_ = Len(d.name_) /\ (d.is_leaf_ <=> Children(fs, d.name_) = {})
      BY <2>1, <2>2
    <2> QED BY <1>2, <2>1, <2>3 DEF d
  <1>4. \A i, j \in 1..Len(h) : i < j <=> Before(fs, h[i].name_, h[j].name_)
    BY <1>2, DfsIsInOrder
  <1>5. \A v \in Vertices(fs) : \E i \in 1..Len(h) : h[i].name_ = v
    BY <1>1, <1>2, DfsIsInOrder
  <1>6. \A i, j \in 1..Len(h) : h[i].name_ = h[j].name_ => i = j
    <2> TAKE i \in 1..Len(h), j \in 1..Len(h)
    <2> HAVE h[i].name_ = h[j].name_
    <2>1. ~(i < j) /\ ~(j < i)
      BY <1>3, <1>4, BeforeIsIrreflexive
    <2> QED BY <1>1, <2>1
  <1>7. \A i \in 1..Len(h) : h[i] \in FileNode
    BY <1>1, ElementOfSeq
  <1> QED BY <1>1, <1>3, <1>4, <1>5, <1>6, <1>7

\* What dfs visits between a vertex and one below it is below it, too.
LEMMA BelowIsConvex ==
  ASSUME NEW fs \in Torrents, NEW u \in Vertices(fs), NEW v \in Vertices(fs), NEW w \in Vertices(fs),
         IsPrefix(u, w), Before(fs, u, v), Before(fs, v, w)
  PROVE  IsStrictPrefix(u, v)
  <1>1. /\ u \in Path /\ v \in Path /\ w \in Path
        /\ Len(u) \in Nat /\ Len(v) \in Nat /\ Len(w) \in Nat
    BY VerticesArePaths
  <1>2. ASSUME NEW n \in Nat, Parts(fs, u, v, n) PROVE FALSE
    <2>1. Len(u) <= Len(w) /\ \A i \in 1..Len(u) : u[i] = w[i]
      BY <1>1, PrefixFacts
    <2>2. n \in 0..Len(u) /\ n <= Len(w) /\ n \in 1..Len(w) /\ \A i \in 1..n : u[i] = w[i]
      BY <1>1, <1>2, <2>1 DEF Parts
    <2>3. Turn(fs, u, n) = Turn(fs, w, n)
      BY <1>1, <2>2, PrefixFacts DEF Turn
    <2>4. Parts(fs, w, v, n)
      BY <1>1, <1>2, <2>2, <2>3 DEF Parts
    <2>5. Before(fs, w, v)
      BY <2>4, BeforeByParts
    <2> QED BY <2>5, BeforeIsTransitive, BeforeIsIrreflexive
  <1> QED BY <1>2, BeforeByParts

\* The nodes that follow on deeper levels are those below the vertex.
LEMMA SubtreeIsBelow ==
  ASSUME NEW fs \in Torrents, NEW h \in Nodes(fs), NEW i \in DOMAIN h, NEW j \in DOMAIN h
  PROVE  j \in Subtree(h, i) <=> IsStrictPrefix(h[i].name_, h[j].name_)
  <1> DEFINE v == h[i].name_
             w == h[j].name_
  <1>1. /\ v \in Vertices(fs) /\ v \in Path /\ Len(v) \in Nat
        /\ w \in Vertices(fs) /\ w \in Path /\ Len(w) \in Nat
    BY NodesAreInOrder, VerticesArePaths
  <1>2. Len(h) \in Nat /\ DOMAIN h = 1..Len(h)
    BY NodesAreInOrder
  <1>3. ASSUME IsStrictPrefix(v, w) PROVE j \in Subtree(h, i)
    <2>1. Before(fs, v, w) /\ i < j
      BY <1>1, <1>3, NodesAreInOrder DEF Before
    <2>2. \A u \in Vertices(fs) : IsStrictPrefix(v, u) => Len(u) > Len(v)
      <3> TAKE u \in Vertices(fs)
      <3>1. u \in Path /\ Len(u) \in Nat
        BY VerticesArePaths
      <3> QED BY <1>1, <3>1, PrefixFacts, PrefixOrder DEF IsStrictPrefix
    <2>3. ASSUME NEW k \in i+1..j PROVE h[k].level_ > h[i].level_
      <3>1. k \in DOMAIN h /\ i < k /\ (k < j \/ k = j)
        BY <1>2, <2>1
      <3>2. h[k].name_ \in Vertices(fs) /\ h[k].level_ = Len(h[k].name_) /\ h[i].level_ = Len(v)
        BY <3>1, NodesAreInOrder
      <3>3. CASE k = j
        BY <1>3, <2>2, <3>2, <3>3
      <3>4. CASE k < j
        <4>1. Before(fs, v, h[k].name_) /\ Before(fs, h[k].name_, w)
          BY <3>1, <3>4, NodesAreInOrder
        <4>2. IsStrictPrefix(v, h[k].name_)
          BY <1>1, <1>3, <3>2, <4>1, BelowIsConvex DEF IsStrictPrefix
        <4> QED BY <2>2, <3>2, <4>2
      <3> QED BY <3>1, <3>3, <3>4
    <2> QED BY <1>2, <2>1, <2>3 DEF Subtree
  <1>4. ASSUME j \in Subtree(h, i) PROVE IsStrictPrefix(v, w)
    <2>1. i < j /\ \A k \in i+1..j : h[k].level_ > h[i].level_
      BY <1>2, <1>4 DEF Subtree
    <2>2. Before(fs, v, w)
      BY <2>1, NodesAreInOrder
    <2>3. ASSUME NEW n \in Nat, Parts(fs, v, w, n) PROVE FALSE
      <3> DEFINE u == SubSeq(w, 1, n)
      <3>1. n \in 1..Len(w) /\ n \in 0..Len(w) /\ n \in 1..Len(v) /\ n <= Len(w) /\ n - 1 \in Nat /\ n \in 0..n
        BY <1>1, <2>3 DEF Parts
      <3>2. u \in Vertices(fs)
        BY <1>1, <3>1, VerticesArePaths
      <3>3. u \in Path /\ Len(u) = n /\ (\A m \in 1..n : u[m] = w[m]) /\ IsPrefix(u, w)
        BY <1>1, <3>1, PrefixFacts
      <3>4. Turn(fs, u, n) = Turn(fs, w, n)
        <4> HIDE DEF u, w
        <4>1. SubSeq(u, 1, n) = SubSeq(w, 1, n)
          BY <1>1, <3>1, <3>3, PrefixFacts
        <4> QED BY <4>1 DEF Turn
      <3>5. Parts(fs, v, u, n)
        <4> HIDE DEF u, v, w
        <4> QED BY <2>3, <3>1, <3>3, <3>4 DEF Parts
      <3>6. Before(fs, v, u)
        BY <1>1, <3>2, <3>5, BeforeByParts
      <3>7. PICK k \in DOMAIN h : h[k].name_ = u
        <4> HIDE DEF u
        <4> QED BY <3>2, NodesAreInOrder
      <3>8. i < k
        <4> HIDE DEF u
        <4> QED BY <3>6, <3>7, NodesAreInOrder DEF v
      <3>9. k <= j
        <4>1. CASE u = w
          BY <1>2, <3>7, <4>1, NodesAreInOrder
        <4>2. CASE u # w
          <5>1. Before(fs, u, w)
            BY <3>3, <4>2 DEF Before, IsStrictPrefix
          <5>2. k < j
            <6> HIDE DEF u
            <6> QED BY <3>7, <5>1, NodesAreInOrder DEF w
          <5> QED BY <1>2, <5>2
        <4> QED BY <4>1, <4>2
      <3>10. h[k].level_ > h[i].level_
        BY <1>2, <2>1, <3>8, <3>9
      <3>11. h[k].level_ = n /\ h[i].level_ = Len(v)
        BY <3>3, <3>7, NodesAreInOrder
      <3> QED BY <1>1, <3>1, <3>10, <3>11
    <2> QED BY <1>1, <2>2, <2>3, BeforeByParts
  <1> QED BY <1>3, <1>4

------------------------------------------------------------------------------
(* The tree of the nodes, which is the same for every holder of a torrent. *)

Indices(fs) == 1..Len(dfs(fs))
Below(fs, i) == Subtree(dfs(fs), i)

LEMMA ChildrenAreBelow ==
  ASSUME NEW fs \in Torrents, NEW v \in Vertices(fs)
  PROVE  Children(fs, v) # {} <=> \E w \in Vertices(fs) : IsStrictPrefix(v, w)
  <1>1. v \in Path /\ Len(v) \in Nat /\ Len(v) >= 1
    BY VerticesArePaths
  <1>2. ASSUME NEW w \in Children(fs, v) PROVE w \in Vertices(fs) /\ IsStrictPrefix(v, w)
    <2>1. w \in Vertices(fs) /\ w \in Path /\ Len(w) \in Nat /\ Len(w) >= 1 /\ SubSeq(w, 1, Len(w) - 1) = v
      BY VerticesArePaths DEF Children, Front
    <2>2. Len(w) - 1 \in 0..Len(w)
      BY <2>1
    <2>3. Len(v) = Len(w) - 1 /\ IsPrefix(v, w)
      BY <2>1, <2>2, PrefixFacts
    <2> QED BY <2>1, <2>3 DEF IsStrictPrefix
  <1>3. ASSUME NEW w \in Vertices(fs), IsStrictPrefix(v, w) PROVE Children(fs, v) # {}
    <2>1. w \in Path /\ Len(w) \in Nat
      BY VerticesArePaths
    <2>2. Len(v) < Len(w) /\ \A i \in 1..Len(v) : v[i] = w[i]
      <3>1. IsPrefix(v, w) /\ v # w
        BY <1>3 DEF IsStrictPrefix
      <3>2. Len(v) <= Len(w) /\ \A i \in 1..Len(v) : v[i] = w[i]
        BY <1>1, <2>1, <3>1, PrefixFacts
      <3>3. Len(v) # Len(w)
        BY <1>1, <2>1, <3>1, PrefixOrder
      <3> QED BY <1>1, <2>1, <3>2, <3>3
    <2> DEFINE n == Len(v) + 1
               u == SubSeq(w, 1, n)
    <2>3. n \in 1..Len(w) /\ n \in 0..Len(w) /\ n - 1 = Len(v)
      BY <1>1, <2>1, <2>2
    <2>4. u \in Vertices(fs) /\ u \in Path /\ Len(u) = n /\ \A i \in 1..n : u[i] = w[i]
      BY <2>1, <2>3, PrefixFacts, VerticesArePaths
    <2> HIDE DEF u, n
    <2>5. Front(u) = SubSeq(u, 1, Len(v))
      BY <2>3, <2>4 DEF Front
    <2>6. SubSeq(v, 1, Len(v)) = SubSeq(u, 1, Len(v))
      <3>1. Len(v) \in 0..Len(v) /\ Len(v) <= Len(u) /\ \A i \in 1..Len(v) : u[i] = v[i]
        BY <1>1, <2>2, <2>3, <2>4
      <3> QED BY <1>1, <2>4, <3>1, PrefixFacts
    <2>7. SubSeq(v, 1, Len(v)) = v
      BY <1>1 DEF Path
    <2> QED BY <2>4, <2>5, <2>6, <2>7 DEF Children
  <1> QED BY <1>2, <1>3

LEMMA HolderOfNodes ==
  ASSUME NEW fs \in Torrents, NEW h \in Nodes(fs)
  PROVE  /\ h \in Seq(FileNode) /\ DOMAIN h = Indices(fs) /\ Len(h) = Len(dfs(fs)) /\ Len(h) \in Nat
         /\ \A i \in Indices(fs) :
              /\ h[i] \in FileNode /\ h[i].name_ = dfs(fs)[i].name_
              /\ h[i].is_leaf_ = dfs(fs)[i].is_leaf_ /\ h[i].is_marked_ \in BOOLEAN
              /\ Subtree(h, i) = Below(fs, i)
  <1>1. h \in Seq(FileNode) /\ DOMAIN h = Indices(fs) /\ Len(h) = Len(dfs(fs)) /\ Len(h) \in Nat
    BY NodesAreInOrder DEF Nodes, Indices
  <1>2. \A i \in Indices(fs) : /\ h[i].name_ = dfs(fs)[i].name_ /\ h[i].is_leaf_ = dfs(fs)[i].is_leaf_
                               /\ h[i].level_ = dfs(fs)[i].level_
    BY <1>1 DEF Nodes, Indices
  <1>3. \A i \in Indices(fs) : h[i] \in FileNode /\ h[i].is_marked_ \in BOOLEAN
    <2> TAKE i \in Indices(fs)
    <2>1. h[i] \in FileNode
      BY <1>1, ElementOfSeq DEF Indices
    <2> QED BY <2>1 DEF FileNode
  <1>4. ASSUME NEW i \in Indices(fs) PROVE Subtree(h, i) = Below(fs, i)
    <2>1. i \in Nat /\ i >= 1
      BY <1>1 DEF Indices
    <2>2. \A j \in i+1..Len(h) : \A k \in i+1..j : k \in Indices(fs) /\ h[k].level_ = dfs(fs)[k].level_
      BY <1>1, <1>2, <2>1 DEF Indices
    <2>3. h[i].level_ = dfs(fs)[i].level_
      BY <1>2
    <2> QED BY <1>1, <2>2, <2>3 DEF Subtree, Below
  <1> QED BY <1>1, <1>2, <1>3, <1>4

LEMMA NewHolderHasNodes ==
  ASSUME NEW fs \in Torrents
  PROVE  /\ NewHolder[fs] = dfs(fs) /\ dfs(fs) \in Nodes(fs)
         /\ Len(dfs(fs)) \in Nat /\ Len(dfs(fs)) >= 1 /\ Len(dfs(fs)) = Cardinality(Vertices(fs))
         /\ \A i \in Indices(fs) : dfs(fs)[i].is_marked_ = FALSE
  <1>1. dfs(fs) \in Nodes(fs)
    BY DfsIsInOrder DEF Nodes
  <1>2. Len(dfs(fs)) \in Nat /\ Len(dfs(fs)) = Cardinality(Vertices(fs))
    BY <1>1, NodesAreInOrder
  <1>3. Len(dfs(fs)) >= 1
    <2>1. 1 \in DOMAIN fs
      BY VerticesArePaths, EmptySeq
    <2>2. fs[1] \in Vertices(fs)
      BY <2>1, VerticesArePaths
    <2>3. PICK i \in 1..Len(dfs(fs)) : dfs(fs)[i].name_ = fs[1]
      BY <2>2, DfsIsInOrder
    <2> QED BY <1>2, <2>3
  <1>4. \A i \in Indices(fs) : dfs(fs)[i].is_marked_ = FALSE
    <2>1. \A v : NewNode(fs, v).is_marked_ = FALSE
      BY DEF NewNode
    <2> TAKE i \in Indices(fs)
    <2>2. dfs(fs)[i] = NewNode(fs, dfs(fs)[i].name_)
      BY DfsIsInOrder DEF Indices
    <2> QED BY <2>1, <2>2
  <1> QED BY <1>1, <1>2, <1>3, <1>4 DEF NewHolder

LEMMA NamesOfNodes ==
  ASSUME NEW fs \in Torrents
  PROVE  /\ Len(dfs(fs)) \in Nat /\ DOMAIN dfs(fs) = Indices(fs)
         /\ \A i \in Indices(fs) :
              /\ dfs(fs)[i].name_ \in Vertices(fs) /\ dfs(fs)[i].name_ \in Path
              /\ dfs(fs)[i].is_leaf_ <=> Children(fs, dfs(fs)[i].name_) = {}
         /\ \A v \in Vertices(fs) : \E i \in Indices(fs) : dfs(fs)[i].name_ = v
         /\ \A i, j \in Indices(fs) : dfs(fs)[i].name_ = dfs(fs)[j].name_ => i = j
  <1> DEFINE h == dfs(fs)
  <1>1. dfs(fs) \in Nodes(fs)
    BY NewHolderHasNodes
  <1> HIDE DEF h
  <1>2. /\ Len(h) \in Nat /\ DOMAIN h = 1..Len(h)
        /\ \A i \in DOMAIN h : h[i].name_ \in Vertices(fs) /\ (h[i].is_leaf_ <=> Children(fs, h[i].name_) = {})
        /\ \A v \in Vertices(fs) : \E i \in DOMAIN h : h[i].name_ = v
        /\ \A i, j \in DOMAIN h : h[i].name_ = h[j].name_ => i = j
    BY <1>1, NodesAreInOrder DEF h
  <1>3. \A v \in Vertices(fs) : v \in Path
    BY VerticesArePaths
  <1> QED BY <1>2, <1>3 DEF Indices, h

\* Below is a forest, in which nodes come before what is below them.
LEMMA Forest ==
  ASSUME NEW fs \in Torrents
  PROVE  /\ \A i \in Indices(fs) : \A j \in Below(fs, i) : j \in Indices(fs) /\ i < j
         /\ \A i, j, k \in Indices(fs) : j \in Below(fs, i) /\ k \in Below(fs, j) => k \in Below(fs, i)
         /\ \A i, j, k \in Indices(fs) : k \in Below(fs, i) /\ k \in Below(fs, j) =>
              i = j \/ i \in Below(fs, j) \/ j \in Below(fs, i)
         /\ \A i \in Indices(fs) : dfs(fs)[i].is_leaf_ <=> Below(fs, i) = {}
  <1> DEFINE name(i) == dfs(fs)[i].name_
  <1>1. /\ Len(dfs(fs)) \in Nat /\ DOMAIN dfs(fs) = Indices(fs)
        /\ \A i \in Indices(fs) : /\ name(i) \in Vertices(fs) /\ name(i) \in Path
                                  /\ dfs(fs)[i].is_leaf_ <=> Children(fs, name(i)) = {}
        /\ \A v \in Vertices(fs) : \E i \in Indices(fs) : name(i) = v
        /\ \A i, j \in Indices(fs) : name(i) = name(j) => i = j
    BY NamesOfNodes
  <1>2. \A i, j \in Indices(fs) : j \in Below(fs, i) <=> IsStrictPrefix(name(i), name(j))
    BY <1>1, NewHolderHasNodes, SubtreeIsBelow DEF Below
  <1>3. \A i \in Indices(fs) : \A j \in Below(fs, i) : j \in Indices(fs) /\ i < j
    BY <1>1 DEF Below, Subtree, Indices
  <1> HIDE DEF name
  <1>4. ASSUME NEW i \in Indices(fs), NEW j \in Indices(fs), NEW k \in Indices(fs),
               j \in Below(fs, i), k \in Below(fs, j)
        PROVE  k \in Below(fs, i)
    <2>1. IsStrictPrefix(name(i), name(j)) /\ IsStrictPrefix(name(j), name(k))
      BY <1>2, <1>4
    <2>2. IsPrefix(name(i), name(k)) /\ name(i) # name(k)
      BY <1>1, <2>1, PrefixOrder DEF IsStrictPrefix
    <2> QED BY <1>2, <2>2 DEF IsStrictPrefix
  <1>5. ASSUME NEW i \in Indices(fs), NEW j \in Indices(fs), NEW k \in Indices(fs),
               k \in Below(fs, i), k \in Below(fs, j)
        PROVE  i = j \/ i \in Below(fs, j) \/ j \in Below(fs, i)
    <2>1. IsPrefix(name(i), name(k)) /\ IsPrefix(name(j), name(k))
      BY <1>2, <1>5 DEF IsStrictPrefix
    <2>2. IsPrefix(name(i), name(j)) \/ IsPrefix(name(j), name(i))
      BY <1>1, <2>1, PrefixOrder
    <2> QED BY <1>1, <1>2, <2>2 DEF IsStrictPrefix
  <1>6. ASSUME NEW i \in Indices(fs) PROVE dfs(fs)[i].is_leaf_ <=> Below(fs, i) = {}
    <2>1. Children(fs, name(i)) # {} <=> \E w \in Vertices(fs) : IsStrictPrefix(name(i), w)
      BY <1>1, ChildrenAreBelow
    <2>2. (\E w \in Vertices(fs) : IsStrictPrefix(name(i), w)) <=> \E j \in Indices(fs) : IsStrictPrefix(name(i), name(j))
      BY <1>1
    <2>3. (\E j \in Indices(fs) : IsStrictPrefix(name(i), name(j))) <=> Below(fs, i) # {}
      BY <1>2, <1>3
    <2> QED BY <1>1, <2>1, <2>2, <2>3
  <1> QED BY <1>3, <1>4, <1>5, <1>6

------------------------------------------------------------------------------
(* setMark. *)

LEMMA MarkKeepsNodes ==
  ASSUME NEW fs \in Torrents, NEW h \in Nodes(fs), NEW S, NEW mark \in BOOLEAN
  PROVE  /\ Mark(h, S, mark) \in Nodes(fs)
         /\ \A j \in Indices(fs) :
              Mark(h, S, mark)[j].is_marked_ = IF j \in S THEN mark ELSE h[j].is_marked_
  <1> DEFINE g == Mark(h, S, mark)
  <1>1. h \in Seq(FileNode) /\ DOMAIN h = 1..Len(h) /\ Len(h) \in Nat /\ Len(h) = Len(dfs(fs))
    BY HolderOfNodes
  <1>2. \A j \in 1..Len(h) :
          /\ g[j] = IF j \in S THEN [h[j] EXCEPT !.is_marked_ = mark] ELSE h[j]
          /\ h[j] \in FileNode
    BY <1>1, ElementOfSeq DEF Mark
  <1>3. \A j \in 1..Len(h) :
          /\ g[j] \in FileNode /\ g[j].name_ = h[j].name_ /\ g[j].level_ = h[j].level_
          /\ g[j].is_leaf_ = h[j].is_leaf_
          /\ g[j].is_marked_ = IF j \in S THEN mark ELSE h[j].is_marked_
    <2> TAKE j \in 1..Len(h)
    <2> DEFINE x == h[j]
    <2>1. x \in FileNode /\ g[j] = IF j \in S THEN [x EXCEPT !.is_marked_ = mark] ELSE x
      BY <1>2
    <2> HIDE DEF x, g
    <2> QED BY <2>1 DEF FileNode, x
  <1>4. g \in Seq(FileNode) /\ Len(g) = Len(h)
    <2>1. g = [j \in 1..Len(h) |-> g[j]]
      BY <1>1 DEF Mark
    <2> HIDE DEF g
    <2>2. g \in [1..Len(h) -> FileNode]
      BY <1>3, <2>1
    <2> QED BY <1>1, <2>2
  <1> HIDE DEF g
  <1>5. g \in Nodes(fs)
    <2>1. \A i \in 1..Len(h) : /\ h[i].name_ = dfs(fs)[i].name_ /\ h[i].level_ = dfs(fs)[i].level_
                               /\ h[i].is_leaf_ = dfs(fs)[i].is_leaf_
      BY DEF Nodes
    <2> QED BY <1>1, <1>3, <1>4, <2>1 DEF Nodes
  <1> QED BY <1>1, <1>3, <1>5 DEF g, Indices

\* What the second loop of setMark makes of the holder g at node j.
Passed(h, i, mark, j, g) ==
  IF Ancestor(h, i, j) /\ (mark => \A k \in Subtree(h, j) : g[k].is_marked_)
  THEN Mark(g, {j}, mark) ELSE g

\* c[j] is the holder when that loop has passed node j.
Climbed(fs, h, i, mark, c) ==
  /\ c \in [1..i -> Nodes(fs)]
  /\ c[i] = Mark(h, {i} \cup Subtree(h, i), mark)
  /\ \A j \in 1..i-1 : c[j] = Passed(h, i, mark, j, c[j + 1])

LEMMA setMarkClimbs ==
  ASSUME NEW fs \in Torrents, NEW h \in Nodes(fs), NEW i \in Indices(fs), NEW mark \in BOOLEAN
  PROVE  \E c : Climbed(fs, h, i, mark, c) /\ setMark(h, i, mark) = c[1]
  <1> DEFINE X == Nodes(fs)
             first == Mark(h, {i} \cup Subtree(h, i), mark)
             passed(j, g) == Passed(h, i, mark, j, g)
             step == [n \in 1..i-1 |-> [g \in X |-> passed(i - n, g)]]
  <1>1. i \in Nat /\ i >= 1 /\ i - 1 \in Nat
    BY NewHolderHasNodes DEF Indices
  <1>2. first \in X /\ \A j : \A g \in X : passed(j, g) \in X
    BY MarkKeepsNodes DEF Passed
  <1> HIDE DEF X, first, passed
  <1>3. step \in [1..i-1 -> [X -> X]]
    BY <1>2
  <1>4. PICK f \in [0..i-1 -> X] : Recursion(f, i - 1, first, step)
    <2> HIDE DEF step
    <2> QED BY <1>1, <1>2, <1>3, RecursionExists
  <1>5. f[0] = first /\ \A n \in 1..i-1 : f[n] = passed(i - n, f[n - 1])
    <2>1. \A n \in 1..i-1 : n - 1 \in 0..i-1 /\ f[n - 1] \in X
      BY <1>1
    <2> QED BY <1>4, <2>1 DEF Recursion
  <1> DEFINE d == [j \in 1..i |-> f[i - j]]
             F(c) == [j \in 1..i |-> IF j = i THEN first ELSE passed(j, c[j + 1])]
  <1>6. d = F(d)
    <2>1. ASSUME NEW j \in 1..i PROVE d[j] = IF j = i THEN first ELSE passed(j, d[j + 1])
      <3>1. CASE j = i
        BY <1>1, <1>5, <3>1
      <3>2. CASE j # i
        <4>1. i - j \in 1..i-1 /\ j + 1 \in 1..i /\ i - (i - j) = j /\ (i - j) - 1 = i - (j + 1)
          BY <1>1, <3>2
        <4>2. d[j] = f[i - j] /\ d[j + 1] = f[i - (j + 1)]
          BY <4>1
        <4>3. f[i - j] = passed(i - (i - j), f[(i - j) - 1])
          BY <1>5, <4>1
        <4> QED BY <3>2, <4>1, <4>2, <4>3
      <3> QED BY <3>1, <3>2
    <2> QED BY <2>1
  <1> DEFINE e == CHOOSE c : c = F(c)
  <1>7. e = F(e)
    <2> HIDE DEF F, d
    <2> QED BY <1>6
  <1>8. setMark(h, i, mark) = e[1]
    <2>1. \A c : F(c) = [j \in 1..i |->
            IF j = i THEN Mark(h, {i} \cup Subtree(h, i), mark)
            ELSE LET g == c[j + 1]
                 IN  IF Ancestor(h, i, j) /\ (mark => \A k \in Subtree(h, j) : g[k].is_marked_)
                     THEN Mark(g, {j}, mark) ELSE g]
      BY DEF first, passed, Passed
    <2> QED BY <2>1 DEF setMark
  <1> HIDE DEF e
  <1>9. e[i] = first /\ \A j \in 1..i-1 : e[j] = passed(j, e[j + 1])
    BY <1>1, <1>7
  <1>10. \A j \in 1..i : e[j] \in X
    <2> DEFINE G == {n \in Nat : n <= i - 1 => e[i - n] \in X}
    <2>1. 0 \in G
      BY <1>1, <1>2, <1>9
    <2>2. ASSUME NEW n \in Nat, n \in G PROVE n + 1 \in G
      <3>1. SUFFICES ASSUME n + 1 <= i - 1 PROVE e[i - (n + 1)] \in X
        OBVIOUS
      <3>2. i - (n + 1) \in 1..i-1 /\ (i - (n + 1)) + 1 = i - n /\ e[i - n] \in X
        BY <1>1, <2>2, <3>1
      <3> QED BY <1>2, <1>9, <3>2
    <2>3. \A n \in Nat : n \in G
      <3> HIDE DEF G
      <3> QED BY <2>1, <2>2, Induction
    <2> TAKE j \in 1..i
    <2>4. i - j \in Nat /\ i - j <= i - 1 /\ i - (i - j) = j
      BY <1>1
    <2> QED BY <2>3, <2>4
  <1>11. e \in [1..i -> X]
    <2>1. e = [j \in 1..i |-> e[j]]
      BY <1>7
    <2> QED BY <1>10, <2>1
  <1>12. Climbed(fs, h, i, mark, e)
    BY <1>9, <1>11 DEF Climbed, X, first, passed
  <1> QED BY <1>8, <1>12

LEMMA Ancestors ==
  ASSUME NEW fs \in Torrents, NEW h \in Nodes(fs), NEW i \in Indices(fs), NEW j \in 1..i-1
  PROVE  j \in Indices(fs) /\ (Ancestor(h, i, j) <=> i \in Below(fs, j))
  <1>1. /\ Len(h) \in Nat /\ DOMAIN h = 1..Len(h) /\ i \in Nat /\ i >= 1 /\ i <= Len(h)
        /\ Len(h) = Len(dfs(fs)) /\ j \in Indices(fs)
    BY HolderOfNodes DEF Indices
  <1>2. \A k \in 1..Len(h) : h[k].level_ \in Int
    BY <1>1, NodesAreInOrder DEF FileNode
  <1>3. Ancestor(h, i, j) <=> \A k \in j+1..i : h[k].level_ > h[j].level_
    BY <1>1, <1>2 DEF Ancestor
  <1>4. i \in Subtree(h, j) <=> \A k \in j+1..i : h[k].level_ > h[j].level_
    BY <1>1 DEF Subtree
  <1> QED BY <1>1, <1>3, <1>4, HolderOfNodes

\* What a mark is when setMark(h, i, mark) has passed node j and left g.
MarkedUpTo(fs, h, i, mark, j, g) ==
  /\ g \in Nodes(fs)
  /\ \A k \in Indices(fs) :
       /\ k = i \/ k \in Below(fs, i) => g[k].is_marked_ = mark
       /\ k # i /\ k \notin Below(fs, i) /\ (k < j \/ i \notin Below(fs, k)) =>
            g[k].is_marked_ = h[k].is_marked_
       /\ k >= j /\ i \in Below(fs, k) =>
            (g[k].is_marked_ <=> mark /\ (h[k].is_marked_ \/ \A l \in Below(fs, k) : g[l].is_marked_))

LEMMA MarkedFirst ==
  ASSUME NEW fs \in Torrents, NEW h \in Nodes(fs), NEW i \in Indices(fs), NEW mark \in BOOLEAN
  PROVE  MarkedUpTo(fs, h, i, mark, i, Mark(h, {i} \cup Subtree(h, i), mark))
  <1> DEFINE g == Mark(h, {i} \cup Subtree(h, i), mark)
  <1>1. /\ g \in Nodes(fs)
        /\ \A k \in Indices(fs) :
             g[k].is_marked_ = IF k \in {i} \cup Below(fs, i) THEN mark ELSE h[k].is_marked_
    BY MarkKeepsNodes, HolderOfNodes
  <1> HIDE DEF g
  <1>2. \A k \in Indices(fs) : i \in Below(fs, k) => k < i
    BY Forest
  <1>3. i \in Int /\ Indices(fs) \subseteq Int
    BY NewHolderHasNodes DEF Indices
  <1>4. \A k \in Indices(fs) : ~(k >= i /\ i \in Below(fs, k))
    BY <1>2, <1>3
  <1> QED BY <1>1, <1>4 DEF MarkedUpTo, g

LEMMA MarkedNext ==
  ASSUME NEW fs \in Torrents, NEW h \in Nodes(fs), NEW i \in Indices(fs), NEW mark \in BOOLEAN,
         NEW j \in 1..i-1, NEW g, MarkedUpTo(fs, h, i, mark, j + 1, g)
  PROVE  MarkedUpTo(fs, h, i, mark, j, Passed(h, i, mark, j, g))
  <1> DEFINE B(k) == Below(fs, k)
             m(k) == g[k].is_marked_
             r == Passed(h, i, mark, j, g)
             over == i \in B(j) /\ (mark => \A k \in B(j) : m(k))
  <1>1. /\ i \in Int /\ j \in Int /\ j < i /\ Indices(fs) \subseteq Int
        /\ j \in Indices(fs) /\ (Ancestor(h, i, j) <=> i \in B(j)) /\ Subtree(h, j) = B(j)
    BY NewHolderHasNodes, Ancestors, HolderOfNodes DEF Indices
  <1>2. g \in Nodes(fs) /\ \A k \in Indices(fs) : m(k) \in BOOLEAN /\ h[k].is_marked_ \in BOOLEAN
    BY HolderOfNodes DEF MarkedUpTo
  <1>3. r = IF over THEN Mark(g, {j}, mark) ELSE g
    BY <1>1 DEF Passed
  <1>4. /\ r \in Nodes(fs)
        /\ \A k \in Indices(fs) : r[k].is_marked_ = IF over /\ k = j THEN mark ELSE m(k)
    <2>1. Mark(g, {j}, mark) \in Nodes(fs) /\ \A k \in Indices(fs) :
            Mark(g, {j}, mark)[k].is_marked_ = IF k \in {j} THEN mark ELSE m(k)
      BY <1>2, MarkKeepsNodes
    <2> QED BY <1>2, <1>3, <2>1
  <1> HIDE DEF r
  <1>5. j # i /\ j \notin B(i)
    <2>1. \A k \in B(i) : i < k
      BY Forest
    <2>2. \A k \in B(i) : k \in Indices(fs)
      BY Forest
    <2> QED BY <1>1, <2>1, <2>2
  <1>6. \A k \in Indices(fs) : k >= j => j \notin B(k)
    <2>1. \A k \in Indices(fs) : j \in B(k) => k < j
      BY Forest
    <2> QED BY <1>1, <2>1
  <1>7. \A k \in Indices(fs) : \A l \in B(k) : l \in Indices(fs)
    BY Forest
  <1>8. \A k \in Indices(fs) : k >= j => \A l \in B(k) : r[l].is_marked_ = m(l)
    BY <1>4, <1>6, <1>7
  <1>9. ASSUME NEW k \in Indices(fs), k = i \/ k \in B(i) PROVE r[k].is_marked_ = mark
    <2>1. m(k) = mark
      BY <1>9 DEF MarkedUpTo
    <2> QED BY <1>4, <1>5, <1>9, <2>1
  <1>10. ASSUME NEW k \in Indices(fs), k # i, k \notin B(i), k < j \/ i \notin B(k)
         PROVE  r[k].is_marked_ = h[k].is_marked_
    <2>1. m(k) = h[k].is_marked_
      BY <1>1, <1>10 DEF MarkedUpTo
    <2>2. ~(over /\ k = j)
      BY <1>1, <1>10
    <2> QED BY <1>4, <2>1, <2>2
  <1>11. ASSUME NEW k \in Indices(fs), k >= j, i \in B(k)
         PROVE  r[k].is_marked_ <=> mark /\ (h[k].is_marked_ \/ \A l \in B(k) : r[l].is_marked_)
    <2>1. (\A l \in B(k) : r[l].is_marked_) <=> \A l \in B(k) : m(l)
      BY <1>8, <1>11
    <2>2. CASE k # j
      <3>1. k >= j + 1
        BY <1>1, <1>11, <2>2
      <3>2. m(k) <=> mark /\ (h[k].is_marked_ \/ \A l \in B(k) : m(l))
        BY <1>11, <3>1 DEF MarkedUpTo
      <3> QED BY <1>4, <2>1, <2>2, <3>2
    <2>3. CASE k = j
      <3>1. m(j) = h[j].is_marked_
        BY <1>1, <1>5 DEF MarkedUpTo
      <3>2. r[j].is_marked_ = IF over THEN mark ELSE h[j].is_marked_
        BY <1>1, <1>4, <3>1
      <3>3. over <=> (mark => \A l \in B(j) : m(l))
        BY <1>11, <2>3
      <3> QED BY <1>1, <1>2, <2>1, <2>3, <3>2, <3>3
    <2> QED BY <2>2, <2>3
  <1> QED BY <1>4, <1>9, <1>10, <1>11 DEF MarkedUpTo, r

\* What setMark does: the node and all below it take the mark, and of the
\* directories above, all are cleared, or those marked below which all is.
LEMMA setMarkMarks ==
  ASSUME NEW fs \in Torrents, NEW h \in Nodes(fs), NEW i \in Indices(fs), NEW mark \in BOOLEAN
  PROVE  MarkedUpTo(fs, h, i, mark, 1, setMark(h, i, mark))
  <1>1. PICK c : Climbed(fs, h, i, mark, c) /\ setMark(h, i, mark) = c[1]
    BY setMarkClimbs
  <1>2. i \in Nat /\ i >= 1
    BY NewHolderHasNodes DEF Indices
  <1> DEFINE G == {n \in Nat : n <= i - 1 => MarkedUpTo(fs, h, i, mark, i - n, c[i - n])}
  <1>3. 0 \in G
    <2>1. MarkedUpTo(fs, h, i, mark, i, c[i])
      BY <1>1, MarkedFirst DEF Climbed
    <2> QED BY <1>2, <2>1
  <1>4. ASSUME NEW n \in Nat, n \in G PROVE n + 1 \in G
    <2>1. SUFFICES ASSUME n + 1 <= i - 1
                   PROVE  MarkedUpTo(fs, h, i, mark, i - (n + 1), c[i - (n + 1)])
      OBVIOUS
    <2> DEFINE j == i - (n + 1)
    <2>2. j \in 1..i-1 /\ j + 1 = i - n
      BY <1>2, <2>1
    <2>3. MarkedUpTo(fs, h, i, mark, j + 1, c[j + 1])
      BY <1>2, <1>4, <2>1, <2>2
    <2>4. c[j] = Passed(h, i, mark, j, c[j + 1])
      BY <1>1, <2>2 DEF Climbed
    <2> HIDE DEF j
    <2> QED BY <2>2, <2>3, <2>4, MarkedNext DEF j
  <1>5. i - 1 \in Nat /\ i - 1 \in G
    <2> HIDE DEF G
    <2> QED BY <1>2, <1>3, <1>4, Induction
  <1>6. i - (i - 1) = 1
    BY <1>2
  <1> QED BY <1>1, <1>5, <1>6

------------------------------------------------------------------------------
(* Marks that fit each other, and their way through the file. *)

\* A directory is marked if and only if all below it is.
Fitting(fs) ==
  {m \in [Indices(fs) -> BOOLEAN] :
     \A i \in Indices(fs) : Below(fs, i) # {} => (m[i] <=> \A j \in Below(fs, i) : m[j])}

LEMMA MarksOfNodes ==
  ASSUME NEW fs \in Torrents, NEW h \in Nodes(fs)
  PROVE  /\ getMarks(h) \in [Indices(fs) -> BOOLEAN] /\ getMarks(h) # <<>>
         /\ \A i \in Indices(fs) : getMarks(h)[i] = h[i].is_marked_
  <1>1. getMarks(h) \in [Indices(fs) -> BOOLEAN] /\ \A i \in Indices(fs) : getMarks(h)[i] = h[i].is_marked_
    BY HolderOfNodes DEF getMarks
  <1>2. DOMAIN getMarks(h) # DOMAIN <<>>
    <2>1. Len(dfs(fs)) \in Nat /\ Len(dfs(fs)) >= 1
      BY NewHolderHasNodes
    <2>2. 1 \in Indices(fs)
      BY <2>1 DEF Indices
    <2> QED BY <1>1, <2>2
  <1> QED BY <1>1, <1>2

LEMMA NewMarksFit ==
  ASSUME NEW fs \in Torrents
  PROVE  getMarks(dfs(fs)) \in Fitting(fs)
  <1>1. dfs(fs) \in Nodes(fs) /\ \A i \in Indices(fs) : dfs(fs)[i].is_marked_ = FALSE
    BY NewHolderHasNodes
  <1>2. \A i \in Indices(fs) : \A j \in Below(fs, i) : j \in Indices(fs)
    BY Forest
  <1> QED BY <1>1, <1>2, MarksOfNodes DEF Fitting

LEMMA setMarkFits ==
  ASSUME NEW fs \in Torrents, NEW h \in Nodes(fs), getMarks(h) \in Fitting(fs),
         NEW i \in Indices(fs), NEW mark \in BOOLEAN
  PROVE  setMark(h, i, mark) \in Nodes(fs) /\ getMarks(setMark(h, i, mark)) \in Fitting(fs)
  <1> DEFINE B(k) == Below(fs, k)
             r == setMark(h, i, mark)
             m(k) == h[k].is_marked_
             n(k) == r[k].is_marked_
  <1>1. MarkedUpTo(fs, h, i, mark, 1, r)
    BY setMarkMarks
  <1>2. r \in Nodes(fs) /\ \A k \in Indices(fs) : k >= 1
    BY <1>1, NewHolderHasNodes DEF MarkedUpTo, Indices
  <1>3. \A k \in Indices(fs) : m(k) \in BOOLEAN /\ n(k) \in BOOLEAN
    BY <1>2, HolderOfNodes
  <1>4. \A k \in Indices(fs) : B(k) # {} => (m(k) <=> \A j \in B(k) : m(j))
    <2>1. \A k \in Indices(fs) : \A j \in B(k) : j \in Indices(fs)
      BY Forest
    <2> QED BY <2>1, MarksOfNodes DEF Fitting
  <1>5. /\ \A k \in Indices(fs) : k = i \/ k \in B(i) => n(k) = mark
        /\ \A k \in Indices(fs) : k # i /\ k \notin B(i) /\ i \notin B(k) => n(k) = m(k)
        /\ \A k \in Indices(fs) : i \in B(k) =>
             (n(k) <=> mark /\ (m(k) \/ \A l \in B(k) : n(l)))
    BY <1>1, <1>2 DEF MarkedUpTo
  <1>6. /\ \A j, k \in Indices(fs) : \A l \in B(k) : j = l \/ l \in B(j) =>
             j \in B(k) \/ k = j \/ k \in B(j)
        /\ \A j, k, l \in Indices(fs) : l \in B(k) /\ j \in B(l) => j \in B(k)
        /\ \A k \in Indices(fs) : \A l \in B(k) : l \in Indices(fs)
    BY Forest
  <1> HIDE DEF r, B, m, n
  <1>7. ASSUME NEW k \in Indices(fs), B(k) # {} PROVE n(k) <=> \A l \in B(k) : n(l)
    <2>1. CASE k = i \/ k \in B(i)
      <3>1. \A l \in B(k) : l \in B(i)
        BY <1>6, <2>1
      <3> QED BY <1>5, <1>6, <1>7, <2>1, <3>1
    <2>2. CASE i \in B(k) /\ ~mark
      BY <1>5, <2>2
    <2>3. CASE i \in B(k) /\ mark
      <3>1. \A l \in Indices(fs) : m(l) => n(l)
        BY <1>3, <1>5, <2>3
      <3> QED BY <1>4, <1>5, <1>6, <1>7, <2>3, <3>1
    <2>4. CASE k # i /\ k \notin B(i) /\ i \notin B(k)
      <3>1. \A l \in B(k) : l # i /\ l \notin B(i) /\ i \notin B(l)
        BY <1>6, <2>4
      <3> QED BY <1>4, <1>5, <1>6, <1>7, <2>4, <3>1
    <2> QED BY <2>1, <2>2, <2>3, <2>4
  <1>8. getMarks(r) \in [Indices(fs) -> BOOLEAN] /\ \A k \in Indices(fs) : getMarks(r)[k] = n(k)
    BY <1>2, MarksOfNodes DEF n
  <1> QED BY <1>2, <1>6, <1>7, <1>8 DEF Fitting, r, B

\* Setting the marks of a list one by one and each with its effect on other
\* nodes marks no others than those of the list, if they fit.
LEMMA RestoredMarks ==
  ASSUME NEW fs \in Torrents, NEW marks \in Fitting(fs)
  PROVE  restore(fs, marks) \in Nodes(fs) /\ getMarks(restore(fs, marks)) = marks
  <1> DEFINE N == Len(marks)
             X == Nodes(fs)
             base == NewHolder[fs]
             again(i, h) == IF marks[i] THEN setMark(h, i, TRUE) ELSE h
             step == [i \in 1..N |-> [h \in X |-> again(i, h)]]
             F(s) == [i \in 0..N |-> IF i = 0 THEN base ELSE again(i, s[i - 1])]
             set == CHOOSE s : s = F(s)
  <1>1. N \in Nat /\ 1..N = Indices(fs) /\ DOMAIN marks = Indices(fs)
    <2>1. marks \in [1..Len(dfs(fs)) -> BOOLEAN] /\ Len(dfs(fs)) \in Nat
      BY NewHolderHasNodes DEF Fitting, Indices
    <2>2. marks \in Seq(BOOLEAN)
      BY <2>1
    <2>3. N = Len(dfs(fs))
      BY <2>1, <2>2
    <2> QED BY <2>1, <2>3 DEF Indices
  <1>2. base \in X /\ \A i \in 1..N : \A h \in X : again(i, h) \in X
    <2>1. \A i \in 1..N : \A h \in X : setMark(h, i, TRUE) \in X
      <3> TAKE i \in 1..N
      <3> TAKE h \in X
      <3>1. MarkedUpTo(fs, h, i, TRUE, 1, setMark(h, i, TRUE))
        BY <1>1, setMarkMarks
      <3> QED BY <3>1 DEF MarkedUpTo
    <2> QED BY <2>1, NewHolderHasNodes
  <1>3. restore(fs, marks) = set[N]
    BY DEF restore
  <1> HIDE DEF N, X, base
  <1>4. set = F(set)
    <2> HIDE DEF again
    <2>1. step \in [1..N -> [X -> X]]
      BY <1>2
    <2>2. PICK f \in [0..N -> X] : Recursion(f, N, base, step)
      <3> HIDE DEF step
      <3> QED BY <1>1, <1>2, <2>1, RecursionExists
    <2>3. \A i \in 1..N : i - 1 \in 0..N /\ f[i - 1] \in X
      BY <1>1
    <2>4. f[0] = base /\ \A i \in 1..N : f[i] = again(i, f[i - 1])
      BY <2>2, <2>3 DEF Recursion
    <2>5. f = F(f)
      <3>1. ASSUME NEW i \in 0..N PROVE f[i] = IF i = 0 THEN base ELSE again(i, f[i - 1])
        <4>1. i = 0 \/ i \in 1..N
          BY <1>1
        <4> QED BY <1>1, <2>4, <4>1
      <3> QED BY <3>1
    <2> HIDE DEF F
    <2> QED BY <2>5
  <1> HIDE DEF set
  <1>5. set[0] = base /\ \A i \in 1..N : set[i] = again(i, set[i - 1])
    <2> HIDE DEF again
    <2>1. \A i \in 0..N : set[i] = IF i = 0 THEN base ELSE again(i, set[i - 1])
      BY <1>4
    <2>2. 0 \in 0..N /\ \A i \in 1..N : i \in 0..N /\ i # 0
      BY <1>1
    <2> QED BY <2>1, <2>2
  <1> DEFINE Done(i, h) == /\ h \in X
                           /\ \A k \in Indices(fs) : h[k].is_marked_ => marks[k]
                           /\ \A k \in Indices(fs) : k <= i /\ marks[k] => h[k].is_marked_
             G == {i \in Nat : i <= N => Done(i, set[i])}
  <1>6. 0 \in G
    <2>1. \A k \in Indices(fs) : ~(k <= 0)
      BY <1>1
    <2> QED BY <1>5, <2>1, NewHolderHasNodes DEF base, X
  <1>7. ASSUME NEW i \in Nat, i \in G PROVE i + 1 \in G
    <2>1. SUFFICES ASSUME i + 1 <= N PROVE Done(i + 1, set[i + 1])
      OBVIOUS
    <2> DEFINE p == i + 1
               h == set[i]
               r == set[p]
    <2>2. Done(i, h) /\ p \in 1..N /\ p \in Indices(fs) /\ p - 1 = i
      BY <1>1, <1>7, <2>1
    <2>3. r = again(p, h)
      <3> HIDE DEF again, p
      <3> QED BY <1>5, <2>2
    <2>4. \A k \in Indices(fs) : k <= p <=> k <= i \/ k = p
      BY <1>1
    <2> HIDE DEF p, h, r
    <2>5. ASSUME ~marks[p] PROVE Done(p, r)
      BY <2>2, <2>3, <2>4, <2>5
    <2>6. ASSUME marks[p] PROVE Done(p, r)
      <3>1. MarkedUpTo(fs, h, p, TRUE, 1, r)
        BY <2>2, <2>3, <2>6, setMarkMarks DEF X
      <3>2. \A k \in Indices(fs) : k >= 1
        BY <1>1
      <3>3. /\ r \in X
            /\ \A k \in Indices(fs) : k = p \/ k \in Below(fs, p) => r[k].is_marked_
            /\ \A k \in Indices(fs) : k # p /\ k \notin Below(fs, p) /\ p \notin Below(fs, k) =>
                 r[k].is_marked_ = h[k].is_marked_
            /\ \A k \in Indices(fs) : p \in Below(fs, k) =>
                 (r[k].is_marked_ <=> h[k].is_marked_ \/ \A l \in Below(fs, k) : r[l].is_marked_)
        BY <3>1, <3>2 DEF MarkedUpTo, X
      <3>4. /\ \A k \in Indices(fs) : marks[k] \in BOOLEAN
            /\ \A k \in Indices(fs) : Below(fs, k) # {} => (marks[k] <=> \A l \in Below(fs, k) : marks[l])
            /\ \A k \in Indices(fs) : \A l \in Below(fs, k) : l \in Indices(fs)
        BY Forest DEF Fitting
      <3>5. \A k \in Indices(fs) : k = p \/ k \in Below(fs, p) => marks[k]
        BY <2>2, <2>6, <3>4
      <3>6. \A k \in Indices(fs) : h[k].is_marked_ => r[k].is_marked_
        BY <3>3
      <3>7. ASSUME NEW k \in Indices(fs), r[k].is_marked_ PROVE marks[k]
        <4> DEFINE S == {l \in Indices(fs) : r[l].is_marked_ /\ ~marks[l]}
        <4>1. SUFFICES ASSUME S # {} PROVE FALSE
          BY <3>7
        <4>2. PICK a \in Indices(fs) : a \in S /\ \A b \in S : b <= a
          <5> DEFINE T == {N - l : l \in S}
          <5>1. \A l \in S : l \in 1..N
            BY <1>1
          <5>2. T \in SUBSET Nat /\ T # {}
            BY <1>1, <4>1, <5>1
          <5>3. PICK t \in T : \A u \in T : t <= u
            <6> HIDE DEF T
            <6> QED BY <5>2, LeastElement
          <5>4. PICK a \in S : t = N - a
            OBVIOUS
          <5>5. \A b \in S : N - a <= N - b
            BY <5>3, <5>4
          <5>6. \A b \in S : b <= a
            BY <1>1, <5>1, <5>5
          <5> QED BY <5>6
        <4>3. p \in Below(fs, a)
          BY <2>2, <3>3, <3>5, <4>2
        <4>4. ~h[a].is_marked_ /\ \A l \in Below(fs, a) : r[l].is_marked_
          BY <2>2, <3>3, <4>2, <4>3
        <4>5. PICK l \in Below(fs, a) : ~marks[l]
          BY <3>4, <4>2, <4>3
        <4>6. l \in S /\ a < l
          BY <3>4, <4>4, <4>5, Forest
        <4> QED BY <1>1, <4>2, <4>6
      <3>8. \A k \in Indices(fs) : k <= p /\ marks[k] => r[k].is_marked_
        BY <2>2, <2>4, <3>3, <3>6
      <3> QED BY <3>3, <3>7, <3>8
    <2> QED BY <2>5, <2>6 DEF r, p
  <1>8. N \in G
    <2> HIDE DEF G
    <2> QED BY <1>1, <1>6, <1>7, Induction
  <1>9. Done(N, set[N])
    BY <1>1, <1>8
  <1>10. \A k \in Indices(fs) : k <= N /\ marks[k] \in BOOLEAN
    BY <1>1 DEF Fitting
  <1>11. \A k \in Indices(fs) : set[N][k].is_marked_ = marks[k]
    BY <1>9, <1>10, HolderOfNodes DEF X
  <1> QED BY <1>1, <1>3, <1>9, <1>11, MarksOfNodes DEF X, Fitting

------------------------------------------------------------------------------
(* The priorities. *)

Leaves(fs) == {i \in Indices(fs) : dfs(fs)[i].is_leaf_}
LeavesUpTo(fs, i) == {j \in Leaves(fs) : j <= i}

\* A leaf of the tree is a file, and every file is one.
LEMMA LeavesAreFiles ==
  ASSUME NEW fs \in Torrents
  PROVE  /\ \A i \in Leaves(fs) : \E k \in DOMAIN fs : dfs(fs)[i].name_ = fs[k]
         /\ \A k \in DOMAIN fs : \E i \in Leaves(fs) : dfs(fs)[i].name_ = fs[k]
         /\ \A j, k \in DOMAIN fs : fs[j] = fs[k] => j = k
         /\ \A i, j \in Indices(fs) : dfs(fs)[i].name_ = dfs(fs)[j].name_ => i = j
  <1> DEFINE h == dfs(fs)
  <1>2. /\ \A i \in Indices(fs) : h[i].name_ \in Vertices(fs) /\ (h[i].is_leaf_ <=> Children(fs, h[i].name_) = {})
        /\ \A v \in Vertices(fs) : \E i \in Indices(fs) : h[i].name_ = v
        /\ \A i, j \in Indices(fs) : h[i].name_ = h[j].name_ => i = j
    BY NamesOfNodes
  <1> HIDE DEF h
  <1>3. \A j, k \in DOMAIN fs : fs[j] \in Path /\ fs[j] \in Vertices(fs) /\ (IsPrefix(fs[j], fs[k]) => j = k)
    BY VerticesArePaths, FilesAssumption
  <1>4. ASSUME NEW v \in Vertices(fs) PROVE Children(fs, v) = {} <=> \E k \in DOMAIN fs : v = fs[k]
    <2>1. v \in Path /\ \A w \in Vertices(fs) : w \in Path
      BY VerticesArePaths
    <2>2. ASSUME Children(fs, v) = {} PROVE \E k \in DOMAIN fs : v = fs[k]
      <3>1. PICK k \in DOMAIN fs : IsPrefix(v, fs[k])
        BY <2>1, VerticesArePaths
      <3>2. ~IsStrictPrefix(v, fs[k])
        BY <1>3, <2>2, ChildrenAreBelow
      <3> QED BY <3>1, <3>2 DEF IsStrictPrefix
    <2>3. ASSUME NEW k \in DOMAIN fs, v = fs[k] PROVE Children(fs, v) = {}
      <3>1. SUFFICES ASSUME NEW w \in Vertices(fs), IsStrictPrefix(v, w) PROVE FALSE
        BY ChildrenAreBelow
      <3>2. PICK l \in DOMAIN fs : IsPrefix(w, fs[l])
        BY <2>1, VerticesArePaths
      <3>3. IsPrefix(v, w) /\ v # w /\ w \in Path /\ fs[l] \in Path
        BY <1>3, <2>1, <3>1 DEF IsStrictPrefix
      <3>4. IsPrefix(fs[k], fs[l])
        BY <2>1, <2>3, <3>2, <3>3, PrefixOrder
      <3>5. IsPrefix(w, v)
        BY <1>3, <2>3, <3>2, <3>4
      <3> QED BY <2>1, <3>3, <3>5, PrefixOrder
    <2> QED BY <2>2, <2>3
  <1>5. \A j, k \in DOMAIN fs : fs[j] = fs[k] => j = k
    BY <1>3, PrefixOrder
  <1>6. \A i \in Indices(fs) : i \in Leaves(fs) <=> \E k \in DOMAIN fs : h[i].name_ = fs[k]
    BY <1>2, <1>4 DEF Leaves, h
  <1>7. \A k \in DOMAIN fs : \E i \in Indices(fs) : h[i].name_ = fs[k]
    BY <1>2, <1>3
  <1>8. \A k \in DOMAIN fs : \E i \in Leaves(fs) : h[i].name_ = fs[k]
    BY <1>6, <1>7
  <1>9. \A i \in Leaves(fs) : \E k \in DOMAIN fs : h[i].name_ = fs[k]
    BY <1>6 DEF Leaves
  <1> QED BY <1>2, <1>5, <1>8, <1>9 DEF h

LEMMA ThereAreLeaves ==
  ASSUME NEW fs \in Torrents
  PROVE  IsFiniteSet(Leaves(fs)) /\ Cardinality(Leaves(fs)) = Len(fs) /\ Len(fs) \in Nat
  <1>1. Len(fs) \in Nat /\ DOMAIN fs = 1..Len(fs)
    BY VerticesArePaths
  <1>2. IsFiniteSet(DOMAIN fs) /\ Cardinality(DOMAIN fs) = Len(fs)
    <2>1. IsFiniteSet(1..Len(fs)) /\ Cardinality(1..Len(fs)) = IF 1 > Len(fs) THEN 0 ELSE Len(fs) - 1 + 1
      BY <1>1, FS_Interval
    <2> QED BY <1>1, <2>1
  <1> DEFINE at(k) == CHOOSE i \in Leaves(fs) : dfs(fs)[i].name_ = fs[k]
             f == [k \in DOMAIN fs |-> at(k)]
  <1>3. \A k \in DOMAIN fs : at(k) \in Leaves(fs) /\ dfs(fs)[at(k)].name_ = fs[k]
    BY LeavesAreFiles
  <1>4. \A i \in Leaves(fs) : i \in Indices(fs)
    BY DEF Leaves
  <1> HIDE DEF at
  <1>5. \A j, k \in DOMAIN fs : at(j) = at(k) => j = k
    BY <1>3, LeavesAreFiles
  <1>6. \A i \in Leaves(fs) : \E k \in DOMAIN fs : at(k) = i
    BY <1>3, <1>4, LeavesAreFiles
  <1>7. f \in Surjection(DOMAIN fs, Leaves(fs)) /\ f \in Injection(DOMAIN fs, Leaves(fs))
    BY <1>3, <1>5, <1>6 DEF Surjection, Injection, IsInjective
  <1> HIDE DEF f
  <1>8. IsFiniteSet(Leaves(fs)) /\ Cardinality(Leaves(fs)) = Cardinality(DOMAIN fs)
    BY <1>2, <1>7, FS_Surjection
  <1> QED BY <1>1, <1>2, <1>8

\* The loop of createDownload counts the leaves one by one.
LEMMA LeavesAreCounted ==
  ASSUME NEW fs \in Torrents, NEW h \in Nodes(fs)
  PROVE  /\ current_file(h, Len(h)) = Len(fs)
         /\ \A i \in Leaves(fs) : /\ i \in DOMAIN h /\ i \in Nat
                                  /\ current_file(h, i) = Cardinality(LeavesUpTo(fs, i))
         /\ \A i, j \in Leaves(fs) : current_file(h, i) = current_file(h, j) => i = j
         /\ \A k \in 1..Len(fs) : \E i \in Leaves(fs) : current_file(h, i) = k
  <1> DEFINE L == Leaves(fs)
             R == {p \in L \X L : p[1] < p[2]}
             n == Cardinality(L)
             rank(i) == Cardinality(Under(L, R, i))
  <1>1. /\ Indices(fs) = 1..Len(h) /\ Len(h) \in Nat /\ DOMAIN h = Indices(fs)
        /\ \A i \in Indices(fs) : h[i].is_leaf_ = dfs(fs)[i].is_leaf_
    BY HolderOfNodes DEF Indices
  <1>2. L \subseteq Indices(fs) /\ \A i \in Indices(fs) : i \in L <=> h[i].is_leaf_
    BY <1>1 DEF Leaves
  <1>3. IsFiniteSet(L) /\ n = Len(fs) /\ n \in Nat
    BY ThereAreLeaves
  <1> HIDE DEF L
  <1>4. \A i \in L : i \in Nat /\ i \in DOMAIN h /\ i <= Len(h)
    BY <1>1, <1>2
  <1>5. Orders(R, L)
    <2>1. \A i, j \in L : <<i, j>> \in R <=> i < j
      OBVIOUS
    <2> HIDE DEF R
    <2> QED BY <1>4, <2>1 DEF Orders
  <1>6. /\ \A i \in L : rank(i) \in 0..n-1
        /\ \A i, j \in L : <<i, j>> \in R <=> rank(i) < rank(j)
        /\ \A k \in 0..n-1 : \E i \in L : rank(i) = k
    <2> HIDE DEF R
    <2> QED BY <1>3, <1>5, Ranking
  <1>7. \A i \in Indices(fs) : {j \in 1..i : h[j].is_leaf_} = {j \in L : j <= i}
    <2>1. \A i \in Indices(fs) : \A j \in 1..i : j \in Indices(fs)
      BY <1>1
    <2>2. \A i \in Indices(fs) : \A j \in L : j <= i => j \in 1..i
      BY <1>1, <1>2
    <2>3. \A i \in Indices(fs) : \A j \in 1..i : j <= i
      BY <1>1
    <2> QED BY <1>2, <2>1, <2>2, <2>3
  <1>8. ASSUME NEW i \in L PROVE current_file(h, i) = Cardinality({j \in L : j <= i}) /\ current_file(h, i) = rank(i) + 1
    <2>1. current_file(h, i) = Cardinality({j \in L : j <= i})
      BY <1>2, <1>7 DEF current_file
    <2>2. {j \in L : j <= i} = Under(L, R, i) \cup {i} /\ i \notin Under(L, R, i)
      BY <1>4 DEF Under
    <2>3. IsFiniteSet(Under(L, R, i))
      BY <1>3, FS_Subset DEF Under
    <2>4. Cardinality(Under(L, R, i) \cup {i}) = rank(i) + 1
      <3> HIDE DEF R
      <3> QED BY <2>2, <2>3, FS_AddElement
    <2> QED BY <2>1, <2>2, <2>4
  <1>9. current_file(h, Len(h)) = n
    <2>1. {j \in 1..Len(h) : h[j].is_leaf_} = L
      BY <1>1, <1>2
    <2> QED BY <2>1 DEF current_file
  <1>10. \A i, j \in L : current_file(h, i) = current_file(h, j) => i = j
    <2> TAKE i \in L, j \in L
    <2> HAVE current_file(h, i) = current_file(h, j)
    <2> HIDE DEF R, rank
    <2>1. current_file(h, i) = rank(i) + 1 /\ current_file(h, j) = rank(j) + 1
      BY <1>8
    <2>2. rank(i) \in Int /\ rank(j) \in Int
      BY <1>3, <1>6
    <2>3. rank(i) = rank(j)
      <3>1. rank(i) + 1 = rank(j) + 1
        BY <2>1
      <3> QED BY <2>2, <3>1
    <2>4. <<i, j>> \notin R /\ <<j, i>> \notin R
      BY <1>6, <2>2, <2>3
    <2> QED BY <1>5, <2>4 DEF Orders
  <1>11. \A k \in 1..n : \E i \in L : current_file(h, i) = k
    <2> TAKE k \in 1..n
    <2> HIDE DEF R, rank
    <2>1. k - 1 \in 0..n-1
      BY <1>3
    <2>2. PICK i \in L : rank(i) = k - 1
      BY <1>6, <2>1
    <2>3. current_file(h, i) = rank(i) + 1
      BY <1>8
    <2>4. current_file(h, i) = k
      BY <1>3, <2>2, <2>3
    <2> QED BY <2>4
  <1> QED BY <1>3, <1>4, <1>8, <1>9, <1>10, <1>11 DEF L, LeavesUpTo

\* The leaf that createDownload takes for file k.
LeafOf(fs, k) == CHOOSE i \in Leaves(fs) : current_file(dfs(fs), i) = k

LEMMA PrioritiesOfNodes ==
  ASSUME NEW fs \in Torrents, NEW h \in Nodes(fs)
  PROVE  /\ file_priorities(h) = [k \in DOMAIN fs |-> getMarks(h)[LeafOf(fs, k)]]
         /\ file_priorities(h) \in [DOMAIN fs -> BOOLEAN] /\ file_priorities(h) # <<>>
         /\ \A k \in DOMAIN fs : LeafOf(fs, k) \in Leaves(fs) /\ LeafOf(fs, k) \in Indices(fs)
         /\ \A i \in Leaves(fs) : \A k \in DOMAIN fs : current_file(dfs(fs), i) = k => LeafOf(fs, k) = i
  <1> DEFINE d == dfs(fs)
  <1>1. d \in Nodes(fs) /\ DOMAIN fs = 1..Len(fs) /\ Len(fs) \in Nat
    BY NewHolderHasNodes, VerticesArePaths
  <1> HIDE DEF d
  <1>2. ASSUME NEW i \in Leaves(fs) PROVE current_file(h, i) = current_file(d, i) /\ i \in DOMAIN h
    <2>1. \A g \in Nodes(fs) : /\ i \in DOMAIN g
                              /\ current_file(g, i) = Cardinality(LeavesUpTo(fs, i))
      BY LeavesAreCounted
    <2> QED BY <1>1, <2>1
  <1>3. /\ \A i, j \in Leaves(fs) : current_file(d, i) = current_file(d, j) => i = j
        /\ \A k \in 1..Len(fs) : \E i \in Leaves(fs) : current_file(d, i) = k
    BY <1>1, LeavesAreCounted
  <1>4. \A k \in DOMAIN fs : LeafOf(fs, k) \in Leaves(fs) /\ current_file(d, LeafOf(fs, k)) = k
    BY <1>1, <1>3 DEF LeafOf, d
  <1>5. \A i \in DOMAIN h : h[i].is_leaf_ <=> i \in Leaves(fs)
    BY HolderOfNodes DEF Leaves
  <1>6. \A i \in Leaves(fs) : i \in Indices(fs)
    BY DEF Leaves
  <1> DEFINE at(k) == CHOOSE i \in DOMAIN h : h[i].is_leaf_ /\ current_file(h, i) = k
  <1>7. \A k \in DOMAIN fs : at(k) = LeafOf(fs, k)
    <2> TAKE k \in DOMAIN fs
    <2>1. at(k) \in DOMAIN h /\ h[at(k)].is_leaf_ /\ current_file(h, at(k)) = k
      BY <1>2, <1>4, <1>5
    <2> QED BY <1>2, <1>3, <1>4, <1>5, <2>1
  <1>8. current_file(h, Len(h)) = Len(fs)
    BY LeavesAreCounted
  <1>9. file_priorities(h) = [k \in DOMAIN fs |-> h[at(k)].is_marked_]
    BY <1>1, <1>8 DEF file_priorities
  <1> HIDE DEF at
  <1>10. \A k \in DOMAIN fs : h[at(k)].is_marked_ = getMarks(h)[LeafOf(fs, k)] /\ getMarks(h)[LeafOf(fs, k)] \in BOOLEAN
    BY <1>4, <1>6, <1>7, MarksOfNodes
  <1>11. file_priorities(h) = [k \in DOMAIN fs |-> getMarks(h)[LeafOf(fs, k)]]
    BY <1>9, <1>10
  <1>12. file_priorities(h) \in [DOMAIN fs -> BOOLEAN]
    BY <1>10, <1>11
  <1>13. file_priorities(h) # <<>>
    <2>1. 1 \in DOMAIN fs
      BY <1>1, VerticesArePaths, EmptySeq
    <2> QED BY <1>12, <2>1
  <1> QED BY <1>3, <1>4, <1>6, <1>11, <1>12, <1>13 DEF d

\* If the files of every directory are next to each other, files are in
\* depth-first order.
LEMMA FilesAreInOrder ==
  ASSUME NEW fs \in Torrents, Grouped(fs), NEW k \in DOMAIN fs, NEW l \in DOMAIN fs, k < l
  PROVE  Before(fs, fs[k], fs[l])
  <1>1. /\ fs[k] \in Vertices(fs) /\ fs[l] \in Vertices(fs) /\ DOMAIN fs \subseteq Int
        /\ \A i \in DOMAIN fs : fs[i] \in Path
    <2>1. DOMAIN fs = 1..Len(fs) /\ Len(fs) \in Nat
      BY VerticesArePaths
    <2> QED BY <2>1, VerticesArePaths
  <1>2. fs[k] # fs[l]
    BY <1>1, LeavesAreFiles
  <1>3. SUFFICES ASSUME Before(fs, fs[l], fs[k]) PROVE FALSE
    BY <1>1, <1>2, BeforeIsTotal
  <1>4. ~IsStrictPrefix(fs[l], fs[k])
    BY <1>2, FilesAssumption DEF IsStrictPrefix
  <1>5. PICK n \in Nat : Parts(fs, fs[l], fs[k], n)
    BY <1>1, <1>3, <1>4, BeforeByParts
  <1> DEFINE a == SubSeq(fs[l], 1, n)
             b == SubSeq(fs[k], 1, n)
             i == FirstFile(fs, a)
             j == FirstFile(fs, b)
  <1>6. n \in 1..Len(fs[l]) /\ n \in 1..Len(fs[k]) /\ i < j
    BY <1>5 DEF Parts, Turn
  <1>7. a \in Vertices(fs) /\ b \in Vertices(fs) /\ a \in Path /\ b \in Path
    BY <1>1, <1>6, VerticesArePaths
  <1>8. n \in 0..Len(fs[l]) /\ n \in 0..Len(fs[k])
    BY <1>6
  <1>9. Len(a) = n /\ IsPrefix(a, fs[l]) /\ Len(b) = n /\ IsPrefix(b, fs[k])
    BY <1>1, <1>8, PrefixFacts
  <1> HIDE DEF a, b
  <1>10. /\ i \in DOMAIN fs /\ IsPrefix(a, fs[i]) /\ j \in DOMAIN fs /\ j <= k
    BY <1>7, <1>9, FirstFiles
  <1>11. i < k
    <2> HIDE DEF i, j
    <2> QED BY <1>1, <1>6, <1>10
  <1>12. IsPrefix(a, fs[k])
    <2> HIDE DEF i, j
    <2> QED BY <1>7, <1>9, <1>10, <1>11 DEF Grouped
  <1>13. IsPrefix(a, b)
    <2>1. Len(a) <= Len(b)
      BY <1>9
    <2> QED BY <1>1, <1>7, <1>9, <1>12, <2>1, PrefixOrder
  <1>14. a = b
    BY <1>7, <1>9, <1>13, PrefixOrder
  <1>15. i \in Int
    BY <1>1, <1>10
  <1> QED BY <1>6, <1>14, <1>15

\* Then the k-th leaf is file k.
LEMMA LeavesAreInOrder ==
  ASSUME NEW fs \in Torrents, Grouped(fs), NEW k \in DOMAIN fs
  PROVE  dfs(fs)[LeafOf(fs, k)].name_ = fs[k]
  <1> DEFINE name(i) == dfs(fs)[i].name_
             at(l) == CHOOSE i \in Leaves(fs) : name(i) = fs[l]
  <1>1. \A l \in DOMAIN fs : at(l) \in Leaves(fs) /\ name(at(l)) = fs[l]
    BY LeavesAreFiles
  <1>2. DOMAIN fs = 1..Len(fs) /\ Len(fs) \in Nat /\ k \in Nat /\ k >= 1 /\ 1..k \subseteq DOMAIN fs
    <2>1. DOMAIN fs = 1..Len(fs) /\ Len(fs) \in Nat
      BY VerticesArePaths
    <2> QED BY <2>1
  <1>3. \A i \in Leaves(fs) : i \in Indices(fs)
    BY DEF Leaves
  <1>4. dfs(fs) \in Nodes(fs) /\ Indices(fs) \subseteq Int /\ DOMAIN dfs(fs) = Indices(fs)
    <2>1. dfs(fs) \in Nodes(fs)
      BY NewHolderHasNodes
    <2>2. Len(dfs(fs)) \in Nat /\ DOMAIN dfs(fs) = 1..Len(dfs(fs))
      BY <2>1, HolderOfNodes
    <2> QED BY <2>1, <2>2 DEF Indices
  <1>5. ASSUME NEW l \in DOMAIN fs, NEW m \in DOMAIN fs, l < m PROVE at(l) < at(m)
    <2>1. Before(fs, name(at(l)), name(at(m)))
      BY <1>1, <1>5, FilesAreInOrder
    <2> HIDE DEF at
    <2> QED BY <1>1, <1>3, <1>4, <2>1, NodesAreInOrder
  <1> HIDE DEF at, name
  <1>6. \A l \in DOMAIN fs : at(l) <= at(k) <=> l <= k
    <2> TAKE l \in DOMAIN fs
    <2>1. at(l) \in Int /\ at(k) \in Int
      BY <1>1, <1>3, <1>4
    <2>2. CASE l < k
      BY <1>2, <1>5, <2>1, <2>2
    <2>3. CASE k < l
      BY <1>2, <1>5, <2>1, <2>3
    <2>4. CASE k = l
      BY <1>2, <2>1, <2>4
    <2> QED BY <1>2, <2>2, <2>3, <2>4
  <1> DEFINE f == [l \in 1..k |-> at(l)]
             L == LeavesUpTo(fs, at(k))
  <1>7. \A l \in 1..k : l \in DOMAIN fs /\ at(l) \in L
    BY <1>1, <1>2, <1>6 DEF LeavesUpTo
  <1>8. \A i \in L : \E l \in 1..k : at(l) = i
    <2> TAKE i \in L
    <2>1. i \in Leaves(fs) /\ i <= at(k)
      BY DEF LeavesUpTo
    <2>2. PICK l \in DOMAIN fs : name(i) = fs[l]
      BY <2>1, LeavesAreFiles DEF name
    <2>3. at(l) = i
      BY <1>1, <1>3, <2>1, <2>2, LeavesAreFiles DEF name
    <2>4. l <= k
      BY <1>6, <2>1, <2>3
    <2> QED BY <1>2, <2>3, <2>4
  <1>9. \A l, m \in 1..k : at(l) = at(m) => l = m
    <2> TAKE l \in 1..k, m \in 1..k
    <2> HAVE at(l) = at(m)
    <2>1. fs[l] = fs[m]
      BY <1>1, <1>7
    <2> QED BY <1>7, <2>1, LeavesAreFiles
  <1>10. f \in Surjection(1..k, L) /\ f \in Injection(1..k, L)
    <2>1. f \in [1..k -> L] /\ \A l \in 1..k : f[l] = at(l)
      BY <1>7
    <2> HIDE DEF f, L
    <2> QED BY <1>8, <1>9, <2>1 DEF Surjection, Injection, IsInjective
  <1>11. Cardinality(L) = k
    <2>1. IsFiniteSet(1..k) /\ Cardinality(1..k) = k
      BY <1>2, FS_Interval
    <2> HIDE DEF f, L
    <2> QED BY <1>10, <2>1, FS_Surjection
  <1>12. current_file(dfs(fs), at(k)) = k
    BY <1>1, <1>4, <1>11, LeavesAreCounted
  <1>13. LeafOf(fs, k) = at(k)
    BY <1>1, <1>4, <1>12, PrioritiesOfNodes
  <1> QED BY <1>1, <1>13 DEF name

\* The files that marks ask for are those that libtorrent is asked for.
LEMMA WantedAreMarked ==
  ASSUME NEW fs \in Torrents, Grouped(fs), NEW marks \in [Indices(fs) -> BOOLEAN]
  PROVE  /\ \A k \in DOMAIN fs : marks[LeafOf(fs, k)] <=>
              \E i \in DOMAIN marks : NewHolder[fs][i].name_ = fs[k] /\ marks[i]
         /\ MarkedFiles(fs, marks) = {fs[k] : k \in {j \in DOMAIN fs : marks[LeafOf(fs, j)]}}
  <1> DEFINE name(i) == dfs(fs)[i].name_
  <1>1. \A k \in DOMAIN fs : LeafOf(fs, k) \in Leaves(fs) /\ LeafOf(fs, k) \in Indices(fs) /\ name(LeafOf(fs, k)) = fs[k]
    BY NewHolderHasNodes, PrioritiesOfNodes, LeavesAreInOrder
  <1>2. /\ \A i \in Leaves(fs) : \E k \in DOMAIN fs : name(i) = fs[k]
        /\ \A i, j \in Indices(fs) : name(i) = name(j) => i = j
        /\ \A i \in Indices(fs) : i \in Leaves(fs) <=> dfs(fs)[i].is_leaf_
    BY LeavesAreFiles DEF Leaves
  <1>3. NewHolder[fs] = dfs(fs) /\ DOMAIN marks = Indices(fs)
    BY NewHolderHasNodes
  <1>4. MarkedFiles(fs, marks) = {name(i) : i \in {j \in Indices(fs) : j \in Leaves(fs) /\ marks[j]}}
    BY <1>2, <1>3 DEF MarkedFiles
  <1> HIDE DEF name
  <1>5. \A i \in Leaves(fs) : \E k \in DOMAIN fs : i = LeafOf(fs, k) /\ name(i) = fs[k]
    <2>1. \A i \in Leaves(fs) : i \in Indices(fs)
      BY DEF Leaves
    <2> QED BY <1>1, <1>2, <2>1
  <1>6. \A k \in DOMAIN fs : marks[LeafOf(fs, k)] <=> \E i \in Indices(fs) : name(i) = fs[k] /\ marks[i]
    BY <1>1, <1>2
  <1>7. MarkedFiles(fs, marks) = {fs[k] : k \in {j \in DOMAIN fs : marks[LeafOf(fs, j)]}}
    BY <1>1, <1>4, <1>5
  <1> QED BY <1>3, <1>6, <1>7 DEF name

------------------------------------------------------------------------------
(* The inductive invariant. *)

\* What libtorrent is asked for when a row has marks.
Asked(fs, marks) ==
  IF marks = <<>> THEN <<>> ELSE [k \in DOMAIN fs |-> marks[LeafOf(fs, k)]]

MarksFit(R) ==
  /\ R \in [Torrents -> Seq(BOOLEAN)]
  /\ \A fs \in Torrents : R[fs] = <<>> \/ R[fs] \in Fitting(fs)

\* The picker has the nodes of its torrent, with marks that fit.
HolderFits ==
  \/ files = <<>> /\ download_holder = <<>>
  \/ /\ files \in Torrents
     /\ download_holder \in Nodes(files) /\ getMarks(download_holder) \in Fitting(files)

\* The window is for a torrent that is not in the list.
WindowIsForNew ==
  \/ window = "closed"
  \/ window = "open" /\ program = "running" /\ files \in Torrents /\ rows[files] = <<>>

\* A row's marks fit, and libtorrent was asked for what they say.
RowsFit ==
  /\ MarksFit(rows)
  /\ priorities = [fs \in Torrents |-> Asked(fs, rows[fs])]

\* So do marks that the next run will read.
FileFits ==
  /\ program \in {"down", "running", "ending"}
  /\ database \in Database
  /\ MarksFit(database.rows)
  /\ database.content # "rows" => database.rows = NoRows

DatabaseInv == HolderFits /\ WindowIsForNew /\ RowsFit /\ FileFits

LEMMA FilesAreNotEmpty ==
  ASSUME NEW fs \in Torrents
  PROVE  fs # <<>>
  BY FilesAssumption

\* Marks that fit are those of some row, and no empty sequence.
LEMMA FittingMarks ==
  ASSUME NEW fs \in Torrents, NEW marks \in Fitting(fs)
  PROVE  /\ marks \in [Indices(fs) -> BOOLEAN] /\ marks \in Seq(BOOLEAN) /\ marks # <<>>
         /\ Asked(fs, marks) = [k \in DOMAIN fs |-> marks[LeafOf(fs, k)]]
         /\ Asked(fs, marks) \in [DOMAIN fs -> BOOLEAN] /\ Asked(fs, marks) # <<>>
  <1>1. marks \in [Indices(fs) -> BOOLEAN]
    BY DEF Fitting
  <1>2. Len(dfs(fs)) \in Nat /\ 1 \in Indices(fs)
    <2>1. Len(dfs(fs)) \in Nat /\ Len(dfs(fs)) >= 1
      BY NewHolderHasNodes
    <2> QED BY <2>1 DEF Indices
  <1>3. marks \in Seq(BOOLEAN)
    BY <1>1, <1>2 DEF Indices
  <1>4. marks # <<>>
    BY <1>1, <1>2
  <1>5. Asked(fs, marks) = [k \in DOMAIN fs |-> marks[LeafOf(fs, k)]]
    BY <1>4 DEF Asked
  <1>6. \A k \in DOMAIN fs : LeafOf(fs, k) \in Indices(fs)
    BY NewHolderHasNodes, PrioritiesOfNodes
  <1>7. Asked(fs, marks) \in [DOMAIN fs -> BOOLEAN]
    BY <1>1, <1>5, <1>6
  <1>8. 1 \in DOMAIN fs
    <2>1. DOMAIN fs = 1..Len(fs) /\ Len(fs) \in Nat
      BY VerticesArePaths
    <2> QED BY <2>1, FilesAreNotEmpty, VerticesArePaths, EmptySeq
  <1> QED BY <1>1, <1>3, <1>4, <1>5, <1>7, <1>8

LEMMA NoRowsFit ==
  /\ MarksFit(NoRows) /\ NoRows = [fs \in Torrents |-> Asked(fs, NoRows[fs])]
  /\ NoRows \in [Torrents -> Seq(BOOLEAN)]
  BY DEF MarksFit, NoRows, Asked

\* What createDownload gives libtorrent for a holder is what its marks ask for.
LEMMA AskedByHolder ==
  ASSUME NEW fs \in Torrents, NEW h \in Nodes(fs)
  PROVE  file_priorities(h) = Asked(fs, getMarks(h))
  BY PrioritiesOfNodes, MarksOfNodes DEF Asked

------------------------------------------------------------------------------
(* Every step keeps it. *)

LEMMA InvInit == DatabaseInit => DatabaseInv
  <1> SUFFICES ASSUME DatabaseInit PROVE DatabaseInv
    OBVIOUS
  <1>1. /\ files = <<>> /\ download_holder = <<>> /\ window = "closed" /\ program = "down"
        /\ rows = NoRows /\ priorities = NoRows /\ database = [content |-> "absent", rows |-> NoRows]
    BY DEF DatabaseInit, Init, NoRows
  <1>2. HolderFits /\ WindowIsForNew
    BY <1>1 DEF HolderFits, WindowIsForNew
  <1>3. RowsFit
    BY <1>1, NoRowsFit DEF RowsFit
  <1>4. FileFits
    BY <1>1, NoRowsFit DEF FileFits, Database
  <1> QED BY <1>2, <1>3, <1>4 DEF DatabaseInv

LEMMA InvStart == DatabaseInv /\ Start => DatabaseInv'
  <1> SUFFICES ASSUME DatabaseInv, Start PROVE DatabaseInv'
    OBVIOUS
  <1>1. PICK reached \in SUBSET Torrents : rows' = read_database(reached)
    BY DEF Start
  <1>2. FileFits /\ HolderFits /\ WindowIsForNew /\ MarksFit(database.rows)
    BY DEF DatabaseInv, FileFits
  <1>3. rows' = [fs \in Torrents |-> IF check_database /\ fs \in reached THEN database.rows[fs] ELSE <<>>]
    BY <1>1 DEF read_database
  <1>4. MarksFit(rows')
    <2>1. /\ database.rows \in [Torrents -> Seq(BOOLEAN)] /\ <<>> \in Seq(BOOLEAN)
          /\ \A fs \in Torrents : database.rows[fs] = <<>> \/ database.rows[fs] \in Fitting(fs)
      BY <1>2 DEF MarksFit
    <2>2. \A fs \in Torrents : rows'[fs] = <<>> \/ rows'[fs] = database.rows[fs]
      BY <1>3
    <2>3. rows' \in [Torrents -> Seq(BOOLEAN)]
      BY <1>3, <2>1
    <2> QED BY <2>1, <2>2, <2>3 DEF MarksFit
  <1>5. \A fs \in Torrents : rows'[fs] # <<>> =>
          /\ rows'[fs] \in Fitting(fs) /\ restore(fs, rows'[fs]) \in Nodes(fs)
          /\ getMarks(restore(fs, rows'[fs])) = rows'[fs]
    BY <1>4, RestoredMarks DEF MarksFit
  <1>6. \A fs \in Torrents : rows'[fs] # <<>> => file_priorities(restore(fs, rows'[fs])) = Asked(fs, rows'[fs])
    <2> TAKE fs \in Torrents
    <2> HAVE rows'[fs] # <<>>
    <2> DEFINE h == restore(fs, rows'[fs])
    <2>1. h \in Nodes(fs) /\ getMarks(h) = rows'[fs]
      BY <1>5
    <2> HIDE DEF h
    <2>2. file_priorities(h) = Asked(fs, rows'[fs])
      BY <2>1, AskedByHolder
    <2> QED BY <2>2 DEF h
  <1>7. \A fs \in Torrents : rows'[fs] = <<>> => Asked(fs, rows'[fs]) = <<>>
    BY DEF Asked
  <1>8. RowsFit'
    <2>1. priorities' = [fs \in Torrents |->
            IF rows'[fs] = <<>> THEN <<>> ELSE file_priorities(restore(fs, rows'[fs]))]
      BY DEF Start
    <2>2. priorities' = [fs \in Torrents |-> Asked(fs, rows'[fs])]
      BY <1>6, <1>7, <2>1
    <2> QED BY <1>4, <2>2 DEF RowsFit
  <1>9. HolderFits'
    <2>1. CASE UNCHANGED <<files, download_holder>>
      BY <1>2, <2>1 DEF HolderFits
    <2>2. CASE \E fs \in Torrents :
                 rows'[fs] # <<>> /\ files' = fs /\ download_holder' = restore(fs, rows'[fs])
      BY <1>5, <2>2 DEF HolderFits
    <2> QED BY <2>1, <2>2 DEF Start
  <1>10. WindowIsForNew'
    BY <1>2 DEF WindowIsForNew, Start
  <1>11. FileFits'
    BY <1>2 DEF FileFits, Start
  <1> QED BY <1>8, <1>9, <1>10, <1>11 DEF DatabaseInv

LEMMA InvOpenNew == DatabaseInv /\ program = "running" /\ OpenNew /\ UNCHANGED <<program, database>> => DatabaseInv'
  <1> SUFFICES ASSUME DatabaseInv, program = "running", OpenNew, UNCHANGED <<program, database>>
               PROVE  DatabaseInv'
    OBVIOUS
  <1>1. PICK fs \in Torrents : files' = fs /\ download_holder' = NewHolder[fs]
    BY DEF OpenNew, Open
  <1>2. HolderFits'
    BY <1>1, NewHolderHasNodes, NewMarksFit DEF HolderFits
  <1>3. WindowIsForNew'
    BY <1>1 DEF WindowIsForNew, OpenNew, Open
  <1>4. RowsFit' /\ FileFits'
    BY DEF DatabaseInv, RowsFit, FileFits, OpenNew, Open
  <1> QED BY <1>2, <1>3, <1>4 DEF DatabaseInv

LEMMA InvHand == DatabaseInv /\ Hand /\ UNCHANGED <<program, database>> => DatabaseInv'
  <1> SUFFICES ASSUME DatabaseInv, Hand, UNCHANGED <<program, database>> PROVE DatabaseInv'
    OBVIOUS
  <1>1. PICK i \in DOMAIN download_holder :
          download_holder' = setMark(download_holder, i, ~download_holder[i].is_marked_)
    BY DEF Hand
  <1>2. /\ files \in Torrents /\ download_holder \in Nodes(files)
        /\ getMarks(download_holder) \in Fitting(files)
    BY FilesAssumption DEF DatabaseInv, HolderFits, WindowIsForNew, Hand
  <1>3. i \in Indices(files) /\ (~download_holder[i].is_marked_) \in BOOLEAN
    BY <1>1, <1>2, HolderOfNodes
  <1>4. HolderFits'
    BY <1>1, <1>2, <1>3, setMarkFits DEF HolderFits, Hand
  <1>5. WindowIsForNew' /\ RowsFit' /\ FileFits'
    BY DEF DatabaseInv, WindowIsForNew, RowsFit, FileFits, Hand
  <1> QED BY <1>4, <1>5 DEF DatabaseInv

LEMMA InvAdd == DatabaseInv /\ Add /\ UNCHANGED <<program, database>> => DatabaseInv'
  <1> SUFFICES ASSUME DatabaseInv, Add, UNCHANGED <<program, database>> PROVE DatabaseInv'
    OBVIOUS
  <1> DEFINE m == getMarks(download_holder)
  <1>1. /\ files \in Torrents /\ download_holder \in Nodes(files) /\ m \in Fitting(files)
        /\ MarksFit(rows) /\ priorities = [fs \in Torrents |-> Asked(fs, rows[fs])]
    BY FilesAssumption DEF DatabaseInv, HolderFits, WindowIsForNew, RowsFit, Add
  <1>2. rows' = [rows EXCEPT ![files] = m] /\ priorities' = [priorities EXCEPT ![files] = Asked(files, m)]
    BY <1>1, AskedByHolder DEF Add
  <1>3. RowsFit'
    <2> HIDE DEF m
    <2>1. m \in Seq(BOOLEAN)
      BY <1>1, FittingMarks
    <2>2. rows \in [Torrents -> Seq(BOOLEAN)] /\ rows' \in [Torrents -> Seq(BOOLEAN)]
      BY <1>1, <1>2, <2>1 DEF MarksFit
    <2>3. rows'[files] = m /\ \A fs \in Torrents : fs # files => rows'[fs] = rows[fs]
      BY <1>1, <1>2, <2>2
    <2>4. MarksFit(rows')
      BY <1>1, <2>2, <2>3 DEF MarksFit
    <2>5. priorities' = [fs \in Torrents |-> Asked(fs, rows'[fs])]
      BY <1>1, <1>2, <2>3
    <2> QED BY <2>4, <2>5 DEF RowsFit
  <1>4. HolderFits' /\ WindowIsForNew' /\ FileFits'
    BY DEF DatabaseInv, HolderFits, WindowIsForNew, FileFits, Add
  <1> QED BY <1>3, <1>4 DEF DatabaseInv

LEMMA InvClose == DatabaseInv /\ Close /\ UNCHANGED <<program, database>> => DatabaseInv'
  BY DEF DatabaseInv, HolderFits, WindowIsForNew, RowsFit, FileFits, Close

LEMMA InvDelete == DatabaseInv /\ Delete => DatabaseInv'
  <1> SUFFICES ASSUME DatabaseInv, Delete PROVE DatabaseInv'
    OBVIOUS
  <1>1. PICK t \in Torrents : /\ rows' = [rows EXCEPT ![t] = <<>>]
                              /\ priorities' = [priorities EXCEPT ![t] = <<>>]
    BY DEF Delete
  <1>2. MarksFit(rows) /\ priorities = [fs \in Torrents |-> Asked(fs, rows[fs])] /\ Asked(t, <<>>) = <<>>
    BY DEF DatabaseInv, RowsFit, Asked
  <1>3. RowsFit'
    <2>1. rows'[t] = <<>> /\ \A fs \in Torrents : fs # t => rows'[fs] = rows[fs]
      BY <1>1, <1>2 DEF MarksFit
    <2>2. MarksFit(rows')
      BY <1>1, <1>2, <2>1 DEF MarksFit
    <2>3. priorities' = [fs \in Torrents |-> Asked(fs, rows'[fs])]
      BY <1>1, <1>2, <2>1
    <2> QED BY <2>2, <2>3 DEF RowsFit
  <1>4. HolderFits' /\ WindowIsForNew' /\ FileFits'
    BY DEF DatabaseInv, HolderFits, WindowIsForNew, FileFits, Delete
  <1> QED BY <1>3, <1>4 DEF DatabaseInv

LEMMA InvBeginWrite == DatabaseInv /\ BeginWrite => DatabaseInv'
  <1> SUFFICES ASSUME DatabaseInv, BeginWrite PROVE DatabaseInv'
    OBVIOUS
  <1>1. HolderFits' /\ WindowIsForNew' /\ RowsFit'
    BY DEF DatabaseInv, HolderFits, WindowIsForNew, RowsFit, BeginWrite, vars
  <1>2. program' = "ending" /\ database' = [content |-> "torn", rows |-> NoRows]
    BY DEF BeginWrite
  <1>3. FileFits'
    BY <1>2, NoRowsFit DEF FileFits, Database
  <1> QED BY <1>1, <1>3 DEF DatabaseInv

LEMMA InvDown ==
  ASSUME Down PROVE HolderFits' /\ WindowIsForNew' /\ RowsFit' /\ program' = "down"
  <1>1. HolderFits' /\ WindowIsForNew'
    BY DEF HolderFits, WindowIsForNew, Down
  <1>2. rows' = NoRows /\ priorities' = NoRows /\ program' = "down"
    BY DEF Down
  <1>3. RowsFit'
    BY <1>2, NoRowsFit DEF RowsFit
  <1> QED BY <1>1, <1>2, <1>3

LEMMA InvWrite == DatabaseInv /\ write_database => DatabaseInv'
  <1> SUFFICES ASSUME DatabaseInv, write_database PROVE DatabaseInv'
    OBVIOUS
  <1>1. HolderFits' /\ WindowIsForNew' /\ RowsFit' /\ program' = "down"
    BY InvDown DEF write_database
  <1>2. database' = [content |-> "rows", rows |-> rows] /\ MarksFit(rows)
    BY DEF write_database, DatabaseInv, RowsFit
  <1>3. FileFits'
    BY <1>1, <1>2 DEF FileFits, Database, MarksFit
  <1> QED BY <1>1, <1>3 DEF DatabaseInv

LEMMA InvCrash == DatabaseInv /\ Crash => DatabaseInv'
  <1> SUFFICES ASSUME DatabaseInv, Crash PROVE DatabaseInv'
    OBVIOUS
  <1>1. HolderFits' /\ WindowIsForNew' /\ RowsFit' /\ program' = "down"
    BY InvDown DEF Crash
  <1>2. FileFits'
    BY <1>1 DEF DatabaseInv, FileFits, Crash
  <1> QED BY <1>1, <1>2 DEF DatabaseInv

LEMMA DatabaseInvAlways == DatabaseSpec => []DatabaseInv
  <1>1. DatabaseInit => DatabaseInv
    BY InvInit
  <1>2. DatabaseInv /\ [DatabaseNext]_database_vars => DatabaseInv'
    <2> SUFFICES ASSUME DatabaseInv, [DatabaseNext]_database_vars PROVE DatabaseInv'
      OBVIOUS
    <2>1. CASE Start
      BY <2>1, InvStart
    <2>2. CASE Choose
      BY <2>2, InvOpenNew, InvHand, InvAdd, InvClose DEF Choose
    <2>3. CASE Delete
      BY <2>3, InvDelete
    <2>4. CASE BeginWrite
      BY <2>4, InvBeginWrite
    <2>5. CASE write_database
      BY <2>5, InvWrite
    <2>6. CASE Crash
      BY <2>6, InvCrash
    <2>7. CASE UNCHANGED database_vars
      BY <2>7 DEF DatabaseInv, HolderFits, WindowIsForNew, RowsFit, FileFits, database_vars
    <2> QED BY <2>1, <2>2, <2>3, <2>4, <2>5, <2>6, <2>7 DEF DatabaseNext
  <1> QED BY <1>1, <1>2, PTL DEF DatabaseSpec

------------------------------------------------------------------------------
(* The theorems. *)

\* The holder is a list of nodes, rows have a mark for every vertex of their
\* torrent, and libtorrent a priority for every file of each that is listed.
THEOREM DatabaseTypeCorrect == DatabaseSpec => []DatabaseTypeOK
  <1>1. DatabaseSpec => []DatabaseInv
    BY DatabaseInvAlways
  <1>2. DatabaseInv => DatabaseTypeOK
    <2> SUFFICES ASSUME DatabaseInv PROVE DatabaseTypeOK
      OBVIOUS
    <2>1. files \in Torrents \cup {<<>>} /\ download_holder \in Seq(FileNode)
      <3>1. <<>> \in Seq(FileNode)
        OBVIOUS
      <3>2. CASE files \in Torrents /\ download_holder \in Nodes(files)
        BY <3>2 DEF Nodes
      <3> QED BY <3>1, <3>2 DEF DatabaseInv, HolderFits
    <2>2. window \in {"closed", "open"}
      BY DEF DatabaseInv, WindowIsForNew
    <2>3. ASSUME NEW fs \in Torrents
          PROVE  \/ rows[fs] = <<>> /\ priorities[fs] = <<>>
                 \/ /\ rows[fs] \in [1..Cardinality(Vertices(fs)) -> BOOLEAN]
                    /\ priorities[fs] \in [DOMAIN fs -> BOOLEAN]
      <3>1. MarksFit(rows) /\ priorities[fs] = Asked(fs, rows[fs])
        BY DEF DatabaseInv, RowsFit
      <3>2. CASE rows[fs] = <<>>
        BY <3>1, <3>2 DEF Asked
      <3>3. CASE rows[fs] \in Fitting(fs)
        <4>1. rows[fs] \in [Indices(fs) -> BOOLEAN] /\ Asked(fs, rows[fs]) \in [DOMAIN fs -> BOOLEAN]
          BY <3>3, FittingMarks
        <4>2. Indices(fs) = 1..Cardinality(Vertices(fs))
          BY NewHolderHasNodes DEF Indices
        <4> QED BY <3>1, <4>1, <4>2
      <3> QED BY <3>1, <3>2, <3>3 DEF MarksFit
    <2>4. program \in {"down", "running", "ending"} /\ database \in Database
      BY DEF DatabaseInv, FileFits
    <2> QED BY <2>1, <2>2, <2>3, <2>4 DEF DatabaseTypeOK, PickerTypeOK
  <1> QED BY <1>1, <1>2, PTL

\* Every path of the torrent is in the list of the window once, and what lies
\* under it in the tree is what follows it on deeper levels: setMark, which has
\* only the levels, marks the right nodes.
THEOREM LevelsAreTheTree == DatabaseSpec => []LevelsEncodeTree
  <1>1. DatabaseSpec => []DatabaseInv
    BY DatabaseInvAlways
  <1>2. DatabaseInv => LevelsEncodeTree
    <2> SUFFICES ASSUME DatabaseInv PROVE LevelsEncodeTree
      OBVIOUS
    <2>1. CASE files = <<>> /\ download_holder = <<>>
      <3>1. ToSet(download_holder) = {} /\ Vertices(files) = {} /\ DOMAIN download_holder = {}
        BY <2>1 DEF ToSet, Vertices
      <3> QED BY <3>1 DEF LevelsEncodeTree
    <2>2. CASE files \in Torrents /\ download_holder \in Nodes(files)
      <3>1. /\ \A i \in DOMAIN download_holder : download_holder[i].name_ \in Vertices(files)
            /\ \A v \in Vertices(files) : \E i \in DOMAIN download_holder : download_holder[i].name_ = v
        BY <2>2, NodesAreInOrder
      <3>2. {node.name_ : node \in ToSet(download_holder)} = Vertices(files)
        BY <3>1 DEF ToSet
      <3>3. \A i, j \in DOMAIN download_holder :
              j \in Subtree(download_holder, i)
                <=> IsStrictPrefix(download_holder[i].name_, download_holder[j].name_)
        BY <2>2, SubtreeIsBelow
      <3> QED BY <3>2, <3>3 DEF LevelsEncodeTree
    <2> QED BY <2>1, <2>2 DEF DatabaseInv, HolderFits
  <1> QED BY <1>1, <1>2, PTL

\* Marks that fit are those of the files: all below a node is marked when the
\* files below it are.
LEMMA MarkedByFiles ==
  ASSUME NEW fs \in Torrents, NEW marks \in Fitting(fs), NEW i \in Indices(fs), Below(fs, i) # {}
  PROVE  marks[i] <=> \A j \in Below(fs, i) : j \in Leaves(fs) => marks[j]
  <1>1. marks[i] => \A j \in Below(fs, i) : marks[j]
    BY DEF Fitting
  <1>2. SUFFICES ASSUME \A j \in Below(fs, i) : j \in Leaves(fs) => marks[j], ~marks[i]
                 PROVE  FALSE
    BY <1>1
  <1>3. PICK k \in Below(fs, i) : ~marks[k]
    BY <1>2 DEF Fitting
  <1> DEFINE U == {j \in Below(fs, i) : ~marks[j]}
             N == Len(dfs(fs))
  <1>4. /\ \A l, m \in Indices(fs) : m \in Below(fs, l) => m > l
        /\ \A j \in Below(fs, i) : j \in Indices(fs) /\ j \in Int
        /\ N \in Nat
    <2>1. N \in Nat /\ Indices(fs) \subseteq Int
      BY NewHolderHasNodes DEF Indices
    <2> QED BY <2>1, Forest
  \* An unmarked node below i has an unmarked one after it.
  <1>5. ASSUME NEW j \in U PROVE \E l \in U : l > j
    <2>1. j \in Below(fs, i) /\ j \in Indices(fs) /\ j \notin Leaves(fs)
      BY <1>2, <1>4, <1>5
    <2>2. Below(fs, j) # {}
      BY <2>1, Forest DEF Leaves
    <2>3. PICK l \in Below(fs, j) : ~marks[l]
      BY <2>1, <2>2 DEF Fitting
    <2>4. l \in Indices(fs) /\ l > j
      BY <1>4, <2>1, <2>3, Forest
    <2>5. l \in Below(fs, i)
      BY <2>1, <2>3, <2>4, Forest
    <2> QED BY <2>3, <2>4, <2>5
  <1> DEFINE G == {n \in Nat : \E j \in U : j >= n}
  <1>6. 0 \in G
    <2>1. k \in U /\ k >= 0
      BY <1>3, <1>4 DEF Indices
    <2> QED BY <2>1
  <1>7. ASSUME NEW n \in Nat, n \in G PROVE n + 1 \in G
    <2>1. PICK j \in U : j >= n
      BY <1>7
    <2>2. PICK l \in U : l > j
      BY <1>5
    <2>3. l \in Int /\ j \in Int
      BY <1>4
    <2>4. l >= n + 1
      BY <2>1, <2>2, <2>3
    <2> QED BY <2>4
  <1>8. N + 1 \in G
    <2> HIDE DEF G
    <2> QED BY <1>4, <1>6, <1>7, Induction
  <1>9. PICK j \in U : j >= N + 1
    BY <1>8
  <1>10. j \in 1..N
    BY <1>4 DEF Indices
  <1> QED BY <1>4, <1>9, <1>10

\* After any clicks, and after marks have been read from TorrentX.json, a
\* directory in the window is marked if and only if every file under it is.
THEOREM DirectoriesShowTheirFiles == DatabaseSpec => []DirectoryMarkedIffFilesAre
  <1>1. DatabaseSpec => []DatabaseInv
    BY DatabaseInvAlways
  <1>2. DatabaseInv => DirectoryMarkedIffFilesAre
    <2> SUFFICES ASSUME DatabaseInv, NEW i \in DOMAIN download_holder, ~download_holder[i].is_leaf_
                 PROVE  download_holder[i].is_marked_
                          <=> \A j \in Subtree(download_holder, i) :
                                 download_holder[j].is_leaf_ => download_holder[j].is_marked_
      BY DEF DirectoryMarkedIffFilesAre
    <2> DEFINE m == getMarks(download_holder)
    <2>1. files \in Torrents /\ download_holder \in Nodes(files) /\ m \in Fitting(files)
      <3>1. download_holder # <<>>
        OBVIOUS
      <3> QED BY <3>1 DEF DatabaseInv, HolderFits
    <2>2. /\ i \in Indices(files) /\ Subtree(download_holder, i) = Below(files, i)
          /\ \A j \in Indices(files) : /\ m[j] = download_holder[j].is_marked_
                                       /\ download_holder[j].is_leaf_ <=> j \in Leaves(files)
      <3>1. DOMAIN download_holder = Indices(files)
        BY <2>1, HolderOfNodes
      <3> QED BY <2>1, <3>1, HolderOfNodes, MarksOfNodes DEF Leaves
    <2> HIDE DEF m
    <2>3. Below(files, i) # {} /\ \A j \in Below(files, i) : j \in Indices(files)
      BY <2>1, <2>2, Forest DEF Leaves
    <2>4. m[i] <=> \A j \in Below(files, i) : j \in Leaves(files) => m[j]
      BY <2>1, <2>2, <2>3, MarkedByFiles
    <2> QED BY <2>2, <2>3, <2>4
  <1> QED BY <1>1, <1>2, PTL

\* For torrents whose directories have their files next to each other,
\* libtorrent downloads the files that were marked, before and after restarts.
THEOREM WantedAsMarked ==
  ASSUME \A fs \in Torrents : Grouped(fs)
  PROVE  DatabaseSpec => []MarkedFilesAreWanted
  <1>1. DatabaseSpec => []DatabaseInv
    BY DatabaseInvAlways
  <1>2. DatabaseInv => MarkedFilesAreWanted
    <2> SUFFICES ASSUME DatabaseInv, NEW fs \in Torrents, rows[fs] # <<>>, NEW k \in DOMAIN fs
                 PROVE  priorities[fs][k] <=>
                          \E i \in DOMAIN rows[fs] : NewHolder[fs][i].name_ = fs[k] /\ rows[fs][i]
      BY DEF MarkedFilesAreWanted
    <2> DEFINE m == rows[fs]
    <2>1. m \in Fitting(fs) /\ priorities[fs] = Asked(fs, m)
      BY DEF DatabaseInv, RowsFit, MarksFit
    <2> HIDE DEF m
    <2>2. m \in [Indices(fs) -> BOOLEAN] /\ priorities[fs][k] = m[LeafOf(fs, k)]
      BY <2>1, FittingMarks
    <2>3. m[LeafOf(fs, k)] <=> \E i \in DOMAIN m : NewHolder[fs][i].name_ = fs[k] /\ m[i]
      BY <2>2, WantedAreMarked
    <2> QED BY <2>2, <2>3 DEF m
  <1> QED BY <1>1, <1>2, PTL

------------------------------------------------------------------------------
(* The list of downloads. *)

\* The files of a torrent with the given marks, as the list has them.
Choice(fs, marks) == IF marks = <<>> THEN {<<>>} ELSE MarkedFiles(fs, marks)
Chosen(R) == [fs \in Torrents |-> Choice(fs, R[fs])]

downloads ==
  [fs \in Torrents |-> IF priorities[fs] = <<>> THEN {<<>>} ELSE WantedFiles(fs)]
saved ==
  [fs \in Torrents |-> IF database.rows[fs] = <<>> THEN {<<>>} ELSE MarkedFiles(fs, database.rows[fs])]

\* The files that libtorrent was asked for are those that the rows' marks
\* stand for.
Downloaded(P) ==
  [fs \in Torrents |-> IF P[fs] = <<>> THEN {<<>>} ELSE {fs[k] : k \in {j \in DOMAIN fs : P[fs][j]}}]

LEMMA DownloadedIsChosen ==
  ASSUME \A fs \in Torrents : Grouped(fs),
         NEW R, MarksFit(R), NEW P, P = [fs \in Torrents |-> Asked(fs, R[fs])]
  PROVE  Downloaded(P) = Chosen(R)
  <1>1. ASSUME NEW fs \in Torrents
        PROVE  (IF P[fs] = <<>> THEN {<<>>} ELSE {fs[k] : k \in {j \in DOMAIN fs : P[fs][j]}}) = Choice(fs, R[fs])
    <2> DEFINE m == R[fs]
               Wanted == {fs[k] : k \in {j \in DOMAIN fs : P[fs][j]}}
    <2>1. P[fs] = Asked(fs, m) /\ (m = <<>> \/ m \in Fitting(fs))
      BY DEF MarksFit
    <2> HIDE DEF m
    <2>2. CASE m = <<>>
      BY <2>1, <2>2 DEF Asked, Choice, m
    <2>3. CASE m \in Fitting(fs)
      <3>1. /\ m \in [Indices(fs) -> BOOLEAN] /\ m # <<>> /\ Asked(fs, m) # <<>>
            /\ Asked(fs, m) = [k \in DOMAIN fs |-> m[LeafOf(fs, k)]]
        BY <2>3, FittingMarks
      <3>2. Wanted = {fs[k] : k \in {j \in DOMAIN fs : m[LeafOf(fs, j)]}}
        BY <2>1, <3>1
      <3>3. MarkedFiles(fs, m) = {fs[k] : k \in {j \in DOMAIN fs : m[LeafOf(fs, j)]}}
        BY <3>1, WantedAreMarked
      <3> QED BY <2>1, <3>1, <3>2, <3>3 DEF Choice, m
    <2> QED BY <2>1, <2>2, <2>3
  <1> QED BY <1>1 DEF Downloaded, Chosen

LEMMA SavedIsChosen == saved = Chosen(database.rows)
  BY DEF saved, Chosen, Choice

LEMMA NoRowsAreNothing == Chosen(NoRows) = List!Nothing
  BY DEF Chosen, Choice, NoRows, List!Nothing

LEMMA ListInit ==
  ASSUME \A fs \in Torrents : Grouped(fs)
  PROVE  DatabaseInit => List!Init
  <1> SUFFICES ASSUME DatabaseInit PROVE List!Init
    OBVIOUS
  <1>1. program = "down" /\ database.rows = NoRows /\ rows = NoRows
    BY DEF DatabaseInit, Init, NoRows
  <1>2. MarksFit(rows) /\ priorities = [fs \in Torrents |-> Asked(fs, rows[fs])]
    BY InvInit DEF DatabaseInv, RowsFit
  <1>3. downloads = Downloaded(priorities)
    BY DEF downloads, WantedFiles, Downloaded
  <1>4. downloads = List!Nothing /\ saved = List!Nothing
    BY <1>1, <1>2, <1>3, DownloadedIsChosen, SavedIsChosen, NoRowsAreNothing
  <1> QED BY <1>1, <1>4 DEF List!Init, downloads, saved

\* What the list's actions say of the two variables.
LEMMA ListSteps ==
  /\ \A reached \in SUBSET Torrents :
       /\ program = "down" /\ program' = "running" /\ saved' = saved
       /\ downloads' = [fs \in Torrents |-> IF fs \in reached THEN saved[fs] ELSE {<<>>}]
       => List!Next
  /\ \A t \in Torrents :
       /\ program = "running" /\ program' = program /\ saved' = saved
       /\ downloads[t] = {<<>>} \/ downloads'[t] = {<<>>}
       /\ downloads' = [downloads EXCEPT ![t] = downloads'[t]]
       => List!Next
  /\ program = "running" /\ program' = "ending" /\ saved' = List!Nothing /\ downloads' = downloads => List!Next
  /\ program = "ending" /\ program' = "down" /\ saved' = downloads /\ downloads' = List!Nothing => List!Next
  /\ program # "down" /\ program' = "down" /\ downloads' = List!Nothing /\ saved' = saved => List!Next
  /\ program' = program /\ saved' = saved /\ downloads' = downloads => UNCHANGED List!vars
  <1>1. ASSUME NEW reached \in SUBSET Torrents, program = "down", program' = "running", saved' = saved,
               downloads' = [fs \in Torrents |-> IF fs \in reached THEN saved[fs] ELSE {<<>>}]
        PROVE  List!Next
    <2>1. List!Start(reached)
      BY <1>1 DEF List!Start, downloads, saved
    <2> QED BY <2>1 DEF List!Next
  <1>2. ASSUME NEW t \in Torrents, program = "running", program' = program, saved' = saved,
               downloads[t] = {<<>>} \/ downloads'[t] = {<<>>},
               downloads' = [downloads EXCEPT ![t] = downloads'[t]]
        PROVE  List!Next
    <2>1. List!Change(t)
      BY <1>2 DEF List!Change, downloads, saved
    <2> QED BY <2>1 DEF List!Next
  <1>3. ASSUME program = "running", program' = "ending", saved' = List!Nothing, downloads' = downloads
        PROVE  List!Next
    BY <1>3 DEF List!Next, List!End, downloads, saved
  <1>4. ASSUME program = "ending", program' = "down", saved' = downloads, downloads' = List!Nothing
        PROVE  List!Next
    BY <1>4 DEF List!Next, List!Ended, downloads, saved
  <1>5. ASSUME program # "down", program' = "down", downloads' = List!Nothing, saved' = saved
        PROVE  List!Next
    BY <1>5 DEF List!Next, List!Crash, downloads, saved
  <1>6. ASSUME program' = program, saved' = saved, downloads' = downloads PROVE UNCHANGED List!vars
    BY <1>6 DEF List!vars, downloads, saved
  <1> QED BY <1>1, <1>2, <1>3, <1>4, <1>5, <1>6

\* A step of the program is one of the list, or changes nothing of it: opening,
\* clicking on and closing the window is not seen.
LEMMA ListNext ==
  ASSUME \A fs \in Torrents : Grouped(fs)
  PROVE  DatabaseInv /\ DatabaseInv' /\ [DatabaseNext]_database_vars => [List!Next]_(List!vars)
  <1> SUFFICES ASSUME DatabaseInv, DatabaseInv', [DatabaseNext]_database_vars
               PROVE  [List!Next]_(List!vars)
    OBVIOUS
  <1>1. downloads = Chosen(rows)
    <2>1. downloads = Downloaded(priorities)
      BY DEF downloads, WantedFiles, Downloaded
    <2>2. MarksFit(rows) /\ priorities = [fs \in Torrents |-> Asked(fs, rows[fs])]
      BY DEF DatabaseInv, RowsFit
    <2> QED BY <2>1, <2>2, DownloadedIsChosen
  <1>2. downloads' = Chosen(rows')
    <2>1. downloads' = Downloaded(priorities')
      BY DEF downloads, WantedFiles, Downloaded
    <2>2. MarksFit(rows') /\ priorities' = [fs \in Torrents |-> Asked(fs, rows'[fs])]
      BY DEF DatabaseInv, RowsFit, MarksFit
    <2> QED BY <2>1, <2>2, DownloadedIsChosen
  <1>3. saved = Chosen(database.rows) /\ saved' = Chosen(database'.rows)
    BY SavedIsChosen DEF saved, Chosen, Choice
  <1>4. CASE Start
    <2>1. PICK reached \in SUBSET Torrents : rows' = read_database(reached)
      BY <1>4 DEF Start
    <2>2. database.content # "rows" => database.rows = NoRows
      BY DEF DatabaseInv, FileFits
    <2>3. rows' = [fs \in Torrents |-> IF fs \in reached THEN database.rows[fs] ELSE <<>>]
      BY <2>1, <2>2 DEF read_database, check_database, NoRows
    <2>4. Chosen(rows') = [fs \in Torrents |-> IF fs \in reached THEN Chosen(database.rows)[fs] ELSE {<<>>}]
      BY <2>3 DEF Chosen, Choice
    <2>5. program = "down" /\ program' = "running" /\ database' = database
      BY <1>4 DEF Start
    <2> QED BY <1>2, <1>3, <2>4, <2>5, ListSteps
  <1>5. CASE Choose /\ rows' = rows
    <2>1. program' = program /\ database' = database
      BY <1>5 DEF Choose
    <2> QED BY <1>1, <1>2, <1>3, <1>5, <2>1, ListSteps
  <1>6. CASE Choose /\ Add
    <2>1. /\ program = "running" /\ program' = program /\ database' = database
          /\ rows' = [rows EXCEPT ![files] = getMarks(download_holder)]
      BY <1>6 DEF Choose, Add
    <2>2. files \in Torrents /\ rows[files] = <<>> /\ rows \in [Torrents -> Seq(BOOLEAN)]
      BY <1>6 DEF Add, DatabaseInv, WindowIsForNew, RowsFit, MarksFit
    <2>3. downloads' = [downloads EXCEPT ![files] = downloads'[files]] /\ downloads[files] = {<<>>}
      <3> DEFINE m == getMarks(download_holder)
      <3>1. rows' = [rows EXCEPT ![files] = m]
        BY <2>1
      <3> HIDE DEF m
      <3>2. Chosen(rows') = [Chosen(rows) EXCEPT ![files] = Choice(files, m)]
        <4>1. rows'[files] = m /\ \A fs \in Torrents : fs # files => rows'[fs] = rows[fs]
          BY <2>2, <3>1
        <4> QED BY <2>2, <4>1 DEF Chosen
      <3>3. Chosen(rows)[files] = {<<>>} /\ DOMAIN Chosen(rows) = Torrents
        BY <2>2 DEF Chosen, Choice
      <3> QED BY <1>1, <1>2, <2>2, <3>2, <3>3
    <2> QED BY <1>3, <2>1, <2>2, <2>3, ListSteps
  <1>7. CASE Delete
    <2>1. /\ program = "running" /\ program' = program /\ database' = database
          /\ rows \in [Torrents -> Seq(BOOLEAN)]
      BY <1>7 DEF Delete, DatabaseInv, RowsFit, MarksFit
    <2>2. PICK t \in Torrents : rows' = [rows EXCEPT ![t] = <<>>]
      BY <1>7 DEF Delete
    <2>3. downloads' = [downloads EXCEPT ![t] = downloads'[t]] /\ downloads'[t] = {<<>>}
      <3>1. Chosen(rows') = [Chosen(rows) EXCEPT ![t] = Choice(t, <<>>)]
        <4>1. rows'[t] = <<>> /\ \A fs \in Torrents : fs # t => rows'[fs] = rows[fs]
          BY <2>1, <2>2
        <4> QED BY <4>1 DEF Chosen
      <3>2. Choice(t, <<>>) = {<<>>} /\ DOMAIN Chosen(rows) = Torrents
        BY DEF Chosen, Choice
      <3> QED BY <1>1, <1>2, <3>1, <3>2
    <2> QED BY <1>3, <2>1, <2>3, ListSteps
  <1>8. CASE BeginWrite
    <2>1. /\ program = "running" /\ program' = "ending" /\ rows' = rows
          /\ database' = [content |-> "torn", rows |-> NoRows]
      BY <1>8 DEF BeginWrite, vars
    <2>2. database'.rows = NoRows
      BY <2>1
    <2> QED BY <1>1, <1>2, <1>3, <2>1, <2>2, NoRowsAreNothing, ListSteps
  <1>9. CASE write_database
    <2>1. /\ program = "ending" /\ program' = "down" /\ rows' = NoRows
          /\ database' = [content |-> "rows", rows |-> rows]
      BY <1>9 DEF write_database, Down
    <2>2. database'.rows = rows
      BY <2>1
    <2> QED BY <1>1, <1>2, <1>3, <2>1, <2>2, NoRowsAreNothing, ListSteps
  <1>10. CASE Crash
    <2>1. program # "down" /\ program' = "down" /\ rows' = NoRows /\ database' = database
      BY <1>10 DEF Crash, Down
    <2> QED BY <1>2, <1>3, <2>1, NoRowsAreNothing, ListSteps
  <1>11. CASE UNCHANGED database_vars
    <2>1. rows' = rows /\ program' = program /\ database' = database
      BY <1>11 DEF database_vars
    <2> QED BY <1>1, <1>2, <1>3, <2>1, ListSteps
  <1>12. Choose => rows' = rows \/ Add
    BY DEF Choose, OpenNew, Open, Hand, Close
  <1> QED BY <1>4, <1>5, <1>6, <1>7, <1>8, <1>9, <1>10, <1>11, <1>12 DEF DatabaseNext

\* The list of downloads, each with the choice of its files, lasts from one run
\* of the program to the next although only marks are written and setting each
\* again marks and clears other nodes: for torrents whose directories have their
\* files next to each other.
THEOREM RestartsKeepDownloads ==
  ASSUME \A fs \in Torrents : Grouped(fs)
  PROVE  DatabaseSpec => ImplementsDownloadList
  <1>1. DatabaseSpec => []DatabaseInv
    BY DatabaseInvAlways
  <1>2. DatabaseInit => List!Init
    BY ListInit
  <1>3. DatabaseInv /\ DatabaseInv' /\ [DatabaseNext]_database_vars => [List!Next]_(List!vars)
    BY ListNext
  <1> QED BY <1>1, <1>2, <1>3, PTL DEF DatabaseSpec, ImplementsDownloadList, List!Spec
==============================================================================
