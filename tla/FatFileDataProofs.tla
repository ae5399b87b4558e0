------------------------- MODULE FatFileDataProofs -------------------------
(***************************************************************************)
(* The contents of one file, for cards, clusters and blocks of every size  *)
(* and every sequence of calls: what is read is what was written, what the *)
(* last sync reported written survives a power failure, and whatever write *)
(* is refused, the chains on the card stay apart.                          *)
(*                                                                         *)
(* The invariant names the chain of the file, a sequence s of clusters.    *)
(* Its structure holds always; the data as long as no write was refused    *)
(* and no transfer of several blocks passed over a block of the cache.     *)
(***************************************************************************)
EXTENDS FatFileData, DataLemmas

-----------------------------------------------------------------------------
(* Where a unit is: in which cluster of the chain, which block of it, and where in that. *)

ClusterNo(x) == x \div ClusterSize
BlockNo(x) == (x \div BlockSize) % BlocksPerCluster
UnitNo(x) == x % BlockSize

\* The sizes, as numbers.
LEMMA SizesAre ==
    /\ LastCluster \in Nat /\ LastCluster >= 2
    /\ BlocksPerCluster \in Nat \ {0} /\ BlockSize \in Nat \ {0, 1}
    /\ ClusterSize \in Nat \ {0} /\ ClusterSize = BlockSize * BlocksPerCluster
  BY SizesAssumption DEF ClusterSize

\* A number is the multiple below it and what is left.
LEMMA Division ==
    ASSUME NEW m \in Nat \ {0}, NEW x \in Nat
    PROVE  x \div m \in Nat /\ x % m \in 0 .. m - 1 /\ x = m * (x \div m) + (x % m)
  OBVIOUS

\* A division is the only one of its kind.
LEMMA DivIs ==
    ASSUME NEW m \in Nat \ {0}, NEW k \in Nat, NEW r \in 0 .. m - 1
    PROVE  (m * k + r) \div m = k /\ (m * k + r) % m = r
<1> DEFINE x == m * k + r
<1>1. x \in Nat /\ m * k \in Nat
  OBVIOUS
<1> HIDE DEF x
<1>2. x \div m \in Nat /\ x % m \in 0 .. m - 1 /\ x = m * (x \div m) + (x % m)
  BY <1>1
<1>3. m * (x \div m - k) = r - (x % m)
  <2>1. m * (x \div m - k) = m * (x \div m) - m * k
    BY <1>2
  <2>2. QED
    BY <1>2, <2>1 DEF x
<1>4. x \div m - k = 0
  <2> DEFINE d == x \div m - k
  <2>1. d \in Int /\ m * d = r - (x % m)
    BY <1>2, <1>3
  <2>2. m * d < m /\ m * d > -m
    BY <1>2, <2>1
  <2> HIDE DEF d
  <2>3. d = 0
    BY <2>1, <2>2, SmallMultiple
  <2>4. QED
    BY <2>3 DEF d
<1>5. QED
  BY <1>2, <1>3, <1>4 DEF x

\* Every unit of a file has a place.
LEMMA PlaceOf ==
    ASSUME NEW x \in Nat
    PROVE  /\ ClusterNo(x) \in Nat
           /\ BlockNo(x) \in 0 .. BlocksPerCluster - 1 /\ UnitNo(x) \in 0 .. BlockSize - 1
           /\ x = ClusterSize * ClusterNo(x) + BlockSize * BlockNo(x) + UnitNo(x)
           /\ x \div BlockSize \in Nat
<1> USE SizesAre
<1> DEFINE y == x \div BlockSize
           k == y \div BlocksPerCluster
           j == y % BlocksPerCluster
           u == x % BlockSize
<1>1. y \in Nat /\ u \in 0 .. BlockSize - 1 /\ x = BlockSize * y + u
  OBVIOUS
<1> HIDE DEF y, u
<1>2. k \in Nat /\ j \in 0 .. BlocksPerCluster - 1 /\ y = BlocksPerCluster * k + j
  BY <1>1
<1> HIDE DEF k, j
<1>3. BlockSize * y = ClusterSize * k + BlockSize * j
  <2>1. BlockSize * (BlocksPerCluster * k + j)
          = BlockSize * (BlocksPerCluster * k) + BlockSize * j
    BY <1>2
  <2>2. BlockSize * (BlocksPerCluster * k) = ClusterSize * k
    BY <1>2
  <2>3. QED
    BY <1>2, <2>1, <2>2
<1>4. BlockSize * j + u \in 0 .. ClusterSize - 1
  <2>1. BlockSize * j <= BlockSize * (BlocksPerCluster - 1) /\ BlockSize * j \in Nat
    BY <1>2
  <2>2. BlockSize * (BlocksPerCluster - 1) = ClusterSize - BlockSize
    OBVIOUS
  <2>3. QED
    BY <1>1, <2>1, <2>2
<1>5. x = ClusterSize * k + (BlockSize * j + u)
  BY <1>1, <1>2, <1>3, <1>4
<1>6. x \div ClusterSize = k
  BY <1>2, <1>4, <1>5, DivIs
<1>7. QED
  BY <1>1, <1>2, <1>4, <1>5, <1>6 DEF ClusterNo, BlockNo, UnitNo, y, k, j, u

\* x is unit u of block j of cluster k.
Placed(x, k, j, u) ==
    /\ k \in Nat /\ j \in 0 .. BlocksPerCluster - 1 /\ u \in 0 .. BlockSize - 1
    /\ x = ClusterSize * k + BlockSize * j + u

\* The units of cluster k are in cluster k.
LEMMA ClusterIs ==
    ASSUME NEW k \in Nat, NEW r \in 0 .. ClusterSize - 1
    PROVE  (ClusterSize * k + r) \div ClusterSize = k
  BY SizesAre, DivIs

\* The place of a unit is the only one.
LEMMA PlaceIs ==
    ASSUME NEW x, NEW k, NEW j, NEW u, Placed(x, k, j, u)
    PROVE  x \in Nat /\ ClusterNo(x) = k /\ BlockNo(x) = j /\ UnitNo(x) = u
<1> USE SizesAre
<1>0. /\ k \in Nat /\ j \in 0 .. BlocksPerCluster - 1 /\ u \in 0 .. BlockSize - 1
      /\ x = ClusterSize * k + BlockSize * j + u
  BY DEF Placed
<1>1. BlockSize * j + u \in 0 .. ClusterSize - 1 /\ BlockSize * j \in Nat
  <2>1. BlockSize * j <= BlockSize * (BlocksPerCluster - 1) /\ BlockSize * j \in Nat
    BY <1>0
  <2>2. BlockSize * (BlocksPerCluster - 1) = ClusterSize - BlockSize
    OBVIOUS
  <2>3. QED
    BY <1>0, <2>1, <2>2
<1>2. ClusterSize * k \in Nat
  BY <1>0
<1>3. x = ClusterSize * k + (BlockSize * j + u)
  BY <1>0, <1>1, <1>2
<1>4. x \in Nat /\ x \div ClusterSize = k
  <2> DEFINE r == BlockSize * j + u
  <2>1. r \in 0 .. ClusterSize - 1 /\ x = ClusterSize * k + r
    BY <1>1, <1>3
  <2> HIDE DEF r
  <2>2. x \div ClusterSize = k
    BY <1>0, <2>1, ClusterIs, SMTT(30)
  <2>3. QED
    BY <1>2, <2>1, <2>2
<1>5. x = BlockSize * (BlocksPerCluster * k + j) + u
  <2>1. BlockSize * (BlocksPerCluster * k + j)
          = BlockSize * (BlocksPerCluster * k) + BlockSize * j
    BY <1>0
  <2>2. BlockSize * (BlocksPerCluster * k) = ClusterSize * k
    BY <1>0
  <2>3. QED
    BY <1>0, <1>1, <1>2, <2>1, <2>2
<1>6. BlocksPerCluster * k + j \in Nat
  BY <1>0
<1>7. x \div BlockSize = BlocksPerCluster * k + j /\ x % BlockSize = u
  <2> DEFINE z == BlocksPerCluster * k + j
  <2>1. z \in Nat /\ x = BlockSize * z + u
    BY <1>5, <1>6
  <2> HIDE DEF z
  <2>2. x \div BlockSize = z /\ x % BlockSize = u
    BY <1>0, <2>1, DivIs
  <2>3. QED
    BY <2>2 DEF z
<1>8. (BlocksPerCluster * k + j) % BlocksPerCluster = j
  BY <1>0, DivIs
<1>9. QED
  BY <1>4, <1>7, <1>8 DEF ClusterNo, BlockNo, UnitNo

\* Units below a number of clusters are in these clusters.
LEMMA BelowRoom ==
    ASSUME NEW x \in Nat, NEW n \in Nat
    PROVE  /\ n * ClusterSize \in Nat /\ n * ClusterSize = ClusterSize * n
           /\ x < n * ClusterSize <=> ClusterNo(x) < n
           /\ n * ClusterSize <= x <=> n <= ClusterNo(x)
<1> USE SizesAre
<1> DEFINE k == ClusterNo(x)
<1>1. k \in Nat /\ ClusterSize * k <= x /\ x < ClusterSize * k + ClusterSize
  <2>1. x \div ClusterSize \in Nat /\ x % ClusterSize \in 0 .. ClusterSize - 1
        /\ x = ClusterSize * (x \div ClusterSize) + (x % ClusterSize)
    BY Division
  <2>2. QED
    BY <2>1 DEF ClusterNo
<1> HIDE DEF k
<1>2. n * ClusterSize \in Nat /\ n * ClusterSize = ClusterSize * n
  OBVIOUS
<1>3. CASE k < n
  <2>1. ClusterSize * (k + 1) <= ClusterSize * n
    BY <1>1, <1>3
  <2>2. ClusterSize * (k + 1) = ClusterSize * k + ClusterSize
    BY <1>1
  <2>3. QED
    BY <1>1, <1>2, <1>3, <2>1, <2>2 DEF k
<1>4. CASE n <= k
  <2>1. ClusterSize * n <= ClusterSize * k
    BY <1>1, <1>4
  <2>2. QED
    BY <1>1, <1>2, <1>4, <2>1 DEF k
<1>5. QED
  BY <1>1, <1>3, <1>4

\* The first unit of a cluster, and the one before it.
LEMMA ClusterStarts ==
    ASSUME NEW p \in Nat
    PROVE  /\ UnitNo(p) = 0 /\ BlockNo(p) = 0 <=> p = ClusterSize * ClusterNo(p)
           /\ p > 0 => /\ p - 1 \in Nat
                       /\ ClusterNo(p - 1) = IF UnitNo(p) = 0 /\ BlockNo(p) = 0
                                               THEN ClusterNo(p) - 1 ELSE ClusterNo(p)
<1> USE SizesAre
<1> DEFINE k == ClusterNo(p)
           j == BlockNo(p)
           u == UnitNo(p)
<1>1. /\ k \in Nat /\ j \in 0 .. BlocksPerCluster - 1 /\ u \in 0 .. BlockSize - 1
      /\ p = ClusterSize * k + BlockSize * j + u
  BY PlaceOf
<1> HIDE DEF k, j, u
<1>2. ClusterSize * k \in Nat /\ BlockSize * j \in Nat
  BY <1>1
<1>3. BlockSize * j = 0 <=> j = 0
  BY <1>1
<1>4. u = 0 /\ j = 0 <=> p = ClusterSize * k
  BY <1>1, <1>2, <1>3
<1>5. ASSUME p > 0
      PROVE  ClusterNo(p - 1) = IF u = 0 /\ j = 0 THEN k - 1 ELSE k
  <2>1. CASE u > 0
    <3>1. p - 1 = ClusterSize * k + BlockSize * j + (u - 1) /\ u - 1 \in 0 .. BlockSize - 1
      BY <1>1, <1>2, <2>1
    <3>2. Placed(p - 1, k, j, u - 1)
      BY <1>1, <3>1 DEF Placed
    <3>3. QED
      BY <2>1, <3>2, PlaceIs
  <2>2. CASE u = 0 /\ j > 0
    <3>1. BlockSize * (j - 1) = BlockSize * j - BlockSize
      BY <1>1
    <3>2. p - 1 = ClusterSize * k + BlockSize * (j - 1) + (BlockSize - 1)
      BY <1>1, <1>2, <2>2, <3>1
    <3>3. j - 1 \in 0 .. BlocksPerCluster - 1 /\ BlockSize - 1 \in 0 .. BlockSize - 1
      BY <1>1, <2>2
    <3>4. Placed(p - 1, k, j - 1, BlockSize - 1)
      BY <1>1, <3>2, <3>3 DEF Placed
    <3>5. QED
      BY <2>2, <3>4, PlaceIs
  <2>3. CASE u = 0 /\ j = 0
    <3>1. k > 0
      BY <1>1, <1>4, <1>5, <2>3
    <3>2. ClusterSize * (k - 1) = ClusterSize * k - ClusterSize
      BY <1>1
    <3>3. BlockSize * (BlocksPerCluster - 1) = ClusterSize - BlockSize
      OBVIOUS
    <3>4. p - 1 = ClusterSize * (k - 1) + BlockSize * (BlocksPerCluster - 1) + (BlockSize - 1)
      BY <1>2, <1>4, <2>3, <3>2, <3>3
    <3>5. k - 1 \in Nat /\ BlocksPerCluster - 1 \in 0 .. BlocksPerCluster - 1
          /\ BlockSize - 1 \in 0 .. BlockSize - 1
      BY <1>1, <3>1
    <3>6. ClusterNo(p - 1) = k - 1
      <4>1. Placed(p - 1, k - 1, BlocksPerCluster - 1, BlockSize - 1)
        BY <3>4, <3>5 DEF Placed
      <4>2. QED
        BY <4>1, PlaceIs
    <3>7. QED
      BY <2>3, <3>6
  <2>4. QED
    BY <1>1, <2>1, <2>2, <2>3
<1>6. QED
  BY <1>4, <1>5 DEF k, j, u

\* The units behind p, as long as they stay in its block, and in its cluster.
LEMMA UnitsBehind ==
    ASSUME NEW p \in Nat, NEW d \in Nat, UnitNo(p) + d <= BlockSize - 1
    PROVE  /\ ClusterNo(p + d) = ClusterNo(p) /\ BlockNo(p + d) = BlockNo(p)
           /\ UnitNo(p + d) = UnitNo(p) + d
<1> USE SizesAre
<1>1. /\ ClusterNo(p) \in Nat /\ BlockNo(p) \in 0 .. BlocksPerCluster - 1
      /\ UnitNo(p) \in 0 .. BlockSize - 1
      /\ p = ClusterSize * ClusterNo(p) + BlockSize * BlockNo(p) + UnitNo(p)
  BY PlaceOf
<1> DEFINE a == ClusterSize * ClusterNo(p)
           c == BlockSize * BlockNo(p)
<1>2. a \in Nat /\ c \in Nat
  BY <1>1
<1>3. p + d = a + c + (UnitNo(p) + d)
  <2> HIDE DEF a, c
  <2>1. p = a + c + UnitNo(p)
    BY <1>1 DEF a, c
  <2>2. QED
    BY <1>1, <1>2, <2>1
<1>4. UnitNo(p) + d \in 0 .. BlockSize - 1 /\ p + d \in Int
  BY <1>1
<1>5. Placed(p + d, ClusterNo(p), BlockNo(p), UnitNo(p) + d)
  BY <1>1, <1>3, <1>4 DEF Placed
<1>6. QED
  BY <1>5, PlaceIs

\* The units of the blocks behind a block's first unit, in the same cluster.
LEMMA BlocksBehind ==
    ASSUME NEW p \in Nat, UnitNo(p) = 0, NEW i \in Nat, NEW u \in 0 .. BlockSize - 1,
           BlockNo(p) + i <= BlocksPerCluster - 1
    PROVE  /\ ClusterNo(p + BlockSize * i + u) = ClusterNo(p)
           /\ BlockNo(p + BlockSize * i + u) = BlockNo(p) + i
           /\ UnitNo(p + BlockSize * i + u) = u
           /\ BlockSize * i \in Nat /\ p + BlockSize * i + u \in Nat
<1> USE SizesAre
<1>1. /\ ClusterNo(p) \in Nat /\ BlockNo(p) \in 0 .. BlocksPerCluster - 1
      /\ p = ClusterSize * ClusterNo(p) + BlockSize * BlockNo(p) + UnitNo(p)
  BY PlaceOf
<1> DEFINE a == ClusterSize * ClusterNo(p)
           c == BlockSize * BlockNo(p)
           e == BlockSize * i
<1>2. a \in Nat /\ c \in Nat /\ e \in Nat
  BY <1>1
<1>3. BlockSize * (BlockNo(p) + i) = c + e
  BY <1>1
<1>4. BlockNo(p) + i \in 0 .. BlocksPerCluster - 1
  BY <1>1
<1>5. p + e + u = a + BlockSize * (BlockNo(p) + i) + u
  <2> HIDE DEF a, c, e
  <2>1. p = a + c
    BY <1>1, <1>2 DEF a, c
  <2>2. QED
    BY <1>2, <1>3, <2>1
<1>6. Placed(p + e + u, ClusterNo(p), BlockNo(p) + i, u)
  BY <1>1, <1>4, <1>5 DEF Placed
<1>7. QED
  BY <1>2, <1>6, PlaceIs

-----------------------------------------------------------------------------
(* Chains. *)

\* The clusters that no other file has.
Own == Clusters \ others
InChain(s) == {s[i] : i \in 1 .. Len(s)}

\* The file has the clusters of s, in the order of its chain, and all others are free.
ChainInv(s) ==
    /\ s \in Seq(Own)
    /\ \A i, j \in 1 .. Len(s) : s[i] = s[j] => i = j
    /\ \A i \in 1 .. Len(s) : fatCache[s[i]] = IF i = Len(s) THEN Eoc ELSE s[i + 1]
    /\ \A c \in Own : c \notin InChain(s) => fatCache[c] = Free
    /\ m_firstCluster = IF s = <<>> THEN 0 ELSE s[1]

\* t is what following the links of g from c leads to, one step after another.
LEMMA FollowRuns ==
    ASSUME NEW g, NEW c, NEW n \in Nat, NEW t, t[0] = c,
           \A k \in 1 .. n : t[k] = IF t[k - 1] \in Clusters THEN g[t[k - 1]] ELSE t[k - 1]
    PROVE  Follow(g, c, n) = t[n]
<1> DEFINE Walks(h) == h = [k \in 0 .. n |->
                              IF k = 0 THEN c
                              ELSE IF h[k - 1] \in Clusters THEN g[h[k - 1]] ELSE h[k - 1]]
           w == CHOOSE h : Walks(h)
           v == [k \in 0 .. n |-> t[k]]
           T == {k \in 0 .. n : w[k] = t[k]}
<1>1. Follow(g, c, n) = w[n]
  BY DEF Follow
<1>2. Walks(v)
  <2>1. \A k \in 0 .. n : t[k] = IF k = 0 THEN c
                                 ELSE IF v[k - 1] \in Clusters THEN g[v[k - 1]] ELSE v[k - 1]
    <3>1. SUFFICES ASSUME NEW k \in 0 .. n, k # 0
                   PROVE  t[k] = IF v[k - 1] \in Clusters THEN g[v[k - 1]] ELSE v[k - 1]
      OBVIOUS
    <3>2. k \in 1 .. n /\ k - 1 \in 0 .. n
      BY <3>1
    <3>3. QED
      BY <3>2
  <2>2. QED
    BY <2>1
<1>3. Walks(w)
  BY <1>2, Zenon
<1> HIDE DEF w, v
<1>4. \A k \in 0 .. n : w[k] = IF k = 0 THEN c
                               ELSE IF w[k - 1] \in Clusters THEN g[w[k - 1]] ELSE w[k - 1]
  BY <1>3
<1>5. \A k \in 0 .. n - 1 : k \in T => k + 1 \in T
  <2>1. SUFFICES ASSUME NEW k \in 0 .. n - 1, w[k] = t[k] PROVE w[k + 1] = t[k + 1]
    OBVIOUS
  <2>2. k + 1 \in 1 .. n /\ k + 1 \in 0 .. n /\ (k + 1) - 1 = k /\ k + 1 # 0
    BY <2>1
  <2>3. w[k + 1] = IF w[k] \in Clusters THEN g[w[k]] ELSE w[k]
    BY <1>4, <2>2
  <2>4. t[k + 1] = IF t[k] \in Clusters THEN g[t[k]] ELSE t[k]
    BY <2>2
  <2>5. QED
    BY <2>1, <2>3, <2>4
<1>6. 0 \in T
  BY <1>4
<1> HIDE DEF T
<1>7. n \in T
  BY <1>5, <1>6, SetInductionUpTo
<1>8. QED
  BY <1>1, <1>7 DEF T

\* Following the links of a chain from its cluster i leads to the cluster n
\* further on, or behind its end.
LEMMA FollowChain ==
    ASSUME NEW g, NEW s \in Seq(Clusters), NEW i \in 1 .. Len(s), NEW n \in Nat,
           \A j \in 1 .. Len(s) : g[s[j]] = IF j = Len(s) THEN Eoc ELSE s[j + 1]
    PROVE  Follow(g, s[i], n) = IF i + n <= Len(s) THEN s[i + n] ELSE Eoc
<1> DEFINE t == [k \in 0 .. n |-> IF i + k <= Len(s) THEN s[i + k] ELSE Eoc]
<1>1. Len(s) \in Nat /\ \A j \in 1 .. Len(s) : s[j] \in Clusters
  OBVIOUS
<1>2. Eoc \notin Clusters
  BY SizesAre DEF Eoc, Clusters
<1>3. t[0] = s[i]
  BY <1>1
<1>4. \A k \in 1 .. n : t[k] = IF t[k - 1] \in Clusters THEN g[t[k - 1]] ELSE t[k - 1]
  <2>1. SUFFICES ASSUME NEW k \in 1 .. n
                 PROVE  t[k] = IF t[k - 1] \in Clusters THEN g[t[k - 1]] ELSE t[k - 1]
    OBVIOUS
  <2>2. /\ k \in 0 .. n /\ k - 1 \in 0 .. n
        /\ t[k - 1] = (IF i + k - 1 <= Len(s) THEN s[i + k - 1] ELSE Eoc)
        /\ t[k] = (IF i + k <= Len(s) THEN s[i + k] ELSE Eoc)
    BY <1>1
  <2>3. CASE i + k - 1 <= Len(s)
    <3>1. i + k - 1 \in 1 .. Len(s) /\ (i + k - 1) + 1 = i + k
      BY <1>1, <2>3
    <3>2. QED
      BY <1>1, <2>2, <2>3, <3>1
  <2>4. CASE i + k - 1 > Len(s)
    BY <1>1, <1>2, <2>2, <2>4
  <2>5. QED
    BY <1>1, <2>3, <2>4
<1>5. t[n] = IF i + n <= Len(s) THEN s[i + n] ELSE Eoc
  OBVIOUS
<1> HIDE DEF t
<1>6. QED
  BY <1>3, <1>4, <1>5, FollowRuns

\* As far as it is known where the links lead.
LEMMA FollowPart ==
    ASSUME NEW g, NEW s \in Seq(Clusters), NEW n \in Nat, n + 1 <= Len(s),
           \A j \in 1 .. n : g[s[j]] = s[j + 1]
    PROVE  Follow(g, s[1], n) = s[n + 1]
<1> DEFINE t == [k \in 0 .. n |-> s[k + 1]]
<1>1. Len(s) \in Nat /\ \A j \in 1 .. Len(s) : s[j] \in Clusters
  OBVIOUS
<1>2. t[0] = s[1] /\ t[n] = s[n + 1]
  OBVIOUS
<1>3. \A k \in 1 .. n : t[k] = IF t[k - 1] \in Clusters THEN g[t[k - 1]] ELSE t[k - 1]
  <2>1. SUFFICES ASSUME NEW k \in 1 .. n PROVE t[k] = g[t[k - 1]] /\ t[k - 1] \in Clusters
    OBVIOUS
  <2>2. /\ k \in 0 .. n /\ k - 1 \in 0 .. n /\ k \in 1 .. Len(s)
        /\ t[k - 1] = s[k] /\ t[k] = s[k + 1]
    BY <1>1
  <2>3. QED
    BY <1>1, <2>2
<1> HIDE DEF t
<1>4. QED
  BY <1>2, <1>3, FollowRuns

\* From no cluster, following links leads to none.
LEMMA FollowNone ==
    ASSUME NEW g, NEW n \in Nat
    PROVE  Follow(g, 0, n) = 0
<1> DEFINE t == [k \in 0 .. n |-> 0]
<1>1. 0 \notin Clusters
  BY SizesAre DEF Clusters
<1>2. t[0] = 0 /\ t[n] = 0
  OBVIOUS
<1>3. \A k \in 1 .. n : t[k] = IF t[k - 1] \in Clusters THEN g[t[k - 1]] ELSE t[k - 1]
  BY <1>1
<1> HIDE DEF t
<1>4. QED
  BY <1>2, <1>3, FollowRuns

\* The clusters of a chain are apart, and not more than there are.
LEMMA ChainTyped ==
    ASSUME NEW s, ChainInv(s), others \subseteq Clusters
    PROVE  /\ s \in Seq(Clusters) /\ Len(s) \in Nat /\ Len(s) <= LastCluster
           /\ \A i \in 1 .. Len(s) : s[i] \in Own
           /\ InChain(s) \subseteq Own
<1>1. /\ s \in Seq(Own) /\ Len(s) \in Nat /\ \A i \in 1 .. Len(s) : s[i] \in Own
      /\ InChain(s) \subseteq Own /\ Own \subseteq Clusters
  BY DEF ChainInv, InChain, Own
<1>2. s \in Seq(Clusters)
  BY <1>1
<1>3. Len(s) <= LastCluster
  <2> DEFINE I == 1 .. Len(s)
             F == [i \in I |-> s[i]]
  <2>1. IsFiniteSet(I) /\ Cardinality(I) = Len(s)
    BY <1>1, FS_Interval, SMTT(30)
  <2>2. \A i, j \in I : F[i] = F[j] => i = j
    BY DEF ChainInv
  <2>3. F \in [I -> InChain(s)] /\ \A c \in InChain(s) : \E i \in I : F[i] = c
    BY DEF InChain
  <2>4. F \in Bijection(I, InChain(s))
    BY <2>2, <2>3 DEF Bijection, Injection, Surjection, IsInjective
  <2>5. ExistsBijection(I, InChain(s))
    BY <2>4 DEF ExistsBijection
  <2>6. Cardinality(InChain(s)) = Len(s)
    BY <2>1, <2>5, FS_Bijection
  <2>7. IsFiniteSet(Clusters) /\ Cardinality(Clusters) = LastCluster - 1
    BY SizesAre, FS_Interval DEF Clusters
  <2>8. Cardinality(InChain(s)) <= Cardinality(Clusters)
    BY <1>1, <2>7, FS_Subset
  <2>9. QED
    BY SizesAre, <1>1, <2>6, <2>7, <2>8
<1>4. QED
  BY <1>1, <1>2, <1>3

\* The clusters from one on.
LEMMA ChainFrom ==
    ASSUME NEW s, ChainInv(s), others \subseteq Clusters, NEW i \in 1 .. Len(s)
    PROVE  Chain(fatCache, s[i]) = {s[j] : j \in i .. Len(s)}
<1>1. /\ s \in Seq(Clusters) /\ Len(s) \in Nat /\ Len(s) <= LastCluster
      /\ LastCluster \in Nat /\ \A j \in 1 .. Len(s) : s[j] \in Clusters
  BY ChainTyped, SizesAre
<1>2. \A j \in 1 .. Len(s) : fatCache[s[j]] = IF j = Len(s) THEN Eoc ELSE s[j + 1]
  BY DEF ChainInv
<1>3. \A n \in Nat : Follow(fatCache, s[i], n) = IF i + n <= Len(s) THEN s[i + n] ELSE Eoc
  BY <1>1, <1>2, FollowChain
<1>4. Eoc \notin Clusters
  BY SizesAre DEF Eoc, Clusters
<1>5. \A j \in i .. Len(s) : j - i \in 0 .. LastCluster /\ Follow(fatCache, s[i], j - i) = s[j]
  <2>1. SUFFICES ASSUME NEW j \in i .. Len(s)
                 PROVE  j - i \in 0 .. LastCluster /\ Follow(fatCache, s[i], j - i) = s[j]
    OBVIOUS
  <2>2. j - i \in Nat /\ j - i <= LastCluster /\ i + (j - i) = j /\ j <= Len(s)
    BY <1>1
  <2>3. Follow(fatCache, s[i], j - i)
          = IF i + (j - i) <= Len(s) THEN s[i + (j - i)] ELSE Eoc
    BY <1>3, <2>2
  <2>4. QED
    BY <1>1, <2>2, <2>3
<1>6. \A k \in 0 .. LastCluster :
        Follow(fatCache, s[i], k) \in Clusters =>
            i + k \in i .. Len(s) /\ Follow(fatCache, s[i], k) = s[i + k]
  <2>1. SUFFICES ASSUME NEW k \in 0 .. LastCluster, Follow(fatCache, s[i], k) \in Clusters
                 PROVE  i + k \in i .. Len(s) /\ Follow(fatCache, s[i], k) = s[i + k]
    OBVIOUS
  <2>2. k \in Nat
    BY <1>1
  <2>3. Follow(fatCache, s[i], k) = IF i + k <= Len(s) THEN s[i + k] ELSE Eoc
    BY <1>3, <2>2
  <2>4. QED
    BY <1>1, <1>4, <2>1, <2>2, <2>3
<1>7. QED
  BY <1>1, <1>5, <1>6 DEF Chain

\* A file without a first cluster has no clusters.
LEMMA ChainOfNone == Chain(fatCache, 0) = {}
<1>1. 0 \notin Clusters /\ \A k \in 0 .. LastCluster : Follow(fatCache, 0, k) = 0
  BY SizesAre, FollowNone DEF Clusters
<1>2. QED
  BY <1>1 DEF Chain

\* Where s is unchanged.
LEMMA ChainStays ==
    ASSUME NEW s, ChainInv(s), UNCHANGED <<fatCache, others, m_firstCluster>>
    PROVE  ChainInv(s)'
  BY DEF ChainInv, Own, InChain

\* A free cluster is found, and is not in the chain.
LEMMA FirstFreeIs ==
    ASSUME FreeClusters # {}, NEW start \in Int
    PROVE  FirstFree(start) \in Clusters /\ fatCache[FirstFree(start)] = Free
<1> DEFINE S == {Distance(c, start) : c \in FreeClusters}
           Nearest(c) == \A d \in FreeClusters : Distance(c, start) <= Distance(d, start)
<1>1. S \in SUBSET Nat /\ S # {}
  <2>1. LastCluster - 1 \in Nat \ {0}
    BY SizesAre
  <2>2. \A c \in FreeClusters : c \in Int /\ c - start - 1 \in Int
    BY SizesAre DEF FreeClusters, Clusters
  <2>3. \A c \in FreeClusters : Distance(c, start) \in Nat
    <3>1. \A x \in Int : x % (LastCluster - 1) \in Nat
      <4> DEFINE m == LastCluster - 1
      <4>1. m \in Nat /\ m > 0
        BY SizesAre
      <4> HIDE DEF m
      <4>2. \A x \in Int : x % m \in 0 .. m - 1
        BY <4>1
      <4>3. QED
        BY <4>1, <4>2 DEF m
    <3>2. SUFFICES ASSUME NEW c \in FreeClusters PROVE Distance(c, start) \in Nat
      OBVIOUS
    <3> DEFINE x == c - start - 1
    <3>3. x \in Int /\ Distance(c, start) = x % (LastCluster - 1)
      BY <2>2 DEF Distance
    <3> HIDE DEF x
    <3>4. QED
      BY <3>1, <3>3
  <2>4. QED
    BY <2>3
<1>2. PICK m \in S : \A x \in S : m <= x
  <2> HIDE DEF S
  <2>1. QED
    BY <1>1, LeastOf
<1>3. \E c \in FreeClusters : Nearest(c)
  BY <1>2
<1>4. FirstFree(start) \in FreeClusters
  BY <1>3, Zenon DEF FirstFree
<1>5. QED
  BY <1>4 DEF FreeClusters

-----------------------------------------------------------------------------
(* The invariant: what always holds, and what does as long as nothing goes   *)
(* wrong.                                                                    *)

Units == [1 .. BlockSize -> Nat]

\* write() is under way.
Writing == pc \in {"cluster", "block"}

\* The card has its blocks and the cache one of them, or none.
ShapeInv ==
    /\ DOMAIN disk = Blocks \cup {DirBlock}
    /\ \A b \in Blocks : disk[b] \in Units
    /\ cache = [lbn |-> cache.lbn, dirty |-> cache.dirty, data |-> cache.data]
    /\ cache.lbn \in Blocks => cache.data \in Units
    /\ searchStart \in Int /\ refused \in Nat /\ calls \in Nat /\ value \in Nat
    /\ unmoored \in BOOLEAN /\ overlapped \in BOOLEAN /\ grown \in BOOLEAN
    /\ fatCache = [c \in Clusters |-> fatCache[c]]

\* What a call under way has to do still.
WorkInv ==
    /\ nToWrite > 0 => Writing
    /\ toRead > 0 => pc = "read"
    /\ pc = "block" => nToWrite > 0

Theirs == {StartBlock(c) + k : c \in others, k \in 0 .. BlocksPerCluster - 1}

\* The other files: their clusters are not free, and their blocks are as they
\* were and will be.
OthersInv ==
    /\ others \subseteq Clusters
    /\ \A c \in others : fatCache[c] = Eoc /\ fatDisk[c] = Eoc
    /\ \A b \in Theirs : disk[b] = Blank
    /\ cache.dirty => cache.lbn \notin Theirs

\* Where the file is.
PlaceInv(s) ==
    /\ m_curCluster \in InChain(s) \cup {0} \/ unmoored
    /\ m_curCluster = 0 => m_curPosition = 0
    /\ unmoored => s = <<>> /\ m_curPosition = 0 /\ toRead = 0 /\ ~Writing
    /\ s = <<>> => m_curPosition = 0 /\ m_fileSize = 0 /\ newPos <= 0 /\ toRead = 0
    /\ newPos <= m_fileSize
    /\ pc = "block" => m_curCluster \in InChain(s)

\* What holds always: the structure of a file with the clusters s.
StructInv(s) ==
    TypeOK /\ ShapeInv /\ WorkInv /\ OthersInv /\ ChainInv(s) /\ PlaceInv(s)

\* The cluster of the unit in front of p, as the file remembers it.
At(s, p) == IF p = 0 THEN 0 ELSE s[ClusterNo(p - 1) + 1]
Room(s) == Len(s) * ClusterSize
Stuck(s) == FreeClusters = {} /\ m_curPosition = Room(s)

\* The position is in the file's room, and the current cluster is the
\* position's; it is behind what was written only where a write found the card
\* full.
PositionInv(s) ==
    /\ ~unmoored
    /\ pc # "block" => m_curPosition <= Room(s) /\ m_curCluster = At(s, m_curPosition)
    /\ pc = "block" => /\ m_curPosition < Room(s)
                       /\ m_curCluster = s[ClusterNo(m_curPosition) + 1]
    /\ \/ m_curPosition <= Len(content)
       \/ Stuck(s) /\ pc # "block" /\ (pc = "cluster" => nToWrite > 0)

\* Between the calls the length is that of what was written; a write under way
\* is ahead of it.
LengthInv(s) ==
    /\ content \in Seq(Nat) /\ synced \in Seq(Nat) /\ got \in Seq(Nat) /\ size \in Nat
    /\ Len(content) <= Room(s) /\ size = m_fileSize
    /\ ~Writing => Len(content) = size
    /\ Writing => /\ Len(content) >= size
                  /\ Len(content) > size => Len(content) = m_curPosition

\* Where unit x + 1 of a file is that has the clusters s, and the first n units of t
\* on the card d.
BlockAt(s, x) == StartBlock(s[ClusterNo(x) + 1]) + BlockNo(x)
UnitAt(d, s, x) == d[BlockAt(s, x)][UnitNo(x) + 1]
Holds(d, s, t, n) == \A x \in 0 .. n - 1 : UnitAt(d, s, x) = t[x + 1]

\* Every unit written is where the chain says, on the card or in the cache.
UnitsInv(s) == Holds(Synced, s, content, Len(content))

\* The cached block is the one on the card or is dirty, and the entry is the
\* one on the card, in the cache, or to be written.
CoherentInv ==
    /\ cache.lbn # NoBlock /\ ~cache.dirty => cache.data = disk[cache.lbn]
    /\ ~dirDirty => Synced[DirBlock] = Entry
    /\ pc \in {"data", "fat"} => ~dirDirty
    /\ pc = "fat" => ~cache.dirty
    /\ cache.lbn = DirBlock /\ cache.dirty => pc = "data"

\* What read() got so far is what is in front of its position.
ReadingInv(s) ==
    /\ pc = "read" =>
         /\ Len(got) <= m_curPosition
         /\ got = SubSeq(content, m_curPosition - Len(got) + 1, m_curPosition)
         /\ m_curPosition <= Len(content) => m_curPosition + toRead <= Len(content)
         /\ m_curPosition > Len(content) => got = <<>>
    /\ pc # "read" => got = <<>>

\* What the last sync reported written is on the card alone: the entry, the
\* links and the units that lead to it.
SyncedInv(s) ==
    grown =>
      /\ Len(synced) <= size
      /\ \A i \in 1 .. Len(synced) : synced[i] = content[i]
      /\ disk[DirBlock].size \in Nat /\ disk[DirBlock].size >= Len(synced)
      /\ Len(synced) > 0 => disk[DirBlock].first = s[1]
      /\ \A i \in 1 .. Len(s) : ClusterSize * i < Len(synced) => fatDisk[s[i]] = s[i + 1]
      /\ Holds(disk, s, content, Len(synced))
      /\ Writing => m_curPosition >= Len(synced)

\* What holds as long as nothing disturbs the file.
DataInv(s) ==
    /\ PositionInv(s) /\ LengthInv(s) /\ UnitsInv(s)
    /\ CoherentInv /\ ReadingInv(s) /\ SyncedInv(s)

\* The invariant of a file with the clusters s.
FileInv(s) == StructInv(s) /\ (Undisturbed => DataInv(s))

-----------------------------------------------------------------------------
(* Addresses on the card. *)

\* A block of a cluster is a block of the data area, and of no other cluster.
LEMMA Addresses ==
    ASSUME NEW c \in Clusters, NEW j \in 0 .. BlocksPerCluster - 1
    PROVE  /\ StartBlock(c) + j \in Blocks
           /\ StartBlock(c) + j # DirBlock /\ StartBlock(c) + j # NoBlock
           /\ \A d \in Clusters : \A k \in 0 .. BlocksPerCluster - 1 :
                StartBlock(c) + j = StartBlock(d) + k => c = d /\ j = k
<1> USE SizesAre
<1>1. ASSUME NEW d \in Clusters, NEW k \in 0 .. BlocksPerCluster - 1
      PROVE  /\ (StartBlock(d) + k) \div BlocksPerCluster = d - 2
             /\ (StartBlock(d) + k) % BlocksPerCluster = k
             /\ d - 2 \in Nat
  <2>1. d - 2 \in Nat /\ StartBlock(d) = BlocksPerCluster * (d - 2)
    BY DEF Clusters, StartBlock
  <2>2. (BlocksPerCluster * (d - 2) + k) \div BlocksPerCluster = d - 2
        /\ (BlocksPerCluster * (d - 2) + k) % BlocksPerCluster = k
    <3> DEFINE e == d - 2
    <3>1. e \in Nat /\ BlocksPerCluster \in Nat \ {0}
      BY <2>1
    <3> HIDE DEF e
    <3>2. (BlocksPerCluster * e + k) \div BlocksPerCluster = e
          /\ (BlocksPerCluster * e + k) % BlocksPerCluster = k
      BY <3>1, DivIs
    <3>3. QED
      BY <3>2 DEF e
  <2>3. QED
    BY <2>1, <2>2
<1>2. StartBlock(c) + j \in Blocks
  <2>1. c - 2 \in Nat /\ c - 2 <= LastCluster - 2 /\ c \in Int
    BY DEF Clusters
  <2>2. /\ (c - 2) * BlocksPerCluster \in Nat
        /\ (c - 2) * BlocksPerCluster <= (LastCluster - 2) * BlocksPerCluster
    BY <2>1
  <2>3. (LastCluster - 2) * BlocksPerCluster + BlocksPerCluster
          = (LastCluster - 1) * BlocksPerCluster
    OBVIOUS
  <2>4. QED
    BY <2>2, <2>3 DEF StartBlock, Blocks
<1>3. ASSUME NEW d \in Clusters, NEW k \in 0 .. BlocksPerCluster - 1,
             StartBlock(c) + j = StartBlock(d) + k
      PROVE  c = d /\ j = k
  <2>1. c - 2 = d - 2 /\ j = k
    BY <1>1, <1>3
  <2>2. QED
    BY <2>1 DEF Clusters
<1>4. QED
  BY <1>2, <1>3 DEF Blocks, DirBlock, NoBlock

\* A file of clusters that are all different has every unit somewhere of its own.
Apart(s) ==
    /\ s \in Seq(Clusters) /\ Len(s) \in Nat
    /\ \A i, j \in 1 .. Len(s) : s[i] = s[j] => i = j

\* The units that have room in the clusters of a file.
LEMMA RoomIs ==
    ASSUME NEW s, Apart(s), NEW x \in Nat
    PROVE  /\ Room(s) \in Nat /\ Room(s) = ClusterSize * Len(s)
           /\ x < Room(s) <=> ClusterNo(x) + 1 <= Len(s)
           /\ Room(s) <= x <=> Len(s) <= ClusterNo(x)
           /\ ClusterNo(x) \in Nat
<1>1. Len(s) \in Nat /\ ClusterNo(x) \in Nat
  BY PlaceOf DEF Apart
<1>2. /\ Len(s) * ClusterSize \in Nat /\ Len(s) * ClusterSize = ClusterSize * Len(s)
      /\ x < Len(s) * ClusterSize <=> ClusterNo(x) < Len(s)
      /\ Len(s) * ClusterSize <= x <=> Len(s) <= ClusterNo(x)
  BY <1>1, BelowRoom
<1>3. QED
  BY <1>1, <1>2 DEF Room

\* Every unit with room is in a block of the data area.
LEMMA BlockAtIs ==
    ASSUME NEW s, Apart(s), NEW x \in Nat, x < Room(s)
    PROVE  /\ ClusterNo(x) \in Nat /\ ClusterNo(x) + 1 \in 1 .. Len(s)
           /\ s[ClusterNo(x) + 1] \in Clusters
           /\ BlockNo(x) \in 0 .. BlocksPerCluster - 1
           /\ UnitNo(x) \in 0 .. BlockSize - 1
           /\ BlockAt(s, x) \in Blocks
           /\ BlockAt(s, x) # DirBlock /\ BlockAt(s, x) # NoBlock
<1>1. ClusterNo(x) \in Nat /\ ClusterNo(x) + 1 \in 1 .. Len(s)
  <2>1. /\ Len(s) \in Nat /\ ClusterNo(x) \in Nat
        /\ x < Room(s) <=> ClusterNo(x) + 1 <= Len(s)
    BY RoomIs DEF Apart
  <2>2. QED
    BY <2>1
<1>2. s[ClusterNo(x) + 1] \in Clusters
  BY <1>1 DEF Apart
<1>3. BlockNo(x) \in 0 .. BlocksPerCluster - 1 /\ UnitNo(x) \in 0 .. BlockSize - 1
  BY PlaceOf
<1>4. QED
  BY <1>1, <1>2, <1>3, Addresses DEF BlockAt

\* Two units in one block of the card are in one block of the file.
LEMMA BlockAtOnce ==
    ASSUME NEW s, Apart(s), NEW x \in Nat, x < Room(s), NEW y \in Nat, y < Room(s),
           BlockAt(s, x) = BlockAt(s, y)
    PROVE  /\ ClusterNo(x) = ClusterNo(y) /\ BlockNo(x) = BlockNo(y)
           /\ x - UnitNo(x) = y - UnitNo(y)
<1>1. s[ClusterNo(x) + 1] = s[ClusterNo(y) + 1] /\ BlockNo(x) = BlockNo(y)
  BY BlockAtIs, Addresses DEF BlockAt
<1>2. ClusterNo(x) = ClusterNo(y)
  <2>0. ClusterNo(x) + 1 \in 1 .. Len(s) /\ ClusterNo(y) + 1 \in 1 .. Len(s)
    BY BlockAtIs
  <2>1. ClusterNo(x) + 1 = ClusterNo(y) + 1
    BY <1>1, <2>0 DEF Apart
  <2>2. QED
    BY <2>1, BlockAtIs
<1>3. /\ x = ClusterSize * ClusterNo(x) + BlockSize * BlockNo(x) + UnitNo(x)
      /\ y = ClusterSize * ClusterNo(y) + BlockSize * BlockNo(y) + UnitNo(y)
      /\ ClusterSize * ClusterNo(x) \in Int /\ BlockSize * BlockNo(x) \in Int
      /\ UnitNo(x) \in Int /\ UnitNo(y) \in Int
  <2>1. ASSUME NEW z \in Nat
        PROVE  /\ z = ClusterSize * ClusterNo(z) + BlockSize * BlockNo(z) + UnitNo(z)
               /\ ClusterNo(z) \in Int /\ BlockNo(z) \in Int /\ UnitNo(z) \in Int
    BY PlaceOf
  <2>2. ASSUME NEW z \in Nat
        PROVE  ClusterSize * ClusterNo(z) \in Int /\ BlockSize * BlockNo(z) \in Int
    BY <2>1, SizesAre
  <2>3. QED
    BY <2>1, <2>2
<1>4. QED
  BY <1>1, <1>2, <1>3

\* A card whose blocks are each what one of two is that hold the file, holds it.
LEMMA HoldsEither ==
    ASSUME NEW s, Apart(s), NEW t, NEW n \in Nat, n <= Room(s), NEW d, NEW e, NEW f,
           Holds(d, s, t, n), Holds(e, s, t, n), \A b \in Blocks : f[b] = d[b] \/ f[b] = e[b]
    PROVE  Holds(f, s, t, n)
<1>1. SUFFICES ASSUME NEW x \in 0 .. n - 1 PROVE UnitAt(f, s, x) = t[x + 1]
  BY DEF Holds
<1>2. x \in Nat /\ x < Room(s)
  BY RoomIs
<1>3. BlockAt(s, x) \in Blocks
  BY <1>2, BlockAtIs
<1>4. UnitAt(d, s, x) = t[x + 1] /\ UnitAt(e, s, x) = t[x + 1]
  BY DEF Holds
<1>5. f[BlockAt(s, x)] = d[BlockAt(s, x)] \/ f[BlockAt(s, x)] = e[BlockAt(s, x)]
  BY <1>3
<1>6. QED
  BY <1>4, <1>5, Zenon DEF UnitAt

\* One that holds the file holds what it begins with.
LEMMA HoldsLess ==
    ASSUME NEW s, NEW t, NEW u, NEW d, NEW n \in Nat, NEW m \in Nat, m <= n,
           Holds(d, s, t, n), \A i \in 1 .. m : u[i] = t[i]
    PROVE  Holds(d, s, u, m)
<1>1. SUFFICES ASSUME NEW x \in 0 .. m - 1 PROVE UnitAt(d, s, x) = u[x + 1]
  BY DEF Holds
<1>2. x \in 0 .. n - 1 /\ x + 1 \in 1 .. m
  OBVIOUS
<1>3. UnitAt(d, s, x) = t[x + 1]
  BY <1>2 DEF Holds
<1>4. QED
  BY <1>2, <1>3

\* More or fewer clusters behind what there is make no difference.
LEMMA HoldsLonger ==
    ASSUME NEW s, NEW r, Apart(s), Apart(r), NEW t, NEW d, NEW n \in Nat,
           n <= Room(s), n <= Room(r),
           \A i \in 1 .. Len(s) : i <= Len(r) => s[i] = r[i],
           Holds(d, s, t, n)
    PROVE  Holds(d, r, t, n)
<1>1. SUFFICES ASSUME NEW x \in 0 .. n - 1 PROVE UnitAt(d, r, x) = t[x + 1]
  BY DEF Holds
<1>2. x \in Nat /\ x < Room(s) /\ x < Room(r)
  <2>1. Room(s) \in Nat /\ Room(r) \in Nat
    BY 0 \in Nat, RoomIs
  <2>2. QED
    BY <2>1
<1>3. ClusterNo(x) + 1 \in 1 .. Len(s) /\ ClusterNo(x) + 1 <= Len(r)
  BY <1>2, BlockAtIs
<1>4. s[ClusterNo(x) + 1] = r[ClusterNo(x) + 1]
  BY <1>3
<1>5. UnitAt(d, s, x) = t[x + 1]
  BY DEF Holds
<1>6. QED
  BY <1>4, <1>5 DEF UnitAt, BlockAt

-----------------------------------------------------------------------------
(* Where the links lead. *)

\* The marks of an entry of the FAT are no clusters, and are different.
LEMMA NoClusters == 0 \notin Clusters /\ Eoc \notin Clusters /\ Eoc # 0 /\ Eoc # Free /\ Free = 0
  BY SizesAre DEF Clusters, Eoc, Free

\* What the structure says of the chain of the file.
LEMMA ChainFacts ==
    ASSUME NEW s, StructInv(s)
    PROVE  /\ Apart(s) /\ Len(s) \in Nat /\ InChain(s) \subseteq Own /\ Own \subseteq Clusters
           /\ \A i \in 1 .. Len(s) : s[i] \in InChain(s) /\ s[i] \in Clusters
           /\ s = <<>> <=> Len(s) = 0
           /\ s = <<>> => InChain(s) = {} /\ m_firstCluster = 0
           /\ s # <<>> => 1 \in 1 .. Len(s) /\ m_firstCluster = s[1]
                          /\ m_firstCluster \in InChain(s)
<1>1. ChainInv(s) /\ others \subseteq Clusters
  BY DEF StructInv, OthersInv
<1>2. /\ s \in Seq(Clusters) /\ Len(s) \in Nat /\ InChain(s) \subseteq Own
      /\ \A i \in 1 .. Len(s) : s[i] \in Own
  BY <1>1, ChainTyped
<1>3. s = <<>> <=> Len(s) = 0
  BY <1>2
<1>4. Apart(s)
  BY <1>1, <1>2 DEF Apart, ChainInv
<1>5. \A i \in 1 .. Len(s) : s[i] \in InChain(s)
  BY DEF InChain
<1>6. QED
  BY <1>1, <1>2, <1>3, <1>4, <1>5 DEF ChainInv, Own, InChain

\* The cluster behind one of the file.
LEMMA NextCluster ==
    ASSUME NEW s, StructInv(s), NEW c \in InChain(s)
    PROVE  /\ fatCache[c] \in InChain(s) \cup {Eoc}
           /\ fatCache[c] = Eoc <=> c = s[Len(s)]
           /\ s # <<>> /\ c \in Clusters /\ c # 0
<1>1. PICK i \in 1 .. Len(s) : c = s[i]
  BY DEF InChain
<1>2. fatCache[c] = IF i = Len(s) THEN Eoc ELSE s[i + 1]
  BY <1>1 DEF StructInv, ChainInv
<1>3. Len(s) \in Nat /\ s # <<>> /\ c \in Clusters /\ c # 0
  BY <1>1, ChainFacts, NoClusters
<1>4. CASE i = Len(s)
  BY <1>1, <1>2, <1>3, <1>4
<1>5. CASE i # Len(s)
  <2>1. i + 1 \in 1 .. Len(s) /\ Len(s) \in 1 .. Len(s)
    BY <1>3, <1>5
  <2>2. s[i + 1] \in InChain(s) /\ s[i + 1] # Eoc
    BY <2>1, ChainFacts, NoClusters
  <2>3. c # s[Len(s)]
    BY <1>1, <1>5, <2>1, ChainFacts DEF Apart
  <2>4. QED
    BY <1>2, <1>3, <1>5, <2>2, <2>3
<1>6. QED
  BY <1>4, <1>5

\* Where the links in the FAT's cache lead, from any cluster of the file.
LEMMA FollowFrom ==
    ASSUME NEW s, StructInv(s), NEW i \in 1 .. Len(s), NEW n \in Nat
    PROVE  Follow(fatCache, s[i], n) = IF i + n <= Len(s) THEN s[i + n] ELSE Eoc
<1>1. /\ s \in Seq(Clusters)
      /\ \A j \in 1 .. Len(s) : fatCache[s[j]] = IF j = Len(s) THEN Eoc ELSE s[j + 1]
  BY ChainFacts DEF Apart, StructInv, ChainInv
<1>2. QED
  BY <1>1, FollowChain

\* A seek inside of the file arrives in its chain, or at the end of it.
LEMMA Arrives ==
    ASSUME NEW s, StructInv(s), NEW pos \in Nat, pos <= m_fileSize, ~Writing
    PROVE  /\ ClusterAt(pos) \in InChain(s) \cup {0, Eoc} \/ (unmoored /\ pos = 0)
           /\ pos = 0 /\ unmoored => ClusterAt(pos) = m_curCluster
           /\ pos # 0 => ClusterAt(pos) \in InChain(s) \cup {Eoc} /\ ~unmoored /\ s # <<>>
           /\ ClusterAt(pos) \in Clusters \cup {0, Eoc}
<1>1. /\ PlaceInv(s) /\ m_curPosition \in Nat /\ m_fileSize \in Nat
      /\ m_curCluster \in Clusters \cup {0} /\ unmoored \in BOOLEAN
  BY DEF StructInv, TypeOK, ShapeInv
<1>2. CASE pos = m_curPosition
  <2>1. ClusterAt(pos) = m_curCluster
    BY <1>2 DEF ClusterAt
  <2>2. pos # 0 => m_curCluster \in InChain(s) /\ ~unmoored /\ s # <<>>
    BY <1>1, <1>2 DEF PlaceInv
  <2>3. QED
    BY <1>1, <2>1, <2>2 DEF PlaceInv
<1>3. CASE pos # m_curPosition /\ pos = 0
  <2>1. ClusterAt(pos) = 0 /\ ~unmoored
    BY <1>1, <1>3 DEF ClusterAt, PlaceInv
  <2>2. QED
    BY <1>3, <2>1
<1>4. CASE pos # m_curPosition /\ pos # 0
  <2>1. s # <<>> /\ ~unmoored /\ Index(pos) \in Nat
    <3>1. s # <<>>
      BY <1>1, <1>4 DEF PlaceInv
    <3>2. pos - 1 \in Nat /\ Index(pos) = ClusterNo(pos - 1)
      BY <1>4 DEF Index, ClusterNo
    <3>3. QED
      BY <1>1, <3>1, <3>2, PlaceOf DEF PlaceInv
  <2>2. \A c \in InChain(s) : \A n \in Nat : Follow(fatCache, c, n) \in InChain(s) \cup {Eoc}
    <3>1. SUFFICES ASSUME NEW c \in InChain(s), NEW n \in Nat
                   PROVE  Follow(fatCache, c, n) \in InChain(s) \cup {Eoc}
      OBVIOUS
    <3>2. PICK i \in 1 .. Len(s) : c = s[i]
      BY DEF InChain
    <3>3. Follow(fatCache, c, n) = IF i + n <= Len(s) THEN s[i + n] ELSE Eoc
      BY <3>2, FollowFrom
    <3>4. i + n <= Len(s) => i + n \in 1 .. Len(s)
      BY ChainFacts
    <3>5. QED
      BY <3>3, <3>4, ChainFacts
  <2>3. CASE m_curPosition = 0 \/ Index(pos) < Index(m_curPosition)
    <3>1. ClusterAt(pos) = Follow(fatCache, m_firstCluster, Index(pos))
      BY <1>4, <2>3 DEF ClusterAt
    <3>2. QED
      BY <1>4, <2>1, <2>2, <3>1, ChainFacts
  <2>4. CASE ~(m_curPosition = 0 \/ Index(pos) < Index(m_curPosition))
    <3>1. ClusterAt(pos) = Follow(fatCache, m_curCluster, Index(pos) - Index(m_curPosition))
      BY <1>4, <2>4 DEF ClusterAt
    <3>2. m_curCluster \in InChain(s)
      BY <1>1, <2>1, <2>4 DEF PlaceInv
    <3>3. Index(pos) - Index(m_curPosition) \in Nat
      <4>1. m_curPosition - 1 \in Nat /\ Index(m_curPosition) = ClusterNo(m_curPosition - 1)
        BY <1>1, <2>4 DEF Index, ClusterNo
      <4>2. Index(m_curPosition) \in Nat
        BY <4>1, PlaceOf
      <4>3. QED
        BY <2>1, <2>4, <4>2
    <3>4. QED
      BY <1>4, <2>1, <2>2, <3>1, <3>2, <3>3, ChainFacts
  <2>5. QED
    BY <2>3, <2>4
<1>5. QED
  BY <1>2, <1>3, <1>4

\* As long as nothing goes wrong, it arrives at the cluster of the unit before.
LEMMA AtIs ==
    ASSUME NEW s, Apart(s), NEW p \in Nat, p # 0, p <= Room(s)
    PROVE  /\ Index(p) = ClusterNo(p - 1) /\ Index(p) \in Nat
           /\ Index(p) + 1 \in 1 .. Len(s) /\ At(s, p) = s[Index(p) + 1]
           /\ Len(s) \in Nat /\ s # <<>>
<1>1. Index(p) = ClusterNo(p - 1) /\ p - 1 \in Nat
  BY DEF Index, ClusterNo
<1>2. Room(s) \in Nat
  BY 0 \in Nat, RoomIs
<1>3. p - 1 < Room(s)
  BY <1>2
<1>4. ClusterNo(p - 1) \in Nat /\ ClusterNo(p - 1) + 1 \in 1 .. Len(s)
  BY <1>1, <1>3, BlockAtIs
<1>5. Len(s) \in Nat
  BY DEF Apart
<1>6. s # <<>>
  BY <1>4, <1>5
<1>7. QED
  BY <1>1, <1>4, <1>5, <1>6 DEF At

\* seekSet() arrives at the cluster that the position asked for is in, whether
\* it starts from the current cluster or from the first.
LEMMA ArrivesAt ==
    ASSUME NEW s, StructInv(s), PositionInv(s), pc # "block", NEW pos \in Nat, pos <= Room(s)
    PROVE  ClusterAt(pos) = At(s, pos)
<1>1. /\ Apart(s) /\ m_curPosition \in Nat /\ Len(s) \in Nat
      /\ m_curPosition <= Room(s) /\ m_curCluster = At(s, m_curPosition)
  BY ChainFacts DEF StructInv, TypeOK, PositionInv
<1>2. CASE pos = m_curPosition \/ pos = 0
  BY <1>1, <1>2 DEF ClusterAt, At
<1>3. CASE pos # m_curPosition /\ pos # 0
  <2>1. /\ Index(pos) \in Nat /\ Index(pos) + 1 \in 1 .. Len(s)
        /\ At(s, pos) = s[Index(pos) + 1] /\ s # <<>>
    BY <1>1, <1>3, AtIs
  <2>2. CASE m_curPosition = 0 \/ Index(pos) < Index(m_curPosition)
    <3>1. ClusterAt(pos) = Follow(fatCache, s[1], Index(pos)) /\ 1 \in 1 .. Len(s)
      BY <1>3, <2>1, <2>2, ChainFacts DEF ClusterAt
    <3> DEFINE b == Index(pos)
    <3>2. b \in Nat /\ b + 1 <= Len(s) /\ 1 + b = b + 1
      BY <1>1, <2>1
    <3> HIDE DEF b
    <3>3. Follow(fatCache, s[1], b) = IF 1 + b <= Len(s) THEN s[1 + b] ELSE Eoc
      BY <3>1, <3>2, FollowFrom
    <3>4. Follow(fatCache, s[1], b) = s[b + 1]
      BY <3>2, <3>3
    <3>5. QED
      BY <2>1, <3>1, <3>4 DEF b
  <2>3. CASE ~(m_curPosition = 0 \/ Index(pos) < Index(m_curPosition))
    <3>1. /\ Index(m_curPosition) \in Nat /\ Index(m_curPosition) + 1 \in 1 .. Len(s)
          /\ m_curCluster = s[Index(m_curPosition) + 1]
      BY <1>1, <2>3, AtIs
    <3> DEFINE a == Index(m_curPosition)
               b == Index(pos)
    <3>2. ClusterAt(pos) = Follow(fatCache, s[a + 1], b - a)
      BY <1>3, <2>3, <3>1 DEF ClusterAt
    <3>3. /\ a \in Nat /\ b \in Nat /\ a + 1 \in 1 .. Len(s) /\ b + 1 \in 1 .. Len(s)
          /\ At(s, pos) = s[b + 1]
      BY <2>1, <3>1
    <3>4. ~(b < a)
      BY <2>3
    <3> HIDE DEF a, b
    <3>5. b - a \in Nat /\ (a + 1) + (b - a) = b + 1
      BY <3>3, <3>4
    <3>6. Follow(fatCache, s[a + 1], b - a)
            = IF (a + 1) + (b - a) <= Len(s) THEN s[(a + 1) + (b - a)] ELSE Eoc
      BY <3>3, <3>5, FollowFrom
    <3>7. QED
      BY <3>2, <3>3, <3>5, <3>6
  <2>4. QED
    BY <2>2, <2>3
<1>4. QED
  BY <1>2, <1>3

-----------------------------------------------------------------------------
(* The card and the block in the cache. *)

OnCard == Blocks \cup {DirBlock}

\* What the card d holds when the cached block c has been written.
SyncedOf(c, d) == IF c.dirty THEN [d EXCEPT ![c.lbn] = c.data] ELSE d

\* The card with the cached block written back, block by block.
LEMMA SyncedIs ==
    ASSUME NEW c, NEW d, DOMAIN d = OnCard
    PROVE  /\ DOMAIN SyncedOf(c, d) = OnCard
           /\ \A b \in OnCard :
                SyncedOf(c, d)[b] = IF c.dirty /\ c.lbn = b THEN c.data ELSE d[b]
<1>1. CASE c.dirty
  <2>1. SyncedOf(c, d) = [d EXCEPT ![c.lbn] = c.data]
    BY <1>1 DEF SyncedOf
  <2>2. QED
    BY <1>1, <2>1
<1>2. CASE ~c.dirty
  BY <1>2 DEF SyncedOf
<1>3. QED
  BY <1>1, <1>2

\* What a sync would leave on the card, before a step and after it.
LEMMA SyncedOfCard == Synced = SyncedOf(cache, disk) /\ (Synced)' = SyncedOf(cache', disk')
  BY DEF Synced, SyncedOf

\* The blocks of the data area, the entry and no block are different.
LEMMA BlocksAre ==
    /\ DirBlock \notin Blocks /\ NoBlock \notin OnCard /\ NoBlock # DirBlock
    /\ Blocks \subseteq OnCard /\ DirBlock \in OnCard
    /\ \A b \in Blocks : b \in Nat
  BY SizesAre DEF Blocks, DirBlock, NoBlock, OnCard

\* The card as it is, and as it would be if the cache were written.
LEMMA CardIs ==
    ASSUME NEW s, StructInv(s)
    PROVE  /\ DOMAIN disk = OnCard /\ DOMAIN Synced = OnCard
           /\ \A b \in OnCard :
                Synced[b] = IF cache.dirty /\ cache.lbn = b THEN cache.data ELSE disk[b]
           /\ \A b \in Blocks : disk[b] \in Units /\ Synced[b] \in Units
           /\ \A b \in Theirs : Synced[b] = disk[b] /\ b \in Blocks
           /\ cache.dirty => cache.lbn \in OnCard
<1>1. DOMAIN disk = OnCard /\ ShapeInv /\ TypeOK /\ OthersInv
  BY DEF StructInv, ShapeInv, OnCard
<1>2. /\ DOMAIN Synced = OnCard
      /\ \A b \in OnCard :
           Synced[b] = IF cache.dirty /\ cache.lbn = b THEN cache.data ELSE disk[b]
  BY <1>1, SyncedIs, SyncedOfCard
<1>3. cache.dirty => cache.lbn \in OnCard
  BY <1>1 DEF TypeOK, OnCard
<1>4. \A b \in Blocks : disk[b] \in Units /\ Synced[b] \in Units
  BY <1>1, <1>2, BlocksAre DEF ShapeInv
<1>5. \A b \in Theirs : b \in Blocks
  BY <1>1, Addresses DEF Theirs, OthersInv
<1>6. \A b \in Theirs : Synced[b] = disk[b]
  BY <1>1, <1>2, <1>5, BlocksAre DEF OthersInv
<1>7. QED
  BY <1>1, <1>2, <1>3, <1>4, <1>5, <1>6

\* Writing the cached block back to make room for another.
LEMMA FlushedIs ==
    ASSUME NEW s, StructInv(s), NEW blk
    PROVE  /\ DOMAIN Flushed(blk) = OnCard
           /\ \A b \in OnCard : Flushed(blk)[b] = disk[b] \/ Flushed(blk)[b] = Synced[b]
           /\ \A b \in OnCard : b # blk => Flushed(blk)[b] = Synced[b]
           /\ \A b \in Blocks : Flushed(blk)[b] \in Units
           /\ \A b \in Theirs : Flushed(blk)[b] = disk[b]
  BY CardIs DEF Flushed

\* The block fetched.
LEMMA FetchIs ==
    ASSUME NEW s, StructInv(s), NEW blk \in Blocks, NEW r \in BOOLEAN
    PROVE  /\ Fetch(blk, r).lbn = blk
           /\ Fetch(blk, r) = [lbn |-> blk, dirty |-> Fetch(blk, r).dirty,
                               data |-> Fetch(blk, r).data]
           /\ Fetch(blk, r).dirty \in BOOLEAN /\ Fetch(blk, r).data \in Units
           /\ Fetch(blk, r).dirty => cache.dirty /\ cache.lbn = blk
           /\ cache.lbn # blk => ~Fetch(blk, r).dirty
<1>1. ShapeInv /\ cache.dirty \in BOOLEAN
  BY DEF StructInv, TypeOK
<1>2. CASE cache.lbn = blk
  <2>1. Fetch(blk, r) = cache
    BY <1>2 DEF Fetch
  <2>2. QED
    BY <1>1, <1>2, <2>1 DEF ShapeInv
<1>3. CASE cache.lbn # blk
  <2>1. Fetch(blk, r) = [lbn |-> blk, dirty |-> FALSE,
                         data |-> IF r THEN [i \in 1 .. BlockSize |-> Old] ELSE disk[blk]]
    BY <1>3 DEF Fetch
  <2>2. [i \in 1 .. BlockSize |-> Old] \in Units /\ disk[blk] \in Units
    BY CardIs DEF Units, Old
  <2>3. QED
    BY <1>3, <2>1, <2>2
<1>4. QED
  BY <1>2, <1>3

\* A block that is not reserved is fetched with what the file has there.
LEMMA FetchedIs ==
    ASSUME NEW s, StructInv(s), CoherentInv, NEW blk \in Blocks
    PROVE  Fetch(blk, FALSE).data = Synced[blk]
<1>1. Synced[blk] = IF cache.dirty /\ cache.lbn = blk THEN cache.data ELSE disk[blk]
  BY CardIs, BlocksAre
<1>2. cache.dirty \in BOOLEAN
  BY DEF StructInv, TypeOK
<1>3. CASE cache.lbn = blk
  <2>1. Fetch(blk, FALSE) = cache /\ cache.lbn # NoBlock
    BY <1>3, BlocksAre DEF Fetch
  <2>2. QED
    BY <1>1, <1>2, <1>3, <2>1 DEF CoherentInv
<1>4. CASE cache.lbn # blk
  BY <1>1, <1>4 DEF Fetch
<1>5. QED
  BY <1>3, <1>4

\* and nothing is lost of what was cached.
LEMMA FetchKeeps ==
    ASSUME NEW s, StructInv(s), CoherentInv, NEW blk \in Blocks
    PROVE  \A b \in OnCard : SyncedOf(Fetch(blk, FALSE), Flushed(blk))[b] = Synced[b]
<1>1. SUFFICES ASSUME NEW b \in OnCard
               PROVE  SyncedOf(Fetch(blk, FALSE), Flushed(blk))[b] = Synced[b]
  OBVIOUS
<1>2. CASE cache.lbn = blk
  BY <1>2, SyncedOfCard DEF Fetch, Flushed
<1>3. CASE cache.lbn # blk
  <2>1. ~Fetch(blk, FALSE).dirty /\ Flushed(blk) = Synced
    BY <1>3, FetchIs DEF Flushed
  <2>2. QED
    BY <2>1 DEF SyncedOf
<1>4. QED
  BY <1>2, <1>3

\* A block of the file is no block of another.
LEMMA OwnBlocks ==
    ASSUME NEW s, StructInv(s), NEW c \in InChain(s), NEW k \in 0 .. BlocksPerCluster - 1
    PROVE  StartBlock(c) + k \in Blocks /\ StartBlock(c) + k \notin Theirs
<1>1. c \in Own /\ c \in Clusters /\ others \subseteq Clusters
  BY ChainFacts DEF StructInv, OthersInv
<1>2. QED
  BY <1>1, Addresses DEF Own, Theirs

\* Where the position is, as the code computes it.
LEMMA BlockIs == BlockOfCluster = BlockNo(m_curPosition) /\ Offset = UnitNo(m_curPosition)
                 /\ Block = StartBlock(m_curCluster) + BlockNo(m_curPosition)
  BY DEF BlockOfCluster, Offset, BlockNo, UnitNo, Block

\* The block that a turn of write() is about is one of the file, and of no
\* other.
LEMMA TheBlock ==
    ASSUME NEW s, StructInv(s), pc = "block"
    PROVE  /\ Block \in Blocks /\ Block \notin Theirs /\ m_curCluster \in InChain(s)
           /\ BlockOfCluster \in 0 .. BlocksPerCluster - 1 /\ Offset \in 0 .. BlockSize - 1
           /\ m_curPosition \in Nat /\ nToWrite \in Nat /\ nToWrite > 0
           /\ BlockSize \in Nat /\ BlocksPerCluster \in Nat
           /\ s # <<>> /\ m_curCluster # 0 /\ ~unmoored
<1>1. m_curPosition \in Nat /\ nToWrite \in Nat /\ nToWrite > 0
  BY DEF StructInv, TypeOK, WorkInv
<1>2. m_curCluster \in InChain(s) /\ ~unmoored
  BY DEF StructInv, PlaceInv, Writing
<1>3. BlockOfCluster \in 0 .. BlocksPerCluster - 1 /\ Offset \in 0 .. BlockSize - 1
  BY <1>1, PlaceOf, BlockIs
<1>4. QED
  BY <1>1, <1>2, <1>3, OwnBlocks, NextCluster, SizesAre DEF Block

-----------------------------------------------------------------------------
(* What always holds: one action after another. *)

\* The other files stay, if what changes on the card is not theirs.
LEMMA OthersStay ==
    ASSUME OthersInv, UNCHANGED <<fatCache, others>>, fatDisk' = fatDisk \/ fatDisk' = fatCache,
           \A b \in Theirs : disk'[b] = disk[b],
           cache'.dirty => cache'.lbn \notin Theirs
    PROVE  OthersInv'
  BY DEF OthersInv, Theirs

\* seekSet() keeps the structure.
LEMMA SeekSetStruct ==
    ASSUME NEW s, StructInv(s), SeekSet
    PROVE  StructInv(s)'
<1> USE DEF memory, local, fatVars, observed
<1>1. PICK p \in 0 .. m_fileSize :
         /\ p # m_curPosition /\ Reached(p)
         /\ m_curCluster' = ClusterAt(p) /\ m_curPosition' = p
  BY DEF SeekSet
<1>2. p \in Nat /\ p <= m_fileSize /\ ~Writing
  BY DEF StructInv, TypeOK, SeekSet, Writing
<1>3. /\ ClusterAt(p) \in InChain(s) \cup {0} \/ (unmoored /\ p = 0)
      /\ p # 0 => ClusterAt(p) \in InChain(s) /\ ~unmoored /\ s # <<>>
      /\ ClusterAt(p) \in Clusters \cup {0}
  BY <1>1, <1>2, Arrives DEF Reached
<1>4. TypeOK' /\ ShapeInv' /\ WorkInv'
  BY <1>1, <1>2, <1>3 DEF StructInv, TypeOK, ShapeInv, WorkInv, SeekSet, Writing
<1>5. OthersInv' /\ ChainInv(s)'
  BY ChainStays DEF StructInv, OthersInv, Theirs, SeekSet
<1>6. PlaceInv(s)'
  <2>1. ClusterAt(p) = 0 => p = 0
    BY <1>3, ChainFacts, NoClusters
  <2>2. unmoored => p = 0
    BY <1>3
  <2>3. s = <<>> => p = 0
    BY <1>3
  <2>4. QED
    BY <1>1, <1>2, <1>3, <2>1, <2>2, <2>3 DEF StructInv, PlaceInv, SeekSet, Writing, InChain
<1>7. QED
  BY <1>4, <1>5, <1>6 DEF StructInv

\* The beginning of write() keeps the structure.
LEMMA StartWriteStruct ==
    ASSUME NEW s, StructInv(s), StartWrite
    PROVE  StructInv(s)'
<1>1. PICK append \in BOOLEAN :
         /\ m_curPosition' = IF append THEN m_fileSize ELSE m_curPosition
         /\ Reached(m_curPosition') /\ m_curCluster' = ClusterAt(m_curPosition')
  BY DEF StartWrite
<1> DEFINE p == IF append THEN m_fileSize ELSE m_curPosition
<1>2. p \in Nat /\ ~Writing /\ p = m_curPosition' /\ m_fileSize \in Nat /\ m_curPosition \in Nat
      /\ ~unmoored /\ PlaceInv(s)
  BY <1>1 DEF StructInv, TypeOK, StartWrite, Writing
<1>3. /\ m_curCluster' \in InChain(s) \cup {0} /\ m_curCluster' \in Clusters \cup {0}
      /\ m_curCluster' = 0 => p = 0
      /\ s = <<>> => p = 0
  <2>1. CASE p <= m_fileSize
    BY <1>1, <1>2, <2>1, Arrives, ChainFacts, NoClusters DEF Reached
  <2>2. CASE p > m_fileSize
    <3>1. p = m_curPosition /\ m_curCluster' = m_curCluster
      BY <1>1, <1>2, <2>2 DEF ClusterAt
    <3>2. QED
      BY <1>2, <3>1, ChainFacts DEF PlaceInv
  <2>3. QED
    BY <1>2, <2>1, <2>2
<1>4. nToWrite' \in Nat /\ value' \in Nat /\ calls' \in Nat /\ nToWrite' > 0
  <2>1. calls \in Nat /\ WriteSizes \subseteq Nat \ {0}
    BY SizesAssumption DEF StructInv, ShapeInv
  <2>2. calls' = calls + 1 /\ nToWrite' \in WriteSizes /\ value' = calls'
    BY DEF StartWrite
  <2>3. QED
    BY <2>1, <2>2
<1>5. TypeOK' /\ ShapeInv' /\ WorkInv'
  BY <1>2, <1>3, <1>4
     DEF StructInv, TypeOK, ShapeInv, WorkInv, StartWrite, Writing, fatVars
<1>6. OthersInv' /\ ChainInv(s)'
  BY ChainStays DEF StructInv, OthersInv, Theirs, StartWrite, fatVars
<1>7. PlaceInv(s)'
  BY <1>2, <1>3 DEF StructInv, PlaceInv, StartWrite, Writing, InChain
<1>8. QED
  BY <1>5, <1>6, <1>7 DEF StructInv

\* The return of write() keeps the structure.
LEMMA WriteReturnsStruct ==
    ASSUME NEW s, StructInv(s), WriteReturns
    PROVE  StructInv(s)'
<1>1. TypeOK' /\ ShapeInv' /\ WorkInv'
  BY DEF StructInv, TypeOK, ShapeInv, WorkInv, WriteReturns, Writing, fatVars
<1>2. OthersInv' /\ ChainInv(s)'
  BY ChainStays DEF StructInv, OthersInv, Theirs, WriteReturns, fatVars
<1>3. PlaceInv(s)'
  BY DEF StructInv, TypeOK, PlaceInv, WriteReturns, Writing, InChain, NoPosition
<1>4. QED
  BY <1>1, <1>2, <1>3 DEF StructInv

\* The beginning of read() keeps the structure.
LEMMA StartReadStruct ==
    ASSUME NEW s, StructInv(s), StartRead
    PROVE  StructInv(s)'
<1> USE DEF memory, fatVars, observed
<1>1. PICK n \in ReadSizes :
         toRead' = IF m_curPosition <= m_fileSize
                     THEN Smaller(n, m_fileSize - m_curPosition) ELSE n
  BY DEF StartRead
<1>2. n \in Nat /\ m_curPosition \in Nat /\ m_fileSize \in Nat
  BY SizesAssumption DEF StructInv, TypeOK
<1>3. toRead' \in Nat /\ (m_curPosition = 0 /\ m_fileSize = 0 => toRead' = 0)
  BY <1>1, <1>2 DEF Smaller
<1>4. TypeOK' /\ ShapeInv' /\ WorkInv'
  BY <1>3 DEF StructInv, TypeOK, ShapeInv, WorkInv, StartRead, Writing
<1>5. OthersInv' /\ ChainInv(s)'
  BY ChainStays DEF StructInv, OthersInv, Theirs, StartRead
<1>6. PlaceInv(s)'
  BY <1>3 DEF StructInv, PlaceInv, StartRead, Writing, InChain
<1>7. QED
  BY <1>4, <1>5, <1>6 DEF StructInv

\* The ways out of read() keep the structure.
LEMMA ReadEndsStruct ==
    ASSUME NEW s, StructInv(s), ReadReturns \/ ReadBehindChain
    PROVE  StructInv(s)'
<1> USE DEF memory, fatVars, observed, ReadReturns, ReadBehindChain, ReadFails
<1>0. pc = "read" /\ pc' = "idle" /\ got' = <<>> /\ toRead' = 0
  OBVIOUS
<1>1. TypeOK' /\ ShapeInv' /\ WorkInv'
  <2>1. CASE ReadReturns
    BY <1>0, <2>1 DEF StructInv, TypeOK, ShapeInv, WorkInv, Writing
  <2>2. CASE ReadBehindChain
    BY <1>0, <2>2 DEF StructInv, TypeOK, ShapeInv, WorkInv, Writing
  <2>3. QED
    BY <2>1, <2>2
<1>2. OthersInv' /\ ChainInv(s)'
  BY ChainStays DEF StructInv, OthersInv, Theirs
<1>3. PlaceInv(s)'
  BY DEF StructInv, PlaceInv, Writing, InChain
<1>4. QED
  BY <1>1, <1>2, <1>3 DEF StructInv

\* The beginning of sync() keeps the structure.
LEMMA StartSyncStruct ==
    ASSUME NEW s, StructInv(s), StartSync
    PROVE  StructInv(s)'
<1> USE DEF memory, local, fatVars, observed, StartSync
<1>1. TypeOK' /\ ShapeInv' /\ WorkInv'
  BY DEF StructInv, TypeOK, ShapeInv, WorkInv, Writing
<1>2. OthersInv' /\ ChainInv(s)'
  BY ChainStays DEF StructInv, OthersInv, Theirs
<1>3. PlaceInv(s)'
  BY DEF StructInv, PlaceInv, Writing, InChain
<1>4. QED
  BY <1>1, <1>2, <1>3 DEF StructInv

\* sync() keeps the structure when it puts the entry into the cache.
LEMMA SyncEntryStruct ==
    ASSUME NEW s, StructInv(s), SyncEntry
    PROVE  StructInv(s)'
<1> USE DEF fatVars, SyncEntry, SyncFails
<1>1. \/ cache' = cache /\ disk' = disk
      \/ /\ cache' = [lbn |-> DirBlock, dirty |-> TRUE, data |-> Entry]
         /\ disk' = Flushed(DirBlock)
  OBVIOUS
<1>2. /\ DOMAIN disk' = OnCard /\ \A b \in Blocks : disk'[b] \in Units
      /\ \A b \in Theirs : disk'[b] = disk[b]
      /\ cache'.dirty => cache'.lbn \notin Theirs
      /\ cache' = [lbn |-> cache'.lbn, dirty |-> cache'.dirty, data |-> cache'.data]
      /\ cache'.lbn \in Blocks \cup {DirBlock, NoBlock} /\ cache'.dirty \in BOOLEAN
      /\ cache'.lbn \in Blocks => cache'.data \in Units
      /\ cache'.dirty => cache'.lbn # NoBlock
  <2>1. CASE cache' = cache /\ disk' = disk
    BY <2>1, CardIs DEF StructInv, ShapeInv, OthersInv, TypeOK
  <2>2. CASE cache' = [lbn |-> DirBlock, dirty |-> TRUE, data |-> Entry]
             /\ disk' = Flushed(DirBlock)
    BY <2>2, FlushedIs, CardIs, BlocksAre
  <2>3. QED
    BY <1>1, <2>1, <2>2
<1>3. /\ newPos' \in Nat \cup {NoPosition} /\ refused' \in Nat
      /\ pc = "entry" /\ pc' \in {"data", "idle"} /\ dirDirty' \in BOOLEAN
  <2>1. refused \in Nat /\ newPos \in Nat \cup {NoPosition} /\ dirDirty \in BOOLEAN
    BY DEF StructInv, TypeOK, ShapeInv
  <2>2. CASE pc' = "data" /\ dirDirty' = FALSE /\ UNCHANGED <<newPos, refused>>
    BY <2>1, <2>2
  <2>3. CASE SyncFails /\ UNCHANGED dirDirty
    BY <2>1, <2>3
  <2>4. QED
    BY <2>2, <2>3
<1>4. TypeOK' /\ ShapeInv' /\ WorkInv'
  <2>1. TypeOK'
    BY <1>2, <1>3 DEF StructInv, TypeOK
  <2>2. ShapeInv'
    BY <1>2, <1>3 DEF StructInv, ShapeInv, OnCard, Units
  <2>3. WorkInv'
    BY <1>3 DEF StructInv, WorkInv, Writing
  <2>4. QED
    BY <2>1, <2>2, <2>3
<1>5. OthersInv' /\ ChainInv(s)'
  BY <1>2, OthersStay, ChainStays DEF StructInv
<1>6. PlaceInv(s)'
  BY DEF StructInv, TypeOK, PlaceInv, Writing, InChain, NoPosition
<1>7. QED
  BY <1>4, <1>5, <1>6 DEF StructInv

\* sync() keeps the structure when it writes the cached block.
LEMMA SyncDataStruct ==
    ASSUME NEW s, StructInv(s), SyncData
    PROVE  StructInv(s)'
<1> USE DEF fatVars, SyncData, SyncFails, memory
<1>1. \/ cache' = cache /\ disk' = disk
      \/ cache' = [cache EXCEPT !.dirty = FALSE] /\ disk' = Synced
  OBVIOUS
<1>2. /\ DOMAIN disk' = OnCard /\ \A b \in Blocks : disk'[b] \in Units
      /\ \A b \in Theirs : disk'[b] = disk[b]
      /\ cache'.lbn = cache.lbn /\ cache'.data = cache.data
      /\ cache'.dirty => cache.dirty /\ cache'.dirty \in BOOLEAN
      /\ cache' = [lbn |-> cache'.lbn, dirty |-> cache'.dirty, data |-> cache'.data]
      /\ cache'.dirty \in BOOLEAN
  <2>1. CASE cache' = cache /\ disk' = disk
    BY <2>1, CardIs DEF StructInv, ShapeInv, OthersInv, TypeOK
  <2>2. CASE cache' = [cache EXCEPT !.dirty = FALSE] /\ disk' = Synced
    <3>1. cache' = [lbn |-> cache.lbn, dirty |-> FALSE, data |-> cache.data]
      BY <2>2 DEF StructInv, ShapeInv
    <3>2. QED
      BY <2>2, <3>1, CardIs
  <2>3. QED
    BY <1>1, <2>1, <2>2
<1>3. TypeOK' /\ ShapeInv' /\ WorkInv'
  BY <1>2 DEF StructInv, TypeOK, ShapeInv, WorkInv, Writing, OnCard, Units, NoPosition
<1>4. OthersInv' /\ ChainInv(s)'
  BY <1>2, OthersStay, ChainStays DEF StructInv, OthersInv
<1>5. PlaceInv(s)'
  BY DEF StructInv, TypeOK, PlaceInv, Writing, InChain, NoPosition
<1>6. QED
  BY <1>3, <1>4, <1>5 DEF StructInv

\* sync() keeps the structure when it writes the FAT.
LEMMA SyncFatStruct ==
    ASSUME NEW s, StructInv(s), SyncFat
    PROVE  StructInv(s)'
<1>1. /\ \/ m_curPosition' = m_curPosition /\ m_curCluster' = m_curCluster
         \/ /\ newPos # NoPosition /\ Reached(newPos)
            /\ m_curCluster' = ClusterAt(newPos) /\ m_curPosition' = newPos
      /\ newPos' = NoPosition /\ pc' = "idle" /\ pc = "fat"
      /\ \/ fatDisk' = fatCache /\ fatDirty' = FALSE
         \/ fatDisk' = fatDisk /\ fatDirty' = fatDirty
      /\ refused' \in Nat /\ grown' \in BOOLEAN
  <2>1. ShapeInv
    BY DEF StructInv
  <2>2. CASE fatDisk' = WrittenFat /\ fatDirty' = FALSE /\ synced' = content /\ grown' = TRUE
             /\ pc' = "idle" /\ newPos' = NoPosition /\ refused' = refused
             /\ IF newPos = NoPosition \/ ~Reached(newPos)
                  THEN UNCHANGED <<m_curPosition, m_curCluster>>
                  ELSE m_curCluster' = ClusterAt(newPos) /\ m_curPosition' = newPos
    BY <2>1, <2>2 DEF SyncFat, ShapeInv, WrittenFat
  <2>3. CASE SyncFails /\ UNCHANGED <<fatDisk, fatDirty, m_curPosition, m_curCluster, synced, grown>>
    BY <2>1, <2>3 DEF SyncFat, SyncFails, ShapeInv
  <2>4. QED
    BY <2>2, <2>3 DEF SyncFat
<1>2. /\ m_curPosition' \in Nat
      /\ m_curCluster' \in InChain(s) \cup {0} \/ unmoored
      /\ m_curCluster' \in Clusters \cup {0}
      /\ m_curCluster' = 0 => m_curPosition' = 0
      /\ unmoored \/ s = <<>> => m_curPosition' = 0
  <2>1. CASE m_curPosition' = m_curPosition /\ m_curCluster' = m_curCluster
    BY <2>1 DEF StructInv, TypeOK, PlaceInv
  <2>2. CASE /\ newPos # NoPosition /\ Reached(newPos)
             /\ m_curCluster' = ClusterAt(newPos) /\ m_curPosition' = newPos
    <3>1. newPos \in Nat /\ newPos <= m_fileSize /\ ~Writing
      BY <1>1, <2>2 DEF StructInv, TypeOK, PlaceInv, Writing
    <3>2. QED
      BY <2>2, <3>1, Arrives, ChainFacts, NoClusters DEF Reached
  <2>3. QED
    BY <1>1, <2>1, <2>2
<1>3. TypeOK' /\ ShapeInv' /\ WorkInv'
  <2>1. TypeOK'
    <3>1. TypeOK /\ UNCHANGED <<m_fileSize, m_firstCluster, dirDirty, nToWrite, toRead, cache, fatCache>>
      BY DEF SyncFat, StructInv
    <3>2. fatDirty' \in BOOLEAN /\ (fatDirty' \/ fatCache' = fatDisk')
      BY <1>1, <3>1 DEF TypeOK
    <3>3. QED
      BY <1>1, <1>2, <3>1, <3>2 DEF TypeOK
  <2>2. ShapeInv'
    BY <1>1 DEF SyncFat, StructInv, ShapeInv, Units
  <2>3. WorkInv'
    <3>1. UNCHANGED <<nToWrite, toRead>> /\ WorkInv
      BY DEF SyncFat, StructInv
    <3>2. QED
      BY <1>1, <3>1 DEF WorkInv, Writing
  <2>4. QED
    BY <2>1, <2>2, <2>3
<1>4. OthersInv' /\ ChainInv(s)'
  BY <1>1, OthersStay, ChainStays DEF SyncFat, StructInv, OthersInv
<1>5. PlaceInv(s)'
  BY <1>1, <1>2 DEF SyncFat, StructInv, TypeOK, PlaceInv, Writing, InChain, NoPosition
<1>6. QED
  BY <1>3, <1>4, <1>5 DEF StructInv

\* A write goes on to a cluster: the card is full, there is a new one, the chain has
\* one, or the position is inside of one.
Needed == IF m_curCluster # 0 THEN fatCache[m_curCluster] = Eoc ELSE m_firstCluster = 0
EnterFull ==
    /\ AtNewCluster /\ Needed /\ FreeClusters = {}
    /\ WriteFails /\ dirDirty' = TRUE
    /\ content' = SubSeq(content, 1, size)
    /\ UNCHANGED <<m_fileSize, m_curPosition, m_curCluster, m_firstCluster, fatVars>>
EnterNew(c) ==
    /\ AtNewCluster /\ Needed /\ c \in FreeClusters
    /\ AddCluster(c) /\ pc' = "block"
    /\ UNCHANGED <<m_fileSize, m_curPosition, value, nToWrite, content>>
EnterOld ==
    /\ m_curCluster' = IF AtNewCluster
                         THEN IF m_curCluster # 0 THEN fatCache[m_curCluster] ELSE m_firstCluster
                         ELSE m_curCluster
    /\ AtNewCluster => ~Needed
    /\ pc' = "block"
    /\ UNCHANGED <<m_firstCluster, dirDirty, fatVars,
                   m_fileSize, m_curPosition, value, nToWrite, content>>
EnterRest == UNCHANGED <<toRead, got, newPos, cache, disk, size, synced, grown, unmoored,
                         overlapped, refused, calls>>

\* write() at the start of a cluster: no room, a new cluster, or the next one.
LEMMA EnterIs ==
    ASSUME NEW s, StructInv(s), EnterCluster
    PROVE  /\ EnterFull \/ (\E c : EnterNew(c)) \/ EnterOld
           /\ EnterRest /\ pc = "cluster" /\ nToWrite > 0
<1>1. EnterRest /\ pc = "cluster" /\ nToWrite > 0
  BY DEF EnterCluster, EnterRest
<1> DEFINE start == IF m_curCluster # 0 THEN m_curCluster ELSE searchStart
<1>2. CASE AtNewCluster /\ Needed /\ FreeClusters = {}
  BY <1>1, <1>2 DEF EnterCluster, Needed, EnterFull, fatVars, WriteFails
<1>3. CASE AtNewCluster /\ Needed /\ FreeClusters # {}
  <2>1. start \in Int
    BY SizesAre DEF StructInv, TypeOK, ShapeInv, Clusters
  <2>2. FirstFree(start) \in FreeClusters
    BY <1>3, <2>1, FirstFreeIs DEF FreeClusters
  <2>3. AddCluster(FirstFree(start)) /\ pc' = "block"
        /\ UNCHANGED <<m_fileSize, m_curPosition, value, nToWrite, content>>
    BY <1>3 DEF EnterCluster, Needed
  <2>4. EnterNew(FirstFree(start))
    BY <1>3, <2>2, <2>3 DEF EnterNew
  <2>5. QED
    BY <1>1, <2>4
<1>4. CASE AtNewCluster /\ ~Needed
  BY <1>1, <1>4 DEF EnterCluster, Needed, EnterOld
<1>5. CASE ~AtNewCluster
  BY <1>1, <1>5 DEF EnterCluster, EnterOld
<1>6. QED
  BY <1>2, <1>3, <1>4, <1>5

\* Before: where a write that is under way can be.
LEMMA BeforeCluster ==
    ASSUME NEW s, StructInv(s), pc = "cluster"
    PROVE  /\ m_curCluster \in InChain(s) \cup {0} /\ ~unmoored
           /\ m_curCluster \in Clusters \cup {0} /\ m_firstCluster \in Clusters \cup {0}
           /\ m_curCluster = 0 => m_curPosition = 0
           /\ Needed => m_curCluster = IF s = <<>> THEN 0 ELSE s[Len(s)]
           /\ Needed /\ s # <<>> => m_curCluster # 0
           /\ ~Needed => s # <<>>
           /\ toRead = 0 /\ toRead \in Nat
<1>1. PlaceInv(s) /\ TypeOK /\ WorkInv
  BY DEF StructInv
<1>2. m_curCluster \in InChain(s) \cup {0} /\ ~unmoored
  BY <1>1 DEF PlaceInv, Writing
<1>3. toRead = 0 /\ toRead \in Nat
  BY <1>1 DEF WorkInv, TypeOK
<1>4. CASE m_curCluster = 0
  <2>1. Needed <=> m_firstCluster = 0
    BY <1>4 DEF Needed
  <2>2. m_firstCluster = 0 <=> s = <<>>
    BY ChainFacts, NoClusters
  <2>3. QED
    BY <1>1, <1>2, <1>3, <1>4, <2>1, <2>2 DEF PlaceInv, TypeOK
<1>5. CASE m_curCluster # 0
  <2>1. m_curCluster \in InChain(s)
    BY <1>2, <1>5
  <2>2. Needed <=> fatCache[m_curCluster] = Eoc
    BY <1>5 DEF Needed
  <2>3. s # <<>> /\ (fatCache[m_curCluster] = Eoc <=> m_curCluster = s[Len(s)])
    BY <2>1, NextCluster
  <2>4. QED
    BY <1>1, <1>2, <1>3, <1>5, <2>2, <2>3 DEF PlaceInv, TypeOK
<1>6. QED
  BY <1>4, <1>5

\* A new cluster is one more of the chain, and of no other file.
LEMMA NewChain ==
    ASSUME NEW s, StructInv(s), pc = "cluster", NEW c, EnterNew(c)
    PROVE  /\ ChainInv(Append(s, c))'
           /\ c \in Own /\ c \notin InChain(s) /\ c \in Clusters
           /\ \A d \in others : fatCache'[d] = fatCache[d]
           /\ \A d \in Clusters : fatCache'[d] \in Clusters \cup {Free, Eoc}
           /\ fatCache' = [d \in Clusters |-> fatCache'[d]]
           /\ m_firstCluster' \in Clusters
           /\ InChain(Append(s, c)) = InChain(s) \cup {c}
           /\ UNCHANGED <<fatDisk, others>>
<1> DEFINE r == Append(s, c)
           n == Len(s)
<1>1. c \in Clusters /\ fatCache[c] = Free
  BY DEF EnterNew, FreeClusters
<1>2. /\ ChainInv(s) /\ OthersInv /\ TypeOK
      /\ \A i \in 1 .. n : s[i] \in InChain(s) /\ s[i] \in Clusters
      /\ n \in Nat /\ (s = <<>> <=> n = 0) /\ s \in Seq(Clusters)
      /\ InChain(s) \subseteq Own /\ Own \subseteq Clusters
  BY ChainFacts DEF StructInv, Apart
<1>3. c \in Own
  BY <1>1, <1>2, NoClusters DEF OthersInv, Own
<1>4. c \notin InChain(s)
  <2>1. \A d \in InChain(s) : fatCache[d] # Free
    BY NextCluster, NoClusters, <1>2
  <2>2. QED
    BY <1>1, <2>1
<1>5. /\ fatCache' = [d \in Clusters |->
                        IF d = c THEN Eoc ELSE IF d = m_curCluster THEN c ELSE fatCache[d]]
      /\ m_firstCluster' = IF m_curCluster = 0 THEN c ELSE m_firstCluster
      /\ others' = others /\ fatDisk' = fatDisk /\ Needed
  BY DEF EnterNew, AddCluster
<1>6. /\ m_curCluster = IF s = <<>> THEN 0 ELSE s[n]
      /\ s # <<>> => m_curCluster # 0
  BY <1>5, BeforeCluster
<1>7. /\ Len(r) = n + 1 /\ r \in Seq(Own) /\ r # <<>>
      /\ \A i \in 1 .. n : r[i] = s[i]
      /\ r[n + 1] = c
  <2>1. s \in Seq(Own)
    BY <1>2 DEF ChainInv
  <2>2. QED
    BY <1>3, <2>1, AppendProperties
<1>8. \A d \in Clusters :
        fatCache'[d] = IF d = c THEN Eoc ELSE IF d = m_curCluster THEN c ELSE fatCache[d]
  BY <1>5
<1>9. \A d \in others : d # c /\ d # m_curCluster /\ d \in Clusters
  <2>1. \A i \in 1 .. n : s[i] \in Own
    BY <1>2
  <2>2. m_curCluster \in Own \/ m_curCluster = 0
    BY <1>2, <1>6, <2>1
  <2>3. QED
    BY <1>2, <1>3, <2>2, NoClusters DEF Own, OthersInv
<1> HIDE DEF r
<1>10. InChain(r) = InChain(s) \cup {c}
  <2>1. \A i \in 1 .. Len(r) : r[i] \in InChain(s) \cup {c}
    BY <1>2, <1>7
  <2>2. \A i \in 1 .. n : s[i] \in InChain(r)
    BY <1>2, <1>7 DEF InChain
  <2>3. c \in InChain(r)
    BY <1>2, <1>7 DEF InChain
  <2>4. QED
    BY <2>1, <2>2, <2>3 DEF InChain
<1>11. \A i, j \in 1 .. Len(r) : r[i] = r[j] => i = j
  BY <1>2, <1>4, <1>7 DEF ChainInv
<1>12. \A i \in 1 .. Len(r) : fatCache'[r[i]] = IF i = Len(r) THEN Eoc ELSE r[i + 1]
  <2>1. SUFFICES ASSUME NEW i \in 1 .. Len(r)
                 PROVE  fatCache'[r[i]] = IF i = Len(r) THEN Eoc ELSE r[i + 1]
    OBVIOUS
  <2>2. CASE i = n + 1
    BY <1>1, <1>7, <1>8, <2>2
  <2>3. CASE i = n
    <3>1. n \in 1 .. n /\ r[i] = m_curCluster /\ r[i] \in Clusters /\ r[i] # c
      BY <1>2, <1>4, <1>6, <1>7, <2>3
    <3>2. i # Len(r) /\ r[i + 1] = c
      BY <1>2, <1>7, <2>3
    <3>3. QED
      BY <1>8, <3>1, <3>2
  <2>4. CASE i < n
    <3>1. i \in 1 .. n /\ n \in 1 .. n /\ i + 1 \in 1 .. n /\ i # n /\ i # Len(r)
      BY <1>2, <1>7, <2>4
    <3>2. s[i] # s[n] /\ s[i] # c /\ s[i] \in Clusters /\ m_curCluster = s[n]
      BY <1>2, <1>4, <1>6, <3>1 DEF ChainInv
    <3>3. fatCache[s[i]] = s[i + 1]
      BY <1>2, <3>1 DEF ChainInv
    <3>4. QED
      BY <1>7, <1>8, <3>1, <3>2, <3>3
  <2>5. QED
    BY <1>2, <1>7, <2>2, <2>3, <2>4
<1>13. \A d \in Own : d \notin InChain(r) => fatCache'[d] = Free
  <2>1. SUFFICES ASSUME NEW d \in Own, d \notin InChain(s), d # c PROVE fatCache'[d] = Free
    BY <1>10
  <2>2. d # m_curCluster /\ d \in Clusters
    <3>1. s # <<>> => s[n] \in InChain(s)
      BY <1>2
    <3>2. QED
      BY <1>2, <1>6, <2>1, <3>1, NoClusters
  <2>3. fatCache[d] = Free
    BY <1>2, <2>1 DEF ChainInv
  <2>4. QED
    BY <1>8, <2>1, <2>2, <2>3
<1>14. m_firstCluster' = r[1] /\ m_firstCluster' \in Clusters
  <2>1. CASE s = <<>>
    BY <1>1, <1>2, <1>5, <1>6, <1>7, <2>1
  <2>2. CASE s # <<>>
    <3>1. 1 \in 1 .. n /\ m_firstCluster = s[1]
      BY <1>2, <2>2, ChainFacts
    <3>2. QED
      BY <1>2, <1>5, <1>6, <1>7, <2>2, <3>1
  <2>3. QED
    BY <2>1, <2>2
<1>15. ChainInv(r)'
  <2>1. Own' = Own
    BY <1>5 DEF Own
  <2>2. QED
    BY <1>7, <1>11, <1>12, <1>13, <1>14, <2>1 DEF ChainInv, InChain
<1>16. \A d \in Clusters : fatCache'[d] \in Clusters \cup {Free, Eoc}
  BY <1>1, <1>2, <1>8 DEF TypeOK
<1>17. fatCache' = [d \in Clusters |-> fatCache'[d]]
  BY <1>5
<1>18. QED
  BY <1>1, <1>3, <1>4, <1>5, <1>8, <1>9, <1>10, <1>14, <1>15, <1>16, <1>17 DEF r

\* write() that finds no free cluster keeps the structure.
LEMMA EnterFullStruct ==
    ASSUME NEW s, StructInv(s), pc = "cluster", EnterFull, EnterRest
    PROVE  StructInv(s)'
<1> USE DEF EnterFull, EnterRest, WriteFails, fatVars
<1>2. TypeOK' /\ ShapeInv' /\ WorkInv'
  BY BeforeCluster DEF StructInv, TypeOK, ShapeInv, WorkInv, Writing
<1>3. OthersInv' /\ ChainInv(s)'
  BY ChainStays DEF StructInv, OthersInv, Theirs
<1>4. PlaceInv(s)'
  BY BeforeCluster DEF StructInv, PlaceInv, Writing, InChain
<1>5. QED
  BY <1>2, <1>3, <1>4 DEF StructInv

\* write() that takes a cluster makes the chain longer by this one.
LEMMA EnterNewStruct ==
    ASSUME NEW s, StructInv(s), pc = "cluster", nToWrite > 0, NEW c, EnterNew(c), EnterRest
    PROVE  StructInv(Append(s, c))'
<1> USE DEF EnterNew, EnterRest, AddCluster
<1>1. /\ c \in Clusters /\ m_firstCluster' \in Clusters
      /\ \A d \in Clusters : fatCache'[d] \in Clusters \cup {Free, Eoc}
      /\ fatCache' = [d \in Clusters |-> fatCache'[d]]
      /\ \A d \in others : fatCache'[d] = fatCache[d]
      /\ ChainInv(Append(s, c))' /\ c \in InChain(Append(s, c))
  BY NewChain
<1>2. searchStart' \in Int
  BY <1>1, SizesAre DEF StructInv, ShapeInv, Clusters
<1>3. TypeOK' /\ ShapeInv' /\ WorkInv'
  BY <1>1, <1>2, BeforeCluster DEF StructInv, TypeOK, ShapeInv, WorkInv, Writing
<1>4. OthersInv'
  BY <1>1 DEF StructInv, OthersInv, Theirs
<1>5. PlaceInv(Append(s, c))'
  <2>1. Append(s, c) # <<>> /\ c # 0
    BY <1>1, ChainFacts, NoClusters DEF Apart
  <2>2. InChain(Append(s, c))' = InChain(Append(s, c))
    BY DEF InChain
  <2>3. QED
    BY <1>1, <2>1, <2>2, BeforeCluster DEF StructInv, PlaceInv, Writing
<1>6. QED
  BY <1>1, <1>3, <1>4, <1>5 DEF StructInv

\* write() that goes to the next cluster of its chain keeps the structure.
LEMMA EnterOldStruct ==
    ASSUME NEW s, StructInv(s), pc = "cluster", nToWrite > 0, EnterOld, EnterRest
    PROVE  StructInv(s)' /\ m_curCluster' \in InChain(s) /\ s # <<>>
<1> USE DEF EnterOld, EnterRest, fatVars
<1>1. m_curCluster' \in InChain(s)
  <2>1. CASE AtNewCluster /\ m_curCluster # 0
    <3>1. fatCache[m_curCluster] # Eoc /\ m_curCluster \in InChain(s)
      BY <2>1, BeforeCluster DEF Needed
    <3>2. QED
      BY <2>1, <3>1, NextCluster
  <2>2. CASE AtNewCluster /\ m_curCluster = 0
    BY <2>2, BeforeCluster, ChainFacts
  <2>3. CASE ~AtNewCluster
    <3>1. m_curPosition # 0
      <4>1. 0 % BlockSize = 0 /\ 0 \div BlockSize = 0 /\ 0 % BlocksPerCluster = 0
        BY SizesAre
      <4>2. QED
        BY <2>3, <4>1 DEF AtNewCluster, Offset, BlockOfCluster
    <3>2. QED
      BY <2>3, <3>1, BeforeCluster
  <2>4. QED
    BY <2>1, <2>2, <2>3
<1>2. s # <<>> /\ m_curCluster' \in Clusters /\ m_curCluster' # 0
  BY <1>1, NextCluster
<1>3. TypeOK' /\ ShapeInv' /\ WorkInv'
  BY <1>2, BeforeCluster DEF StructInv, TypeOK, ShapeInv, WorkInv, Writing
<1>4. OthersInv' /\ ChainInv(s)'
  BY ChainStays DEF StructInv, OthersInv, Theirs
<1>5. PlaceInv(s)'
  BY <1>1, <1>2, BeforeCluster DEF StructInv, PlaceInv, Writing, InChain
<1>6. QED
  BY <1>1, <1>2, <1>3, <1>4, <1>5 DEF StructInv

\* What a turn of a transfer may make of the cache and of the card.
SoundCard(c, d) ==
    /\ DOMAIN d = OnCard /\ \A b \in Blocks : d[b] \in Units
    /\ \A b \in Theirs : d[b] = disk[b]
    /\ c = [lbn |-> c.lbn, dirty |-> c.dirty, data |-> c.data]
    /\ c.lbn \in OnCard \cup {NoBlock} /\ c.dirty \in BOOLEAN
    /\ c.dirty => c.lbn # NoBlock /\ c.lbn \notin Theirs
    /\ c.lbn \in Blocks => c.data \in Units

TurnRest == UNCHANGED <<toRead, got, newPos, fatVars, size, synced, grown, unmoored, calls>>

\* A turn of a write, done or refused.
LEMMA TurnStruct ==
    ASSUME NEW s, StructInv(s), pc = "block", TurnRest, overlapped' \in BOOLEAN,
           (\E n \in 1 .. nToWrite : Wrote(n)) \/ Refused,
           SoundCard(cache', disk')
    PROVE  StructInv(s)'
<1> USE DEF TurnRest, fatVars
<1>1. /\ m_curPosition \in Nat /\ nToWrite \in Nat /\ m_curCluster \in InChain(s)
      /\ s # <<>> /\ m_curCluster # 0 /\ ~unmoored
  BY TheBlock
<1>2. toRead = 0
  BY DEF StructInv, WorkInv, TypeOK
<1>3. CASE Refused
  <2>1. /\ refused' \in Nat /\ pc' = "idle" /\ nToWrite' = 0 /\ value' = 0
        /\ UNCHANGED memory
    BY <1>3 DEF StructInv, ShapeInv, Refused, WriteFails
  <2>2. TypeOK'
    BY <2>1 DEF StructInv, TypeOK, SoundCard, memory, OnCard
  <2>3. ShapeInv'
    BY <2>1 DEF StructInv, ShapeInv, SoundCard, memory, OnCard, Units
  <2>4. WorkInv' /\ PlaceInv(s)'
    BY <1>2, <2>1 DEF StructInv, WorkInv, PlaceInv, Writing, InChain, memory
  <2>5. OthersInv' /\ ChainInv(s)'
    BY <2>1, OthersStay, ChainStays DEF StructInv, SoundCard, memory
  <2>6. QED
    BY <2>2, <2>3, <2>4, <2>5 DEF StructInv
<1>4. ASSUME NEW n \in 1 .. nToWrite, Wrote(n)
      PROVE  StructInv(s)'
  <2>1. /\ m_curPosition' \in Nat /\ nToWrite' \in Nat /\ pc' = "cluster"
        /\ UNCHANGED <<m_fileSize, m_curCluster, m_firstCluster, dirDirty, value, refused>>
    BY <1>1, <1>4 DEF Wrote
  <2>2. TypeOK'
    BY <2>1 DEF StructInv, TypeOK, SoundCard, OnCard
  <2>3. ShapeInv'
    BY <2>1 DEF StructInv, ShapeInv, SoundCard, OnCard, Units
  <2>4. WorkInv' /\ PlaceInv(s)'
    BY <1>1, <1>2, <2>1 DEF StructInv, WorkInv, PlaceInv, Writing, InChain
  <2>5. OthersInv' /\ ChainInv(s)'
    BY <2>1, OthersStay, ChainStays DEF StructInv, SoundCard
  <2>6. QED
    BY <2>2, <2>3, <2>4, <2>5 DEF StructInv
<1>5. QED
  BY <1>3, <1>4

\* A part of a block.
PartSize == Smaller(BlockSize - Offset, nToWrite)
Fetched == Fetch(Block, Reserve)
PartData == [i \in 1 .. BlockSize |->
               IF i > Offset /\ i <= Offset + PartSize THEN value ELSE Fetched.data[i]]
PartFull == Offset + PartSize = BlockSize

\* A part of a block: it is not empty, is in the block, and was not asked for
\* in vain.
LEMMA PartIs ==
    ASSUME NEW s, StructInv(s), pc = "block"
    PROVE  /\ PartSize \in 1 .. nToWrite /\ Offset + PartSize <= BlockSize
           /\ PartData \in Units /\ PartFull \in BOOLEAN /\ value \in Nat
<1>1. /\ Offset \in 0 .. BlockSize - 1 /\ nToWrite \in Nat /\ nToWrite > 0
      /\ BlockSize \in Nat /\ Block \in Blocks
  BY TheBlock
<1>2. PartSize \in 1 .. nToWrite /\ Offset + PartSize <= BlockSize
  BY <1>1 DEF PartSize, Smaller
<1>3. value \in Nat
  BY DEF StructInv, ShapeInv
<1>4. Fetched.data \in Units
  BY <1>1, FetchIs DEF Fetched, Reserve
<1>5. PartData \in Units
  BY <1>3, <1>4 DEF PartData, Units
<1>6. QED
  BY <1>2, <1>3, <1>5 DEF PartFull

\* The turn of write() that goes through the cache, and how it may be refused.
LEMMA WritePartIs ==
    ASSUME NEW s, StructInv(s), WritePart
    PROVE  /\ pc = "block" /\ TurnRest /\ overlapped' = overlapped /\ ~Multiple /\ ~Single
           /\ \/ /\ Wrote(PartSize)
                 /\ cache' = [lbn |-> Block, dirty |-> ~PartFull, data |-> PartData]
                 /\ disk' = IF PartFull THEN [Flushed(Block) EXCEPT ![Block] = PartData]
                                        ELSE Flushed(Block)
              \/ Refused /\ UNCHANGED <<cache, disk>>
              \/ /\ Refused
                 /\ cache' = [lbn |-> Block, dirty |-> TRUE, data |-> PartData]
                 /\ disk' = Flushed(Block)
  BY DEF WritePart, TurnRest, PartSize, Fetched, PartData, PartFull

\* A part of a block written keeps the structure.
LEMMA WritePartStruct ==
    ASSUME NEW s, StructInv(s), WritePart
    PROVE  StructInv(s)'
<1>1. pc = "block" /\ TurnRest /\ overlapped' \in BOOLEAN
  BY WritePartIs DEF StructInv, ShapeInv
<1>2. PartSize \in 1 .. nToWrite /\ PartData \in Units /\ PartFull \in BOOLEAN
      /\ Block \in Blocks /\ Block \notin Theirs
  BY <1>1, PartIs, TheBlock
<1>3. (\E n \in 1 .. nToWrite : Wrote(n)) \/ Refused
  BY <1>2, WritePartIs
<1>4. SoundCard(cache', disk')
  <2>1. /\ DOMAIN Flushed(Block) = OnCard /\ \A b \in Blocks : Flushed(Block)[b] \in Units
        /\ \A b \in Theirs : Flushed(Block)[b] = disk[b] /\ b \in Blocks
    BY FlushedIs, CardIs
  <2> DEFINE fl == Flushed(Block)
             full == [fl EXCEPT ![Block] = PartData]
  <2>2. /\ DOMAIN full = OnCard /\ \A b \in Blocks : full[b] \in Units
        /\ \A b \in Theirs : full[b] = disk[b]
    <3> HIDE DEF fl
    <3>1. \A b \in OnCard : b \in DOMAIN fl
      BY <2>1 DEF fl
    <3>2. DOMAIN full = DOMAIN fl /\ \A b \in DOMAIN fl : full[b] = IF b = Block THEN PartData ELSE fl[b]
      OBVIOUS
    <3>3. QED
      BY <1>2, <2>1, <3>1, <3>2, BlocksAre DEF fl
  <2>3. Block \in OnCard /\ Block # NoBlock
    BY <1>2, BlocksAre
  <2>4. CASE cache' = cache /\ disk' = disk
    BY <2>4, CardIs DEF SoundCard, StructInv, ShapeInv, OthersInv, TypeOK, OnCard
  <2>5. CASE /\ \E d \in BOOLEAN : cache' = [lbn |-> Block, dirty |-> d, data |-> PartData]
             /\ disk' = fl \/ disk' = full
    <3> HIDE DEF fl, full
    <3>1. SoundCard(cache', fl) /\ SoundCard(cache', full)
      BY <1>2, <2>1, <2>2, <2>3, <2>5 DEF SoundCard, fl
    <3>2. QED
      BY <2>5, <3>1
  <2>6. QED
    BY <1>2, <2>4, <2>5, WritePartIs
<1>5. QED
  BY <1>1, <1>3, <1>4, TurnStruct

\* Data blocks of the file's own written past the cache leave the cache and the
\* card sound.
LEMMA CachedStays ==
    ASSUME NEW s, StructInv(s), DOMAIN disk' = OnCard, \A b \in Blocks : disk'[b] \in Units,
           \A b \in Theirs : disk'[b] = disk[b],
           cache' = cache \/ cache' = Invalidated \/ cache' = [cache EXCEPT !.dirty = FALSE]
    PROVE  SoundCard(cache', disk')
<1>1. /\ cache = [lbn |-> cache.lbn, dirty |-> cache.dirty, data |-> cache.data]
      /\ cache.lbn \in OnCard \cup {NoBlock} /\ cache.dirty \in BOOLEAN
      /\ cache.dirty => cache.lbn # NoBlock /\ cache.lbn \notin Theirs
      /\ cache.lbn \in Blocks => cache.data \in Units
  BY DEF StructInv, ShapeInv, OthersInv, TypeOK, OnCard
<1>2. CASE cache' = cache
  BY <1>1, <1>2 DEF SoundCard
<1>3. CASE cache' = Invalidated
  <2>1. cache' = [lbn |-> NoBlock, dirty |-> FALSE, data |-> cache.data]
    BY <1>1, <1>3 DEF Invalidated
  <2>2. QED
    BY <2>1, BlocksAre DEF SoundCard
<1>4. CASE cache' = [cache EXCEPT !.dirty = FALSE]
  <2>1. cache' = [lbn |-> cache.lbn, dirty |-> FALSE, data |-> cache.data]
    BY <1>1, <1>4
  <2>2. QED
    BY <1>1, <2>1 DEF SoundCard
<1>5. QED
  BY <1>2, <1>3, <1>4

\* A whole block written keeps the structure.
LEMMA WriteBlockStruct ==
    ASSUME NEW s, StructInv(s), WriteBlock
    PROVE  StructInv(s)'
<1>1. /\ pc = "block" /\ Single /\ TurnRest /\ overlapped' \in BOOLEAN
      /\ cache' = cache \/ cache' = Invalidated
      /\ \/ Wrote(BlockSize) /\ disk' = [disk EXCEPT ![Block] = WholeBlock]
         \/ Refused /\ disk' = disk
  BY DEF WriteBlock, TurnRest, StructInv, ShapeInv
<1>2. BlockSize \in 1 .. nToWrite /\ Block \in Blocks /\ Block \notin Theirs
      /\ WholeBlock \in Units
  <2>1. nToWrite \in Nat /\ nToWrite >= BlockSize /\ value \in Nat
    BY <1>1 DEF Single, StructInv, ShapeInv, TypeOK
  <2>2. QED
    BY <1>1, <2>1, TheBlock, SizesAre DEF WholeBlock, Units
<1>3. /\ DOMAIN disk' = OnCard /\ \A b \in Blocks : disk'[b] \in Units
      /\ \A b \in Theirs : disk'[b] = disk[b]
  <2>1. /\ DOMAIN disk = OnCard /\ \A b \in Blocks : disk[b] \in Units
        /\ \A b \in Theirs : b \in Blocks
    BY CardIs
  <2>2. \A b \in Blocks : b \in OnCard
    BY BlocksAre
  <2>3. QED
    BY <1>1, <1>2, <2>1, <2>2
<1>4. SoundCard(cache', disk')
  BY <1>1, <1>3, CachedStays
<1>5. QED
  BY <1>1, <1>2, <1>4, TurnStruct

\* The blocks of one transfer are in the present cluster.
Run == Smaller(BlocksPerCluster - BlockOfCluster, nToWrite \div BlockSize)

\* Several blocks written at once are all in the cluster, and as many units are
\* left.
LEMMA RunIs ==
    ASSUME NEW s, StructInv(s), pc = "block", Multiple
    PROVE  /\ Run \in Nat /\ Run >= 1 /\ BlockOfCluster + Run <= BlocksPerCluster
           /\ Run * BlockSize = BlockSize * Run /\ Run * BlockSize \in 1 .. nToWrite
           /\ \A b \in Block .. Block + Run - 1 : b \in Blocks /\ b \notin Theirs
           /\ Block \in Nat
<1>1. /\ BlockOfCluster \in 0 .. BlocksPerCluster - 1 /\ nToWrite \in Nat
      /\ m_curCluster \in InChain(s) /\ Block \in Blocks
      /\ BlockSize \in Nat \ {0} /\ BlocksPerCluster \in Nat \ {0}
  BY TheBlock, SizesAre
<1>2. nToWrite >= 2 * BlockSize
  BY DEF Multiple
<1> DEFINE q == nToWrite \div BlockSize
<1>3. q \in Nat /\ q >= 2 /\ BlockSize * q <= nToWrite
  <2>1. q \in Nat /\ nToWrite % BlockSize \in 0 .. BlockSize - 1
        /\ nToWrite = BlockSize * q + (nToWrite % BlockSize)
    BY <1>1, Division
  <2> HIDE DEF q
  <2>2. BlockSize * q <= nToWrite /\ BlockSize * q > BlockSize
    BY <1>1, <1>2, <2>1
  <2>3. q >= 2
    <3>1. SUFFICES ASSUME q <= 1 PROVE FALSE
      BY <2>1
    <3>2. q = 0 \/ q = 1
      BY <2>1, <3>1
    <3>3. BlockSize * q <= BlockSize
      BY <1>1, <3>2
    <3>4. QED
      BY <1>1, <2>1, <2>2, <3>3
  <2>4. QED
    BY <2>1, <2>2, <2>3
<1> HIDE DEF q
<1>4. Run \in Nat /\ Run >= 1 /\ Run <= q /\ BlockOfCluster + Run <= BlocksPerCluster
  BY <1>1, <1>3 DEF Run, Smaller, q
<1>5. Run * BlockSize = BlockSize * Run /\ Run * BlockSize \in 1 .. nToWrite
  <2>1. BlockSize * Run <= BlockSize * q /\ BlockSize * Run >= BlockSize * 1
    BY <1>1, <1>3, <1>4
  <2>2. QED
    BY <1>1, <1>3, <1>4, <2>1
<1>6. Block \in Nat
  BY <1>1, BlocksAre
<1>7. ASSUME NEW b \in Block .. Block + Run - 1
      PROVE  b \in Blocks /\ b \notin Theirs
  <2> DEFINE k == BlockOfCluster + (b - Block)
  <2>1. k \in 0 .. BlocksPerCluster - 1
    BY <1>1, <1>4, <1>6
  <2>2. StartBlock(m_curCluster) \in Int
    BY <1>1, ChainFacts, SizesAre DEF StartBlock, Clusters
  <2>3. StartBlock(m_curCluster) + k = b
    BY <1>1, <1>6, <2>2 DEF Block
  <2> HIDE DEF k
  <2>4. QED
    BY <1>1, <2>1, <2>3, OwnBlocks
<1>8. QED
  BY <1>4, <1>5, <1>6, <1>7

\* The turn of write() with several blocks, and how it may be refused after
\* some of them.
LEMMA WriteBlocksIs ==
    ASSUME NEW s, StructInv(s), WriteBlocks
    PROVE  /\ pc = "block" /\ Multiple /\ TurnRest
           /\ cache' = IF Compared(Run) THEN Invalidated ELSE cache
           /\ overlapped' = (overlapped \/ IF Compared(Run) THEN ~InRange(Run) /\ cache.dirty
                                                            ELSE InRange(Run))
           /\ \/ /\ Wrote(Run * BlockSize)
                 /\ disk' = [b \in DOMAIN disk |->
                               IF b \in Block .. Block + Run - 1 THEN WholeBlock ELSE disk[b]]
              \/ /\ Refused
                 /\ \E k \in 0 .. Run - 1 :
                      disk' = [b \in DOMAIN disk |->
                                 IF b \in Block .. Block + k - 1 THEN WholeBlock ELSE disk[b]]
  BY DEF WriteBlocks, TurnRest, Run

\* Several whole blocks written keep the structure.
LEMMA WriteBlocksStruct ==
    ASSUME NEW s, StructInv(s), WriteBlocks
    PROVE  StructInv(s)'
<1>1. /\ pc = "block" /\ Multiple /\ TurnRest /\ overlapped' \in BOOLEAN
      /\ cache' = cache \/ cache' = Invalidated
  BY WriteBlocksIs
<1>2. /\ Run \in Nat /\ Run * BlockSize \in 1 .. nToWrite /\ Block \in Nat
      /\ \A b \in Block .. Block + Run - 1 : b \in Blocks /\ b \notin Theirs
  BY <1>1, RunIs
<1>3. WholeBlock \in Units
  BY DEF WholeBlock, Units, StructInv, ShapeInv
<1>4. PICK k \in 0 .. Run :
         disk' = [b \in DOMAIN disk |->
                    IF b \in Block .. Block + k - 1 THEN WholeBlock ELSE disk[b]]
  <2>1. Run \in 0 .. Run /\ \A k \in 0 .. Run - 1 : k \in 0 .. Run
    BY <1>2
  <2>2. QED
    BY <2>1, WriteBlocksIs
<1>5. /\ DOMAIN disk' = OnCard /\ \A b \in Blocks : disk'[b] \in Units
      /\ \A b \in Theirs : disk'[b] = disk[b]
  <2>1. /\ DOMAIN disk = OnCard /\ \A b \in Blocks : disk[b] \in Units /\ b \in OnCard
        /\ \A b \in Theirs : b \in Blocks
    BY CardIs, BlocksAre
  <2>2. \A b \in Block .. Block + k - 1 : b \in Block .. Block + Run - 1
    BY <1>2
  <2>3. QED
    BY <1>2, <1>3, <1>4, <2>1, <2>2
<1>6. SoundCard(cache', disk')
  BY <1>1, <1>5, CachedStays
<1>7. (\E n \in 1 .. nToWrite : Wrote(n)) \/ Refused
  BY <1>2, WriteBlocksIs
<1>8. QED
  BY <1>1, <1>6, <1>7, TurnStruct

-----------------------------------------------------------------------------
(* Several blocks in a row. *)

\* A block is a sequence of its units.
LEMMA UnitsAre ==
    ASSUME NEW u \in Units
    PROVE  u \in Seq(Nat) /\ Len(u) = BlockSize /\ \A i \in 1 .. BlockSize : u[i] \in Nat
<1>1. BlockSize \in Nat /\ u \in [1 .. BlockSize -> Nat]
  BY SizesAre DEF Units
<1>2. u \in Seq(Nat)
  BY <1>1, SeqDef
<1>3. QED
  BY <1>1, <1>2, LenProperties

\* The units of f are those of the first n blocks of q.
AllOf(f, q, n) ==
    /\ f \in Seq(Nat) /\ Len(f) = BlockSize * n
    /\ \A x \in 0 .. BlockSize * n - 1 : f[x + 1] = q[(x \div BlockSize) + 1][(x % BlockSize) + 1]

\* The units of n blocks and of one more.
LEMMA OneMoreBlock ==
    ASSUME NEW f, NEW q, NEW n \in Nat, AllOf(f, q, n), NEW u \in Units, q[n + 1] = u
    PROVE  AllOf(f \o u, q, n + 1)
<1>1. /\ f \in Seq(Nat) /\ Len(f) = BlockSize * n
      /\ \A x \in 0 .. BlockSize * n - 1 :
           f[x + 1] = q[(x \div BlockSize) + 1][(x % BlockSize) + 1]
  BY DEF AllOf
<1>2. u \in Seq(Nat) /\ Len(u) = BlockSize
  BY UnitsAre
<1> DEFINE m == BlockSize * n
           g == f \o u
<1>3. m \in Nat /\ BlockSize * (n + 1) = m + BlockSize /\ BlockSize \in Nat \ {0}
  BY SizesAre
<1>4. /\ g \in Seq(Nat) /\ Len(g) = Len(f) + Len(u)
      /\ \A i \in 1 .. Len(f) + Len(u) : g[i] = IF i <= Len(f) THEN f[i] ELSE u[i - Len(f)]
  BY <1>1, <1>2, ConcatProperties
<1> HIDE DEF g
<1>5. ASSUME NEW x \in 0 .. m + BlockSize - 1
      PROVE  g[x + 1] = q[(x \div BlockSize) + 1][(x % BlockSize) + 1]
  <2>1. CASE x < m
    <3> HIDE DEF m
    <3>1. x \in 0 .. m - 1 /\ x + 1 \in 1 .. m + BlockSize /\ x + 1 <= m
      BY <1>3, <2>1
    <3>2. g[x + 1] = f[x + 1]
      BY <1>1, <1>2, <1>4, <3>1 DEF m
    <3>3. QED
      BY <1>1, <3>1, <3>2 DEF m
  <2>2. CASE x >= m
    <3> DEFINE r == x - m
    <3>1. r \in 0 .. BlockSize - 1 /\ x = m + r
      BY <1>3, <2>2
    <3>2. x \div BlockSize = n /\ x % BlockSize = r
      <4>1. (BlockSize * n + r) \div BlockSize = n /\ (BlockSize * n + r) % BlockSize = r
        <5> HIDE DEF r, m
        <5>1. QED
          BY <1>3, <3>1, DivIs
      <4>2. QED
        BY <3>1, <4>1
    <3>3. g[x + 1] = u[(x + 1) - m]
      <4> HIDE DEF m
      <4>1. x + 1 \in 1 .. m + BlockSize /\ ~(x + 1 <= m)
        BY <1>3, <2>2
      <4>2. QED
        BY <1>1, <1>2, <1>4, <4>1 DEF m
    <3>4. (x + 1) - m = r + 1
      BY <1>3, <3>1
    <3>5. QED
      BY <3>2, <3>3, <3>4
  <2>3. QED
    BY <1>3, <2>1, <2>2
<1>6. Len(g) = BlockSize * (n + 1)
  BY <1>1, <1>2, <1>3, <1>4
<1>7. \A x \in 0 .. BlockSize * (n + 1) - 1 :
        g[x + 1] = q[(x \div BlockSize) + 1][(x % BlockSize) + 1]
  <2> HIDE DEF m
  <2>1. QED
    BY <1>3, <1>5
<1>8. AllOf(g, q, n + 1)
  BY <1>4, <1>6, <1>7, Zenon DEF AllOf
<1>9. QED
  BY <1>8 DEF g

\* The units of n blocks one behind another.
LEMMA FlattenBlocks ==
    ASSUME NEW n \in Nat, NEW q \in [1 .. n -> Units]
    PROVE  AllOf(FlattenSeq(q), q, n)
<1> DEFINE First(i) == SubSeq(q, 1, i)
           T == {i \in 0 .. n : AllOf(FlattenSeq(First(i)), q, i)}
<1>1. q \in Seq(Seq(Nat)) /\ Len(q) = n /\ \A i \in 1 .. n : q[i] \in Units /\ q[i] \in Seq(Nat)
  <2>1. \A i \in 1 .. n : q[i] \in Units /\ q[i] \in Seq(Nat)
    BY UnitsAre
  <2>2. q \in [1 .. n -> Seq(Nat)]
    BY <2>1
  <2>3. q \in Seq(Seq(Nat))
    BY <2>2, SeqDef
  <2>4. QED
    BY <2>1, <2>3, LenProperties
<1>2. First(0) = <<>> /\ First(n) = q
  BY <1>1, SubSeqEmpty, SubSeqFull
<1>3. 0 \in T
  <2>1. AllOf(<<>>, q, 0)
    <3>1. BlockSize * 0 = 0
      BY SizesAre
    <3>2. 0 .. BlockSize * 0 - 1 = {}
      BY <3>1
    <3>3. <<>> \in Seq(Nat) /\ Len(<<>>) = BlockSize * 0
      BY <3>1
    <3>4. QED
      BY <3>2, <3>3, Zenon DEF AllOf
  <2>2. 0 \in 0 .. n
    OBVIOUS
  <2>3. AllOf(FlattenSeq(First(0)), q, 0)
    <3> HIDE DEF First
    <3>1. QED
      BY <1>2, <2>1, FlattenEmpty, Zenon
  <2>4. QED
    BY <2>2, <2>3, Zenon
<1>4. ASSUME NEW i \in 0 .. n - 1, i \in T
      PROVE  i + 1 \in T
  <2>1. i + 1 \in 1 .. n /\ i + 1 \in 0 .. n /\ i \in Nat
    OBVIOUS
  <2>2. First(i) \in Seq(Seq(Nat)) /\ First(i + 1) = Append(First(i), q[i + 1])
    <3>1. First(i) \in Seq(Seq(Nat))
      BY <1>1, SubSeqProperties
    <3>2. First(i + 1) = First(i) \o <<q[i + 1]>>
      BY <1>1, <2>1, SubSeqRecursiveSecond
    <3>3. QED
      BY <1>1, <2>1, <3>1, <3>2, AppendIsConcat
  <2>3. AllOf(FlattenSeq(First(i)), q, i)
    BY <1>4
  <2> HIDE DEF First
  <2>4. FlattenSeq(First(i + 1)) = FlattenSeq(First(i)) \o q[i + 1]
    BY <1>1, <2>1, <2>2, FlattenAppend
  <2>5. AllOf(FlattenSeq(First(i)) \o q[i + 1], q, i + 1)
    BY <1>1, <2>1, <2>3, OneMoreBlock
  <2>6. QED
    BY <2>1, <2>4, <2>5
<1> HIDE DEF T
<1>5. n \in T
  BY <1>3, <1>4, SetInductionUpTo
<1>6. QED
  BY <1>2, <1>5 DEF T

-----------------------------------------------------------------------------
(* A turn of a read. *)

TurnBlock == StartBlock(ReadCluster) + BlockOfCluster
ReadRun == Smaller(BlocksPerCluster - BlockOfCluster, toRead \div BlockSize)
RunCompared == cache.lbn <= TurnBlock /\ TurnBlock < cache.lbn + ReadRun
Direct == Offset = 0 /\ toRead >= BlockSize /\ cache.lbn # TurnBlock
Several == Direct /\ toRead >= 2 * BlockSize

ReadPart ==
    /\ ~Direct
    /\ Got(SubSeq(Fetch(TurnBlock, FALSE).data, Offset + 1, Smaller(BlockSize, Offset + toRead)))
    /\ cache' = Fetch(TurnBlock, FALSE) /\ disk' = Flushed(TurnBlock)
    /\ UNCHANGED <<fatCache, fatDirty, fatDisk, overlapped, refused>>
ReadBlock ==
    /\ Direct /\ ~Several
    /\ Got(disk[TurnBlock])
    /\ UNCHANGED <<cache, disk, fatCache, fatDirty, fatDisk, overlapped, refused>>
ReadBlocks ==
    /\ Several
    /\ cache' = IF RunCompared THEN [cache EXCEPT !.dirty = FALSE] ELSE cache
    /\ disk' = IF RunCompared THEN Synced ELSE disk
    /\ fatDirty' = (fatDirty /\ ~RunCompared)
    /\ fatDisk' = IF RunCompared THEN fatCache ELSE fatDisk
    /\ Got(FlattenSeq([k \in 1 .. ReadRun |-> disk'[TurnBlock + k - 1]]))
    /\ overlapped' = (overlapped \/ (cache'.dirty /\
                                       cache.lbn \in TurnBlock .. TurnBlock + ReadRun - 1))
    /\ UNCHANGED <<fatCache, refused>>
ReadRefused ==
    /\ refused < MaxRefused /\ refused' = refused + 1
    /\ ReadFails
    /\ UNCHANGED <<cache, disk, fatCache, fatDirty, fatDisk, overlapped>>
ReadRest == UNCHANGED <<m_fileSize, m_firstCluster, dirDirty, value, nToWrite, newPos,
                        searchStart, others, content, size, synced, grown, unmoored, calls>>

\* The turns of read().
LEMMA ReadTurnIs ==
    ASSUME ReadTurn
    PROVE  /\ pc = "read" /\ toRead > 0 /\ ReadCluster # Eoc /\ m_curCluster' = ReadCluster
           /\ ReadPart \/ ReadBlock \/ ReadBlocks \/ ReadRefused
           /\ ReadRest
<1>1. /\ pc = "read" /\ toRead > 0 /\ ReadCluster # Eoc /\ m_curCluster' = ReadCluster
      /\ ReadRest
  BY DEF ReadTurn, ReadRest
<1>2. ReadPart \/ ReadBlock \/ ReadBlocks \/ ReadRefused
  BY DEF ReadTurn, ReadPart, ReadBlock, ReadBlocks, ReadRefused, TurnBlock, ReadRun,
         RunCompared, Direct, Several
<1>3. QED
  BY <1>1, <1>2

\* The block that a turn of read() is about is one of the file, and of no
\* other.
LEMMA ReadPlace ==
    ASSUME NEW s, StructInv(s), pc = "read", toRead > 0, ReadCluster # Eoc
    PROVE  /\ ReadCluster \in InChain(s) /\ ReadCluster \in Clusters /\ ReadCluster # 0
           /\ s # <<>> /\ ~unmoored /\ m_curPosition \in Nat /\ toRead \in Nat
           /\ BlockOfCluster \in 0 .. BlocksPerCluster - 1 /\ Offset \in 0 .. BlockSize - 1
           /\ TurnBlock \in Blocks /\ TurnBlock \in Nat /\ TurnBlock \notin Theirs
           /\ \A i \in 0 .. BlocksPerCluster - BlockOfCluster - 1 : TurnBlock + i \in Blocks
<1>1. PlaceInv(s) /\ m_curPosition \in Nat /\ toRead \in Nat
  BY DEF StructInv, TypeOK
<1>2. s # <<>> /\ ~unmoored
  BY <1>1 DEF PlaceInv
<1>3. BlockOfCluster \in 0 .. BlocksPerCluster - 1 /\ Offset \in 0 .. BlockSize - 1
  BY <1>1, PlaceOf, BlockIs
<1>4. ReadCluster \in InChain(s)
  <2>1. CASE AtNewCluster /\ m_curPosition = 0
    BY <1>2, <2>1, ChainFacts DEF ReadCluster
  <2>2. CASE AtNewCluster /\ m_curPosition # 0
    BY <1>1, <1>2, <2>2, NextCluster DEF ReadCluster, PlaceInv
  <2>3. CASE ~AtNewCluster
    <3>1. m_curPosition # 0
      <4>1. 0 % BlockSize = 0 /\ 0 \div BlockSize = 0 /\ 0 % BlocksPerCluster = 0
        BY SizesAre
      <4>2. QED
        BY <2>3, <4>1 DEF AtNewCluster, Offset, BlockOfCluster
    <3>2. QED
      BY <1>1, <1>2, <2>3, <3>1 DEF ReadCluster, PlaceInv
  <2>4. QED
    BY <2>1, <2>2, <2>3
<1>5. ReadCluster \in Clusters /\ ReadCluster # 0
  BY <1>4, NextCluster
<1>6. TurnBlock \in Blocks /\ TurnBlock \notin Theirs /\ TurnBlock \in Nat
  BY <1>3, <1>4, OwnBlocks, BlocksAre DEF TurnBlock
<1>7. ASSUME NEW i \in 0 .. BlocksPerCluster - BlockOfCluster - 1
      PROVE  TurnBlock + i \in Blocks
  <2> DEFINE k == BlockOfCluster + i
  <2>1. k \in 0 .. BlocksPerCluster - 1
    BY <1>3, SizesAre
  <2>2. StartBlock(ReadCluster) \in Int
    BY <1>5, SizesAre DEF StartBlock, Clusters
  <2>3. StartBlock(ReadCluster) + k = TurnBlock + i
    BY <1>3, <2>2 DEF TurnBlock
  <2> HIDE DEF k
  <2>4. QED
    BY <1>4, <2>1, <2>3, OwnBlocks
<1>8. QED
  BY <1>1, <1>2, <1>3, <1>4, <1>5, <1>6, <1>7

\* What a turn gets is not more than was asked for.
PartRead == Smaller(BlockSize, Offset + toRead)

\* A part of a block read is in the block, and is as long as it says.
LEMMA ReadPartIs ==
    ASSUME NEW s, StructInv(s), pc = "read", toRead > 0, ReadCluster # Eoc
    PROVE  LET u == SubSeq(Fetch(TurnBlock, FALSE).data, Offset + 1, PartRead)
           IN  /\ PartRead \in Offset + 1 .. BlockSize /\ PartRead - Offset \in 1 .. toRead
               /\ u \in Seq(Nat) /\ Len(u) = PartRead - Offset
               /\ \A i \in 1 .. PartRead - Offset : u[i] = Fetch(TurnBlock, FALSE).data[Offset + i]
<1>1. /\ Offset \in 0 .. BlockSize - 1 /\ toRead \in Nat /\ TurnBlock \in Blocks
      /\ BlockSize \in Nat
  BY ReadPlace, SizesAre
<1>2. PartRead \in Offset + 1 .. BlockSize /\ PartRead - Offset \in 1 .. toRead
      /\ PartRead \in Int
  BY <1>1 DEF PartRead, Smaller
<1> DEFINE d == Fetch(TurnBlock, FALSE).data
           u == SubSeq(d, Offset + 1, PartRead)
<1>3. \A i \in 1 .. BlockSize : d[i] \in Nat
  <2>1. d \in Units
    BY <1>1, FetchIs
  <2>2. QED
    BY <2>1, UnitsAre
<1> HIDE DEF d
<1>4. \A i \in Offset + 1 .. PartRead : d[i] \in Nat
  BY <1>1, <1>2, <1>3
<1>5. /\ u \in Seq(Nat)
      /\ Len(u) = IF Offset + 1 <= PartRead THEN PartRead - (Offset + 1) + 1 ELSE 0
      /\ \A i \in 1 .. PartRead - (Offset + 1) + 1 : u[i] = d[(Offset + 1) + i - 1]
  BY <1>1, <1>2, <1>4, SubSeqProperties
<1>6. Offset + 1 <= PartRead /\ PartRead - (Offset + 1) + 1 = PartRead - Offset
      /\ \A i \in 1 .. PartRead - Offset : (Offset + 1) + i - 1 = Offset + i
  BY <1>1, <1>2
<1>7. QED
  BY <1>2, <1>5, <1>6 DEF d

\* Several blocks read at once are all in the cluster, and as many units are
\* left.
LEMMA ReadRunIs ==
    ASSUME NEW s, StructInv(s), pc = "read", toRead > 0, ReadCluster # Eoc, Several
    PROVE  /\ ReadRun \in Nat /\ ReadRun >= 1
           /\ ReadRun <= BlocksPerCluster - BlockOfCluster
           /\ BlockSize * ReadRun \in 1 .. toRead
           /\ \A k \in 1 .. ReadRun : TurnBlock + k - 1 \in Blocks
<1>1. /\ BlockOfCluster \in 0 .. BlocksPerCluster - 1 /\ toRead \in Nat /\ TurnBlock \in Nat
      /\ BlockSize \in Nat \ {0} /\ BlocksPerCluster \in Nat \ {0}
  BY ReadPlace, SizesAre
<1>2. toRead >= 2 * BlockSize
  BY DEF Several
<1> DEFINE q == toRead \div BlockSize
<1>3. q \in Nat /\ q >= 1 /\ BlockSize * q <= toRead
  <2>1. q \in Nat /\ toRead % BlockSize \in 0 .. BlockSize - 1
        /\ toRead = BlockSize * q + (toRead % BlockSize)
    BY <1>1, Division
  <2> HIDE DEF q
  <2>2. q # 0
    BY <1>1, <1>2, <2>1
  <2>3. QED
    BY <1>1, <2>1, <2>2
<1> HIDE DEF q
<1>4. ReadRun \in Nat /\ ReadRun >= 1 /\ ReadRun <= q
      /\ ReadRun <= BlocksPerCluster - BlockOfCluster
  BY <1>1, <1>3 DEF ReadRun, Smaller, q
<1>5. BlockSize * ReadRun \in 1 .. toRead
  <2>1. BlockSize * ReadRun <= BlockSize * q /\ BlockSize * ReadRun >= BlockSize * 1
    BY <1>1, <1>3, <1>4
  <2>2. QED
    BY <1>1, <1>3, <1>4, <2>1
<1>6. ASSUME NEW k \in 1 .. ReadRun
      PROVE  TurnBlock + k - 1 \in Blocks
  <2>1. k - 1 \in 0 .. BlocksPerCluster - BlockOfCluster - 1 /\ TurnBlock + (k - 1) = TurnBlock + k - 1
    BY <1>1, <1>4
  <2>2. QED
    BY <2>1, ReadPlace
<1>7. QED
  BY <1>4, <1>5, <1>6

\* A turn of read() keeps the structure.
LEMMA ReadTurnStruct ==
    ASSUME NEW s, StructInv(s), ReadTurn
    PROVE  StructInv(s)'
<1> USE DEF ReadRest
<1>1. /\ pc = "read" /\ toRead > 0 /\ ReadCluster # Eoc /\ m_curCluster' = ReadCluster
      /\ ReadPart \/ ReadBlock \/ ReadBlocks \/ ReadRefused
      /\ ReadRest
  BY ReadTurnIs
<1>2. /\ ReadCluster \in InChain(s) /\ ReadCluster \in Clusters /\ ReadCluster # 0
      /\ s # <<>> /\ ~unmoored /\ m_curPosition \in Nat /\ toRead \in Nat
      /\ TurnBlock \in Blocks /\ TurnBlock \notin Theirs
  BY <1>1, ReadPlace
<1>3. /\ fatCache' = fatCache
      /\ fatDirty' \in BOOLEAN /\ (fatDirty' \/ fatCache' = fatDisk')
      /\ fatDisk' = fatDisk \/ fatDisk' = fatCache
      /\ overlapped' \in BOOLEAN /\ refused' \in Nat
  <2>1. fatDirty \in BOOLEAN /\ (fatDirty \/ fatCache = fatDisk) /\ refused \in Nat
        /\ overlapped \in BOOLEAN
    BY DEF StructInv, TypeOK, ShapeInv
  <2>2. CASE ReadPart \/ ReadBlock
    BY <2>1, <2>2 DEF ReadPart, ReadBlock
  <2>3. CASE ReadBlocks
    BY <2>1, <2>3 DEF ReadBlocks
  <2>4. CASE ReadRefused
    BY <2>1, <2>4 DEF ReadRefused
  <2>5. QED
    BY <1>1, <2>2, <2>3, <2>4
<1>4. /\ m_curPosition' \in Nat /\ toRead' \in Nat
      /\ pc' = "read" \/ (pc' = "idle" /\ toRead' = 0)
  <2>1. CASE ReadPart
    <3>1. PICK u : Got(u) /\ Len(u) \in 1 .. toRead
      BY <1>1, <2>1, ReadPartIs DEF ReadPart, PartRead
    <3>2. QED
      BY <1>1, <1>2, <3>1 DEF Got
  <2>2. CASE ReadBlock
    <3>1. Got(disk[TurnBlock]) /\ Len(disk[TurnBlock]) = BlockSize /\ toRead >= BlockSize
      BY <1>2, <2>2, CardIs, UnitsAre DEF ReadBlock, Direct
    <3>2. QED
      BY <1>1, <1>2, <3>1, SizesAre DEF Got
  <2>3. CASE ReadBlocks
    <3> DEFINE q == [k \in 1 .. ReadRun |-> disk'[TurnBlock + k - 1]]
    <3>1. /\ ReadRun \in Nat /\ BlockSize * ReadRun \in 1 .. toRead
          /\ \A k \in 1 .. ReadRun : TurnBlock + k - 1 \in Blocks
      BY <1>1, <2>3, ReadRunIs DEF ReadBlocks
    <3>2. \A b \in Blocks : disk'[b] \in Units
      BY <2>3, CardIs DEF ReadBlocks
    <3>3. q \in [1 .. ReadRun -> Units]
      BY <3>1, <3>2
    <3>4. Got(FlattenSeq(q))
      BY <2>3 DEF ReadBlocks
    <3> HIDE DEF q
    <3>5. Len(FlattenSeq(q)) = BlockSize * ReadRun
      BY <3>1, <3>3, FlattenBlocks DEF AllOf
    <3>6. QED
      BY <1>1, <1>2, <3>1, <3>4, <3>5 DEF Got
  <2>4. CASE ReadRefused
    BY <1>2, <2>4 DEF ReadRefused, ReadFails
  <2>5. QED
    BY <1>1, <2>1, <2>2, <2>3, <2>4
<1>5. SoundCard(cache', disk')
  <2>1. CASE ReadPart
    <3>1. cache' = Fetch(TurnBlock, FALSE) /\ disk' = Flushed(TurnBlock)
      BY <2>1 DEF ReadPart
    <3>2. TurnBlock \in OnCard /\ TurnBlock # NoBlock
      BY <1>2, BlocksAre
    <3>3. /\ cache'.lbn = TurnBlock /\ cache'.dirty \in BOOLEAN /\ cache'.data \in Units
          /\ cache' = [lbn |-> TurnBlock, dirty |-> cache'.dirty, data |-> cache'.data]
      BY <1>2, <3>1, FetchIs
    <3>4. /\ DOMAIN disk' = OnCard /\ \A b \in Blocks : disk'[b] \in Units
          /\ \A b \in Theirs : disk'[b] = disk[b]
      BY <3>1, FlushedIs
    <3>5. QED
      BY <1>2, <3>2, <3>3, <3>4 DEF SoundCard
  <2>2. CASE ReadBlock \/ ReadRefused
    BY <2>2, CardIs, CachedStays DEF ReadBlock, ReadRefused
  <2>3. CASE ReadBlocks
    BY <2>3, CardIs, CachedStays DEF ReadBlocks
  <2>4. QED
    BY <1>1, <2>1, <2>2, <2>3
<1>6. TypeOK'
  BY <1>1, <1>2, <1>3, <1>4, <1>5 DEF StructInv, TypeOK, SoundCard, OnCard
<1>7. ShapeInv'
  BY <1>1, <1>3, <1>5 DEF StructInv, ShapeInv, SoundCard, OnCard, Units
<1>8. WorkInv' /\ PlaceInv(s)'
  BY <1>1, <1>2, <1>3, <1>4 DEF StructInv, WorkInv, PlaceInv, Writing, InChain
<1>9. OthersInv' /\ ChainInv(s)'
  BY <1>1, <1>3, <1>5, OthersStay, ChainStays DEF StructInv, SoundCard
<1>10. QED
  BY <1>6, <1>7, <1>8, <1>9 DEF StructInv

-----------------------------------------------------------------------------
(* truncate(): the clusters behind the new end are freed. *)

Cutting(length) ==
    /\ Reached(length)
    /\ newPos' = Smaller(m_curPosition, length)
    /\ m_curPosition' = length /\ m_curCluster' = ClusterAt(length)
    /\ m_firstCluster' = IF length = 0 THEN 0 ELSE m_firstCluster
    /\ fatCache' = [c \in Clusters |->
                      IF c \in ChainBehind(length) THEN Free
                      ELSE IF c = ClusterAt(length) THEN Eoc ELSE fatCache[c]]
    /\ fatDirty' = (fatDirty \/ ChainBehind(length) # {})
    /\ searchStart' = CHOOSE c \in ChainBehind(length) \cup {searchStart} :
                        \A d \in ChainBehind(length) \cup {searchStart} : c <= d
    /\ m_fileSize' = length /\ size' = length
    /\ content' = SubSeq(content, 1, length)
    /\ grown' = (grown /\ length >= Len(synced))
    /\ unmoored' = (unmoored \/ (length = 0 /\ ClusterAt(length) # 0))
CutRest ==
    /\ dirDirty' = TRUE
    /\ pc' = "entry"
    /\ UNCHANGED <<value, nToWrite, toRead, got, cache, disk, fatDisk, others, synced,
                   overlapped, refused>>

\* truncate(), with the length it cuts to.
LEMMA TruncateIs ==
    ASSUME Truncate
    PROVE  /\ pc = "idle" /\ m_fileSize # 0 /\ calls' = calls + 1 /\ CutRest
           /\ \E length \in 0 .. m_fileSize : Cutting(length)
  BY DEF Truncate, CutRest, Cutting

\* i of the clusters are left.
LEMMA CutAt ==
    ASSUME NEW s, StructInv(s), pc = "idle", m_fileSize # 0,
           NEW length \in 0 .. m_fileSize, Reached(length)
    PROVE  \E i \in 0 .. Len(s) :
             /\ i = 0 <=> length = 0
             /\ ChainBehind(length) = {s[j] : j \in i + 1 .. Len(s)}
             /\ i # 0 => ClusterAt(length) = s[i]
             /\ i = 0 => ClusterAt(length) \in InChain(s) \cup {0}
             /\ s # <<>> /\ ~unmoored
<1>1. /\ PlaceInv(s) /\ length \in Nat /\ length <= m_fileSize /\ ~Writing
      /\ ChainInv(s) /\ others \subseteq Clusters
  BY DEF StructInv, TypeOK, Writing, OthersInv
<1>2. s # <<>> /\ ~unmoored /\ Len(s) \in Nat
  BY <1>1, ChainFacts DEF PlaceInv
<1>3. CASE length = 0
  <2>1. ChainBehind(length) = Chain(fatCache, s[1]) /\ 1 \in 1 .. Len(s)
    BY <1>2, <1>3, ChainFacts DEF ChainBehind
  <2>2. Chain(fatCache, s[1]) = {s[j] : j \in 1 .. Len(s)}
    BY <1>1, <2>1, ChainFrom
  <2>3. ClusterAt(length) \in InChain(s) \cup {0}
    BY <1>1, <1>2, Arrives DEF Reached
  <2>4. 0 \in 0 .. Len(s) /\ 0 + 1 = 1
    BY <1>2
  <2>5. QED
    BY <1>2, <1>3, <2>1, <2>2, <2>3, <2>4
<1>4. CASE length # 0
  <2>1. ClusterAt(length) \in InChain(s)
    BY <1>1, <1>4, Arrives DEF Reached
  <2>2. PICK i \in 1 .. Len(s) : ClusterAt(length) = s[i]
    BY <2>1 DEF InChain
  <2>3. Chain(fatCache, s[i]) = {s[j] : j \in i .. Len(s)}
    BY <1>1, ChainFrom
  <2>4. ChainBehind(length) = {s[j] : j \in i .. Len(s)} \ {s[i]}
    BY <1>4, <2>2, <2>3 DEF ChainBehind
  <2>5. {s[j] : j \in i .. Len(s)} \ {s[i]} = {s[j] : j \in i + 1 .. Len(s)}
    <3>1. \A j \in i + 1 .. Len(s) : j \in i .. Len(s) /\ s[j] # s[i]
      BY <1>1, <1>2 DEF ChainInv
    <3>2. \A j \in i .. Len(s) : s[j] # s[i] => j \in i + 1 .. Len(s)
      BY <1>2
    <3>3. QED
      BY <3>1, <3>2
  <2>6. i \in 0 .. Len(s) /\ i # 0
    BY <1>2
  <2>7. QED
    BY <1>2, <1>4, <2>2, <2>4, <2>5, <2>6
<1>5. QED
  BY <1>3, <1>4

\* truncate() leaves the first clusters of the chain, and frees the others.
LEMMA CutChain ==
    ASSUME NEW s, StructInv(s), pc = "idle", m_fileSize # 0, CutRest,
           NEW length \in 0 .. m_fileSize, Cutting(length), NEW i \in 0 .. Len(s),
           i = 0 <=> length = 0,
           ChainBehind(length) = {s[j] : j \in i + 1 .. Len(s)},
           i # 0 => ClusterAt(length) = s[i],
           i = 0 => ClusterAt(length) \in InChain(s) \cup {0},
           s # <<>>
    PROVE  /\ ChainInv(SubSeq(s, 1, i))'
           /\ Len(SubSeq(s, 1, i)) = i /\ \A j \in 1 .. i : SubSeq(s, 1, i)[j] = s[j]
           /\ \A c \in others : fatCache'[c] = fatCache[c]
           /\ \A c \in Clusters : fatCache'[c] \in Clusters \cup {Free, Eoc}
           /\ fatCache' = [c \in Clusters |-> fatCache'[c]]
           /\ fatDirty' \in BOOLEAN /\ (fatDirty' \/ fatCache' = fatDisk')
           /\ searchStart' \in Int
           /\ m_firstCluster' \in Clusters \cup {0}
           /\ m_curCluster' \in Clusters \cup {0}
           /\ i # 0 => m_curCluster' \in InChain(SubSeq(s, 1, i))
<1> DEFINE r == SubSeq(s, 1, i)
           n == Len(s)
           freed == {s[j] : j \in i + 1 .. n}
<1>1. /\ ChainInv(s) /\ OthersInv /\ TypeOK /\ searchStart \in Int
      /\ \A j \in 1 .. n : s[j] \in InChain(s) /\ s[j] \in Clusters
      /\ n \in Nat /\ s \in Seq(Own)
      /\ InChain(s) \subseteq Own /\ Own \subseteq Clusters
      /\ m_firstCluster = s[1] /\ 1 \in 1 .. n
  BY ChainFacts DEF StructInv, Apart, ChainInv, ShapeInv
<1>2. /\ r \in Seq(Own) /\ Len(r) = i /\ \A j \in 1 .. i : r[j] = s[j]
  <2>1. \A j \in 1 .. i : s[j] \in Own
    BY <1>1
  <2>2. /\ r \in Seq(Own) /\ Len(r) = IF 1 <= i THEN i - 1 + 1 ELSE 0
        /\ \A j \in 1 .. i - 1 + 1 : r[j] = s[1 + j - 1]
    BY <2>1, SubSeqProperties
  <2>3. i - 1 + 1 = i /\ \A j \in 1 .. i : 1 + j - 1 = j
    OBVIOUS
  <2>4. QED
    BY <2>2, <2>3
<1> HIDE DEF r
<1>3. \A c \in Clusters :
        fatCache'[c] = IF c \in freed THEN Free
                       ELSE IF c = ClusterAt(length) THEN Eoc ELSE fatCache[c]
  BY DEF Cutting
<1>4. ClusterAt(length) \in InChain(s) \cup {0}
  BY <1>1
<1>5. freed \subseteq InChain(s)
  BY <1>1
<1>6. \A c \in others : c \in Clusters /\ c \notin freed /\ c # ClusterAt(length)
  BY <1>1, <1>4, <1>5, NoClusters DEF OthersInv, Own
<1>7. \A j, k \in 1 .. Len(r) : r[j] = r[k] => j = k
  BY <1>1, <1>2 DEF ChainInv
<1>8. \A j \in 1 .. Len(r) : fatCache'[r[j]] = IF j = Len(r) THEN Eoc ELSE r[j + 1]
  <2>1. SUFFICES ASSUME NEW j \in 1 .. i
                 PROVE  fatCache'[s[j]] = IF j = i THEN Eoc ELSE s[j + 1]
    BY <1>2
  <2>2. j \in 1 .. n /\ s[j] \in Clusters /\ i \in 1 .. n /\ i # 0
    BY <1>1
  <2>3. s[j] \notin freed
    BY <1>1, <2>2 DEF ChainInv
  <2>4. s[j] = s[i] <=> j = i
    BY <1>1, <2>2 DEF ChainInv
  <2>5. j # i => fatCache[s[j]] = s[j + 1]
    BY <1>1, <2>2 DEF ChainInv
  <2>6. QED
    BY <1>3, <2>2, <2>3, <2>4, <2>5
<1>9. \A c \in Own : c \notin InChain(r) => fatCache'[c] = Free
  <2>1. SUFFICES ASSUME NEW c \in Own, c \notin InChain(r), c \notin freed
                 PROVE  fatCache'[c] = Free
    BY <1>1, <1>3
  <2>2. c \notin InChain(s)
    <3>1. SUFFICES ASSUME NEW j \in 1 .. n, c = s[j] PROVE FALSE
      BY DEF InChain
    <3>2. CASE j <= i
      <4>1. j \in 1 .. Len(r) /\ r[j] = c
        BY <1>2, <3>1, <3>2
      <4>2. QED
        BY <2>1, <4>1 DEF InChain
    <3>3. CASE j > i
      BY <1>1, <2>1, <3>1, <3>3
    <3>4. QED
      BY <1>1, <3>2, <3>3
  <2>3. c # ClusterAt(length) /\ c \in Clusters /\ fatCache[c] = Free
    BY <1>1, <1>4, <2>2, NoClusters DEF ChainInv
  <2>4. QED
    BY <1>3, <2>1, <2>3
<1>10. m_firstCluster' = IF r = <<>> THEN 0 ELSE r[1]
  <2>1. CASE i = 0
    <3>1. r = <<>>
      BY <1>2, <2>1
    <3>2. QED
      BY <2>1, <3>1 DEF Cutting
  <2>2. CASE i # 0
    <3>1. r # <<>> /\ 1 \in 1 .. i
      BY <1>2, <2>2
    <3>2. QED
      BY <1>1, <1>2, <2>2, <3>1 DEF Cutting
  <2>3. QED
    BY <2>1, <2>2
<1>11. ChainInv(r)'
  <2>1. Own' = Own
    BY DEF Own, CutRest
  <2>2. QED
    BY <1>2, <1>7, <1>8, <1>9, <1>10, <2>1 DEF ChainInv, InChain
<1>12. \A c \in Clusters : fatCache'[c] \in Clusters \cup {Free, Eoc}
  BY <1>1, <1>3 DEF TypeOK
<1>13. fatCache' = [c \in Clusters |-> fatCache'[c]]
  BY DEF Cutting
<1>14. fatDirty' \in BOOLEAN /\ (fatDirty' \/ fatCache' = fatDisk')
  <2>1. fatDirty' = (fatDirty \/ freed # {}) /\ fatDisk' = fatDisk
    BY DEF Cutting, CutRest
  <2>2. CASE fatDirty \/ freed # {}
    BY <2>1, <2>2
  <2>3. CASE ~(fatDirty \/ freed # {})
    <3>1. fatCache = fatDisk /\ freed = {} /\ fatDirty' = FALSE
      BY <1>1, <2>1, <2>3 DEF TypeOK
    <3>2. i = n /\ i # 0
      <4>1. i + 1 \notin i + 1 .. n
        BY <3>1
      <4>2. QED
        BY <1>1, <4>1
    <3>3. fatCache[s[n]] = Eoc /\ ClusterAt(length) = s[n]
      BY <1>1, <3>2 DEF ChainInv
    <3>4. \A c \in Clusters : fatCache'[c] = fatCache[c]
      BY <1>3, <3>1, <3>3
    <3>5. fatCache = [c \in Clusters |-> fatCache[c]]
      BY DEF StructInv, ShapeInv
    <3>6. QED
      BY <1>13, <2>1, <3>1, <3>4, <3>5
  <2>4. QED
    BY <2>2, <2>3
<1>15. searchStart' \in Int
  <2> DEFINE S == freed \cup {searchStart}
             Least(c) == \A d \in S : c <= d
  <2>1. freed \in SUBSET Nat
    BY <1>1, <1>5, SizesAre DEF Clusters
  <2>2. \E c \in S : Least(c)
    <3>1. CASE freed = {}
      <4> HIDE DEF freed
      <4>1. S = {searchStart} /\ searchStart <= searchStart
        BY <1>1, <3>1
      <4>2. QED
        BY <4>1
    <3>2. CASE freed # {}
      <4> HIDE DEF freed
      <4>1. PICK m \in freed : \A d \in freed : m <= d
        BY <2>1, <3>2, LeastOf
      <4>2. m \in Int /\ m \in S /\ searchStart \in S
        BY <2>1
      <4>3. CASE m <= searchStart
        BY <4>1, <4>2, <4>3
      <4>4. CASE ~(m <= searchStart)
        <5>1. \A d \in freed : searchStart <= d
          BY <1>1, <2>1, <4>1, <4>2, <4>4
        <5>2. QED
          BY <1>1, <4>2, <5>1
      <4>5. QED
        BY <4>3, <4>4
    <3>3. QED
      BY <3>1, <3>2
  <2>3. searchStart' = CHOOSE c \in S : Least(c)
    BY DEF Cutting
  <2>4. S \subseteq Int
    BY <1>1, <2>1
  <2> HIDE DEF S, Least
  <2>5. searchStart' \in S
    BY <2>2, <2>3, Zenon
  <2>6. QED
    BY <2>4, <2>5
<1>16. m_firstCluster' \in Clusters \cup {0} /\ m_curCluster' \in Clusters \cup {0}
  BY <1>1, <1>4 DEF Cutting
<1>17. i # 0 => m_curCluster' \in InChain(r)
  <2>1. SUFFICES ASSUME i # 0 PROVE ClusterAt(length) \in InChain(r)
    BY DEF Cutting
  <2>2. i \in 1 .. Len(r) /\ r[i] = s[i]
    BY <1>2, <2>1
  <2>3. QED
    BY <2>1, <2>2 DEF InChain
<1>18. \A c \in others : fatCache'[c] = fatCache[c]
  BY <1>3, <1>6
<1>19. QED
  BY <1>2, <1>11, <1>12, <1>13, <1>14, <1>15, <1>16, <1>17, <1>18 DEF r

\* truncate() keeps the structure, with the shorter chain.
LEMMA CutStruct ==
    ASSUME NEW s, StructInv(s), pc = "idle", m_fileSize # 0, calls' = calls + 1, CutRest,
           NEW length \in 0 .. m_fileSize, Cutting(length), NEW i \in 0 .. Len(s),
           i = 0 <=> length = 0,
           ChainBehind(length) = {s[j] : j \in i + 1 .. Len(s)},
           i # 0 => ClusterAt(length) = s[i],
           i = 0 => ClusterAt(length) \in InChain(s) \cup {0},
           s # <<>>, ~unmoored
    PROVE  StructInv(SubSeq(s, 1, i))'
<1> DEFINE r == SubSeq(s, 1, i)
<1>1. /\ ChainInv(r)' /\ Len(r) = i
      /\ \A c \in others : fatCache'[c] = fatCache[c]
      /\ \A c \in Clusters : fatCache'[c] \in Clusters \cup {Free, Eoc}
      /\ fatCache' = [c \in Clusters |-> fatCache'[c]]
      /\ fatDirty' \in BOOLEAN /\ (fatDirty' \/ fatCache' = fatDisk')
      /\ searchStart' \in Int
      /\ m_firstCluster' \in Clusters \cup {0}
      /\ m_curCluster' \in Clusters \cup {0}
      /\ i # 0 => m_curCluster' \in InChain(r)
  BY CutChain
<1> HIDE DEF r
<1>2. /\ length \in Nat /\ m_curPosition \in Nat /\ newPos' = Smaller(m_curPosition, length)
      /\ m_curPosition' = length /\ m_fileSize' = length /\ m_curCluster' = ClusterAt(length)
      /\ unmoored' = (unmoored \/ (length = 0 /\ ClusterAt(length) # 0))
      /\ grown' = (grown /\ length >= Len(synced))
  BY DEF StructInv, TypeOK, Cutting
<1>3. newPos' \in Nat /\ newPos' <= length
  BY <1>2 DEF Smaller
<1>4. /\ pc' = "entry" /\ dirDirty' = TRUE
      /\ UNCHANGED <<value, nToWrite, toRead, got, cache, disk, fatDisk, others, synced,
                     overlapped, refused>>
  BY DEF CutRest
<1>5. TypeOK' /\ ShapeInv' /\ WorkInv'
  <2>1. TypeOK'
    BY <1>1, <1>2, <1>3, <1>4 DEF StructInv, TypeOK
  <2>2. ShapeInv'
    BY <1>1, <1>2, <1>4 DEF StructInv, ShapeInv, Units
  <2>3. WorkInv'
    BY <1>4 DEF StructInv, WorkInv, Writing
  <2>4. QED
    BY <2>1, <2>2, <2>3
<1>6. OthersInv'
  BY <1>1, <1>4 DEF StructInv, OthersInv, Theirs
<1>7. PlaceInv(r)'
  <2>0. toRead' = 0
    BY <1>4 DEF StructInv, WorkInv, TypeOK
  <2>1. r = <<>> <=> i = 0
    BY <1>1 DEF r
  <2>2. CASE i = 0
    <3>1. m_curCluster' = 0 \/ unmoored'
      BY <1>2, <2>2
    <3>2. QED
      BY <1>2, <1>3, <1>4, <2>0, <2>1, <2>2, <3>1 DEF PlaceInv, Writing
  <2>3. CASE i # 0
    <3>0. s[i] # 0
      BY <2>3, ChainFacts, NoClusters
    <3>1. ~unmoored' /\ m_curCluster' \in InChain(r) /\ m_curCluster' # 0
      BY <1>1, <1>2, <2>3, <3>0
    <3>3. InChain(r)' = InChain(r)
      BY DEF InChain, r
    <3>2. QED
      BY <1>2, <1>3, <1>4, <2>0, <2>1, <2>3, <3>1, <3>3 DEF PlaceInv, Writing
  <2>4. QED
    BY <2>2, <2>3
<1>8. QED
  BY <1>1, <1>5, <1>6, <1>7 DEF StructInv, r

-----------------------------------------------------------------------------
(* As long as nothing goes wrong.                                            *)

\* What the invariant says of the numbers.
LEMMA DataFacts ==
    ASSUME NEW s, StructInv(s), DataInv(s)
    PROVE  /\ Apart(s) /\ Room(s) \in Nat /\ Len(s) \in Nat /\ Room(s) = ClusterSize * Len(s)
           /\ content \in Seq(Nat) /\ Len(content) \in Nat /\ Len(content) <= Room(s)
           /\ synced \in Seq(Nat) /\ Len(synced) \in Nat
           /\ size \in Nat /\ m_fileSize \in Nat /\ size = m_fileSize /\ size <= Len(content)
           /\ m_curPosition \in Nat /\ ~unmoored
           /\ ClusterSize \in Nat \ {0}
           /\ grown => Len(synced) <= size
<1>1. Apart(s) /\ LengthInv(s) /\ PositionInv(s)
  BY ChainFacts DEF DataInv
<1>2. Room(s) \in Nat /\ Room(s) = ClusterSize * Len(s) /\ Len(s) \in Nat
  BY <1>1, 0 \in Nat, RoomIs DEF Apart
<1>3. /\ content \in Seq(Nat) /\ synced \in Seq(Nat) /\ size \in Nat /\ size = m_fileSize
      /\ Len(content) <= Room(s)
  BY <1>1 DEF LengthInv
<1>4. Len(content) \in Nat /\ Len(synced) \in Nat
  BY <1>3, LenProperties
<1>5. size <= Len(content)
  BY <1>1, <1>3, <1>4 DEF LengthInv
<1>6. m_curPosition \in Nat /\ ~unmoored
  BY <1>1 DEF StructInv, TypeOK, PositionInv
<1>7. grown => Len(synced) <= size
  BY DEF DataInv, SyncedInv
<1>8. QED
  BY <1>1, <1>2, <1>3, <1>4, <1>5, <1>6, <1>7, SizesAre

\* An entry and a FAT that lead to what was synchronised.
EntryLeads(e, s) ==
    /\ e.size \in Nat /\ e.size >= Len(synced)
    /\ Len(synced) > 0 => e.first = s[1]
FatLeads(fat, s) ==
    \A i \in 1 .. Len(s) : ClusterSize * i < Len(synced) => fat[s[i]] = s[i + 1]

\* Those in memory do.
LEMMA MemoryLeads ==
    ASSUME NEW s, StructInv(s), DataInv(s), grown
    PROVE  /\ EntryLeads(Entry, s) /\ FatLeads(fatCache, s)
           /\ EntryLeads(disk[DirBlock], s) /\ FatLeads(fatDisk, s)
           /\ EntryLeads(Synced[DirBlock], s)
           /\ Holds(Synced, s, content, Len(synced)) /\ Holds(disk, s, content, Len(synced))
<1>1. /\ Apart(s) /\ Room(s) \in Nat /\ Len(s) \in Nat /\ Room(s) = ClusterSize * Len(s)
      /\ Len(content) \in Nat /\ Len(content) <= Room(s) /\ Len(synced) \in Nat
      /\ m_fileSize \in Nat /\ size = m_fileSize /\ size <= Len(content)
      /\ ClusterSize \in Nat \ {0} /\ Len(synced) <= size
  BY DataFacts
<1>2. SyncedInv(s) /\ CoherentInv /\ UnitsInv(s)
  BY DEF DataInv
<1>3. EntryLeads(Entry, s)
  <2>1. Len(synced) > 0 => m_firstCluster = s[1]
    <3>1. SUFFICES ASSUME Len(synced) > 0, s = <<>> PROVE FALSE
      BY ChainFacts
    <3>2. Room(s) = 0
      BY <1>1, <3>1
    <3>3. QED
      BY <1>1, <3>1, <3>2
  <2>2. QED
    BY <1>1, <2>1 DEF EntryLeads, Entry
<1>4. FatLeads(fatCache, s)
  <2>1. SUFFICES ASSUME NEW i \in 1 .. Len(s), ClusterSize * i < Len(synced)
                 PROVE  fatCache[s[i]] = s[i + 1]
    BY DEF FatLeads
  <2>2. i # Len(s)
    BY <1>1, <2>1
  <2>3. QED
    BY <2>2 DEF StructInv, ChainInv
<1>5. EntryLeads(disk[DirBlock], s) /\ FatLeads(fatDisk, s)
      /\ Holds(disk, s, content, Len(synced))
  BY <1>2 DEF SyncedInv, EntryLeads, FatLeads
<1>6. EntryLeads(Synced[DirBlock], s)
  <2>1. Synced[DirBlock] = IF cache.dirty /\ cache.lbn = DirBlock THEN cache.data ELSE disk[DirBlock]
    BY CardIs, BlocksAre
  <2>2. CASE cache.dirty /\ cache.lbn = DirBlock
    <3>1. Synced[DirBlock] = Entry
      BY <1>2, <2>2 DEF CoherentInv
    <3>2. QED
      BY <1>3, <3>1
  <2>3. CASE ~(cache.dirty /\ cache.lbn = DirBlock)
    BY <1>5, <2>1, <2>3
  <2>4. QED
    BY <2>2, <2>3
<1>7. Holds(Synced, s, content, Len(synced))
  <2>1. Len(synced) <= Len(content)
    BY <1>1
  <2>2. QED
    BY <1>1, <1>2, <2>1, HoldsLess DEF UnitsInv
<1>8. QED
  BY <1>3, <1>4, <1>5, <1>6, <1>7

\* What was synchronised stays on the card, whatever of the caches is written to it.
LEMMA SyncedCarried ==
    ASSUME NEW s, StructInv(s), DataInv(s), grown' => grown,
           UNCHANGED <<content, synced>>, size' = size \/ size' = Len(content),
           \A b \in OnCard : disk'[b] = disk[b] \/ disk'[b] = Synced[b],
           fatDisk' = fatDisk \/ fatDisk' = fatCache,
           grown' /\ Writing' => m_curPosition' >= Len(synced)
    PROVE  SyncedInv(s)'
<1>1. SUFFICES ASSUME grown' PROVE SyncedInv(s)'
  BY DEF SyncedInv
<1>2. /\ EntryLeads(disk[DirBlock], s) /\ FatLeads(fatDisk, s) /\ FatLeads(fatCache, s)
      /\ EntryLeads(Synced[DirBlock], s)
      /\ Holds(Synced, s, content, Len(synced)) /\ Holds(disk, s, content, Len(synced))
      /\ SyncedInv(s) /\ grown
  BY <1>1, MemoryLeads DEF DataInv
<1>3. /\ Apart(s) /\ Len(synced) \in Nat /\ Len(synced) <= Room(s)
      /\ Len(synced) <= size /\ Len(synced) <= Len(content)
  BY <1>2, DataFacts
<1>4. Holds(disk', s, content, Len(synced))
  <2>1. \A b \in Blocks : disk'[b] = disk[b] \/ disk'[b] = Synced[b]
    BY BlocksAre
  <2>2. QED
    BY <1>2, <1>3, <2>1, HoldsEither
<1>5. EntryLeads(disk'[DirBlock], s)
  BY <1>2, BlocksAre
<1>6. FatLeads(fatDisk', s)
  BY <1>2
<1>7. Len(synced) <= size' /\ \A i \in 1 .. Len(synced) : synced[i] = content[i]
  BY <1>2, <1>3 DEF SyncedInv
<1>8. Holds(disk, s, content, Len(synced))' <=> Holds(disk', s, content, Len(synced))
  BY DEF Holds, UnitAt, BlockAt
<1>9. QED
  BY <1>1, <1>4, <1>5, <1>6, <1>7, <1>8 DEF SyncedInv, EntryLeads, FatLeads

\* The content stays if what the card and the cache make up does.
LEMMA UnitsCarried ==
    ASSUME NEW s, StructInv(s), DataInv(s), UNCHANGED content,
           \A b \in OnCard : SyncedOf(cache', disk')[b] = Synced[b]
    PROVE  UnitsInv(s)'
<1>1. Apart(s) /\ Len(content) \in Nat /\ Len(content) <= Room(s)
  BY DataFacts
<1>2. Holds(Synced, s, content, Len(content))
  BY DEF DataInv, UnitsInv
<1>3. Holds(SyncedOf(cache', disk'), s, content, Len(content))
  BY <1>1, <1>2, HoldsEither, BlocksAre
<1>4. QED
  BY <1>3, SyncedOfCard DEF UnitsInv, Holds, UnitAt, BlockAt

\* Nothing of the kind happens in memory alone.
LEMMA SameCard ==
    ASSUME UNCHANGED <<cache, disk>>
    PROVE  /\ \A b \in OnCard : SyncedOf(cache', disk')[b] = Synced[b]
           /\ \A b \in OnCard : disk'[b] = disk[b]
           /\ Synced' = Synced
  BY SyncedOfCard DEF SyncedOf, Synced

\* A step that leaves the cache and the card alone keeps them coherent, when it
\* marks the entry that it makes old.
LEMMA CoherentStays ==
    ASSUME CoherentInv, UNCHANGED <<cache, disk>>, pc # "data", pc' \notin {"data", "fat"},
           dirDirty' \/ UNCHANGED <<dirDirty, m_fileSize, m_firstCluster>>
    PROVE  CoherentInv'
<1>1. Synced' = Synced
  BY SameCard
<1>2. QED
  BY <1>1 DEF CoherentInv, Entry

\* seekSet() keeps the data.
LEMMA SeekSetData ==
    ASSUME NEW s, StructInv(s), DataInv(s), SeekSet
    PROVE  DataInv(s)'
<1> USE DEF local, fatVars, observed
<1>1. PICK p \in 0 .. m_fileSize :
         /\ p # m_curPosition /\ Reached(p)
         /\ m_curCluster' = ClusterAt(p) /\ m_curPosition' = p
  BY DEF SeekSet
<1>2. /\ p \in Nat /\ p <= size /\ pc = "idle" /\ pc' = "idle"
      /\ UNCHANGED <<cache, disk, content, size, synced, grown, fatDisk, fatCache, got, unmoored,
                     dirDirty, m_fileSize, m_firstCluster>>
  BY DataFacts DEF SeekSet
<1>3. /\ size <= Len(content) /\ Len(content) <= Room(s) /\ size \in Nat /\ Len(content) \in Nat
      /\ Room(s) \in Nat
  BY DataFacts
<1>4. PositionInv(s)'
  <2>1. ClusterAt(p) = At(s, p)
    BY <1>2, <1>3, ArrivesAt DEF DataInv
  <2>2. QED
    BY <1>1, <1>2, <1>3, <2>1 DEF DataInv, PositionInv, Room, At
<1>5. LengthInv(s)'
  BY <1>2 DEF DataInv, LengthInv, Writing, Room
<1>6. UnitsInv(s)' /\ CoherentInv' /\ SyncedInv(s)'
  BY <1>2, SameCard, UnitsCarried, CoherentStays, SyncedCarried DEF DataInv, Writing
<1>7. ReadingInv(s)'
  BY <1>2 DEF DataInv, ReadingInv
<1>8. QED
  BY <1>4, <1>5, <1>6, <1>7 DEF DataInv

\* The beginning of write() keeps the data.
LEMMA StartWriteData ==
    ASSUME NEW s, StructInv(s), DataInv(s), StartWrite
    PROVE  DataInv(s)'
<1> USE DEF fatVars
<1>1. PICK append \in BOOLEAN :
         /\ m_curPosition' = IF append THEN m_fileSize ELSE m_curPosition
         /\ Reached(m_curPosition') /\ m_curCluster' = ClusterAt(m_curPosition')
  BY DEF StartWrite
<1>2. /\ pc = "idle" /\ pc' = "cluster" /\ nToWrite' \in WriteSizes
      /\ grown' = (grown /\ m_curPosition' >= Len(synced))
      /\ UNCHANGED <<cache, disk, content, size, synced, fatDisk, fatCache, got, unmoored,
                     dirDirty, m_fileSize, m_firstCluster>>
  BY DEF StartWrite
<1>3. /\ size <= Len(content) /\ Len(content) <= Room(s) /\ size \in Nat /\ Len(content) \in Nat
      /\ Room(s) \in Nat /\ size = m_fileSize /\ m_curPosition \in Nat
  BY DataFacts
<1>4. /\ m_curPosition' \in Nat /\ m_curPosition' <= Room(s)
      /\ m_curPosition' <= Len(content) \/ (Stuck(s) /\ m_curPosition' = m_curPosition)
  BY <1>1, <1>2, <1>3 DEF DataInv, PositionInv
<1>5. nToWrite' > 0
  BY <1>2, SizesAssumption
<1>6. PositionInv(s)'
  <2>1. m_curCluster' = At(s, m_curPosition')
    <3> DEFINE p == m_curPosition'
    <3>1. p \in Nat /\ p <= Room(s) /\ m_curCluster' = ClusterAt(p)
      BY <1>1, <1>4
    <3> HIDE DEF p
    <3>2. m_curCluster' = At(s, p)
      BY <1>2, <3>1, ArrivesAt DEF DataInv
    <3>3. QED
      BY <3>2 DEF p
  <2>2. Stuck(s) /\ m_curPosition' = m_curPosition => Stuck(s)'
    BY <1>2 DEF Stuck, FreeClusters, Room
  <2>3. QED
    BY <1>2, <1>4, <1>5, <2>1, <2>2 DEF DataInv, PositionInv, Room, At
<1>7. LengthInv(s)'
  BY <1>2, <1>3 DEF DataInv, LengthInv, Writing, Room
<1>8. UnitsInv(s)' /\ CoherentInv' /\ SyncedInv(s)'
  BY <1>2, SameCard, UnitsCarried, CoherentStays, SyncedCarried DEF DataInv
<1>9. ReadingInv(s)'
  BY <1>2 DEF DataInv, ReadingInv
<1>10. QED
  BY <1>6, <1>7, <1>8, <1>9 DEF DataInv

\* The return of write() keeps the data: what was written is the file's length
\* now.
LEMMA WriteReturnsData ==
    ASSUME NEW s, StructInv(s), DataInv(s), WriteReturns
    PROVE  DataInv(s)'
<1> USE DEF fatVars
<1>1. /\ pc = "cluster" /\ nToWrite = 0 /\ pc' \in {"idle", "entry"} /\ dirDirty' = TRUE
      /\ m_fileSize' = IF m_curPosition > m_fileSize THEN m_curPosition ELSE m_fileSize
      /\ size' = Len(content)
      /\ UNCHANGED <<cache, disk, content, synced, grown, fatDisk, fatCache, got, unmoored,
                     m_firstCluster, m_curPosition, m_curCluster>>
  BY DEF WriteReturns
<1>2. /\ size <= Len(content) /\ Len(content) <= Room(s) /\ size \in Nat /\ Len(content) \in Nat
      /\ Room(s) \in Nat /\ size = m_fileSize /\ m_curPosition \in Nat
  BY DataFacts
<1>3. m_curPosition <= Len(content) /\ (Len(content) > size => Len(content) = m_curPosition)
  BY <1>1, <1>2 DEF DataInv, PositionInv, LengthInv, Writing
<1>4. PositionInv(s)'
  BY <1>1, <1>3 DEF DataInv, PositionInv, Room, At
<1>5. LengthInv(s)'
  <2>1. m_fileSize' = Len(content)
    BY <1>1, <1>2, <1>3
  <2>2. QED
    BY <1>1, <1>2, <2>1 DEF DataInv, LengthInv, Writing, Room
<1>6. UnitsInv(s)' /\ CoherentInv' /\ SyncedInv(s)'
  BY <1>1, SameCard, UnitsCarried, CoherentStays, SyncedCarried DEF DataInv, Writing
<1>7. ReadingInv(s)'
  BY <1>1 DEF DataInv, ReadingInv
<1>8. QED
  BY <1>4, <1>5, <1>6, <1>7 DEF DataInv

\* What was synchronised stays, with a chain that has other clusters only behind it.
LEMMA SyncedKept ==
    ASSUME NEW s, StructInv(s), DataInv(s), NEW r, Apart(r),
           \A i \in 1 .. Len(s) : i <= Len(r) => s[i] = r[i],
           grown' => grown, UNCHANGED synced,
           grown' => /\ size' \in Nat /\ Len(synced) <= size' /\ Len(synced) <= Room(r)
                     /\ \A i \in 1 .. Len(synced) : content'[i] = content[i]
                     /\ EntryLeads(disk'[DirBlock], s) /\ FatLeads(fatDisk', s)
                     /\ Holds(disk', s, content, Len(synced))
                     /\ Writing' => m_curPosition' >= Len(synced)
    PROVE  SyncedInv(r)'
<1>1. SUFFICES ASSUME grown' PROVE SyncedInv(r)'
  BY DEF SyncedInv
<1>2. /\ Apart(s) /\ Room(s) \in Nat /\ Len(s) \in Nat /\ Room(s) = ClusterSize * Len(s)
      /\ Len(synced) \in Nat /\ ClusterSize \in Nat \ {0} /\ grown
      /\ Len(synced) <= Room(s)
  BY <1>1, DataFacts
<1>3. Room(r) \in Nat /\ Len(r) \in Nat /\ Room(r) = ClusterSize * Len(r)
  BY 0 \in Nat, RoomIs DEF Apart
<1>4. /\ Len(synced) <= size' /\ Len(synced) <= Room(r)
      /\ \A i \in 1 .. Len(synced) : content'[i] = content[i]
      /\ EntryLeads(disk'[DirBlock], s) /\ FatLeads(fatDisk', s)
      /\ Holds(disk', s, content, Len(synced))
      /\ Writing' => m_curPosition' >= Len(synced)
  BY <1>1
<1>5. \A i \in 1 .. Len(synced) : synced[i] = content'[i]
  BY <1>2, <1>4 DEF DataInv, SyncedInv
<1>6. EntryLeads(disk'[DirBlock], r)
  <2>1. Len(synced) > 0 => Len(s) >= 1 /\ Len(r) >= 1
    <3>1. SUFFICES ASSUME Len(synced) > 0 PROVE Len(s) # 0 /\ Len(r) # 0
      BY <1>2, <1>3
    <3>2. QED
      BY <1>2, <1>3, <1>4, <3>1
  <2>2. Len(synced) > 0 => s[1] = r[1]
    BY <1>2, <1>3, <2>1
  <2>3. QED
    BY <1>4, <2>2 DEF EntryLeads
<1>7. FatLeads(fatDisk', r)
  <2>1. SUFFICES ASSUME NEW i \in 1 .. Len(r), ClusterSize * i < Len(synced)
                 PROVE  fatDisk'[r[i]] = r[i + 1]
    BY DEF FatLeads
  <2>2. i + 1 <= Len(s) /\ i + 1 <= Len(r)
    <3>1. \A n \in Nat : Len(synced) <= ClusterSize * n => i + 1 <= n
      <4>1. SUFFICES ASSUME NEW n \in Nat, Len(synced) <= ClusterSize * n, n <= i PROVE FALSE
        BY <1>3
      <4>2. ClusterSize * n <= ClusterSize * i
        BY <1>2, <1>3, <4>1
      <4>3. QED
        BY <1>2, <1>3, <2>1, <4>1, <4>2, SMTT(30)
    <3>2. QED
      BY <1>2, <1>3, <1>4, <3>1
  <2>3. i \in 1 .. Len(s) /\ i + 1 \in 1 .. Len(s)
    BY <1>2, <1>3, <2>2
  <2>4. s[i] = r[i] /\ s[i + 1] = r[i + 1]
    BY <2>2, <2>3
  <2>5. fatDisk'[s[i]] = s[i + 1]
    BY <1>4, <2>1, <2>3 DEF FatLeads
  <2>6. QED
    BY <2>4, <2>5
<1>8. Holds(disk', r, content', Len(synced))
  <2>1. Holds(disk', s, content', Len(synced))
    BY <1>2, <1>4, HoldsLess
  <2>2. QED
    BY <1>2, <1>4, <2>1, HoldsLonger
<1>9. (Holds(disk, r, content, Len(synced)))' <=> Holds(disk', r, content', Len(synced))
  BY DEF Holds, UnitAt, BlockAt
<1>10. QED
  BY <1>1, <1>4, <1>5, <1>6, <1>7, <1>8, <1>9 DEF SyncedInv, EntryLeads, FatLeads

\* The content is where the chain has it.
LEMMA UnitsKept ==
    ASSUME NEW s, Apart(s), NEW r, Apart(r),
           \A i \in 1 .. Len(s) : i <= Len(r) => s[i] = r[i],
           Len(content') \in Nat, Len(content') <= Room(s), Len(content') <= Room(r),
           Holds(SyncedOf(cache', disk'), s, content', Len(content'))
    PROVE  UnitsInv(r)'
<1>1. Holds(SyncedOf(cache', disk'), r, content', Len(content'))
  BY HoldsLonger
<1>2. QED
  BY <1>1, SyncedOfCard DEF UnitsInv, Holds, UnitAt, BlockAt

\* The cluster remembered, and whether the position is at the start of another.
LEMMA ClusterHere ==
    ASSUME NEW s, StructInv(s), PositionInv(s), pc # "block"
    PROVE  /\ ClusterNo(m_curPosition) \in Nat /\ m_curPosition \in Nat
           /\ AtNewCluster => m_curPosition = ClusterSize * ClusterNo(m_curPosition)
           /\ m_curPosition = 0 => m_curCluster = 0 /\ AtNewCluster
                                   /\ ClusterNo(m_curPosition) = 0
           /\ m_curPosition # 0 => m_curCluster # 0
           /\ AtNewCluster /\ m_curPosition # 0 =>
                /\ ClusterNo(m_curPosition) \in 1 .. Len(s)
                /\ m_curCluster = s[ClusterNo(m_curPosition)]
           /\ ~AtNewCluster => /\ m_curPosition < Room(s)
                               /\ m_curCluster = s[ClusterNo(m_curPosition) + 1]
<1> DEFINE p == m_curPosition
<1>1. /\ p \in Nat /\ p <= Room(s) /\ m_curCluster = At(s, p) /\ Apart(s)
  BY ChainFacts DEF StructInv, TypeOK, PositionInv
<1>2. AtNewCluster <=> (UnitNo(p) = 0 /\ BlockNo(p) = 0)
  BY BlockIs DEF AtNewCluster
<1>3. /\ ClusterNo(p) \in Nat /\ ClusterSize \in Nat \ {0}
      /\ p = ClusterSize * ClusterNo(p) <=> (UnitNo(p) = 0 /\ BlockNo(p) = 0)
  BY <1>1, PlaceOf, ClusterStarts, SizesAre
<1>4. CASE p = 0
  <2>1. Placed(0, 0, 0, 0)
    BY SizesAre DEF Placed
  <2>2. ClusterNo(0) = 0 /\ BlockNo(0) = 0 /\ UnitNo(0) = 0
    BY <2>1, PlaceIs
  <2>3. QED
    BY <1>1, <1>2, <1>3, <1>4, <2>2 DEF At
<1>5. CASE p # 0
  <2>1. /\ p - 1 \in Nat
        /\ ClusterNo(p - 1) = IF AtNewCluster THEN ClusterNo(p) - 1 ELSE ClusterNo(p)
    BY <1>1, <1>2, <1>5, ClusterStarts
  <2>2. /\ Index(p) = ClusterNo(p - 1) /\ Index(p) + 1 \in 1 .. Len(s)
        /\ At(s, p) = s[Index(p) + 1] /\ Len(s) \in Nat
    BY <1>1, <1>5, AtIs
  <2>3. m_curCluster # 0
    BY <1>1, <2>2, NoClusters DEF Apart
  <2>4. CASE AtNewCluster
    <3>1. ClusterNo(p - 1) + 1 = ClusterNo(p)
      BY <1>3, <2>1, <2>4
    <3>2. QED
      BY <1>1, <1>2, <1>3, <1>5, <2>2, <2>3, <2>4, <3>1
  <2>5. CASE ~AtNewCluster
    <3>1. ClusterNo(p) + 1 \in 1 .. Len(s) /\ m_curCluster = s[ClusterNo(p) + 1]
      BY <1>1, <2>1, <2>2, <2>5
    <3>2. p < Room(s)
      BY <1>1, <3>1, RoomIs
    <3>3. QED
      BY <1>1, <1>3, <1>5, <2>3, <2>5, <3>1, <3>2
  <2>6. QED
    BY <2>4, <2>5
<1>6. QED
  BY <1>4, <1>5

\* Where a cluster is needed, the position is at the end of the chain.
LEMMA NeededAtEnd ==
    ASSUME NEW s, StructInv(s), DataInv(s), pc = "cluster", AtNewCluster, Needed
    PROVE  m_curPosition = Room(s) /\ ClusterNo(m_curPosition) = Len(s)
<1>1. /\ ClusterNo(m_curPosition) \in Nat
      /\ m_curPosition = ClusterSize * ClusterNo(m_curPosition)
      /\ m_curPosition = 0 => m_curCluster = 0 /\ ClusterNo(m_curPosition) = 0
      /\ m_curPosition # 0 => m_curCluster # 0
      /\ m_curPosition # 0 => /\ ClusterNo(m_curPosition) \in 1 .. Len(s)
                              /\ m_curCluster = s[ClusterNo(m_curPosition)]
  BY ClusterHere DEF DataInv
<1>2. /\ m_curCluster = IF s = <<>> THEN 0 ELSE s[Len(s)]
      /\ s # <<>> => m_curCluster # 0
  BY BeforeCluster
<1>3. Apart(s) /\ Len(s) \in Nat /\ Room(s) = ClusterSize * Len(s)
  BY DataFacts
<1>4. ClusterNo(m_curPosition) = Len(s)
  <2>1. CASE s = <<>>
    BY <1>1, <1>2, <2>1
  <2>2. CASE s # <<>>
    <3>1. m_curPosition # 0 /\ Len(s) \in 1 .. Len(s)
      BY <1>1, <1>2, <1>3, <2>2, ChainFacts
    <3>2. s[ClusterNo(m_curPosition)] = s[Len(s)] /\ ClusterNo(m_curPosition) \in 1 .. Len(s)
      BY <1>1, <1>2, <2>2, <3>1
    <3>3. QED
      BY <1>3, <3>1, <3>2 DEF Apart
  <2>3. QED
    BY <2>1, <2>2
<1>5. QED
  BY <1>1, <1>3, <1>4

\* write() that finds no free cluster keeps the data.
LEMMA EnterFullData ==
    ASSUME NEW s, StructInv(s), DataInv(s), pc = "cluster", EnterFull, EnterRest
    PROVE  DataInv(s)'
<1>1. /\ m_curPosition = Room(s) /\ FreeClusters = {}
  BY NeededAtEnd DEF EnterFull
<1>2. /\ pc' = "idle" /\ dirDirty' = TRUE /\ content' = SubSeq(content, 1, size)
      /\ UNCHANGED <<cache, disk, size, synced, grown, fatDisk, fatCache, got, unmoored, refused,
                     m_fileSize, m_firstCluster, m_curPosition, m_curCluster>>
  BY DEF EnterFull, EnterRest, WriteFails, fatVars
<1>3. /\ size <= Len(content) /\ Len(content) <= Room(s) /\ size \in Nat /\ Len(content) \in Nat
      /\ Room(s) \in Nat /\ size = m_fileSize /\ content \in Seq(Nat) /\ Apart(s)
      /\ grown => Len(synced) <= size
      /\ Len(synced) \in Nat
  BY DataFacts
<1>4. /\ content' \in Seq(Nat) /\ Len(content') = size
      /\ \A i \in 1 .. size : content'[i] = content[i]
  BY <1>2, <1>3
<1>5. PositionInv(s)'
  <2>1. Stuck(s)'
    BY <1>1, <1>2 DEF Stuck, FreeClusters, Room
  <2>2. QED
    BY <1>2, <2>1 DEF DataInv, PositionInv, Room, At
<1>6. LengthInv(s)'
  BY <1>2, <1>3, <1>4 DEF DataInv, LengthInv, Writing, Room
<1>7. UnitsInv(s)'
  <2>1. Holds(Synced, s, content, Len(content))
    BY DEF DataInv, UnitsInv
  <2>2. Holds(Synced, s, content', size)
    BY <1>3, <1>4, <2>1, HoldsLess
  <2>3. Synced = SyncedOf(cache', disk')
    BY <1>2, SyncedOfCard
  <2>4. QED
    BY <1>3, <1>4, <2>2, <2>3, UnitsKept
<1>8. CoherentInv'
  BY <1>2, CoherentStays DEF DataInv
<1>9. ReadingInv(s)'
  BY <1>2 DEF DataInv, ReadingInv
<1>10. SyncedInv(s)'
  <2>1. grown => /\ EntryLeads(disk'[DirBlock], s) /\ FatLeads(fatDisk', s)
                 /\ Holds(disk', s, content, Len(synced))
    BY <1>2, MemoryLeads
  <2>2. ~Writing'
    BY <1>2 DEF Writing
  <2>3. grown => /\ Len(synced) <= Room(s)
                 /\ \A i \in 1 .. Len(synced) : content'[i] = content[i]
    BY <1>3, <1>4
  <2>4. QED
    BY <1>2, <1>3, <2>1, <2>2, <2>3, SyncedKept
<1>11. QED
  BY <1>5, <1>6, <1>7, <1>8, <1>9, <1>10 DEF DataInv

\* write() that takes a cluster keeps the data.
LEMMA EnterNewData ==
    ASSUME NEW s, StructInv(s), DataInv(s), pc = "cluster", NEW c, EnterNew(c), EnterRest
    PROVE  DataInv(Append(s, c))'
<1> DEFINE r == Append(s, c)
<1>1. /\ m_curPosition = Room(s) /\ ClusterNo(m_curPosition) = Len(s) /\ FreeClusters # {}
  BY NeededAtEnd DEF EnterNew
<1>2. /\ pc' = "block" /\ dirDirty' = TRUE /\ m_curCluster' = c
      /\ UNCHANGED <<cache, disk, size, synced, grown, fatDisk, got, unmoored, content,
                     m_fileSize, m_curPosition>>
  BY DEF EnterNew, EnterRest, AddCluster
<1>3. /\ size <= Len(content) /\ Len(content) <= Room(s) /\ size \in Nat /\ Len(content) \in Nat
      /\ Room(s) \in Nat /\ size = m_fileSize /\ Apart(s)
      /\ grown => Len(synced) <= size
      /\ Len(synced) \in Nat /\ m_curPosition \in Nat /\ Len(s) \in Nat
      /\ Room(s) = ClusterSize * Len(s) /\ ClusterSize \in Nat \ {0}
  BY DataFacts
<1>4. /\ Apart(r) /\ Len(r) = Len(s) + 1 /\ r[Len(s) + 1] = c
      /\ \A i \in 1 .. Len(s) : r[i] = s[i]
  <2>1. c \in Clusters /\ c \notin InChain(s) /\ s \in Seq(Clusters)
    BY <1>3, NewChain DEF Apart
  <2>2. /\ Len(r) = Len(s) + 1 /\ r[Len(s) + 1] = c /\ r \in Seq(Clusters)
        /\ \A i \in 1 .. Len(s) : r[i] = s[i]
    BY <2>1
  <2>3. \A i, j \in 1 .. Len(r) : r[i] = r[j] => i = j
    BY <1>3, <2>1, <2>2 DEF Apart, InChain
  <2>4. QED
    BY <1>3, <2>2, <2>3 DEF Apart
<1> HIDE DEF r
<1>5. Room(r) \in Nat /\ Room(r) > Room(s) /\ Room(r)' = Room(r)
  <2>1. Room(r) = ClusterSize * (Len(s) + 1)
    BY <1>3, <1>4, RoomIs
  <2>2. QED
    BY <1>3, <2>1 DEF Room
<1>6. PositionInv(r)'
  <2>1. m_curPosition <= Len(content)
    BY <1>1 DEF DataInv, PositionInv, Stuck
  <2>2. ~unmoored
    BY DEF DataInv, PositionInv
  <2>3. c = r[ClusterNo(m_curPosition) + 1] /\ m_curPosition < Room(r)
    BY <1>1, <1>3, <1>4, <1>5
  <2>4. QED
    BY <1>2, <1>5, <2>1, <2>2, <2>3 DEF PositionInv, ClusterNo
<1>7. LengthInv(r)'
  BY <1>2, <1>3, <1>5 DEF DataInv, LengthInv, Writing
<1>8. UnitsInv(r)'
  <2>1. Holds(Synced, s, content, Len(content)) /\ Synced = SyncedOf(cache', disk')
    BY <1>2, SyncedOfCard DEF DataInv, UnitsInv
  <2>2. QED
    BY <1>2, <1>3, <1>4, <1>5, <2>1, UnitsKept
<1>9. CoherentInv'
  BY <1>2, CoherentStays DEF DataInv
<1>10. ReadingInv(r)'
  BY <1>2 DEF DataInv, ReadingInv
<1>11. SyncedInv(r)'
  <2>1. grown => /\ EntryLeads(disk'[DirBlock], s) /\ FatLeads(fatDisk', s)
                 /\ Holds(disk', s, content, Len(synced))
    BY <1>2, MemoryLeads
  <2>2. grown => m_curPosition >= Len(synced)
    BY DEF DataInv, SyncedInv, Writing
  <2>3. grown => Len(synced) <= Room(r)
    BY <1>3, <1>5
  <2>4. QED
    BY <1>2, <1>3, <1>4, <2>1, <2>2, <2>3, SyncedKept
<1>12. QED
  BY <1>6, <1>7, <1>8, <1>9, <1>10, <1>11 DEF DataInv, r

\* write() that goes to the next cluster of its chain keeps the data.
LEMMA EnterOldData ==
    ASSUME NEW s, StructInv(s), DataInv(s), pc = "cluster", EnterOld, EnterRest
    PROVE  DataInv(s)'
<1>1. /\ m_curCluster' = IF AtNewCluster
                           THEN IF m_curCluster # 0 THEN fatCache[m_curCluster] ELSE m_firstCluster
                           ELSE m_curCluster
      /\ AtNewCluster => ~Needed
      /\ pc' = "block"
      /\ UNCHANGED <<cache, disk, size, synced, grown, fatDisk, fatCache, got, unmoored, content,
                     dirDirty, m_firstCluster, m_fileSize, m_curPosition>>
  BY DEF EnterOld, EnterRest, fatVars
<1>2. /\ ClusterNo(m_curPosition) \in Nat /\ m_curPosition \in Nat
      /\ m_curPosition = 0 => m_curCluster = 0 /\ ClusterNo(m_curPosition) = 0
      /\ m_curPosition # 0 => m_curCluster # 0
      /\ AtNewCluster /\ m_curPosition # 0 =>
           /\ ClusterNo(m_curPosition) \in 1 .. Len(s)
           /\ m_curCluster = s[ClusterNo(m_curPosition)]
      /\ ~AtNewCluster => /\ m_curPosition < Room(s)
                          /\ m_curCluster = s[ClusterNo(m_curPosition) + 1]
  BY ClusterHere DEF DataInv
<1>3. Apart(s) /\ Len(s) \in Nat /\ Room(s) \in Nat
  BY DataFacts
<1>4. m_curPosition < Room(s) /\ m_curCluster' = s[ClusterNo(m_curPosition) + 1]
  <2>1. CASE ~AtNewCluster
    BY <1>1, <1>2, <2>1
  <2>2. CASE AtNewCluster /\ m_curPosition = 0
    <3>1. m_curCluster = 0 /\ m_firstCluster # 0 /\ m_curCluster' = m_firstCluster
      BY <1>1, <1>2, <2>2 DEF Needed
    <3>2. s # <<>> /\ 1 \in 1 .. Len(s) /\ m_firstCluster = s[1]
      BY <3>1, ChainFacts
    <3>3. ClusterNo(m_curPosition) + 1 <= Len(s) /\ m_curCluster' = s[ClusterNo(m_curPosition) + 1]
      BY <1>2, <1>3, <2>2, <3>1, <3>2
    <3>4. QED
      BY <1>2, <1>3, <3>3, RoomIs
  <2>3. CASE AtNewCluster /\ m_curPosition # 0
    <3> DEFINE j == ClusterNo(m_curPosition)
    <3>1. j \in 1 .. Len(s) /\ m_curCluster = s[j] /\ fatCache[s[j]] # Eoc
          /\ m_curCluster' = fatCache[s[j]]
      BY <1>1, <1>2, <2>3 DEF Needed
    <3>2. fatCache[s[j]] = IF j = Len(s) THEN Eoc ELSE s[j + 1]
      BY <3>1 DEF StructInv, ChainInv
    <3>3. j + 1 <= Len(s) /\ m_curCluster' = s[j + 1]
      BY <1>3, <3>1, <3>2
    <3>4. QED
      BY <1>2, <1>3, <3>3, RoomIs
  <2>4. QED
    BY <2>1, <2>2, <2>3
<1>5. PositionInv(s)'
  <2>1. m_curPosition <= Len(content)
    BY <1>2, <1>3, <1>4 DEF DataInv, PositionInv, Stuck
  <2>2. ~unmoored
    BY DEF DataInv, PositionInv
  <2>3. QED
    BY <1>1, <1>4, <2>1, <2>2 DEF PositionInv, Room, ClusterNo
<1>6. LengthInv(s)'
  BY <1>1 DEF DataInv, LengthInv, Writing, Room
<1>7. UnitsInv(s)' /\ CoherentInv'
  BY <1>1, SameCard, UnitsCarried, CoherentStays DEF DataInv
<1>8. SyncedInv(s)'
  <2>1. grown => m_curPosition >= Len(synced)
    BY DEF DataInv, SyncedInv, Writing
  <2>2. QED
    BY <1>1, <2>1, SameCard, SyncedCarried
<1>9. ReadingInv(s)'
  BY <1>1 DEF DataInv, ReadingInv
<1>10. QED
  BY <1>5, <1>6, <1>7, <1>8, <1>9 DEF DataInv

\* The beginning of read() keeps the data.
LEMMA StartReadData ==
    ASSUME NEW s, StructInv(s), DataInv(s), StartRead
    PROVE  DataInv(s)'
<1>1. /\ pc = "idle" /\ pc' = "read"
      /\ UNCHANGED <<cache, disk, content, size, synced, grown, fatDisk, fatCache, got, unmoored,
                     dirDirty, m_fileSize, m_firstCluster, m_curPosition, m_curCluster>>
  BY DEF StartRead, memory, fatVars, observed
<1>2. PICK n \in ReadSizes :
         toRead' = IF m_curPosition <= m_fileSize
                     THEN Smaller(n, m_fileSize - m_curPosition) ELSE n
  BY DEF StartRead
<1>3. /\ size \in Nat /\ size = m_fileSize /\ m_curPosition \in Nat /\ n \in Nat
      /\ content \in Seq(Nat) /\ Len(content) = size
  BY <1>1, SizesAssumption, DataFacts DEF DataInv, LengthInv, Writing
<1>4. got = <<>> /\ got' = <<>>
  BY <1>1 DEF DataInv, ReadingInv
<1>5. PositionInv(s)'
  BY <1>1 DEF DataInv, PositionInv, Stuck, FreeClusters, Room, At
<1>6. LengthInv(s)'
  BY <1>1 DEF DataInv, LengthInv, Writing, Room
<1>7. UnitsInv(s)' /\ CoherentInv' /\ SyncedInv(s)'
  BY <1>1, SameCard, UnitsCarried, CoherentStays, SyncedCarried DEF DataInv, Writing
<1>8. ReadingInv(s)'
  <2>1. m_curPosition <= Len(content) => m_curPosition + toRead' <= Len(content)
    BY <1>2, <1>3 DEF Smaller
  <2>2. SubSeq(content, m_curPosition - 0 + 1, m_curPosition) = <<>>
    BY <1>3
  <2>3. QED
    BY <1>1, <1>3, <1>4, <2>1, <2>2 DEF ReadingInv
<1>9. QED
  BY <1>5, <1>6, <1>7, <1>8 DEF DataInv

\* The ways out of read() keep the data.
LEMMA ReadEndsData ==
    ASSUME NEW s, StructInv(s), DataInv(s), ReadReturns \/ ReadBehindChain
    PROVE  DataInv(s)'
<1>1. /\ pc = "read" /\ pc' = "idle" /\ got' = <<>>
      /\ UNCHANGED <<cache, disk, content, size, synced, grown, fatDisk, fatCache, unmoored,
                     dirDirty, m_fileSize, m_firstCluster, m_curPosition, m_curCluster>>
  BY DEF ReadReturns, ReadBehindChain, ReadFails, memory, fatVars, observed
<1>2. PositionInv(s)'
  BY <1>1 DEF DataInv, PositionInv, Stuck, FreeClusters, Room, At
<1>3. LengthInv(s)'
  BY <1>1 DEF DataInv, LengthInv, Writing, Room
<1>4. UnitsInv(s)' /\ CoherentInv' /\ SyncedInv(s)'
  BY <1>1, SameCard, UnitsCarried, CoherentStays, SyncedCarried DEF DataInv, Writing
<1>5. ReadingInv(s)'
  BY <1>1 DEF ReadingInv
<1>6. QED
  BY <1>2, <1>3, <1>4, <1>5 DEF DataInv

\* The beginning of sync() keeps the data.
LEMMA StartSyncData ==
    ASSUME NEW s, StructInv(s), DataInv(s), StartSync
    PROVE  DataInv(s)'
<1>1. /\ pc = "idle" /\ pc' = "entry"
      /\ UNCHANGED <<cache, disk, content, size, synced, grown, fatDisk, fatCache, got, unmoored,
                     dirDirty, m_fileSize, m_firstCluster, m_curPosition, m_curCluster>>
  BY DEF StartSync, memory, local, fatVars, observed
<1>2. PositionInv(s)'
  BY <1>1 DEF DataInv, PositionInv, Stuck, FreeClusters, Room, At
<1>3. LengthInv(s)'
  BY <1>1 DEF DataInv, LengthInv, Writing, Room
<1>4. UnitsInv(s)' /\ CoherentInv' /\ SyncedInv(s)'
  BY <1>1, SameCard, UnitsCarried, CoherentStays, SyncedCarried DEF DataInv, Writing
<1>5. ReadingInv(s)'
  BY <1>1 DEF DataInv, ReadingInv
<1>6. QED
  BY <1>2, <1>3, <1>4, <1>5 DEF DataInv

\* Nothing is refused as long as nothing goes wrong.
LEMMA NotRefused ==
    ASSUME NEW s, StructInv(s), Undisturbed', refused' = refused + 1
    PROVE  FALSE
<1>1. refused \in Nat /\ refused' = 0
  BY DEF StructInv, ShapeInv, Undisturbed
<1>2. QED
  BY <1>1

\* sync() keeps the data when it puts the entry into the cache.
LEMMA SyncEntryData ==
    ASSUME NEW s, StructInv(s), DataInv(s), SyncEntry, Undisturbed'
    PROVE  DataInv(s)'
<1>1. /\ pc = "entry" /\ pc' = "data" /\ dirDirty' = FALSE
      /\ IF dirDirty
           THEN /\ cache' = [lbn |-> DirBlock, dirty |-> TRUE, data |-> Entry]
                /\ disk' = Flushed(DirBlock)
           ELSE UNCHANGED <<cache, disk>>
      /\ UNCHANGED <<content, size, synced, grown, fatDisk, fatCache, got, unmoored,
                     m_fileSize, m_firstCluster, m_curPosition, m_curCluster>>
  BY NotRefused DEF SyncEntry, SyncFails, fatVars
<1>2. PositionInv(s)'
  BY <1>1 DEF DataInv, PositionInv, Stuck, FreeClusters, Room, At
<1>3. LengthInv(s)'
  BY <1>1 DEF DataInv, LengthInv, Writing, Room
<1>4. ReadingInv(s)'
  BY <1>1 DEF DataInv, ReadingInv
<1>5. UnitsInv(s)' /\ CoherentInv' /\ SyncedInv(s)'
  <2>1. CASE ~dirDirty
    <3>1. UNCHANGED <<cache, disk, dirDirty>>
      BY <1>1, <2>1 DEF StructInv, TypeOK
    <3>2. UnitsInv(s)' /\ SyncedInv(s)'
      BY <1>1, <3>1, SameCard, UnitsCarried, SyncedCarried DEF Writing
    <3>3. CoherentInv'
      BY <1>1, <3>1, SameCard DEF DataInv, CoherentInv, Entry
    <3>4. QED
      BY <3>2, <3>3
  <2>2. CASE dirDirty
    <3>1. /\ cache'.lbn = DirBlock /\ cache'.dirty /\ cache'.data = Entry
          /\ disk' = Flushed(DirBlock)
      BY <1>1, <2>2
    <3>2. /\ DOMAIN disk' = OnCard
          /\ \A b \in OnCard : disk'[b] = disk[b] \/ disk'[b] = Synced[b]
          /\ \A b \in OnCard : b # DirBlock => disk'[b] = Synced[b]
      BY <3>1, FlushedIs
    <3>3. \A b \in OnCard :
            SyncedOf(cache', disk')[b] = IF cache'.dirty /\ cache'.lbn = b THEN cache'.data
                                                                           ELSE disk'[b]
      BY <3>2, SyncedIs
    <3>4. SyncedInv(s)'
      BY <1>1, <3>2, SyncedCarried DEF Writing
    <3>5. UnitsInv(s)'
      <4>1. \A b \in Blocks : SyncedOf(cache', disk')[b] = Synced[b]
        BY <3>1, <3>2, <3>3, BlocksAre
      <4>2. Apart(s) /\ Len(content) \in Nat /\ Len(content) <= Room(s)
        BY DataFacts
      <4>3. Holds(Synced, s, content, Len(content))
        BY DEF DataInv, UnitsInv
      <4>4. Holds(SyncedOf(cache', disk'), s, content, Len(content))
        BY <4>1, <4>2, <4>3, HoldsEither
      <4>5. QED
        BY <1>1, <4>2, <4>4, UnitsKept
    <3>6. CoherentInv'
      <4>1. (Synced)'[DirBlock] = Entry'
        BY <1>1, <3>1, <3>3, BlocksAre, SyncedOfCard DEF Entry
      <4>2. QED
        BY <1>1, <3>1, <4>1 DEF CoherentInv
    <3>7. QED
      BY <3>4, <3>5, <3>6
  <2>3. QED
    BY <2>1, <2>2
<1>6. QED
  BY <1>2, <1>3, <1>4, <1>5 DEF DataInv

\* sync() keeps the data when it writes the cached block: the entry on the card
\* is not older than any block it leads to.
LEMMA SyncDataData ==
    ASSUME NEW s, StructInv(s), DataInv(s), SyncData, Undisturbed'
    PROVE  DataInv(s)'
<1>1. /\ pc = "data" /\ pc' = "fat"
      /\ disk' = Synced /\ cache' = [cache EXCEPT !.dirty = FALSE]
      /\ UNCHANGED <<content, size, synced, grown, fatDisk, fatCache, got, unmoored, dirDirty,
                     m_fileSize, m_firstCluster, m_curPosition, m_curCluster>>
  BY NotRefused DEF SyncData, SyncFails, fatVars, memory
<1>2. /\ cache'.lbn = cache.lbn /\ ~cache'.dirty /\ cache'.data = cache.data
      /\ cache.lbn \in OnCard \cup {NoBlock} /\ cache.dirty \in BOOLEAN
      /\ cache.dirty => cache.lbn # NoBlock
  BY <1>1 DEF StructInv, TypeOK, ShapeInv, OnCard
<1>3. PositionInv(s)'
  BY <1>1 DEF DataInv, PositionInv, Stuck, FreeClusters, Room, At
<1>4. LengthInv(s)'
  BY <1>1 DEF DataInv, LengthInv, Writing, Room
<1>5. ReadingInv(s)'
  BY <1>1 DEF DataInv, ReadingInv
<1>6. SyncedOf(cache', disk') = Synced
  BY <1>1, <1>2 DEF SyncedOf
<1>7. UnitsInv(s)' /\ SyncedInv(s)'
  BY <1>1, <1>6, UnitsCarried, SyncedCarried DEF Writing
<1>8. CoherentInv'
  <2>1. ~dirDirty /\ Synced[DirBlock] = Entry
    BY <1>1 DEF DataInv, CoherentInv
  <2>2. (Synced)'[DirBlock] = Entry'
    BY <1>1, <1>6, <2>1, SyncedOfCard DEF Entry
  <2>3. cache.lbn # NoBlock => cache.data = Synced[cache.lbn]
    <3>1. SUFFICES ASSUME cache.lbn # NoBlock PROVE cache.data = Synced[cache.lbn]
      OBVIOUS
    <3>2. Synced[cache.lbn] = IF cache.dirty THEN cache.data ELSE disk[cache.lbn]
      BY <1>2, <3>1, CardIs
    <3>3. QED
      BY <1>2, <3>1, <3>2 DEF DataInv, CoherentInv
  <2>4. QED
    BY <1>1, <1>2, <2>1, <2>2, <2>3 DEF CoherentInv
<1>9. QED
  BY <1>3, <1>4, <1>5, <1>7, <1>8 DEF DataInv

\* sync() keeps the data when it writes the FAT; then all of the file is on the
\* card.
LEMMA SyncFatData ==
    ASSUME NEW s, StructInv(s), DataInv(s), SyncFat, Undisturbed'
    PROVE  DataInv(s)'
<1>1. /\ pc = "fat" /\ pc' = "idle" /\ fatDisk' = fatCache
      /\ IF newPos = NoPosition \/ ~Reached(newPos)
           THEN UNCHANGED <<m_curPosition, m_curCluster>>
           ELSE m_curCluster' = ClusterAt(newPos) /\ m_curPosition' = newPos
      /\ synced' = content
      /\ UNCHANGED <<content, size, fatCache, got, unmoored, dirDirty, cache, disk,
                     m_fileSize, m_firstCluster>>
  BY NotRefused DEF SyncFat, SyncFails, WrittenFat
<1>2. /\ size \in Nat /\ size = m_fileSize /\ m_curPosition \in Nat
      /\ content \in Seq(Nat) /\ Len(content) = size /\ size <= Room(s) /\ Room(s) \in Nat
      /\ Apart(s) /\ Len(s) \in Nat /\ Room(s) = ClusterSize * Len(s)
      /\ ClusterSize \in Nat \ {0}
  BY <1>1, DataFacts DEF DataInv, LengthInv, Writing
<1>3. PositionInv(s)'
  <2>1. CASE newPos = NoPosition \/ ~Reached(newPos)
    BY <1>1, <2>1 DEF DataInv, PositionInv, Stuck, FreeClusters, Room, At
  <2>2. CASE ~(newPos = NoPosition \/ ~Reached(newPos))
    <3>1. newPos \in Nat /\ newPos <= Len(content) /\ newPos <= Room(s)
      BY <1>2, <2>2 DEF StructInv, TypeOK, PlaceInv
    <3>2. m_curCluster' = At(s, newPos) /\ m_curPosition' = newPos
      BY <1>1, <2>2, <3>1, ArrivesAt DEF DataInv
    <3>3. QED
      BY <1>1, <3>1, <3>2 DEF DataInv, PositionInv, Room, At
  <2>3. QED
    BY <2>1, <2>2
<1>4. LengthInv(s)'
  BY <1>1, <1>2 DEF DataInv, LengthInv, Writing, Room
<1>5. ReadingInv(s)'
  BY <1>1 DEF DataInv, ReadingInv
<1>6. UnitsInv(s)' /\ CoherentInv'
  BY <1>1, SameCard, UnitsCarried, CoherentStays DEF DataInv
<1>7. SyncedInv(s)'
  <2>1. Synced = disk /\ Synced[DirBlock] = Entry
    BY <1>1 DEF DataInv, CoherentInv, Synced
  <2>2. disk[DirBlock].size = size /\ disk[DirBlock].first = m_firstCluster
    BY <1>2, <2>1 DEF Entry
  <2>3. Len(content) > 0 => m_firstCluster = s[1]
    <3>1. SUFFICES ASSUME Len(content) > 0, s = <<>> PROVE FALSE
      BY ChainFacts
    <3>2. Room(s) = 0
      BY <1>2, <3>1
    <3>3. QED
      BY <1>2, <3>1, <3>2
  <2>4. \A i \in 1 .. Len(s) : ClusterSize * i < Len(content) => fatCache[s[i]] = s[i + 1]
    <3>1. SUFFICES ASSUME NEW i \in 1 .. Len(s), ClusterSize * i < Len(content)
                   PROVE  fatCache[s[i]] = s[i + 1]
      OBVIOUS
    <3>2. i # Len(s)
      BY <1>2, <3>1
    <3>3. QED
      BY <3>2 DEF StructInv, ChainInv
  <2>5. Holds(disk, s, content, Len(content))
    BY <2>1 DEF DataInv, UnitsInv
  <2>6. (Holds(disk, s, content, Len(synced)))' <=> Holds(disk, s, content, Len(content))
    BY <1>1 DEF Holds, UnitAt, BlockAt
  <2>7. QED
    <3>1. (/\ Len(synced) <= size /\ \A k \in 1 .. Len(synced) : synced[k] = content[k])'
      BY <1>1, <1>2
    <3>2. EntryLeads(disk[DirBlock], s)' /\ FatLeads(fatDisk, s)'
      BY <1>1, <1>2, <2>2, <2>3, <2>4 DEF EntryLeads, FatLeads
    <3>3. ~Writing' /\ (Holds(disk, s, content, Len(synced)))'
      BY <1>1, <2>5, <2>6 DEF Writing
    <3>4. QED
      BY <3>1, <3>2, <3>3 DEF SyncedInv, EntryLeads, FatLeads
<1>8. QED
  BY <1>3, <1>4, <1>5, <1>6, <1>7 DEF DataInv

\* truncate() keeps the data of what it leaves.
LEMMA CutData ==
    ASSUME NEW s, StructInv(s), DataInv(s), pc = "idle", m_fileSize # 0, CutRest,
           NEW length \in 0 .. m_fileSize, Cutting(length), NEW i \in 0 .. Len(s),
           i = 0 <=> length = 0,
           ChainBehind(length) = {s[j] : j \in i + 1 .. Len(s)},
           i # 0 => ClusterAt(length) = s[i],
           i = 0 => ClusterAt(length) \in InChain(s) \cup {0},
           s # <<>>
    PROVE  DataInv(SubSeq(s, 1, i))'
<1> DEFINE r == SubSeq(s, 1, i)
<1>1. /\ pc' = "entry" /\ dirDirty' = TRUE /\ m_curPosition' = length
      /\ m_curCluster' = ClusterAt(length) /\ m_fileSize' = length /\ size' = length
      /\ content' = SubSeq(content, 1, length)
      /\ grown' = (grown /\ length >= Len(synced))
      /\ unmoored' = (unmoored \/ (length = 0 /\ ClusterAt(length) # 0))
      /\ UNCHANGED <<got, cache, disk, fatDisk, synced>>
  BY DEF CutRest, Cutting
<1>2. /\ size \in Nat /\ size = m_fileSize
      /\ content \in Seq(Nat) /\ Len(content) = size /\ size <= Room(s) /\ Room(s) \in Nat
      /\ Apart(s) /\ Len(s) \in Nat /\ Len(synced) \in Nat
      /\ grown => Len(synced) <= size
  BY DataFacts DEF DataInv, LengthInv, Writing
<1>3. length \in Nat /\ length <= size /\ i \in Nat /\ i <= Len(s)
  BY <1>2
<1>4. /\ content' \in Seq(Nat) /\ Len(content') = length
      /\ \A k \in 1 .. length : content'[k] = content[k]
  BY <1>1, <1>2, <1>3
<1>5. /\ Apart(r) /\ Len(r) = i /\ \A j \in 1 .. i : r[j] = s[j]
  <2>1. Len(r) = i /\ \A j \in 1 .. i : r[j] = s[j]
    BY CutChain
  <2>2. r \in Seq(Clusters)
    BY <1>2, <1>3 DEF Apart
  <2> HIDE DEF r
  <2>3. \A j, k \in 1 .. i : s[j] = s[k] => j = k
    BY <1>2, <1>3 DEF Apart
  <2>4. \A j, k \in 1 .. i : r[j] = r[k] => j = k
    BY <2>1, <2>3
  <2>5. QED
    BY <1>3, <2>1, <2>2, <2>4 DEF Apart
<1> HIDE DEF r
<1>6. ClusterAt(length) = At(s, length)
  BY <1>2, <1>3, ArrivesAt DEF DataInv
<1>7. /\ Room(r) \in Nat /\ Room(r)' = Room(r) /\ length <= Room(r)
      /\ At(r, length) = At(s, length)
  <2>0. Room(r) \in Nat /\ Room(r)' = Room(r)
    BY <1>5, 0 \in Nat, RoomIs DEF Room
  <2>1. CASE length = 0
    BY <1>3, <2>0, <2>1 DEF At
  <2>2. CASE length # 0
    <3>1. /\ Index(length) = ClusterNo(length - 1) /\ Index(length) + 1 \in 1 .. Len(s)
          /\ At(s, length) = s[Index(length) + 1]
      BY <1>2, <1>3, <2>2, AtIs
    <3>2. i \in 1 .. Len(s) /\ s[i] = s[Index(length) + 1]
      BY <1>3, <1>6, <2>2, <3>1
    <3>3. i = Index(length) + 1
      BY <1>2, <3>1, <3>2 DEF Apart
    <3>4. length - 1 \in Nat /\ ClusterNo(length - 1) + 1 = i
      BY <1>3, <2>2, <3>1, <3>3
    <3>5. length - 1 < Room(r)
      BY <1>3, <1>5, <3>4, RoomIs
    <3>6. At(r, length) = r[i] /\ At(s, length) = s[i]
      BY <2>2, <3>4 DEF At
    <3>7. r[i] = s[i]
      BY <1>3, <1>5, <3>2
    <3>8. QED
      BY <1>3, <2>0, <3>5, <3>6, <3>7
  <2>3. QED
    BY <2>1, <2>2
<1>8. PositionInv(r)'
  <2>1. ~unmoored /\ (length = 0 => ClusterAt(length) = 0)
    BY <1>6 DEF DataInv, PositionInv, At
  <2>2. At(r, m_curPosition)' = At(r, length)
    BY <1>1 DEF At
  <2>3. QED
    <3>1. ~unmoored'
      BY <1>1, <2>1
    <3>2. m_curPosition' = length /\ pc' = "entry" /\ m_curCluster' = At(r, length)
      BY <1>1, <1>6, <1>7
    <3>3. m_curPosition' <= Len(content') /\ m_curPosition' <= Room(r)'
      BY <1>3, <1>4, <1>7, <3>2
    <3>4. m_curCluster' = At(r, m_curPosition)'
      BY <2>2, <3>2
    <3>5. QED
      BY <3>1, <3>2, <3>3, <3>4 DEF PositionInv
<1>9. LengthInv(r)'
  BY <1>1, <1>3, <1>4, <1>7 DEF DataInv, LengthInv, Writing
<1>10. UnitsInv(r)'
  <2>1. Holds(Synced, s, content, Len(content))
    BY DEF DataInv, UnitsInv
  <2>2. Holds(Synced, s, content', length)
    BY <1>2, <1>3, <1>4, <2>1, HoldsLess
  <2>3. Synced = SyncedOf(cache', disk')
    BY <1>1, SyncedOfCard
  <2>4. \A j \in 1 .. Len(s) : j <= Len(r) => s[j] = r[j]
    BY <1>3, <1>5
  <2>5. QED
    BY <1>2, <1>3, <1>4, <1>5, <1>7, <2>2, <2>3, <2>4, UnitsKept
<1>11. CoherentInv'
  BY <1>1, CoherentStays DEF DataInv
<1>12. ReadingInv(r)'
  BY <1>1 DEF DataInv, ReadingInv
<1>13. SyncedInv(r)'
  <2>1. grown => /\ EntryLeads(disk'[DirBlock], s) /\ FatLeads(fatDisk', s)
                 /\ Holds(disk', s, content, Len(synced))
    BY <1>1, MemoryLeads
  <2>2. ~Writing'
    BY <1>1 DEF Writing
  <2>3. grown' => /\ Len(synced) <= Room(r) /\ Len(synced) <= length
                  /\ \A k \in 1 .. Len(synced) : content'[k] = content[k]
    <3>1. SUFFICES ASSUME grown'
                   PROVE  /\ Len(synced) <= Room(r) /\ Len(synced) <= length
                          /\ \A k \in 1 .. Len(synced) : content'[k] = content[k]
      OBVIOUS
    <3>2. Len(synced) <= length /\ Len(synced) \in Nat
      BY <1>1, <1>2, <3>1
    <3>3. Len(synced) <= Room(r)
      BY <1>3, <1>7, <3>2
    <3>4. \A k \in 1 .. Len(synced) : k \in 1 .. length
      BY <1>3, <3>2
    <3>5. QED
      BY <1>4, <3>2, <3>3, <3>4
  <2>4. \A j \in 1 .. Len(s) : j <= Len(r) => s[j] = r[j]
    BY <1>3, <1>5
  <2>5. QED
    BY <1>1, <1>3, <1>5, <2>1, <2>2, <2>3, <2>4, SyncedKept
<1>14. QED
  BY <1>8, <1>9, <1>10, <1>11, <1>12, <1>13 DEF DataInv, r

\* Where the position is during a turn of a write.
LEMMA TurnPlace ==
    ASSUME NEW s, StructInv(s), DataInv(s), pc = "block"
    PROVE  /\ m_curPosition \in Nat /\ m_curPosition < Room(s)
           /\ m_curPosition <= Len(content) /\ Block = BlockAt(s, m_curPosition)
           /\ grown => Len(synced) <= m_curPosition
           /\ Len(content) > size => Len(content) = m_curPosition
           /\ m_curCluster = s[ClusterNo(m_curPosition) + 1]
<1>1. PositionInv(s) /\ LengthInv(s) /\ SyncedInv(s) /\ Writing
  BY DEF DataInv, Writing
<1>2. m_curPosition \in Nat
  BY DataFacts
<1>3. /\ m_curPosition < Room(s) /\ m_curCluster = s[ClusterNo(m_curPosition) + 1]
      /\ m_curPosition <= Len(content)
  BY <1>1 DEF PositionInv
<1>4. Block = BlockAt(s, m_curPosition)
  BY <1>3, BlockIs DEF BlockAt
<1>5. Len(content) > size => Len(content) = m_curPosition
  BY <1>1 DEF LengthInv
<1>6. grown => Len(synced) <= m_curPosition
  <2>1. Len(synced) \in Nat
    BY DataFacts
  <2>2. QED
    BY <1>1, <1>2, <2>1 DEF SyncedInv
<1>7. QED
  BY <1>2, <1>3, <1>4, <1>5, <1>6

\* A turn that has written n units, and left the others where they were.
OnlyWrote(s, n) ==
    /\ \A x \in m_curPosition .. m_curPosition + n - 1 :
         UnitAt(SyncedOf(cache', disk'), s, x) = value
    /\ \A x \in 0 .. Len(content) - 1 :
         x \notin m_curPosition .. m_curPosition + n - 1 =>
           /\ UnitAt(SyncedOf(cache', disk'), s, x) = UnitAt(Synced, s, x)
           /\ UnitAt(disk', s, x) = UnitAt(disk, s, x) \/ UnitAt(disk', s, x) = UnitAt(Synced, s, x)
    /\ disk'[DirBlock] = disk[DirBlock] \/ disk'[DirBlock] = Synced[DirBlock]
    /\ SyncedOf(cache', disk')[DirBlock] = Synced[DirBlock]
    /\ cache'.lbn # NoBlock /\ ~cache'.dirty => cache'.data = disk'[cache'.lbn]
    /\ ~(cache'.lbn = DirBlock /\ cache'.dirty)

\* A turn of write() that puts its units where they belong, and nothing else,
\* keeps the data.
LEMMA WroteData ==
    ASSUME NEW s, StructInv(s), DataInv(s), pc = "block", TurnRest, NEW n \in 1 .. nToWrite,
           Wrote(n), ClusterNo(m_curPosition + n - 1) = ClusterNo(m_curPosition), OnlyWrote(s, n)
    PROVE  DataInv(s)'
<1> DEFINE p == m_curPosition
           len == IF p + n > Len(content) THEN p + n ELSE Len(content)
<1>1. /\ p \in Nat /\ p < Room(s) /\ p <= Len(content)
      /\ grown => Len(synced) <= p
      /\ Len(content) > size => Len(content) = p
      /\ m_curCluster = s[ClusterNo(p) + 1]
  BY TurnPlace
<1>2. /\ Apart(s) /\ Room(s) \in Nat /\ content \in Seq(Nat) /\ Len(content) \in Nat
      /\ Len(content) <= Room(s) /\ Len(synced) \in Nat /\ size \in Nat /\ size = m_fileSize
      /\ size <= Len(content) /\ ~unmoored /\ Len(s) \in Nat
      /\ grown => Len(synced) <= size
  BY DataFacts
<1>3. n \in Nat /\ n > 0 /\ nToWrite \in Nat /\ value \in Nat
  BY DEF StructInv, TypeOK, ShapeInv
<1>4. /\ pc' = "cluster" /\ m_curPosition' = p + n
      /\ content' = [i \in 1 .. len |->
                       IF i > p /\ i <= p + n THEN value
                       ELSE IF i <= Len(content) THEN content[i] ELSE Old]
      /\ UNCHANGED <<m_fileSize, m_curCluster, m_firstCluster, dirDirty, got, size, synced,
                     grown, unmoored, fatCache, fatDisk>>
  BY DEF Wrote, TurnRest, fatVars
<1>5. len \in Nat /\ len >= p + n /\ len >= Len(content)
      /\ (len = p + n \/ (len = Len(content) /\ p + n <= Len(content)))
  BY <1>1, <1>2, <1>3
<1>6. p + n <= Room(s) /\ len <= Room(s)
  <2> DEFINE y == p + n - 1
  <2>1. y \in Nat /\ ClusterNo(p) + 1 <= Len(s) /\ ClusterNo(y) = ClusterNo(p)
    BY <1>1, <1>2, <1>3, RoomIs
  <2> HIDE DEF y
  <2>2. y < Room(s)
    BY <1>2, <2>1, RoomIs
  <2>3. QED
    BY <1>1, <1>2, <1>3, <1>5, <2>2 DEF y
<1> HIDE DEF len
<1>7. /\ content' \in Seq(Nat) /\ Len(content') = len
      /\ \A i \in 1 .. len : content'[i] = IF i > p /\ i <= p + n THEN value ELSE content[i]
  <2>1. ASSUME NEW i \in 1 .. len, ~(i > p /\ i <= p + n)
        PROVE  i <= Len(content) /\ content[i] \in Nat
    BY <1>1, <1>2, <1>3, <1>5, <2>1, SMTT(30)
  <2>2. \A i \in 1 .. len : /\ content'[i] = IF i > p /\ i <= p + n THEN value ELSE content[i]
                            /\ content'[i] \in Nat
    BY <1>3, <1>4, <2>1
  <2>3. content' \in [1 .. len -> Nat]
    BY <1>4, <2>2
  <2>4. QED
    BY <1>5, <2>2, <2>3
<1>8. PositionInv(s)'
  <2>1. At(s, p + n) = s[ClusterNo(p + n - 1) + 1]
    BY <1>1, <1>3 DEF At
  <2>2. (At(s, m_curPosition))' = At(s, p + n)
    BY <1>4 DEF At
  <2>3. m_curCluster' = At(s, p + n)
    BY <1>1, <1>4, <2>1
  <2>4. Room(s)' = Room(s)
    BY DEF Room
  <2>5. m_curPosition' <= Len(content') /\ m_curPosition' <= Room(s)
    BY <1>4, <1>5, <1>6, <1>7
  <2>6. QED
    BY <1>2, <1>4, <2>2, <2>3, <2>4, <2>5 DEF PositionInv
<1>9. LengthInv(s)'
  <2>1. Len(content') >= size /\ (Len(content') > size => Len(content') = p + n)
    BY <1>1, <1>2, <1>3, <1>5, <1>7
  <2>2. synced \in Seq(Nat) /\ got \in Seq(Nat)
    BY DEF DataInv, LengthInv
  <2>3. Room(s)' = Room(s) /\ Writing'
    BY <1>4 DEF Room, Writing
  <2>4. QED
    BY <1>2, <1>4, <1>6, <1>7, <2>1, <2>2, <2>3 DEF LengthInv
<1>10. UnitsInv(s)'
  <2>1. Holds(SyncedOf(cache', disk'), s, content', len)
    <3>1. SUFFICES ASSUME NEW x \in 0 .. len - 1
                   PROVE  UnitAt(SyncedOf(cache', disk'), s, x) = content'[x + 1]
      BY DEF Holds
    <3>2. x \in Nat /\ x + 1 \in 1 .. len
      BY <1>5
    <3>3. content'[x + 1] = IF x + 1 > p /\ x + 1 <= p + n THEN value ELSE content[x + 1]
      BY <1>7, <3>2
    <3>4. CASE x \in p .. p + n - 1
      <4>1. content'[x + 1] = value
        BY <1>1, <1>3, <3>2, <3>3, <3>4
      <4>2. QED
        BY <3>4, <4>1 DEF OnlyWrote
    <3>5. CASE x \notin p .. p + n - 1
      <4>1. ~(x + 1 > p /\ x + 1 <= p + n)
        BY <1>1, <1>3, <3>2, <3>5
      <4>2. content'[x + 1] = content[x + 1] /\ x \in 0 .. Len(content) - 1
        BY <1>1, <1>2, <1>3, <1>5, <3>2, <3>3, <4>1
      <4>3. UnitAt(Synced, s, x) = content[x + 1]
        BY <4>2 DEF DataInv, UnitsInv, Holds
      <4>4. UnitAt(SyncedOf(cache', disk'), s, x) = UnitAt(Synced, s, x)
        BY <3>5, <4>2 DEF OnlyWrote
      <4>5. QED
        BY <4>2, <4>3, <4>4
    <3>6. QED
      BY <3>4, <3>5
  <2>2. \A i \in 1 .. Len(s) : i <= Len(s) => s[i] = s[i]
    OBVIOUS
  <2>3. QED
    BY <1>2, <1>5, <1>6, <1>7, <2>1, <2>2, UnitsKept
<1>11. CoherentInv'
  <2>1. ~dirDirty => (Synced)'[DirBlock] = Entry'
    BY <1>4, SyncedOfCard DEF OnlyWrote, DataInv, CoherentInv, Entry
  <2>2. cache'.lbn # NoBlock /\ ~cache'.dirty => cache'.data = disk'[cache'.lbn]
    BY DEF OnlyWrote
  <2>3. ~(cache'.lbn = DirBlock /\ cache'.dirty)
    BY DEF OnlyWrote
  <2>4. QED
    BY <1>4, <2>1, <2>2, <2>3 DEF CoherentInv
<1>12. ReadingInv(s)'
  BY <1>4 DEF DataInv, ReadingInv
<1>13. SyncedInv(s)'
  <2>1. grown => Holds(disk', s, content, Len(synced))
    <3>1. SUFFICES ASSUME grown, NEW x \in 0 .. Len(synced) - 1
                   PROVE  UnitAt(disk', s, x) = content[x + 1]
      BY DEF Holds
    <3>2. x \in 0 .. Len(content) - 1 /\ x \notin p .. p + n - 1
      BY <1>1, <1>2, <1>3, <3>1
    <3>3. UnitAt(disk', s, x) = UnitAt(disk, s, x) \/ UnitAt(disk', s, x) = UnitAt(Synced, s, x)
      BY <3>2 DEF OnlyWrote
    <3>4. UnitAt(disk, s, x) = content[x + 1] /\ UnitAt(Synced, s, x) = content[x + 1]
      BY <3>1, MemoryLeads DEF Holds
    <3>5. QED
      BY <3>3, <3>4
  <2>2. grown => EntryLeads(disk'[DirBlock], s) /\ FatLeads(fatDisk', s)
    <3>1. disk'[DirBlock] = disk[DirBlock] \/ disk'[DirBlock] = Synced[DirBlock]
      BY DEF OnlyWrote
    <3>2. QED
      BY <1>4, <3>1, MemoryLeads
  <2>3. grown => /\ Len(synced) <= Room(s)
                 /\ \A i \in 1 .. Len(synced) : content'[i] = content[i]
                 /\ m_curPosition' >= Len(synced)
    <3>1. SUFFICES ASSUME grown
                   PROVE  /\ Len(synced) <= Room(s)
                          /\ \A i \in 1 .. Len(synced) : content'[i] = content[i]
                          /\ m_curPosition' >= Len(synced)
      OBVIOUS
    <3>2. \A i \in 1 .. Len(synced) : i \in 1 .. len /\ ~(i > p)
      BY <1>1, <1>2, <1>3, <1>5, <3>1
    <3>3. QED
      BY <1>1, <1>2, <1>3, <1>4, <1>7, <3>1, <3>2
  <2>4. \A i \in 1 .. Len(s) : i <= Len(s) => s[i] = s[i]
    OBVIOUS
  <2>5. QED
    BY <1>2, <1>4, <2>1, <2>2, <2>3, <2>4, SyncedKept
<1>14. QED
  BY <1>8, <1>9, <1>10, <1>11, <1>12, <1>13 DEF DataInv

-----------------------------------------------------------------------------
(* A part of a block. *)

\* Where the units of a part are, and which units of the file are in its block.
LEMMA PartPlace ==
    ASSUME NEW s, StructInv(s), DataInv(s), pc = "block"
    PROVE  /\ \A x \in m_curPosition .. m_curPosition + PartSize - 1 :
                /\ x \in Nat /\ ClusterNo(x) = ClusterNo(m_curPosition)
                /\ BlockAt(s, x) = Block /\ UnitNo(x) = Offset + (x - m_curPosition)
           /\ \A x \in 0 .. Len(content) - 1 :
                BlockAt(s, x) = Block => /\ UnitNo(x) = Offset + (x - m_curPosition)
                                         /\ UnitNo(x) \in 0 .. BlockSize - 1
<1> DEFINE p == m_curPosition
<1>1. p \in Nat /\ p < Room(s) /\ Block = BlockAt(s, p)
  BY TurnPlace
<1>2. PartSize \in Nat /\ Offset + PartSize <= BlockSize /\ Offset = UnitNo(p)
      /\ Offset \in Nat /\ BlockSize \in Nat
  <2>1. nToWrite \in Nat /\ Offset \in 0 .. BlockSize - 1 /\ BlockSize \in Nat
    BY TheBlock
  <2>2. PartSize \in 1 .. nToWrite /\ Offset + PartSize <= BlockSize
    BY PartIs
  <2>3. QED
    BY <2>1, <2>2, BlockIs
<1>3. ASSUME NEW x \in p .. p + PartSize - 1
      PROVE  /\ x \in Nat /\ ClusterNo(x) = ClusterNo(p)
             /\ BlockAt(s, x) = Block /\ UnitNo(x) = Offset + (x - p)
  <2> DEFINE d == x - p
  <2>1. d \in Nat /\ x = p + d /\ UnitNo(p) + d <= BlockSize - 1
    BY <1>1, <1>2
  <2> HIDE DEF d
  <2>2. /\ ClusterNo(p + d) = ClusterNo(p) /\ BlockNo(p + d) = BlockNo(p)
        /\ UnitNo(p + d) = UnitNo(p) + d
    BY <1>1, <2>1, UnitsBehind
  <2>3. BlockAt(s, x) = BlockAt(s, p)
    BY <2>1, <2>2 DEF BlockAt
  <2>4. QED
    BY <1>1, <1>2, <2>1, <2>2, <2>3 DEF d
<1>4. ASSUME NEW x \in 0 .. Len(content) - 1, BlockAt(s, x) = Block
      PROVE  /\ UnitNo(x) = Offset + (x - p) /\ UnitNo(x) \in 0 .. BlockSize - 1
  <2>1. Apart(s) /\ Len(content) \in Nat /\ Len(content) <= Room(s) /\ Room(s) \in Nat
    BY DataFacts
  <2>2. x \in Nat /\ x < Room(s)
    BY <2>1
  <2>3. x - UnitNo(x) = p - UnitNo(p)
    BY <1>1, <1>4, <2>1, <2>2, BlockAtOnce
  <2>4. UnitNo(x) \in 0 .. BlockSize - 1
    BY <2>2, PlaceOf
  <2>5. QED
    BY <1>1, <1>2, <2>2, <2>3, <2>4, SMTT(30)
<1>5. QED
  BY <1>3, <1>4

\* A part of a block puts its units where they belong, and nothing else.
LEMMA PartWrites ==
    ASSUME NEW s, StructInv(s), DataInv(s), pc = "block",
           cache' = [lbn |-> Block, dirty |-> ~PartFull, data |-> PartData],
           disk' = IF PartFull THEN [Flushed(Block) EXCEPT ![Block] = PartData]
                               ELSE Flushed(Block)
    PROVE  OnlyWrote(s, PartSize)
<1> DEFINE p == m_curPosition
           q == SyncedOf(cache', disk')
<1>1. /\ Block \in Blocks /\ Block \in OnCard /\ Block # DirBlock /\ Block # NoBlock
      /\ Offset \in 0 .. BlockSize - 1 /\ p \in Nat /\ nToWrite \in Nat /\ BlockSize \in Nat
  BY TheBlock, BlocksAre
<1>2. PartSize \in 1 .. nToWrite /\ Offset + PartSize <= BlockSize /\ PartFull \in BOOLEAN
  BY PartIs
<1>3. /\ DOMAIN Flushed(Block) = OnCard
      /\ \A b \in OnCard : Flushed(Block)[b] = disk[b] \/ Flushed(Block)[b] = Synced[b]
      /\ \A b \in OnCard : b # Block => Flushed(Block)[b] = Synced[b]
  BY FlushedIs
<1>4. q = [Flushed(Block) EXCEPT ![Block] = PartData]
  BY <1>2 DEF SyncedOf
<1>5. q[Block] = PartData /\ \A b \in OnCard : b # Block => q[b] = Synced[b]
  BY <1>1, <1>3, <1>4
<1>6. /\ \A b \in OnCard : b # Block => disk'[b] = Synced[b]
      /\ disk'[Block] = IF PartFull THEN PartData ELSE Flushed(Block)[Block]
  BY <1>1, <1>2, <1>3
<1>7. \A i \in 1 .. BlockSize :
        PartData[i] = IF i > Offset /\ i <= Offset + PartSize THEN value ELSE Fetched.data[i]
  BY DEF PartData
<1>8. /\ \A x \in p .. p + PartSize - 1 :
           /\ x \in Nat /\ BlockAt(s, x) = Block /\ UnitNo(x) = Offset + (x - p)
      /\ \A x \in 0 .. Len(content) - 1 :
           BlockAt(s, x) = Block => /\ UnitNo(x) = Offset + (x - p)
                                    /\ UnitNo(x) \in 0 .. BlockSize - 1
  BY PartPlace
<1> HIDE DEF q
<1>9. ASSUME NEW x \in p .. p + PartSize - 1
      PROVE  UnitAt(q, s, x) = value
  <2>1. UnitNo(x) + 1 \in 1 .. BlockSize /\ UnitNo(x) + 1 > Offset
        /\ UnitNo(x) + 1 <= Offset + PartSize
    BY <1>1, <1>2, <1>8
  <2>2. PartData[UnitNo(x) + 1] = value
    BY <1>7, <2>1
  <2>3. q[BlockAt(s, x)] = PartData
    BY <1>5, <1>8
  <2>4. QED
    BY <2>2, <2>3 DEF UnitAt
<1>10. ASSUME NEW x \in 0 .. Len(content) - 1, x \notin p .. p + PartSize - 1
       PROVE  /\ UnitAt(q, s, x) = UnitAt(Synced, s, x)
              /\ UnitAt(disk', s, x) = UnitAt(disk, s, x)
                   \/ UnitAt(disk', s, x) = UnitAt(Synced, s, x)
  <2>1. /\ Apart(s) /\ Len(content) \in Nat /\ Len(content) <= Room(s) /\ Room(s) \in Nat
        /\ size = m_fileSize /\ size \in Nat
    BY DataFacts
  <2>2. x \in Nat /\ x < Room(s)
    BY <2>1
  <2>3. BlockAt(s, x) \in OnCard
    BY <2>1, <2>2, BlockAtIs, BlocksAre
  <2>4. CASE BlockAt(s, x) # Block
    <3>1. q[BlockAt(s, x)] = Synced[BlockAt(s, x)] /\ disk'[BlockAt(s, x)] = Synced[BlockAt(s, x)]
      BY <1>5, <1>6, <2>3, <2>4
    <3>2. QED
      BY <3>1 DEF UnitAt
  <2>5. CASE BlockAt(s, x) = Block
    <3>1. UnitNo(x) = Offset + (x - p) /\ UnitNo(x) \in 0 .. BlockSize - 1
      BY <1>8, <2>5
    <3>2. UnitNo(x) + 1 \in 1 .. BlockSize
          /\ ~(UnitNo(x) + 1 > Offset /\ UnitNo(x) + 1 <= Offset + PartSize)
      BY <1>1, <1>2, <1>10, <2>2, <3>1
    <3>3. ~Reserve
      <4>1. SUFFICES ASSUME Offset = 0, p >= m_fileSize PROVE FALSE
        BY DEF Reserve
      <4>2. Len(content) > size => Len(content) = p
        BY TurnPlace
      <4>3. QED
        BY <1>1, <1>2, <1>10, <2>1, <2>2, <3>1, <4>1, <4>2
    <3>4. Fetched = Fetch(Block, FALSE)
      BY <3>3 DEF Fetched, Fetch
    <3>5. Fetched.data = Synced[Block]
      BY <1>1, <3>4, FetchedIs DEF DataInv
    <3>6. PartData[UnitNo(x) + 1] = Synced[Block][UnitNo(x) + 1]
      BY <1>7, <3>2, <3>5
    <3>7. UnitAt(q, s, x) = UnitAt(Synced, s, x)
      BY <1>5, <2>5, <3>6 DEF UnitAt
    <3>8. CASE PartFull
      <4>1. disk'[Block] = PartData
        BY <1>6, <3>8
      <4>2. UnitAt(disk', s, x) = UnitAt(Synced, s, x)
        BY <2>5, <3>6, <4>1 DEF UnitAt
      <4>3. QED
        BY <3>7, <4>2
    <3>9. CASE ~PartFull
      <4>1. disk'[Block] = disk[Block] \/ disk'[Block] = Synced[Block]
        BY <1>1, <1>3, <1>6, <3>9
      <4>2. QED
        BY <2>5, <3>7, <4>1 DEF UnitAt
    <3>10. QED
      BY <3>8, <3>9
  <2>6. QED
    BY <2>4, <2>5
<1>11. q[DirBlock] = Synced[DirBlock] /\ disk'[DirBlock] = Synced[DirBlock]
  BY <1>1, <1>5, <1>6, BlocksAre
<1>12. cache'.lbn = Block /\ cache'.data = PartData /\ (~cache'.dirty => PartFull)
  OBVIOUS
<1>13. ~cache'.dirty => cache'.data = disk'[cache'.lbn]
  BY <1>6, <1>12
<1>14. QED
  BY <1>1, <1>9, <1>10, <1>11, <1>12, <1>13 DEF OnlyWrote, q

\* A part of a block written keeps the data.
LEMMA WritePartData ==
    ASSUME NEW s, StructInv(s), DataInv(s), WritePart, Undisturbed'
    PROVE  DataInv(s)'
<1>1. /\ pc = "block" /\ TurnRest /\ Wrote(PartSize)
      /\ cache' = [lbn |-> Block, dirty |-> ~PartFull, data |-> PartData]
      /\ disk' = IF PartFull THEN [Flushed(Block) EXCEPT ![Block] = PartData]
                             ELSE Flushed(Block)
  BY WritePartIs, NotRefused DEF Refused
<1>2. OnlyWrote(s, PartSize)
  BY <1>1, PartWrites
<1>3. PartSize \in 1 .. nToWrite /\ nToWrite \in Nat /\ m_curPosition \in Nat
  BY <1>1, PartIs, TheBlock
<1>4. m_curPosition + PartSize - 1 \in m_curPosition .. m_curPosition + PartSize - 1
  BY <1>3
<1>5. ClusterNo(m_curPosition + PartSize - 1) = ClusterNo(m_curPosition)
  BY <1>1, <1>4, PartPlace
<1>6. QED
  BY <1>1, <1>2, <1>3, <1>5, WroteData

-----------------------------------------------------------------------------
(* Whole blocks. *)

\* The units of k blocks from the position on are in the k blocks from Block on, and
\* no others are.
LEMMA RunPlace ==
    ASSUME NEW s, StructInv(s), DataInv(s), pc = "block", Offset = 0,
           NEW k \in Nat, k >= 1, BlockOfCluster + k <= BlocksPerCluster
    PROVE  /\ \A x \in m_curPosition .. m_curPosition + BlockSize * k - 1 :
                /\ x \in Nat /\ ClusterNo(x) = ClusterNo(m_curPosition)
                /\ BlockAt(s, x) \in Block .. Block + k - 1
                /\ UnitNo(x) \in 0 .. BlockSize - 1
           /\ \A x \in 0 .. Len(content) - 1 :
                BlockAt(s, x) \in Block .. Block + k - 1 =>
                  x \in m_curPosition .. m_curPosition + BlockSize * k - 1
           /\ BlockSize * k \in Nat
<1> DEFINE p == m_curPosition
<1>1. /\ p \in Nat /\ p < Room(s) /\ Block = BlockAt(s, p)
      /\ BlockOfCluster = BlockNo(p) /\ UnitNo(p) = 0
      /\ m_curCluster = s[ClusterNo(p) + 1]
  BY TurnPlace, BlockIs
<1>2. /\ BlockSize \in Nat \ {0} /\ BlocksPerCluster \in Nat \ {0}
      /\ BlockNo(p) \in 0 .. BlocksPerCluster - 1 /\ Block \in Nat
  BY <1>1, SizesAre, PlaceOf, TheBlock, BlocksAre
<1>3. /\ Apart(s) /\ Room(s) \in Nat /\ Len(content) \in Nat /\ Len(content) <= Room(s)
  BY DataFacts
<1>4. StartBlock(m_curCluster) \in Int /\ Block = StartBlock(m_curCluster) + BlockNo(p)
  <2>1. m_curCluster \in Nat
    BY SizesAre DEF StructInv, TypeOK, Clusters
  <2>2. QED
    BY <1>2, <2>1, BlockIs DEF StartBlock
<1>5. ASSUME NEW i \in 0 .. k - 1, NEW u \in 0 .. BlockSize - 1
      PROVE  /\ ClusterNo(p + BlockSize * i + u) = ClusterNo(p)
             /\ UnitNo(p + BlockSize * i + u) = u
             /\ BlockSize * i \in Nat /\ p + BlockSize * i + u \in Nat
             /\ BlockAt(s, p + BlockSize * i + u) = Block + i
  <2>1. i \in Nat /\ BlockNo(p) + i <= BlocksPerCluster - 1
    BY <1>1, <1>2
  <2>2. /\ ClusterNo(p + BlockSize * i + u) = ClusterNo(p)
        /\ BlockNo(p + BlockSize * i + u) = BlockNo(p) + i
        /\ UnitNo(p + BlockSize * i + u) = u
        /\ BlockSize * i \in Nat /\ p + BlockSize * i + u \in Nat
    BY <1>1, <2>1, BlocksBehind
  <2>3. BlockAt(s, p + BlockSize * i + u) = StartBlock(m_curCluster) + (BlockNo(p) + i)
    BY <1>1, <2>2 DEF BlockAt
  <2>4. QED
    BY <1>2, <1>4, <2>1, <2>2, <2>3
<1>6. BlockSize * k \in Nat
  BY <1>2
<1>7. ASSUME NEW x \in p .. p + BlockSize * k - 1
      PROVE  /\ x \in Nat /\ ClusterNo(x) = ClusterNo(p)
             /\ BlockAt(s, x) \in Block .. Block + k - 1
             /\ UnitNo(x) \in 0 .. BlockSize - 1
  <2> DEFINE d == x - p
             i == d \div BlockSize
             u == d % BlockSize
  <2>1. d \in Nat /\ d < BlockSize * k
    BY <1>1, <1>6
  <2> HIDE DEF d
  <2>2. i \in Nat /\ u \in 0 .. BlockSize - 1 /\ d = BlockSize * i + u
    BY <1>2, <2>1, Division
  <2> HIDE DEF i, u
  <2>3. i <= k - 1
    <3>1. SUFFICES ASSUME i >= k PROVE FALSE
      BY <2>2
    <3>2. BlockSize * i >= BlockSize * k
      BY <1>2, <2>2, <3>1
    <3>3. QED
      BY <1>2, <1>6, <2>1, <2>2, <3>2
  <2>4. x = p + BlockSize * i + u
    <3>1. BlockSize * i \in Nat
      BY <1>2, <2>2
    <3>2. QED
      BY <1>1, <1>6, <2>2, <3>1 DEF d
  <2>5. i \in 0 .. k - 1
    BY <2>2, <2>3
  <2>6. /\ ClusterNo(x) = ClusterNo(p) /\ UnitNo(x) = u /\ x \in Nat
        /\ BlockAt(s, x) = Block + i
    BY <1>5, <2>2, <2>4, <2>5
  <2>7. QED
    BY <1>2, <2>2, <2>5, <2>6
<1>8. ASSUME NEW x \in 0 .. Len(content) - 1, BlockAt(s, x) \in Block .. Block + k - 1
      PROVE  x \in p .. p + BlockSize * k - 1
  <2> DEFINE i == BlockAt(s, x) - Block
             y == p + BlockSize * i + 0
  <2>1. i \in 0 .. k - 1 /\ BlockAt(s, x) = Block + i
    BY <1>2, <1>8
  <2> HIDE DEF i
  <2>2. /\ ClusterNo(y) = ClusterNo(p) /\ UnitNo(y) = 0 /\ BlockSize * i \in Nat /\ y \in Nat
        /\ BlockAt(s, y) = Block + i
    <3>1. 0 \in 0 .. BlockSize - 1
      BY <1>2
    <3>2. QED
      BY <1>5, <2>1, <3>1
  <2>3. x \in Nat /\ x < Room(s) /\ UnitNo(x) \in 0 .. BlockSize - 1
    <3>1. x \in Nat /\ x < Room(s)
      BY <1>3
    <3>2. QED
      BY <3>1, PlaceOf
  <2>4. y < Room(s)
    <3>1. ClusterNo(p) + 1 <= Len(s)
      BY <1>1, <1>3, RoomIs
    <3> HIDE DEF y
    <3>2. QED
      BY <1>3, <2>2, <3>1, RoomIs
  <2>5. x - UnitNo(x) = y - UnitNo(y)
    <3> HIDE DEF y
    <3>1. BlockAt(s, x) = BlockAt(s, y)
      BY <2>1, <2>2
    <3>2. QED
      BY <1>3, <2>2, <2>3, <2>4, <3>1, BlockAtOnce
  <2>6. x = p + BlockSize * i + UnitNo(x)
    BY <1>1, <2>2, <2>3, <2>5
  <2>7. BlockSize * i + BlockSize <= BlockSize * k
    <3>1. i + 1 <= k /\ i + 1 \in Nat
      BY <2>1
    <3>2. BlockSize * (i + 1) <= BlockSize * k
      BY <1>2, <3>1
    <3>3. BlockSize * (i + 1) = BlockSize * i + BlockSize
      BY <1>2, <2>1
    <3>4. QED
      BY <3>2, <3>3
  <2>8. QED
    BY <1>1, <1>2, <1>6, <2>2, <2>3, <2>6, <2>7, SMTT(30)
<1>9. QED
  BY <1>6, <1>7, <1>8

\* The cached block is one of those written and is forgotten, or it is none.
CacheAside(k) ==
    \/ cache' = Invalidated /\ (cache.dirty => cache.lbn \in Block .. Block + k - 1)
    \/ cache' = cache /\ cache.lbn \notin Block .. Block + k - 1

\* Whole blocks put their units where they belong, and nothing else, if the
\* cache has none of them to write back later.
LEMMA RunWrites ==
    ASSUME NEW s, StructInv(s), DataInv(s), pc = "block", Offset = 0,
           NEW k \in Nat, k >= 1, BlockOfCluster + k <= BlocksPerCluster,
           \A b \in Block .. Block + k - 1 : b \in Blocks, CacheAside(k),
           DOMAIN disk' = OnCard,
           \A b \in OnCard :
             disk'[b] = IF b \in Block .. Block + k - 1 THEN WholeBlock ELSE disk[b]
    PROVE  OnlyWrote(s, BlockSize * k)
<1> DEFINE p == m_curPosition
           n == BlockSize * k
           Here == Block .. Block + k - 1
           q == SyncedOf(cache', disk')
<1>0. n \in Nat
  BY RunPlace
<1> HIDE DEF n, Here
<1>1. Here \subseteq Blocks /\ DirBlock \notin Here /\ NoBlock \notin Here /\ Here \subseteq OnCard
      /\ DirBlock \in OnCard
  BY BlocksAre DEF Here
<1>2. \A b \in OnCard : disk'[b] = IF b \in Here THEN WholeBlock ELSE disk[b]
  BY DEF Here
<1>3. /\ DOMAIN disk = OnCard /\ cache.dirty \in BOOLEAN
      /\ cache.lbn \in OnCard \cup {NoBlock}
      /\ \A b \in OnCard :
           Synced[b] = IF cache.dirty /\ cache.lbn = b THEN cache.data ELSE disk[b]
      /\ cache = [lbn |-> cache.lbn, dirty |-> cache.dirty, data |-> cache.data]
  BY CardIs DEF StructInv, TypeOK, OnCard, ShapeInv
<1>4. \/ cache' = Invalidated /\ (cache.dirty => cache.lbn \in Here)
      \/ cache' = cache /\ cache.lbn \notin Here
  BY DEF CacheAside, Here
<1>5. cache' = Invalidated => cache'.lbn = NoBlock /\ ~cache'.dirty
  BY <1>3 DEF Invalidated
<1>6. \A b \in OnCard :
        q[b] = IF cache'.dirty /\ cache'.lbn = b THEN cache'.data ELSE disk'[b]
  BY SyncedIs
<1> HIDE DEF q
<1>7. /\ \A b \in Here : q[b] = WholeBlock
      /\ \A b \in OnCard : b \notin Here => q[b] = Synced[b] /\ disk'[b] = disk[b]
  <2>1. CASE cache' = Invalidated /\ (cache.dirty => cache.lbn \in Here)
    BY <1>1, <1>2, <1>3, <1>5, <1>6, <2>1
  <2>2. CASE cache' = cache /\ cache.lbn \notin Here
    BY <1>1, <1>2, <1>3, <1>6, <2>2
  <2>3. QED
    BY <1>4, <2>1, <2>2
<1>8. /\ \A x \in p .. p + n - 1 :
           x \in Nat /\ BlockAt(s, x) \in Here /\ UnitNo(x) \in 0 .. BlockSize - 1
      /\ \A x \in 0 .. Len(content) - 1 : BlockAt(s, x) \in Here => x \in p .. p + n - 1
  BY RunPlace DEF n, Here
<1>9. ASSUME NEW x \in p .. p + n - 1
      PROVE  UnitAt(q, s, x) = value
  <2>1. q[BlockAt(s, x)] = WholeBlock
    BY <1>7, <1>8
  <2>2. UnitNo(x) + 1 \in 1 .. BlockSize
    BY <1>8, SizesAre
  <2>3. QED
    BY <2>1, <2>2 DEF UnitAt, WholeBlock
<1>10. ASSUME NEW x \in 0 .. Len(content) - 1, x \notin p .. p + n - 1
       PROVE  /\ UnitAt(q, s, x) = UnitAt(Synced, s, x)
              /\ UnitAt(disk', s, x) = UnitAt(disk, s, x)
  <2>1. /\ Apart(s) /\ Len(content) \in Nat /\ Len(content) <= Room(s) /\ Room(s) \in Nat
    BY DataFacts
  <2>2. x \in Nat /\ x < Room(s)
    BY <2>1
  <2>3. BlockAt(s, x) \in OnCard /\ BlockAt(s, x) \notin Here
    BY <1>8, <1>10, <2>1, <2>2, BlockAtIs, BlocksAre
  <2>4. QED
    BY <1>7, <2>3 DEF UnitAt
<1>11. q[DirBlock] = Synced[DirBlock] /\ disk'[DirBlock] = disk[DirBlock]
  BY <1>1, <1>7
<1>12. cache'.lbn # NoBlock /\ ~cache'.dirty => cache'.data = disk'[cache'.lbn]
  <2>1. SUFFICES ASSUME cache'.lbn # NoBlock, ~cache'.dirty
                 PROVE  cache'.data = disk'[cache'.lbn]
    OBVIOUS
  <2>2. cache' = cache /\ cache.lbn \notin Here /\ cache.lbn \in OnCard
    BY <1>3, <1>4, <1>5, <2>1
  <2>3. cache.data = disk[cache.lbn]
    BY <2>1, <2>2 DEF DataInv, CoherentInv
  <2>4. QED
    BY <1>2, <2>2, <2>3
<1>13. ~(cache'.lbn = DirBlock /\ cache'.dirty)
  <2>1. ~(cache.lbn = DirBlock /\ cache.dirty)
    BY DEF DataInv, CoherentInv
  <2>2. QED
    BY <1>4, <1>5, <2>1
<1>14. QED
  BY <1>9, <1>10, <1>11, <1>12, <1>13 DEF OnlyWrote, n, q

\* Whole blocks written keep the data.
LEMMA RunWritesData ==
    ASSUME NEW s, StructInv(s), DataInv(s), pc = "block", TurnRest, Offset = 0,
           NEW k \in Nat, k >= 1, BlockOfCluster + k <= BlocksPerCluster,
           \A b \in Block .. Block + k - 1 : b \in Blocks, CacheAside(k),
           DOMAIN disk' = OnCard,
           \A b \in OnCard :
             disk'[b] = IF b \in Block .. Block + k - 1 THEN WholeBlock ELSE disk[b],
           BlockSize * k \in 1 .. nToWrite, Wrote(BlockSize * k)
    PROVE  DataInv(s)'
<1> DEFINE n == BlockSize * k
<1>1. OnlyWrote(s, n)
  BY RunWrites
<1>2. n \in 1 .. nToWrite /\ nToWrite \in Nat /\ m_curPosition \in Nat /\ Wrote(n)
  BY TheBlock
<1>3. \A x \in m_curPosition .. m_curPosition + n - 1 : ClusterNo(x) = ClusterNo(m_curPosition)
  BY RunPlace
<1> HIDE DEF n
<1>4. ClusterNo(m_curPosition + n - 1) = ClusterNo(m_curPosition)
  <2>1. m_curPosition + n - 1 \in m_curPosition .. m_curPosition + n - 1
    BY <1>2
  <2>2. QED
    BY <1>3, <2>1
<1>5. QED
  BY <1>1, <1>2, <1>4, WroteData

\* A whole block written keeps the data.
LEMMA WriteBlockData ==
    ASSUME NEW s, StructInv(s), DataInv(s), WriteBlock, Undisturbed'
    PROVE  DataInv(s)'
<1>1. /\ pc = "block" /\ Offset = 0 /\ nToWrite >= BlockSize /\ TurnRest
      /\ cache' = IF cache.lbn = Block THEN Invalidated ELSE cache
      /\ Wrote(BlockSize) /\ disk' = [disk EXCEPT ![Block] = WholeBlock]
  BY NotRefused DEF WriteBlock, Single, Refused, TurnRest
<1>2. /\ Block \in Blocks /\ BlockOfCluster \in 0 .. BlocksPerCluster - 1
      /\ nToWrite \in Nat /\ BlockSize \in Nat \ {0} /\ BlocksPerCluster \in Nat
  BY <1>1, TheBlock, SizesAre
<1>3. Block \in Nat /\ Block \in OnCard
  BY <1>2, BlocksAre
<1>4. \A b : b \in Block .. Block + 1 - 1 <=> b = Block
  BY <1>3
<1>5. DOMAIN disk = OnCard
  BY CardIs
<1>6. /\ DOMAIN disk' = OnCard
      /\ \A b \in OnCard :
           disk'[b] = IF b \in Block .. Block + 1 - 1 THEN WholeBlock ELSE disk[b]
  BY <1>1, <1>3, <1>4, <1>5
<1>7. CacheAside(1)
  BY <1>1, <1>4 DEF CacheAside
<1>8. BlockSize * 1 = BlockSize /\ BlockSize \in 1 .. nToWrite
  BY <1>1, <1>2
<1>9. BlockOfCluster + 1 <= BlocksPerCluster /\ 1 \in Nat /\ 1 >= 1
  BY <1>2
<1>10. \A b \in Block .. Block + 1 - 1 : b \in Blocks
  BY <1>2, <1>4
<1>11. QED
  BY <1>1, <1>6, <1>7, <1>8, <1>9, <1>10, RunWritesData

\* Several whole blocks written keep the data.
LEMMA WriteBlocksData ==
    ASSUME NEW s, StructInv(s), DataInv(s), WriteBlocks, Undisturbed'
    PROVE  DataInv(s)'
<1>1. /\ pc = "block" /\ Multiple /\ TurnRest
      /\ cache' = IF Compared(Run) THEN Invalidated ELSE cache
      /\ overlapped' = (overlapped \/ IF Compared(Run) THEN ~InRange(Run) /\ cache.dirty
                                                       ELSE InRange(Run))
      /\ Wrote(Run * BlockSize)
      /\ disk' = [b \in DOMAIN disk |->
                    IF b \in Block .. Block + Run - 1 THEN WholeBlock ELSE disk[b]]
  BY WriteBlocksIs, NotRefused DEF Refused
<1>2. /\ Run \in Nat /\ Run >= 1 /\ BlockOfCluster + Run <= BlocksPerCluster
      /\ Run * BlockSize = BlockSize * Run /\ Run * BlockSize \in 1 .. nToWrite
      /\ \A b \in Block .. Block + Run - 1 : b \in Blocks
  BY <1>1, RunIs
<1>3. Offset = 0
  BY <1>1 DEF Multiple
<1>4. DOMAIN disk = OnCard
  BY CardIs
<1>5. /\ DOMAIN disk' = OnCard
      /\ \A b \in OnCard :
           disk'[b] = IF b \in Block .. Block + Run - 1 THEN WholeBlock ELSE disk[b]
  BY <1>1, <1>4
<1>6. CacheAside(Run)
  <2>1. ~overlapped'
    BY DEF Undisturbed
  <2>2. CASE Compared(Run)
    <3>1. cache' = Invalidated /\ ~(~InRange(Run) /\ cache.dirty)
      BY <1>1, <2>1, <2>2
    <3>2. QED
      BY <3>1 DEF CacheAside, InRange
  <2>3. CASE ~Compared(Run)
    <3>1. cache' = cache /\ ~InRange(Run)
      BY <1>1, <2>1, <2>3
    <3>2. QED
      BY <3>1 DEF CacheAside, InRange
  <2>4. QED
    BY <2>2, <2>3
<1>7. QED
  BY <1>1, <1>2, <1>3, <1>5, <1>6, RunWritesData

-----------------------------------------------------------------------------
(* What read() gets. *)

\* read() reads where its position is, and no further than what was written.
LEMMA ReadFrom ==
    ASSUME NEW s, StructInv(s), DataInv(s), pc = "read", toRead > 0, ReadCluster # Eoc
    PROVE  /\ m_curPosition \in Nat /\ toRead \in Nat /\ m_curPosition < Room(s)
           /\ m_curPosition + toRead <= Len(content)
           /\ ReadCluster = s[ClusterNo(m_curPosition) + 1]
           /\ TurnBlock = BlockAt(s, m_curPosition)
<1> DEFINE p == m_curPosition
<1>1. /\ ClusterNo(p) \in Nat /\ p \in Nat
      /\ AtNewCluster => p = ClusterSize * ClusterNo(p)
      /\ p = 0 => m_curCluster = 0 /\ AtNewCluster /\ ClusterNo(p) = 0
      /\ AtNewCluster /\ p # 0 =>
           /\ ClusterNo(p) \in 1 .. Len(s) /\ m_curCluster = s[ClusterNo(p)]
      /\ ~AtNewCluster => p < Room(s) /\ m_curCluster = s[ClusterNo(p) + 1]
  BY ClusterHere DEF DataInv
<1>2. /\ Apart(s) /\ Len(s) \in Nat /\ Room(s) \in Nat /\ Room(s) = ClusterSize * Len(s)
      /\ Len(content) \in Nat /\ Len(content) <= Room(s) /\ ClusterSize \in Nat \ {0}
  BY DataFacts
<1>3. toRead \in Nat /\ s # <<>>
  BY ReadPlace
<1>4. /\ ReadCluster = s[ClusterNo(p) + 1]
      /\ AtNewCluster /\ p # 0 => ClusterNo(p) + 1 <= Len(s)
  <2>1. CASE ~AtNewCluster
    BY <1>1, <2>1 DEF ReadCluster
  <2>2. CASE AtNewCluster /\ p = 0
    <3>1. ReadCluster = m_firstCluster /\ m_firstCluster = s[1]
      BY <1>3, <2>2, ChainFacts DEF ReadCluster
    <3>2. QED
      BY <1>1, <2>2, <3>1
  <2>3. CASE AtNewCluster /\ p # 0
    <3> DEFINE j == ClusterNo(p)
    <3>1. j \in 1 .. Len(s) /\ ReadCluster = fatCache[s[j]]
      BY <1>1, <2>3 DEF ReadCluster
    <3>2. fatCache[s[j]] = IF j = Len(s) THEN Eoc ELSE s[j + 1]
      BY <3>1 DEF StructInv, ChainInv
    <3>3. QED
      BY <1>2, <3>1, <3>2
  <2>4. QED
    BY <2>1, <2>2, <2>3
<1>5. p <= Len(content)
  <2>1. SUFFICES ASSUME p = Room(s), p # 0 PROVE FALSE
    BY <1>2 DEF DataInv, PositionInv, Stuck
  <2>2. AtNewCluster
    BY <1>1, <1>2, <2>1
  <2>3. ClusterSize * ClusterNo(p) = ClusterSize * Len(s) /\ ClusterNo(p) + 1 <= Len(s)
    BY <1>1, <1>2, <1>4, <2>1, <2>2
  <2>4. QED
    <3> DEFINE j == ClusterNo(p)
    <3>1. j \in Nat /\ j + 1 <= Len(s) /\ ClusterSize * j = ClusterSize * Len(s)
      BY <1>1, <2>3
    <3> HIDE DEF j
    <3>2. ClusterSize * (j + 1) <= ClusterSize * Len(s)
      BY <1>2, <3>1
    <3>3. ClusterSize * (j + 1) = ClusterSize * j + ClusterSize
      BY <1>2, <3>1
    <3>4. QED
      BY <1>2, <3>1, <3>2, <3>3
<1>6. p + toRead <= Len(content)
  BY <1>5 DEF DataInv, ReadingInv
<1>7. p < Room(s)
  BY <1>1, <1>2, <1>3, <1>6
<1>8. TurnBlock = BlockAt(s, p)
  BY <1>4, BlockIs DEF TurnBlock, BlockAt
<1>9. QED
  BY <1>1, <1>3, <1>4, <1>6, <1>7, <1>8

\* The next units of the file, in the present cluster.
Gets(u) ==
    /\ u \in Seq(Nat) /\ Len(u) \in 1 .. toRead
    /\ \A i \in 1 .. Len(u) : u[i] = content[m_curPosition + i]
    /\ ClusterNo(m_curPosition + Len(u) - 1) = ClusterNo(m_curPosition)

\* The card is the same, with more or less of it in the caches.
CardKept ==
    /\ \A b \in OnCard : SyncedOf(cache', disk')[b] = Synced[b]
    /\ \A b \in OnCard : disk'[b] = disk[b] \/ disk'[b] = Synced[b]
    /\ fatDisk' = fatDisk \/ fatDisk' = fatCache
    /\ UNCHANGED fatCache
    /\ cache'.lbn # NoBlock /\ ~cache'.dirty => cache'.data = disk'[cache'.lbn]
    /\ ~(cache'.lbn = DirBlock /\ cache'.dirty)

\* A part of a sequence.
LEMMA PartOf ==
    ASSUME NEW t \in Seq(Nat), NEW a \in Nat, NEW b \in Nat, a <= b, b <= Len(t)
    PROVE  /\ SubSeq(t, a + 1, b) \in Seq(Nat) /\ Len(SubSeq(t, a + 1, b)) = b - a
           /\ \A i \in 1 .. b - a : SubSeq(t, a + 1, b)[i] = t[a + i]
  OBVIOUS

\* Sequences of the same units are the same.
LEMMA SameSeq ==
    ASSUME NEW g \in Seq(Nat), NEW h \in Seq(Nat), Len(g) = Len(h),
           \A i \in 1 .. Len(g) : g[i] = h[i]
    PROVE  g = h
  BY SeqEqual

\* g is what is in front of p in t.
InFront(t, p, g) == g \in Seq(Nat) /\ Len(g) <= p /\ g = SubSeq(t, p - Len(g) + 1, p)

\* What was read and the units behind it are what is in front of the new
\* position.
LEMMA GotIsNext ==
    ASSUME NEW t \in Seq(Nat), NEW p \in Nat, NEW g, InFront(t, p, g), NEW u \in Seq(Nat),
           p + Len(u) <= Len(t), \A i \in 1 .. Len(u) : u[i] = t[p + i]
    PROVE  InFront(t, p + Len(u), g \o u)
<1> DEFINE a == p - Len(g)
           q == p + Len(u)
           f == g \o u
           e == SubSeq(t, a + 1, q)
<1>1. g \in Seq(Nat) /\ Len(g) <= p /\ g = SubSeq(t, p - Len(g) + 1, p)
  BY DEF InFront
<1>2. /\ Len(g) \in Nat /\ Len(u) \in Nat /\ Len(t) \in Nat /\ a \in Nat
  BY <1>1, LenProperties
<1>3. /\ q \in Nat /\ a <= q /\ a <= p /\ q <= Len(t) /\ p <= Len(t)
      /\ p - Len(g) + 1 = a + 1 /\ p - a = Len(g) /\ q - a = Len(g) + Len(u)
  BY <1>2
<1>4. /\ f \in Seq(Nat) /\ Len(f) = Len(g) + Len(u)
      /\ \A i \in 1 .. Len(f) : f[i] = IF i <= Len(g) THEN g[i] ELSE u[i - Len(g)]
  BY <1>1, <1>2
<1>5. q - Len(f) + 1 = a + 1 /\ Len(f) <= q
  BY <1>2, <1>4
<1>6. /\ e \in Seq(Nat) /\ Len(e) = Len(g) + Len(u)
      /\ \A i \in 1 .. Len(e) : e[i] = t[a + i]
  <2> HIDE DEF a, q
  <2>1. /\ e \in Seq(Nat) /\ Len(e) = q - a
        /\ \A i \in 1 .. q - a : e[i] = t[a + i]
    BY <1>2, <1>3, PartOf, ZenonT(30)
  <2> HIDE DEF e
  <2>2. QED
    BY <1>3, <2>1
<1>7. \A i \in 1 .. Len(g) : g[i] = t[a + i]
  <2>1. g = SubSeq(t, a + 1, p)
    BY <1>1, <1>3
  <2> HIDE DEF a
  <2>2. \A i \in 1 .. p - a : SubSeq(t, a + 1, p)[i] = t[a + i]
    BY <1>2, <1>3, PartOf, ZenonT(30)
  <2>3. QED
    BY <1>3, <2>1, <2>2
<1> HIDE DEF e, f
<1>8. \A i \in 1 .. Len(f) : f[i] = e[i]
  <2>1. SUFFICES ASSUME NEW i \in 1 .. Len(f) PROVE f[i] = t[a + i]
    BY <1>2, <1>4, <1>6
  <2>2. CASE i <= Len(g)
    <3>1. i \in 1 .. Len(g)
      BY <1>2, <2>2
    <3>2. f[i] = IF i <= Len(g) THEN g[i] ELSE u[i - Len(g)]
      BY <1>4, Zenon
    <3>3. f[i] = g[i]
      BY <2>2, <3>2
    <3>4. g[i] = t[a + i]
      BY <1>7, <3>1
    <3>5. QED
      BY <3>3, <3>4
  <2>3. CASE ~(i <= Len(g))
    <3> DEFINE j == i - Len(g)
    <3>1. j \in 1 .. Len(u) /\ p + j = a + i
      BY <1>2, <1>4, <2>3
    <3>2. f[i] = IF i <= Len(g) THEN g[i] ELSE u[i - Len(g)]
      BY <1>4, Zenon
    <3>3. f[i] = u[j]
      BY <2>3, <3>2
    <3>4. u[j] = t[p + j]
      BY <3>1
    <3>5. QED
      BY <3>1, <3>3, <3>4
  <2>4. QED
    BY <2>2, <2>3
<1>9. f = e
  BY <1>4, <1>6, <1>8, SameSeq
<1>10. f = SubSeq(t, q - Len(f) + 1, q)
  BY <1>5, <1>9 DEF e
<1>11. InFront(t, q, f)
  BY <1>4, <1>5, <1>10 DEF InFront
<1>12. QED
  BY <1>11 DEF f, q

\* A turn of read() that gets the next units, and leaves the card's contents,
\* keeps the data.
LEMMA GotData ==
    ASSUME NEW s, StructInv(s), DataInv(s), pc = "read", toRead > 0, ReadCluster # Eoc,
           m_curCluster' = ReadCluster, ReadRest, NEW u, Got(u), Gets(u), CardKept
    PROVE  DataInv(s)'
<1> DEFINE p == m_curPosition
           n == Len(u)
<1>1. /\ p \in Nat /\ toRead \in Nat /\ p < Room(s) /\ p + toRead <= Len(content)
      /\ ReadCluster = s[ClusterNo(p) + 1]
  BY ReadFrom
<1>2. /\ Apart(s) /\ Len(s) \in Nat /\ Room(s) \in Nat /\ ~unmoored
      /\ Len(content) \in Nat /\ Len(content) <= Room(s) /\ content \in Seq(Nat)
  BY DataFacts
<1>3. /\ n \in Nat /\ n > 0 /\ n <= toRead /\ u \in Seq(Nat)
      /\ \A i \in 1 .. Len(u) : u[i] = content[p + i]
      /\ ClusterNo(p + n - 1) = ClusterNo(p)
  BY <1>1 DEF Gets
<1>4. /\ pc' = "read" /\ got' = got \o u /\ m_curPosition' = p + n /\ toRead' = toRead - n
      /\ UNCHANGED <<m_fileSize, m_firstCluster, dirDirty, content, size, synced, grown, unmoored>>
  BY DEF Got, ReadRest
<1> HIDE DEF n
<1>5. PositionInv(s)'
  <2>1. At(s, p + n) = s[ClusterNo(p + n - 1) + 1]
    BY <1>1, <1>3 DEF At
  <2>2. (At(s, m_curPosition))' = At(s, p + n) /\ Room(s)' = Room(s)
    BY <1>4 DEF At, Room
  <2>3. m_curCluster' = At(s, p + n)
    BY <1>1, <1>3, <2>1
  <2>4. m_curPosition' <= Len(content') /\ m_curPosition' <= Room(s)
    BY <1>1, <1>2, <1>3, <1>4
  <2>5. QED
    BY <1>2, <1>4, <2>2, <2>3, <2>4 DEF PositionInv
<1>6. /\ got' \in Seq(Nat) /\ Len(got') <= m_curPosition'
      /\ got' = SubSeq(content, m_curPosition' - Len(got') + 1, m_curPosition')
  <2>1. InFront(content, p, got)
    BY DEF DataInv, LengthInv, ReadingInv, InFront
  <2>2. p + Len(u) <= Len(content)
    BY <1>1, <1>2, <1>3 DEF n
  <2>3. InFront(content, p + Len(u), got \o u)
    BY <1>1, <1>2, <1>3, <2>1, <2>2, GotIsNext
  <2>4. InFront(content, m_curPosition', got')
    BY <1>4, <2>3 DEF n
  <2>5. QED
    BY <2>4 DEF InFront
<1>7. LengthInv(s)'
  BY <1>4, <1>6 DEF DataInv, LengthInv, Writing, Room
<1>8. ReadingInv(s)'
  <2>1. m_curPosition' + toRead' <= Len(content) /\ ~(m_curPosition' > Len(content))
    BY <1>1, <1>2, <1>3, <1>4
  <2>2. QED
    BY <1>4, <1>6, <2>1 DEF ReadingInv
<1>9. UnitsInv(s)'
  BY <1>4, UnitsCarried DEF CardKept
<1>10. SyncedInv(s)'
  BY <1>4, SyncedCarried DEF CardKept, Writing
<1>11. CoherentInv'
  <2>1. ~dirDirty => (Synced)'[DirBlock] = Entry'
    BY <1>4, BlocksAre, SyncedOfCard DEF CardKept, DataInv, CoherentInv, Entry
  <2>2. QED
    BY <1>4, <2>1 DEF CardKept, CoherentInv
<1>12. QED
  BY <1>5, <1>7, <1>8, <1>9, <1>10, <1>11 DEF DataInv

\* Where the units are that a turn gets: unit v of block j behind the first, or behind
\* the offset in the first.
LEMMA UnitsHere ==
    ASSUME NEW s, StructInv(s), DataInv(s), pc = "read", toRead > 0, ReadCluster # Eoc,
           NEW x \in m_curPosition .. m_curPosition + toRead - 1,
           NEW j \in 0 .. BlocksPerCluster - BlockOfCluster - 1, NEW v,
           \/ j = 0 /\ v = Offset + (x - m_curPosition) /\ v <= BlockSize - 1
           \/ /\ Offset = 0 /\ v \in 0 .. BlockSize - 1
              /\ x = m_curPosition + BlockSize * j + v
    PROVE  /\ ClusterNo(x) = ClusterNo(m_curPosition)
           /\ content[x + 1] = Synced[TurnBlock + j][v + 1]
<1> DEFINE p == m_curPosition
<1>1. /\ p \in Nat /\ toRead \in Nat /\ p < Room(s) /\ p + toRead <= Len(content)
      /\ ReadCluster = s[ClusterNo(p) + 1]
  BY ReadFrom
<1>2. /\ BlockOfCluster = BlockNo(p) /\ Offset = UnitNo(p) /\ Offset \in 0 .. BlockSize - 1
      /\ BlockNo(p) \in 0 .. BlocksPerCluster - 1 /\ BlocksPerCluster \in Nat /\ BlockSize \in Nat
      /\ TurnBlock = StartBlock(ReadCluster) + BlockNo(p) /\ TurnBlock \in Nat
      /\ ReadCluster \in Clusters
  BY <1>1, BlockIs, PlaceOf, SizesAre, ReadPlace DEF TurnBlock
<1>3. ClusterNo(x) = ClusterNo(p) /\ BlockNo(x) = BlockNo(p) + j /\ UnitNo(x) = v
  <2>1. CASE j = 0 /\ v = Offset + (x - p) /\ v <= BlockSize - 1
    <3> DEFINE d == x - p
    <3>1. d \in Nat /\ x = p + d /\ UnitNo(p) + d <= BlockSize - 1
      BY <1>1, <1>2, <2>1
    <3> HIDE DEF d
    <3>2. /\ ClusterNo(p + d) = ClusterNo(p) /\ BlockNo(p + d) = BlockNo(p)
          /\ UnitNo(p + d) = UnitNo(p) + d
      BY <1>1, <3>1, UnitsBehind
    <3>3. BlockNo(p) + j = BlockNo(p) /\ v = UnitNo(p) + d
      BY <1>2, <2>1 DEF d
    <3>4. QED
      BY <3>1, <3>2, <3>3
  <2>2. CASE Offset = 0 /\ v \in 0 .. BlockSize - 1 /\ x = p + BlockSize * j + v
    <3>1. j \in Nat /\ BlockNo(p) + j <= BlocksPerCluster - 1 /\ UnitNo(p) = 0
      BY <1>2, <2>2
    <3>2. QED
      BY <1>1, <2>2, <3>1, BlocksBehind
  <2>3. QED
    BY <2>1, <2>2
<1>4. BlockAt(s, x) = TurnBlock + j
  <2>1. StartBlock(ReadCluster) \in Int
    BY <1>2, SizesAre DEF StartBlock, Clusters
  <2>2. BlockAt(s, x) = StartBlock(ReadCluster) + (BlockNo(p) + j)
    BY <1>1, <1>3 DEF BlockAt
  <2>3. QED
    BY <1>2, <2>1, <2>2
<1>5. x \in 0 .. Len(content) - 1
  <2>1. Len(content) \in Nat
    BY DataFacts
  <2>2. QED
    BY <1>1, <2>1
<1>6. UnitAt(Synced, s, x) = content[x + 1]
  BY <1>5 DEF DataInv, UnitsInv, Holds
<1>7. QED
  BY <1>3, <1>4, <1>6 DEF UnitAt

\* Parts of a block.
LEMMA GetsPart ==
    ASSUME NEW s, StructInv(s), DataInv(s), pc = "read", toRead > 0, ReadCluster # Eoc,
           NEW n \in 1 .. toRead, Offset + n <= BlockSize, NEW u \in Seq(Nat), Len(u) = n,
           \A i \in 1 .. n : u[i] = Synced[TurnBlock][Offset + i]
    PROVE  Gets(u)
<1> DEFINE p == m_curPosition
<1>1. /\ p \in Nat /\ toRead \in Nat /\ n \in Nat
  BY ReadFrom
<1>2. /\ Offset \in Nat /\ BlockSize \in Nat /\ TurnBlock \in Nat
      /\ 0 \in 0 .. BlocksPerCluster - BlockOfCluster - 1
  BY ReadPlace, SizesAre
<1>3. ASSUME NEW i \in 1 .. n
      PROVE  /\ u[i] = content[p + i] /\ ClusterNo(p + i - 1) = ClusterNo(p)
  <2> DEFINE x == p + i - 1
             v == Offset + (x - p)
  <2>1. x \in p .. p + toRead - 1 /\ v <= BlockSize - 1 /\ x + 1 = p + i /\ v + 1 = Offset + i
    BY <1>1, <1>2
  <2> HIDE DEF x
  <2>2. ClusterNo(x) = ClusterNo(p) /\ content[x + 1] = Synced[TurnBlock + 0][v + 1]
    BY <1>2, <2>1, UnitsHere
  <2>3. TurnBlock + 0 = TurnBlock
    BY <1>2
  <2>4. QED
    BY <2>1, <2>2, <2>3 DEF x
<1>4. n \in 1 .. n
  BY <1>1
<1>5. QED
  BY <1>3, <1>4 DEF Gets

\* A part of a block read keeps the data.
LEMMA ReadPartData ==
    ASSUME NEW s, StructInv(s), DataInv(s), pc = "read", toRead > 0, ReadCluster # Eoc,
           m_curCluster' = ReadCluster, ReadRest, ReadPart
    PROVE  DataInv(s)'
<1> DEFINE u == SubSeq(Fetch(TurnBlock, FALSE).data, Offset + 1, PartRead)
<1>1. /\ Got(u) /\ cache' = Fetch(TurnBlock, FALSE) /\ disk' = Flushed(TurnBlock)
      /\ UNCHANGED <<fatCache, fatDisk>>
  BY DEF ReadPart, PartRead
<1>2. TurnBlock \in Blocks /\ TurnBlock \in OnCard /\ TurnBlock # DirBlock
  BY ReadPlace, BlocksAre
<1>3. Fetch(TurnBlock, FALSE).data = Synced[TurnBlock] /\ CoherentInv
  BY <1>2, FetchedIs DEF DataInv
<1>4. Gets(u)
  <2> DEFINE n == PartRead - Offset
  <2>1. /\ PartRead \in Offset + 1 .. BlockSize /\ n \in 1 .. toRead
        /\ u \in Seq(Nat) /\ Len(u) = n
        /\ \A i \in 1 .. n : u[i] = Fetch(TurnBlock, FALSE).data[Offset + i]
    BY ReadPartIs
  <2>2. Offset + n <= BlockSize
    BY <2>1, ReadPlace, SizesAre, SMTT(30)
  <2>3. \A i \in 1 .. n : u[i] = Synced[TurnBlock][Offset + i]
    BY <1>3, <2>1
  <2> HIDE DEF n, u
  <2>4. QED
    BY <2>1, <2>2, <2>3, GetsPart
<1>5. CardKept
  <2>1. \A b \in OnCard : SyncedOf(cache', disk')[b] = Synced[b]
    BY <1>1, <1>2, <1>3, FetchKeeps
  <2>2. \A b \in OnCard : disk'[b] = disk[b] \/ disk'[b] = Synced[b]
    BY <1>1, FlushedIs
  <2>3. cache'.lbn = TurnBlock
    BY <1>1, <1>2, FetchIs
  <2>4. ~cache'.dirty => cache'.data = disk'[cache'.lbn]
    <3>1. SUFFICES ASSUME ~cache'.dirty PROVE Synced[TurnBlock] = disk'[TurnBlock]
      BY <1>1, <1>3, <2>3
    <3>2. SyncedOf(cache', disk') = disk'
      BY <3>1 DEF SyncedOf
    <3>3. QED
      BY <1>2, <2>1, <3>2
  <2>5. QED
    BY <1>1, <1>2, <2>1, <2>2, <2>3, <2>4 DEF CardKept
<1> HIDE DEF u
<1>6. QED
  BY <1>1, <1>4, <1>5, GotData

\* A whole block read keeps the data.
LEMMA ReadBlockData ==
    ASSUME NEW s, StructInv(s), DataInv(s), pc = "read", toRead > 0, ReadCluster # Eoc,
           m_curCluster' = ReadCluster, ReadRest, ReadBlock
    PROVE  DataInv(s)'
<1> DEFINE u == disk[TurnBlock]
<1>1. /\ Got(u) /\ Direct /\ UNCHANGED <<cache, disk, fatCache, fatDisk>>
  BY DEF ReadBlock
<1>2. TurnBlock \in Blocks /\ TurnBlock \in OnCard /\ toRead \in Nat
  BY ReadPlace, BlocksAre
<1>3. Offset = 0 /\ toRead >= BlockSize /\ Synced[TurnBlock] = disk[TurnBlock]
  BY <1>1, <1>2, CardIs DEF Direct
<1>4. u \in Seq(Nat) /\ Len(u) = BlockSize
  BY <1>2, CardIs, UnitsAre
<1>5. Gets(u)
  <2>1. BlockSize \in 1 .. toRead /\ Offset + BlockSize <= BlockSize
    BY <1>2, <1>3, SizesAre
  <2>2. \A i \in 1 .. BlockSize : u[i] = Synced[TurnBlock][Offset + i]
    BY <1>3, SizesAre
  <2> HIDE DEF u
  <2>3. QED
    BY <1>4, <2>1, <2>2, GetsPart
<1>6. CardKept
  BY <1>1, SameCard DEF CardKept, DataInv, CoherentInv
<1> HIDE DEF u
<1>7. QED
  BY <1>1, <1>5, <1>6, GotData

\* Several whole blocks read keep the data: a block in the cache is written
\* back first.
LEMMA ReadBlocksData ==
    ASSUME NEW s, StructInv(s), DataInv(s), pc = "read", toRead > 0, ReadCluster # Eoc,
           m_curCluster' = ReadCluster, ReadRest, ReadBlocks, Undisturbed'
    PROVE  DataInv(s)'
<1> DEFINE r == ReadRun
           q == [k \in 1 .. r |-> disk'[TurnBlock + k - 1]]
           u == FlattenSeq(q)
           p == m_curPosition
<1>1. /\ Several
      /\ cache' = IF RunCompared THEN [cache EXCEPT !.dirty = FALSE] ELSE cache
      /\ disk' = IF RunCompared THEN Synced ELSE disk
      /\ fatDisk' = IF RunCompared THEN fatCache ELSE fatDisk
      /\ Got(u) /\ UNCHANGED fatCache
      /\ ~(cache'.dirty /\ cache.lbn \in TurnBlock .. TurnBlock + r - 1)
  BY DEF ReadBlocks, Undisturbed
<1>2. /\ r \in Nat /\ r >= 1 /\ r <= BlocksPerCluster - BlockOfCluster
      /\ BlockSize * r \in 1 .. toRead
      /\ \A k \in 1 .. r : TurnBlock + k - 1 \in Blocks
  BY <1>1, ReadRunIs
<1>3. /\ TurnBlock \in Nat /\ TurnBlock \in OnCard /\ toRead \in Nat /\ p \in Nat
      /\ BlockOfCluster \in 0 .. BlocksPerCluster - 1 /\ BlocksPerCluster \in Nat
      /\ BlockSize \in Nat \ {0}
  BY ReadPlace, BlocksAre, SizesAre
<1>4. /\ cache.dirty \in BOOLEAN /\ cache.lbn \in OnCard \cup {NoBlock}
      /\ cache = [lbn |-> cache.lbn, dirty |-> cache.dirty, data |-> cache.data]
      /\ \A b \in OnCard :
           Synced[b] = IF cache.dirty /\ cache.lbn = b THEN cache.data ELSE disk[b]
  BY CardIs DEF StructInv, TypeOK, ShapeInv, OnCard
<1>5. ASSUME RunCompared
      PROVE  CardKept /\ \A k \in 1 .. r : disk'[TurnBlock + k - 1] = Synced[TurnBlock + k - 1]
  <2>1. /\ cache'.lbn = cache.lbn /\ ~cache'.dirty /\ cache'.data = cache.data
        /\ disk' = Synced /\ fatDisk' = fatCache
    BY <1>1, <1>4, <1>5
  <2>2. SyncedOf(cache', disk') = Synced
    BY <2>1 DEF SyncedOf
  <2>3. cache.lbn # NoBlock => cache.data = Synced[cache.lbn]
    BY <1>4 DEF DataInv, CoherentInv
  <2>4. CardKept
    BY <1>1, <2>1, <2>2, <2>3 DEF CardKept
  <2>5. \A k \in 1 .. r : disk'[TurnBlock + k - 1] = Synced[TurnBlock + k - 1]
    BY <2>1
  <2>6. QED
    BY <2>4, <2>5
<1>6. ASSUME ~RunCompared
      PROVE  CardKept /\ \A k \in 1 .. r : disk'[TurnBlock + k - 1] = Synced[TurnBlock + k - 1]
  <2>1. UNCHANGED <<cache, disk, fatDisk, fatCache>>
    BY <1>1, <1>6
  <2>2. CardKept
    BY <2>1, SameCard DEF CardKept, DataInv, CoherentInv
  <2>3. \A k \in 1 .. r : disk'[TurnBlock + k - 1] = Synced[TurnBlock + k - 1]
    <3>1. SUFFICES ASSUME NEW k \in 1 .. r
                   PROVE  disk[TurnBlock + k - 1] = Synced[TurnBlock + k - 1]
      BY <2>1
    <3>2. TurnBlock + k - 1 \in TurnBlock .. TurnBlock + r - 1 /\ TurnBlock + k - 1 \in OnCard
      BY <1>2, <1>3, BlocksAre
    <3>3. ~(cache.dirty /\ cache.lbn = TurnBlock + k - 1)
      BY <1>1, <2>1, <3>2
    <3>4. QED
      BY <1>4, <3>2, <3>3
  <2>4. QED
    BY <2>2, <2>3
<1>7. CardKept /\ \A k \in 1 .. r : disk'[TurnBlock + k - 1] = Synced[TurnBlock + k - 1]
  BY <1>5, <1>6
<1>8. q \in [1 .. r -> Units] /\ \A k \in 1 .. r : q[k] = Synced[TurnBlock + k - 1]
  BY <1>2, <1>7, CardIs
<1> HIDE DEF q, r
<1>9. AllOf(u, q, r)
  BY <1>2, <1>8, FlattenBlocks
<1> HIDE DEF u
<1>10. Gets(u)
  <2> DEFINE n == BlockSize * r
  <2>0. \A y \in 0 .. n - 1 : u[y + 1] = q[(y \div BlockSize) + 1][(y % BlockSize) + 1]
    BY <1>9, Zenon DEF AllOf
  <2>1. u \in Seq(Nat) /\ Len(u) = n /\ n \in Nat /\ n \in 1 .. toRead
    <3>1. u \in Seq(Nat) /\ Len(u) = n
      BY <1>9, Zenon DEF AllOf
    <3>2. QED
      BY <1>2, <1>3, <3>1
  <2>2. ASSUME NEW y \in 0 .. n - 1
        PROVE  u[y + 1] = content[p + y + 1] /\ ClusterNo(p + y) = ClusterNo(p)
    <3> DEFINE j == y \div BlockSize
               v == y % BlockSize
               x == p + y
    <3>1. y \in Nat /\ y < BlockSize * r
      BY <2>1
    <3>2. j \in Nat /\ v \in 0 .. BlockSize - 1 /\ y = BlockSize * j + v
      BY <1>3, <3>1, Division
    <3>3. u[y + 1] = q[j + 1][v + 1]
      BY <2>0
    <3> HIDE DEF j, v, n
    <3>4. j + 1 <= r
      <4>1. SUFFICES ASSUME j >= r PROVE FALSE
        BY <1>2, <3>2
      <4>2. BlockSize * j >= BlockSize * r /\ BlockSize * r \in Nat /\ BlockSize * j \in Nat
        BY <1>2, <1>3, <3>2, <4>1
      <4>3. QED
        BY <3>1, <3>2, <4>2
    <3>5. q[j + 1] = Synced[TurnBlock + j]
      <4>1. j + 1 \in 1 .. r /\ TurnBlock + (j + 1) - 1 = TurnBlock + j
        BY <1>2, <1>3, <3>2, <3>4
      <4>2. q[j + 1] = Synced[TurnBlock + (j + 1) - 1]
        BY <1>8, <4>1
      <4>3. QED
        BY <4>1, <4>2
    <3>6. /\ x \in p .. p + toRead - 1 /\ x = p + BlockSize * j + v
          /\ j \in 0 .. BlocksPerCluster - BlockOfCluster - 1 /\ Offset = 0
      <4>1. BlockSize * j \in Nat
        BY <1>3, <3>2
      <4>2. y < toRead
        BY <1>2, <1>3, <3>1
      <4>3. Offset = 0
        BY <1>1 DEF Several, Direct
      <4>4. QED
        BY <1>2, <1>3, <3>1, <3>2, <3>4, <4>1, <4>2, <4>3
    <3> HIDE DEF x
    <3>7. ClusterNo(x) = ClusterNo(p) /\ content[x + 1] = Synced[TurnBlock + j][v + 1]
      BY <3>2, <3>6, UnitsHere
    <3>8. QED
      BY <3>3, <3>5, <3>7 DEF x
  <2> HIDE DEF n
  <2>3. \A i \in 1 .. n : u[i] = content[p + i]
    <3>1. SUFFICES ASSUME NEW i \in 1 .. n PROVE u[i] = content[p + i]
      OBVIOUS
    <3>2. i - 1 \in 0 .. n - 1 /\ (i - 1) + 1 = i /\ p + (i - 1) + 1 = p + i
      BY <1>3, <2>1
    <3>3. u[(i - 1) + 1] = content[p + (i - 1) + 1]
      BY <2>2, <3>2
    <3>4. QED
      BY <3>2, <3>3
  <2>4. ClusterNo(p + n - 1) = ClusterNo(p)
    <3>1. n - 1 \in 0 .. n - 1 /\ p + (n - 1) = p + n - 1
      BY <1>3, <2>1
    <3>2. ClusterNo(p + (n - 1)) = ClusterNo(p)
      BY <2>2, <3>1
    <3>3. QED
      BY <3>1, <3>2
  <2>5. QED
    BY <2>1, <2>3, <2>4 DEF Gets
<1>11. Got(u)
  BY <1>1 DEF q, r, u
<1>12. QED
  BY <1>7, <1>10, <1>11, GotData

\* A turn of read() keeps the data.
LEMMA ReadTurnData ==
    ASSUME NEW s, StructInv(s), DataInv(s), ReadTurn, Undisturbed'
    PROVE  DataInv(s)'
<1>1. /\ pc = "read" /\ toRead > 0 /\ ReadCluster # Eoc /\ m_curCluster' = ReadCluster
      /\ ReadPart \/ ReadBlock \/ ReadBlocks
      /\ ReadRest
  BY ReadTurnIs, NotRefused DEF ReadRefused
<1>2. CASE ReadPart
  BY <1>1, <1>2, ReadPartData
<1>3. CASE ReadBlock
  BY <1>1, <1>3, ReadBlockData
<1>4. CASE ReadBlocks
  BY <1>1, <1>4, ReadBlocksData
<1>5. QED
  BY <1>1, <1>2, <1>3, <1>4

-----------------------------------------------------------------------------
(* The invariant is one.                                                     *)

\* A file without a cluster has the structure.
LEMMA InitStruct == Init => StructInv(<<>>)
<1>1. SUFFICES ASSUME Init PROVE StructInv(<<>>)
  OBVIOUS
<1>2. /\ others \subseteq Clusters /\ \A c \in Clusters : c \in Nat
      /\ 0 \notin Clusters /\ Blank \in Units
  BY <1>1, OthersAssumption, SizesAre DEF Init, Clusters, Blank, Units, Old
<1>3. TypeOK
  BY <1>1, <1>2 DEF Init, TypeOK, NoBlock, NoPosition
<1>4. ShapeInv
  <2>1. \A b \in Blocks : b # DirBlock /\ b # NoBlock
    BY BlocksAre, Zenon DEF OnCard
  <2>2. DOMAIN disk = Blocks \cup {DirBlock} /\ \A b \in Blocks : disk[b] = Blank
    BY <1>1, <2>1 DEF Init
  <2>3. cache = [lbn |-> NoBlock, dirty |-> FALSE, data |-> Blank]
    BY <1>1 DEF Init
  <2>4. QED
    <3>1. cache = [lbn |-> cache.lbn, dirty |-> cache.dirty, data |-> cache.data]
          /\ (cache.lbn \in Blocks => cache.data \in Units)
      BY <1>2, <2>3
    <3>2. fatCache = [c \in Clusters |-> fatCache[c]]
      BY <1>1 DEF Init
    <3>3. searchStart \in Int /\ refused \in Nat /\ calls \in Nat /\ value \in Nat
      BY <1>1 DEF Init
    <3>4. unmoored \in BOOLEAN /\ overlapped \in BOOLEAN /\ grown \in BOOLEAN
      <4>1. unmoored = FALSE /\ overlapped = FALSE /\ grown = TRUE
        BY <1>1 DEF Init
      <4>2. QED
        BY <4>1
    <3>5. QED
      BY <1>2, <2>2, <3>1, <3>2, <3>3, <3>4 DEF ShapeInv
<1>5. WorkInv
  BY <1>1 DEF Init, WorkInv
<1>6. OthersInv
  <2>1. \A b \in Theirs : b \in Blocks /\ b # DirBlock
    BY <1>2, Addresses DEF Theirs
  <2>2. \A b \in Theirs : disk[b] = Blank
    BY <1>1, <2>1 DEF Init
  <2>3. \A c \in others : fatCache[c] = Eoc /\ fatDisk[c] = Eoc
    BY <1>1, <1>2 DEF Init
  <2>4. QED
    BY <1>1, <1>2, <2>2, <2>3 DEF Init, OthersInv
<1>7. ChainInv(<<>>)
  BY <1>1, <1>2 DEF Init, ChainInv, Own
<1>8. PlaceInv(<<>>)
  BY <1>1 DEF Init, PlaceInv, NoPosition, Writing
<1>9. QED
  BY <1>3, <1>4, <1>5, <1>6, <1>7, <1>8 DEF StructInv

\* A file without a unit has its data.
LEMMA InitData == Init => DataInv(<<>>)
<1>1. SUFFICES ASSUME Init PROVE DataInv(<<>>)
  OBVIOUS
<1>2. Room(<<>>) = 0
  BY SizesAre DEF Room
<1>3. PositionInv(<<>>)
  BY <1>1, <1>2 DEF Init, PositionInv, At
<1>4. LengthInv(<<>>)
  BY <1>1, <1>2 DEF Init, LengthInv, Writing
<1>5. UnitsInv(<<>>)
  BY <1>1 DEF Init, UnitsInv, Holds
<1>6. Synced = disk /\ disk[DirBlock] = EmptyEntry
  BY <1>1 DEF Init, Synced
<1>7. CoherentInv
  BY <1>1, <1>6, BlocksAre DEF Init, CoherentInv, Entry, EmptyEntry
<1>8. ReadingInv(<<>>)
  BY <1>1 DEF Init, ReadingInv
<1>9. SyncedInv(<<>>)
  BY <1>1, <1>6 DEF Init, SyncedInv, Holds, EmptyEntry, Writing
<1>10. QED
  BY <1>3, <1>4, <1>5, <1>7, <1>8, <1>9 DEF DataInv

\* What has gone wrong stays wrong.
LEMMA DisturbedStays ==
    ASSUME NEW s, StructInv(s), Next, Undisturbed'
    PROVE  Undisturbed
<1>1. refused \in Nat /\ overlapped \in BOOLEAN /\ refused' = 0 /\ ~overlapped'
  BY DEF StructInv, ShapeInv, Undisturbed
<1>2. SUFFICES /\ refused' = refused \/ refused' = refused + 1
               /\ overlapped => overlapped'
  BY <1>1 DEF Undisturbed
<1> USE DEF observed
<1>3. CASE SeekSet \/ StartWrite \/ WriteReturns \/ StartRead \/ ReadReturns \/ ReadBehindChain
           \/ Truncate \/ StartSync
  BY <1>3 DEF SeekSet, StartWrite, WriteReturns, StartRead, ReadReturns, ReadBehindChain, Truncate,
              StartSync
<1>4. CASE EnterCluster
  BY <1>4 DEF EnterCluster
<1>5. CASE WritePart
  BY <1>5, WritePartIs DEF Wrote, Refused
<1>6. CASE WriteBlock
  BY <1>6 DEF WriteBlock, Wrote, Refused
<1>7. CASE WriteBlocks
  <2>1. /\ overlapped' = (overlapped \/ IF Compared(Run) THEN ~InRange(Run) /\ cache.dirty
                                                        ELSE InRange(Run))
        /\ Refused \/ Wrote(Run * BlockSize)
    BY <1>7, WriteBlocksIs
  <2>2. overlapped => overlapped'
    BY <2>1
  <2>3. refused' = refused \/ refused' = refused + 1
    BY <2>1 DEF Wrote, Refused
  <2>4. QED
    BY <2>2, <2>3
<1>8. CASE ReadTurn
  <2>1. ReadPart \/ ReadBlock \/ ReadBlocks \/ ReadRefused
    BY <1>8, ReadTurnIs
  <2>2. CASE ReadPart
    BY <2>2 DEF ReadPart
  <2>3. CASE ReadBlock
    BY <2>3 DEF ReadBlock
  <2>4. CASE ReadBlocks
    <3>1. /\ overlapped' = (overlapped \/ (cache'.dirty /\
                                              cache.lbn \in TurnBlock .. TurnBlock + ReadRun - 1))
          /\ refused' = refused
      BY <2>4 DEF ReadBlocks
    <3>2. overlapped => overlapped'
      BY <3>1
    <3>3. QED
      BY <3>1, <3>2
  <2>5. CASE ReadRefused
    BY <2>5 DEF ReadRefused
  <2>6. QED
    BY <2>1, <2>2, <2>3, <2>4, <2>5
<1>9. CASE SyncEntry \/ SyncData \/ SyncFat
  BY <1>9 DEF SyncEntry, SyncData, SyncFat, SyncFails
<1>10. QED
  BY <1>3, <1>4, <1>5, <1>6, <1>7, <1>8, <1>9 DEF Next

\* The file has some chain of clusters that the invariant holds with.
FileInvariant == \E s : FileInv(s)

\* A step that leaves the chain as it is, or has its own.
Kept(s) == StructInv(s)' /\ (Undisturbed' => DataInv(s)')

\* The invariant after a step, from a chain that has it.
LEMMA KeptIs ==
    ASSUME NEW s, Kept(s)
    PROVE  FileInvariant'
  BY DEF Kept, FileInvariant, FileInv

\* The invariant after write() entered a cluster, whichever chain that leaves.
LEMMA EnterKept ==
    ASSUME NEW s, StructInv(s), Undisturbed' => DataInv(s), EnterCluster
    PROVE  \E t : Kept(t)
<1>1. /\ EnterFull \/ (\E c : EnterNew(c)) \/ EnterOld
      /\ EnterRest /\ pc = "cluster" /\ nToWrite > 0
  BY EnterIs
<1>2. CASE EnterFull
  BY <1>1, <1>2, EnterFullStruct, EnterFullData DEF Kept
<1>3. CASE \E c : EnterNew(c)
  <2>1. PICK c : EnterNew(c)
    BY <1>3
  <2>2. Kept(Append(s, c))
    BY <1>1, <2>1, EnterNewStruct, EnterNewData DEF Kept
  <2>3. QED
    BY <2>2
<1>4. CASE EnterOld
  BY <1>1, <1>4, EnterOldStruct, EnterOldData DEF Kept
<1>5. QED
  BY <1>1, <1>2, <1>3, <1>4

\* The invariant after truncate().
LEMMA CutKept ==
    ASSUME NEW s, StructInv(s), Undisturbed' => DataInv(s), Truncate
    PROVE  \E t : Kept(t)
<1>1. /\ pc = "idle" /\ m_fileSize # 0 /\ calls' = calls + 1 /\ CutRest
      /\ \E length \in 0 .. m_fileSize : Cutting(length)
  BY TruncateIs
<1>2. PICK length \in 0 .. m_fileSize : Cutting(length)
  BY <1>1
<1>3. Reached(length)
  BY <1>2 DEF Cutting
<1>4. PICK i \in 0 .. Len(s) :
         /\ i = 0 <=> length = 0
         /\ ChainBehind(length) = {s[j] : j \in i + 1 .. Len(s)}
         /\ i # 0 => ClusterAt(length) = s[i]
         /\ i = 0 => ClusterAt(length) \in InChain(s) \cup {0}
         /\ s # <<>> /\ ~unmoored
  BY <1>1, <1>3, CutAt
<1>5. StructInv(SubSeq(s, 1, i))'
  BY <1>1, <1>2, <1>4, CutStruct
<1>6. DataInv(s) => DataInv(SubSeq(s, 1, i))'
  BY <1>1, <1>2, <1>4, CutData
<1>7. QED
  BY <1>5, <1>6 DEF Kept

\* Every step keeps the invariant.
LEMMA StepKept ==
    ASSUME FileInvariant, Next
    PROVE  FileInvariant'
<1>1. PICK s : FileInv(s)
  BY DEF FileInvariant
<1>2. StructInv(s) /\ (Undisturbed' => DataInv(s))
  BY <1>1, DisturbedStays DEF FileInv
<1>3. SUFFICES \E t : Kept(t)
  BY KeptIs
<1>4. CASE SeekSet
  BY <1>2, <1>4, SeekSetStruct, SeekSetData DEF Kept
<1>5. CASE StartWrite
  BY <1>2, <1>5, StartWriteStruct, StartWriteData DEF Kept
<1>6. CASE EnterCluster
  BY <1>2, <1>6, EnterKept
<1>7. CASE WritePart
  BY <1>2, <1>7, WritePartStruct, WritePartData DEF Kept
<1>8. CASE WriteBlock
  BY <1>2, <1>8, WriteBlockStruct, WriteBlockData DEF Kept
<1>9. CASE WriteBlocks
  BY <1>2, <1>9, WriteBlocksStruct, WriteBlocksData DEF Kept
<1>10. CASE WriteReturns
  BY <1>2, <1>10, WriteReturnsStruct, WriteReturnsData DEF Kept
<1>11. CASE StartRead
  BY <1>2, <1>11, StartReadStruct, StartReadData DEF Kept
<1>12. CASE ReadTurn
  BY <1>2, <1>12, ReadTurnStruct, ReadTurnData DEF Kept
<1>13. CASE ReadBehindChain \/ ReadReturns
  BY <1>2, <1>13, ReadEndsStruct, ReadEndsData DEF Kept
<1>14. CASE Truncate
  BY <1>2, <1>14, CutKept
<1>15. CASE StartSync
  BY <1>2, <1>15, StartSyncStruct, StartSyncData DEF Kept
<1>16. CASE SyncEntry
  BY <1>2, <1>16, SyncEntryStruct, SyncEntryData DEF Kept
<1>17. CASE SyncData
  BY <1>2, <1>17, SyncDataStruct, SyncDataData DEF Kept
<1>18. CASE SyncFat
  BY <1>2, <1>18, SyncFatStruct, SyncFatData DEF Kept
<1>19. QED
  BY <1>4, <1>5, <1>6, <1>7, <1>8, <1>9, <1>10, <1>11, <1>12, <1>13, <1>14, <1>15, <1>16, <1>17,
     <1>18 DEF Next

\* A step that changes nothing keeps the invariant.
LEMMA StutterKept ==
    ASSUME FileInvariant, UNCHANGED vars
    PROVE  FileInvariant'
<1> USE DEF vars, memory, local, fatVars, observed
<1>1. PICK s : FileInv(s)
  BY DEF FileInvariant
<1>2. TypeOK' = TypeOK /\ ShapeInv' = ShapeInv /\ WorkInv' = WorkInv
  BY DEF TypeOK, ShapeInv, WorkInv, Writing
<1>3. OthersInv' = OthersInv /\ ChainInv(s)' = ChainInv(s) /\ PlaceInv(s)' = PlaceInv(s)
  BY DEF OthersInv, Theirs, ChainInv, Own, InChain, PlaceInv, Writing
<1>4. PositionInv(s)' = PositionInv(s) /\ LengthInv(s)' = LengthInv(s)
  BY DEF PositionInv, LengthInv, Room, At, Stuck, FreeClusters, Writing
<1>5. UnitsInv(s)' = UnitsInv(s) /\ CoherentInv' = CoherentInv
  BY DEF UnitsInv, CoherentInv, Holds, UnitAt, BlockAt, Synced, Entry
<1>6. ReadingInv(s)' = ReadingInv(s) /\ SyncedInv(s)' = SyncedInv(s)
  BY DEF ReadingInv, SyncedInv, Holds, UnitAt, BlockAt, Writing
<1>7. Undisturbed' = Undisturbed
  BY DEF Undisturbed
<1>8. FileInv(s)'
  BY <1>1, <1>2, <1>3, <1>4, <1>5, <1>6, <1>7 DEF FileInv, StructInv, DataInv
<1>9. QED
  BY <1>8 DEF FileInvariant

\* Through all calls, and every refused write in them, the chain of the file
\* keeps its structure, and its units and what is on the card stay right until
\* a write is refused or a transfer of several blocks compares the cached block
\* from the wrong side (FatFile::seekSet, write, read, truncate, sync).
THEOREM FileKeepsItsInvariant == Spec => []FileInvariant
<1>1. Init => FileInvariant
  BY InitStruct, InitData DEF FileInvariant, FileInv
<1>2. FileInvariant /\ [Next]_vars => FileInvariant'
  BY StepKept, StutterKept
<1>3. QED
  BY <1>1, <1>2, PTL DEF Spec

-----------------------------------------------------------------------------
(* What the invariant means for what is seen of the file.                    *)

\* A unit that the links lead to is decoded from where it is.
LEMMA DecodedIs ==
    ASSUME NEW d, NEW fat, NEW e, NEW s, Apart(s), NEW i \in 1 .. e.size, e.size \in Nat,
           i - 1 < Room(s), Follow(fat, e.first, ClusterNo(i - 1)) = s[ClusterNo(i - 1) + 1]
    PROVE  Decoded(d, fat, e)[i] = UnitAt(d, s, i - 1)
<1> DEFINE x == i - 1
<1>1. x \in Nat /\ Index(i) = ClusterNo(x) /\ s[ClusterNo(x) + 1] \in Clusters
  <2>1. x \in Nat
    OBVIOUS
  <2>2. QED
    BY <2>1, BlockAtIs DEF Index, ClusterNo
<1>2. Decoded(d, fat, e)[i]
        = LET c == Follow(fat, e.first, Index(i)) IN
            IF c \in Clusters
              THEN d[StartBlock(c) + (((i - 1) \div BlockSize) % BlocksPerCluster)]
                    [((i - 1) % BlockSize) + 1]
              ELSE Lost
  BY DEF Decoded
<1>3. Follow(fat, e.first, Index(i)) = s[ClusterNo(x) + 1]
  BY <1>1
<1>4. QED
  BY <1>1, <1>2, <1>3 DEF UnitAt, BlockAt, BlockNo, UnitNo

\* A reader through the caches finds what was written.
LEMMA SeenAsWritten ==
    ASSUME NEW s, FileInv(s)
    PROVE  VisibleAsWritten
<1>1. SUFFICES ASSUME pc = "idle", Undisturbed PROVE Visible = content /\ m_fileSize = size
  BY DEF VisibleAsWritten
<1>2. StructInv(s) /\ DataInv(s)
  BY <1>1 DEF FileInv
<1>3. /\ content \in Seq(Nat) /\ Len(content) = size /\ size = m_fileSize /\ size \in Nat
      /\ Len(content) <= Room(s) /\ Apart(s) /\ Room(s) \in Nat /\ Len(s) \in Nat
  BY <1>1, <1>2, DataFacts DEF DataInv, LengthInv, Writing
<1>4. Entry.size = size /\ Entry.first = m_firstCluster
  BY <1>3 DEF Entry
<1>5. ASSUME NEW i \in 1 .. size
      PROVE  Visible[i] = content[i]
  <2> DEFINE x == i - 1
  <2>1. x \in Nat /\ x < Room(s) /\ x \in 0 .. Len(content) - 1 /\ x + 1 = i
    BY <1>3
  <2> HIDE DEF x
  <2>2. ClusterNo(x) \in Nat /\ ClusterNo(x) + 1 \in 1 .. Len(s)
    BY <1>3, <2>1, BlockAtIs
  <2>3. s # <<>> /\ 1 \in 1 .. Len(s) /\ m_firstCluster = s[1]
    <3>1. Len(s) # 0
      BY <1>3, <2>2
    <3>2. QED
      BY <1>2, <3>1, ChainFacts
  <2>4. Follow(fatCache, s[1], ClusterNo(x)) = s[ClusterNo(x) + 1]
    <3> DEFINE n == ClusterNo(x)
    <3>1. n \in Nat /\ 1 + n = n + 1 /\ 1 + n <= Len(s)
      BY <1>3, <2>2
    <3> HIDE DEF n
    <3>2. Follow(fatCache, s[1], n) = IF 1 + n <= Len(s) THEN s[1 + n] ELSE Eoc
      BY <1>2, <2>3, <3>1, FollowFrom
    <3>3. Follow(fatCache, s[1], n) = s[n + 1]
      BY <3>1, <3>2
    <3>4. QED
      BY <3>3 DEF n
  <2>5. Decoded(Synced, fatCache, Entry)[i] = UnitAt(Synced, s, x)
    BY <1>3, <1>4, <2>1, <2>3, <2>4, DecodedIs, SMTT(30) DEF x
  <2>6. UnitAt(Synced, s, x) = content[x + 1]
    BY <1>2, <2>1 DEF DataInv, UnitsInv, Holds
  <2>7. QED
    BY <2>1, <2>5, <2>6 DEF Visible
<1>6. Visible = [i \in 1 .. size |-> Visible[i]]
  BY <1>4 DEF Visible, Decoded
<1>7. content = [i \in 1 .. size |-> content[i]]
  BY <1>3
<1>8. Visible = content
  BY <1>5, <1>6, <1>7
<1>9. QED
  BY <1>3, <1>8

\* What read() returned is what was written there.
LEMMA ReadAsWritten ==
    ASSUME NEW s, FileInv(s)
    PROVE  ReadsWhatIsThere
  BY DEF ReadsWhatIsThere, FileInv, DataInv, ReadingInv

\* Between the calls, the current cluster is the one of the position.
LEMMA PlacedAsWritten ==
    ASSUME NEW s, FileInv(s)
    PROVE  PositionIsInChain
<1>1. SUFFICES ASSUME pc = "idle", Undisturbed
               PROVE  m_curCluster = IF m_curPosition = 0 THEN 0
                                     ELSE Follow(fatCache, m_firstCluster, Index(m_curPosition))
  BY DEF PositionIsInChain
<1>2. StructInv(s) /\ DataInv(s) /\ Apart(s)
  BY <1>1, DataFacts DEF FileInv
<1>3. m_curCluster = At(s, m_curPosition) /\ m_curPosition <= Room(s) /\ m_curPosition \in Nat
  BY <1>1, <1>2, DataFacts DEF DataInv, PositionInv
<1>4. CASE m_curPosition = 0
  BY <1>3, <1>4 DEF At
<1>5. CASE m_curPosition # 0
  <2> DEFINE n == Index(m_curPosition)
  <2>1. n \in Nat /\ n + 1 \in 1 .. Len(s) /\ m_curCluster = s[n + 1] /\ Len(s) \in Nat /\ s # <<>>
    BY <1>2, <1>3, <1>5, AtIs
  <2> HIDE DEF n
  <2>2. 1 \in 1 .. Len(s) /\ m_firstCluster = s[1] /\ 1 + n = n + 1
    BY <1>2, <2>1, ChainFacts
  <2>3. Follow(fatCache, s[1], n) = IF 1 + n <= Len(s) THEN s[1 + n] ELSE Eoc
    BY <1>2, <2>1, <2>2, FollowFrom
  <2>4. m_curCluster = Follow(fatCache, m_firstCluster, n)
    BY <2>1, <2>2, <2>3
  <2>5. QED
    BY <1>5, <2>4 DEF n
<1>6. QED
  BY <1>4, <1>5

\* What is on the card alone, if the power fails.
LEMMA StoredAsSynced ==
    ASSUME NEW s, FileInv(s)
    PROVE  SyncedSurvives
<1> DEFINE n == Len(synced)
           e == disk[DirBlock]
<1>1. SUFFICES ASSUME grown, Undisturbed
               PROVE  Len(Stored) >= n /\ SubSeq(Stored, 1, n) = synced
  BY DEF SyncedSurvives
<1>2. StructInv(s) /\ DataInv(s)
  BY <1>1 DEF FileInv
<1>3. /\ synced \in Seq(Nat) /\ n \in Nat /\ n <= size /\ size <= Len(content)
      /\ Len(content) <= Room(s) /\ Apart(s) /\ Room(s) \in Nat /\ Len(s) \in Nat
      /\ ClusterSize \in Nat \ {0} /\ size \in Nat /\ Len(content) \in Nat
  BY <1>1, <1>2, DataFacts
<1>4. /\ EntryLeads(e, s) /\ FatLeads(fatDisk, s) /\ Holds(disk, s, content, n)
      /\ \A i \in 1 .. n : synced[i] = content[i]
  BY <1>1, <1>2, MemoryLeads DEF DataInv, SyncedInv
<1>5. e.size \in Nat /\ e.size >= n /\ (n > 0 => e.first = s[1])
  BY <1>4 DEF EntryLeads
<1> HIDE DEF e, n
<1>6. ASSUME NEW i \in 1 .. n
      PROVE  Stored[i] = synced[i]
  <2> DEFINE x == i - 1
             k == ClusterNo(x)
  <2>1. x \in Nat /\ x < Room(s) /\ x \in 0 .. n - 1 /\ x < n /\ x + 1 = i
    BY <1>3
  <2> HIDE DEF x
  <2>2. k \in Nat /\ k + 1 \in 1 .. Len(s) /\ ClusterSize * k <= x
    <3>1. ClusterNo(x) \in Nat /\ ClusterNo(x) + 1 \in 1 .. Len(s)
      BY <1>3, <2>1, BlockAtIs
    <3>2. /\ x = ClusterSize * (x \div ClusterSize) + (x % ClusterSize)
          /\ x % ClusterSize \in 0 .. ClusterSize - 1 /\ x \div ClusterSize \in Nat
      BY <1>3, <2>1, Division
    <3>3. x = ClusterSize * k + (x % ClusterSize)
      BY <3>2 DEF ClusterNo
    <3> HIDE DEF k
    <3>4. k \in Nat
      BY <3>1 DEF k
    <3>5. ClusterSize * k \in Nat
      BY <1>3, <3>4
    <3>6. ClusterSize * k <= x
      BY <1>3, <2>1, <3>2, <3>3, <3>5
    <3>7. QED
      BY <3>1, <3>6 DEF k
  <2> HIDE DEF k
  <2>3. \A j \in 1 .. k : fatDisk[s[j]] = s[j + 1]
    <3>1. SUFFICES ASSUME NEW j \in 1 .. k PROVE fatDisk[s[j]] = s[j + 1]
      OBVIOUS
    <3>2. ClusterSize * j <= ClusterSize * k /\ ClusterSize * j \in Nat /\ ClusterSize * k \in Nat
      BY <1>3, <2>2
    <3>3. ClusterSize * j < n /\ j \in 1 .. Len(s)
      BY <1>3, <2>1, <2>2, <3>2, SMTT(30)
    <3>4. QED
      BY <1>4, <3>3 DEF FatLeads, n
  <2>4. Follow(fatDisk, s[1], k) = s[k + 1]
    <3>1. s \in Seq(Clusters) /\ k + 1 <= Len(s)
      BY <1>3, <2>2 DEF Apart
    <3>2. QED
      BY <2>2, <2>3, <3>1, FollowPart
  <2>5. e.first = s[1] /\ i \in 1 .. e.size
    BY <1>3, <1>5
  <2>6. Decoded(disk, fatDisk, e)[i] = UnitAt(disk, s, x)
    BY <1>3, <1>5, <2>1, <2>4, <2>5, DecodedIs DEF x, k
  <2>7. UnitAt(disk, s, x) = content[x + 1]
    BY <1>4, <2>1 DEF Holds
  <2>8. QED
    BY <1>4, <2>1, <2>6, <2>7 DEF Stored, e
<1> DEFINE S == {Stored[i] : i \in 1 .. e.size} \cup Nat
<1>7. Stored \in Seq(S) /\ Len(Stored) = e.size
  <2>1. Stored = [i \in 1 .. e.size |-> Stored[i]]
    BY DEF Stored, Decoded, e
  <2>2. \A i \in 1 .. e.size : Stored[i] \in S
    OBVIOUS
  <2> HIDE DEF S
  <2>3. Stored \in [1 .. e.size -> S]
    BY <2>1, <2>2
  <2>4. QED
    BY <1>5, <2>3
<1>8. synced \in Seq(S)
  BY <1>3
<1> HIDE DEF S
<1>9. /\ SubSeq(Stored, 1, n) \in Seq(S) /\ Len(SubSeq(Stored, 1, n)) = n
      /\ \A i \in 1 .. n : SubSeq(Stored, 1, n)[i] = Stored[i]
  BY <1>3, <1>5, <1>7
<1>10. SubSeq(Stored, 1, n) = synced
  <2>1. Len(synced) = n
    BY DEF n
  <2>2. QED
    BY <1>6, <1>8, <1>9, <2>1, SeqEqual
<1>11. QED
  BY <1>3, <1>5, <1>7, <1>10

\* Whatever went wrong, the file's clusters are its own, and none is lost.
LEMMA ApartWhatever ==
    ASSUME NEW s, FileInv(s)
    PROVE  ClustersStayApart
<1>1. StructInv(s) /\ OthersInv /\ ChainInv(s) /\ TypeOK
  BY DEF FileInv, StructInv
<1>2. OthersUntouched
  <2>1. SUFFICES ASSUME NEW c \in others, NEW k \in 0 .. BlocksPerCluster - 1
                 PROVE  disk[StartBlock(c) + k] = Blank
    BY <1>1 DEF OthersUntouched, OthersInv
  <2>2. StartBlock(c) + k \in Theirs
    BY DEF Theirs
  <2>3. QED
    BY <1>1, <2>2 DEF OthersInv
<1>3. NoClusterLeaked
  <2>1. SUFFICES ASSUME NEW c \in Clusters, fatCache[c] # Free, c \notin others
                 PROVE  c \in Chain(fatCache, m_firstCluster)
    BY DEF NoClusterLeaked
  <2>2. c \in InChain(s)
    BY <1>1, <2>1 DEF ChainInv, Own
  <2>3. /\ s # <<>> /\ 1 \in 1 .. Len(s) /\ m_firstCluster = s[1]
    BY <1>1, <2>2, ChainFacts, NextCluster
  <2>4. Chain(fatCache, s[1]) = {s[j] : j \in 1 .. Len(s)}
    BY <1>1, <2>3, ChainFrom DEF OthersInv
  <2>5. QED
    BY <2>2, <2>3, <2>4 DEF InChain
<1>4. QED
  BY <1>1, <1>2, <1>3 DEF ClustersStayApart

\* Until a write is refused, or a transfer of several blocks compares the
\* cached block from the wrong side: between the calls, what a reader through
\* the two caches finds in the file is what was written to it, as long; what
\* read() returned is what was written there; and the current cluster is the
\* one of the position: for cards, clusters and blocks of every size, and every
\* sequence of calls (FatFile::read, write, seekSet).
THEOREM FileAsWritten == Spec => []FileIsAsWritten
<1>1. FileInvariant => FileIsAsWritten
  BY SeenAsWritten, ReadAsWritten, PlacedAsWritten DEF FileInvariant, FileIsAsWritten
<1>2. QED
  BY <1>1, FileKeepsItsInvariant, PTL

\* What the last sync reported written is on the card alone, whenever the power
\* fails after it, while the file only grew and no write was refused or passed
\* the cache by; and whatever write was refused, and in whichever call, no
\* cluster is lost and no block of another file changes (FatFile::sync,
\* FatVolume::allocateCluster, freeChain).
THEOREM FailuresContained == Spec => []FailuresAreContained
<1>1. FileInvariant => FailuresAreContained
  BY StoredAsSynced, ApartWhatever DEF FileInvariant, FailuresAreContained
<1>2. QED
  BY <1>1, FileKeepsItsInvariant, PTL
=============================================================================
