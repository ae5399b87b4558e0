----------------------------- MODULE DataLemmas -----------------------------
(***************************************************************************)
(* Facts about data that the proofs about logging need and the library     *)
(* cannot give: its induction theorems take an operator as a parameter,    *)
(* which the provers do not instantiate.  Induction is stated here over a  *)
(* set instead, the set of the numbers for which a statement holds, and    *)
(* follows from the library's well-founded ordering of the finite sets.    *)
(***************************************************************************)
EXTENDS SequencesExt, Integers, FiniteSetTheorems, SequenceTheorems, TLAPS

-----------------------------------------------------------------------------
(* Induction, and functions defined by recursion. *)

\* A set that holds 0, and n + 1 whenever it holds n, holds every natural number:
\* the intervals 0 .. n with n outside of it would have no smallest one.
LEMMA SetInduction ==
    ASSUME NEW T, 0 \in T, \A n \in Nat : n \in T => n + 1 \in T
    PROVE  Nat \subseteq T
<1> DEFINE Below(n) == 0 .. n
           Bad == {Below(n) : n \in Nat \ T}
<1> SUFFICES ASSUME Nat \ T # {} PROVE FALSE
  OBVIOUS
<1>1. Bad \subseteq FiniteSubsetsOf(Nat)
  <2>1. \A n \in Nat : Below(n) \subseteq Nat /\ IsFiniteSet(Below(n))
    BY FS_Interval
  <2>2. QED
    BY <2>1, Zenon DEF FiniteSubsetsOf
<1>2. PICK x \in Bad : \A y \in Bad : ~(<<y, x>> \in StrictSubsetOrdering(Nat))
  <2>1. Bad # {}
    OBVIOUS
  <2> HIDE DEF Bad
  <2>2. QED
    BY <1>1, <2>1, WFMin, FS_StrictSubsetOrderingWellFounded, Zenon
<1>3. PICK n \in Nat \ T : x = Below(n)
  BY <1>2
<1>4. n - 1 \in Nat \ T
  OBVIOUS
<1>5. Below(n - 1) \in Bad
  BY <1>4
<1>6. /\ Below(n - 1) \subseteq Below(n) /\ Below(n - 1) # Below(n)
      /\ Below(n - 1) \subseteq Nat /\ Below(n) \subseteq Nat
  <2>1. n \in Below(n) /\ n \notin Below(n - 1)
    BY <1>4
  <2>2. QED
    BY <1>4, <2>1
<1>7. <<Below(n - 1), x>> \in StrictSubsetOrdering(Nat)
  BY <1>3, <1>6, Zenon DEF StrictSubsetOrdering
<1>8. QED
  BY <1>2, <1>5, <1>7

\* The same over the numbers up to a limit.
LEMMA SetInductionUpTo ==
    ASSUME NEW T, NEW m \in Nat, 0 \in T, \A n \in 0 .. m - 1 : n \in T => n + 1 \in T
    PROVE  /\ \A n \in 0 .. m : n \in T
           /\ \A n \in 1 .. m : n \in T /\ n # 0
           /\ m \in T
<1> DEFINE S == T \cup {n \in Nat : n > m}
<1>1. 0 \in S
  OBVIOUS
<1>2. \A n \in Nat : n \in S => n + 1 \in S
  OBVIOUS
<1> HIDE DEF S
<1>3. Nat \subseteq S
  BY <1>1, <1>2, SetInduction
<1>4. QED
  BY <1>3 DEF S

\* A set of numbers has a least one.
LEMMA LeastOf ==
    ASSUME NEW S \in SUBSET Nat, S # {}
    PROVE  \E m \in S : \A n \in S : m <= n
<1> SUFFICES ASSUME \A m \in S : \E n \in S : n < m PROVE FALSE
  OBVIOUS
<1> DEFINE T == {n \in Nat : \A i \in 0 .. n : i \notin S}
<1>1. 0 \in T
  OBVIOUS
<1>2. \A n \in Nat : n \in T => n + 1 \in T
  <2>1. SUFFICES ASSUME NEW n \in Nat, n \in T, n + 1 \in S PROVE FALSE
    OBVIOUS
  <2>2. PICK j \in S : j < n + 1
    BY <2>1
  <2>3. j \in 0 .. n
    BY <2>2
  <2>4. QED
    BY <2>1, <2>3
<1> HIDE DEF T
<1>3. Nat \subseteq T
  BY <1>1, <1>2, SetInduction
<1>4. PICK n \in S : TRUE
  OBVIOUS
<1>5. n \in T /\ n \in 0 .. n
  BY <1>3
<1>6. QED
  BY <1>4, <1>5 DEF T

\* f is what a loop that starts with v0 has after each of m steps, when step n turns v
\* into g[n][v].
IsRun(f, m, v0, g) ==
    /\ f[0] = v0
    /\ \A n \in 1 .. m : f[n] = g[n][f[n - 1]]

\* There is such a function.
LEMMA RunExists ==
    ASSUME NEW V, NEW v0 \in V, NEW m \in Nat, NEW g \in [1 .. m -> [V -> V]]
    PROVE  \E f \in [0 .. m -> V] : IsRun(f, m, v0, g)
<1> DEFINE T == {k \in 0 .. m : \E f \in [0 .. k -> V] : IsRun(f, k, v0, g)}
<1>1. 0 \in T
  <2>1. IsRun([i \in 0 .. 0 |-> v0], 0, v0, g)
    BY DEF IsRun
  <2>2. [i \in 0 .. 0 |-> v0] \in [0 .. 0 -> V] /\ 0 \in 0 .. m
    OBVIOUS
  <2>3. QED
    BY <2>1, <2>2
<1>2. ASSUME NEW k \in 0 .. m - 1, k \in T
      PROVE  k + 1 \in T
  <2>1. PICK f \in [0 .. k -> V] : IsRun(f, k, v0, g)
    BY <1>2
  <2> DEFINE h == [i \in 0 .. k + 1 |-> IF i = k + 1 THEN g[k + 1][f[k]] ELSE f[i]]
  <2>2. f[k] \in V /\ k + 1 \in 1 .. m
    OBVIOUS
  <2>3. g[k + 1][f[k]] \in V
    BY <2>2
  <2>4. h \in [0 .. k + 1 -> V]
    BY <2>3
  <2>5. h[0] = v0
    BY <2>1 DEF IsRun
  <2>6. \A n \in 1 .. k + 1 : h[n] = g[n][h[n - 1]]
    <3>1. TAKE n \in 1 .. k + 1
    <3>2. CASE n = k + 1
      <4>1. n - 1 = k /\ k # k + 1
        BY <3>2
      <4>2. h[n] = g[k + 1][f[k]] /\ h[n - 1] = f[k]
        BY <3>2, <4>1
      <4>3. QED
        BY <3>2, <4>2
    <3>3. CASE n # k + 1
      <4>1. n \in 1 .. k /\ n - 1 \in 0 .. k /\ n - 1 # k + 1
        BY <3>3
      <4>2. h[n] = f[n] /\ h[n - 1] = f[n - 1]
        BY <3>3, <4>1
      <4>3. f[n] = g[n][f[n - 1]]
        BY <2>1, <4>1 DEF IsRun
      <4>4. QED
        BY <4>2, <4>3
    <3>4. QED
      BY <3>2, <3>3
  <2>7. k + 1 \in 0 .. m
    OBVIOUS
  <2> HIDE DEF h
  <2>8. IsRun(h, k + 1, v0, g)
    BY <2>5, <2>6 DEF IsRun
  <2>9. QED
    BY <2>4, <2>7, <2>8
<1> HIDE DEF T
<1>3. m \in T
  BY <1>1, <1>2, SetInductionUpTo
<1>4. QED
  BY <1>3 DEF T

-----------------------------------------------------------------------------
(* Sequences joined one after the other. *)

\* What the recursion of FlattenSeq says of its function.
IsFlatten(f, seqs) ==
    f = [i \in 1 .. Len(seqs) |-> IF i = 1 THEN seqs[i] ELSE f[i - 1] \o seqs[i]]

\* The recursion of FlattenSeq has a function that satisfies it.
LEMMA FlattenExists ==
    ASSUME NEW V, NEW seqs \in Seq(Seq(V)), seqs # <<>>
    PROVE  /\ \E f : IsFlatten(f, seqs)
           /\ \E f : IsFlatten(f, seqs) /\ FlattenSeq(seqs) = f[Len(seqs)]
<1> DEFINE m == Len(seqs)
           g == [i \in 1 .. m |-> [v \in Seq(V) |-> v \o seqs[i]]]
<1>1. m \in Nat \ {0} /\ \A i \in 1 .. m : seqs[i] \in Seq(V)
  BY EmptySeq
<1>2. g \in [1 .. m -> [Seq(V) -> Seq(V)]]
  <2>1. \A i \in 1 .. m : \A v \in Seq(V) : v \o seqs[i] \in Seq(V)
    BY <1>1, ConcatProperties
  <2>2. QED
    BY <2>1
<1> HIDE DEF m, g
<1>3. PICK h \in [0 .. m -> Seq(V)] : IsRun(h, m, <<>>, g)
  <2>1. <<>> \in Seq(V)
    BY EmptySeq
  <2>2. QED
    BY <1>1, <1>2, <2>1, RunExists
<1> DEFINE f == [i \in 1 .. m |-> h[i]]
<1>4. \A i \in 1 .. m : f[i] = IF i = 1 THEN seqs[i] ELSE f[i - 1] \o seqs[i]
  <2>1. TAKE i \in 1 .. m
  <2>2. f[i] = h[i - 1] \o seqs[i]
    <3>1. i - 1 \in 0 .. m
      BY <1>1
    <3>2. h[i - 1] \in Seq(V)
      BY <1>3, <3>1
    <3>3. g[i][h[i - 1]] = h[i - 1] \o seqs[i]
      BY <3>2 DEF g
    <3>4. QED
      BY <1>3, <3>3 DEF IsRun
  <2>3. CASE i = 1
    <3>1. h[i - 1] = <<>>
      BY <1>3, <2>3 DEF IsRun
    <3>2. <<>> \o seqs[i] = seqs[i]
      BY <1>1, ConcatEmptySeq
    <3>3. f[i] = seqs[i]
      BY <2>2, <3>1, <3>2, Zenon
    <3>4. QED
      BY <2>3, <3>3, Zenon
  <2>4. CASE i # 1
    <3>1. i - 1 \in 1 .. m
      BY <1>1, <2>4
    <3>2. QED
      BY <2>2, <2>4, <3>1
  <2>5. QED
    BY <2>3, <2>4
<1>5. \E k : IsFlatten(k, seqs)
  <2>1. f = [i \in 1 .. m |-> IF i = 1 THEN seqs[i] ELSE f[i - 1] \o seqs[i]]
    <3> DEFINE k == [i \in 1 .. m |-> IF i = 1 THEN seqs[i] ELSE f[i - 1] \o seqs[i]]
    <3>1. \A i \in 1 .. m : f[i] = k[i]
      BY <1>4, Zenon
    <3>2. QED
      BY <3>1, Zenon
  <2>2. QED
    BY <2>1 DEF IsFlatten, m
<1>6. \E k : IsFlatten(k, seqs) /\ FlattenSeq(seqs) = k[Len(seqs)]
  <2>1. Len(seqs) # 0
    BY <1>1 DEF m
  <2>2. QED
    BY <1>5, <2>1 DEF FlattenSeq, IsFlatten
<1>7. QED
  BY <1>5, <1>6

\* Its values are sequences,
LEMMA FlattenTyped ==
    ASSUME NEW V, NEW seqs \in Seq(Seq(V)), NEW f, IsFlatten(f, seqs)
    PROVE  \A i \in 1 .. Len(seqs) : f[i] \in Seq(V)
<1> DEFINE T == {i \in 0 .. Len(seqs) : i # 0 => f[i] \in Seq(V)}
<1>1. Len(seqs) \in Nat /\ \A i \in 1 .. Len(seqs) : seqs[i] \in Seq(V)
  OBVIOUS
<1>2. 0 \in T
  BY <1>1
<1>3. ASSUME NEW i \in 0 .. Len(seqs) - 1, i \in T
      PROVE  i + 1 \in T
  <2>1. i + 1 \in 1 .. Len(seqs) /\ (i + 1) - 1 = i
    BY <1>1
  <2>2. f[i + 1] = IF i + 1 = 1 THEN seqs[i + 1] ELSE f[i] \o seqs[i + 1]
    BY <2>1, Zenon DEF IsFlatten
  <2>3. f[i + 1] \in Seq(V)
    <3>1. CASE i = 0
      BY <1>1, <2>1, <2>2, <3>1
    <3>2. CASE i # 0
      BY <1>1, <1>3, <2>1, <2>2, <3>2, ConcatProperties
    <3>3. QED
      BY <3>1, <3>2
  <2>4. QED
    BY <1>1, <2>1, <2>3
<1> HIDE DEF T
<1>4. \A i \in 1 .. Len(seqs) : i \in T /\ i # 0
  BY <1>1, <1>2, <1>3, SetInductionUpTo
<1>5. QED
  BY <1>4, Zenon DEF T

\* Two sequences that begin alike are joined alike as far.
Begins(s, t) ==
    /\ Len(s) \in Nat /\ Len(t) \in Nat /\ Len(s) <= Len(t)
    /\ \A i \in 1 .. Len(s) : s[i] = t[i]

\* and on a prefix it has the same ones.
LEMMA FlattenPrefix ==
    ASSUME NEW s, NEW t, Begins(s, t),
           NEW f, IsFlatten(f, s), NEW h, IsFlatten(h, t)
    PROVE  \A i \in 1 .. Len(s) : f[i] = h[i]
<1> DEFINE T == {i \in 0 .. Len(s) : i # 0 => f[i] = h[i]}
<1>1. /\ Len(s) \in Nat /\ Len(t) \in Nat /\ Len(s) <= Len(t)
      /\ \A i \in 1 .. Len(s) : s[i] = t[i]
  BY Zenon DEF Begins
<1>2. 0 \in T
  BY <1>1
<1>3. ASSUME NEW i \in 0 .. Len(s) - 1, i \in T
      PROVE  i + 1 \in T
  <2>1. i + 1 \in 1 .. Len(s) /\ i + 1 \in 1 .. Len(t) /\ (i + 1) - 1 = i
    BY <1>1
  <2>2. f[i + 1] = IF i + 1 = 1 THEN s[i + 1] ELSE f[i] \o s[i + 1]
    BY <2>1, Zenon DEF IsFlatten
  <2>3. h[i + 1] = IF i + 1 = 1 THEN t[i + 1] ELSE h[i] \o t[i + 1]
    BY <2>1, Zenon DEF IsFlatten
  <2>4. f[i + 1] = h[i + 1]
    <3>1. s[i + 1] = t[i + 1]
      BY <1>1, <2>1, Zenon
    <3>2. CASE i = 0
      BY <2>2, <2>3, <3>1, <3>2
    <3>3. CASE i # 0
      <4>1. f[i] = h[i] /\ i + 1 # 1
        BY <1>3, <2>1, <3>3
      <4>2. QED
        BY <2>2, <2>3, <3>1, <4>1, Zenon
    <3>4. QED
      BY <3>2, <3>3
  <2>5. QED
    BY <1>1, <2>1, <2>4
<1> HIDE DEF T
<1>4. \A i \in 1 .. Len(s) : i \in T /\ i # 0
  BY <1>1, <1>2, <1>3, SetInductionUpTo
<1>5. QED
  BY <1>4, Zenon DEF T

\* Nothing flattens to nothing,
LEMMA FlattenEmpty == FlattenSeq(<<>>) = <<>>
  BY DEF FlattenSeq

\* sequences of elements flatten to a sequence of them,
LEMMA FlattenType ==
    ASSUME NEW V, NEW seqs \in Seq(Seq(V))
    PROVE  FlattenSeq(seqs) \in Seq(V)
<1>1. CASE seqs = <<>>
  BY <1>1, FlattenEmpty, EmptySeq
<1>2. CASE seqs # <<>>
  <2>1. PICK f : IsFlatten(f, seqs) /\ FlattenSeq(seqs) = f[Len(seqs)]
    BY <1>2, FlattenExists
  <2>2. Len(seqs) \in 1 .. Len(seqs)
    BY <1>2, EmptySeq
  <2>3. QED
    BY <2>1, <2>2, FlattenTyped
<1>3. QED
  BY <1>1, <1>2

\* and one more sequence comes at the end.
LEMMA FlattenAppend ==
    ASSUME NEW V, NEW seqs \in Seq(Seq(V)), NEW s \in Seq(V)
    PROVE  FlattenSeq(Append(seqs, s)) = FlattenSeq(seqs) \o s
<1> DEFINE more == Append(seqs, s)
<1>1. /\ more \in Seq(Seq(V)) /\ more # <<>> /\ Len(more) = Len(seqs) + 1
      /\ \A i \in 1 .. Len(seqs) : more[i] = seqs[i]
      /\ more[Len(seqs) + 1] = s
  BY AppendProperties
<1> HIDE DEF more
<1>2. Len(seqs) \in Nat
  OBVIOUS
<1>3. PICK h : IsFlatten(h, more) /\ FlattenSeq(more) = h[Len(more)]
  BY <1>1, FlattenExists
<1>4. Len(seqs) + 1 \in 1 .. Len(more) /\ (Len(seqs) + 1) - 1 = Len(seqs)
  BY <1>1, <1>2
<1>5. h[Len(seqs) + 1] = IF Len(seqs) + 1 = 1 THEN s ELSE h[Len(seqs)] \o s
  BY <1>1, <1>3, <1>4, Zenon DEF IsFlatten
<1>6. CASE seqs = <<>>
  <2>1. Len(seqs) = 0
    BY <1>6
  <2>2. FlattenSeq(more) = s
    BY <1>1, <1>3, <1>5, <2>1
  <2>3. FlattenSeq(seqs) \o s = s
    BY <1>6, FlattenEmpty, ConcatEmptySeq
  <2>4. QED
    BY <2>2, <2>3 DEF more
<1>7. CASE seqs # <<>>
  <2>1. Len(seqs) # 0 /\ Len(seqs) \in 1 .. Len(seqs) /\ Len(seqs) <= Len(more)
    BY <1>1, <1>2, <1>7, EmptySeq
  <2>2. PICK f : IsFlatten(f, seqs) /\ FlattenSeq(seqs) = f[Len(seqs)]
    BY <1>7, FlattenExists
  <2>3. \A i \in 1 .. Len(seqs) : f[i] = h[i]
    <3>1. Begins(seqs, more)
      BY <1>1, <1>2, <2>1 DEF Begins
    <3>2. QED
      BY <1>3, <2>2, <3>1, FlattenPrefix, Z3
  <2>4. h[Len(seqs)] = FlattenSeq(seqs)
    BY <2>1, <2>2, <2>3
  <2>5. QED
    BY <1>1, <1>2, <1>3, <1>5, <2>1, <2>4 DEF more
<1>8. QED
  BY <1>6, <1>7

\* What a concatenation is, element by element.
LEMMA ConcatIs ==
    ASSUME NEW V, NEW p \in Seq(V), NEW q \in Seq(V), NEW r \in Seq(V),
           Len(r) = Len(p) + Len(q),
           \A i \in 1 .. Len(p) : r[i] = p[i],
           \A i \in 1 .. Len(q) : r[Len(p) + i] = q[i]
    PROVE  r = p \o q
<1>1. p \o q \in Seq(V) /\ Len(p \o q) = Len(p) + Len(q)
  BY ConcatProperties
<1>2. Len(p) \in Nat /\ Len(q) \in Nat
  OBVIOUS
<1>3. ASSUME NEW i \in 1 .. Len(r)
      PROVE  r[i] = (p \o q)[i]
  <2>1. CASE i <= Len(p)
    BY <1>2, <2>1, ConcatProperties
  <2>2. CASE ~(i <= Len(p))
    <3>1. i - Len(p) \in 1 .. Len(q) /\ Len(p) + (i - Len(p)) = i
      BY <1>2, <2>2
    <3>2. r[i] = q[i - Len(p)]
      BY <3>1
    <3>3. QED
      BY <1>2, <2>2, <3>1, <3>2, ConcatProperties
  <2>3. QED
    BY <2>1, <2>2
<1>4. QED
  BY <1>1, <1>3, SeqEqual

\* The beginning of a concatenation is its first part.
LEMMA ConcatStarts ==
    ASSUME NEW S, NEW s \in Seq(S), NEW t \in Seq(S)
    PROVE  SubSeq(s \o t, 1, Len(s)) = s
<1> DEFINE u == s \o t
<1>1. u \in Seq(S) /\ Len(u) = Len(s) + Len(t) /\ Len(s) \in Nat /\ Len(t) \in Nat
      /\ \A i \in 1 .. Len(s) : u[i] = s[i]
  BY ConcatProperties
<1> HIDE DEF u
<1>2. /\ SubSeq(u, 1, Len(s)) \in Seq(S) /\ Len(SubSeq(u, 1, Len(s))) = Len(s)
      /\ \A i \in 1 .. Len(s) : SubSeq(u, 1, Len(s))[i] = u[i]
  BY <1>1
<1>3. SubSeq(u, 1, Len(s)) = s
  BY <1>1, <1>2, SeqEqual
<1>4. QED
  BY <1>3, Zenon DEF u

\* An element appended to the second part is appended to the whole.
LEMMA AppendToConcat ==
    ASSUME NEW V, NEW a \in Seq(V), NEW b \in Seq(V), NEW e \in V
    PROVE  a \o Append(b, e) = Append(a \o b, e)
<1>1. <<e>> \in Seq(V) /\ a \o b \in Seq(V)
  BY ConcatProperties
<1>2. (a \o b) \o <<e>> = a \o (b \o <<e>>)
  BY <1>1, ConcatAssociative, SMTT(30)
<1>3. QED
  BY <1>1, <1>2, AppendIsConcat

Joins(s, t) == FlattenSeq(s \o t) = FlattenSeq(s) \o FlattenSeq(t)

\* Two lists flatten to the two parts one after the other: one more element,
LEMMA FlattenConcatStep ==
    ASSUME NEW V, NEW s \in Seq(Seq(V)), NEW t \in Seq(Seq(V)), NEW e \in Seq(V),
           Joins(s, t)
    PROVE  Joins(s, Append(t, e))
<1> DEFINE W == Seq(V)
           fs == FlattenSeq(s)
           ft == FlattenSeq(t)
<1>1. s \o Append(t, e) = Append(s \o t, e) /\ s \o t \in Seq(W)
  <2>1. s \in Seq(W) /\ t \in Seq(W) /\ e \in W
    OBVIOUS
  <2> HIDE DEF W
  <2>2. QED
    BY <2>1, AppendToConcat, ConcatProperties
<1>2. FlattenSeq(s \o Append(t, e)) = (fs \o ft) \o e
  <2>1. FlattenSeq(Append(s \o t, e)) = FlattenSeq(s \o t) \o e
    BY <1>1, FlattenAppend
  <2>2. QED
    BY <1>1, <2>1, Zenon DEF Joins
<1>3. FlattenSeq(Append(t, e)) = ft \o e
  BY FlattenAppend
<1>4. fs \in Seq(V) /\ ft \in Seq(V)
  BY FlattenType
<1> HIDE DEF fs, ft
<1>5. (fs \o ft) \o e = fs \o (ft \o e)
  BY <1>4, ConcatAssociative, SMTT(30)
<1>6. QED
  BY <1>2, <1>3, <1>5, Zenon DEF fs, Joins

\* and so for every list.
LEMMA FlattenConcat ==
    ASSUME NEW V, NEW s \in Seq(Seq(V)), NEW t \in Seq(Seq(V))
    PROVE  FlattenSeq(s \o t) = FlattenSeq(s) \o FlattenSeq(t)
<1> DEFINE First(i) == SubSeq(t, 1, i)
           T == {i \in 0 .. Len(t) : Joins(s, First(i))}
<1>1. Len(t) \in Nat /\ First(0) = <<>> /\ First(Len(t)) = t
  BY SubSeqEmpty, SubSeqFull
<1>2. 0 \in T
  <2>1. s \o <<>> = s /\ FlattenSeq(s) \o <<>> = FlattenSeq(s)
    BY FlattenType, ConcatEmptySeq
  <2>2. 0 \in 0 .. Len(t)
    BY <1>1
  <2>3. Joins(s, First(0))
    BY <1>1, <2>1, FlattenEmpty, Zenon DEF Joins
  <2>4. QED
    BY <2>2, <2>3, Zenon
<1>3. ASSUME NEW i \in 0 .. Len(t) - 1, i \in T
      PROVE  i + 1 \in T
  <2>1. t[i + 1] \in Seq(V) /\ i + 1 \in 1 .. Len(t) /\ i + 1 \in 0 .. Len(t)
    BY <1>1
  <2>2. First(i) \in Seq(Seq(V)) /\ First(i + 1) = Append(First(i), t[i + 1])
    <3>1. First(i) \in Seq(Seq(V))
      BY <1>1, SubSeqProperties
    <3>2. First(i + 1) = First(i) \o <<t[i + 1]>>
      BY <1>1, <2>1, SubSeqRecursiveSecond
    <3>3. QED
      BY <2>1, <3>1, <3>2, AppendIsConcat
  <2> HIDE DEF First
  <2>3. Joins(s, First(i))
    BY <1>3
  <2>4. Joins(s, First(i + 1))
    BY <2>1, <2>2, <2>3, FlattenConcatStep
  <2>5. QED
    BY <2>1, <2>4, Zenon
<1> HIDE DEF T
<1>4. Len(t) \in T
  BY <1>1, <1>2, <1>3, SetInductionUpTo
<1>5. QED
  BY <1>1, <1>4, Zenon DEF T, Joins

-----------------------------------------------------------------------------
(* Counters of a few bits. *)

\* A multiple of m smaller than m is zero.
LEMMA SmallMultiple ==
    ASSUME NEW m \in Nat \ {0}, NEW d \in Int, m * d < m, m * d > -m
    PROVE  d = 0
<1>1. CASE d >= 1
  <2>1. m * d >= m * 1
    BY <1>1
  <2>2. QED
    BY <2>1
<1>2. CASE d <= -1
  <2>1. m * d <= m * (-1)
    BY <1>2
  <2>2. QED
    BY <2>1
<1>3. QED
  BY <1>1, <1>2

\* Quotient and remainder.
LEMMA Divided ==
    ASSUME NEW m \in Nat \ {0}, NEW x \in Nat
    PROVE  \E q \in Nat : x = m * q + (x % m) /\ x % m \in 0 .. m - 1
<1>1. x \div m \in Nat /\ x % m \in 0 .. m - 1 /\ x = m * (x \div m) + (x % m)
  OBVIOUS
<1>2. QED
  BY <1>1

\* Whole turns of a counter do not change what it shows.
LEMMA ModShift ==
    ASSUME NEW m \in Nat \ {0}, NEW x \in Nat, NEW k \in Nat
    PROVE  (x + m * k) % m = x % m
<1> DEFINE y == x + m * k
           r == x % m
           s == y % m
<1>1. m * k \in Nat
  OBVIOUS
<1>2. y \in Nat
  BY <1>1
<1>3. y = x + m * k
  OBVIOUS
<1>4. PICK p \in Nat : x = m * p + r /\ r \in 0 .. m - 1
  BY Divided
<1> HIDE DEF y, r
<1>5. PICK q \in Nat : y = m * q + s /\ s \in 0 .. m - 1
  BY <1>2, Divided
<1> HIDE DEF s
<1>6. m * q - m * p - m * k = r - s /\ r - s < m /\ r - s > -m
  <2>1. m * p \in Nat /\ m * q \in Nat
    OBVIOUS
  <2>2. QED
    BY <1>1, <1>3, <1>4, <1>5, <2>1
<1>7. m * (q - p - k) = m * q - m * p - m * k
  OBVIOUS
<1>8. q - p - k = 0
  BY <1>6, <1>7, SmallMultiple
<1>9. m * q - m * p - m * k = 0
  BY <1>7, <1>8
<1>10. r = s
  BY <1>4, <1>5, <1>6, <1>9
<1>11. QED
  BY <1>10 DEF r, s, y

\* Reducing a term first changes nothing, if the width is a multiple.
LEMMA ModAdd ==
    ASSUME NEW m \in Nat \ {0}, NEW n \in Nat \ {0}, n % m = 0, NEW x \in Nat, NEW y \in Nat
    PROVE  ((x % n) + y) % m = (x + y) % m
<1>1. PICK q \in Nat : x = n * q + (x % n) /\ x % n \in 0 .. n - 1
  BY Divided
<1>2. PICK j \in Nat : n = m * j + (n % m)
  BY Divided
<1> DEFINE r == x % n
<1>3. r \in Nat /\ r + y \in Nat
  BY <1>1
<1>4. x = n * q + r
  BY <1>1
<1> HIDE DEF r
<1>5. n = m * j
  <2>1. m * j \in Nat
    OBVIOUS
  <2>2. QED
    BY <1>2, <2>1
<1>6. n * q = m * (j * q) /\ j * q \in Nat
  <2>1. (m * j) * q = m * (j * q) /\ j * q \in Nat
    OBVIOUS
  <2>2. QED
    BY <1>5, <2>1
<1>7. x + y = (r + y) + m * (j * q)
  <2>1. n * q \in Nat
    OBVIOUS
  <2>2. QED
    BY <1>3, <1>4, <1>6, <2>1
<1>8. ((r + y) + m * (j * q)) % m = (r + y) % m
  BY <1>3, <1>6, ModShift
<1>9. QED
  BY <1>7, <1>8 DEF r
=============================================================================
