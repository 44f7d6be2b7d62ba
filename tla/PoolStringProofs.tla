------------------------- MODULE PoolStringProofs --------------------------
(***************************************************************************)
(* Proofs about PoolString, for any number of strings and blocks and any   *)
(* sizes: no block is lost or shared, a string writes behind its last      *)
(* byte, its length is exact, and it implements ByteQueue.                 *)
(***************************************************************************)
EXTENDS PoolString, SequenceTheorems, FiniteSetTheorems, WellFoundedInduction, TLAPS

\* A set of natural numbers has a least one: induction, for the provers here.
LEMMA LeastNumber ==
  ASSUME NEW T \in SUBSET Nat, T # {}
  PROVE  \E n \in T : \A m \in T : n <= m
<1> DEFINE R == {ss \in Nat \X Nat : ss[1] < ss[2]}
<1>1. IsWellFoundedOn(R, Nat)
  BY NatLessThanWellFounded DEF OpToRel
<1> HIDE DEF R
<1>2. PICK n \in T : \A m \in T : <<m, n>> \notin R
  BY <1>1, WFMin
<1>3. ASSUME NEW m \in T, m < n PROVE <<m, n>> \in R
  BY <1>3 DEF R
<1>4. ASSUME NEW m \in T PROVE n <= m
  <2>1. ~ (m < n)
    BY <1>2, <1>3
  <2> QED
    BY <2>1
<1> QED
  BY <1>4

-----------------------------------------------------------------------------
(* FlattenSeq, whose recursive function is replaced by what it computes.   *)

\* f holds the concatenation of the first i members of u, for every i.
Runs(f, u, n) ==
  f = [i \in 1..n |-> IF i = 1 THEN u[i] ELSE f[i - 1] \o u[i]]

\* The concatenations of the first members exist.
LEMMA RunsExist ==
  ASSUME NEW u, NEW n \in Nat \ {0}
  PROVE  \E f : Runs(f, u, n)
<1> DEFINE T == {k \in Nat \ {0} : ~ \E f : Runs(f, u, k)}
<1>1. ASSUME T # {} PROVE FALSE
  <2>1. PICK k \in T : \A m \in T : k <= m
    <3>1. T \in SUBSET Nat
      OBVIOUS
    <3> HIDE DEF T
    <3> QED
      BY <1>1, <3>1, LeastNumber
  <2>2. k \in Nat \ {0} /\ ~ \E f : Runs(f, u, k)
    OBVIOUS
  <2>3. CASE k = 1
    <3> DEFINE f == [i \in 1..1 |-> u[i]]
    <3>1. Runs(f, u, 1)
      BY DEF Runs
    <3> QED
      BY <2>2, <2>3, <3>1
  <2>4. CASE k # 1
    <3>1. k - 1 \in Nat \ {0} /\ k - 1 \notin T
      BY <2>1, <2>2, <2>4
    <3>2. PICK f : Runs(f, u, k - 1)
      BY <3>1
    <3> DEFINE g == [i \in 1..k |-> IF i = k THEN f[k - 1] \o u[k] ELSE f[i]]
               h == [i \in 1..k |-> IF i = 1 THEN u[i] ELSE g[i - 1] \o u[i]]
    <3>3. \A i \in 1..(k - 1) : f[i] = IF i = 1 THEN u[i] ELSE f[i - 1] \o u[i]
      BY <3>2 DEF Runs
    <3>4. ASSUME NEW i \in 1..k PROVE g[i] = h[i]
      <4>1. CASE i = k
        <5>1. i - 1 \in 1..k /\ i - 1 # k /\ i # 1 /\ i - 1 = k - 1
          BY <2>2, <2>4, <4>1
        <5>2. g[i - 1] = f[k - 1]
          BY <5>1
        <5> HIDE DEF g
        <5>3. h[i] = g[i - 1] \o u[i]
          BY <5>1
        <5> QED
          BY <4>1, <5>2, <5>3 DEF g
      <4>2. CASE i # k
        <5>1. i \in 1..(k - 1) /\ g[i] = f[i] /\ (i # 1 => i - 1 \in 1..k /\ i - 1 # k)
          BY <2>2, <4>2
        <5>2. i # 1 => g[i - 1] = f[i - 1]
          BY <5>1
        <5> QED
          BY <3>3, <5>1, <5>2
      <4> QED
        BY <4>1, <4>2
    <3>5. g = h
      BY <3>4
    <3>6. Runs(g, u, k)
      BY <3>5 DEF Runs
    <3> QED
      BY <2>2, <3>6
  <2> QED
    BY <2>3, <2>4
<1> QED
  BY <1>1

\* There is one such function, and the shorter one is its restriction.
LEMMA RunsAgree ==
  ASSUME NEW u, NEW v, NEW n \in Nat \ {0}, NEW m \in Nat, m >= n,
         NEW f, Runs(f, u, n), NEW g, Runs(g, v, m),
         \A i \in 1..n : u[i] = v[i]
  PROVE  \A i \in 1..n : f[i] = g[i]
<1> DEFINE T == {k \in 1..n : f[k] # g[k]}
<1>1. ASSUME T # {} PROVE FALSE
  <2>1. PICK k \in T : \A j \in T : k <= j
    <3>1. T \in SUBSET Nat
      OBVIOUS
    <3> HIDE DEF T
    <3> QED
      BY <1>1, <3>1, LeastNumber
  <2>2. /\ f[k] = IF k = 1 THEN u[k] ELSE f[k - 1] \o u[k]
        /\ g[k] = IF k = 1 THEN v[k] ELSE g[k - 1] \o v[k]
    <3>1. k \in 1..n /\ k \in 1..m
      OBVIOUS
    <3> QED
      BY <3>1 DEF Runs
  <2>3. k # 1 => f[k - 1] = g[k - 1]
    <3>1. k # 1 => k - 1 \in 1..n /\ k - 1 \notin T
      BY <2>1
    <3> QED
      BY <3>1
  <2> QED
    BY <2>1, <2>2, <2>3
<1> QED
  BY <1>1

\* What FlattenSeq returns.
LEMMA FlattenIs ==
  ASSUME NEW u, NEW f, Len(u) \in Nat \ {0}, Runs(f, u, Len(u))
  PROVE  FlattenSeq(u) = f[Len(u)]
<1> DEFINE g == CHOOSE h : h = [i \in 1..Len(u) |-> IF i = 1 THEN u[i] ELSE h[i - 1] \o u[i]]
<1>1. FlattenSeq(u) = g[Len(u)]
  BY DEF FlattenSeq
<1>2. Runs(g, u, Len(u))
  BY DEF Runs
<1> HIDE DEF g
<1>3. \A i \in 1..Len(u) : f[i] = g[i]
  BY <1>2, RunsAgree
<1> QED
  BY <1>1, <1>3

\* Of no sequences, and of one more.
LEMMA FlattenEmpty ==
  FlattenSeq(<< >>) = << >>
BY DEF FlattenSeq

\* Flattening one sequence gives that sequence.
LEMMA FlattenOne ==
  ASSUME NEW S, NEW x \in Seq(S)
  PROVE  FlattenSeq(<<x>>) = x
<1> DEFINE u == <<x>>
<1>1. Len(u) = 1 /\ u[1] = x /\ 1 \in Nat \ {0}
  OBVIOUS
<1> HIDE DEF u
<1>2. PICK f : Runs(f, u, 1)
  BY <1>1, RunsExist
<1>3. FlattenSeq(u) = f[1]
  BY <1>1, <1>2, FlattenIs
<1>4. f[1] = u[1]
  BY <1>2 DEF Runs
<1> QED
  BY <1>1, <1>3, <1>4 DEF u

\* Flattening adds the last sequence behind what the others give.
LEMMA FlattenMore ==
  ASSUME NEW Q, NEW u \in Seq(Q), Len(u) > 1
  PROVE  FlattenSeq(u) = FlattenSeq(SubSeq(u, 1, Len(u) - 1)) \o u[Len(u)]
<1> DEFINE n == Len(u)
           v == SubSeq(u, 1, n - 1)
<1>1. n \in Nat /\ n \in Nat \ {0} /\ n - 1 \in Nat \ {0} /\ n \in 1..n /\ n # 1
  <2>1. n \in Nat /\ n > 1
    BY LenProperties
  <2> HIDE DEF n
  <2> QED
    BY <2>1
<1>2. Len(v) = n - 1 /\ \A i \in 1..(n - 1) : v[i] = u[i]
  <2>1. u \in [1..n -> Q]
    BY LenProperties
  <2>2. \A i \in 1..(n - 1) : u[i] \in Q
    BY <1>1, <2>1
  <2>3. 1 \in Int /\ n - 1 \in Int /\ 1 <= n - 1
    BY <1>1
  <2> QED
    BY <2>2, <2>3, SubSeqProperties
<1> HIDE DEF n, v
<1>3. PICK f : Runs(f, u, n)
  BY <1>1, RunsExist
<1>4. PICK g : Runs(g, v, n - 1)
  BY <1>1, RunsExist
<1>5. g[n - 1] = f[n - 1]
  <2>1. n >= n - 1 /\ n - 1 \in 1..(n - 1)
    BY <1>1
  <2> DEFINE k == n - 1
  <2>2. k \in Nat \ {0} /\ n >= k /\ Runs(g, v, k) /\ \A i \in 1..k : v[i] = u[i]
    BY <1>1, <1>2, <1>4, <2>1
  <2> HIDE DEF k
  <2>3. \A i \in 1..k : g[i] = f[i]
    BY <1>1, <1>3, <2>2, RunsAgree
  <2> QED
    BY <2>1, <2>3 DEF k
<1>6. f[n] = f[n - 1] \o u[n]
  <2>1. f[n] = IF n = 1 THEN u[n] ELSE f[n - 1] \o u[n]
    BY <1>1, <1>3 DEF Runs
  <2> QED
    BY <1>1, <2>1
<1>7. FlattenSeq(u) = f[n]
  BY <1>1, <1>3, FlattenIs DEF n
<1>8. FlattenSeq(v) = g[n - 1]
  BY <1>1, <1>2, <1>4, FlattenIs
<1> QED
  BY <1>5, <1>6, <1>7, <1>8 DEF n, v

\* A prefix is a shorter prefix and one member more.
LEMMA Prefix ==
  ASSUME NEW Q, NEW u \in Seq(Q), NEW k \in 0..Len(u)
  PROVE  /\ SubSeq(u, 1, k) \in Seq(Q) /\ Len(SubSeq(u, 1, k)) = k
         /\ \A i \in 1..k : SubSeq(u, 1, k)[i] = u[i]
         /\ k = 0 => SubSeq(u, 1, k) = << >>
         /\ k # 0 => /\ k - 1 \in 0..Len(u) /\ u[k] \in Q
                     /\ SubSeq(u, 1, k) = Append(SubSeq(u, 1, k - 1), u[k])
         /\ k = Len(u) => SubSeq(u, 1, k) = u
<1>1. Len(u) \in Nat /\ u \in [1..Len(u) -> Q]
  BY LenProperties
<1>2. ASSUME NEW j \in 0..Len(u)
      PROVE  /\ SubSeq(u, 1, j) \in Seq(Q) /\ Len(SubSeq(u, 1, j)) = j
             /\ \A i \in 1..j : SubSeq(u, 1, j)[i] = u[i]
  <2>1. \A i \in 1..j : u[i] \in Q
    BY <1>1
  <2>2. 1 \in Int /\ j \in Int /\ j \in Nat
    BY <1>1
  <2>3. /\ SubSeq(u, 1, j) \in Seq(Q)
        /\ Len(SubSeq(u, 1, j)) = IF 1 <= j THEN j - 1 + 1 ELSE 0
        /\ \A i \in 1..(j - 1 + 1) : SubSeq(u, 1, j)[i] = u[1 + i - 1]
    BY <2>1, <2>2, SubSeqProperties
  <2> QED
    BY <2>2, <2>3
<1>3. k = 0 => SubSeq(u, 1, k) = << >>
  <2>1. Len(SubSeq(u, 1, k)) = k /\ SubSeq(u, 1, k) \in Seq(Q)
    BY <1>2
  <2> QED
    BY <2>1, EmptySeq
<1>4. ASSUME k # 0
      PROVE  /\ k - 1 \in 0..Len(u) /\ u[k] \in Q
             /\ SubSeq(u, 1, k) = Append(SubSeq(u, 1, k - 1), u[k])
  <2>1. k - 1 \in 0..Len(u) /\ k \in 1..Len(u) /\ u[k] \in Q
    BY <1>1, <1>4
  <2> DEFINE a == SubSeq(u, 1, k)
             b == SubSeq(u, 1, k - 1)
             c == Append(b, u[k])
  <2>2. a \in Seq(Q) /\ Len(a) = k /\ \A i \in 1..k : a[i] = u[i]
    BY <1>2
  <2>3. b \in Seq(Q) /\ Len(b) = k - 1 /\ \A i \in 1..(k - 1) : b[i] = u[i]
    BY <1>2, <2>1
  <2> HIDE DEF a, b
  <2>4. c \in Seq(Q) /\ Len(c) = Len(b) + 1 /\ c[Len(b) + 1] = u[k]
        /\ \A i \in 1..Len(b) : c[i] = b[i]
    BY <2>1, <2>3, AppendProperties
  <2> HIDE DEF c
  <2>5. Len(a) = Len(c) /\ \A i \in 1..Len(a) : a[i] = c[i]
    <3>1. k \in Nat \ {0}
      BY <1>1, <2>1
    <3>2. \A i \in 1..k : i \in 1..(k - 1) \/ i = k
      BY <3>1
    <3> QED
      BY <2>2, <2>3, <2>4, <3>1, <3>2
  <2>6. a = c
    BY <2>2, <2>4, <2>5, SeqEqual
  <2> QED
    BY <2>1, <2>6 DEF a, b, c
<1>5. k = Len(u) => SubSeq(u, 1, k) = u
  BY SubSeqFull
<1> QED
  BY <1>2, <1>3, <1>4, <1>5

\* The same, for a sequence that is appended.
LEMMA FlattenAppend ==
  ASSUME NEW S, NEW Q, Q = Seq(S), NEW u \in Seq(Q), NEW x \in Q
  PROVE  FlattenSeq(Append(u, x)) = FlattenSeq(u) \o x
<1> DEFINE v == Append(u, x)
<1>1. Len(u) \in Nat
  BY LenProperties
<1>2. v \in Seq(Q) /\ Len(v) = Len(u) + 1 /\ v[Len(v)] = x /\ \A i \in 1..Len(u) : v[i] = u[i]
  BY AppendProperties
<1>3. CASE u = << >>
  <2>1. v = <<x>>
    BY <1>3
  <2>2. FlattenSeq(v) = x
    BY <2>1, FlattenOne
  <2>3. << >> \o x = x
    BY ConcatEmptySeq
  <2> QED
    BY <1>3, <2>2, <2>3, FlattenEmpty
<1>4. CASE u # << >>
  <2> HIDE DEF v
  <2>1. Len(u) \in Nat \ {0}
    BY <1>4, EmptySeq
  <2>2. Len(v) > 1
    BY <1>2, <2>1
  <2>3. FlattenSeq(v) = FlattenSeq(SubSeq(v, 1, Len(v) - 1)) \o v[Len(v)]
    BY <1>2, <2>2, FlattenMore
  <2>4. SubSeq(v, 1, Len(v) - 1) = u
    <3> DEFINE j == Len(u)
    <3>1. j \in 0..Len(v) /\ Len(v) - 1 = j
      BY <1>1, <1>2
    <3> DEFINE w == SubSeq(v, 1, j)
    <3>2. w \in Seq(Q) /\ Len(w) = j /\ \A i \in 1..j : w[i] = v[i]
      <4> HIDE DEF j
      <4> QED
        BY <1>2, <3>1, Prefix
    <3> HIDE DEF w
    <3>3. w = u
      BY <1>2, <3>2, SeqEqual, ZenonT(60)
    <3> QED
      BY <3>1, <3>3 DEF w
  <2> QED
    BY <1>2, <2>3, <2>4 DEF v
<1> QED
  BY <1>3, <1>4

\* What is flattened out of sequences over S is a sequence over S.
LEMMA FlattenType ==
  ASSUME NEW S, NEW Q, Q = Seq(S), NEW u \in Seq(Q)
  PROVE  FlattenSeq(u) \in Seq(S)
<1> DEFINE T == {k \in 0..Len(u) : FlattenSeq(SubSeq(u, 1, k)) \notin Seq(S)}
<1>0. Len(u) \in Nat
  BY LenProperties
<1>1. ASSUME T # {} PROVE FALSE
  <2>1. PICK k \in T : \A m \in T : k <= m
    <3>1. T \in SUBSET Nat
      BY <1>0
    <3> HIDE DEF T
    <3> QED
      BY <1>1, <3>1, LeastNumber
  <2>2. k \in 0..Len(u) /\ k \in Nat /\ FlattenSeq(SubSeq(u, 1, k)) \notin Seq(S)
    BY <1>0
  <2>3. k # 0
    <3>1. k = 0 => SubSeq(u, 1, k) = << >>
      BY <2>2, Prefix
    <3> QED
      BY <2>2, <3>1, FlattenEmpty, EmptySeq
  <2>4. /\ k - 1 \in 0..Len(u) /\ u[k] \in Q
        /\ SubSeq(u, 1, k) = Append(SubSeq(u, 1, k - 1), u[k])
    BY <2>2, <2>3, Prefix
  <2>5. k - 1 \notin T
    BY <2>1, <2>2
  <2>6. FlattenSeq(SubSeq(u, 1, k - 1)) \in Seq(S)
    BY <2>4, <2>5
  <2> DEFINE w == SubSeq(u, 1, k - 1)
             j == k - 1
  <2>7. w \in Seq(Q)
    <3>1. j \in 0..Len(u)
      BY <2>4
    <3> HIDE DEF j
    <3>2. SubSeq(u, 1, j) \in Seq(Q)
      BY <3>1, Prefix
    <3> QED
      BY <3>2 DEF j
  <2> HIDE DEF w
  <2>8. FlattenSeq(Append(w, u[k])) = FlattenSeq(w) \o u[k]
    BY <2>4, <2>7, FlattenAppend, ZenonT(60)
  <2>9. FlattenSeq(w) \o u[k] \in Seq(S)
    BY <2>4, <2>6, ConcatProperties DEF w
  <2> QED
    BY <2>2, <2>4, <2>8, <2>9 DEF w
<1>2. Len(u) \in 0..Len(u) /\ Len(u) \notin T
  BY <1>0, <1>1
<1>3. SubSeq(u, 1, Len(u)) = u
  BY <1>2, Prefix
<1> QED
  BY <1>2, <1>3

\* Concatenation is associative, under a name that the provers can cite.
SameJoin(x, y, z) == (x \o y) \o z = x \o (y \o z)

\* Concatenation is associative.
LEMMA Assoc ==
  ASSUME NEW S, NEW x \in Seq(S), NEW y \in Seq(S), NEW z \in Seq(S)
  PROVE  SameJoin(x, y, z)
BY ConcatAssociative DEF SameJoin

\* Flattening distributes over concatenation.
LEMMA FlattenConcat ==
  ASSUME NEW S, NEW Q, Q = Seq(S), NEW u \in Seq(Q), NEW v \in Seq(Q)
  PROVE  FlattenSeq(u \o v) = FlattenSeq(u) \o FlattenSeq(v)
<1> DEFINE W(k) == SubSeq(v, 1, k)
           T == {k \in 0..Len(v) : FlattenSeq(u \o W(k)) # FlattenSeq(u) \o FlattenSeq(W(k))}
<1>0. Len(v) \in Nat
  BY LenProperties
<1>1. ASSUME T # {} PROVE FALSE
  <2>1. PICK k \in T : \A m \in T : k <= m
    <3>1. T \in SUBSET Nat
      BY <1>0
    <3> HIDE DEF T
    <3> QED
      BY <1>1, <3>1, LeastNumber
  <2>2. /\ k \in 0..Len(v) /\ k \in Nat
        /\ FlattenSeq(u \o W(k)) # FlattenSeq(u) \o FlattenSeq(W(k))
    BY <1>0
  <2>3. k # 0
    <3>1. k = 0 => W(k) = << >>
      BY <2>2, Prefix
    <3>2. u \o << >> = u
      BY ConcatEmptySeq
    <3>3. FlattenSeq(u) \o << >> = FlattenSeq(u)
      BY FlattenType, ConcatEmptySeq
    <3> QED
      BY <2>2, <3>1, <3>2, <3>3, FlattenEmpty
  <2>4. /\ k - 1 \in 0..Len(v) /\ v[k] \in Q
        /\ W(k) = Append(W(k - 1), v[k])
    BY <2>2, <2>3, Prefix, SMTT(30)
  <2>5. k - 1 \notin T
    BY <2>1, <2>2
  <2>6. FlattenSeq(u \o W(k - 1)) = FlattenSeq(u) \o FlattenSeq(W(k - 1))
    BY <2>4, <2>5
  <2> DEFINE w == W(k - 1)
             x == v[k]
             j == k - 1
  <2>7. w \in Seq(Q)
    <3>1. j \in 0..Len(v)
      BY <2>4
    <3> HIDE DEF j
    <3>2. SubSeq(v, 1, j) \in Seq(Q)
      BY <3>1, Prefix
    <3> QED
      BY <3>2 DEF j
  <2>8. x \in Q
    BY <2>4
  <2>9. FlattenSeq(u \o w) = FlattenSeq(u) \o FlattenSeq(w) /\ W(k) = Append(w, x)
    BY <2>4, <2>6
  <2> HIDE DEF w, x, W
  <2>10. u \o Append(w, x) = Append(u \o w, x)
    <3> DEFINE one == <<x>>
               uw == u \o w
    <3>1. one \in Seq(Q) /\ uw \in Seq(Q)
      BY <2>7, <2>8, ConcatProperties
    <3>2. Append(w, x) = w \o one
      BY <2>7, <2>8, AppendIsConcat
    <3>3. Append(uw, x) = uw \o one
      <4> HIDE DEF uw, one
      <4> QED
        BY <2>8, <3>1, AppendIsConcat DEF one
    <3>4. uw \o one = u \o (w \o one)
      <4> HIDE DEF one
      <4>1. SameJoin(u, w, one)
        BY <2>7, <3>1, Assoc
      <4> QED
        BY <4>1 DEF SameJoin
    <3> QED
      BY <3>2, <3>3, <3>4
  <2>11. u \o w \in Seq(Q)
    BY <2>7, ConcatProperties
  <2> DEFINE uw == u \o w
  <2>12. FlattenSeq(Append(uw, x)) = FlattenSeq(uw) \o x
    <3> HIDE DEF uw
    <3>1. uw \in Seq(Q)
      BY <2>11 DEF uw
    <3> QED
      BY <2>8, <3>1, FlattenAppend
  <2>13. FlattenSeq(Append(w, x)) = FlattenSeq(w) \o x
    BY <2>7, <2>8, FlattenAppend
  <2>14. FlattenSeq(u) \in Seq(S) /\ FlattenSeq(w) \in Seq(S) /\ x \in Seq(S)
    BY <2>7, <2>8, FlattenType
  <2>15. (FlattenSeq(u) \o FlattenSeq(w)) \o x = FlattenSeq(u) \o (FlattenSeq(w) \o x)
    BY <2>14, ConcatAssociative, SMTT(30)
  <2> QED
    BY <2>2, <2>9, <2>10, <2>12, <2>13, <2>15
<1>2. Len(v) \in 0..Len(v) /\ Len(v) \notin T
  BY <1>0, <1>1
<1>3. W(Len(v)) = v
  BY <1>2, Prefix
<1> QED
  BY <1>2, <1>3

-----------------------------------------------------------------------------
(* The bytes in a chain of blocks.                                         *)

Records == [mem : Seq(Nat), offset : Nat, used : Nat]

\* Every block has the bytes between block_offset and block_offset + block_used.
Memory(B) ==
  /\ B \in [Blocks -> Records]
  /\ \A b \in Blocks : B[b].offset + B[b].used <= Len(B[b].mem)

BytesOf(r) == SubSeq(r.mem, r.offset + 1, r.offset + r.used)
Pieces(B, c) == [i \in DOMAIN c |-> BytesOf(B[c[i]])]
Cat(B, c) == FlattenSeq(Pieces(B, c))

\* The bytes of a block are those of its memory between offset and end.
LEMMA BytesType ==
  ASSUME NEW r \in Records, r.offset + r.used <= Len(r.mem)
  PROVE  /\ BytesOf(r) \in Seq(Nat) /\ Len(BytesOf(r)) = r.used
         /\ \A i \in 1..r.used : BytesOf(r)[i] = r.mem[r.offset + i]
<1> DEFINE m == r.mem
           a == r.offset + 1
           e == r.offset + r.used
<1>1. m \in Seq(Nat) /\ r.offset \in Nat /\ r.used \in Nat
  BY DEF Records
<1>2. Len(m) \in Nat /\ m \in [1..Len(m) -> Nat]
  BY <1>1, LenProperties
<1>3. e <= Len(m) /\ a \in Int /\ e \in Int /\ 1 <= a
  BY <1>1
<1> HIDE DEF m
<1>4. \A i \in a..e : m[i] \in Nat
  BY <1>1, <1>2, <1>3, SMTT(30)
<1> HIDE DEF a, e
<1>5. /\ SubSeq(m, a, e) \in Seq(Nat)
      /\ Len(SubSeq(m, a, e)) = IF a <= e THEN e - a + 1 ELSE 0
      /\ \A i \in 1..(e - a + 1) : SubSeq(m, a, e)[i] = m[a + i - 1]
  BY <1>3, <1>4, SubSeqProperties
<1>6. BytesOf(r) = SubSeq(m, a, e)
  BY DEF BytesOf, m, a, e
<1>7. e - a + 1 = r.used /\ (a <= e <=> r.used > 0) /\ \A i \in 1..r.used : a + i - 1 = r.offset + i
  BY <1>1, SMTT(30) DEF a, e
<1>8. Len(SubSeq(m, a, e)) = r.used
  BY <1>1, <1>5, <1>7
<1>9. \A i \in 1..r.used : SubSeq(m, a, e)[i] = m[r.offset + i]
  BY <1>5, <1>7
<1> QED
  BY <1>5, <1>6, <1>8, <1>9 DEF m

\* The pieces of a chain are the bytes of its blocks, in order.
LEMMA PiecesType ==
  ASSUME NEW B, Memory(B), NEW c \in Seq(Blocks), NEW Q, Q = Seq(Nat)
  PROVE  /\ Pieces(B, c) \in Seq(Q) /\ Len(Pieces(B, c)) = Len(c)
         /\ \A i \in 1..Len(c) : Pieces(B, c)[i] = BytesOf(B[c[i]]) /\ c[i] \in Blocks
<1>1. Len(c) \in Nat /\ c \in [1..Len(c) -> Blocks] /\ DOMAIN c = 1..Len(c)
  BY LenProperties
<1>2. \A b \in Blocks : BytesOf(B[b]) \in Q
  BY BytesType DEF Memory
<1>3. Pieces(B, c) = [i \in 1..Len(c) |-> BytesOf(B[c[i]])]
  BY <1>1 DEF Pieces
<1>4. Pieces(B, c) \in [1..Len(c) -> Q]
  BY <1>1, <1>2, <1>3
<1> DEFINE u == Pieces(B, c)
<1> HIDE DEF u
<1>5. u \in [1..Len(c) -> Q]
  BY <1>4 DEF u
<1>6. u \in Seq(Q) /\ Len(u) = Len(c)
  BY <1>1, <1>5
<1> QED
  BY <1>1, <1>3, <1>6 DEF u

\* The content of a chain is a sequence of bytes.
LEMMA CatType ==
  ASSUME NEW B, Memory(B), NEW c \in Seq(Blocks)
  PROVE  Cat(B, c) \in Seq(Nat)
<1> DEFINE Q == Seq(Nat)
<1> HIDE DEF Q
<1>1. Pieces(B, c) \in Seq(Q)
  BY PiecesType DEF Q
<1> QED
  BY <1>1, FlattenType DEF Cat, Q

\* A chain of no blocks holds no bytes.
LEMMA CatEmpty ==
  ASSUME NEW B
  PROVE  Cat(B, << >>) = << >>
<1>1. Pieces(B, << >>) = << >>
  BY DEF Pieces
<1> QED
  BY <1>1, FlattenEmpty DEF Cat

\* Two chains one behind the other hold the bytes of both.
LEMMA CatConcat ==
  ASSUME NEW B, Memory(B), NEW c \in Seq(Blocks), NEW d \in Seq(Blocks)
  PROVE  Cat(B, c \o d) = Cat(B, c) \o Cat(B, d)
<1> DEFINE Q == Seq(Nat)
           e == c \o d
           u == Pieces(B, c)
           v == Pieces(B, d)
           w == Pieces(B, e)
<1> HIDE DEF Q
<1>1. e \in Seq(Blocks) /\ Len(e) = Len(c) + Len(d)
      /\ \A i \in 1..(Len(c) + Len(d)) : e[i] = IF i <= Len(c) THEN c[i] ELSE d[i - Len(c)]
  BY ConcatProperties
<1>2. Len(c) \in Nat /\ Len(d) \in Nat
  BY LenProperties
<1> HIDE DEF e
<1>3. u \in Seq(Q) /\ Len(u) = Len(c) /\ \A i \in 1..Len(c) : u[i] = BytesOf(B[c[i]])
  BY PiecesType DEF Q
<1>4. v \in Seq(Q) /\ Len(v) = Len(d) /\ \A i \in 1..Len(d) : v[i] = BytesOf(B[d[i]])
  BY PiecesType DEF Q
<1>5. w \in Seq(Q) /\ Len(w) = Len(e) /\ \A i \in 1..Len(e) : w[i] = BytesOf(B[e[i]])
  BY <1>1, PiecesType DEF Q
<1> HIDE DEF u, v, w
<1>6. u \o v \in Seq(Q) /\ Len(u \o v) = Len(u) + Len(v)
      /\ \A i \in 1..(Len(u) + Len(v)) : (u \o v)[i] = IF i <= Len(u) THEN u[i] ELSE v[i - Len(u)]
  <2>1. u \in Seq(Q) /\ v \in Seq(Q)
    BY <1>3, <1>4
  <2> QED
    BY <2>1, ConcatProperties
<1>7. ASSUME NEW i \in 1..Len(w) PROVE w[i] = (u \o v)[i]
  <2>1. i \in 1..Len(e) /\ i \in 1..(Len(c) + Len(d)) /\ i \in 1..(Len(u) + Len(v))
    BY <1>1, <1>3, <1>4, <1>5
  <2>2. CASE i <= Len(c)
    <3>1. i \in 1..Len(c)
      BY <1>2, <2>1, <2>2
    <3> QED
      BY <1>1, <1>3, <1>5, <1>6, <2>1, <2>2, <3>1
  <2>3. CASE ~(i <= Len(c))
    <3>1. i - Len(c) \in 1..Len(d)
      BY <1>2, <2>1, <2>3
    <3> QED
      BY <1>1, <1>3, <1>4, <1>5, <1>6, <2>1, <2>3, <3>1
  <2> QED
    BY <2>2, <2>3
<1>8. w = u \o v
  <2>1. Len(w) = Len(u \o v)
    BY <1>1, <1>3, <1>4, <1>5, <1>6
  <2> QED
    BY <1>5, <1>6, <1>7, <2>1, SeqEqual
<1>9. FlattenSeq(u \o v) = FlattenSeq(u) \o FlattenSeq(v)
  BY <1>3, <1>4, FlattenConcat DEF Q
<1> QED
  BY <1>8, <1>9 DEF Cat, u, v, w, e

\* A chain of one block holds the bytes of the block.
LEMMA CatOne ==
  ASSUME NEW B, Memory(B), NEW b \in Blocks
  PROVE  Cat(B, <<b>>) = BytesOf(B[b])
<1> DEFINE x == BytesOf(B[b])
<1>1. x \in Seq(Nat)
  BY BytesType DEF Memory
<1>2. Pieces(B, <<b>>) = <<x>>
  BY DEF Pieces
<1> HIDE DEF x
<1> QED
  BY <1>1, <1>2, FlattenOne DEF Cat, x

\* A chain keeps its bytes while its blocks do.
LEMMA CatSame ==
  ASSUME NEW B, NEW D, NEW c \in Seq(Blocks), \A i \in 1..Len(c) : BytesOf(B[c[i]]) = BytesOf(D[c[i]])
  PROVE  Cat(B, c) = Cat(D, c)
<1>1. DOMAIN c = 1..Len(c)
  BY LenProperties
<1>2. Pieces(B, c) = Pieces(D, c)
  BY <1>1 DEF Pieces
<1> QED
  BY <1>2 DEF Cat

-----------------------------------------------------------------------------
(* The blocks of chains C, a free queue F and a pool that has handed out   *)
(* blocks 1 to f: each of these is in one place.                           *)

Owners(C, F, f) ==
  C \in [Strings -> Seq(Blocks)] /\ F \in Seq(Blocks) /\ f \in 0..BlockNum
OnceInChains(C) ==
  \A s, t \in Strings : \A i \in 1..Len(C[s]), j \in 1..Len(C[t]) :
    C[s][i] = C[t][j] => s = t /\ i = j
Once(F) == \A i, j \in 1..Len(F) : F[i] = F[j] => i = j
NotFree(C, F) == \A s \in Strings : \A i \in 1..Len(C[s]), j \in 1..Len(F) : C[s][i] # F[j]
HandedOut(C, F, f) ==
  /\ \A s \in Strings : \A i \in 1..Len(C[s]) : C[s][i] <= f
  /\ \A j \in 1..Len(F) : F[j] <= f
NoneLost(C, F, f) ==
  \A b \in 1..f : \/ \E s \in Strings : \E i \in 1..Len(C[s]) : C[s][i] = b
                  \/ \E j \in 1..Len(F) : F[j] = b

Apart(C, F, f) ==
  /\ Owners(C, F, f) /\ OnceInChains(C) /\ Once(F) /\ NotFree(C, F)
  /\ HandedOut(C, F, f) /\ NoneLost(C, F, f)

Offer(F, f) == F \o [i \in 1..(BlockNum - f) |-> f + i]

\* What Owners says of every queue and chain, place by place.
LEMMA ChainTypes ==
  ASSUME NEW C, NEW F, NEW f, Owners(C, F, f)
  PROVE  /\ Len(F) \in Nat /\ f \in Nat /\ BlockNum \in Nat /\ f <= BlockNum
         /\ \A j \in 1..Len(F) : F[j] \in Blocks
         /\ \A s \in Strings : /\ C[s] \in Seq(Blocks) /\ Len(C[s]) \in Nat
                               /\ \A i \in 1..Len(C[s]) : C[s][i] \in Blocks
<1>1. Len(F) \in Nat /\ \A j \in 1..Len(F) : F[j] \in Blocks
  BY LenProperties DEF Owners
<1>2. ASSUME NEW s \in Strings
      PROVE  /\ C[s] \in Seq(Blocks) /\ Len(C[s]) \in Nat
             /\ \A i \in 1..Len(C[s]) : C[s][i] \in Blocks
  <2> DEFINE c == C[s]
  <2>1. c \in Seq(Blocks)
    BY DEF Owners
  <2> HIDE DEF c
  <2>2. Len(c) \in Nat /\ \A i \in 1..Len(c) : c[i] \in Blocks
    BY <2>1, LenProperties
  <2> QED
    BY <2>1, <2>2 DEF c
<1> QED
  BY <1>1, <1>2, PoolAssumption DEF Owners

\* What the zone will hand out is in no chain.
LEMMA OfferIs ==
  ASSUME NEW C, NEW F, NEW f, Apart(C, F, f)
  PROVE  /\ Offer(F, f) \in Seq(Blocks) /\ Len(Offer(F, f)) = Len(F) + (BlockNum - f)
         /\ \A j \in 1..(Len(F) + (BlockNum - f)) :
              Offer(F, f)[j] = IF j <= Len(F) THEN F[j] ELSE f + (j - Len(F))
         /\ Once(Offer(F, f)) /\ NotFree(C, Offer(F, f))
<1> DEFINE n == BlockNum - f
           g == [i \in 1..n |-> f + i]
           A == Offer(F, f)
<1>1. Owners(C, F, f) /\ OnceInChains(C) /\ Once(F) /\ NotFree(C, F) /\ HandedOut(C, F, f)
  BY DEF Apart
<1>2. Len(F) \in Nat /\ f \in Nat /\ BlockNum \in Nat /\ f <= BlockNum /\ F \in Seq(Blocks)
      /\ \A j \in 1..Len(F) : F[j] \in Blocks
  BY <1>1, ChainTypes DEF Owners
<1>3. n \in Nat /\ g \in Seq(Blocks) /\ Len(g) = n /\ \A i \in 1..n : g[i] = f + i
  <2>1. n \in Nat /\ \A i \in 1..n : f + i \in Blocks
    BY <1>2 DEF Blocks
  <2>2. g \in [1..n -> Blocks]
    BY <2>1
  <2> HIDE DEF n
  <2>3. \A i \in 1..n : g[i] = f + i
    OBVIOUS
  <2> HIDE DEF g
  <2> QED
    BY <2>1, <2>2, <2>3
<1>4. A = F \o g
  BY DEF Offer
<1> HIDE DEF g, A
<1>5. A \in Seq(Blocks) /\ Len(A) = Len(F) + n
      /\ \A j \in 1..(Len(F) + n) : A[j] = IF j <= Len(F) THEN F[j] ELSE g[j - Len(F)]
  <2> HIDE DEF n
  <2>1. F \o g \in Seq(Blocks) /\ Len(F \o g) = Len(F) + Len(g)
        /\ \A j \in 1..(Len(F) + Len(g)) : (F \o g)[j] = IF j <= Len(F) THEN F[j] ELSE g[j - Len(F)]
    BY <1>2, <1>3, ConcatProperties
  <2> QED
    BY <1>3, <1>4, <2>1
<1>6. ASSUME NEW j \in 1..(Len(F) + n)
      PROVE  A[j] = IF j <= Len(F) THEN F[j] ELSE f + (j - Len(F))
  <2>1. ~(j <= Len(F)) => j - Len(F) \in 1..n
    BY <1>2, <1>3
  <2> QED
    BY <1>3, <1>5, <2>1
<1> HIDE DEF n
<1>7. ASSUME NEW i \in 1..Len(A), NEW j \in 1..Len(A), A[i] = A[j] PROVE i = j
  <2>1. i \in 1..(Len(F) + n) /\ j \in 1..(Len(F) + n) /\ i \in Nat /\ j \in Nat
    BY <1>5
  <2>2. /\ A[i] = IF i <= Len(F) THEN F[i] ELSE f + (i - Len(F))
        /\ A[j] = IF j <= Len(F) THEN F[j] ELSE f + (j - Len(F))
    BY <1>6, <2>1
  <2>3. /\ i <= Len(F) => i \in 1..Len(F) /\ F[i] <= f /\ F[i] \in Nat
        /\ j <= Len(F) => j \in 1..Len(F) /\ F[j] <= f /\ F[j] \in Nat
    BY <1>1, <1>2, <2>1 DEF HandedOut, Blocks
  <2>4. CASE i <= Len(F) /\ j <= Len(F)
    BY <1>1, <1>7, <2>2, <2>3, <2>4 DEF Once
  <2>5. CASE ~(i <= Len(F) /\ j <= Len(F))
    <3>1. CASE i <= Len(F) /\ ~(j <= Len(F))
      <4>1. F[i] = f + (j - Len(F))
        BY <1>7, <2>2, <3>1
      <4>2. F[i] <= f
        BY <2>3, <3>1
      <4>3. j > Len(F)
        BY <1>2, <2>1, <3>1
      <4> QED
        BY <1>2, <2>1, <4>1, <4>2, <4>3
    <3>2. CASE ~(i <= Len(F)) /\ j <= Len(F)
      <4>1. F[j] = f + (i - Len(F))
        BY <1>7, <2>2, <3>2
      <4>2. F[j] <= f
        BY <2>3, <3>2
      <4>3. i > Len(F)
        BY <1>2, <2>1, <3>2
      <4> QED
        BY <1>2, <2>1, <4>1, <4>2, <4>3
    <3>3. CASE ~(i <= Len(F)) /\ ~(j <= Len(F))
      <4>1. f + (i - Len(F)) = f + (j - Len(F))
        BY <1>7, <2>2, <3>3
      <4> QED
        BY <1>2, <2>1, <4>1
    <3> QED
      BY <2>5, <3>1, <3>2, <3>3
  <2> QED
    BY <2>4, <2>5
<1>8. ASSUME NEW s \in Strings, NEW i \in 1..Len(C[s]), NEW j \in 1..Len(A) PROVE C[s][i] # A[j]
  <2>1. C[s][i] <= f /\ C[s][i] \in Nat
    BY <1>1, ChainTypes DEF HandedOut, Blocks
  <2>2. j \in 1..(Len(F) + n) /\ j \in Nat
    BY <1>5
  <2>3. A[j] = IF j <= Len(F) THEN F[j] ELSE f + (j - Len(F))
    BY <1>6, <2>2
  <2>4. CASE j <= Len(F)
    <3>1. j \in 1..Len(F)
      BY <1>2, <2>2, <2>4
    <3> QED
      BY <1>1, <2>3, <2>4, <3>1 DEF NotFree
  <2>5. CASE ~(j <= Len(F))
    BY <1>2, <2>1, <2>2, <2>3, <2>5
  <2> QED
    BY <2>4, <2>5
<1>9. Once(A) /\ NotFree(C, A)
  BY <1>7, <1>8 DEF Once, NotFree
<1> QED
  BY <1>5, <1>6, <1>9 DEF n, A

\* A string takes the next k blocks.
LEMMA TakeApart ==
  ASSUME NEW C, NEW F, NEW f, Apart(C, F, f), NEW s \in Strings, NEW k \in 0..Len(Offer(F, f)),
         NEW got, got = SubSeq(Offer(F, f), 1, k),
         NEW D, D = [C EXCEPT ![s] = C[s] \o got],
         NEW G, G = SubSeq(F, k + 1, Len(F)),
         NEW g, g = IF k > Len(F) THEN f + k - Len(F) ELSE f
  PROVE  Apart(D, G, g)
<1> DEFINE A == Offer(F, f)
           l == Len(C[s])
<1>1. Owners(C, F, f) /\ OnceInChains(C) /\ Once(F) /\ NotFree(C, F) /\ HandedOut(C, F, f)
      /\ NoneLost(C, F, f)
  BY DEF Apart
<1>2. /\ Len(F) \in Nat /\ f \in Nat /\ BlockNum \in Nat /\ f <= BlockNum /\ F \in Seq(Blocks)
      /\ \A j \in 1..Len(F) : F[j] \in Blocks
      /\ \A t \in Strings : /\ C[t] \in Seq(Blocks) /\ Len(C[t]) \in Nat
                            /\ \A i \in 1..Len(C[t]) : C[t][i] \in Blocks
      /\ C \in [Strings -> Seq(Blocks)]
  BY <1>1, ChainTypes DEF Owners
<1>0. /\ \A j \in 1..Len(F) : F[j] \in Nat /\ F[j] <= f
      /\ \A t \in Strings : \A i \in 1..Len(C[t]) : C[t][i] \in Nat /\ C[t][i] <= f
  <2>1. \A j \in 1..Len(F) : F[j] <= f
    BY <1>1 DEF HandedOut
  <2>2. \A t \in Strings : \A i \in 1..Len(C[t]) : C[t][i] <= f
    BY <1>1 DEF HandedOut
  <2>3. \A b \in Blocks : b \in Nat
    BY DEF Blocks
  <2>4. \A j \in 1..Len(F) : F[j] \in Nat
    BY <1>2, <2>3
  <2>5. \A t \in Strings : \A i \in 1..Len(C[t]) : C[t][i] \in Nat
    BY <1>2, <2>3
  <2> QED
    BY <2>1, <2>2, <2>4, <2>5
<1>3. /\ A \in Seq(Blocks) /\ Len(A) = Len(F) + (BlockNum - f)
      /\ \A j \in 1..(Len(F) + (BlockNum - f)) : A[j] = IF j <= Len(F) THEN F[j] ELSE f + (j - Len(F))
      /\ Once(A) /\ NotFree(C, A)
  BY OfferIs
<1>4. k \in Nat /\ k \in 0..Len(A) /\ got = SubSeq(A, 1, k) /\ l \in Nat /\ k <= Len(A) /\ Len(A) \in Nat
  BY <1>2, <1>3
<1> HIDE DEF A
<1>5. got \in Seq(Blocks) /\ Len(got) = k /\ \A i \in 1..k : got[i] = A[i]
  BY <1>3, <1>4, Prefix, SMTT(30)
<1>6. /\ D[s] \in Seq(Blocks) /\ Len(D[s]) = l + k
      /\ \A i \in 1..(l + k) : D[s][i] = IF i <= l THEN C[s][i] ELSE A[i - l]
      /\ \A t \in Strings \ {s} : D[t] = C[t]
      /\ D \in [Strings -> Seq(Blocks)]
  <2> DEFINE c == C[s]
  <2>1. c \in Seq(Blocks) /\ l = Len(c)
    BY <1>2
  <2> HIDE DEF c, l
  <2>2. c \o got \in Seq(Blocks) /\ Len(c \o got) = Len(c) + Len(got)
        /\ \A i \in 1..(Len(c) + Len(got)) : (c \o got)[i] = IF i <= Len(c) THEN c[i] ELSE got[i - Len(c)]
    BY <1>5, <2>1, ConcatProperties
  <2>3. \A i \in 1..(l + k) : ~(i <= l) => i - l \in 1..k
    BY <1>4
  <2>4. D[s] = c \o got
    BY <1>2 DEF c
  <2>5. \A i \in 1..(l + k) : D[s][i] = IF i <= l THEN c[i] ELSE A[i - l]
    BY <1>5, <2>1, <2>2, <2>3, <2>4
  <2>6. D \in [Strings -> Seq(Blocks)] /\ \A t \in Strings \ {s} : D[t] = C[t]
    BY <1>2, <2>2 DEF c
  <2> QED
    BY <1>5, <2>1, <2>2, <2>4, <2>5, <2>6 DEF c
<1>7. /\ G \in Seq(Blocks) /\ Len(G) = IF k < Len(F) THEN Len(F) - k ELSE 0
      /\ \A j \in 1..Len(G) : G[j] = F[k + j] /\ k + j \in 1..Len(F)
  <2>1. \A i \in (k + 1)..Len(F) : F[i] \in Blocks
    BY <1>2, <1>4
  <2>2. k + 1 \in Int /\ Len(F) \in Int
    BY <1>2, <1>4
  <2> DEFINE a == k + 1
             e == Len(F)
  <2>3. a \in Int /\ e \in Int /\ \A i \in a..e : F[i] \in Blocks
    BY <2>1, <2>2
  <2> HIDE DEF a, e
  <2>4. /\ SubSeq(F, a, e) \in Seq(Blocks)
        /\ Len(SubSeq(F, a, e)) = IF a <= e THEN e - a + 1 ELSE 0
        /\ \A i \in 1..(e - a + 1) : SubSeq(F, a, e)[i] = F[a + i - 1]
    BY <2>3, SubSeqProperties
  <2>5. G = SubSeq(F, a, e)
    BY DEF a, e
  <2>6. /\ a <= e <=> k < Len(F)
        /\ e - a + 1 = Len(F) - k
        /\ \A j \in 1..(Len(F) - k) : a + j - 1 = k + j /\ k + j \in 1..Len(F)
    BY <1>2, <1>4 DEF a, e
  <2>7. Len(G) = IF k < Len(F) THEN Len(F) - k ELSE 0
    BY <2>4, <2>5, <2>6
  <2>8. ASSUME NEW j \in 1..Len(G) PROVE G[j] = F[k + j] /\ k + j \in 1..Len(F)
    <3>1. j \in 1..(Len(F) - k)
      BY <1>2, <1>4, <2>7
    <3> QED
      BY <2>4, <2>5, <2>6, <3>1
  <2> QED
    BY <2>4, <2>5, <2>7, <2>8
<1>8. g \in 0..BlockNum /\ f <= g
  BY <1>2, <1>3, <1>4, SMTT(30)
\* Every block of a chain was in that chain or is one of the first k on offer.
<1>9. ASSUME NEW t \in Strings, NEW i \in 1..Len(D[t])
      PROVE  \/ i \in 1..Len(C[t]) /\ D[t][i] = C[t][i]
             \/ t = s /\ i - l \in 1..k /\ i - l \in 1..Len(A) /\ D[t][i] = A[i - l]
  <2>1. CASE t # s
    BY <1>6, <2>1
  <2>2. CASE t = s
    <3>1. i \in 1..(l + k) /\ (i <= l => i \in 1..l) /\ (~(i <= l) => i - l \in 1..k /\ i - l \in 1..Len(A))
      <4>1. i \in 1..(l + k)
        BY <1>6, <2>2
      <4> HIDE DEF l
      <4> QED
        BY <1>4, <4>1
    <3> QED
      BY <1>6, <2>2, <3>1
  <2> QED
    BY <2>1, <2>2
<1>10. \A j \in 1..Len(G) : k + j \in 1..Len(A) /\ G[j] = A[k + j] /\ j > 0 /\ j \in Nat
  <2>1. ASSUME NEW j \in 1..Len(G) PROVE k + j \in 1..Len(A) /\ G[j] = A[k + j] /\ j > 0 /\ j \in Nat
    <3>1. k + j \in 1..Len(F) /\ G[j] = F[k + j]
      BY <1>7
    <3>2. k + j \in 1..(Len(F) + (BlockNum - f)) /\ k + j <= Len(F)
      BY <1>2, <1>4, <3>1
    <3> QED
      BY <1>3, <1>7, <3>1, <3>2
  <2> QED
    BY <2>1
<1> HIDE DEF l
<1>11. OnceInChains(D)
  <2>1. ASSUME NEW t \in Strings, NEW u \in Strings, NEW i \in 1..Len(D[t]), NEW j \in 1..Len(D[u]),
               D[t][i] = D[u][j]
        PROVE  t = u /\ i = j
    <3>1. /\ \/ i \in 1..Len(C[t]) /\ D[t][i] = C[t][i]
             \/ t = s /\ i - l \in 1..k /\ i - l \in 1..Len(A) /\ D[t][i] = A[i - l]
          /\ \/ j \in 1..Len(C[u]) /\ D[u][j] = C[u][j]
             \/ u = s /\ j - l \in 1..k /\ j - l \in 1..Len(A) /\ D[u][j] = A[j - l]
      BY <1>9
    <3>2. CASE i \in 1..Len(C[t]) /\ D[t][i] = C[t][i] /\ j \in 1..Len(C[u]) /\ D[u][j] = C[u][j]
      BY <1>1, <2>1, <3>2, SMTT(30) DEF OnceInChains
    <3>3. CASE i \in 1..Len(C[t]) /\ D[t][i] = C[t][i] /\ j - l \in 1..Len(A) /\ D[u][j] = A[j - l]
      BY <1>3, <2>1, <3>3 DEF NotFree
    <3>4. CASE i - l \in 1..Len(A) /\ D[t][i] = A[i - l] /\ j \in 1..Len(C[u]) /\ D[u][j] = C[u][j]
      BY <1>3, <2>1, <3>4 DEF NotFree
    <3>5. CASE t = s /\ u = s /\ i - l \in 1..Len(A) /\ D[t][i] = A[i - l]
               /\ j - l \in 1..Len(A) /\ D[u][j] = A[j - l]
      <4>1. i - l = j - l
        BY <1>3, <2>1, <3>5 DEF Once
      <4>2. i \in Nat /\ j \in Nat
        BY <2>1, <1>6, <1>4, <3>5
      <4> QED
        BY <1>4, <3>5, <4>1, <4>2
    <3> QED
      BY <3>1, <3>2, <3>3, <3>4, <3>5
  <2> QED
    BY <2>1 DEF OnceInChains
<1>12. Once(G)
  <2>1. ASSUME NEW i \in 1..Len(G), NEW j \in 1..Len(G), G[i] = G[j] PROVE i = j
    <3>1. k + i = k + j /\ i \in Nat /\ j \in Nat
      <4>1. k + i \in 1..Len(A) /\ k + j \in 1..Len(A) /\ A[k + i] = A[k + j] /\ i \in Nat /\ j \in Nat
        BY <1>10, <2>1
      <4> QED
        BY <1>3, <4>1 DEF Once
    <3> QED
      BY <1>4, <3>1
  <2> QED
    BY <2>1 DEF Once
<1>13. NotFree(D, G)
  <2>1. ASSUME NEW t \in Strings, NEW i \in 1..Len(D[t]), NEW j \in 1..Len(G) PROVE D[t][i] # G[j]
    <3>1. CASE i \in 1..Len(C[t]) /\ D[t][i] = C[t][i]
      BY <1>3, <1>10, <3>1, ZenonT(60) DEF NotFree
    <3>2. CASE t = s /\ i - l \in 1..k /\ i - l \in 1..Len(A) /\ D[t][i] = A[i - l]
      <4>1. i - l # k + j
        BY <1>4, <1>10, <3>2
      <4> QED
        BY <1>3, <1>10, <3>2, <4>1 DEF Once
    <3> QED
      BY <1>9, <3>1, <3>2
  <2> QED
    BY <2>1 DEF NotFree
<1>14. \A j \in 1..k : A[j] \in Nat /\ A[j] <= g
  <2>1. ASSUME NEW j \in 1..k PROVE A[j] \in Nat /\ A[j] <= g
    <3>1. j \in 1..(Len(F) + (BlockNum - f)) /\ (j <= Len(F) => j \in 1..Len(F))
      BY <1>2, <1>3, <1>4
    <3>2. j <= Len(F) => F[j] <= f /\ F[j] \in Nat
      BY <1>0, <3>1
    <3>3. A[j] = IF j <= Len(F) THEN F[j] ELSE f + (j - Len(F))
      BY <1>3, <3>1
    <3> QED
      BY <1>2, <1>4, <1>8, <3>1, <3>2, <3>3, SMTT(30)
  <2> QED
    BY <2>1
<1>15. HandedOut(D, G, g)
  <2>1. ASSUME NEW t \in Strings, NEW i \in 1..Len(D[t]) PROVE D[t][i] <= g
    <3>1. CASE i \in 1..Len(C[t]) /\ D[t][i] = C[t][i]
      <4>1. C[t][i] <= f /\ C[t][i] \in Nat
        BY <1>0, <3>1
      <4> QED
        BY <1>2, <1>8, <3>1, <4>1, SMTT(30)
    <3> QED
      BY <1>9, <1>14, <3>1
  <2>2. ASSUME NEW j \in 1..Len(G) PROVE G[j] <= g
    <3>1. G[j] <= f /\ G[j] \in Nat
      BY <1>0, <1>7
    <3> QED
      BY <1>2, <1>8, <3>1
  <2> QED
    BY <2>1, <2>2 DEF HandedOut
<1>16. NoneLost(D, G, g)
  <2> SUFFICES ASSUME NEW b \in 1..g
               PROVE  \/ \E t \in Strings : \E i \in 1..Len(D[t]) : D[t][i] = b
                      \/ \E j \in 1..Len(G) : G[j] = b
    BY DEF NoneLost
  <2>1. ASSUME NEW j \in 1..k, A[j] = b PROVE \E t \in Strings : \E i \in 1..Len(D[t]) : D[t][i] = b
    <3>1. l + j \in 1..Len(D[s]) /\ ~(l + j <= l) /\ (l + j) - l = j /\ l + j \in 1..(l + k)
      BY <1>4, <1>6
    <3>2. D[s][l + j] = b
      BY <1>6, <2>1, <3>1
    <3> QED
      BY <3>1, <3>2
  <2>2. CASE b <= f
    <3>1. b \in 1..f
      BY <1>2, <1>8, <2>2
    <3>2. CASE \E t \in Strings : \E i \in 1..Len(C[t]) : C[t][i] = b
      <4>1. PICK t \in Strings : \E i \in 1..Len(C[t]) : C[t][i] = b
        BY <3>2
      <4>2. PICK i \in 1..Len(C[t]) : C[t][i] = b
        BY <4>1
      <4>3. i \in 1..Len(D[t]) /\ D[t][i] = b
        <5>1. CASE t # s
          BY <1>6, <4>2, <5>1
        <5>2. CASE t = s
          <6>1. i \in 1..l /\ i \in 1..(l + k) /\ i <= l
            BY <1>4, <5>2 DEF l
          <6> QED
            BY <1>6, <4>2, <5>2, <6>1
        <5> QED
          BY <5>1, <5>2
      <4> QED
        BY <4>3
    <3>3. CASE \E j \in 1..Len(F) : F[j] = b
      <4>1. PICK j \in 1..Len(F) : F[j] = b
        BY <3>3
      <4>2. j \in 1..(Len(F) + (BlockNum - f)) /\ j <= Len(F) /\ j \in Nat
        BY <1>2
      <4>3. A[j] = b
        BY <1>3, <4>1, <4>2
      <4>4. CASE j <= k
        <5>1. j \in 1..k
          BY <1>4, <4>2, <4>4
        <5> QED
          BY <2>1, <4>3, <5>1
      <4>5. CASE ~(j <= k)
        <5>1. j - k \in 1..Len(G) /\ k + (j - k) = j
          BY <1>2, <1>4, <1>7, <4>2, <4>5
        <5>2. G[j - k] = b
          BY <1>7, <4>1, <5>1
        <5> QED
          BY <5>1, <5>2
      <4> QED
        BY <4>4, <4>5
    <3> QED
      BY <1>1, <3>1, <3>2, <3>3 DEF NoneLost
  <2>3. CASE ~(b <= f)
    <3> DEFINE j == Len(F) + (b - f)
    <3>1. j \in 1..k /\ j \in 1..(Len(F) + (BlockNum - f)) /\ ~(j <= Len(F)) /\ f + (j - Len(F)) = b
      BY <1>2, <1>4, <1>3, <2>3
    <3> HIDE DEF j
    <3>2. A[j] = b
      BY <1>3, <3>1
    <3> QED
      BY <2>1, <3>1, <3>2
  <2> QED
    BY <2>2, <2>3
<1>17. Owners(D, G, g)
  BY <1>6, <1>7, <1>8 DEF Owners
<1> QED
  BY <1>11, <1>12, <1>13, <1>15, <1>16, <1>17 DEF Apart

\* A block in two places of the chains: it is one place.
LEMMA SameBlock ==
  ASSUME NEW C, OnceInChains(C), NEW s \in Strings, NEW t \in Strings,
         NEW i \in 1..Len(C[s]), NEW j \in 1..Len(C[t]), C[s][i] = C[t][j]
  PROVE  s = t /\ i = j
BY DEF OnceInChains

\* A string gives its first m blocks back.
Gives(C, F, f, s, m, rest, D, G) ==
  /\ Apart(C, F, f) /\ s \in Strings /\ m \in 0..Len(C[s])
  /\ rest = SubSeq(C[s], m + 1, Len(C[s]))
  /\ D = [C EXCEPT ![s] = rest] /\ G = F \o SubSeq(C[s], 1, m)

\* When the first blocks of a chain go to the free queue, blocks stay apart.
LEMMA GiveApart ==
  ASSUME NEW C, NEW F, NEW f, NEW s, NEW m, NEW rest, NEW D, NEW G,
         Gives(C, F, f, s, m, rest, D, G)
  PROVE  /\ Apart(D, G, f) /\ rest \in Seq(Blocks) /\ Len(rest) = Len(C[s]) - m
         /\ \A i \in 1..(Len(C[s]) - m) : rest[i] = C[s][m + i]
<1> DEFINE c == C[s]
           l == Len(c)
           n == Len(F)
<1> USE DEF Gives
<1>1. Owners(C, F, f) /\ OnceInChains(C) /\ Once(F) /\ NotFree(C, F) /\ HandedOut(C, F, f)
      /\ NoneLost(C, F, f)
  BY DEF Apart
<1>2. /\ n \in Nat /\ f \in Nat /\ BlockNum \in Nat /\ f <= BlockNum /\ F \in Seq(Blocks)
      /\ \A t \in Strings : /\ C[t] \in Seq(Blocks) /\ Len(C[t]) \in Nat
                            /\ \A i \in 1..Len(C[t]) : C[t][i] \in Blocks
      /\ C \in [Strings -> Seq(Blocks)]
  BY <1>1, ChainTypes DEF Owners
<1>3. c \in Seq(Blocks) /\ l \in Nat /\ m \in 0..l /\ m \in Nat /\ m <= l /\ \A i \in 1..l : c[i] \in Blocks
  BY <1>2
<1> DEFINE back == SubSeq(c, 1, m)
<1>4. back \in Seq(Blocks) /\ Len(back) = m /\ \A i \in 1..m : back[i] = c[i]
  <2> HIDE DEF c
  <2> QED
    BY <1>3, Prefix
<1>5. rest \in Seq(Blocks) /\ Len(rest) = l - m
      /\ \A i \in 1..(l - m) : rest[i] = c[m + i] /\ m + i \in 1..l
  <2> DEFINE a == m + 1
  <2>1. a \in Int /\ l \in Int /\ \A i \in a..l : c[i] \in Blocks
    BY <1>3
  <2>2. rest = SubSeq(c, a, l)
    OBVIOUS
  <2> HIDE DEF a, c, l
  <2>3. /\ SubSeq(c, a, l) \in Seq(Blocks)
        /\ Len(SubSeq(c, a, l)) = IF a <= l THEN l - a + 1 ELSE 0
        /\ \A i \in 1..(l - a + 1) : SubSeq(c, a, l)[i] = c[a + i - 1]
    BY <2>1, SubSeqProperties, SMTT(30)
  <2>4. (IF a <= l THEN l - a + 1 ELSE 0) = l - m /\ l - a + 1 = l - m
        /\ \A i \in 1..(l - m) : a + i - 1 = m + i /\ m + i \in 1..l
    BY <1>3 DEF a
  <2> QED
    BY <2>2, <2>3, <2>4
<1>6. G \in Seq(Blocks) /\ Len(G) = n + m
      /\ \A j \in 1..(n + m) : G[j] = IF j <= n THEN F[j] ELSE c[j - n]
  <2>1. G = F \o back
    OBVIOUS
  <2> HIDE DEF back
  <2>2. F \o back \in Seq(Blocks) /\ Len(F \o back) = n + Len(back)
        /\ \A j \in 1..(n + Len(back)) : (F \o back)[j] = IF j <= n THEN F[j] ELSE back[j - n]
    BY <1>2, <1>4, ConcatProperties
  <2>3. \A j \in 1..(n + m) : ~(j <= n) => j - n \in 1..m
    BY <1>2, <1>3
  <2> QED
    BY <1>4, <2>1, <2>2, <2>3
<1>7. D \in [Strings -> Seq(Blocks)] /\ D[s] = rest /\ \A t \in Strings \ {s} : D[t] = C[t]
  BY <1>2, <1>5
<1> HIDE DEF back
\* Where a block of a chain, or a free one, was before.
<1>8. ASSUME NEW t \in Strings, NEW i \in 1..Len(D[t])
      PROVE  LET k == IF t = s THEN m + i ELSE i
             IN  k \in 1..Len(C[t]) /\ D[t][i] = C[t][k]
  <2>1. CASE t # s
    BY <1>7, <2>1
  <2>2. CASE t = s
    <3>1. i \in 1..(l - m)
      BY <1>5, <1>7, <2>2
    <3> QED
      BY <1>5, <1>7, <2>2, <3>1
  <2> QED
    BY <2>1, <2>2
<1>9. ASSUME NEW j \in 1..Len(G)
      PROVE  /\ j \in Nat
             /\ \/ j \in 1..n /\ G[j] = F[j]
                \/ j - n \in 1..m /\ j - n \in 1..l /\ G[j] = C[s][j - n]
  <2>1. j \in 1..(n + m) /\ (j <= n => j \in 1..n) /\ (~(j <= n) => j - n \in 1..m /\ j - n \in 1..l)
    BY <1>2, <1>3, <1>6
  <2> QED
    BY <1>6, <2>1
<1>10. OnceInChains(D)
  <2>1. ASSUME NEW t \in Strings, NEW u \in Strings, NEW i \in 1..Len(D[t]), NEW j \in 1..Len(D[u]),
               D[t][i] = D[u][j]
        PROVE  t = u /\ i = j
    <3> DEFINE k == IF t = s THEN m + i ELSE i
               h == IF u = s THEN m + j ELSE j
    <3>1. k \in 1..Len(C[t]) /\ D[t][i] = C[t][k] /\ h \in 1..Len(C[u]) /\ D[u][j] = C[u][h]
      BY <1>8
    <3>2. t = u /\ k = h
      <4> HIDE DEF k, h
      <4>1. k \in 1..Len(C[t]) /\ h \in 1..Len(C[u]) /\ C[t][k] = C[u][h]
        BY <2>1, <3>1
      <4>2. OnceInChains(C)
        BY <1>1
      <4> QED
        <5>1. \A a \in 1..Len(C[t]), b \in 1..Len(C[u]) : C[t][a] = C[u][b] => t = u /\ a = b
          BY <4>2 DEF OnceInChains
        <5> QED
          BY <4>1, <5>1
    <3>3. i \in Int /\ j \in Int
      OBVIOUS
    <3> QED
      BY <1>3, <3>2, <3>3
  <2> QED
    BY <2>1 DEF OnceInChains
<1>11. Once(G)
  <2>1. ASSUME NEW i \in 1..Len(G), NEW j \in 1..Len(G), G[i] = G[j] PROVE i = j
    <3>1. CASE i \in 1..n /\ G[i] = F[i] /\ j \in 1..n /\ G[j] = F[j]
      BY <1>1, <2>1, <3>1 DEF Once
    <3>2. CASE i \in 1..n /\ G[i] = F[i] /\ j - n \in 1..l /\ G[j] = C[s][j - n]
      BY <1>1, <2>1, <3>2 DEF NotFree
    <3>3. CASE i - n \in 1..l /\ G[i] = C[s][i - n] /\ j \in 1..n /\ G[j] = F[j]
      BY <1>1, <2>1, <3>3 DEF NotFree
    <3>4. CASE i - n \in 1..l /\ G[i] = C[s][i - n] /\ j - n \in 1..l /\ G[j] = C[s][j - n]
      <4> DEFINE k == i - n
                 h == j - n
      <4>0. k \in 1..Len(C[s]) /\ h \in 1..Len(C[s]) /\ C[s][k] = C[s][h]
        BY <2>1, <3>4
      <4>1. k = h
        <5> HIDE DEF k, h
        <5> QED
          BY <1>1, <4>0, SameBlock
      <4> QED
        BY <1>2, <1>9, <4>1
    <3> QED
      BY <1>9, <3>1, <3>2, <3>3, <3>4
  <2> QED
    BY <2>1 DEF Once
<1>12. NotFree(D, G)
  <2>1. ASSUME NEW t \in Strings, NEW i \in 1..Len(D[t]), NEW j \in 1..Len(G), D[t][i] = G[j] PROVE FALSE
    <3> DEFINE k == IF t = s THEN m + i ELSE i
    <3>1. k \in 1..Len(C[t]) /\ D[t][i] = C[t][k]
      BY <1>8
    <3>2. CASE j \in 1..n /\ G[j] = F[j]
      BY <1>1, <2>1, <3>1, <3>2 DEF NotFree
    <3>3. CASE j - n \in 1..m /\ j - n \in 1..l /\ G[j] = C[s][j - n]
      <4>1. t = s /\ k = j - n
        <5> DEFINE h == j - n
        <5>1. h \in 1..Len(C[s]) /\ C[t][k] = C[s][h]
          BY <2>1, <3>1, <3>3
        <5> HIDE DEF k, h
        <5>2. t = s /\ k = h
          BY <1>1, <3>1, <5>1, SameBlock
        <5> QED
          BY <5>2 DEF h
      <4> QED
        BY <1>3, <3>3, <4>1
    <3> QED
      BY <1>9, <3>2, <3>3
  <2> QED
    BY <2>1 DEF NotFree
<1>13. HandedOut(D, G, f)
  <2>1. ASSUME NEW t \in Strings, NEW i \in 1..Len(D[t]) PROVE D[t][i] <= f
    <3> DEFINE k == IF t = s THEN m + i ELSE i
    <3>1. k \in 1..Len(C[t]) /\ D[t][i] = C[t][k]
      BY <1>8
    <3> HIDE DEF k
    <3> QED
      BY <1>1, <3>1 DEF HandedOut
  <2>2. ASSUME NEW j \in 1..Len(G) PROVE G[j] <= f
    BY <1>1, <1>9 DEF HandedOut
  <2> QED
    BY <2>1, <2>2 DEF HandedOut
<1>14. NoneLost(D, G, f)
  <2> SUFFICES ASSUME NEW b \in 1..f
               PROVE  \/ \E t \in Strings : \E i \in 1..Len(D[t]) : D[t][i] = b
                      \/ \E j \in 1..Len(G) : G[j] = b
    BY DEF NoneLost
  <2>1. CASE \E t \in Strings : \E i \in 1..Len(C[t]) : C[t][i] = b
    <3>1. PICK t \in Strings : \E i \in 1..Len(C[t]) : C[t][i] = b
      BY <2>1
    <3>2. PICK i \in 1..Len(C[t]) : C[t][i] = b
      BY <3>1
    <3>3. CASE t # s
      BY <1>7, <3>2, <3>3
    <3>4. CASE t = s /\ i <= m
      <4>1. n + i \in 1..(n + m) /\ ~(n + i <= n) /\ (n + i) - n = i
        BY <1>2, <1>3, <3>4
      <4>2. n + i \in 1..Len(G) /\ G[n + i] = b
        BY <1>6, <3>2, <3>4, <4>1
      <4> QED
        BY <4>2
    <3>5. CASE t = s /\ ~(i <= m)
      <4>1. i - m \in 1..(l - m) /\ m + (i - m) = i
        <5>1. i \in 1..l /\ ~(i <= m) /\ m \in Nat /\ l \in Nat
          BY <1>3, <3>5
        <5> HIDE DEF l
        <5> QED
          BY <5>1
      <4>2. i - m \in 1..Len(D[s]) /\ D[s][i - m] = b
        BY <1>5, <1>7, <3>2, <3>5, <4>1
      <4> QED
        BY <4>2
    <3> QED
      BY <3>3, <3>4, <3>5
  <2>2. CASE \E j \in 1..Len(F) : F[j] = b
    <3>1. PICK j \in 1..Len(F) : F[j] = b
      BY <2>2
    <3>2. j \in 1..(n + m) /\ j <= n
      BY <1>2, <1>3
    <3> QED
      BY <1>6, <3>1, <3>2
  <2> QED
    BY <1>1, <2>1, <2>2 DEF NoneLost
<1>15. Owners(D, G, f)
  BY <1>1, <1>6, <1>7 DEF Owners
<1>16. Apart(D, G, f)
  BY <1>10, <1>11, <1>12, <1>13, <1>14, <1>15 DEF Apart
<1> QED
  BY <1>5, <1>16

\* 1..n is finite and has n members.
LEMMA UpTo ==
  ASSUME NEW n \in Nat
  PROVE  IsFiniteSet(1..n) /\ Cardinality(1..n) = n
<1>1. 1 \in Int /\ n \in Int
  OBVIOUS
<1>2. IsFiniteSet(1..n) /\ Cardinality(1..n) = IF 1 > n THEN 0 ELSE n - 1 + 1
  BY <1>1, FS_Interval
<1> QED
  BY <1>2

\* The blocks of the chains and the free ones are counted once each.
LEMMA Accounted ==
  ASSUME NEW C, NEW F, NEW f, Apart(C, F, f),
         NEW owned, owned = {p \in Strings \X (1..BlockNum) : p[2] <= Len(C[p[1]])}
  PROVE  /\ {C[p[1]][p[2]] : p \in owned} \cup ToSet(F) = 1..f
         /\ Cardinality(owned) + Len(F) = f
<1> DEFINE At(p) == C[p[1]][p[2]]
           Z == {b \in 1..f : \E p \in owned : At(p) = b}
           Y == {b \in 1..f : \E j \in 1..Len(F) : F[j] = b}
<1>1. Owners(C, F, f) /\ OnceInChains(C) /\ Once(F) /\ NotFree(C, F) /\ HandedOut(C, F, f)
      /\ NoneLost(C, F, f)
  BY DEF Apart
<1>2. /\ Len(F) \in Nat /\ f \in Nat /\ BlockNum \in Nat /\ f <= BlockNum /\ F \in Seq(Blocks)
      /\ \A j \in 1..Len(F) : F[j] \in Blocks
      /\ \A t \in Strings : /\ C[t] \in Seq(Blocks) /\ Len(C[t]) \in Nat
                            /\ \A i \in 1..Len(C[t]) : C[t][i] \in Blocks
  BY <1>1, ChainTypes DEF Owners
<1>3. ASSUME NEW s \in Strings PROVE Len(C[s]) <= BlockNum
  <2> DEFINE c == C[s]
             l == Len(c)
             I == 1..l
  <2>1. l \in Nat /\ c \in Seq(Blocks)
    BY <1>2
  <2>2. \A i, j \in 1..l : c[i] = c[j] => i = j
    BY <1>1 DEF OnceInChains
  <2>3. c \in [I -> Blocks]
    <3> HIDE DEF c
    <3> QED
      BY <2>1, LenProperties
  <2> HIDE DEF c
  <2>4. c \in Injection(I, Blocks)
    BY <2>2, <2>3 DEF Injection, IsInjective
  <2>5. IsFiniteSet(Blocks) /\ Cardinality(Blocks) = BlockNum
    BY <1>2, UpTo DEF Blocks
  <2>6. Cardinality(1..l) = l
    BY <2>1, UpTo
  <2> HIDE DEF I
  <2>7. Cardinality(I) <= Cardinality(Blocks)
    BY <2>4, <2>5, FS_Injection
  <2> QED
    BY <2>5, <2>6, <2>7 DEF I, c
<1>4. \A p \in owned : /\ p[1] \in Strings /\ p[2] \in 1..Len(C[p[1]]) /\ p = <<p[1], p[2]>>
                       /\ At(p) \in 1..f
  <2>1. ASSUME NEW p \in owned
        PROVE  /\ p[1] \in Strings /\ p[2] \in 1..Len(C[p[1]]) /\ p = <<p[1], p[2]>>
               /\ At(p) \in 1..f
    <3>1. p \in Strings \X (1..BlockNum) /\ p[2] <= Len(C[p[1]])
      OBVIOUS
    <3>2. p[1] \in Strings /\ p[2] \in 1..BlockNum /\ p = <<p[1], p[2]>>
      BY <3>1
    <3>3. p[2] \in 1..Len(C[p[1]])
      BY <1>2, <3>1, <3>2
    <3>4. At(p) <= f /\ At(p) \in Blocks
      BY <1>1, <1>2, <3>2, <3>3 DEF HandedOut
    <3> QED
      BY <1>2, <3>2, <3>3, <3>4 DEF Blocks
  <2> QED
    BY <2>1
<1>5. ASSUME NEW s \in Strings, NEW i \in 1..Len(C[s]) PROVE <<s, i>> \in owned /\ At(<<s, i>>) = C[s][i]
  <2>1. i \in 1..BlockNum /\ i <= Len(C[s])
    BY <1>2, <1>3
  <2> QED
    BY <2>1
<1>6. \A p, q \in owned : At(p) = At(q) => p = q
  <2>1. ASSUME NEW p \in owned, NEW q \in owned, At(p) = At(q) PROVE p = q
    <3>1. p[1] = q[1] /\ p[2] = q[2]
      BY <1>1, <1>4, <2>1 DEF OnceInChains
    <3> QED
      BY <1>4, <3>1
  <2> QED
    BY <2>1
<1>7. ASSUME NEW b \in 1..f PROVE b \in Z \/ b \in Y
  <2>1. CASE \E s \in Strings : \E i \in 1..Len(C[s]) : C[s][i] = b
    <3>1. PICK s \in Strings : \E i \in 1..Len(C[s]) : C[s][i] = b
      BY <2>1
    <3>2. PICK i \in 1..Len(C[s]) : C[s][i] = b
      BY <3>1
    <3>3. <<s, i>> \in owned /\ At(<<s, i>>) = b
      BY <1>5, <3>2
    <3> HIDE DEF At
    <3> QED
      BY <3>3
  <2>2. CASE \E j \in 1..Len(F) : F[j] = b
    BY <2>2
  <2> QED
    BY <1>1, <2>1, <2>2 DEF NoneLost
<1>8. Z \cap Y = {}
  <2>1. ASSUME NEW p \in owned, NEW j \in 1..Len(F), At(p) = F[j] PROVE FALSE
    BY <1>1, <1>4, <2>1 DEF NotFree
  <2> HIDE DEF At
  <2> QED
    BY <2>1
<1> HIDE DEF At
<1>9. {At(p) : p \in owned} = Z
  <2>1. ASSUME NEW b PROVE b \in {At(p) : p \in owned} <=> b \in Z
    BY <1>4
  <2> QED
    BY <2>1
<1>10. ToSet(F) = Y
  <2>1. DOMAIN F = 1..Len(F)
    BY <1>2, LenProperties
  <2>2. \A j \in 1..Len(F) : F[j] \in 1..f
    BY <1>1, <1>2 DEF HandedOut, Blocks
  <2>3. ASSUME NEW b PROVE b \in ToSet(F) <=> b \in Y
    BY <2>1, <2>2 DEF ToSet
  <2> QED
    BY <2>3
<1>11. IsFiniteSet(1..f) /\ Cardinality(1..f) = f
  BY <1>2, UpTo
<1>12. Z \cup Y = 1..f
  <2>1. Z \subseteq 1..f /\ Y \subseteq 1..f
    OBVIOUS
  <2> HIDE DEF Z, Y
  <2> QED
    BY <1>7, <2>1
<1>13. IsFiniteSet(Z) /\ IsFiniteSet(Y)
  <2>1. Z \in SUBSET (1..f) /\ Y \in SUBSET (1..f)
    OBVIOUS
  <2> HIDE DEF Z, Y
  <2> QED
    BY <1>11, <2>1, FS_Subset
<1>14. Cardinality(Z) = Cardinality(owned)
  <2> DEFINE g == [b \in Z |-> CHOOSE p \in owned : At(p) = b]
  <2>1. \A b \in Z : g[b] \in owned /\ At(g[b]) = b
    OBVIOUS
  <2>2. g \in [Z -> owned]
    BY <2>1
  <2>3. \A p \in owned : At(p) \in Z
    BY <1>4
  <2> HIDE DEF g, Z
  <2>4. \A p \in owned : g[At(p)] = p
    BY <1>6, <2>1, <2>3
  <2>5. g \in Bijection(Z, owned)
    BY <2>1, <2>2, <2>3, <2>4 DEF Bijection, Injection, Surjection, IsInjective
  <2>6. ExistsBijection(Z, owned)
    BY <2>5 DEF ExistsBijection
  <2> QED
    BY <1>13, <2>6, FS_Bijection
<1>15. Cardinality(Y) = Len(F)
  <2> DEFINE I == 1..Len(F)
  <2>1. IsFiniteSet(I) /\ Cardinality(I) = Len(F)
    BY <1>2, UpTo
  <2>2. \A j \in I : F[j] \in Y
    BY <1>1, <1>2 DEF HandedOut, Blocks
  <2>3. F \in [I -> Blocks]
    BY <1>2, LenProperties
  <2>4. \A b \in Y : \E j \in I : F[j] = b
    OBVIOUS
  <2>5. \A i, j \in I : F[i] = F[j] => i = j
    BY <1>1 DEF Once
  <2> HIDE DEF I, Y
  <2>6. F \in [I -> Y]
    BY <2>2, <2>3
  <2>7. F \in Bijection(I, Y)
    BY <2>4, <2>5, <2>6 DEF Bijection, Injection, Surjection, IsInjective
  <2>8. ExistsBijection(I, Y)
    BY <2>7 DEF ExistsBijection
  <2> QED
    BY <2>1, <2>8, FS_Bijection
<1> HIDE DEF Z, Y
<1>16. Cardinality(Z \cup Y) = Cardinality(Z) + Cardinality(Y) - Cardinality(Z \cap Y)
  BY <1>13, FS_Union
<1>17. Cardinality(Z \cap Y) = 0
  BY <1>8, FS_EmptySet
<1>18. Cardinality(Z) \in Nat /\ Cardinality(Y) \in Nat
  BY <1>13, FS_CardinalityType
<1>19. Cardinality(owned) + Len(F) = f
  <2>1. Cardinality(Z \cup Y) = f
    BY <1>11, <1>12
  <2>2. f = Cardinality(Z) + Cardinality(Y)
    BY <1>16, <1>17, <1>18, <2>1
  <2> QED
    BY <1>14, <1>15, <2>2
<1>20. {At(p) : p \in owned} \cup ToSet(F) = 1..f
  BY <1>9, <1>10, <1>12
<1> QED
  BY <1>19, <1>20 DEF At

-----------------------------------------------------------------------------
(* append: how the bytes are cut into pieces.                              *)

\* The smaller of two numbers.
LEMMA MinIs ==
  ASSUME NEW a \in Int, NEW b \in Int
  PROVE  Min({a, b}) = IF a <= b THEN a ELSE b
<1> DEFINE m == IF a <= b THEN a ELSE b
<1>1. m \in {a, b} /\ \A y \in {a, b} : m =< y
  OBVIOUS
<1>2. \A x \in {a, b} : (\A y \in {a, b} : x =< y) => x = m
  OBVIOUS
<1> HIDE DEF m
<1>3. Min({a, b}) = m
  BY <1>1, <1>2 DEF Min
<1> QED
  BY <1>3 DEF m

\* Need is 0 or covers n: all blocks but the last are full, the last is not.
LEMMA NeedIs ==
  ASSUME NEW space \in Nat, NEW n \in Nat
  PROVE  /\ Need(space, n) \in Nat
         /\ n < space <=> Need(space, n) = 0
         /\ n >= space => /\ space + (Need(space, n) - 1) * Capacity <= n
                          /\ n < space + Need(space, n) * Capacity
<1>1. Capacity \in Nat \ {0}
  BY PoolAssumption
<1>2. CASE n < space
  BY <1>2 DEF Need
<1>3. CASE n >= space
  <2> DEFINE a == n - space
             q == a \div Capacity
  <2>1. a \in Nat
    BY <1>3
  <2> HIDE DEF a
  <2>2. q \in Nat /\ q * Capacity <= a /\ a < (q + 1) * Capacity
    BY <1>1, <2>1
  <2>3. Need(space, n) = q + 1
    BY <1>3 DEF Need, a
  <2> HIDE DEF q
  <2>4. (q + 1) - 1 = q /\ q + 1 \in Nat /\ q + 1 # 0
    BY <2>2
  <2>5. space + q * Capacity <= n /\ n < space + (q + 1) * Capacity
    BY <1>1, <2>2 DEF a
  <2> QED
    BY <1>3, <2>3, <2>4, <2>5
<1> QED
  BY <1>2, <1>3

\* Bytes from + 1 to from + size of the n bytes d, as far as there are any.
Piece(d, n, from, size) == SubSeq(d, from + 1, Min({from + size, n}))
Part(d, n, space, i) == Piece(d, n, space + (i - 1) * Capacity, Capacity)

\* p is what d has behind its first bytes, up to another place.
Continues(d, from, p, to) ==
  /\ p \in Seq(Nat) /\ Len(p) = to - from
  /\ SubSeq(d, 1, from) \o p = SubSeq(d, 1, to)

\* A piece is the part of d between two places.
LEMMA PieceIs ==
  ASSUME NEW n \in Nat, NEW d \in Seq(Nat), Len(d) = n, NEW from \in 0..n, NEW size \in Nat,
         NEW p, p = Piece(d, n, from, size),
         NEW to, to = IF from + size <= n THEN from + size ELSE n
  PROVE  Continues(d, from, p, to)
<1>1. from \in Nat /\ from <= n /\ from + size \in Int /\ to \in from..n /\ to \in 0..n /\ to \in Nat
  OBVIOUS
<1>2. Min({from + size, n}) = to
  BY <1>1, MinIs
<1> DEFINE a == from + 1
<1>3. p = SubSeq(d, a, to)
  BY <1>2 DEF Piece
<1>4. \A i \in a..to : d[i] \in Nat
  <2>1. d \in [1..n -> Nat]
    BY LenProperties
  <2> QED
    BY <1>1, <2>1
<1>5. a \in Int /\ to \in Int
  BY <1>1
<1>6. /\ SubSeq(d, a, to) \in Seq(Nat)
      /\ Len(SubSeq(d, a, to)) = IF a <= to THEN to - a + 1 ELSE 0
      /\ \A i \in 1..(to - a + 1) : SubSeq(d, a, to)[i] = d[a + i - 1]
  <2> HIDE DEF a
  <2> QED
    BY <1>4, <1>5, SubSeqProperties
<1>7. (IF a <= to THEN to - a + 1 ELSE 0) = to - from /\ to - a + 1 = to - from
      /\ \A i \in 1..(to - from) : a + i - 1 = from + i
  BY <1>1
<1>8. p \in Seq(Nat) /\ Len(p) = to - from /\ \A i \in 1..(to - from) : p[i] = d[from + i]
  <2> HIDE DEF a
  <2> QED
    BY <1>3, <1>6, <1>7, ZenonT(60)
<1> DEFINE u == SubSeq(d, 1, from)
           v == SubSeq(d, 1, to)
<1>9. u \in Seq(Nat) /\ Len(u) = from /\ \A i \in 1..from : u[i] = d[i]
  BY <1>1, Prefix
<1>10. v \in Seq(Nat) /\ Len(v) = to /\ \A i \in 1..to : v[i] = d[i]
  BY <1>1, Prefix
<1> HIDE DEF u, v
<1>11. u \o p \in Seq(Nat) /\ Len(u \o p) = Len(u) + Len(p)
       /\ \A i \in 1..(Len(u) + Len(p)) : (u \o p)[i] = IF i <= Len(u) THEN u[i] ELSE p[i - Len(u)]
  <2>1. u \in Seq(Nat) /\ p \in Seq(Nat)
    BY <1>8, <1>9
  <2> QED
    BY <2>1, ConcatProperties
<1>12. ASSUME NEW i \in 1..to PROVE (u \o p)[i] = v[i]
  <2>1. i \in 1..(Len(u) + Len(p)) /\ (i <= from => i \in 1..from)
        /\ (~(i <= from) => i - from \in 1..(to - from) /\ from + (i - from) = i)
    BY <1>1, <1>8, <1>9
  <2>2. CASE i <= from
    BY <1>9, <1>10, <1>11, <2>1, <2>2
  <2>3. CASE ~(i <= from)
    <3>1. (u \o p)[i] = p[i - from]
      BY <1>9, <1>11, <2>1, <2>3
    <3> QED
      BY <1>8, <1>10, <2>1, <2>3, <3>1
  <2> QED
    BY <2>2, <2>3
<1>13. Len(u \o p) = to
  BY <1>1, <1>8, <1>9, <1>11
<1>14. u \o p = v
  BY <1>10, <1>11, <1>12, <1>13, SeqEqual
<1> QED
  BY <1>1, <1>8, <1>14 DEF Continues, u, v

\* The piece that goes to one new block.
LEMMA PieceOfCapacity ==
  ASSUME NEW n \in Nat, NEW d \in Seq(Nat), Len(d) = n, NEW from \in 0..n,
         NEW p, p = Piece(d, n, from, Capacity),
         NEW to, to = IF from + Capacity <= n THEN from + Capacity ELSE n
  PROVE  Continues(d, from, p, to)
<1>1. Capacity \in Nat
  BY PoolAssumption
<1> QED
  BY <1>1, PieceIs

\* Where the parts begin.
LEMMA PartIs ==
  ASSUME NEW n \in Nat, NEW d \in Seq(Nat), Len(d) = n, NEW space \in Nat,
         NEW i \in 1..Need(space, n), NEW from, from = space + (i - 1) * Capacity,
         NEW to, to = IF from + Capacity <= n THEN from + Capacity ELSE n
  PROVE  /\ from \in 0..n /\ to \in 0..n /\ to - from \in Nat /\ to - from <= Capacity
         /\ Part(d, n, space, i) \in Seq(Nat) /\ Len(Part(d, n, space, i)) = to - from
         /\ Continues(d, from, Part(d, n, space, i), to)
         /\ i = Need(space, n) => to = n /\ to - from < Capacity
         /\ i # Need(space, n) => to = space + i * Capacity
<1> DEFINE need == Need(space, n)
<1>1. Capacity \in Nat /\ Capacity > 0
  BY PoolAssumption
<1>2. need \in Nat /\ n >= space /\ space + (need - 1) * Capacity <= n /\ n < space + need * Capacity
  <2>1. /\ need \in Nat
        /\ n < space <=> need = 0
        /\ n >= space => space + (need - 1) * Capacity <= n /\ n < space + need * Capacity
    BY NeedIs
  <2>2. need # 0
    <3> HIDE DEF need
    <3> QED
      BY <2>1 DEF need
  <2> QED
    BY <2>1, <2>2
<1> HIDE DEF need
<1>3. i \in Nat /\ 1 <= i /\ i <= need
  BY <1>2 DEF need
<1>4. (i - 1) * Capacity \in Nat /\ (i - 1) * Capacity <= (need - 1) * Capacity
      /\ (i - 1) * Capacity + Capacity = i * Capacity
  <2>1. i - 1 \in Nat /\ need - 1 \in Nat /\ need - i \in Nat
    BY <1>2, <1>3
  <2>2. (i - 1) * Capacity \in Nat /\ (need - 1) * Capacity \in Nat /\ (need - i) * Capacity \in Nat
    BY <1>1, <2>1
  <2>3. (need - 1) * Capacity = (i - 1) * Capacity + (need - i) * Capacity
    BY <1>1, <1>2, <1>3
  <2>4. (i - 1) * Capacity + Capacity = i * Capacity
    BY <1>1, <1>3
  <2> QED
    BY <2>2, <2>3, <2>4
<1>5. i # need => i * Capacity <= (need - 1) * Capacity
  <2>1. SUFFICES ASSUME i # need PROVE i * Capacity <= (need - 1) * Capacity
    OBVIOUS
  <2>2. need - 1 - i \in Nat
    BY <1>2, <1>3, <2>1
  <2>3. (need - 1 - i) * Capacity \in Nat /\ (need - 1) * Capacity = i * Capacity + (need - 1 - i) * Capacity
    BY <1>1, <1>2, <1>3, <2>2
  <2>4. i * Capacity \in Nat
    BY <1>1, <1>3
  <2> QED
    BY <2>3, <2>4
<1>6. from \in 0..n
  <2> DEFINE x == (i - 1) * Capacity
             z == (need - 1) * Capacity
  <2>1. x \in Nat /\ x <= z /\ space + z <= n /\ from = space + x /\ z \in Int
    BY <1>1, <1>2, <1>4
  <2> HIDE DEF x, z
  <2> QED
    BY <2>1
<1>7. /\ Part(d, n, space, i) \in Seq(Nat) /\ Len(Part(d, n, space, i)) = to - from
      /\ Continues(d, from, Part(d, n, space, i), to) /\ to \in 0..n
  <2> DEFINE p == Part(d, n, space, i)
  <2>1. p = Piece(d, n, from, Capacity)
    BY DEF Part
  <2> HIDE DEF p
  <2>2. Continues(d, from, p, to)
    <3>1. Capacity \in Nat /\ from \in 0..n /\ to = IF from + Capacity <= n THEN from + Capacity ELSE n
      BY <1>1, <1>6
    <3> QED
      BY <2>1, <3>1, PieceOfCapacity
  <2>3. to \in 0..n
    BY <1>1, <1>6
  <2>4. p \in Seq(Nat) /\ Len(p) = to - from
    BY <2>2 DEF Continues
  <2> QED
    BY <2>2, <2>3, <2>4 DEF p
<1>8. to - from \in Nat /\ to - from <= Capacity
  BY <1>1, <1>6
<1> DEFINE x == (i - 1) * Capacity
           y == i * Capacity
<1>9. from = space + x /\ x + Capacity = y /\ x \in Nat
  BY <1>4
<1>10. i = need => n < space + y
  BY <1>2
<1>11. i # need => space + y <= n
  <2> DEFINE z == (need - 1) * Capacity
  <2>1. z \in Int /\ y \in Int /\ space + z <= n /\ (i # need => y <= z)
    BY <1>1, <1>2, <1>3, <1>5
  <2> HIDE DEF y, z
  <2> QED
    BY <2>1
<1> HIDE DEF x, y
<1>12. i = need => to = n /\ to - from < Capacity
  BY <1>1, <1>9, <1>10
<1>13. i # need => to = space + y
  <2>1. SUFFICES ASSUME i # need PROVE to = space + y
    OBVIOUS
  <2>2. from + Capacity = space + y
    BY <1>1, <1>9
  <2> QED
    BY <1>11, <2>1, <2>2
<1> QED
  BY <1>6, <1>7, <1>8, <1>12, <1>13 DEF need, y

\* The rest of the last block and the parts are all the bytes, in order.
LEMMA PartsJoin ==
  ASSUME NEW n \in Nat, NEW d \in Seq(Nat), Len(d) = n, NEW space \in Nat, n >= space,
         NEW Q, Q = Seq(Nat), NEW u \in Seq(Q), Len(u) = Need(space, n),
         \A i \in 1..Need(space, n) : u[i] = Part(d, n, space, i)
  PROVE  SubSeq(d, 1, space) \o FlattenSeq(u) = d
<1> DEFINE need == Need(space, n)
           pre == SubSeq(d, 1, space)
           E(k) == IF k = need THEN n ELSE space + k * Capacity
           W(k) == SubSeq(u, 1, k)
           T == {k \in 0..need : pre \o FlattenSeq(W(k)) # SubSeq(d, 1, E(k))}
<1>1. need \in Nat /\ need # 0 /\ Capacity \in Nat
  BY NeedIs, PoolAssumption
<1>2. pre \in Seq(Nat)
  BY Prefix
<1>3. ASSUME T # {} PROVE FALSE
  <2>1. PICK k \in T : \A m \in T : k <= m
    <3>1. T \in SUBSET Nat
      BY <1>1
    <3> HIDE DEF T
    <3> QED
      BY <1>3, <3>1, LeastNumber
  <2>2. k \in 0..need /\ k \in Nat /\ pre \o FlattenSeq(W(k)) # SubSeq(d, 1, E(k))
    BY <1>1
  <2>3. k # 0
    <3>1. SUFFICES ASSUME k = 0 PROVE FALSE
      OBVIOUS
    <3>2. W(k) = << >>
      BY <2>2, <3>1, Prefix
    <3>3. pre \o << >> = pre
      BY <1>2, ConcatEmptySeq
    <3>4. k * Capacity = 0
      BY <1>1, <3>1
    <3>5. E(k) = space
      BY <1>1, <3>1, <3>4
    <3> HIDE DEF E, W
    <3>6. pre \o FlattenSeq(W(k)) = pre
      BY <3>2, <3>3, FlattenEmpty
    <3> QED
      BY <2>2, <3>5, <3>6
  <2> DEFINE j == k - 1
             w == W(j)
             p == Part(d, n, space, k)
             from == space + j * Capacity
             to == IF from + Capacity <= n THEN from + Capacity ELSE n
  <2>4. j \in 0..need /\ j # need /\ k \in 1..need /\ j \in Nat
    BY <1>1, <2>2, <2>3
  <2>5. W(k) = Append(w, p) /\ p \in Q /\ w \in Seq(Q)
    <3>1. k \in 0..Len(u) /\ u[k] = p
      BY <2>4, <2>2
    <3>2. W(k) = Append(w, u[k]) /\ u[k] \in Q
      BY <2>3, <3>1, Prefix
    <3>3. w \in Seq(Q)
      <4> HIDE DEF j
      <4> QED
        BY <2>4, Prefix
    <3> QED
      BY <3>1, <3>2, <3>3
  <2>6. j \notin T
    <3>1. ~(k <= j)
      BY <2>2
    <3> HIDE DEF j, T
    <3> QED
      BY <2>1, <3>1
  <2>7. E(j) = from /\ pre \o FlattenSeq(w) = SubSeq(d, 1, from)
    BY <2>4, <2>6
  <2>8. SubSeq(d, 1, from) \o p = SubSeq(d, 1, to) /\ E(k) = to
    <3> HIDE DEF to, from, p
    <3>1. k \in 1..Need(space, n) /\ p = Part(d, n, space, k)
          /\ from = space + (k - 1) * Capacity /\ to = IF from + Capacity <= n THEN from + Capacity ELSE n
      BY <2>4 DEF from, to, p
    <3>2. /\ Continues(d, from, p, to)
          /\ k = need => to = n
          /\ k # need => to = space + k * Capacity
      BY <3>1, PartIs
    <3> QED
      BY <3>2 DEF Continues
  <2> HIDE DEF w, p, from, to, W, E, pre, T
  <2>9. FlattenSeq(W(k)) = FlattenSeq(w) \o p
    BY <2>5, FlattenAppend
  <2>10. FlattenSeq(w) \in Seq(Nat) /\ p \in Seq(Nat)
    BY <2>5, FlattenType
  <2>11. (pre \o FlattenSeq(w)) \o p = pre \o (FlattenSeq(w) \o p)
    <3> DEFINE x == FlattenSeq(w)
    <3>1. x \in Seq(Nat)
      BY <2>10
    <3> HIDE DEF x
    <3>2. SameJoin(pre, x, p)
      BY <1>2, <2>10, <3>1, Assoc
    <3> QED
      BY <3>2 DEF SameJoin, x
  <2> QED
    BY <2>2, <2>7, <2>8, <2>9, <2>11
<1>4. need \in 0..need /\ need \notin T
  BY <1>1, <1>3
<1>5. pre \o FlattenSeq(W(need)) = SubSeq(d, 1, n)
  BY <1>4
<1>6. W(need) = u
  BY <1>4, Prefix
<1>7. SubSeq(d, 1, n) = d
  BY SubSeqFull
<1> QED
  BY <1>5, <1>6, <1>7

-----------------------------------------------------------------------------
(* append: what it does to the memory.                                     *)

Filled(r, at, p) == [r EXCEPT !.mem = SubSeq(@, 1, at) \o p, !.used = @ + Len(p)]
NewBlock(p) == [mem |-> p, offset |-> 0, used |-> Len(p)]

\* The bytes d written behind the block last, which has room for space of
\* them, and to the blocks got.
Written(B, last, at, space, d, n, got) ==
  [b \in Blocks |->
     IF b = last THEN Filled(B[last], at, Piece(d, n, 0, space))
     ELSE IF \E i \in DOMAIN got : got[i] = b
     THEN NewBlock(Part(d, n, space, CHOOSE j \in DOMAIN got : got[j] = b))
     ELSE B[b]]

\* Filling a block behind its end adds the bytes behind its own.
LEMMA FilledIs ==
  ASSUME NEW r \in Records, r.offset + r.used <= Len(r.mem), NEW p \in Seq(Nat),
         NEW q, q = Filled(r, r.offset + r.used, p)
  PROVE  /\ q \in Records /\ q.offset + q.used <= Len(q.mem)
         /\ q.offset + q.used = r.offset + r.used + Len(p)
         /\ BytesOf(q) = BytesOf(r) \o p
<1> DEFINE m == r.mem
           at == r.offset + r.used
           f == SubSeq(m, 1, at)
<1>1. m \in Seq(Nat) /\ r.offset \in Nat /\ r.used \in Nat /\ Len(p) \in Nat /\ Len(m) \in Nat
  BY LenProperties DEF Records
<1>2. at \in 0..Len(m)
  BY <1>1
<1>3. f \in Seq(Nat) /\ Len(f) = at /\ \A i \in 1..at : f[i] = m[i]
  <2> HIDE DEF m, at
  <2> QED
    BY <1>1, <1>2, Prefix
<1> HIDE DEF f
<1>4. f \o p \in Seq(Nat) /\ Len(f \o p) = at + Len(p)
      /\ \A i \in 1..(at + Len(p)) : (f \o p)[i] = IF i <= at THEN f[i] ELSE p[i - at]
  <2> HIDE DEF at
  <2> QED
    BY <1>3, ConcatProperties, ZenonT(60)
<1>5. q.mem = f \o p /\ q.offset = r.offset /\ q.used = r.used + Len(p) /\ q \in Records
  <2>1. q = [r EXCEPT !.mem = f \o p, !.used = @ + Len(p)]
    BY DEF Filled, f
  <2> QED
    <3> DEFINE g == f \o p
    <3>1. g \in Seq(Nat) /\ q = [r EXCEPT !.mem = g, !.used = @ + Len(p)]
      BY <1>4, <2>1
    <3> HIDE DEF g
    <3>2. q = [mem |-> g, offset |-> r.offset, used |-> r.used + Len(p)]
      BY <3>1 DEF Records
    <3>3. q.mem = g /\ q.offset = r.offset /\ q.used = r.used + Len(p) /\ q \in Records
      BY <1>1, <3>1, <3>2 DEF Records
    <3> QED
      BY <3>3 DEF g
<1>6. q.offset + q.used = at + Len(p) /\ q.offset + q.used <= Len(q.mem)
  BY <1>1, <1>4, <1>5
<1> DEFINE x == BytesOf(r)
           y == BytesOf(q)
<1>7. x \in Seq(Nat) /\ Len(x) = r.used /\ \A i \in 1..r.used : x[i] = m[r.offset + i]
  BY BytesType
<1>8. y \in Seq(Nat) /\ Len(y) = r.used + Len(p) /\ \A i \in 1..(r.used + Len(p)) : y[i] = (f \o p)[r.offset + i]
  BY <1>5, <1>6, BytesType
<1> HIDE DEF x, y
<1>9. x \o p \in Seq(Nat) /\ Len(x \o p) = Len(x) + Len(p)
      /\ \A i \in 1..(Len(x) + Len(p)) : (x \o p)[i] = IF i <= Len(x) THEN x[i] ELSE p[i - Len(x)]
  BY <1>7, ConcatProperties, ZenonT(60)
<1>10. ASSUME NEW i \in 1..Len(y) PROVE y[i] = (x \o p)[i]
  <2> DEFINE o == r.offset
             w == r.used
             e == Len(p)
             j == o + i
  <2>1. i \in 1..(w + e) /\ at = o + w /\ o \in Nat /\ w \in Nat /\ e \in Nat /\ Len(x) = w
    BY <1>1, <1>7, <1>8
  <2>2. y[i] = (f \o p)[j] /\ (x \o p)[i] = IF i <= w THEN x[i] ELSE p[i - w]
    BY <1>8, <1>9, <2>1
  <2>3. i <= w => i \in 1..w /\ x[i] = m[j]
    BY <1>1, <1>7, <2>1
  <2> HIDE DEF at, w, o, e
  <2>4. /\ j \in 1..(at + e)
        /\ i <= w => j <= at /\ j \in 1..at
        /\ ~(i <= w) => ~(j <= at) /\ j - at = i - w
    BY <2>1
  <2> HIDE DEF j
  <2>5. (f \o p)[j] = IF j <= at THEN f[j] ELSE p[j - at]
    BY <1>4, <2>4 DEF e
  <2>6. CASE i <= w
    BY <1>3, <2>2, <2>3, <2>4, <2>5, <2>6
  <2>7. CASE ~(i <= w)
    BY <2>2, <2>4, <2>5, <2>7
  <2> QED
    BY <2>6, <2>7
<1>11. y = x \o p
  <2>1. Len(y) = Len(x \o p)
    BY <1>7, <1>8, <1>9
  <2> QED
    BY <1>8, <1>9, <1>10, <2>1, SeqEqual
<1> QED
  BY <1>5, <1>6, <1>11 DEF x, y

\* A new block holds what was written to it.
LEMMA NewBlockIs ==
  ASSUME NEW p \in Seq(Nat), NEW r, r = NewBlock(p)
  PROVE  /\ r \in Records /\ r.offset + r.used = Len(p) /\ r.offset + r.used <= Len(r.mem)
         /\ BytesOf(r) = p
<1>1. Len(p) \in Nat
  BY LenProperties
<1>2. r.mem = p /\ r.offset = 0 /\ r.used = Len(p) /\ r \in Records
  BY <1>1 DEF NewBlock, Records
<1>3. BytesOf(r) = SubSeq(p, 1, Len(p))
  <2>1. r.offset + 1 = 1 /\ r.offset + r.used = Len(p)
    BY <1>1, <1>2
  <2> QED
    BY <1>2, <2>1 DEF BytesOf
<1>4. SubSeq(p, 1, Len(p)) = p
  BY SubSeqFull, SMTT(30)
<1> QED
  BY <1>1, <1>2, <1>3, <1>4

\* The content of a chain is that of all blocks but the last, and the last's.
LEMMA CatLast ==
  ASSUME NEW B, Memory(B), NEW c \in Seq(Blocks), c # << >>
  PROVE  /\ Len(c) \in Nat \ {0} /\ c[Len(c)] \in Blocks
         /\ SubSeq(c, 1, Len(c) - 1) \in Seq(Blocks) /\ Len(SubSeq(c, 1, Len(c) - 1)) = Len(c) - 1
         /\ \A i \in 1..(Len(c) - 1) : SubSeq(c, 1, Len(c) - 1)[i] = c[i]
         /\ Cat(B, c) = Cat(B, SubSeq(c, 1, Len(c) - 1)) \o BytesOf(B[c[Len(c)]])
<1> DEFINE l == Len(c)
           k == l - 1
           f == SubSeq(c, 1, k)
<1>1. l \in Nat \ {0} /\ c \in [1..l -> Blocks]
  BY EmptySeq, LenProperties
<1>2. l \in 0..l /\ l # 0 /\ k \in 0..l /\ c[l] \in Blocks
  BY <1>1
<1>3. c = Append(f, c[l])
  <2>1. SubSeq(c, 1, l) = Append(f, c[l]) /\ SubSeq(c, 1, l) = c
    BY <1>2, Prefix
  <2> QED
    BY <2>1
<1>4. f \in Seq(Blocks) /\ Len(f) = k /\ \A i \in 1..k : f[i] = c[i]
  <2> HIDE DEF k
  <2> QED
    BY <1>2, Prefix
<1> HIDE DEF f
<1>5. c = f \o <<c[l]>>
  BY <1>2, <1>3, <1>4, AppendIsConcat
<1>6. <<c[l]>> \in Seq(Blocks)
  BY <1>2
<1> DEFINE one == <<c[l]>>
<1>7. Cat(B, f \o one) = Cat(B, f) \o Cat(B, one)
  <2>1. one \in Seq(Blocks)
    BY <1>6
  <2> HIDE DEF one
  <2> QED
    BY <1>4, <2>1, CatConcat, SMTT(30)
<1>8. Cat(B, one) = BytesOf(B[c[l]])
  BY <1>2, CatOne
<1> QED
  BY <1>1, <1>2, <1>4, <1>5, <1>7, <1>8 DEF f

\* The bytes d are appended to the chain c over B, and the blocks got were free.
Appends(B, c, last, at, space, n, d, got) ==
  /\ Memory(B) /\ c \in Seq(Blocks) /\ c # << >> /\ Once(c)
  /\ last = c[Len(c)] /\ at = B[last].offset + B[last].used
  /\ space \in Nat /\ n \in Nat /\ d \in Seq(Nat) /\ Len(d) = n
  /\ got \in Seq(Blocks) /\ Once(got) /\ Len(got) <= Need(space, n)
  /\ \A i \in 1..Len(c), j \in 1..Len(got) : c[i] # got[j]

\* An append leaves every block in its bounds, the bytes of a chain that found all
LEMMA AppendMemory ==
  ASSUME NEW B, NEW c, NEW last, NEW at, NEW space, NEW n, NEW d, NEW got,
         Appends(B, c, last, at, space, n, d, got),
         NEW D, D = Written(B, last, at, space, d, n, got)
  PROVE  /\ Memory(D)
         /\ Len(got) = Need(space, n) => Cat(D, c \o got) = Cat(B, c) \o d
         /\ \A b \in Blocks : b # last /\ (\A i \in 1..Len(got) : got[i] # b) => D[b] = B[b]
         /\ D[last].offset + D[last].used = at + (IF space <= n THEN space ELSE n)
         /\ \A i \in 1..Len(got) : /\ D[got[i]].offset + D[got[i]].used = Len(Part(d, n, space, i))
                                   /\ i = Need(space, n) => Len(Part(d, n, space, i)) \in 0..(Capacity - 1)
<1> DEFINE l == Len(c)
           k == Len(got)
           need == Need(space, n)
           p == Piece(d, n, 0, space)
           m == IF space <= n THEN space ELSE n
           f == SubSeq(c, 1, l - 1)
<1> USE DEF Appends
<1>1. /\ l \in Nat \ {0} /\ last \in Blocks
      /\ f \in Seq(Blocks) /\ Len(f) = l - 1 /\ \A i \in 1..(l - 1) : f[i] = c[i]
      /\ Cat(B, c) = Cat(B, f) \o BytesOf(B[last])
  BY CatLast
<1>2. k \in Nat /\ need \in Nat /\ DOMAIN got = 1..k /\ \A i \in 1..k : got[i] \in Blocks
  BY NeedIs, LenProperties
<1>3. p \in Seq(Nat) /\ Len(p) = m /\ p = SubSeq(d, 1, m) /\ m \in 0..n
  <2> DEFINE to == IF 0 + space <= n THEN 0 + space ELSE n
  <2>1. to = m /\ to - 0 = m /\ 0 \in 0..n
    OBVIOUS
  <2> HIDE DEF m
  <2>2. Continues(d, 0, p, to)
    <3> HIDE DEF p, to
    <3> QED
      BY <2>1, PieceIs DEF p, to
  <2>5. p \in Seq(Nat) /\ Len(p) = to - 0 /\ SubSeq(d, 1, 0) \o p = SubSeq(d, 1, to) /\ to \in 0..n
    BY <2>2 DEF Continues
  <2>3. SubSeq(d, 1, 0) = << >>
    BY <2>1, Prefix
  <2>4. << >> \o p = p
    BY <2>5, ConcatEmptySeq
  <2> QED
    BY <2>1, <2>3, <2>4, <2>5
<1> HIDE DEF p, f, m, need
<1>4. B[last] \in Records /\ B[last].offset + B[last].used <= Len(B[last].mem)
  BY <1>1 DEF Memory
<1> DEFINE r == Filled(B[last], at, p)
<1>5. /\ r \in Records /\ r.offset + r.used <= Len(r.mem) /\ r.offset + r.used = at + m
      /\ BytesOf(r) = BytesOf(B[last]) \o p
  BY <1>3, <1>4, FilledIs
<1>6. ASSUME NEW i \in 1..k
      PROVE  /\ got[i] # last
             /\ (CHOOSE j \in DOMAIN got : got[j] = got[i]) = i
  <2>1. got[i] # last
    BY <1>1
  <2>2. \A j \in DOMAIN got : got[j] = got[i] <=> j = i
    BY <1>2 DEF Once
  <2> QED
    BY <1>2, <2>1, <2>2
<1> DEFINE part(i) == Part(d, n, space, i)
<1>7. ASSUME NEW i \in 1..k
      PROVE  /\ part(i) \in Seq(Nat)
             /\ i = need => Len(part(i)) \in 0..(Capacity - 1)
  <2> DEFINE from == space + (i - 1) * Capacity
             to == IF from + Capacity <= n THEN from + Capacity ELSE n
  <2>1. i \in 1..need
    BY <1>2 DEF need
  <2>2. /\ part(i) \in Seq(Nat) /\ Len(part(i)) = to - from /\ to - from \in Nat
        /\ i = need => to - from < Capacity
    <3> HIDE DEF from, to
    <3> QED
      BY <2>1, PartIs DEF from, to, need
  <2> HIDE DEF from, to
  <2> QED
    BY <2>2, PoolAssumption
<1>8. D[last] = r
  BY <1>1 DEF Written, p
<1>9. \A i \in 1..k : D[got[i]] = NewBlock(part(i))
  <2> TAKE i \in 1..k
  <2>1. D[got[i]] = NewBlock(part(CHOOSE j \in DOMAIN got : got[j] = got[i]))
    BY <1>2, <1>6 DEF Written
  <2> QED
    BY <1>6, <2>1
<1>10. \A b \in Blocks : b # last /\ (\A i \in 1..k : got[i] # b) => D[b] = B[b]
  BY <1>2 DEF Written
<1> HIDE DEF r, part
<1>11. Memory(D)
  <2>1. ASSUME NEW b \in Blocks PROVE D[b] \in Records /\ D[b].offset + D[b].used <= Len(D[b].mem)
    <3>1. CASE b = last
      BY <1>5, <1>8, <3>1
    <3>2. CASE \E i \in 1..k : got[i] = b
      <4>1. PICK i \in 1..k : got[i] = b
        BY <3>2
      <4>2. NewBlock(part(i)) \in Records
            /\ NewBlock(part(i)).offset + NewBlock(part(i)).used <= Len(NewBlock(part(i)).mem)
        BY <1>7, NewBlockIs
      <4> QED
        BY <1>9, <4>1, <4>2
    <3>3. CASE b # last /\ \A i \in 1..k : got[i] # b
      <4>1. D[b] = B[b]
        BY <1>10, <3>3
      <4> QED
        BY <4>1 DEF Memory
    <3> QED
      BY <3>1, <3>2, <3>3
  <2>2. D = [b \in Blocks |-> D[b]]
    BY DEF Written
  <2>3. D \in [Blocks -> Records]
    BY <2>1, <2>2, SMTT(30)
  <2> QED
    BY <2>1, <2>3, SMTT(30) DEF Memory
<1>12. ASSUME k = need PROVE Cat(D, c \o got) = Cat(B, c) \o d
  <2> DEFINE a == Cat(B, f)
             b == BytesOf(B[last])
             g == Cat(D, got)
  <2>1. Cat(D, c \o got) = Cat(D, c) \o g
    BY <1>11, CatConcat, ZenonT(60)
  <2>2. Cat(D, c) = Cat(D, f) \o BytesOf(D[last])
    BY <1>11, CatLast, ZenonT(60) DEF f
  <2>3. Cat(D, f) = a
    <3>1. ASSUME NEW i \in 1..Len(f) PROVE D[f[i]] = B[f[i]]
      <4>1. i \in 1..l /\ i # l /\ l \in 1..l /\ f[i] = c[i]
        BY <1>1
      <4>2. f[i] # last
        BY <4>1 DEF Once
      <4>3. \A j \in 1..k : got[j] # f[i]
        BY <4>1
      <4>4. f[i] \in Blocks
        BY <1>1, LenProperties
      <4> QED
        BY <1>10, <4>2, <4>3, <4>4
    <3>2. \A i \in 1..Len(f) : BytesOf(D[f[i]]) = BytesOf(B[f[i]])
      BY <3>1
    <3> QED
      <4>1. f \in Seq(Blocks)
        BY <1>1
      <4>2. Cat(D, f) = Cat(B, f)
        <5> HIDE DEF a
        <5> QED
          BY <3>2, <4>1, CatSame
      <4> QED
        BY <4>2
  <2>4. a \in Seq(Nat) /\ b \in Seq(Nat) /\ g \in Seq(Nat)
    BY <1>1, <1>4, <1>11, CatType, BytesType, SMTT(30)
  <2>5. Cat(D, c) = a \o (b \o p) /\ Cat(B, c) = a \o b
    BY <1>1, <1>5, <1>8, <2>2, <2>3
  <2>6. p \o g = d
    <3>1. CASE n < space
      <4>1. need = 0 /\ m = n /\ got = << >>
        <5>1. need = 0 /\ m = n
          BY <3>1, NeedIs DEF need, m
        <5> QED
          BY <1>12, <5>1, EmptySeq
      <4>2. g = << >>
        BY <4>1, CatEmpty
      <4>3. p = d
        BY <1>3, <4>1, SubSeqFull
      <4> HIDE DEF g
      <4>4. p \o << >> = p
        BY <1>3, ConcatEmptySeq
      <4> QED
        BY <4>2, <4>3, <4>4
    <3>2. CASE n >= space
      <4> DEFINE Q == Seq(Nat)
                 u == Pieces(D, got)
      <4>1. Q = Seq(Nat)
        OBVIOUS
      <4> HIDE DEF Q
      <4>2. /\ u \in Seq(Q) /\ Len(u) = k
            /\ \A i \in 1..k : u[i] = BytesOf(D[got[i]])
        BY <1>11, <4>1, PiecesType, SMTT(30)
      <4>3. \A i \in 1..k : BytesOf(NewBlock(part(i))) = part(i)
        BY <1>7, NewBlockIs
      <4> HIDE DEF u
      <4>4. \A i \in 1..need : u[i] = Part(d, n, space, i)
        BY <1>9, <1>12, <4>2, <4>3, ZenonT(60) DEF part
      <4>5. SubSeq(d, 1, space) \o FlattenSeq(u) = d
        <5>1. /\ n \in Nat /\ d \in Seq(Nat) /\ Len(d) = n /\ space \in Nat /\ n >= space
              /\ Len(u) = Need(space, n)
          BY <1>12, <3>2, <4>2 DEF need
        <5>2. \A i \in 1..Need(space, n) : u[i] = Part(d, n, space, i)
          BY <4>4 DEF need
        <5> QED
          BY <4>1, <4>2, <5>1, <5>2, PartsJoin, ZenonT(30)
      <4>6. m = space
        BY <3>2 DEF m
      <4> QED
        BY <1>3, <4>5, <4>6 DEF u, Cat
    <3> QED
      BY <3>1, <3>2
  <2> HIDE DEF a, b, g
  <2>7. (a \o (b \o p)) \o g = (a \o b) \o d
    <3>1. a \o (b \o p) = (a \o b) \o p
      <4>1. SameJoin(a, b, p)
        BY <1>3, <2>4, Assoc
      <4> QED
        BY <4>1 DEF SameJoin
    <3>2. a \o b \in Seq(Nat)
      BY <2>4, ConcatProperties
    <3> DEFINE e == a \o b
    <3>3. (e \o p) \o g = e \o (p \o g)
      <4> HIDE DEF e
      <4>1. e \in Seq(Nat)
        BY <3>2 DEF e
      <4> QED
        <5>1. SameJoin(e, p, g)
          BY <1>3, <2>4, <4>1, Assoc
        <5> QED
          BY <5>1 DEF SameJoin
    <3> QED
      BY <2>6, <3>1, <3>3
  <2> QED
    BY <2>1, <2>5, <2>7
<1>13. \A i \in 1..k : /\ D[got[i]].offset + D[got[i]].used = Len(part(i))
                       /\ i = need => Len(part(i)) \in 0..(Capacity - 1)
  BY <1>7, <1>9, NewBlockIs
<1> QED
  BY <1>5, <1>8, <1>10, <1>11, <1>12, <1>13 DEF m, need, part

-----------------------------------------------------------------------------
(* The inductive invariant.                                                *)

StringRecords == [chain : Seq(Blocks), at : Nat, space : Nat, length : Nat]
Chains == [s \in Strings |-> str[s].chain]

TypeInv ==
  /\ Memory(block) /\ str \in [Strings -> StringRecords]
  /\ count \in [Strings -> Nat] /\ taken \in [Strings -> Seq(Nat)]
  /\ broken \in SUBSET Strings

\* The string of record r over the blocks B is as its operations expect it.
Sound(B, r) ==
  /\ r.chain # << >> => /\ r.at = B[Last(r.chain)].offset + B[Last(r.chain)].used
                        /\ r.space = Capacity - r.at /\ r.space > 0
  /\ r.length = Len(Cat(B, r.chain))

IInv ==
  /\ TypeInv
  /\ Apart(Chains, free, fresh)
  /\ \A s \in Strings \ broken : Sound(block, str[s])

\* Content, with the memory as a parameter.
LEMMA ContentIs ==
  ASSUME NEW c
  PROVE  Content(c) = Cat(block, c)
BY DEF Content, Bytes, Cat, Pieces, BytesOf

\* The invariant implies the two properties of single strings.
LEMMA SoundIs ==
  IInv => WritesBehindTheEnd /\ LengthExact
<1>1. ASSUME IInv PROVE WritesBehindTheEnd
  BY <1>1 DEF IInv, Sound, WritesBehindTheEnd
<1>2. ASSUME IInv, NEW s \in Strings \ broken PROVE str[s].length = Len(Content(str[s].chain))
  BY <1>2, ContentIs DEF IInv, Sound
<1> QED
  BY <1>1, <1>2 DEF LengthExact

\* What TypeInv says of one string.
LEMMA ChainOf ==
  ASSUME TypeInv, NEW s \in Strings
  PROVE  /\ str[s] \in StringRecords /\ str[s].chain \in Seq(Blocks) /\ Chains[s] = str[s].chain
         /\ str[s].at \in Nat /\ str[s].space \in Nat /\ str[s].length \in Nat
         /\ count[s] \in Nat /\ Len(str[s].chain) \in Nat
         /\ \A i \in 1..Len(str[s].chain) : str[s].chain[i] \in Blocks
<1>1. str[s] \in StringRecords /\ count[s] \in Nat /\ Chains[s] = str[s].chain
  BY DEF TypeInv, Chains
<1> DEFINE c == str[s].chain
<1>2. c \in Seq(Blocks)
  BY <1>1 DEF StringRecords
<1> HIDE DEF c
<1>3. Len(c) \in Nat /\ \A i \in 1..Len(c) : c[i] \in Blocks
  BY <1>2, LenProperties
<1> QED
  BY <1>1, <1>2, <1>3 DEF StringRecords, c

\* A step that leaves the other strings and their blocks alone.
LEMMA OneStringChanges ==
  ASSUME IInv, NEW s \in Strings, NEW r \in StringRecords, str' = [str EXCEPT ![s] = r],
         Memory(block'), NEW C, C = [Chains EXCEPT ![s] = r.chain], Apart(C, free', fresh'),
         count' \in [Strings -> Nat], taken' \in [Strings -> Seq(Nat)],
         broken' \in SUBSET Strings, broken \ {s} \subseteq broken',
         \A t \in Strings \ {s} : \A i \in 1..Len(str[t].chain) :
            block'[str[t].chain[i]] = block[str[t].chain[i]],
         s \notin broken' => Sound(block', r)
  PROVE  /\ IInv' /\ str'[s] = r
         /\ \A t \in Strings \ {s} : /\ str'[t] = str[t]
                                     /\ Cat(block', str'[t].chain) = Cat(block, str[t].chain)
<1>1. TypeInv /\ Apart(Chains, free, fresh) /\ \A t \in Strings \ broken : Sound(block, str[t])
  BY DEF IInv
<1>2. str' \in [Strings -> StringRecords] /\ str'[s] = r /\ \A t \in Strings \ {s} : str'[t] = str[t]
  BY <1>1 DEF TypeInv
<1>3. TypeInv'
  BY <1>2 DEF TypeInv
<1>4. Chains' = C
  BY <1>2 DEF Chains
<1>5. ASSUME NEW t \in Strings \ {s}
      PROVE  /\ Cat(block', str'[t].chain) = Cat(block, str[t].chain)
             /\ str[t].chain # << >> => block'[Last(str[t].chain)] = block[Last(str[t].chain)]
  <2> DEFINE c == str[t].chain
  <2>1. c \in Seq(Blocks) /\ str'[t].chain = c /\ Len(c) \in Nat
    BY <1>1, <1>2, ChainOf
  <2>2. \A i \in 1..Len(c) : block'[c[i]] = block[c[i]]
    OBVIOUS
  <2> HIDE DEF c
  <2>3. \A i \in 1..Len(c) : BytesOf(block'[c[i]]) = BytesOf(block[c[i]])
    BY <2>2
  <2>4. Cat(block', c) = Cat(block, c)
    BY <2>1, <2>3, CatSame
  <2>5. c # << >> => Len(c) \in 1..Len(c)
    BY <2>1, EmptySeq
  <2> QED
    BY <2>1, <2>2, <2>4, <2>5 DEF c, Last
<1>6. ASSUME NEW t \in Strings \ broken' PROVE Sound(block', str'[t])
  <2>1. CASE t = s
    BY <1>2, <2>1
  <2>2. CASE t # s
    <3>1. t \in Strings \ broken /\ t \in Strings \ {s}
      BY <2>2
    <3>2. Sound(block, str[t]) /\ str'[t] = str[t]
      BY <1>1, <1>2, <3>1
    <3> QED
      BY <1>5, <3>1, <3>2 DEF Sound
  <2> QED
    BY <2>1, <2>2
<1>7. Apart(Chains, free, fresh)'
  BY <1>4
<1> QED
  BY <1>2, <1>3, <1>5, <1>6, <1>7 DEF IInv

\* An append that found no memory, too, leaves other blocks alone.
LEMMA AppendKeeps ==
  ASSUME NEW B, NEW c, NEW last, NEW at, NEW space, NEW n, NEW d, NEW got,
         Appends(B, c, last, at, space, n, d, got),
         NEW D, D = Written(B, last, at, space, d, n, got)
  PROVE  /\ Memory(D)
         /\ \A b \in Blocks : b # last /\ (\A i \in 1..Len(got) : got[i] # b) => D[b] = B[b]
BY AppendMemory

\* append leaves a string that got all the blocks it needs as it should be.
AppendEnd(at, space, n, d) ==
  IF Need(space, n) = 0 THEN at + n ELSE Len(Part(d, n, space, Need(space, n)))
Appended(B, c, at, space, n, d, got) ==
  [chain  |-> c \o got,
   at     |-> AppendEnd(at, space, n, d),
   space  |-> IF Need(space, n) = 0 THEN space - n ELSE Capacity - AppendEnd(at, space, n, d),
   length |-> Len(Cat(B, c)) + n]

\* A string that found all its blocks is sound after an append.
LEMMA AppendSound ==
  ASSUME NEW B, NEW c, NEW last, NEW at, NEW space, NEW n, NEW d, NEW got,
         Appends(B, c, last, at, space, n, d, got), Len(got) = Need(space, n),
         space = Capacity - at, space > 0,
         NEW D, D = Written(B, last, at, space, d, n, got),
         NEW r, r = Appended(B, c, at, space, n, d, got)
  PROVE  /\ r \in StringRecords /\ Sound(D, r)
         /\ Cat(D, r.chain) = Cat(B, c) \o d
<1> DEFINE need == Need(space, n)
           e == c \o got
           l == Len(c)
           end == AppendEnd(at, space, n, d)
<1>1. /\ Memory(D)
      /\ Cat(D, e) = Cat(B, c) \o d
      /\ D[last].offset + D[last].used = at + (IF space <= n THEN space ELSE n)
      /\ \A i \in 1..Len(got) : /\ D[got[i]].offset + D[got[i]].used = Len(Part(d, n, space, i))
                                /\ i = need => Len(Part(d, n, space, i)) \in 0..(Capacity - 1)
  BY AppendMemory, SMTT(30)
<1>2. /\ c \in Seq(Blocks) /\ c # << >> /\ last = c[l] /\ Memory(B)
      /\ d \in Seq(Nat) /\ Len(d) = n /\ got \in Seq(Blocks)
  BY DEF Appends
<1>3. space \in Nat /\ n \in Nat /\ at = B[last].offset + B[last].used
  BY DEF Appends
<1>4. l \in Nat \ {0} /\ last \in Blocks
  BY <1>2, CatLast
<1>5. B[last] \in Records
  BY <1>2, <1>4 DEF Memory
<1>6. at \in Nat
  BY <1>3, <1>5 DEF Records
<1>7. Capacity \in Nat
  BY PoolAssumption
<1>8. need \in Nat /\ (n < space <=> need = 0)
  BY <1>3, NeedIs
<1> DEFINE x == Cat(B, c)
<1>9. x \in Seq(Nat) /\ Len(x) \in Nat
  <2>1. x \in Seq(Nat)
    BY <1>2, CatType
  <2> HIDE DEF x
  <2> QED
    BY <2>1, LenProperties
<1>10. Len(x \o d) = Len(x) + n
  <2> HIDE DEF x
  <2> QED
    BY <1>2, <1>9, ConcatProperties
<1>11. e \in Seq(Blocks) /\ Len(e) = l + need
       /\ \A i \in 1..(l + need) : e[i] = IF i <= l THEN c[i] ELSE got[i - l]
  <2>1. /\ e \in Seq(Blocks) /\ Len(e) = Len(c) + Len(got)
        /\ \A i \in 1..(Len(c) + Len(got)) : e[i] = IF i <= Len(c) THEN c[i] ELSE got[i - Len(c)]
    BY <1>2, ConcatProperties
  <2> HIDE DEF e
  <2> QED
    BY <2>1
<1> DEFINE sp == IF need = 0 THEN space - n ELSE Capacity - end
<1>12. r = [chain |-> e, at |-> end, space |-> sp, length |-> Len(x) + n]
  BY DEF Appended
<1> HIDE DEF sp, end, e, x
<1>13. r.chain = e /\ r.at = end /\ r.length = Len(x) + n /\ r.space = sp
  BY <1>12
<1> DEFINE top == IF need = 0 THEN last ELSE got[need]
<1>14. Last(e) = top
  <2> HIDE DEF need, l
  <2>1. l + need \in 1..(l + need)
    BY <1>4, <1>8
  <2>2. e[l + need] = IF l + need <= l THEN c[l + need] ELSE got[(l + need) - l]
    BY <1>11, <2>1
  <2>3. (l + need) - l = need /\ (l + need <= l <=> need = 0) /\ (need = 0 => l + need = l)
    BY <1>4, <1>8
  <2> QED
    BY <1>2, <1>11, <2>2, <2>3 DEF Last
<1> HIDE DEF need, top
<1>15. end = D[top].offset + D[top].used /\ end \in Nat /\ sp = Capacity - end /\ sp > 0
  <2>1. CASE need = 0
    <3>1. n < space /\ end = at + n /\ sp = space - n /\ top = last
      BY <1>8, <2>1 DEF need, end, sp, AppendEnd, top
    <3>2. ~(space <= n)
      BY <1>3, <3>1
    <3>3. D[last].offset + D[last].used = at + n
      BY <1>1, <3>2
    <3>4. end \in Nat /\ sp = Capacity - end /\ sp > 0
      BY <1>3, <1>6, <1>7, <3>1, SMTT(30)
    <3> QED
      BY <3>1, <3>3, <3>4
  <2>2. CASE need # 0
    <3>1. need \in 1..Len(got) /\ end = Len(Part(d, n, space, need))
          /\ sp = Capacity - end /\ top = got[need]
      BY <1>8, <2>2 DEF need, end, sp, AppendEnd, top
    <3>2. /\ D[got[need]].offset + D[got[need]].used = Len(Part(d, n, space, need))
          /\ Len(Part(d, n, space, need)) \in 0..(Capacity - 1)
      BY <1>1, <3>1
    <3>3. end \in 0..(Capacity - 1)
      BY <3>1, <3>2
    <3>4. end \in Nat /\ Capacity - end > 0
      BY <1>7, <3>3
    <3> QED
      BY <3>1, <3>2, <3>4
  <2> QED
    BY <2>1, <2>2
<1>16. r \in StringRecords
  <2>1. sp \in Nat /\ Len(x) + n \in Nat
    BY <1>3, <1>7, <1>9, <1>15, SMTT(30)
  <2> DEFINE y == Len(x) + n
  <2> HIDE DEF y
  <2>2. r = [chain |-> e, at |-> end, space |-> sp, length |-> y] /\ y \in Nat
    BY <1>12, <2>1 DEF y
  <2> QED
    BY <1>11, <1>15, <2>1, <2>2 DEF StringRecords
<1>17. Cat(D, e) = x \o d
  BY <1>1 DEF e, x
<1>18. Sound(D, r)
  BY <1>10, <1>13, <1>14, <1>15, <1>17 DEF Sound
<1>19. Cat(D, r.chain) = Cat(B, c) \o d
  BY <1>13, <1>17, Zenon DEF x
<1> QED
  BY <1>16, <1>18, <1>19

\* The blocks that an append takes from what the zone offers: with a first block,
\* or without one.
Begins(x, y) == x = SubSeq(y, 1, Len(x))
BeginsWith(b, x, y) == <<b>> \o x = SubSeq(y, 1, Len(x) + 1)

\* The blocks that an append to a started string takes.
LEMMA TakenWithout ==
  ASSUME NEW A \in Seq(Blocks), Once(A), NEW need \in Nat,
         NEW got, got = SubSeq(A, 1, Min({need, Len(A)}))
  PROVE  /\ got \in Seq(Blocks) /\ Len(got) \in 0..Len(A) /\ Len(got) <= need /\ Once(got)
         /\ \A j \in 1..Len(got) : j \in 1..Len(A) /\ got[j] = A[j]
         /\ Begins(got, A)
<1> DEFINE m == Min({need, Len(A)})
<1>1. Len(A) \in Nat
  BY LenProperties
<1>2. m = IF need <= Len(A) THEN need ELSE Len(A)
  BY <1>1, MinIs
<1>3. m \in 0..Len(A) /\ m <= need /\ m \in Nat
  <2> HIDE DEF m
  <2> QED
    BY <1>1, <1>2
<1> HIDE DEF m
<1>4. got = SubSeq(A, 1, m)
  BY DEF m
<1>5. got \in Seq(Blocks) /\ Len(got) = m /\ \A j \in 1..m : got[j] = A[j]
  <2>1. SubSeq(A, 1, m) \in Seq(Blocks) /\ Len(SubSeq(A, 1, m)) = m
        /\ \A j \in 1..m : SubSeq(A, 1, m)[j] = A[j]
    BY <1>3, Prefix
  <2> QED
    BY <1>4, <2>1
<1>8. Begins(got, A)
  BY <1>4, <1>5 DEF Begins
<1>6. \A j \in 1..Len(got) : j \in 1..Len(A) /\ got[j] = A[j]
  <2>1. \A j \in 1..m : j \in 1..Len(A)
    BY <1>1, <1>3
  <2>2. ASSUME NEW j \in 1..Len(got) PROVE j \in 1..Len(A) /\ got[j] = A[j]
    <3>1. j \in 1..m
      BY <1>5, Zenon
    <3> QED
      BY <1>5, <2>1, <3>1, Zenon
  <2> QED
    BY <2>2, Zenon
<1>7. Once(got)
  <2>1. ASSUME NEW i \in 1..Len(got), NEW j \in 1..Len(got), got[i] = got[j] PROVE i = j
    <3>1. i \in 1..Len(A) /\ j \in 1..Len(A) /\ A[i] = A[j]
      BY <1>6, <2>1, Zenon
    <3> QED
      BY <3>1, Zenon DEF Once
  <2> QED
    BY <2>1, Zenon DEF Once
<1> QED
  BY <1>3, <1>5, <1>6, <1>7, <1>8

\* The first block and the others that an append to an empty string takes.
LEMMA TakenWith ==
  ASSUME NEW A \in Seq(Blocks), Once(A), A # << >>, NEW need \in Nat,
         NEW got, got = SubSeq(Tail(A), 1, Min({need, Len(Tail(A))}))
  PROVE  /\ got \in Seq(Blocks) /\ Len(got) + 1 \in 0..Len(A) /\ Len(got) <= need /\ Once(got)
         /\ A[1] \in Blocks /\ 1 \in 1..Len(A)
         /\ \A j \in 1..Len(got) : j + 1 \in 1..Len(A) /\ got[j] = A[j + 1] /\ got[j] # A[1]
         /\ BeginsWith(A[1], got, A)
<1> DEFINE T == Tail(A)
           k == Len(got)
           one == <<A[1]>>
           w == SubSeq(A, 1, k + 1)
<1>1. Len(A) \in Nat \ {0} /\ A \in [1..Len(A) -> Blocks]
  BY LenProperties, EmptySeq
<1>2. T \in Seq(Blocks) /\ Len(T) = Len(A) - 1 /\ \A i \in 1..Len(T) : T[i] = A[i + 1]
  BY HeadTailProperties
<1>3. 1 \in 1..Len(A) /\ A[1] \in Blocks
  BY <1>1
<1> HIDE DEF T
<1>4. Once(T)
  <2>1. \A i \in 1..Len(T) : i \in Nat /\ i + 1 \in 1..Len(A)
    BY <1>1, <1>2
  <2>2. ASSUME NEW i \in 1..Len(T), NEW j \in 1..Len(T), T[i] = T[j] PROVE i = j
    <3>1. A[i + 1] = A[j + 1]
      BY <1>2, <2>2
    <3>2. i + 1 = j + 1
      BY <2>1, <3>1 DEF Once
    <3> QED
      BY <2>1, <3>2
  <2> QED
    BY <2>2 DEF Once
<1>5. /\ got \in Seq(Blocks) /\ k \in 0..Len(T) /\ k <= need /\ Once(got)
      /\ \A j \in 1..k : j \in 1..Len(T) /\ got[j] = T[j]
  <2>1. got = SubSeq(T, 1, Min({need, Len(T)}))
    BY DEF T
  <2> QED
    BY <1>2, <1>4, <2>1, TakenWithout
<1>6. k \in Nat /\ k + 1 \in 0..Len(A)
  BY <1>1, <1>2, <1>5
<1>7. ASSUME NEW j \in 1..k PROVE j + 1 \in 1..Len(A) /\ got[j] = A[j + 1] /\ got[j] # A[1]
  <2>1. j \in 1..Len(T) /\ got[j] = A[j + 1] /\ j + 1 \in 1..Len(A) /\ j + 1 # 1
    BY <1>1, <1>2, <1>5
  <2> QED
    BY <1>3, <2>1 DEF Once
<1>8. w \in Seq(Blocks) /\ Len(w) = k + 1 /\ \A i \in 1..(k + 1) : w[i] = A[i]
  <2> DEFINE m == k + 1
  <2>1. m \in 0..Len(A)
    BY <1>6
  <2> HIDE DEF m
  <2>2. SubSeq(A, 1, m) \in Seq(Blocks) /\ Len(SubSeq(A, 1, m)) = m
        /\ \A i \in 1..m : SubSeq(A, 1, m)[i] = A[i]
    BY <2>1, Prefix
  <2> QED
    BY <2>2 DEF m
<1>9. one \in Seq(Blocks) /\ Len(one) = 1 /\ one[1] = A[1]
  BY <1>3
<1> HIDE DEF one, w, k
<1>10. one \o got \in Seq(Blocks) /\ Len(one \o got) = Len(one) + Len(got)
       /\ \A i \in 1..(Len(one) + Len(got)) :
            (one \o got)[i] = IF i <= Len(one) THEN one[i] ELSE got[i - Len(one)]
  BY <1>5, <1>9, ConcatProperties, ZenonT(60)
<1> DEFINE v == one \o got
<1>11. v \in Seq(Blocks) /\ Len(v) = 1 + k /\ \A i \in 1..(1 + k) : v[i] = IF i <= 1 THEN one[i] ELSE got[i - 1]
  BY <1>9, <1>10 DEF k
<1> HIDE DEF v
<1>12. ASSUME NEW i \in 1..Len(v) PROVE v[i] = w[i]
  <2>1. i \in 1..(1 + k) /\ i \in 1..(k + 1) /\ i \in Nat
    BY <1>6, <1>11
  <2>2. CASE i = 1
    BY <1>8, <1>9, <1>11, <2>1, <2>2
  <2>3. CASE i # 1
    <3>1. i - 1 \in 1..k /\ ~(i <= 1) /\ (i - 1) + 1 = i
      BY <1>6, <2>1, <2>3
    <3>2. got[i - 1] = A[(i - 1) + 1]
      BY <1>7, <3>1
    <3> QED
      BY <1>8, <1>11, <2>1, <3>1, <3>2
  <2> QED
    BY <2>2, <2>3
<1>13. v = w
  <2>1. Len(v) = Len(w)
    BY <1>6, <1>8, <1>11
  <2> QED
    BY <1>8, <1>11, <1>12, <2>1, SeqEqual
<1> QED
  <2>1. BeginsWith(A[1], got, A)
    BY <1>13, Zenon DEF k, v, w, one, BeginsWith
  <2> QED
    BY <1>3, <1>5, <1>6, <1>7, <2>1 DEF k

\* String s can append d: over the memory B its chain is c, and got are the blocks
\* that it takes besides, so that it has taken k blocks from the zone.
Ready(s, B, c, at, space, length, n, d, got, k) ==
  /\ Appends(B, c, c[Len(c)], at, space, n, d, got)
  /\ space = Capacity - at /\ space > 0
  /\ length = Len(Cat(B, c)) /\ Cat(B, c) = Cat(block, str[s].chain)
  /\ k \in 0..Len(Available) /\ c \o got = str[s].chain \o SubSeq(Available, 1, k)
  /\ \A b \in Blocks : b # c[Len(c)] => B[b] = block[b]
  /\ \A t \in Strings \ {s} : \A i \in 1..Len(str[t].chain) :
       /\ str[t].chain[i] # c[Len(c)]
       /\ \A j \in 1..Len(got) : got[j] # str[t].chain[i]

\* The blocks on offer are apart, and apart from all that the strings have.
LEMMA OfferOf ==
  ASSUME IInv
  PROVE  /\ Available \in Seq(Blocks) /\ Once(Available) /\ Len(Available) \in Nat
         /\ \A t \in Strings : \A i \in 1..Len(str[t].chain), j \in 1..Len(Available) :
              str[t].chain[i] # Available[j]
<1>1. Apart(Chains, free, fresh) /\ TypeInv
  BY DEF IInv
<1>2. Available = Offer(free, fresh)
  BY DEF Available, Offer
<1>3. Offer(free, fresh) \in Seq(Blocks) /\ Once(Offer(free, fresh)) /\ NotFree(Chains, Offer(free, fresh))
  BY <1>1, OfferIs
<1> DEFINE A == Available
<1>4. A \in Seq(Blocks) /\ Once(A) /\ NotFree(Chains, A)
  BY <1>2, <1>3
<1> HIDE DEF A
<1>5. Len(A) \in Nat
  BY <1>4, LenProperties
<1>6. \A t \in Strings : \A i \in 1..Len(str[t].chain), j \in 1..Len(A) : str[t].chain[i] # A[j]
  BY <1>4, SMTT(30) DEF NotFree, Chains
<1> QED
  BY <1>4, <1>5, <1>6 DEF A

\* AppendBytes finds a string with blocks ready for AppendWorks.
LEMMA ReadyOld ==
  ASSUME IInv, NEW s \in Strings, s \notin broken, str[s].chain # << >>,
         NEW n \in Nat, NEW d \in Seq(Nat), Len(d) = n,
         NEW got, got = SubSeq(Available, 1, Min({Need(str[s].space, n), Len(Available)}))
  PROVE  Ready(s, block, str[s].chain, str[s].at, str[s].space, str[s].length, n, d, got, Len(got))
<1> DEFINE A == Available
           c == str[s].chain
           space == str[s].space
           at == str[s].at
           need == Need(space, n)
           last == c[Len(c)]
<1>1. TypeInv /\ Apart(Chains, free, fresh) /\ Sound(block, str[s]) /\ Memory(block)
  BY DEF IInv, TypeInv
<1>2. /\ A \in Seq(Blocks) /\ Once(A) /\ Len(A) \in Nat
      /\ \A t \in Strings : \A i \in 1..Len(str[t].chain), j \in 1..Len(A) : str[t].chain[i] # A[j]
  BY OfferOf
<1>3. c \in Seq(Blocks) /\ Len(c) \in Nat /\ at \in Nat /\ space \in Nat
  BY <1>1, ChainOf
<1>4. need \in Nat
  BY <1>3, NeedIs
<1>5. /\ at = block[last].offset + block[last].used /\ space = Capacity - at /\ space > 0
      /\ str[s].length = Len(Cat(block, c))
  BY <1>1 DEF Sound, Last
<1> HIDE DEF A, need
<1>6. /\ got \in Seq(Blocks) /\ Len(got) \in 0..Len(A) /\ Len(got) <= need /\ Once(got)
      /\ \A j \in 1..Len(got) : j \in 1..Len(A) /\ got[j] = A[j]
      /\ Begins(got, A)
  <2>1. got = SubSeq(A, 1, Min({need, Len(A)}))
    BY DEF A, need
  <2> QED
    BY <1>2, <1>4, <2>1, TakenWithout
<1>7. \A t \in Strings : \A i \in 1..Len(str[t].chain), j \in 1..Len(got) : str[t].chain[i] # got[j]
  <2>1. \A j \in 1..Len(got) : j \in 1..Len(A) /\ got[j] = A[j]
    BY <1>6
  <2>2. \A t \in Strings : \A i \in 1..Len(str[t].chain), j \in 1..Len(A) : str[t].chain[i] # A[j]
    BY <1>2
  <2>3. ASSUME NEW t \in Strings, NEW i \in 1..Len(str[t].chain), NEW j \in 1..Len(got)
        PROVE  str[t].chain[i] # got[j]
    BY <2>1, <2>2, Zenon
  <2> QED
    BY <2>3
<1>8. OnceInChains(Chains) /\ Len(c) \in 1..Len(c)
  BY <1>1, <1>3, EmptySeq DEF Apart
<1>9. Once(c)
  <2>1. \A i, j \in 1..Len(c) : c[i] = c[j] => i = j
    BY <1>8 DEF OnceInChains, Chains
  <2> HIDE DEF c
  <2> QED
    BY <2>1 DEF Once
<1>10. \A t \in Strings \ {s} : \A i \in 1..Len(str[t].chain) : str[t].chain[i] # last
  <2>1. ASSUME NEW t \in Strings \ {s}, NEW i \in 1..Len(str[t].chain), str[t].chain[i] = last
        PROVE  FALSE
    <3>1. Chains[t] = str[t].chain /\ Chains[s] = c
      BY DEF Chains
    <3> QED
      BY <1>8, <2>1, <3>1, SMTT(30) DEF OnceInChains
  <2> QED
    BY <2>1
<1>11. Appends(block, c, last, at, space, n, d, got)
  <2>1. \A i \in 1..Len(c), j \in 1..Len(got) : c[i] # got[j]
    BY <1>7
  <2> HIDE DEF c, last, at, space
  <2>2. last = c[Len(c)] /\ c # << >>
    BY DEF last, c
  <2>3. Len(got) <= Need(space, n)
    BY <1>6 DEF need
  <2> QED
    BY <1>1, <1>3, <1>5, <1>6, <1>9, <2>1, <2>2, <2>3 DEF Appends
<1>12. c \o got = c \o SubSeq(A, 1, Len(got))
  BY <1>6 DEF Begins
<1> QED
  BY <1>5, <1>6, <1>7, <1>10, <1>11, <1>12, ZenonT(60) DEF Ready, A

\* AppendBytes finds a string without blocks, once it has its first, ready too.
LEMMA ReadyNew ==
  ASSUME IInv, NEW s \in Strings, s \notin broken, str[s].chain = << >>, Available # << >>,
         NEW n \in Nat, NEW d \in Seq(Nat), Len(d) = n,
         NEW got, got = SubSeq(Tail(Available), 1, Min({Need(Capacity, n), Len(Tail(Available))})),
         NEW B, B = [block EXCEPT ![Available[1]] = [mem |-> << >>, offset |-> 0, used |-> 0]]
  PROVE  Ready(s, B, <<Available[1]>>, 0, Capacity, 0, n, d, got, Len(got) + 1)
<1> DEFINE A == Available
           c == <<A[1]>>
           need == Need(Capacity, n)
           last == A[1]
           old == NewBlock(<< >>)
<1>1. TypeInv /\ Apart(Chains, free, fresh) /\ Memory(block)
  BY DEF IInv, TypeInv
<1>2. /\ A \in Seq(Blocks) /\ Once(A) /\ Len(A) \in Nat
      /\ \A t \in Strings : \A i \in 1..Len(str[t].chain), j \in 1..Len(A) : str[t].chain[i] # A[j]
  BY OfferOf
<1>3. Capacity \in Nat /\ Capacity > 0
  BY PoolAssumption
<1>4. need \in Nat
  BY <1>3, NeedIs
<1>5. B = [block EXCEPT ![last] = old]
  <2>1. Len(<< >>) = 0
    OBVIOUS
  <2> QED
    BY <2>1 DEF NewBlock
<1> HIDE DEF A, need, old
<1>6. /\ got \in Seq(Blocks) /\ Len(got) + 1 \in 0..Len(A) /\ Len(got) <= need /\ Once(got)
      /\ last \in Blocks /\ 1 \in 1..Len(A)
      /\ \A j \in 1..Len(got) : j + 1 \in 1..Len(A) /\ got[j] = A[j + 1] /\ got[j] # last
      /\ BeginsWith(last, got, A)
  <2>1. got = SubSeq(Tail(A), 1, Min({need, Len(Tail(A))})) /\ A # << >>
    BY DEF A, need
  <2> QED
    BY <1>2, <1>4, <2>1, TakenWith
<1>7. c \o got = SubSeq(A, 1, Len(got) + 1)
  BY <1>6, Zenon DEF BeginsWith
<1>8. \A t \in Strings : \A i \in 1..Len(str[t].chain) :
        /\ str[t].chain[i] # last
        /\ \A j \in 1..Len(got) : got[j] # str[t].chain[i]
  <2>1. ASSUME NEW t \in Strings, NEW i \in 1..Len(str[t].chain)
        PROVE  str[t].chain[i] # last /\ \A j \in 1..Len(got) : got[j] # str[t].chain[i]
    <3>1. \A j \in 1..Len(A) : str[t].chain[i] # A[j]
      BY <1>2, Zenon
    <3>2. \A j \in 1..Len(got) : j + 1 \in 1..Len(A) /\ got[j] = A[j + 1]
      BY <1>6, Zenon
    <3>3. str[t].chain[i] # last
      BY <1>6, <3>1, Zenon
    <3> QED
      BY <3>1, <3>2, <3>3, Zenon
  <2> QED
    BY <2>1, Zenon
<1>9. /\ old \in Records /\ old.offset + old.used = 0 /\ old.offset + old.used <= Len(old.mem)
      /\ BytesOf(old) = << >>
  <2>1. << >> \in Seq(Nat) /\ Len(<< >>) = 0
    OBVIOUS
  <2> QED
    BY <2>1, NewBlockIs DEF old
<1>10. B[last] = old /\ B \in [Blocks -> Records] /\ \A b \in Blocks : b # last => B[b] = block[b]
  BY <1>1, <1>5, <1>6, <1>9, ZenonT(60) DEF Memory
<1>11. Memory(B)
  BY <1>1, <1>9, <1>10 DEF Memory
<1>12. c \in Seq(Blocks) /\ Len(c) = 1 /\ c[1] = last /\ c # << >> /\ c[Len(c)] = last
  BY <1>6
<1>13. Cat(B, c) = << >>
  <2> HIDE DEF last
  <2>1. Cat(B, <<last>>) = BytesOf(B[last])
    BY <1>6, <1>11, CatOne
  <2> QED
    BY <1>9, <1>10, <2>1, Zenon DEF last
<1>14. Cat(block, str[s].chain) = << >>
  BY CatEmpty
<1>15. Once(c)
  BY <1>12 DEF Once
<1>16. Appends(B, c, last, 0, Capacity, n, d, got)
  <2>1. \A i \in 1..Len(c), j \in 1..Len(got) : c[i] # got[j]
    <3>1. ASSUME NEW i \in 1..Len(c), NEW j \in 1..Len(got) PROVE c[i] # got[j]
      <4> HIDE DEF c, last
      <4>1. i = 1
        BY <1>12
      <4> QED
        BY <1>6, <1>12, <4>1
    <3> QED
      BY <3>1
  <2> HIDE DEF c, last
  <2>2. Len(got) <= Need(Capacity, n)
    BY <1>6 DEF need
  <2>3. 0 = B[last].offset + B[last].used
    BY <1>9, <1>10
  <2> QED
    BY <1>3, <1>6, <1>11, <1>12, <1>15, <2>1, <2>2, <2>3 DEF Appends
<1>17. c \o got = str[s].chain \o SubSeq(A, 1, Len(got) + 1)
  <2> DEFINE w == SubSeq(A, 1, Len(got) + 1)
  <2>1. w \in Seq(Blocks)
    <3>1. c \o got \in Seq(Blocks)
      <4> HIDE DEF c
      <4> QED
        BY <1>6, <1>12, ConcatProperties
    <3> QED
      BY <1>7, <3>1
  <2> HIDE DEF w
  <2>2. << >> \o w = w
    BY <2>1, ConcatEmptySeq
  <2> QED
    BY <1>7, <2>2 DEF w
<1>18. 0 = Len(Cat(B, c)) /\ Cat(B, c) = Cat(block, str[s].chain)
  BY <1>13, <1>14
<1> QED
  <2> HIDE DEF c, last
  <2>1. Capacity = Capacity - 0
    BY <1>3
  <2> QED
    <3>1. Appends(B, c, c[Len(c)], 0, Capacity, n, d, got)
      BY <1>12, <1>16
    <3>2. \A b \in Blocks : b # c[Len(c)] => B[b] = block[b]
      BY <1>10, <1>12
    <3>3. \A t \in Strings \ {s} : \A i \in 1..Len(str[t].chain) :
            /\ str[t].chain[i] # c[Len(c)]
            /\ \A j \in 1..Len(got) : got[j] # str[t].chain[i]
      BY <1>8, <1>12
    <3>4. Len(got) + 1 \in 0..Len(A)
      BY <1>6
    <3>5. Ready(s, B, c, 0, Capacity, 0, n, d, got, Len(got) + 1)
      BY <1>3, <1>17, <1>18, <2>1, <3>1, <3>2, <3>3, <3>4, Zenon DEF Ready, A
    <3> QED
      BY <3>5 DEF c, A

\* The contents of the strings after a step of s: that of s is x, if it is a queue.
Contents(s, x) ==
  /\ \A t \in Strings \ {s} : Cat(block', str'[t].chain) = Cat(block, str[t].chain)
  /\ s \notin broken' => Cat(block', str'[s].chain) = x

AppendRecord(c, at, space, length, n, d, got) ==
  [chain  |-> c \o got,
   at     |-> IF Len(got) = Need(space, n) THEN AppendEnd(at, space, n, d) ELSE at,
   space  |-> IF Len(got) = Need(space, n)
              THEN (IF Need(space, n) = 0 THEN space - n ELSE Capacity - AppendEnd(at, space, n, d))
              ELSE space,
   length |-> length + n]

\* Taking blocks and writing keeps the invariant and adds the bytes.
LEMMA AppendWorks ==
  ASSUME IInv, NEW s \in Strings, s \notin broken, NEW n, NEW d, NEW B, NEW c, NEW at, NEW space,
         NEW length, NEW got, NEW k, Ready(s, B, c, at, space, length, n, d, got, k),
         Allocate(k), block' = Written(B, c[Len(c)], at, space, d, n, got),
         str' = [str EXCEPT ![s] = AppendRecord(c, at, space, length, n, d, got)],
         broken' = IF Len(got) = Need(space, n) THEN broken ELSE broken \cup {s},
         count' \in [Strings -> Nat], taken' \in [Strings -> Seq(Nat)]
  PROVE  IInv' /\ Contents(s, Cat(block, str[s].chain) \o d)
<1> DEFINE last == c[Len(c)]
           need == Need(space, n)
           r == AppendRecord(c, at, space, length, n, d, got)
           D == block'
           e == c \o got
<1>1. TypeInv /\ Apart(Chains, free, fresh) /\ broken \in SUBSET Strings
  BY DEF IInv, TypeInv
<1>2. /\ Appends(B, c, last, at, space, n, d, got)
      /\ space = Capacity - at /\ space > 0
      /\ length = Len(Cat(B, c)) /\ Cat(B, c) = Cat(block, str[s].chain)
      /\ k \in 0..Len(Available) /\ e = str[s].chain \o SubSeq(Available, 1, k)
      /\ \A b \in Blocks : b # last => B[b] = block[b]
      /\ \A t \in Strings \ {s} : \A i \in 1..Len(str[t].chain) :
           /\ str[t].chain[i] # last
           /\ \A j \in 1..Len(got) : got[j] # str[t].chain[i]
  BY DEF Ready
<1>3. D = Written(B, last, at, space, d, n, got)
  OBVIOUS
<1> HIDE DEF D, last
<1>4. /\ Memory(D)
      /\ \A b \in Blocks : b # last /\ (\A i \in 1..Len(got) : got[i] # b) => D[b] = B[b]
  <2>1. Appends(B, c, last, at, space, n, d, got)
    BY <1>2
  <2> QED
    BY <1>3, <2>1, AppendKeeps
<1>5. /\ c \in Seq(Blocks) /\ c # << >> /\ last = c[Len(c)] /\ Memory(B) /\ got \in Seq(Blocks)
      /\ space \in Nat /\ n \in Nat /\ at = B[last].offset + B[last].used
  BY <1>2 DEF Appends
<1>6. at \in Nat
  <2>1. last \in Blocks
    BY <1>5, CatLast
  <2>2. B[last] \in Records
    BY <1>5, <2>1 DEF Memory
  <2> QED
    BY <1>5, <2>2 DEF Records
<1>7. e \in Seq(Blocks)
  BY <1>5, ConcatProperties
<1>8. length + n \in Nat
  <2> DEFINE x == Cat(B, c)
  <2>1. x \in Seq(Nat)
    BY <1>5, CatType
  <2> HIDE DEF x
  <2>2. Len(x) \in Nat
    BY <2>1, LenProperties
  <2> QED
    BY <1>2, <1>5, <2>2 DEF x
<1>9. /\ r \in StringRecords /\ r.chain = e
      /\ Len(got) = need => Sound(D, r) /\ Cat(D, e) = Cat(B, c) \o d
  <2>1. CASE Len(got) = need
    <3>1. r = Appended(B, c, at, space, n, d, got)
      BY <1>2, <2>1 DEF AppendRecord, Appended
    <3> HIDE DEF r
    <3>2. r \in StringRecords /\ Sound(D, r) /\ Cat(D, r.chain) = Cat(B, c) \o d
      <4>1. /\ Appends(B, c, last, at, space, n, d, got) /\ Len(got) = Need(space, n)
            /\ space = Capacity - at /\ space > 0
        BY <1>2, <2>1
      <4> QED
        BY <1>3, <3>1, <4>1, AppendSound
    <3>3. r.chain = e
      BY DEF r, AppendRecord
    <3> QED
      BY <3>2, <3>3, Zenon
  <2>2. CASE Len(got) # need
    <3> DEFINE y == length + n
    <3>1. r = [chain |-> e, at |-> at, space |-> space, length |-> y]
      BY <2>2 DEF AppendRecord
    <3> HIDE DEF r, e, y
    <3>2. y \in Nat
      BY <1>8 DEF y
    <3> QED
      BY <1>5, <1>6, <1>7, <2>2, <3>1, <3>2 DEF StringRecords
  <2> QED
    BY <2>1, <2>2
<1> DEFINE C == [Chains EXCEPT ![s] = r.chain]
<1>10. Apart(C, free', fresh')
  <2> DEFINE A == Available
             w == SubSeq(A, 1, k)
             E == [Chains EXCEPT ![s] = Chains[s] \o w]
  <2>1. A = Offer(free, fresh)
    BY DEF Available, Offer
  <2>2. free' = SubSeq(free, k + 1, Len(free)) /\ fresh' = IF k > Len(free) THEN fresh + k - Len(free) ELSE fresh
    BY DEF Allocate
  <2>3. k \in 0..Len(Offer(free, fresh)) /\ w = SubSeq(Offer(free, fresh), 1, k)
    BY <1>2, <2>1
  <2> HIDE DEF A, w
  <2>4. Apart(E, free', fresh')
    <3> HIDE DEF r, C, e
    <3>1. E = [Chains EXCEPT ![s] = Chains[s] \o w]
      OBVIOUS
    <3> HIDE DEF E
    <3> QED
      BY <1>1, <2>2, <2>3, <3>1, TakeApart
  <2>5. Chains[s] = str[s].chain
    BY DEF Chains
  <2>6. C = E
    <3> HIDE DEF r, e
    <3> QED
      BY <1>2, <1>9, <2>5, Zenon DEF w, A
  <2> QED
    BY <2>4, <2>6
<1>11. \A t \in Strings \ {s} : \A i \in 1..Len(str[t].chain) : D[str[t].chain[i]] = block[str[t].chain[i]]
  <2>1. ASSUME NEW t \in Strings \ {s}, NEW i \in 1..Len(str[t].chain)
        PROVE  D[str[t].chain[i]] = block[str[t].chain[i]]
    <3> DEFINE b == str[t].chain[i]
    <3>1. b \in Blocks
      BY <1>1, ChainOf
    <3>2. b # last /\ \A j \in 1..Len(got) : got[j] # b
      BY <1>2
    <3>3. D[b] = B[b] /\ B[b] = block[b]
      <4> HIDE DEF b
      <4> QED
        BY <1>2, <1>4, <3>1, <3>2, Zenon
    <3> QED
      BY <3>3
  <2> QED
    BY <2>1
<1>12. broken' \in SUBSET Strings /\ broken \ {s} \subseteq broken' /\ (s \notin broken' => Len(got) = need)
  BY <1>1
<1> HIDE DEF r, need, e
<1>13. s \notin broken' => Sound(D, r)
  BY <1>9, <1>12
<1>14. str' = [str EXCEPT ![s] = r]
  BY DEF r
<1>15. /\ IInv' /\ str'[s] = r
       /\ \A t \in Strings \ {s} : Cat(block', str'[t].chain) = Cat(block, str[t].chain)
  <2> HIDE DEF C
  <2>1. C = [Chains EXCEPT ![s] = r.chain]
    BY DEF C
  <2>2. Memory(block')
    BY <1>4 DEF D
  <2>3. s \notin broken' => Sound(block', r)
    BY <1>13 DEF D
  <2>4. \A t \in Strings \ {s} : \A i \in 1..Len(str[t].chain) : block'[str[t].chain[i]] = block[str[t].chain[i]]
    BY <1>11 DEF D
  <2> QED
    BY <1>9, <1>10, <1>12, <1>14, <2>1, <2>2, <2>3, <2>4, OneStringChanges
<1>16. ASSUME s \notin broken' PROVE Cat(block', str'[s].chain) = Cat(block, str[s].chain) \o d
  <2>1. Cat(D, e) = Cat(B, c) \o d
    BY <1>9, <1>12, <1>16
  <2>2. str'[s].chain = e
    BY <1>9, <1>15
  <2> QED
    BY <1>2, <2>1, <2>2, Zenon DEF D
<1> QED
  BY <1>15, <1>16 DEF Contents

\* The bytes that an append of n puts behind those already numbered.
Numbered(s, n) == [i \in 1..n |-> count[s] + i]

\* What AppendBytes does to the invariant, the contents and the rest.
LEMMA AppendStep ==
  ASSUME IInv, NEW s \in Strings, NEW n \in AppendSizes, AppendBytes(s, n)
  PROVE  /\ IInv' /\ Contents(s, Cat(block, str[s].chain) \o Numbered(s, n))
         /\ s \notin broken /\ (broken' = broken \/ broken' = broken \cup {s})
         /\ count' = [count EXCEPT ![s] = @ + n] /\ taken' = taken
<1> DEFINE new    == str[s].chain = << >>
           st     == IF new THEN Started(Available[1]) ELSE str[s]
           spare  == IF new THEN Tail(Available) ELSE Available
           last   == Last(st.chain)
           old    == IF new THEN [mem |-> << >>, offset |-> 0, used |-> 0] ELSE block[last]
           d      == [i \in 1..n |-> count[s] + i]
           piece(from, size) == SubSeq(d, from + 1, Min({from + size, n}))
           part(i) == piece(st.space + (i - 1) * Capacity, Capacity)
           need   == Need(st.space, n)
           got    == SubSeq(spare, 1, Min({need, Len(spare)}))
           end    == IF need = 0 THEN st.at + n ELSE Len(part(need))
           k      == Len(got) + (IF new THEN 1 ELSE 0)
<1>1. /\ s \notin broken
      /\ new => Available # << >>
      /\ Allocate(k)
      /\ block' = [b \in Blocks |->
          IF b = last
          THEN [old EXCEPT !.mem = SubSeq(@, 1, st.at) \o piece(0, st.space),
                           !.used = @ + Len(piece(0, st.space))]
          ELSE IF \E i \in DOMAIN got : got[i] = b
          THEN LET i == CHOOSE j \in DOMAIN got : got[j] = b
               IN [mem |-> part(i), offset |-> 0, used |-> Len(part(i))]
          ELSE block[b]]
      /\ str' = [str EXCEPT ![s] =
          [chain  |-> st.chain \o got,
           at     |-> IF Len(got) = need THEN end ELSE st.at,
           space  |-> IF Len(got) = need
                      THEN (IF need = 0 THEN st.space - n ELSE Capacity - end)
                      ELSE st.space,
           length |-> st.length + n]]
      /\ broken' = IF Len(got) = need THEN broken ELSE broken \cup {s}
      /\ count' = [count EXCEPT ![s] = @ + n]
      /\ taken' = taken
  BY DEF AppendBytes
<1>2. n \in Nat /\ TypeInv
  BY PoolAssumption DEF IInv
<1>3. count[s] \in Nat
  BY <1>2 DEF TypeInv
<1> HIDE DEF d
<1>4. d \in Seq(Nat) /\ Len(d) = n /\ d = Numbered(s, n)
  <2>1. d \in [1..n -> Nat] /\ d = Numbered(s, n)
    BY <1>2, <1>3 DEF d, Numbered
  <2> QED
    BY <1>2, <2>1
<1> DEFINE B == [block EXCEPT ![last] = old]
           c == st.chain
<1>5. c # << >> /\ last = c[Len(c)] /\ c \in Seq(Blocks) /\ last \in Blocks /\ (~new => old = block[last])
  <2>1. c # << >> /\ (~new => old = block[last])
    BY DEF Started
  <2>2. c \in Seq(Blocks)
    <3>1. CASE new
      <4>1. Available \in Seq(Blocks) /\ Available # << >>
        BY <1>1, <3>1, OfferOf
      <4>2. Available[1] \in Blocks
        BY <4>1
      <4> QED
        BY <3>1, <4>2 DEF Started
    <3>2. CASE ~new
      BY <1>2, <3>2, ChainOf
    <3> QED
      BY <3>1, <3>2
  <2> HIDE DEF c
  <2>3. Len(c) \in Nat \ {0} /\ c \in [1..Len(c) -> Blocks]
    BY <2>1, <2>2, LenProperties, EmptySeq
  <2>4. last = c[Len(c)]
    BY DEF Last, c
  <2> QED
    BY <2>1, <2>2, <2>3, <2>4
<1>6. Ready(s, B, c, st.at, st.space, st.length, n, d, got, k)
  <2>1. CASE new
    <3>1. st = Started(Available[1]) /\ spare = Tail(Available) /\ k = Len(got) + 1
          /\ old = [mem |-> << >>, offset |-> 0, used |-> 0]
      BY <2>1
    <3>2. c = <<Available[1]>> /\ st.at = 0 /\ st.space = Capacity /\ st.length = 0
      BY <3>1 DEF Started
    <3>3. last = Available[1]
      BY <1>5, <3>2
    <3> HIDE DEF k, c, st, spare, last, old, need, got
    <3>4. got = SubSeq(Tail(Available), 1, Min({Need(Capacity, n), Len(Tail(Available))}))
      BY <3>1, <3>2 DEF got, need
    <3>5. B = [block EXCEPT ![Available[1]] = [mem |-> << >>, offset |-> 0, used |-> 0]]
      BY <3>1, <3>3
    <3> HIDE DEF B
    <3>6. Ready(s, B, <<Available[1]>>, 0, Capacity, 0, n, d, got, Len(got) + 1)
      BY <1>1, <1>2, <1>4, <2>1, <3>4, <3>5, ReadyNew
    <3> QED
      BY <3>1, <3>2, <3>6, Zenon
  <2>2. CASE ~new
    <3>1. st = str[s] /\ spare = Available /\ old = block[last]
      BY <2>2
    <3>2. k = Len(got)
      <4>1. got \in Seq(Blocks)
        <5>1. /\ Available \in Seq(Blocks) /\ Once(Available)
          BY OfferOf
        <5>2. need \in Nat
          <6>1. st.space \in Nat
            BY <1>2, <2>2, ChainOf
          <6> QED
            BY <1>2, <6>1, NeedIs
        <5> HIDE DEF need, st
        <5>3. got = SubSeq(Available, 1, Min({need, Len(Available)}))
          BY <3>1
        <5> HIDE DEF got
        <5> QED
          BY <5>1, <5>2, <5>3, TakenWithout
      <4> HIDE DEF got
      <4>2. Len(got) \in Nat
        BY <4>1, LenProperties
      <4> QED
        BY <2>2, <4>2
    <3>3. B = block
      <4>1. block = [b \in Blocks |-> block[b]]
        BY <1>2 DEF TypeInv, Memory
      <4> QED
        BY <2>2, <4>1
    <3> HIDE DEF k, c, st, spare, last, old, need, got
    <3>4. got = SubSeq(Available, 1, Min({Need(str[s].space, n), Len(Available)}))
      BY <3>1 DEF got, need
    <3>5. Ready(s, block, str[s].chain, str[s].at, str[s].space, str[s].length, n, d, got, Len(got))
      BY <1>1, <1>2, <1>4, <2>2, <3>4, ReadyOld
    <3> QED
      BY <3>1, <3>2, <3>3, <3>5, Zenon DEF c
  <2> QED
    BY <2>1, <2>2
<1> HIDE DEF st, spare, got, old, last, new
<1>7. block' = Written(B, c[Len(c)], st.at, st.space, d, n, got)
  <2> DEFINE D == Written(B, last, st.at, st.space, d, n, got)
  <2>1. B[last] = old /\ \A b \in Blocks : b # last => B[b] = block[b]
    BY <1>2, <1>5 DEF TypeInv, Memory
  <2>2. ASSUME NEW b \in Blocks PROVE block'[b] = D[b]
    <3>1. CASE b = last
      BY <1>1, <2>1, <3>1 DEF Written, Filled, Piece
    <3>2. CASE b # last /\ \E i \in DOMAIN got : got[i] = b
      <4> DEFINE i == CHOOSE j \in DOMAIN got : got[j] = b
      <4>1. block'[b] = [mem |-> part(i), offset |-> 0, used |-> Len(part(i))]
        BY <1>1, <3>2
      <4>2. D[b] = NewBlock(Part(d, n, st.space, i))
        BY <3>2 DEF Written
      <4>3. part(i) = Part(d, n, st.space, i)
        BY DEF Part, Piece
      <4> HIDE DEF i, part, D
      <4> QED
        BY <4>1, <4>2, <4>3 DEF NewBlock
    <3>3. CASE b # last /\ ~ \E i \in DOMAIN got : got[i] = b
      <4>1. block'[b] = block[b]
        BY <1>1, <3>3
      <4>2. D[b] = B[b]
        BY <3>3 DEF Written
      <4> QED
        BY <2>1, <3>3, <4>1, <4>2
    <3> QED
      BY <3>1, <3>2, <3>3
  <2>3. block' = [b \in Blocks |-> block'[b]] /\ D = [b \in Blocks |-> D[b]]
    <3>1. block' = [b \in Blocks |-> block'[b]]
      BY <1>1
    <3>2. D = [b \in Blocks |-> D[b]]
      BY DEF Written
    <3> QED
      BY <3>1, <3>2
  <2> HIDE DEF D
  <2>4. block' = D
    BY <2>2, <2>3
  <2> QED
    BY <1>5, <2>4 DEF D
<1>8. str' = [str EXCEPT ![s] = AppendRecord(c, st.at, st.space, st.length, n, d, got)]
  <2>1. part(need) = Part(d, n, st.space, Need(st.space, n))
    BY DEF Part, Piece
  <2>2. end = AppendEnd(st.at, st.space, n, d)
    BY <2>1 DEF AppendEnd
  <2> HIDE DEF end, part
  <2> QED
    BY <1>1, <2>2 DEF AppendRecord
<1>9. count' \in [Strings -> Nat] /\ taken' \in [Strings -> Seq(Nat)]
  BY <1>1, <1>2, <1>3 DEF TypeInv
<1>10. broken' = IF Len(got) = Need(st.space, n) THEN broken ELSE broken \cup {s}
  BY <1>1
<1>11. Allocate(k) /\ s \notin broken
  BY <1>1
<1> DEFINE at == st.at
           space == st.space
           length == st.length
<1> HIDE DEF B, c, k, need, end, part, piece, at, space, length
<1>12. IInv' /\ Contents(s, Cat(block, str[s].chain) \o d)
  <2>1. Ready(s, B, c, at, space, length, n, d, got, k)
    BY <1>6 DEF at, space, length
  <2>2. block' = Written(B, c[Len(c)], at, space, d, n, got)
    BY <1>7 DEF at, space
  <2>3. str' = [str EXCEPT ![s] = AppendRecord(c, at, space, length, n, d, got)]
    BY <1>8 DEF at, space, length
  <2>4. broken' = IF Len(got) = Need(space, n) THEN broken ELSE broken \cup {s}
    BY <1>10 DEF space
  <2> QED
    BY <1>9, <1>11, <2>1, <2>2, <2>3, <2>4, AppendWorks
<1> QED
  BY <1>1, <1>4, <1>12, SMTT(30)

-----------------------------------------------------------------------------
(* pop: how many whole blocks go, and what is left.                        *)

Joins(x, y, z) == x \o y = z

\* The first k members of x are y, and the others z.
SplitsInto(S, x, k, y, z) ==
  /\ y \in Seq(S) /\ Len(y) = k /\ z \in Seq(S) /\ Len(z) = Len(x) - k
  /\ \A i \in 1..k : y[i] = x[i]
  /\ \A i \in 1..(Len(x) - k) : z[i] = x[k + i]

\* The two parts of a split sequence make it up again.
LEMMA SplitJoins ==
  ASSUME NEW S, NEW x \in Seq(S), NEW k \in 0..Len(x), NEW y, NEW z, SplitsInto(S, x, k, y, z)
  PROVE  Joins(y, z, x)
<1> DEFINE n == Len(x)
           w == y \o z
<1>1. n \in Nat /\ k \in Nat /\ k <= n
  BY LenProperties
<1>2. /\ y \in Seq(S) /\ Len(y) = k /\ z \in Seq(S) /\ Len(z) = n - k
      /\ \A i \in 1..k : y[i] = x[i]
      /\ \A i \in 1..(n - k) : z[i] = x[k + i]
  BY DEF SplitsInto
<1>3. w \in Seq(S) /\ Len(w) = Len(y) + Len(z)
      /\ \A i \in 1..(Len(y) + Len(z)) : w[i] = IF i <= Len(y) THEN y[i] ELSE z[i - Len(y)]
  BY <1>2, ConcatProperties
<1> HIDE DEF n, w
<1>4. Len(y) + Len(z) = n
  BY <1>1, <1>2
<1>5. Len(w) = n /\ \A i \in 1..n : w[i] = IF i <= k THEN y[i] ELSE z[i - k]
  BY <1>2, <1>3, <1>4, Zenon
<1>6. ASSUME NEW i \in 1..Len(w) PROVE w[i] = x[i]
  <2>1. i \in 1..n
    BY <1>5
  <2>2. CASE i <= k
    <3>1. i \in 1..k
      BY <1>1, <2>1, <2>2
    <3> QED
      BY <1>2, <1>5, <2>1, <2>2, <3>1
  <2>3. CASE ~(i <= k)
    <3>1. i - k \in 1..(n - k) /\ k + (i - k) = i
      BY <1>1, <2>1, <2>3
    <3>2. w[i] = z[i - k]
      BY <1>5, <2>1, <2>3
    <3> QED
      BY <1>2, <3>1, <3>2
  <2> QED
    BY <2>2, <2>3
<1>7. w = x
  <2>1. Len(w) = Len(x)
    BY <1>5 DEF n
  <2> QED
    BY <1>3, <1>6, <2>1, SeqEqual
<1> QED
  BY <1>7 DEF w, Joins

\* The sequences before and behind a place are a split.
LEMMA SplitAt ==
  ASSUME NEW S, NEW x \in Seq(S), NEW k \in 0..Len(x)
  PROVE  SplitsInto(S, x, k, SubSeq(x, 1, k), SubSeq(x, k + 1, Len(x)))
<1> DEFINE n == Len(x)
           a == k + 1
           y == SubSeq(x, 1, k)
           z == SubSeq(x, a, n)
<1>1. n \in Nat /\ x \in [1..n -> S]
  BY LenProperties
<1>2. y \in Seq(S) /\ Len(y) = k /\ \A i \in 1..k : y[i] = x[i]
  BY Prefix
<1> HIDE DEF n, y
<1>3. k \in 0..n /\ k \in Nat /\ a \in Int /\ n \in Int /\ k <= n
  BY <1>1 DEF n
<1>4. \A i \in a..n : x[i] \in S
  BY <1>1, <1>3
<1>5. n - a + 1 = n - k /\ (a <= n <=> n - k > 0) /\ n - k \in Nat /\ \A i \in 1..(n - k) : a + i - 1 = k + i
  BY <1>1, <1>3
<1> HIDE DEF a
<1>6. /\ z \in Seq(S)
      /\ Len(z) = IF a <= n THEN n - a + 1 ELSE 0
      /\ \A i \in 1..(n - a + 1) : z[i] = x[a + i - 1]
  BY <1>3, <1>4, SubSeqProperties
<1> HIDE DEF z
<1>7. Len(z) = n - k
  BY <1>5, <1>6
<1>8. \A i \in 1..(n - k) : z[i] = x[k + i]
  BY <1>5, <1>6
<1>9. SplitsInto(S, x, k, y, z)
  BY <1>2, <1>6, <1>7, <1>8 DEF SplitsInto, n
<1> QED
  BY <1>9 DEF y, z, a, n

\* What is left of y \o z without the bytes of y.
LeftBehind(S, y, z, x) ==
  /\ x \in Seq(S) /\ Len(y) \in 0..Len(x) /\ Len(x) = Len(y) + Len(z)
  /\ SubSeq(x, Len(y) + 1, Len(x)) = z

\* What is left of a sequence behind its beginning.
LEMMA RestIs ==
  ASSUME NEW S, NEW y \in Seq(S), NEW z \in Seq(S), NEW x, Joins(y, z, x)
  PROVE  LeftBehind(S, y, z, x)
<1> DEFINE k == Len(y)
           r == SubSeq(x, k + 1, Len(x))
<1>1. x \in Seq(S) /\ Len(x) = Len(y) + Len(z)
      /\ \A i \in 1..(Len(y) + Len(z)) : x[i] = IF i <= Len(y) THEN y[i] ELSE z[i - Len(y)]
  <2>1. y \o z \in Seq(S) /\ Len(y \o z) = Len(y) + Len(z)
        /\ \A i \in 1..(Len(y) + Len(z)) : (y \o z)[i] = IF i <= Len(y) THEN y[i] ELSE z[i - Len(y)]
    BY ConcatProperties
  <2> QED
    BY <2>1, Zenon DEF Joins
<1>2. k \in Nat /\ Len(z) \in Nat
  BY LenProperties
<1>3. k \in 0..Len(x) /\ Len(x) = k + Len(z)
  BY <1>1, <1>2
<1> DEFINE l == Len(x)
<1>4. r \in Seq(S) /\ Len(r) = l - k /\ \A i \in 1..(l - k) : r[i] = x[k + i]
  <2>1. SplitsInto(S, x, k, SubSeq(x, 1, k), SubSeq(x, k + 1, Len(x)))
    BY <1>1, <1>3, SplitAt
  <2> QED
    BY <2>1 DEF SplitsInto
<1> HIDE DEF l
<1>5. Len(r) = Len(z)
  BY <1>2, <1>3, <1>4 DEF l
<1>6. ASSUME NEW i \in 1..Len(r) PROVE r[i] = z[i]
  <2>1. i \in 1..(l - k) /\ k + i \in 1..(Len(y) + Len(z)) /\ ~(k + i <= Len(y)) /\ (k + i) - Len(y) = i
    BY <1>1, <1>2, <1>3, <1>4, <1>5
  <2> QED
    BY <1>1, <1>4, <2>1
<1>7. r = z
  BY <1>4, <1>5, <1>6, SeqEqual
<1> QED
  BY <1>1, <1>3, <1>7, Zenon DEF LeftBehind, k, r

\* The fields of a block that is cut.
LEMMA CutFields ==
  ASSUME NEW r \in Records, NEW cut, NEW q, q = [r EXCEPT !.offset = @ + cut, !.used = @ - cut]
  PROVE  q.mem = r.mem /\ q.offset = r.offset + cut /\ q.used = r.used - cut
BY DEF Records

\* A block inside its memory, and such a block that lost its first bytes y.
WellFormed(r) == r \in Records /\ r.offset + r.used <= Len(r.mem)
IsCut(r, cut, q, y) ==
  /\ q \in Records /\ q.offset + q.used = r.offset + r.used /\ q.offset + q.used <= Len(q.mem)
  /\ y \in Seq(Nat) /\ Len(y) = cut /\ Joins(y, BytesOf(q), BytesOf(r))

\* A cut block keeps the bytes behind the cut.
LEMMA CutOf ==
  ASSUME NEW r, WellFormed(r), NEW cut \in 0..r.used
  PROVE  IsCut(r, cut, [r EXCEPT !.offset = @ + cut, !.used = @ - cut], SubSeq(BytesOf(r), 1, cut))
<1> USE DEF WellFormed
<1> DEFINE q == [r EXCEPT !.offset = @ + cut, !.used = @ - cut]
           y == SubSeq(BytesOf(r), 1, cut)
<1>0. q = [r EXCEPT !.offset = @ + cut, !.used = @ - cut] /\ y = SubSeq(BytesOf(r), 1, cut)
  OBVIOUS
<1> HIDE DEF q, y
<1>1. r.mem \in Seq(Nat) /\ r.offset \in Nat /\ r.used \in Nat /\ cut \in Nat /\ cut <= r.used
  BY DEF Records
<1> DEFINE o == r.offset + cut
           u == r.used - cut
<1>2. o \in Nat /\ u \in Nat /\ o + u = r.offset + r.used
  BY <1>1
<1>3. q = [mem |-> r.mem, offset |-> o, used |-> u]
  BY <1>0 DEF Records, o, u
<1> HIDE DEF o, u
<1>4. q \in Records /\ q.mem = r.mem /\ q.offset = o /\ q.used = u
  <2>1. q.mem = r.mem /\ q.offset = o /\ q.used = u
    BY <1>0, CutFields, ZenonT(60) DEF o, u
  <2>2. [mem |-> r.mem, offset |-> o, used |-> u] \in Records
    <3> DEFINE m == r.mem
    <3>1. m \in Seq(Nat)
      BY <1>1
    <3> HIDE DEF m
    <3>2. [mem |-> m, offset |-> o, used |-> u] \in Records
      BY <1>2, <3>1, Zenon DEF Records
    <3> QED
      BY <3>2 DEF m
  <2> QED
    BY <1>3, <2>1, <2>2, Zenon
<1>5. q.offset + q.used = r.offset + r.used /\ q.offset + q.used <= Len(q.mem)
  BY <1>2, <1>4
<1> DEFINE b == BytesOf(r)
           e == BytesOf(q)
           z == SubSeq(b, cut + 1, Len(b))
<1>6. b \in Seq(Nat) /\ Len(b) = r.used /\ \A i \in 1..r.used : b[i] = r.mem[r.offset + i]
  BY BytesType
<1>7. e \in Seq(Nat) /\ Len(e) = u /\ \A i \in 1..u : e[i] = r.mem[o + i]
  <2>1. BytesOf(q) \in Seq(Nat) /\ Len(BytesOf(q)) = q.used
        /\ \A i \in 1..q.used : BytesOf(q)[i] = q.mem[q.offset + i]
    BY <1>4, <1>5, BytesType
  <2> QED
    BY <1>4, <2>1, Zenon
<1> HIDE DEF b, e
<1>8. /\ y \in Seq(Nat) /\ Len(y) = cut /\ z \in Seq(Nat) /\ Len(z) = Len(b) - cut
      /\ \A i \in 1..(Len(b) - cut) : z[i] = b[cut + i]
      /\ Joins(y, z, b)
  <2>1. cut \in 0..Len(b) /\ y = SubSeq(b, 1, cut)
    BY <1>0, <1>6 DEF b
  <2>2. SplitsInto(Nat, b, cut, SubSeq(b, 1, cut), SubSeq(b, cut + 1, Len(b)))
    BY <1>6, <2>1, SplitAt
  <2>3. SplitsInto(Nat, b, cut, y, z)
    BY <2>1, <2>2, Zenon
  <2> HIDE DEF z
  <2>4. Joins(y, z, b)
    BY <1>6, <2>1, <2>3, SplitJoins
  <2> QED
    BY <2>3, <2>4, Zenon DEF SplitsInto
<1> HIDE DEF z
<1>9. Len(b) - cut = u /\ Len(z) = Len(e)
  BY <1>6, <1>7, <1>8 DEF u
<1>10. ASSUME NEW i \in 1..Len(z) PROVE z[i] = e[i]
  <2>1. i \in 1..u /\ cut + i \in 1..r.used /\ r.offset + (cut + i) = o + i
    <3>1. i \in 1..u
      BY <1>7, <1>9
    <3> QED
      <4> DEFINE f == r.offset
                 w == r.used
      <4>1. f \in Nat /\ w \in Nat /\ cut \in Nat /\ cut <= w /\ u = w - cut /\ o = f + cut
        BY <1>1 DEF o, u
      <4> HIDE DEF f, w
      <4>2. cut + i \in 1..w /\ f + (cut + i) = o + i
        BY <3>1, <4>1
      <4> QED
        BY <3>1, <4>2 DEF f, w
  <2>2. z[i] = b[cut + i] /\ b[cut + i] = r.mem[r.offset + (cut + i)] /\ e[i] = r.mem[o + i]
    BY <1>6, <1>7, <1>8, <1>9, <2>1, Zenon
  <2> QED
    BY <2>1, <2>2, Zenon
<1>11. z = e
  BY <1>7, <1>8, <1>9, <1>10, SeqEqual
<1> QED
  <2>1. IsCut(r, cut, q, y)
    BY <1>4, <1>5, <1>7, <1>8, <1>11 DEF b, e, IsCut
  <2> QED
    BY <2>1 DEF q, y

\* The bytes in the first k blocks, and how many blocks fit in a buffer of n.
Size(B, c, k) == Len(Cat(B, SubSeq(c, 1, k)))
Fits(B, c, n, k) == Size(B, c, k) <= n /\ (k = Len(c) \/ Size(B, c, k + 1) > n)

\* The bytes in the first k blocks: none, one block's more, or all.
LEMMA SizeIs ==
  ASSUME NEW B, Memory(B), NEW c \in Seq(Blocks), NEW k \in 0..Len(c)
  PROVE  /\ Size(B, c, k) \in Nat /\ k \in Nat
         /\ k = 0 => Size(B, c, k) = 0
         /\ k = Len(c) => Size(B, c, k) = Len(Cat(B, c))
         /\ k # 0 => Size(B, c, k) = Size(B, c, k - 1) + B[c[k]].used
<1> DEFINE w == SubSeq(c, 1, k)
           x == Cat(B, w)
<1>1. Len(c) \in Nat /\ k \in Nat
  BY LenProperties
<1>2. w \in Seq(Blocks) /\ (k = 0 => w = << >>) /\ (k = Len(c) => w = c)
  BY Prefix
<1>3. Size(B, c, k) = Len(x)
  BY DEF Size
<1> HIDE DEF w
<1>4. x \in Seq(Nat)
  BY <1>2, CatType
<1> HIDE DEF x
<1>5. Len(x) \in Nat
  BY <1>4, LenProperties
<1>6. k = 0 => Len(x) = 0
  <2>1. k = 0 => x = << >>
    BY <1>2, CatEmpty DEF x
  <2> QED
    BY <2>1
<1>7. k = Len(c) => Len(x) = Len(Cat(B, c))
  BY <1>2 DEF x
<1>8. ASSUME k # 0 PROVE Len(x) = Size(B, c, k - 1) + B[c[k]].used
  <2> DEFINE j == k - 1
             v == SubSeq(c, 1, j)
             b == c[k]
             one == <<b>>
             y == Cat(B, v)
             z == BytesOf(B[b])
  <2>1. j \in 0..Len(c) /\ b \in Blocks /\ w = Append(v, b)
    BY <1>8, Prefix DEF w
  <2> HIDE DEF j
  <2>2. v \in Seq(Blocks)
    BY <2>1, Prefix
  <2> HIDE DEF v, b
  <2>3. w = v \o one /\ one \in Seq(Blocks)
    BY <2>1, <2>2, AppendIsConcat
  <2> HIDE DEF one
  <2>4. Cat(B, v \o one) = y \o Cat(B, one)
    BY <2>2, <2>3, CatConcat
  <2>5. Cat(B, one) = z
    BY <2>1, CatOne DEF one
  <2>6. y \in Seq(Nat)
    BY <2>2, CatType
  <2>7. z \in Seq(Nat) /\ Len(z) = B[b].used
    BY <2>1, BytesType DEF Memory
  <2>8. x = y \o z
    BY <2>3, <2>4, <2>5, Zenon DEF x
  <2> HIDE DEF y, z
  <2>9. Len(x) = Len(y) + Len(z)
    BY <2>6, <2>7, <2>8, ConcatProperties
  <2> QED
    BY <2>7, <2>9 DEF Size, y, v, j, b
<1> QED
  BY <1>1, <1>3, <1>5, <1>6, <1>7, <1>8

\* The place where a pop stops exists: the CHOOSE in PopBytes chooses one.
LEMMA PlaceExists ==
  ASSUME NEW B, Memory(B), NEW c \in Seq(Blocks), NEW n \in Nat
  PROVE  \E k \in 0..Len(c) : Fits(B, c, n, k)
<1> DEFINE N == {k \in 1..Len(c) : Size(B, c, k) > n}
<1>1. Len(c) \in Nat
  BY LenProperties
<1>2. CASE N = {}
  <2>1. Len(c) \in 0..Len(c)
    BY <1>1
  <2>2. Size(B, c, Len(c)) <= n
    <3>1. CASE Len(c) = 0
      <4>1. 0 \in 0..Len(c)
        BY <1>1
      <4>2. Size(B, c, 0) = 0
        BY <4>1, SizeIs
      <4> QED
        BY <3>1, <4>2
    <3>2. CASE Len(c) # 0
      <4>1. Len(c) \in 1..Len(c) /\ Len(c) \notin N
        BY <1>1, <1>2, <3>2
      <4>2. Size(B, c, Len(c)) \in Nat
        BY <2>1, SizeIs
      <4>3. ~(Size(B, c, Len(c)) > n)
        BY <4>1
      <4> DEFINE z == Size(B, c, Len(c))
      <4> HIDE DEF z
      <4>4. z \in Nat /\ ~(z > n)
        BY <4>2, <4>3 DEF z
      <4>5. z <= n
        BY <4>4
      <4> QED
        BY <4>5 DEF z
    <3> QED
      BY <3>1, <3>2
  <2> QED
    BY <2>1, <2>2 DEF Fits
<1>3. CASE N # {}
  <2>1. PICK k \in N : \A j \in N : k <= j
    <3>1. N \in SUBSET Nat
      BY <1>1
    <3> HIDE DEF N
    <3> QED
      BY <1>3, <3>1, LeastNumber
  <2> DEFINE m == k - 1
  <2>2. k \in 1..Len(c) /\ Size(B, c, k) > n /\ m \in 0..Len(c) /\ m + 1 = k /\ m \in Nat
    BY <1>1
  <2>3. ~(k <= m)
    BY <2>2
  <2>4. m \notin N
    <3> HIDE DEF m, N
    <3> QED
      BY <2>1, <2>3
  <2> HIDE DEF m
  <2>5. Size(B, c, m) \in Nat /\ (m = 0 => Size(B, c, m) = 0)
    BY <2>2, SizeIs
  <2>6. Size(B, c, m) <= n
    <3>1. CASE m = 0
      BY <2>5, <3>1
    <3>2. CASE m # 0
      <4>1. m \in 1..Len(c)
        BY <1>1, <2>2, <3>2
      <4> QED
        BY <2>4, <2>5, <4>1
    <3> QED
      BY <3>1, <3>2
  <2> QED
    BY <2>2, <2>6 DEF Fits
<1> QED
  BY <1>2, <1>3

\* The chain from block k on, and the bytes in it.
LEMMA ChainFrom ==
  ASSUME NEW B, Memory(B), NEW c \in Seq(Blocks), NEW k \in 1..Len(c),
         NEW rest, rest = SubSeq(c, k, Len(c))
  PROVE  /\ rest \in Seq(Blocks) /\ Len(rest) = Len(c) - (k - 1) /\ c[k] \in Blocks
         /\ \A i \in 1..Len(rest) : rest[i] = c[(k - 1) + i] /\ (k - 1) + i \in 1..Len(c)
         /\ Joins(Cat(B, SubSeq(c, 1, k - 1)), Cat(B, rest), Cat(B, c))
<1> DEFINE j == k - 1
           f == SubSeq(c, 1, j)
<1>1. Len(c) \in Nat /\ c \in [1..Len(c) -> Blocks]
  BY LenProperties
<1>2. j \in 0..Len(c) /\ j + 1 = k /\ k \in Nat /\ c[k] \in Blocks /\ j \in Nat
  BY <1>1
<1> HIDE DEF j
<1>3. SplitsInto(Blocks, c, j, SubSeq(c, 1, j), SubSeq(c, j + 1, Len(c)))
  BY <1>2, SplitAt
<1>4. SplitsInto(Blocks, c, j, f, rest)
  BY <1>2, <1>3
<1> HIDE DEF f
<1>5. Joins(f, rest, c)
  BY <1>2, <1>4, SplitJoins
<1>6. f \in Seq(Blocks) /\ rest \in Seq(Blocks) /\ Len(rest) = Len(c) - j
      /\ \A i \in 1..(Len(c) - j) : rest[i] = c[j + i]
  BY <1>4, Zenon DEF SplitsInto
<1>7. \A i \in 1..Len(rest) : i \in 1..(Len(c) - j) /\ j + i \in 1..Len(c)
  <2>1. \A i \in 1..(Len(c) - j) : j + i \in 1..Len(c)
    BY <1>1, <1>2
  <2> QED
    BY <1>6, <2>1, Zenon
<1>8. Cat(B, f \o rest) = Cat(B, f) \o Cat(B, rest)
  BY <1>6, CatConcat
<1>9. Joins(Cat(B, f), Cat(B, rest), Cat(B, c))
  BY <1>5, <1>8, Zenon DEF Joins
<1>10. \A i \in 1..Len(rest) : rest[i] = c[j + i] /\ j + i \in 1..Len(c)
  BY <1>6, <1>7, Zenon
<1> QED
  BY <1>2, <1>6, <1>9, <1>10, Zenon DEF j, f

IsConcat(S, x, y, z) ==
  /\ z \in Seq(S) /\ Len(z) = Len(x) + Len(y)
  /\ \A i \in 1..(Len(x) + Len(y)) : z[i] = IF i <= Len(x) THEN x[i] ELSE y[i - Len(x)]

\* Concatenation, place by place.
LEMMA ConcatIs ==
  ASSUME NEW S, NEW x \in Seq(S), NEW y \in Seq(S)
  PROVE  IsConcat(S, x, y, x \o y)
BY ConcatProperties DEF IsConcat

\* pop: the first k - 1 blocks go, block k becomes q, and y are the bytes it loses.
Cuts(B, c, k, q, y, D, rest, got) ==
  /\ Memory(B) /\ c \in Seq(Blocks) /\ Once(c) /\ k \in 1..Len(c)
  /\ q \in Records /\ q.offset + q.used <= Len(q.mem)
  /\ y \in Seq(Nat) /\ Joins(y, BytesOf(q), BytesOf(B[c[k]]))
  /\ D = [B EXCEPT ![c[k]] = q] /\ rest = SubSeq(c, k, Len(c))
  /\ got = Size(B, c, k - 1) + Len(y)

Leaves(B, c, k, q, D, rest, got) ==
  /\ Memory(D) /\ D[c[k]] = q /\ \A b \in Blocks : b # c[k] => D[b] = B[b]
  /\ got \in 0..Len(Cat(B, c)) /\ Len(Cat(D, rest)) = Len(Cat(B, c)) - got
  /\ Cat(D, rest) = SubSeq(Cat(B, c), got + 1, Len(Cat(B, c)))

\* Giving back the first blocks and cutting the next takes the first bytes.
LEMMA PopMemory ==
  ASSUME NEW B, NEW c, NEW k, NEW q, NEW y, NEW D, NEW rest, NEW got,
         Cuts(B, c, k, q, y, D, rest, got)
  PROVE  Leaves(B, c, k, q, D, rest, got)
<1> DEFINE b == c[k]
           w == SubSeq(c, 1, k - 1)
           p == Cat(B, w)
           x == Cat(B, c)
           z == BytesOf(q)
           o == BytesOf(B[b])
<1> USE DEF Cuts
<1>1. /\ rest \in Seq(Blocks) /\ Len(rest) = Len(c) - (k - 1) /\ b \in Blocks
      /\ \A i \in 1..Len(rest) : rest[i] = c[(k - 1) + i] /\ (k - 1) + i \in 1..Len(c)
      /\ Joins(p, Cat(B, rest), x)
  BY ChainFrom
<1>2. Memory(D) /\ D[b] = q /\ \A e \in Blocks : e # b => D[e] = B[e]
  BY <1>1 DEF Memory
<1>3. Len(c) \in Nat /\ k \in Nat /\ 1 \in 1..Len(rest) /\ rest # << >>
  <2>1. Len(c) \in Nat
    BY LenProperties
  <2>2. k \in Nat /\ 1 \in 1..Len(rest)
    BY <1>1, <2>1
  <2>3. rest # << >>
    <3>1. Len(rest) # 0
      BY <2>2
    <3> QED
      BY <1>1, <3>1, EmptySeq
  <2> QED
    BY <2>1, <2>2, <2>3
<1> DEFINE g == Tail(rest)
           one == <<b>>
<1>4. rest = one \o g /\ g \in Seq(Blocks) /\ one \in Seq(Blocks)
      /\ \A i \in 1..Len(g) : g[i] = rest[i + 1] /\ i + 1 \in 1..Len(rest) /\ i \in Nat
  <2>1. /\ g \in Seq(Blocks) /\ Len(g) = Len(rest) - 1 /\ \A i \in 1..Len(g) : g[i] = rest[i + 1]
    BY <1>1, <1>3, HeadTailProperties
  <2>2. rest[1] = b
    <3>1. (k - 1) + 1 = k
      BY <1>3
    <3> QED
      BY <1>1, <1>3, <3>1
  <2>3. Len(rest) \in Nat
    BY <1>1, LenProperties
  <2>4. \A i \in 1..Len(g) : i + 1 \in 1..Len(rest) /\ i \in Nat
    <3> DEFINE a == Len(g)
               e == Len(rest)
    <3>1. e \in Nat /\ a = e - 1
      BY <2>1, <2>3, Zenon
    <3> HIDE DEF a, e, g
    <3>2. \A i \in 1..a : i + 1 \in 1..e /\ i \in Nat
      BY <3>1, SMTT(30)
    <3> QED
      BY <3>2 DEF a, e
  <2>5. one \in Seq(Blocks) /\ Len(one) = 1 /\ one[1] = b
    BY <1>1
  <2> HIDE DEF g, one
  <2> DEFINE v == one \o g
  <2>6. v \in Seq(Blocks) /\ Len(v) = 1 + Len(g)
        /\ \A i \in 1..(1 + Len(g)) : v[i] = IF i <= 1 THEN one[i] ELSE g[i - 1]
    <3>1. v \in Seq(Blocks) /\ Len(v) = Len(one) + Len(g)
          /\ \A i \in 1..(Len(one) + Len(g)) : v[i] = IF i <= Len(one) THEN one[i] ELSE g[i - Len(one)]
      <4>1. IsConcat(Blocks, one, g, v)
        BY <2>1, <2>5, ConcatIs
      <4> HIDE DEF v
      <4> QED
        BY <4>1, Zenon DEF IsConcat
    <3> HIDE DEF v
    <3> QED
      BY <2>5, <3>1, Zenon
  <2> HIDE DEF v
  <2>7. Len(v) = Len(rest)
    BY <2>1, <2>3, <2>6
  <2>8. ASSUME NEW i \in 1..Len(v) PROVE v[i] = rest[i]
    <3>1. i \in 1..(1 + Len(g)) /\ i \in Nat
      BY <2>1, <2>3, <2>6
    <3>2. CASE i = 1
      <4>1. i <= 1
        BY <3>2
      <4>2. v[i] = one[1]
        BY <2>6, <3>1, <3>2, <4>1, Zenon
      <4> QED
        BY <2>2, <2>5, <3>2, <4>2, Zenon
    <3>3. CASE i # 1
      <4>1. ~(i <= 1) /\ i - 1 \in 1..Len(g) /\ (i - 1) + 1 = i
        <5> DEFINE l == Len(g)
        <5>1. l \in Nat /\ i \in 1..(1 + l)
          BY <2>1, <2>3, <3>1, SMTT(30)
        <5> HIDE DEF l
        <5>2. ~(i <= 1) /\ i - 1 \in 1..l /\ (i - 1) + 1 = i
          BY <3>3, <5>1, SMTT(30)
        <5> QED
          BY <5>2 DEF l
      <4> QED
        BY <2>1, <2>6, <3>1, <4>1, Zenon
    <3> QED
      BY <3>2, <3>3
  <2>9. v = rest
    BY <1>1, <2>6, <2>7, <2>8, SeqEqual
  <2> QED
    BY <2>1, <2>4, <2>5, <2>9, Zenon DEF v
<1> HIDE DEF g, one
<1>5. \A i \in 1..Len(g) : D[g[i]] = B[g[i]]
  <2>1. ASSUME NEW i \in 1..Len(g) PROVE D[g[i]] = B[g[i]]
    <3> DEFINE j == (k - 1) + (i + 1)
    <3>1. i + 1 \in 1..Len(rest) /\ g[i] = rest[i + 1] /\ i \in Nat /\ 1 <= i
      BY <1>4
    <3>2. rest[i + 1] = c[j] /\ j \in 1..Len(c)
      BY <1>1, <3>1, Zenon
    <3>3. j # k
      BY <1>3, <3>1, SMTT(30)
    <3> HIDE DEF j
    <3>4. c[j] # b /\ c[j] \in Blocks
      <4>1. c[j] # b
        BY <3>2, <3>3, Zenon DEF Once
      <4>2. c \in [1..Len(c) -> Blocks]
        BY LenProperties
      <4> QED
        BY <3>2, <4>1, <4>2
    <3> QED
      BY <1>2, <3>1, <3>2, <3>4, Zenon
  <2> QED
    BY <2>1
<1> DEFINE r == Cat(B, g)
<1>6. Cat(D, g) = r
  <2>1. \A i \in 1..Len(g) : BytesOf(B[g[i]]) = BytesOf(D[g[i]])
    BY <1>5
  <2>2. Cat(B, g) = Cat(D, g)
    <3> HIDE DEF r
    <3> QED
      BY <1>4, <2>1, CatSame
  <2> QED
    BY <2>2
<1>7. p \in Seq(Nat) /\ r \in Seq(Nat) /\ z \in Seq(Nat) /\ o \in Seq(Nat)
  <2>1. w \in Seq(Blocks)
    <3> DEFINE j == k - 1
    <3>1. j \in 0..Len(c)
      BY <1>3
    <3> HIDE DEF j
    <3>2. SubSeq(c, 1, j) \in Seq(Blocks)
      BY <3>1, Prefix
    <3> QED
      BY <3>2 DEF j
  <2> HIDE DEF w
  <2>2. p \in Seq(Nat) /\ r \in Seq(Nat)
    BY <1>4, <2>1, CatType
  <2>3. z \in Seq(Nat)
    BY BytesType
  <2>4. o \in Seq(Nat)
    BY <1>1, BytesType DEF Memory
  <2> QED
    BY <2>2, <2>3, <2>4
<1>8. Cat(B, rest) = o \o r
  <2>1. Cat(B, one \o g) = Cat(B, one) \o Cat(B, g)
    BY <1>4, CatConcat
  <2>2. Cat(B, one) = o
    BY <1>1, CatOne DEF one
  <2> QED
    BY <1>4, <2>1, <2>2, Zenon
<1>9. Cat(D, rest) = z \o r
  <2>1. Cat(D, one \o g) = Cat(D, one) \o Cat(D, g)
    BY <1>2, <1>4, CatConcat
  <2>2. Cat(D, one) = z
    <3>1. Cat(D, <<b>>) = BytesOf(D[b])
      BY <1>1, <1>2, CatOne
    <3> QED
      BY <1>2, <3>1, Zenon DEF one
  <2> QED
    BY <1>4, <1>6, <2>1, <2>2, Zenon
<1> DEFINE h == p \o y
           l == Cat(D, rest)
<1>10. y \o z = o
  BY Zenon DEF Joins
<1>11. Len(p) = Size(B, c, k - 1)
  BY DEF Size
<1> HIDE DEF p, r, z, o, x, l
<1>12. p \o (o \o r) = x
  BY <1>1, <1>8, Zenon DEF Joins
<1>13. h \in Seq(Nat) /\ Len(h) = Len(p) + Len(y)
  BY <1>7, ConcatProperties
<1>14. Joins(h, l, x)
  <2>1. SameJoin(y, z, r)
    BY <1>7, Assoc
  <2>2. o \o r = y \o (z \o r)
    BY <1>10, <2>1, Zenon DEF SameJoin
  <2>3. l \in Seq(Nat) /\ l = z \o r
    <3>1. z \o r \in Seq(Nat)
      BY <1>7, ConcatProperties
    <3> QED
      BY <1>9, <3>1, Zenon DEF l
  <2>4. SameJoin(p, y, l)
    BY <1>7, <2>3, Assoc
  <2> QED
    BY <1>12, <2>2, <2>3, <2>4, Zenon DEF SameJoin, Joins
<1>15. l \in Seq(Nat)
  <2>1. z \o r \in Seq(Nat)
    BY <1>7, ConcatProperties
  <2> QED
    BY <1>9, <2>1, Zenon DEF l
<1> HIDE DEF h
<1> DEFINE t == SubSeq(x, got + 1, Len(x))
<1>16. got = Len(h)
  BY <1>11, <1>13, Zenon
<1>17. x \in Seq(Nat) /\ got \in 0..Len(x) /\ Len(x) = got + Len(l) /\ t = l
  <2>1. LeftBehind(Nat, h, l, x)
    BY <1>13, <1>14, <1>15, RestIs
  <2> QED
    BY <1>16, <2>1, Zenon DEF LeftBehind
<1> HIDE DEF t
<1>18. Len(l) = Len(x) - got
  <2>1. Len(l) \in Nat /\ Len(x) \in Nat
    BY <1>15, <1>17, LenProperties
  <2> QED
    BY <1>17, <2>1
<1> QED
  BY <1>2, <1>17, <1>18, Zenon DEF l, x, t, b, Leaves

\* The fields of a block that is emptied.
LEMMA EmptyFields ==
  ASSUME NEW r \in Records, NEW q, q = [r EXCEPT !.offset = 0, !.used = 0]
  PROVE  q \in Records /\ q.mem = r.mem /\ q.offset = 0 /\ q.used = 0
BY DEF Records

\* What pop makes of the block that it leaves first.
Pops(B, c, n, m, kept, old, now, got) ==
  /\ Memory(B) /\ c \in Seq(Blocks) /\ c # << >> /\ n \in Nat
  /\ m \in 0..Len(c) /\ Fits(B, c, n, m)
  /\ kept = (IF m < Len(c) THEN m + 1 ELSE m) /\ old = B[c[kept]]
  /\ now = IF m < Len(c)
           THEN [old EXCEPT !.offset = @ + (n - Size(B, c, m)), !.used = @ - (n - Size(B, c, m))]
           ELSE [old EXCEPT !.offset = 0, !.used = 0]
  /\ got = IF m < Len(c) THEN n ELSE Size(B, c, m)

\* The block that PopBytes keeps, and what it loses.
LEMMA PopCut ==
  ASSUME NEW B, NEW c, NEW n, NEW m, NEW kept, NEW old, NEW now, NEW got,
         Pops(B, c, n, m, kept, old, now, got)
  PROVE  /\ kept \in 1..Len(c) /\ c[kept] \in Blocks
         /\ now \in Records /\ now.offset + now.used <= Len(now.mem)
         /\ \/ m < Len(c) /\ now.offset + now.used = old.offset + old.used
            \/ m = Len(c) /\ now.offset + now.used = 0
         /\ \E y \in Seq(Nat) : Joins(y, BytesOf(now), BytesOf(old)) /\ got = Size(B, c, kept - 1) + Len(y)
<1> USE DEF Pops
<1>1. Len(c) \in Nat \ {0} /\ c \in [1..Len(c) -> Blocks]
  BY LenProperties, EmptySeq
<1>2. kept \in 1..Len(c) /\ kept \in 0..Len(c) /\ kept # 0 /\ m \in Nat
  BY <1>1
<1>3. c[kept] \in Blocks
  BY <1>1, <1>2
<1>4. old \in Records /\ old.offset + old.used <= Len(old.mem)
  BY <1>3 DEF Memory
<1>5. Size(B, c, m) \in Nat /\ Size(B, c, m) <= n /\ (m = Len(c) \/ Size(B, c, m + 1) > n)
  BY SizeIs DEF Fits
<1>6. Size(B, c, kept) = Size(B, c, kept - 1) + old.used /\ Size(B, c, kept) \in Nat
  BY <1>2, SizeIs
<1>7. old.used \in Nat /\ old.offset \in Nat
  BY <1>4 DEF Records
<1>8. CASE m < Len(c)
  <2> DEFINE z == Size(B, c, m)
             cut == n - z
  <2>1. kept = m + 1 /\ kept - 1 = m /\ got = n
    BY <1>2, <1>8
  <2>2. z \in Nat /\ z <= n /\ Size(B, c, kept) > n /\ Size(B, c, kept) = z + old.used
    BY <1>2, <1>5, <1>6, <1>8, <2>1
  <2> HIDE DEF z
  <2> DEFINE u == old.used
  <2>3. cut \in 0..u /\ z + cut = n
    <3>1. u \in Nat /\ z + u > n
      BY <1>7, <2>2
    <3> HIDE DEF u
    <3> QED
      BY <2>2, <3>1
  <2> DEFINE y == SubSeq(BytesOf(old), 1, cut)
  <2>4. now = [old EXCEPT !.offset = @ + cut, !.used = @ - cut]
    BY <1>8 DEF z
  <2> HIDE DEF cut, y, u
  <2>5. /\ now \in Records /\ now.offset + now.used = old.offset + old.used
        /\ now.offset + now.used <= Len(now.mem)
        /\ y \in Seq(Nat) /\ Len(y) = cut /\ Joins(y, BytesOf(now), BytesOf(old))
    <3>1. y = SubSeq(BytesOf(old), 1, cut) /\ cut \in 0..old.used
      BY <2>3 DEF y, u
    <3>2. WellFormed(old)
      BY <1>4 DEF WellFormed
    <3>3. IsCut(old, cut, [old EXCEPT !.offset = @ + cut, !.used = @ - cut], SubSeq(BytesOf(old), 1, cut))
      BY <3>1, <3>2, CutOf
    <3>4. IsCut(old, cut, now, y)
      BY <2>4, <3>1, <3>3, Zenon
    <3> QED
      BY <3>4 DEF IsCut
  <2>6. got = Size(B, c, kept - 1) + Len(y)
    BY <2>1, <2>3, <2>5, SMTT(30) DEF z
  <2> QED
    BY <1>2, <1>3, <1>8, <2>5, <2>6
<1>9. CASE ~(m < Len(c))
  <2>1. m = Len(c) /\ kept = m /\ got = Size(B, c, kept)
    BY <1>1, <1>9
  <2> DEFINE e == old.mem
             y == BytesOf(old)
  <2>2. e \in Seq(Nat)
    BY <1>4 DEF Records
  <2> HIDE DEF e
  <2>3. now \in Records /\ now.offset = 0 /\ now.used = 0 /\ now.mem = e
    BY <1>4, <1>9, EmptyFields DEF e
  <2>4. Len(e) \in Nat
    BY <2>2, LenProperties
  <2>5. now.offset + now.used = 0 /\ now.offset + now.used <= Len(now.mem)
    BY <2>3, <2>4
  <2>6. BytesOf(now) \in Seq(Nat) /\ Len(BytesOf(now)) = 0
    BY <2>3, <2>5, BytesType
  <2>7. BytesOf(now) = << >>
    BY <2>6, EmptySeq
  <2>8. y \in Seq(Nat) /\ Len(y) = old.used
    BY <1>4, BytesType
  <2> HIDE DEF y
  <2>9. y \o << >> = y
    BY <2>8, ConcatEmptySeq
  <2>10. Joins(y, BytesOf(now), BytesOf(old))
    BY <2>7, <2>9, Zenon DEF Joins, y
  <2>11. got = Size(B, c, kept - 1) + Len(y)
    BY <1>6, <2>1, <2>8
  <2> QED
    BY <1>2, <1>3, <2>1, <2>3, <2>5, <2>8, <2>10, <2>11
<1> QED
  BY <1>8, <1>9

\* What a pop into a buffer of n bytes gets from x, and what it leaves.
Fetched(x, n) == IF n < Len(x) THEN n ELSE Len(x)
Rest(x, n) == SubSeq(x, Fetched(x, n) + 1, Len(x))

\* What PopBytes does to the invariant, the contents and the rest.
LEMMA PopStep ==
  ASSUME IInv, NEW s \in Strings, NEW n \in PopSizes, PopBytes(s, n),
         NEW x, x = Cat(block, str[s].chain)
  PROVE  /\ IInv' /\ Contents(s, Rest(x, n))
         /\ taken' = [taken EXCEPT ![s] = SubSeq(x, 1, Fetched(x, n))]
         /\ s \notin broken /\ broken' = broken /\ count' = count
<1> DEFINE c       == str[s].chain
           size(m) == Len(Content(SubSeq(c, 1, m)))
           m       == CHOOSE k \in 0..Len(c) :
                        size(k) <= n /\ (k = Len(c) \/ size(k + 1) > n)
           kept    == IF m < Len(c) THEN m + 1 ELSE m
           cut     == n - size(m)
           b       == c[kept]
           now     == IF m < Len(c)
                      THEN [block[b] EXCEPT !.offset = @ + cut, !.used = @ - cut]
                      ELSE [block[b] EXCEPT !.offset = 0, !.used = 0]
           end     == now.offset + now.used
           got     == IF m < Len(c) THEN n ELSE size(m)
<1>1. /\ s \notin broken
      /\ c = << >> => taken' = [taken EXCEPT ![s] = << >>] /\ UNCHANGED <<block, str, free, fresh>>
      /\ c # << >> =>
           /\ taken' = [taken EXCEPT ![s] = SubSeq(Content(c), 1, got)]
           /\ block' = [block EXCEPT ![b] = now]
           /\ str' = [str EXCEPT ![s] =
                        Popped(@, SubSeq(c, kept, Len(c)), kept = Len(c), end, got)]
           /\ Deallocate(SubSeq(c, 1, kept - 1))
      /\ count' = count /\ broken' = broken
  BY ZenonT(60) DEF PopBytes
<1>2. TypeInv /\ Apart(Chains, free, fresh) /\ Sound(block, str[s]) /\ Memory(block) /\ n \in Nat
  BY <1>1, PoolAssumption DEF IInv, TypeInv
<1>3. c \in Seq(Blocks) /\ Len(c) \in Nat /\ str[s].at \in Nat /\ str[s].space \in Nat
      /\ str[s].length = Len(x) /\ Chains[s] = c
  BY <1>2, ChainOf DEF Sound
<1> DEFINE y == Cat(block, c)
<1>4. x \in Seq(Nat) /\ Len(x) \in Nat
  <2>1. y \in Seq(Nat)
    <3> HIDE DEF c
    <3> QED
      BY <1>2, <1>3, CatType
  <2>2. x \in Seq(Nat)
    BY <2>1
  <2> QED
    BY <2>2, LenProperties
<1> HIDE DEF size, m, kept, cut, now, end, got, y
<1>5. CASE c = << >>
  <2>1. x = << >>
    BY <1>5, CatEmpty
  <2>2. Len(x) = 0
    BY <2>1
  <2>3. Fetched(x, n) = 0
    <3>1. ~(n < 0)
      BY <1>2
    <3> QED
      BY <2>2, <3>1 DEF Fetched
  <2>4. SubSeq(x, 1, 0) = << >> /\ Rest(x, n) = << >>
    <3>1. 0 \in 0..Len(x)
      BY <2>2
    <3>2. SubSeq(x, 1, 0) = << >>
      BY <1>4, <3>1, Prefix
    <3>3. SubSeq(x, 1, 0) = Rest(x, n)
      BY <2>2, <2>3 DEF Rest
    <3> QED
      BY <3>2, <3>3
  <2>5. /\ taken' = [taken EXCEPT ![s] = << >>] /\ block' = block /\ str' = str
        /\ free' = free /\ fresh' = fresh /\ count' = count /\ broken' = broken
    BY <1>1, <1>5
  <2>6. taken' \in [Strings -> Seq(Nat)]
    BY <1>2, <2>5 DEF TypeInv
  <2>7. TypeInv'
    BY <1>2, <2>5, <2>6 DEF TypeInv
  <2>8. Chains' = Chains
    BY <2>5 DEF Chains
  <2>9. IInv'
    BY <2>5, <2>7, <2>8 DEF IInv
  <2>10. Contents(s, Rest(x, n))
    BY <2>1, <2>4, <2>5 DEF Contents
  <2> QED
    BY <1>1, <2>3, <2>4, <2>5, <2>9, <2>10
<1>6. CASE c # << >>
  <2>1. /\ taken' = [taken EXCEPT ![s] = SubSeq(Content(c), 1, got)]
        /\ block' = [block EXCEPT ![b] = now]
        /\ str' = [str EXCEPT ![s] =
                     Popped(@, SubSeq(c, kept, Len(c)), kept = Len(c), end, got)]
        /\ free' = free \o SubSeq(c, 1, kept - 1) /\ fresh' = fresh
    BY <1>1, <1>6 DEF Deallocate
  <2>2. Content(c) = x
    BY ContentIs
  <2>3. \A k : size(k) = Size(block, c, k)
    BY ContentIs DEF size, Size
  <2>4. m \in 0..Len(c) /\ Fits(block, c, n, m)
    <3>1. PICK j \in 0..Len(c) : Fits(block, c, n, j)
      <4> HIDE DEF c
      <4> QED
        BY <1>2, <1>3, PlaceExists
    <3>2. m = CHOOSE k \in 0..Len(c) : Fits(block, c, n, k)
      <4>1. \A k : Fits(block, c, n, k) <=> size(k) <= n /\ (k = Len(c) \/ size(k + 1) > n)
        BY <2>3 DEF Fits
      <4> HIDE DEF c
      <4> QED
        BY <4>1, Zenon DEF m
    <3> HIDE DEF c
    <3> QED
      BY <3>1, <3>2, Zenon
  <2> DEFINE D == block'
             old == block[b]
             rest == SubSeq(c, kept, Len(c))
             r == Popped(str[s], rest, kept = Len(c), end, got)
  <2>5. /\ kept = IF m < Len(c) THEN m + 1 ELSE m
        /\ now = IF m < Len(c)
                 THEN [old EXCEPT !.offset = @ + (n - Size(block, c, m)), !.used = @ - (n - Size(block, c, m))]
                 ELSE [old EXCEPT !.offset = 0, !.used = 0]
        /\ got = IF m < Len(c) THEN n ELSE Size(block, c, m)
        /\ end = now.offset + now.used
    <3>1. cut = n - Size(block, c, m)
      BY <2>3 DEF cut
    <3>2. size(m) = Size(block, c, m)
      BY <2>3
    <3> HIDE DEF c
    <3> QED
      BY <3>1, <3>2, Zenon DEF kept, now, got, end
  <2>6. str' = [str EXCEPT ![s] = r] /\ D = [block EXCEPT ![b] = now]
    BY <1>2, <2>1 DEF TypeInv
  <2> HIDE DEF c, D
  <2>7. /\ kept \in 1..Len(c) /\ b \in Blocks
        /\ now \in Records /\ now.offset + now.used <= Len(now.mem)
        /\ \/ m < Len(c) /\ now.offset + now.used = old.offset + old.used
           \/ m = Len(c) /\ now.offset + now.used = 0
        /\ \E z \in Seq(Nat) : Joins(z, BytesOf(now), BytesOf(old)) /\ got = Size(block, c, kept - 1) + Len(z)
    <3>1. Memory(block) /\ c \in Seq(Blocks) /\ c # << >> /\ n \in Nat /\ old = block[c[kept]]
          /\ m \in 0..Len(c) /\ Fits(block, c, n, m)
      BY <1>2, <1>3, <1>6, <2>4
    <3> HIDE DEF old, b, rest
    <3>2. /\ kept \in 1..Len(c) /\ c[kept] \in Blocks
          /\ now \in Records /\ now.offset + now.used <= Len(now.mem)
          /\ \/ m < Len(c) /\ now.offset + now.used = old.offset + old.used
             \/ m = Len(c) /\ now.offset + now.used = 0
          /\ \E z \in Seq(Nat) : Joins(z, BytesOf(now), BytesOf(old)) /\ got = Size(block, c, kept - 1) + Len(z)
      <4>1. Pops(block, c, n, m, kept, old, now, got)
        BY <2>5, <3>1, Zenon DEF Pops
      <4> QED
        BY <4>1, PopCut
    <3> QED
      BY <3>2 DEF b
  <2>8. PICK z \in Seq(Nat) : Joins(z, BytesOf(now), BytesOf(old)) /\ got = Size(block, c, kept - 1) + Len(z)
    BY <2>7
  <2>9. OnceInChains(Chains) /\ Once(c)
    <3>1. OnceInChains(Chains)
      BY <1>2 DEF Apart
    <3>2. \A i, j \in 1..Len(c) : c[i] = c[j] => i = j
      BY <1>3, <3>1 DEF OnceInChains
    <3> QED
      BY <3>1, <3>2 DEF Once
  <2> HIDE DEF rest
  <2>10. /\ Memory(D) /\ D[b] = now /\ \A e \in Blocks : e # b => D[e] = block[e]
         /\ got \in 0..Len(y) /\ Len(Cat(D, rest)) = Len(y) - got
         /\ Cat(D, rest) = SubSeq(y, got + 1, Len(y))
    <3>1. Memory(block) /\ c \in Seq(Blocks) /\ Once(c) /\ kept \in 1..Len(c) /\ now \in Records
          /\ now.offset + now.used <= Len(now.mem) /\ rest = SubSeq(c, kept, Len(c))
          /\ Joins(z, BytesOf(now), BytesOf(block[c[kept]])) /\ D = [block EXCEPT ![c[kept]] = now]
          /\ got = Size(block, c, kept - 1) + Len(z)
      BY <1>2, <1>3, <2>6, <2>7, <2>8, <2>9 DEF rest
    <3> HIDE DEF old, b, rest
    <3>2. /\ Memory(D) /\ D[c[kept]] = now /\ \A e \in Blocks : e # c[kept] => D[e] = block[e]
          /\ got \in 0..Len(y) /\ Len(Cat(D, rest)) = Len(y) - got
          /\ Cat(D, rest) = SubSeq(y, got + 1, Len(y))
      <4>1. Cuts(block, c, kept, now, z, D, rest, got)
        BY <3>1, Zenon DEF Cuts
      <4>2. Leaves(block, c, kept, now, D, rest, got)
        BY <4>1, PopMemory
      <4> QED
        BY <4>2, Zenon DEF Leaves, y
    <3> QED
      BY <3>2 DEF b
  <2>11. y = x
    BY DEF y, c
  <2>12. got = Fetched(x, n)
    <3> DEFINE l == Len(x)
    <3>1. got \in 0..l /\ l \in Nat
      BY <1>4, <2>10, <2>11
    <3> HIDE DEF l
    <3>2. CASE m < Len(c)
      <4>1. got = n
        BY <2>5, <3>2
      <4>2. n = IF n < l THEN n ELSE l
        BY <3>1, <4>1
      <4> QED
        BY <4>1, <4>2 DEF l, Fetched
    <3>3. CASE ~(m < Len(c))
      <4>1. m = Len(c)
        BY <1>3, <2>4, <3>3
      <4>2. Size(block, c, m) = l
        BY <1>2, <1>3, <2>4, <2>11, <4>1, SizeIs DEF l, y
      <4>3. got = l /\ l <= n
        BY <2>4, <2>5, <3>3, <4>2 DEF Fits
      <4>4. l = IF n < l THEN n ELSE l
        BY <1>2, <3>1, <4>3
      <4> QED
        BY <4>3, <4>4 DEF l, Fetched
    <3> QED
      BY <3>2, <3>3
  <2>13. /\ SubSeq(x, 1, got) \in Seq(Nat) /\ taken' = [taken EXCEPT ![s] = SubSeq(x, 1, got)]
         /\ taken' \in [Strings -> Seq(Nat)]
    <3> DEFINE f == SubSeq(x, 1, got)
    <3>1. f \in Seq(Nat)
      BY <1>4, <2>10, <2>11, Prefix
    <3>2. taken' = [taken EXCEPT ![s] = f]
      BY <2>1, <2>2, Zenon
    <3> HIDE DEF f
    <3>3. taken' \in [Strings -> Seq(Nat)]
      BY <1>2, <3>1, <3>2 DEF TypeInv
    <3> QED
      BY <3>1, <3>2, <3>3 DEF f
  <2> DEFINE C == [Chains EXCEPT ![s] = rest]
  <2>14. Apart(C, free', fresh') /\ rest \in Seq(Blocks) /\ Len(rest) = Len(c) - (kept - 1)
         /\ \A i \in 1..(Len(c) - (kept - 1)) : rest[i] = c[(kept - 1) + i]
    <3> DEFINE j == kept - 1
    <3>1. j \in 0..Len(c) /\ j + 1 = kept
      BY <1>3, <2>7
    <3> HIDE DEF j
    <3>2. rest = SubSeq(Chains[s], j + 1, Len(Chains[s])) /\ j \in 0..Len(Chains[s])
      BY <1>3, <3>1 DEF rest, c
    <3>3. free' = free \o SubSeq(Chains[s], 1, j)
      BY <1>3, <2>1 DEF j, c
    <3>4. C = [Chains EXCEPT ![s] = rest]
      OBVIOUS
    <3> HIDE DEF C
    <3>5. /\ Apart(C, free', fresh) /\ rest \in Seq(Blocks) /\ Len(rest) = Len(Chains[s]) - j
          /\ \A i \in 1..(Len(Chains[s]) - j) : rest[i] = Chains[s][j + i]
      <4>1. Apart(Chains, free, fresh)
        BY <1>2
      <4> HIDE DEF b, old
      <4> QED
        <5>1. Gives(Chains, free, fresh, s, j, rest, C, free')
          BY <3>2, <3>3, <3>4, <4>1, Zenon DEF Gives
        <5> QED
          BY <5>1, GiveApart
    <3> QED
      BY <1>3, <2>1, <3>5, Zenon DEF j, c
  <2>15. Last(rest) = c[Len(c)] /\ Len(c) \in 1..Len(c)
    <3>1. Len(c) - (kept - 1) \in 1..(Len(c) - (kept - 1)) /\ (kept - 1) + (Len(c) - (kept - 1)) = Len(c)
          /\ Len(c) \in 1..Len(c)
      BY <1>3, <2>7
    <3> QED
      BY <2>14, <3>1 DEF Last
  <2> DEFINE at == IF kept = Len(c) THEN end ELSE str[s].at
             space == IF kept = Len(c) THEN Capacity - end ELSE str[s].space
  <2>16. r = [chain |-> rest, at |-> at, space |-> space, length |-> Len(x) - got]
    BY <1>3 DEF Popped
  <2> HIDE DEF r, at, space
  <2>17. /\ r.chain = rest /\ r.at = at /\ r.space = space /\ r.length = Len(x) - got
    BY <2>16
  <2>18. Capacity \in Nat /\ Capacity > 0
    BY PoolAssumption
  <2>19. /\ at = D[Last(rest)].offset + D[Last(rest)].used
         /\ space = Capacity - at /\ space > 0 /\ at \in Nat
    <3> DEFINE last == c[Len(c)]
    <3>1. str[s].at = block[last].offset + block[last].used
          /\ str[s].space = Capacity - str[s].at /\ str[s].space > 0
      BY <1>2, <1>6 DEF Sound, Last, c
    <3>2. CASE kept = Len(c)
      <4>1. b = last /\ at = end /\ space = Capacity - end
        BY <3>2 DEF at, space
      <4>2. end = 0 \/ end = str[s].at
        BY <2>5, <2>7, <3>1, <4>1
      <4>3. Capacity - end > 0 /\ end \in Nat
        BY <1>3, <2>18, <3>1, <4>2
      <4> QED
        BY <2>5, <2>10, <2>15, <4>1, <4>3
    <3>3. CASE kept # Len(c)
      <4>1. at = str[s].at /\ space = str[s].space
        BY <3>3 DEF at, space
      <4>2. last # b
        BY <2>7, <2>9, <2>15, <3>3, Zenon DEF Once
      <4>3. last \in Blocks
        <5>1. c \in [1..Len(c) -> Blocks]
          BY <1>3, LenProperties
        <5> QED
          BY <2>15, <5>1
      <4>4. D[last] = block[last]
        BY <2>10, <4>2, <4>3, Zenon
      <4> QED
        BY <1>3, <2>15, <3>1, <4>1, <4>4
    <3> QED
      BY <3>2, <3>3
  <2>20. r \in StringRecords
    <3> DEFINE l == Len(x) - got
    <3>1. l \in Nat /\ space \in Nat
      BY <1>4, <2>10, <2>11, <2>18, <2>19, SMTT(30)
    <3>2. r = [chain |-> rest, at |-> at, space |-> space, length |-> l]
      BY <2>16
    <3> HIDE DEF l
    <3> QED
      BY <2>14, <2>19, <3>1, <3>2, Zenon DEF StringRecords
  <2>21. Sound(D, r)
    <3>1. r.length = Len(Cat(D, r.chain))
      BY <2>10, <2>11, <2>17
    <3>2. /\ r.at = D[Last(r.chain)].offset + D[Last(r.chain)].used
          /\ r.space = Capacity - r.at /\ r.space > 0
      BY <2>17, <2>19
    <3> QED
      BY <3>1, <3>2 DEF Sound
  <2>22. \A t \in Strings \ {s} : \A i \in 1..Len(str[t].chain) : D[str[t].chain[i]] = block[str[t].chain[i]]
    <3>1. ASSUME NEW t \in Strings \ {s}, NEW i \in 1..Len(str[t].chain)
          PROVE  D[str[t].chain[i]] = block[str[t].chain[i]]
      <4> DEFINE e == str[t].chain[i]
      <4>1. e \in Blocks
        BY <1>2, ChainOf
      <4>2. e # b
        <5>1. Chains[t] = str[t].chain
          BY DEF Chains
        <5> QED
          BY <1>3, <2>7, <2>9, <5>1, SameBlock, SMTT(30)
      <4> HIDE DEF e
      <4>3. D[e] = block[e]
        BY <2>10, <4>1, <4>2, Zenon
      <4> QED
        BY <4>3 DEF e
    <3> QED
      BY <3>1
  <2>23. /\ IInv' /\ str'[s] = r
         /\ \A t \in Strings \ {s} : Cat(block', str'[t].chain) = Cat(block, str[t].chain)
    <3>1. C = [Chains EXCEPT ![s] = r.chain]
      BY <2>17
    <3> HIDE DEF C
    <3>2. Memory(block') /\ Sound(block', r)
      BY <2>10, <2>21 DEF D
    <3>3. \A t \in Strings \ {s} : \A i \in 1..Len(str[t].chain) : block'[str[t].chain[i]] = block[str[t].chain[i]]
      BY <2>22 DEF D
    <3>4. count' \in [Strings -> Nat] /\ broken' \in SUBSET Strings /\ broken \ {s} \subseteq broken'
      BY <1>1, <1>2 DEF TypeInv
    <3> QED
      BY <2>6, <2>13, <2>14, <2>20, <3>1, <3>2, <3>3, <3>4, OneStringChanges, ZenonT(60)
  <2>24. Cat(block', str'[s].chain) = Rest(x, n)
    BY <2>10, <2>11, <2>12, <2>17, <2>23, Zenon DEF D, Rest
  <2> QED
    BY <1>1, <2>12, <2>13, <2>23, <2>24 DEF Contents
<1> QED
  BY <1>5, <1>6, SMTT(30)

\* What Clear does to the invariant, the contents and the rest.
LEMMA ClearStep ==
  ASSUME IInv, NEW s \in Strings, Clear(s)
  PROVE  /\ IInv' /\ Contents(s, << >>) /\ broken' = broken \ {s}
         /\ count' = [count EXCEPT ![s] = 0] /\ taken' = [taken EXCEPT ![s] = << >>]
<1> DEFINE r == Initial
           c == str[s].chain
           l == Len(c)
           rest == << >>
           C == [Chains EXCEPT ![s] = rest]
<1>1. /\ free' = free \o c /\ fresh' = fresh /\ block' = block
      /\ str' = [str EXCEPT ![s] = r] /\ broken' = broken \ {s}
      /\ count' = [count EXCEPT ![s] = 0] /\ taken' = [taken EXCEPT ![s] = << >>]
  BY DEF Clear, Deallocate
<1>2. TypeInv /\ Apart(Chains, free, fresh) /\ Memory(block)
  BY DEF IInv, TypeInv
<1>3. c \in Seq(Blocks) /\ l \in Nat /\ Chains[s] = c
  BY <1>2, ChainOf
<1>4. r.chain = << >> /\ r.length = 0 /\ r \in StringRecords
  BY DEF Initial, StringRecords
<1>5. Sound(block, r)
  BY <1>4, CatEmpty DEF Sound
<1> HIDE DEF r, c
<1>6. SubSeq(c, l + 1, l) = rest
  <2>1. l + 1 \in Int /\ l \in Int /\ l < l + 1
    BY <1>3
  <2> HIDE DEF l
  <2> QED
    BY <2>1, SubSeqEmpty
<1>7. SubSeq(c, 1, l) = c
  BY <1>3, SubSeqFull
<1>8. l \in 0..l
  BY <1>3
<1> HIDE DEF rest
<1>9. Gives(Chains, free, fresh, s, l, rest, C, free')
  BY <1>1, <1>2, <1>3, <1>6, <1>7, <1>8, Zenon DEF Gives
<1>10. Apart(C, free', fresh')
  BY <1>1, <1>9, GiveApart
<1>11. /\ count' \in [Strings -> Nat] /\ taken' \in [Strings -> Seq(Nat)]
       /\ broken' \in SUBSET Strings /\ broken \ {s} \subseteq broken'
  BY <1>1, <1>2 DEF TypeInv
<1>12. /\ IInv' /\ str'[s] = r
       /\ \A t \in Strings \ {s} : Cat(block', str'[t].chain) = Cat(block, str[t].chain)
  <2>1. C = [Chains EXCEPT ![s] = r.chain]
    BY <1>4 DEF rest
  <2> HIDE DEF C
  <2>2. Memory(block') /\ Sound(block', r)
    BY <1>1, <1>2, <1>5
  <2>3. \A t \in Strings \ {s} : \A i \in 1..Len(str[t].chain) : block'[str[t].chain[i]] = block[str[t].chain[i]]
    BY <1>1
  <2> QED
    BY <1>1, <1>4, <1>10, <1>11, <2>1, <2>2, <2>3, OneStringChanges
<1>13. Cat(block', str'[s].chain) = << >>
  BY <1>4, <1>12, CatEmpty
<1> QED
  BY <1>1, <1>12, <1>13 DEF Contents

\* The invariant holds at first.
LEMMA InitHolds ==
  Init => IInv
<1> SUFFICES ASSUME Init PROVE IInv
  OBVIOUS
<1>1. /\ block = [b \in Blocks |-> [mem |-> << >>, offset |-> 0, used |-> 0]]
      /\ str = [s \in Strings |-> Initial] /\ free = << >> /\ fresh = 0
      /\ count = [s \in Strings |-> 0] /\ taken = [s \in Strings |-> << >>] /\ broken = {}
  BY DEF Init
<1>2. Initial \in StringRecords /\ Initial.chain = << >> /\ Initial.length = 0
  BY DEF Initial, StringRecords
<1>3. Memory(block)
  <2> DEFINE r == [mem |-> << >>, offset |-> 0, used |-> 0]
  <2>1. r \in Records /\ r.offset + r.used <= Len(r.mem)
    BY DEF Records
  <2> HIDE DEF r
  <2>2. block = [b \in Blocks |-> r]
    BY <1>1 DEF r
  <2> QED
    BY <2>1, <2>2 DEF Memory
<1>4. TypeInv
  BY <1>1, <1>2, <1>3 DEF TypeInv
<1>5. Chains = [s \in Strings |-> << >>]
  BY <1>1, <1>2 DEF Chains
<1>6. Apart(Chains, free, fresh)
  <2>1. Owners(Chains, free, fresh)
    BY <1>1, <1>5, PoolAssumption DEF Owners
  <2>2. Len(free) = 0 /\ \A s \in Strings : Len(Chains[s]) = 0
    BY <1>1, <1>5
  <2>3. OnceInChains(Chains) /\ Once(free) /\ NotFree(Chains, free)
    BY <2>2 DEF OnceInChains, Once, NotFree
  <2>4. HandedOut(Chains, free, fresh)
    BY <2>2 DEF HandedOut
  <2>5. NoneLost(Chains, free, fresh)
    BY <1>1 DEF NoneLost
  <2> QED
    BY <2>1, <2>3, <2>4, <2>5 DEF Apart
<1>7. ASSUME NEW s \in Strings PROVE Sound(block, str[s])
  <2>1. str[s] = Initial
    BY <1>1
  <2> QED
    BY <1>2, <2>1, CatEmpty DEF Sound
<1> QED
  BY <1>4, <1>6, <1>7 DEF IInv

-----------------------------------------------------------------------------
(* The theorems.                                                           *)

\* Every step keeps the invariant.
LEMMA StepHolds ==
  IInv /\ [Next]_vars => IInv'
<1> SUFFICES ASSUME IInv, [Next]_vars PROVE IInv'
  OBVIOUS
<1>1. CASE UNCHANGED vars
  BY <1>1 DEF vars, IInv, TypeInv, Chains
<1>2. ASSUME NEW s \in Strings, NEW n \in AppendSizes, AppendBytes(s, n) PROVE IInv'
  BY <1>2, AppendStep
<1>3. ASSUME NEW s \in Strings, NEW n \in PopSizes, PopBytes(s, n) PROVE IInv'
  BY <1>3, PopStep
<1>4. ASSUME NEW s \in Strings, Clear(s) PROVE IInv'
  BY <1>4, ClearStep
<1>5. ASSUME NEW s \in Strings, DropBytes(s) PROVE UNCHANGED vars
  BY <1>5 DEF DropBytes
<1> QED
  BY <1>1, <1>2, <1>3, <1>4, <1>5 DEF Next

\* Whatever is appended, popped and cleared: every block that the zone has made is
\* in one chain or once in the free queue, the bytes of a block are inside it, and
\* a string that never ran out of memory writes behind its last byte.
THEOREM PoolInvariance ==
  Spec => []IInv
BY InitHolds, StepHolds, PTL DEF Spec

\* BlocksAccounted: no block leaks or is in two places, even after an append that
\* found no memory.
THEOREM NoBlockLeaks ==
  Spec => []BlocksAccounted
<1>1. IInv => BlocksAccounted
  <2> SUFFICES ASSUME IInv PROVE BlocksAccounted
    OBVIOUS
  <2> DEFINE owned == {p \in Strings \X (1..BlockNum) : p[2] <= Len(str[p[1]].chain)}
             all == {p \in Strings \X (1..BlockNum) : p[2] <= Len(Chains[p[1]])}
  <2>1. Apart(Chains, free, fresh)
    BY DEF IInv
  <2>2. \A s \in Strings : Chains[s] = str[s].chain
    BY DEF Chains
  <2>3. owned = all /\ \A p \in all : Chains[p[1]][p[2]] = str[p[1]].chain[p[2]]
    BY <2>2
  <2> HIDE DEF all
  <2>4. /\ {Chains[p[1]][p[2]] : p \in all} \cup ToSet(free) = 1..fresh
        /\ Cardinality(all) + Len(free) = fresh
    BY <2>1, Accounted DEF all
  <2>5. {Chains[p[1]][p[2]] : p \in all} = {str[p[1]].chain[p[2]] : p \in all}
    BY <2>3
  <2> QED
    BY <2>3, <2>4, <2>5 DEF BlocksAccounted
<1> QED
  BY <1>1, PoolInvariance, PTL

\* WritesBehindTheEnd: write_ptr_ and write_space_ are those of the last block, and
\* there is always room for one byte.
THEOREM WritesInPlace ==
  Spec => []WritesBehindTheEnd
BY SoundIs, PoolInvariance, PTL

\* LengthExact: length() is the number of bytes that a pop can get.
THEOREM LengthIsExact ==
  Spec => []LengthExact
BY SoundIs, PoolInvariance, PTL

-----------------------------------------------------------------------------
(* The refinement of ByteQueue.                                            *)

\* What ByteQueue sees of the strings.
Queued == [s \in Strings |-> IF s \in broken THEN << >> ELSE Content(str[s].chain)]

\* Queued, over the functions that the lemmas are about.
LEMMA QueuedIs ==
  /\ Queued = [s \in Strings |-> IF s \in broken THEN << >> ELSE Cat(block, str[s].chain)]
  /\ Queued' = [s \in Strings |-> IF s \in broken' THEN << >> ELSE Cat(block', str'[s].chain)]
BY DEF Queued, Content, Bytes, Cat, Pieces, BytesOf

\* Queued after a step of s that leaves x.
LEMMA QueuedStep ==
  ASSUME NEW s \in Strings, NEW x, Contents(s, x),
         \A t \in Strings \ {s} : t \in broken' <=> t \in broken
  PROVE  Queued' = [Queued EXCEPT ![s] = IF s \in broken' THEN << >> ELSE x]
<1> DEFINE before(t) == IF t \in broken THEN << >> ELSE Cat(block, str[t].chain)
           after(t) == IF t \in broken' THEN << >> ELSE Cat(block', str'[t].chain)
           y == IF s \in broken' THEN << >> ELSE x
<1>1. Queued = [t \in Strings |-> before(t)] /\ Queued' = [t \in Strings |-> after(t)]
  BY QueuedIs, Zenon
<1>2. ASSUME NEW t \in Strings \ {s} PROVE after(t) = before(t)
  BY Zenon DEF Contents
<1>3. after(s) = y
  BY Zenon DEF Contents
<1> HIDE DEF before, after, y
<1>4. Queued' = [Queued EXCEPT ![s] = y]
  BY <1>1, <1>2, <1>3
<1> QED
  BY <1>4 DEF y

\* The content of a string that is not broken.
LEMMA QueuedAt ==
  ASSUME NEW s \in Strings, s \notin broken
  PROVE  Queued[s] = Cat(block, str[s].chain)
BY QueuedIs

\* ByteQueue starts where PoolString starts.
LEMMA QueueInit ==
  Init => Queue!Init
<1> SUFFICES ASSUME Init PROVE Queue!Init
  OBVIOUS
<1>1. /\ str = [s \in Strings |-> Initial] /\ broken = {}
      /\ count = [s \in Strings |-> 0] /\ taken = [s \in Strings |-> << >>]
  BY DEF Init
<1>2. ASSUME NEW s \in Strings PROVE Cat(block, str[s].chain) = << >>
  <2>1. str[s].chain = << >>
    BY <1>1 DEF Initial
  <2> QED
    BY <2>1, CatEmpty
<1>3. Queued = [s \in Strings |-> << >>]
  BY <1>1, <1>2, QueuedIs
<1> QED
  BY <1>1, <1>3 DEF Queue!Init, Queued

\* An append is Put, or Break if the string found no memory in the middle of it.
LEMMA AppendIsPut ==
  ASSUME IInv, NEW s \in Strings, NEW n \in AppendSizes, AppendBytes(s, n)
  PROVE  Queue!Put(s) \/ Queue!Break(s)
<1> DEFINE d == Numbered(s, n)
           x == Cat(block, str[s].chain) \o d
<1>1. /\ Contents(s, x) /\ s \notin broken
      /\ broken' = broken \/ broken' = broken \cup {s}
      /\ count' = [count EXCEPT ![s] = @ + n] /\ taken' = taken
  BY AppendStep
<1>2. x = Queued[s] \o d
  BY <1>1, QueuedAt, Zenon
<1> HIDE DEF x, d
<1>3. Queued' = [Queued EXCEPT ![s] = IF s \in broken' THEN << >> ELSE x]
  BY <1>1, QueuedStep
<1>4. CASE broken' = broken
  <2>1. Queued' = [Queued EXCEPT ![s] = Queued[s] \o [i \in 1..n |-> count[s] + i]]
    BY <1>1, <1>2, <1>3, <1>4, Zenon DEF d, Numbered
  <2> QED
    BY <1>1, <1>4, <2>1, Zenon DEF Queue!Put, Queued
<1>5. CASE broken' = broken \cup {s}
  <2>1. Queued' = [Queued EXCEPT ![s] = << >>]
    BY <1>3, <1>5
  <2> QED
    BY <1>1, <1>5, <2>1, Zenon DEF Queue!Break, Queued
<1> QED
  BY <1>1, <1>4, <1>5

\* A pop is Take.
LEMMA PopIsTake ==
  ASSUME IInv, NEW s \in Strings, NEW n \in PopSizes, PopBytes(s, n)
  PROVE  Queue!Take(s)
<1> DEFINE x == Cat(block, str[s].chain)
<1>1. /\ Contents(s, Rest(x, n))
      /\ taken' = [taken EXCEPT ![s] = SubSeq(x, 1, Fetched(x, n))]
      /\ s \notin broken /\ broken' = broken /\ count' = count
  BY PopStep
<1>2. x = Queued[s]
  BY <1>1, QueuedAt
<1> HIDE DEF x
<1>3. Queued' = [Queued EXCEPT ![s] = Rest(x, n)]
  BY <1>1, QueuedStep
<1> DEFINE k == IF n < Len(Queued[s]) THEN n ELSE Len(Queued[s])
<1>4. /\ taken' = [taken EXCEPT ![s] = SubSeq(Queued[s], 1, k)]
      /\ Queued' = [Queued EXCEPT ![s] = SubSeq(Queued[s], k + 1, Len(Queued[s]))]
  BY <1>1, <1>2, <1>3, Zenon DEF Fetched, Rest
<1> QED
  BY <1>1, <1>4, Zenon DEF Queue!Take, Queued

\* Clear is Clear.
LEMMA ClearIsClear ==
  ASSUME IInv, NEW s \in Strings, Clear(s)
  PROVE  Queue!Clear(s)
<1>1. /\ Contents(s, << >>) /\ broken' = broken \ {s}
      /\ count' = [count EXCEPT ![s] = 0] /\ taken' = [taken EXCEPT ![s] = << >>]
  BY ClearStep
<1>2. Queued' = [Queued EXCEPT ![s] = << >>]
  BY <1>1, QueuedStep
<1> QED
  BY <1>1, <1>2 DEF Queue!Clear, Queued

\* IsByteQueue: through blocks that are filled, cut, kept, given back and taken by
\* other strings, every byte comes out of the string it was appended to, once and
\* in order, until an append finds no memory.
THEOREM StringIsByteQueue ==
  Spec => IsByteQueue
<1>1. IInv /\ [Next]_vars => [Queue!Next]_Queue!vars
  <2> SUFFICES ASSUME IInv, [Next]_vars PROVE [Queue!Next]_Queue!vars
    OBVIOUS
  <2>1. CASE UNCHANGED vars
    <3>1. UNCHANGED <<block, str, count, taken, broken>>
      BY <2>1 DEF vars
    <3>2. Queued' = Queued
      BY <3>1, QueuedIs
    <3> QED
      BY <3>1, <3>2 DEF Queue!vars, Queued
  <2>2. ASSUME NEW s \in Strings, NEW n \in AppendSizes, AppendBytes(s, n) PROVE Queue!Next
    BY <2>2, AppendIsPut DEF Queue!Next
  <2>3. ASSUME NEW s \in Strings, NEW n \in PopSizes, PopBytes(s, n) PROVE Queue!Next
    BY <2>3, PopIsTake DEF Queue!Next
  <2>4. ASSUME NEW s \in Strings, Clear(s) PROVE Queue!Next
    BY <2>4, ClearIsClear DEF Queue!Next
  <2>5. ASSUME NEW s \in Strings, DropBytes(s) PROVE UNCHANGED vars
    BY <2>5 DEF DropBytes
  <2> QED
    BY <2>1, <2>2, <2>3, <2>4, <2>5 DEF Next
<1> QED
  BY <1>1, QueueInit, PoolInvariance, PTL DEF Spec, IsByteQueue, Queue!Spec
=============================================================================
