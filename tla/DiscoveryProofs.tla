--------------------------- MODULE DiscoveryProofs ---------------------------
(***************************************************************************)
(* What an answer of a load says of the files, for any directories, any    *)
(* number of specs and of threads, and whatever other programs do to the   *)
(* disk; and that its steps are steps of FileLoading.                      *)
(***************************************************************************)
EXTENDS Discovery, SequenceProofs

Paths == Seq(STRING)

DirSpecs == [path : Paths, skip_hidden : BOOLEAN]

-----------------------------------------------------------------------------
(* Paths.                                                                  *)

LEMMA PrefixIs ==
  ASSUME NEW p \in Paths, NEW q \in Paths
  PROVE  IsPrefix(p, q) <=> Len(p) <= Len(q) /\ \A i \in 1 .. Len(p) : p[i] = q[i]
<1>1. CASE Len(p) <= Len(q)
  <2>1. /\ SubSeq(p, 1, Len(p)) = [i \in 1 .. Len(p) |-> p[i]]
        /\ SubSeq(q, 1, Len(p)) = [i \in 1 .. Len(p) |-> q[i]]
    BY <1>1 DEF Paths
  <2>2. SubSeq(p, 1, Len(p)) = SubSeq(q, 1, Len(p)) <=> \A i \in 1 .. Len(p) : p[i] = q[i]
    BY <2>1
  <2> QED BY <1>1, <2>2 DEF IsPrefix
<1> QED BY <1>1 DEF IsPrefix

LEMMA PrefixOfItself ==
  ASSUME NEW p \in Paths
  PROVE  IsPrefix(p, p)
BY PrefixIs DEF Paths

LEMMA PrefixOfPrefix ==
  ASSUME NEW p \in Paths, NEW q \in Paths, NEW r \in Paths, IsPrefix(p, q), IsPrefix(q, r)
  PROVE  IsPrefix(p, r)
<1>1. Len(p) \in Nat /\ Len(q) \in Nat /\ Len(r) \in Nat
  BY DEF Paths
<1>2. Len(p) <= Len(q) /\ Len(q) <= Len(r)
  BY PrefixIs
<1>3. ASSUME NEW i \in 1 .. Len(p) PROVE p[i] = r[i]
  <2>1. i \in 1 .. Len(q)
    BY <1>1, <1>2
  <2> QED BY <2>1, PrefixIs
<1> QED BY <1>1, <1>2, <1>3, PrefixIs

LEMMA PrefixEqual ==
  ASSUME NEW p \in Paths, NEW q \in Paths, IsPrefix(p, q), Len(p) >= Len(q)
  PROVE  p = q
<1>1. Len(p) = Len(q) /\ \A i \in 1 .. Len(p) : p[i] = q[i]
  BY PrefixIs DEF Paths
<1> QED BY <1>1 DEF Paths

(* Two directories a file is below: one is below the other. *)
LEMMA PrefixOrder ==
  ASSUME NEW p \in Paths, NEW q \in Paths, NEW r \in Paths, IsPrefix(p, r), IsPrefix(q, r),
         Len(p) <= Len(q)
  PROVE  IsPrefix(p, q)
<1>1. Len(p) \in Nat /\ Len(q) \in Nat /\ Len(r) \in Nat
  BY DEF Paths
<1>2. \A i \in 1 .. Len(q) : q[i] = r[i]
  BY PrefixIs
<1>3. ASSUME NEW i \in 1 .. Len(p) PROVE p[i] = q[i]
  <2>1. i \in 1 .. Len(q)
    BY <1>1
  <2>2. p[i] = r[i]
    BY PrefixIs
  <2> QED BY <1>2, <2>1, <2>2
<1> QED BY <1>3, PrefixIs

(* FileLoading knows the same operators. *)
LEMMA SameOperators ==
  ASSUME NEW p, NEW q
  PROVE  /\ Promise!IsPrefix(p, q) = IsPrefix(p, q)
         /\ Promise!IsStrictPrefix(p, q) = IsStrictPrefix(p, q)
         /\ Promise!Front(p) = Front(p) /\ Promise!Last(p) = Last(p)
BY DEF Promise!IsPrefix, IsPrefix, Promise!IsStrictPrefix, IsStrictPrefix, Promise!Front, Front,
       Promise!Last, Last

LEMMA SameCardinality ==
  ASSUME NEW S
  PROVE  Promise!Cardinality(S) = Cardinality(S)
BY DEF Promise!Cardinality, Cardinality

(* The entry of a directory on the way to a file below it. *)
LEMMA EntryIs ==
  ASSUME NEW d \in Paths, NEW f \in Paths, IsStrictPrefix(d, f),
         NEW e, e = SubSeq(f, 1, Len(d) + 1)
  PROVE  /\ e \in Paths /\ Len(e) = Len(d) + 1
         /\ IsPrefix(d, e) /\ IsPrefix(e, f)
<1>1. Len(d) \in Nat /\ Len(f) \in Nat /\ IsPrefix(d, f) /\ d # f
  BY DEF Paths, IsStrictPrefix
<1>2. Len(d) + 1 <= Len(f)
  BY <1>1, PrefixIs, PrefixEqual
<1>3. e \in Paths /\ Len(e) = Len(d) + 1 /\ \A i \in 1 .. Len(d) + 1 : e[i] = f[i]
  BY <1>1, <1>2 DEF Paths
<1>4. IsPrefix(e, f)
  BY <1>2, <1>3, PrefixIs
<1>5. ASSUME NEW i \in 1 .. Len(d) PROVE d[i] = e[i]
  <2>1. i \in 1 .. Len(d) + 1
    BY <1>1
  <2>2. d[i] = f[i]
    BY <1>1, PrefixIs
  <2> QED BY <1>3, <2>1, <2>2
<1>6. IsPrefix(d, e)
  <2>1. Len(d) <= Len(e)
    BY <1>1, <1>3
  <2> QED BY <1>3, <1>5, <2>1, PrefixIs
<1> QED BY <1>3, <1>4, <1>6

(* Segments after the root, up to a position. *)
Clear(spec, p, n) ==
  \A j \in Len(spec.path) + 1 .. n :
    p[j] \notin Dotted /\ (spec.skip_hidden => p[j] \notin Underscored)

LEMMA BelowIs ==
  ASSUME NEW spec \in DirSpecs, NEW p \in Paths, IsPrefix(spec.path, p)
  PROVE  /\ Promise!Below(spec.path, p) \in Paths
         /\ Len(Promise!Below(spec.path, p)) = Len(p) - Len(spec.path)
         /\ \A k \in 1 .. Len(p) - Len(spec.path) :
              Promise!Below(spec.path, p)[k] = p[Len(spec.path) + k]
<1> PICK root \in Paths : root = spec.path
  BY DEF DirSpecs
<1>1. Len(root) \in Nat /\ Len(p) \in Nat /\ Len(root) <= Len(p)
  BY PrefixIs DEF Paths
<1> DEFINE rel == Promise!Below(root, p)
<1>2. rel = SubSeq(p, Len(root) + 1, Len(p))
  BY DEF Promise!Below
<1>3. rel \in Paths /\ Len(rel) = Len(p) - Len(root)
  <2> HIDE DEF rel
  <2>1. PICK m \in Int : m = Len(root) + 1
    BY <1>1
  <2>2. PICK n \in Int : n = Len(p)
    BY <1>1
  <2>3. \A i \in m .. n : p[i] \in STRING
    BY <1>1, <2>1, <2>2 DEF Paths
  <2>4. SubSeq(p, m, n) \in Seq(STRING) /\ Len(SubSeq(p, m, n)) = IF m <= n THEN n - m + 1 ELSE 0
    BY <2>3, SubSeqProperties
  <2>5. rel = SubSeq(p, m, n)
    BY <1>2, <2>1, <2>2
  <2>6. CASE m <= n
    <3>1. n - m + 1 = Len(p) - Len(root)
      BY <1>1, <2>1, <2>2
    <3> QED BY <2>4, <2>5, <2>6, <3>1 DEF Paths
  <2>7. CASE ~(m <= n)
    <3>1. Len(p) - Len(root) = 0
      BY <1>1, <2>1, <2>2, <2>7
    <3> QED BY <2>4, <2>5, <2>7, <3>1 DEF Paths
  <2> QED BY <2>6, <2>7
<1>4. ASSUME NEW k \in 1 .. Len(p) - Len(root) PROVE rel[k] = p[Len(root) + k]
  <2>1. k \in 1 .. Len(p) + 1 - (Len(root) + 1) /\ Len(root) + 1 + k - 1 = Len(root) + k
    BY <1>1
  <2> QED BY <1>1, <1>2, <2>1 DEF Paths
<1> QED BY <1>3, <1>4

LEMMA EntersIs ==
  ASSUME NEW spec \in DirSpecs, NEW d \in Paths
  PROVE  Promise!Enters(spec, d) <=> IsPrefix(spec.path, d) /\ Clear(spec, d, Len(d))
<1> SUFFICES ASSUME IsPrefix(spec.path, d)
             PROVE  Promise!Enters(spec, d) <=> Clear(spec, d, Len(d))
  BY SameOperators DEF Promise!Enters
<1> DEFINE rel == Promise!Below(spec.path, d)
<1>1. PICK m \in Nat : m = Len(spec.path)
  BY DEF DirSpecs, Paths
<1>2. m <= Len(d) /\ Len(d) \in Nat
  BY <1>1, PrefixIs DEF DirSpecs, Paths
<1>3. /\ DOMAIN rel = 1 .. Len(d) - m
      /\ \A k \in 1 .. Len(d) - m : rel[k] = d[m + k]
  <2>1. rel \in Paths /\ Len(rel) = Len(d) - m /\ \A k \in 1 .. Len(d) - m : rel[k] = d[m + k]
    BY <1>1, BelowIs
  <2> HIDE DEF rel
  <2> QED BY <2>1 DEF Paths
<1>4. Promise!Enters(spec, d) <=>
        /\ \A k \in DOMAIN rel : rel[k] \notin Dotted
        /\ spec.skip_hidden => \A k \in DOMAIN rel : rel[k] \notin Underscored
  BY SameOperators DEF Promise!Enters
<1> HIDE DEF rel
<1>5. Promise!Enters(spec, d) <=>
        \A k \in 1 .. Len(d) - m :
          d[m + k] \notin Dotted /\ (spec.skip_hidden => d[m + k] \notin Underscored)
  BY <1>3, <1>4
<1>6. ASSUME NEW j \in m + 1 .. Len(d) PROVE j - m \in 1 .. Len(d) - m /\ m + (j - m) = j
  BY <1>2
<1>7. ASSUME NEW k \in 1 .. Len(d) - m PROVE m + k \in m + 1 .. Len(d)
  BY <1>2
<1> QED BY <1>1, <1>5, <1>6, <1>7 DEF Clear

LEMMA TakesIs ==
  ASSUME NEW spec \in DirSpecs, NEW f \in Paths
  PROVE  Promise!Takes(spec, f) <=>
           \/ f = spec.path
           \/ /\ IsPrefix(spec.path, f) /\ f # spec.path
              /\ f[Len(f)] \in Rbs /\ f[Len(f)] \notin Dotted
              /\ Clear(spec, f, Len(f) - 1)
<1> SUFFICES ASSUME IsPrefix(spec.path, f), f # spec.path
             PROVE  Promise!Takes(spec, f) <=>
                      /\ f[Len(f)] \in Rbs /\ f[Len(f)] \notin Dotted
                      /\ Clear(spec, f, Len(f) - 1)
  BY SameOperators DEF Promise!Takes, IsStrictPrefix
<1> DEFINE rel == Promise!Below(spec.path, f)
           up  == Front(rel)
<1>1. PICK m \in Nat : m = Len(spec.path)
  BY DEF DirSpecs, Paths
<1>2. PICK n \in Nat : n = Len(f)
  BY DEF Paths
<1>3. m < n
  <2>1. spec.path \in Paths /\ Len(spec.path) <= Len(f)
    BY PrefixIs DEF DirSpecs
  <2>2. ~ (Len(spec.path) >= Len(f))
    BY <2>1, PrefixEqual
  <2> QED BY <1>1, <1>2, <2>1, <2>2
<1>4. rel \in Paths /\ Len(rel) = n - m /\ \A k \in 1 .. n - m : rel[k] = f[m + k]
  BY <1>1, <1>2, BelowIs
<1>5. Promise!Takes(spec, f) <=>
        /\ Last(f) \in Rbs
        /\ \A k \in DOMAIN rel : rel[k] \notin Dotted
        /\ spec.skip_hidden => \A k \in DOMAIN up : up[k] \notin Underscored
  BY SameOperators DEF Promise!Takes, IsStrictPrefix
<1> HIDE DEF rel
<1>6. DOMAIN rel = 1 .. n - m /\ DOMAIN up = 1 .. n - m - 1 /\ \A k \in DOMAIN up : up[k] = rel[k]
  <2>1. up = SubSeq(rel, 1, Len(rel) - 1)
    BY DEF Front
  <2>2. n - m - 1 \in Nat
    BY <1>3
  <2> QED BY <1>4, <2>1, <2>2 DEF Paths
<1>7. Last(f) = f[n]
  BY <1>2 DEF Last
<1> HIDE DEF up
<1>8. Promise!Takes(spec, f) <=>
        /\ f[n] \in Rbs
        /\ \A k \in 1 .. n - m : f[m + k] \notin Dotted
        /\ spec.skip_hidden => \A k \in 1 .. n - m - 1 : f[m + k] \notin Underscored
  <2>1. \A k \in 1 .. n - m - 1 : k \in 1 .. n - m
    BY <1>3
  <2> QED BY <1>4, <1>5, <1>6, <1>7, <2>1
<1>9. ASSUME NEW j \in m + 1 .. n PROVE j - m \in 1 .. n - m /\ m + (j - m) = j
  BY <1>3
<1>10. ASSUME NEW k \in 1 .. n - m PROVE m + k \in m + 1 .. n
  BY <1>3
<1>11. ASSUME NEW j \in m + 1 .. n - 1 PROVE j - m \in 1 .. n - m - 1 /\ m + (j - m) = j
  BY <1>3
<1>12. ASSUME NEW k \in 1 .. n - m - 1 PROVE m + k \in m + 1 .. n - 1
  BY <1>3
<1>13. (\A k \in 1 .. n - m : f[m + k] \notin Dotted) <=> \A j \in m + 1 .. n : f[j] \notin Dotted
  BY <1>9, <1>10
<1>14. (\A k \in 1 .. n - m - 1 : f[m + k] \notin Underscored)
         <=> \A j \in m + 1 .. n - 1 : f[j] \notin Underscored
  BY <1>11, <1>12
<1>15. (\A j \in m + 1 .. n : f[j] \notin Dotted)
         <=> f[n] \notin Dotted /\ \A j \in m + 1 .. n - 1 : f[j] \notin Dotted
  <2>1. n \in m + 1 .. n /\ \A j \in m + 1 .. n : j = n \/ j \in m + 1 .. n - 1
    BY <1>3
  <2>2. \A j \in m + 1 .. n - 1 : j \in m + 1 .. n
    BY <1>3
  <2> QED BY <2>1, <2>2
<1> QED BY <1>1, <1>2, <1>8, <1>13, <1>14, <1>15 DEF Clear

-----------------------------------------------------------------------------
(* The order of files.                                                     *)

Ascending(t) == \A k \in DOMAIN t : \A j \in 1 .. k - 1 : Rank[t[j]] < Rank[t[k]]

NoneTwice(s) == \A j, k \in DOMAIN s : s[j] = s[k] => j = k

(* A non-empty set of files has a first one. *)
LEMMA FirstFile ==
  ASSUME NEW S \in SUBSET Files, S # {}
  PROVE  \E f \in S : \A g \in S : g # f => Rank[f] < Rank[g]
<1>1. \A f \in S : Rank[f] \in Nat
  BY FilesAssumption
<1>2. PICK h \in S : TRUE
  OBVIOUS
<1>3. PICK n \in Nat : n = Rank[h]
  BY <1>1
<1> DEFINE F == {i \in 0 .. n : \E f \in S : Rank[f] = n - i}
<1>4. 0 \in F /\ F \in SUBSET (0 .. n)
  BY <1>2, <1>3
<1>5. PICK i \in F : \A j \in F : j <= i
  <2> HIDE DEF F
  <2> QED BY <1>4, Greatest
<1>6. PICK f \in S : Rank[f] = n - i
  BY <1>5
<1>7. ASSUME NEW g \in S, g # f PROVE Rank[f] < Rank[g]
  <2>1. Rank[g] # Rank[f]
    BY <1>7, FilesAssumption
  <2>2. CASE Rank[g] > n
    BY <1>1, <1>4, <1>5, <1>6, <2>2
  <2>3. CASE Rank[g] <= n
    <3>1. n - Rank[g] \in F
      <4>1. n - Rank[g] \in 0 .. n /\ Rank[g] = n - (n - Rank[g])
        BY <1>1, <2>3
      <4> QED BY <4>1
    <3>2. n - Rank[g] <= i
      <4> HIDE DEF F
      <4> QED BY <1>5, <3>1
    <3> QED BY <1>1, <1>4, <1>5, <1>6, <2>1, <3>2
  <2> QED BY <1>1, <2>2, <2>3
<1> QED BY <1>7

(* So a finite set of files can be put in order. *)
LEMMA CanBeOrdered ==
  ASSUME NEW n \in Nat, NEW S \in SUBSET Files, IsFiniteSet(S), Cardinality(S) = n
  PROVE  \E t \in [1 .. n -> S] : Ascending(t)
<1> DEFINE A == {k \in 0 .. n : \A R \in SUBSET Files :
                   IsFiniteSet(R) /\ Cardinality(R) = k => \E t \in [1 .. k -> R] : Ascending(t)}
<1>1. 0 \in A
  <2>1. ASSUME NEW R \in SUBSET Files PROVE \E t \in [1 .. 0 -> R] : Ascending(t)
    <3>1. << >> \in [1 .. 0 -> R] /\ Ascending(<< >>)
      BY DEF Ascending
    <3> QED BY <3>1
  <2> QED BY <2>1
<1>2. ASSUME NEW k \in 0 .. n, k # n, k \in A PROVE k + 1 \in A
  <2>1. ASSUME NEW R \in SUBSET Files, IsFiniteSet(R), Cardinality(R) = k + 1
        PROVE  \E t \in [1 .. k + 1 -> R] : Ascending(t)
    <3>1. R # {}
      <4>1. Cardinality(R) # 0
        BY <2>1
      <4> QED BY <4>1, FS_EmptySet
    <3>2. PICK f \in R : \A g \in R : g # f => Rank[f] < Rank[g]
      BY <3>1, FirstFile
    <3>3. IsFiniteSet(R \ {f}) /\ Cardinality(R \ {f}) = k
      <4>1. Cardinality(R \ {f}) = Cardinality(R) - 1 /\ IsFiniteSet(R \ {f})
        BY <2>1, FS_RemoveElement
      <4> QED BY <2>1, <4>1
    <3>4. PICK u \in [1 .. k -> R \ {f}] : Ascending(u)
      <4>1. R \ {f} \in SUBSET Files
        OBVIOUS
      <4> QED BY <1>2, <3>3, <4>1
    <3> DEFINE t == [i \in 1 .. k + 1 |-> IF i = 1 THEN f ELSE u[i - 1]]
    <3>5. ASSUME NEW i \in 1 .. k + 1, i # 1 PROVE i - 1 \in 1 .. k
      BY <3>5
    <3>6. t \in [1 .. k + 1 -> R]
      BY <3>4, <3>5
    <3>7. ASSUME NEW i \in 1 .. k + 1, NEW j \in 1 .. i - 1 PROVE Rank[t[j]] < Rank[t[i]]
      <4>1. i # 1 /\ j \in 1 .. k + 1
        OBVIOUS
      <4>2. i - 1 \in 1 .. k /\ t[i] = u[i - 1] /\ u[i - 1] \in R \ {f}
        BY <3>4, <3>5, <4>1
      <4>3. CASE j = 1
        <5>1. t[j] = f
          BY <4>1, <4>3
        <5> QED BY <3>2, <4>2, <5>1
      <4>4. CASE j # 1
        <5>1. t[j] = u[j - 1] /\ j - 1 \in 1 .. (i - 1) - 1
          BY <4>1, <4>4
        <5>2. Rank[u[j - 1]] < Rank[u[i - 1]]
          BY <3>4, <4>2, <5>1 DEF Ascending
        <5> QED BY <4>2, <5>1, <5>2
      <4> QED BY <4>3, <4>4
    <3> HIDE DEF t
    <3>8. Ascending(t)
      BY <3>6, <3>7 DEF Ascending
    <3> QED BY <3>6, <3>8
  <2>2. k + 1 \in 0 .. n
    BY <1>2
  <2> QED BY <2>1, <2>2
<1>3. n \in A
  <2> HIDE DEF A
  <2>1. 0 .. n \subseteq A
    BY <1>1, <1>2, UpTo
  <2> QED BY <2>1
<1> QED BY <1>3

(* Putting in order loses nothing. *)
LEMMA OrderedHasAll ==
  ASSUME NEW n \in Nat, NEW S \in SUBSET Files, IsFiniteSet(S), Cardinality(S) = n,
         NEW t \in [1 .. n -> S], Ascending(t)
  PROVE  t \in Seq(Files) /\ NoneTwice(t) /\ ToSet(t) = S
<1>1. ASSUME NEW j \in 1 .. n, NEW k \in 1 .. n, t[j] = t[k] PROVE j = k
  <2>1. Rank[t[j]] \in Nat
    BY FilesAssumption
  <2>2. ~ (j < k)
    <3>1. j < k => j \in 1 .. k - 1
      OBVIOUS
    <3> QED BY <1>1, <2>1, <3>1 DEF Ascending
  <2>3. ~ (k < j)
    <3>1. k < j => k \in 1 .. j - 1
      OBVIOUS
    <3> QED BY <1>1, <2>1, <3>1 DEF Ascending
  <2> QED BY <2>2, <2>3
<1>2. t \in Injection(1 .. n, S)
  BY <1>1 DEF Injection, IsInjective
<1>3. Cardinality(1 .. n) = n
  <2>1. 1 \in Int /\ n \in Int
    OBVIOUS
  <2>2. Cardinality(1 .. n) = IF 1 > n THEN 0 ELSE n - 1 + 1
    BY <2>1, FS_Interval
  <2>3. CASE 1 > n
    BY <2>2, <2>3
  <2>4. CASE ~(1 > n)
    BY <2>2, <2>4
  <2> QED BY <2>3, <2>4
<1>4. t \in Surjection(1 .. n, S)
  BY <1>2, <1>3, FS_Injection
<1>5. ToSet(t) = S
  BY <1>4 DEF Surjection, ToSet
<1>6. t \in Seq(Files)
  OBVIOUS
<1> QED BY <1>1, <1>5, <1>6 DEF NoneTwice

(* Sorted is what FileLoading calls the order of the files. *)
LEMMA SortedIs ==
  ASSUME NEW s \in Seq(Files), NoneTwice(s)
  PROVE  /\ Sorted(s) = Promise!InOrder(ToSet(s))
         /\ Sorted(s) \in Seq(Files) /\ NoneTwice(Sorted(s))
         /\ ToSet(Sorted(s)) = ToSet(s)
<1> DEFINE S == ToSet(s)
<1>1. PICK n \in Nat : n = Len(s)
  OBVIOUS
<1>2. DOMAIN s = 1 .. n /\ S \in SUBSET Files
  BY <1>1 DEF ToSet
<1>3. IsFiniteSet(S) /\ Cardinality(S) = n
  <2>1. s \in Bijection(1 .. n, S)
    BY <1>2 DEF ToSet, NoneTwice, Bijection, Injection, Surjection, IsInjective
  <2>2. ExistsBijection(1 .. n, S)
    BY <2>1 DEF ExistsBijection
  <2> HIDE DEF S
  <2> QED BY <2>2, FS_NatBijection, FS_CountingElements
<1> DEFINE t == CHOOSE u \in [1 .. n -> S] : Ascending(u)
<1>4. t \in [1 .. n -> S] /\ Ascending(t)
  <2> HIDE DEF S
  <2> QED BY <1>2, <1>3, CanBeOrdered
<1>5. Sorted(s) = t
  BY <1>2 DEF Sorted, Ascending
<1>6. Promise!InOrder(S) = t
  <2> HIDE DEF S
  <2> QED BY <1>3, SameCardinality DEF Promise!InOrder, Ascending
<1> HIDE DEF t
<1>7. t \in Seq(Files) /\ NoneTwice(t) /\ ToSet(t) = S
  <2> HIDE DEF S
  <2> QED BY <1>2, <1>3, <1>4, OrderedHasAll
<1> QED BY <1>5, <1>6, <1>7

-----------------------------------------------------------------------------
(* First occurrences.                                                      *)

Push(seen, f) == IF Contains(seen, f) THEN seen ELSE Append(seen, f)

LEMMA PushIs ==
  ASSUME NEW seen \in Seq(Files), NEW f \in Files
  PROVE  Push(seen, f) \in Seq(Files) /\ ToSet(Push(seen, f)) = ToSet(seen) \cup {f}
<1>1. CASE Contains(seen, f)
  BY <1>1 DEF Push, Contains, ToSet
<1>2. CASE ~Contains(seen, f)
  <2>1. Push(seen, f) = seen \o <<f>> /\ <<f>> \in Seq(Files)
    BY <1>2 DEF Push
  <2>2. ToSet(<<f>>) = {f}
    BY DEF ToSet
  <2>3. PICK one \in Seq(Files) : one = <<f>>
    BY <2>1
  <2>4. ToSet(seen \o one) = ToSet(seen) \cup ToSet(one) /\ seen \o one \in Seq(Files)
    BY ElementsOfBoth
  <2> QED BY <2>1, <2>2, <2>3, <2>4
<1> QED BY <1>1, <1>2

LEMMA SameFold ==
  ASSUME NEW ss
  PROVE  /\ Merge(ss) = FoldLeft(Push, << >>, FlattenSeq(ss))
         /\ Promise!FirstOccurrences(Promise!FlattenSeq(ss)) = Merge(ss)
BY DEF Merge, Push, Contains, FoldLeft, MapThenFoldSet, Max, FlattenSeq,
       Promise!FirstOccurrences, Promise!Contains, Promise!FoldLeft, Promise!MapThenFoldSet,
       Promise!Max, Promise!FlattenSeq

(* Every file is kept, and no other comes in. *)
LEMMA FoldIs ==
  ASSUME NEW fs \in Seq(Files)
  PROVE  /\ FoldLeft(Push, << >>, fs) \in Seq(Files)
         /\ ToSet(FoldLeft(Push, << >>, fs)) = ToSet(fs)
<1>1. PICK n \in Nat : n = Len(fs)
  OBVIOUS
<1>2. DOMAIN fs = 1 .. n /\ \A i \in 1 .. n : fs[i] \in Files
  BY <1>1
<1> DEFINE V == Seq(Files)
           Val(g, s) == IF s = {} THEN << >> ELSE Push(g[s \ {Max(s)}], fs[Max(s)])
           iter == CHOOSE g : g = [s \in SUBSET DOMAIN fs |-> Val(g, s)]
           Op == [p \in V \X (1 .. n) |-> Push(p[1], fs[p[2]])]
<1>3. FoldLeft(Push, << >>, fs) = iter[1 .. n]
  BY <1>2 DEF FoldLeft, MapThenFoldSet
<1>4. Op \in [V \X (1 .. n) -> V]
  BY <1>2, PushIs
<1>5. PICK g \in [SUBSET (1 .. n) -> V] : Folds(g, Op, << >>, n)
  <2>1. << >> \in V
    OBVIOUS
  <2> HIDE DEF Op, V
  <2> QED BY <1>4, <2>1, FoldExists
<1>6. ASSUME NEW s \in SUBSET (1 .. n) PROVE g[s] = Val(g, s)
  <2>1. CASE s = {}
    BY <1>5, <2>1 DEF Folds
  <2>2. CASE s # {}
    <3>1. Max(s) \in 1 .. n /\ s \ {Max(s)} \in SUBSET (1 .. n)
      BY <2>2, MaxIsGreatest
    <3>2. <<g[s \ {Max(s)}], Max(s)>> \in V \X (1 .. n)
      BY <3>1
    <3>3. g[s] = Op[<<g[s \ {Max(s)}], Max(s)>>]
      BY <1>5, <2>2 DEF Folds
    <3> QED BY <2>2, <3>2, <3>3
  <2> QED BY <2>1, <2>2
<1>7. iter = [s \in SUBSET (1 .. n) |-> Val(iter, s)]
  <2>1. g = [s \in SUBSET (1 .. n) |-> Val(g, s)]
    <3> HIDE DEF Val
    <3> QED BY <1>6
  <2> QED BY <1>2, <2>1
<1> HIDE DEF iter
<1> DEFINE Kept(s) == iter[s] \in Seq(Files) /\ ToSet(iter[s]) = {fs[i] : i \in s}
           A == {k \in 0 .. n : \A s \in SUBSET (1 .. k) : Kept(s)}
<1>8. ASSUME NEW s \in SUBSET (1 .. n), s = {} PROVE Kept(s)
  <2>1. iter[s] = << >>
    BY <1>7, <1>8
  <2> QED BY <1>8, <2>1 DEF ToSet
<1>9. 0 \in A
  <2>1. ASSUME NEW s \in SUBSET (1 .. 0) PROVE Kept(s)
    <3>1. s = {} /\ s \in SUBSET (1 .. n)
      OBVIOUS
    <3> QED BY <1>8, <3>1
  <2> HIDE DEF Kept
  <2> QED BY <2>1
<1>10. ASSUME NEW k \in 0 .. n, k # n, k \in A PROVE k + 1 \in A
  <2>1. ASSUME NEW s \in SUBSET (1 .. k + 1), s # {} PROVE Kept(s)
    <3>1. s \in SUBSET (1 .. n) /\ k + 1 \in Nat
      BY <1>10
    <3>2. iter[s] = Push(iter[s \ {Max(s)}], fs[Max(s)])
      BY <1>7, <2>1, <3>1
    <3>3. Max(s) \in s /\ Max(s) \in 1 .. k + 1 /\ s \ {Max(s)} \in SUBSET (1 .. Max(s) - 1)
      BY <2>1, <3>1, BelowMax, MaxIsGreatest
    <3>4. s \ {Max(s)} \in SUBSET (1 .. k) /\ Max(s) \in 1 .. n
      BY <1>10, <3>3
    <3>5. Kept(s \ {Max(s)})
      BY <1>10, <3>4
    <3>6. fs[Max(s)] \in Files
      BY <1>2, <3>4
    <3>7. iter[s] \in Seq(Files) /\ ToSet(iter[s]) = ToSet(iter[s \ {Max(s)}]) \cup {fs[Max(s)]}
      <4>1. PICK seen \in Seq(Files) : seen = iter[s \ {Max(s)}]
        BY <3>5
      <4>2. PICK f \in Files : f = fs[Max(s)]
        BY <3>6
      <4>3. Push(seen, f) \in Seq(Files) /\ ToSet(Push(seen, f)) = ToSet(seen) \cup {f}
        BY PushIs
      <4> QED BY <3>2, <4>1, <4>2, <4>3
    <3>8. {fs[i] : i \in s} = {fs[i] : i \in s \ {Max(s)}} \cup {fs[Max(s)]}
      BY <3>3
    <3> QED BY <3>5, <3>7, <3>8
  <2>2. ASSUME NEW s \in SUBSET (1 .. k + 1) PROVE Kept(s)
    <3>1. s \in SUBSET (1 .. n)
      BY <1>10
    <3> HIDE DEF Kept
    <3> QED BY <1>8, <2>1, <3>1
  <2>3. k + 1 \in 0 .. n
    BY <1>10
  <2> HIDE DEF Kept
  <2> QED BY <2>2, <2>3
<1>11. n \in A
  <2> HIDE DEF A
  <2>1. 0 .. n \subseteq A
    BY <1>9, <1>10, UpTo
  <2> QED BY <2>1
<1>12. Kept(1 .. n)
  BY <1>11
<1>13. {fs[i] : i \in 1 .. n} = ToSet(fs)
  BY <1>2 DEF ToSet
<1> QED BY <1>3, <1>12, <1>13

(* The list of files has those each walk has found. *)
LEMMA MergeIs ==
  ASSUME NEW ss \in Seq(Seq(Files))
  PROVE  /\ Merge(ss) \in Seq(Files)
         /\ \A k \in DOMAIN ss : ToSet(ss[k]) \subseteq ToSet(Merge(ss))
         /\ \A f \in ToSet(Merge(ss)) : \E k \in DOMAIN ss : f \in ToSet(ss[k])
<1>1. FlattenSeq(ss) \in Seq(Files)
  BY FlattenIsSeq
<1>2. Merge(ss) \in Seq(Files) /\ ToSet(Merge(ss)) = ToSet(FlattenSeq(ss))
  BY <1>1, FoldIs, SameFold
<1> QED BY <1>2, ElementsOfFlatten, ElementOfFlatten

-----------------------------------------------------------------------------
(* The walk of one spec.                                                   *)

Disk ==
  /\ specs \in Seq(DirSpecs)
  /\ always \subseteq ever /\ always \subseteq present /\ present \subseteq ever
  /\ ever \subseteq Files
  /\ \A d \in denied : d \in Paths /\ d \notin Files

\* What is still to be looked at: no directory that must not be entered is on
\* the way to it, and nothing will be met twice.
Frontier(spec, t) ==
  /\ \A p \in t : IsPrefix(spec.path, p) /\ Clear(spec, p, Len(p) - 1)
  /\ \A p \in t : p = spec.path \/ \E f \in ever : IsPrefix(p, f)
  /\ \A p \in t : \A q \in t : IsPrefix(p, q) => p = q

\* The files found are of the kind looked for, and behind the frontier.
Found(spec, t, o) ==
  /\ NoneTwice(o)
  /\ \A f \in ToSet(o) : f \in ever /\ Promise!Takes(spec, f)
  /\ \A f \in ToSet(o) : \A p \in t : ~IsPrefix(p, f)

InTheWay(spec, d) == Promise!Enters(spec, d) /\ \E f \in always : IsPrefix(d, f)

\* Files that stay and directories that stand in the way are found, or still
\* ahead.
Reached(spec, t, o) ==
  /\ \A f \in always :
       Promise!Takes(spec, f) => f \in ToSet(o) \/ \E p \in t : IsPrefix(p, f)
  /\ \A d \in denied : InTheWay(spec, d) => \E p \in t : IsPrefix(p, d)

Stopped(spec, d) ==
  d \in denied /\ Promise!Enters(spec, d) /\ \E f \in ever : IsPrefix(d, f)

Sound(i) ==
  /\ Frontier(specs[i], todo[i]) /\ Found(specs[i], todo[i], out[i])
  /\ failed[i] = None => Reached(specs[i], todo[i], out[i])
  /\ failed[i] # None => Stopped(specs[i], failed[i])
  /\ i \in over =>
       /\ todo[i] = {}
       /\ failed[i] = None => out[i] = Promise!InOrder(ToSet(out[i]))
  /\ i \notin over => failed[i] = None

(* What readdir shows of a directory. *)
LEMMA EntriesAre ==
  ASSUME Disk, NEW d \in Paths, NEW e \in Entries(d)
  PROVE  /\ e \in Paths /\ IsPrefix(d, e) /\ Len(e) = Len(d) + 1
         /\ \E f \in present : IsPrefix(e, f)
<1>1. PICK f \in present : IsStrictPrefix(d, f) /\ e = SubSeq(f, 1, Len(d) + 1)
  BY DEF Entries
<1>2. f \in Paths
  BY FilesAssumption DEF Disk, Paths
<1>3. e \in Paths /\ Len(e) = Len(d) + 1 /\ IsPrefix(d, e) /\ IsPrefix(e, f)
  BY <1>1, <1>2, EntryIs
<1> QED BY <1>3

LEMMA EntryOnTheWay ==
  ASSUME Disk, NEW d \in Paths, NEW f \in present, IsStrictPrefix(d, f)
  PROVE  \E e \in Entries(d) : e \in Paths /\ IsPrefix(e, f) /\ Len(e) = Len(d) + 1
<1> DEFINE e == SubSeq(f, 1, Len(d) + 1)
<1>1. e \in Entries(d)
  BY DEF Entries
<1>2. f \in Paths
  BY FilesAssumption DEF Disk, Paths
<1>3. IsPrefix(e, f) /\ Len(e) = Len(d) + 1 /\ e \in Paths
  <2> HIDE DEF e
  <2>1. e = SubSeq(f, 1, Len(d) + 1)
    BY DEF e
  <2> QED BY <1>2, <2>1, EntryIs
<1> HIDE DEF e
<1> QED BY <1>1, <1>3

(* Something that needs no further look. *)
LEMMA Dropped ==
  ASSUME NEW spec, NEW t, NEW o, NEW p, Frontier(spec, t), Found(spec, t, o)
  PROVE  Frontier(spec, t \ {p}) /\ Found(spec, t \ {p}, o)
BY DEF Frontier, Found

LEMMA DroppedReached ==
  ASSUME NEW spec, NEW t, NEW o, NEW p, NEW o2, Reached(spec, t, o), ToSet(o) \subseteq ToSet(o2),
         \A f \in always : Promise!Takes(spec, f) /\ IsPrefix(p, f) => f \in ToSet(o2),
         \A d \in denied : InTheWay(spec, d) => ~IsPrefix(p, d)
  PROVE  Reached(spec, t \ {p}, o2)
BY DEF Reached

(* A directory that can be opened. *)
LEMMA Opened ==
  ASSUME Disk, NEW spec \in DirSpecs, NEW t \in SUBSET Paths, NEW o \in Seq(Files), NEW d \in t,
         Frontier(spec, t), Found(spec, t, o), Reached(spec, t, o),
         ~(d \in denied /\ Exists(d)), d \notin Files, Clear(spec, d, Len(d)),
         NEW u, u = (t \ {d}) \cup Entries(d)
  PROVE  u \subseteq Paths /\ Frontier(spec, u) /\ Found(spec, u, o) /\ Reached(spec, u, o)
<1>1. \A e \in Entries(d) : /\ e \in Paths /\ IsPrefix(d, e) /\ Len(e) = Len(d) + 1
                            /\ \E f \in present : IsPrefix(e, f)
  BY EntriesAre
<1>2. d \in Paths /\ spec.path \in Paths /\ Len(d) \in Nat /\ Len(spec.path) \in Nat
  BY DEF DirSpecs, Paths
<1>3. \A p \in u : p \in Paths /\ (p \in Entries(d) \/ (p \in t /\ p # d))
  BY <1>1
<1>4. \A f \in Files : f \in Paths
  BY FilesAssumption DEF Paths
<1>5. ASSUME NEW e \in Entries(d) PROVE IsPrefix(spec.path, e) /\ Clear(spec, e, Len(e) - 1)
  <2>1. IsPrefix(spec.path, d)
    BY DEF Frontier
  <2>2. e \in Paths /\ IsPrefix(d, e) /\ Len(e) - 1 = Len(d)
    BY <1>1, <1>2
  <2>3. \A j \in Len(spec.path) + 1 .. Len(d) : e[j] = d[j]
    <3>1. \A j \in Len(spec.path) + 1 .. Len(d) : j \in 1 .. Len(d)
      BY <1>2
    <3> QED BY <1>2, <2>2, <3>1, PrefixIs
  <2>4. Clear(spec, e, Len(d))
    BY <2>3 DEF Clear
  <2> QED BY <1>2, <2>1, <2>2, <2>4, PrefixOfPrefix
<1>6. ASSUME NEW p \in u, NEW q \in u, IsPrefix(p, q) PROVE p = q
  <2>1. CASE p \in Entries(d) /\ q \in Entries(d)
    <3>1. Len(p) >= Len(q)
      BY <1>1, <1>2, <2>1
    <3> QED BY <1>3, <1>6, <3>1, PrefixEqual
  <2>2. CASE p \in Entries(d) /\ q \in t /\ q # d
    <3>1. IsPrefix(d, q)
      BY <1>1, <1>2, <1>3, <1>6, <2>2, PrefixOfPrefix
    <3> QED BY <2>2, <3>1 DEF Frontier
  <2>3. CASE p \in t /\ p # d /\ q \in Entries(d)
    <3>1. IsPrefix(d, q) /\ Len(p) \in Nat
      BY <1>1, <1>3, <2>3 DEF Paths
    <3>2. CASE Len(p) <= Len(d)
      <4>1. IsPrefix(p, d)
        BY <1>2, <1>3, <1>6, <3>1, <3>2, PrefixOrder
      <4> QED BY <2>3, <4>1 DEF Frontier
    <3>3. CASE Len(d) <= Len(p)
      <4>1. IsPrefix(d, p)
        BY <1>2, <1>3, <1>6, <3>1, <3>3, PrefixOrder
      <4> QED BY <2>3, <4>1 DEF Frontier
    <3> QED BY <1>2, <3>1, <3>2, <3>3
  <2>4. CASE p \in t /\ q \in t
    BY <1>6, <2>4 DEF Frontier
  <2> QED BY <1>3, <2>1, <2>2, <2>3, <2>4
<1>7. Frontier(spec, u)
  <2>1. \A p \in u : IsPrefix(spec.path, p) /\ Clear(spec, p, Len(p) - 1)
    BY <1>3, <1>5 DEF Frontier
  <2>2. \A p \in u : p = spec.path \/ \E f \in ever : IsPrefix(p, f)
    BY <1>1, <1>3 DEF Frontier, Disk
  <2> QED BY <1>6, <2>1, <2>2 DEF Frontier
<1>8. Found(spec, u, o)
  <2>1. ASSUME NEW f \in ToSet(o), NEW p \in u, IsPrefix(p, f) PROVE FALSE
    <3>1. f \in Paths
      BY <1>4 DEF ToSet
    <3>2. CASE p \in Entries(d)
      <4>1. IsPrefix(d, f)
        BY <1>1, <1>2, <2>1, <3>1, <3>2, PrefixOfPrefix
      <4> QED BY <4>1 DEF Found
    <3>3. CASE p \in t
      BY <2>1, <3>3 DEF Found
    <3> QED BY <1>3, <3>2, <3>3
  <2> QED BY <2>1 DEF Found
<1>9. ASSUME NEW f \in always, IsPrefix(d, f)
      PROVE  \E e \in u : e \in Entries(d) /\ e \in Paths /\ IsPrefix(e, f) /\ Len(e) = Len(d) + 1
  <2>1. f \in present /\ f \in Files
    BY DEF Disk
  <2>2. IsStrictPrefix(d, f)
    BY <1>9, <2>1 DEF IsStrictPrefix
  <2> QED BY <1>2, <2>1, <2>2, EntryOnTheWay
<1>10. ASSUME NEW f \in always, Promise!Takes(spec, f), f \notin ToSet(o)
       PROVE  \E p \in u : IsPrefix(p, f)
  <2>1. PICK p \in t : IsPrefix(p, f)
    BY <1>10 DEF Reached
  <2>2. CASE p = d
    BY <1>9, <2>1, <2>2
  <2> QED BY <2>1, <2>2
<1>11. ASSUME NEW c \in denied, InTheWay(spec, c) PROVE \E p \in u : IsPrefix(p, c)
  <2>1. PICK p \in t : IsPrefix(p, c)
    BY <1>11 DEF Reached
  <2>2. PICK f \in always : IsPrefix(c, f)
    BY <1>11 DEF InTheWay
  <2>3. c \in Paths /\ f \in Paths /\ f \in present
    BY <1>4 DEF Disk
  <2>4. CASE p = d
    <3>1. d # c
      BY <2>2, <2>3 DEF Exists
    <3>2. IsPrefix(d, f)
      BY <1>2, <2>1, <2>2, <2>3, <2>4, PrefixOfPrefix
    <3>3. PICK e \in u : e \in Paths /\ IsPrefix(e, f) /\ Len(e) = Len(d) + 1
      BY <1>9, <3>2
    <3>4. Len(d) < Len(c) /\ Len(c) \in Nat
      <4>1. ~ (Len(d) >= Len(c))
        BY <1>2, <2>1, <2>3, <2>4, <3>1, PrefixEqual
      <4>2. Len(c) \in Nat
        BY <2>3 DEF Paths
      <4> QED BY <1>2, <4>1, <4>2
    <3>5. Len(e) <= Len(c)
      BY <1>2, <3>3, <3>4
    <3>6. IsPrefix(e, c)
      BY <2>2, <2>3, <3>3, <3>5, PrefixOrder
    <3> QED BY <3>6
  <2> QED BY <2>1, <2>4
<1>12. Reached(spec, u, o)
  BY <1>10, <1>11 DEF Reached
<1> QED BY <1>3, <1>7, <1>8, <1>12

Walks ==
  /\ over \subseteq SpecIds
  /\ todo \in [SpecIds -> SUBSET Paths] /\ out \in [SpecIds -> Seq(Files)]
  /\ failed \in [SpecIds -> denied \cup {None}]
  /\ \A i \in SpecIds : Sound(i)

(* A step of one walk leaves the others as they were. *)
LEMMA OneWalk ==
  ASSUME Disk, Walks, NEW i \in SpecIds, i \notin over, UNCHANGED <<disk, tree>>,
         NEW t \in SUBSET Paths, NEW o \in Seq(Files), NEW d \in denied \cup {None},
         NEW ends \in SUBSET {i},
         todo' = [todo EXCEPT ![i] = t], out' = [out EXCEPT ![i] = o],
         failed' = [failed EXCEPT ![i] = d], over' = over \cup ends,
         Frontier(specs[i], t), Found(specs[i], t, o),
         d = None => Reached(specs[i], t, o), d # None => Stopped(specs[i], d),
         i \in ends => t = {} /\ (d = None => o = Promise!InOrder(ToSet(o))),
         i \notin ends => d = None
  PROVE  Walks'
<1>1. specs' = specs /\ denied' = denied /\ ever' = ever /\ always' = always
  BY DEF disk, tree
<1>2. todo'[i] = t /\ out'[i] = o /\ failed'[i] = d
  BY DEF Walks
<1>3. \A j \in SpecIds : j # i => /\ todo'[j] = todo[j] /\ out'[j] = out[j]
                                  /\ failed'[j] = failed[j] /\ (j \in over' <=> j \in over)
  BY DEF Walks
<1>4. Sound(i)'
  <2>1. (i \in over)' <=> i \in ends
    OBVIOUS
  <2>2. Frontier(specs[i], todo[i])' /\ Found(specs[i], todo[i], out[i])'
    BY <1>1, <1>2 DEF Frontier, Found
  <2>3. (failed[i] = None => Reached(specs[i], todo[i], out[i]))'
    BY <1>1, <1>2 DEF Reached, InTheWay
  <2>4. (failed[i] # None => Stopped(specs[i], failed[i]))'
    BY <1>1, <1>2 DEF Stopped
  <2> QED BY <1>2, <2>1, <2>2, <2>3, <2>4 DEF Sound
<1>5. ASSUME NEW j \in SpecIds, j # i PROVE Sound(j)'
  <2>1. Sound(j)
    BY DEF Walks
  <2>2. Frontier(specs[j], todo[j])' /\ Found(specs[j], todo[j], out[j])'
    BY <1>1, <1>3, <1>5, <2>1 DEF Sound, Frontier, Found
  <2>3. (failed[j] = None => Reached(specs[j], todo[j], out[j]))'
    BY <1>1, <1>3, <1>5, <2>1 DEF Sound, Reached, InTheWay
  <2>4. (failed[j] # None => Stopped(specs[j], failed[j]))'
    BY <1>1, <1>3, <1>5, <2>1 DEF Sound, Stopped
  <2>5. (j \in over => todo[j] = {} /\ (failed[j] = None => out[j] = Promise!InOrder(ToSet(out[j]))))'
    BY <1>1, <1>3, <1>5, <2>1 DEF Sound
  <2>6. (j \notin over => failed[j] = None)'
    BY <1>3, <1>5, <2>1 DEF Sound
  <2> QED BY <2>2, <2>3, <2>4, <2>5, <2>6 DEF Sound
<1>6. /\ over' \subseteq SpecIds' /\ todo' \in [SpecIds' -> SUBSET Paths]
      /\ out' \in [SpecIds' -> Seq(Files)] /\ failed' \in [SpecIds' -> denied' \cup {None}]
  BY <1>1 DEF Walks, SpecIds
<1>7. \A j \in SpecIds' : Sound(j)'
  BY <1>1, <1>4, <1>5 DEF SpecIds
<1> QED BY <1>6, <1>7 DEF Walks

(* What is known of a walk that goes on. *)
LEMMA GoesOn ==
  ASSUME Disk, Walks, NEW i \in SpecIds, Walking(i)
  PROVE  /\ i \notin over /\ failed[i] = None /\ specs[i] \in DirSpecs
         /\ specs[i].path \in Paths /\ Len(specs[i].path) \in Nat
         /\ todo[i] \in SUBSET Paths /\ out[i] \in Seq(Files)
         /\ Frontier(specs[i], todo[i]) /\ Found(specs[i], todo[i], out[i])
         /\ Reached(specs[i], todo[i], out[i])
<1>1. i \notin over /\ Sound(i)
  BY DEF Walking, Walks
<1>2. specs[i] \in DirSpecs
  BY DEF Disk, SpecIds
<1>3. specs[i].path \in Paths
  BY <1>2 DEF DirSpecs
<1>4. Len(specs[i].path) \in Nat
  BY <1>3 DEF Paths
<1> QED BY <1>1, <1>2, <1>3, <1>4 DEF Walks, Sound

(* A directory that is opened, or the end of the walk. *)
LEMMA OpenStep ==
  ASSUME Disk, Walks, NEW i \in SpecIds, Walking(i), NEW d \in todo[i], d \notin Files,
         Clear(specs[i], d, Len(d)), Open(i, d), UNCHANGED <<disk, tree, out>>
  PROVE  Walks'
<1> DEFINE spec == specs[i]
<1>1. /\ i \notin over /\ failed[i] = None /\ spec \in DirSpecs
      /\ todo[i] \in SUBSET Paths /\ out[i] \in Seq(Files)
      /\ Frontier(spec, todo[i]) /\ Found(spec, todo[i], out[i]) /\ Reached(spec, todo[i], out[i])
  BY GoesOn
<1>2. out' = [out EXCEPT ![i] = out[i]] /\ failed = [failed EXCEPT ![i] = None]
  BY <1>1 DEF Walks
<1>3. d \in Paths
  BY <1>1
<1>4. CASE d \in denied /\ Exists(d)
  <2>1. /\ failed' = [failed EXCEPT ![i] = d] /\ over' = over \cup {i}
        /\ todo' = [todo EXCEPT ![i] = {}]
    BY <1>4 DEF Open
  <2>2. Frontier(spec, {}) /\ Found(spec, {}, out[i])
    BY <1>1 DEF Frontier, Found
  <2>3. Promise!Enters(spec, d)
    BY <1>1, <1>3, EntersIs DEF Frontier
  <2>4. Stopped(spec, d)
    BY <1>4, <2>3 DEF Stopped, Exists, Disk
  <2>5. d # None
    BY <1>3, NoneAssumption DEF Paths
  <2> HIDE DEF spec
  <2>6. spec = specs[i]
    BY DEF spec
  <2> QED BY <1>1, <1>2, <1>4, <2>1, <2>2, <2>4, <2>5, <2>6, OneWalk
<1>5. CASE ~(d \in denied /\ Exists(d))
  <2> DEFINE u == (todo[i] \ {d}) \cup Entries(d)
  <2>1. todo' = [todo EXCEPT ![i] = u] /\ over' = over /\ failed' = failed
    BY <1>5 DEF Open
  <2>2. u \subseteq Paths /\ Frontier(spec, u) /\ Found(spec, u, out[i]) /\ Reached(spec, u, out[i])
    BY <1>1, <1>5, Opened
  <2>3. over' = over \cup {} /\ failed' = [failed EXCEPT ![i] = None]
    BY <1>2, <2>1
  <2> HIDE DEF u, spec
  <2>4. spec = specs[i]
    BY DEF spec
  <2> QED BY <1>1, <1>2, <2>1, <2>2, <2>3, <2>4, OneWalk
<1> QED BY <1>4, <1>5

(* A file is on the way to no directory. *)
LEMMA FileInNoWay ==
  ASSUME Disk, NEW p \in Files, NEW d \in denied, NEW f \in always, IsPrefix(p, d), IsPrefix(d, f)
  PROVE  FALSE
<1>1. f \in Files /\ f \in Paths /\ p \in Paths /\ d \in Paths /\ d \notin Files
  BY FilesAssumption DEF Disk, Paths
<1>2. IsPrefix(p, f)
  BY <1>1, PrefixOfPrefix
<1>3. p = f
  BY <1>1, <1>2, FilesAssumption
<1>4. Len(d) >= Len(f) /\ Len(d) \in Nat /\ Len(f) \in Nat
  BY <1>1, <1>3, PrefixIs DEF Paths
<1>5. d = f
  BY <1>1, <1>4, PrefixEqual
<1> QED BY <1>1, <1>5

LEMMA RootStep ==
  ASSUME Disk, Walks, NEW i \in SpecIds, WalkRoot(i)
  PROVE  Walks'
<1> DEFINE spec == specs[i]
           root == specs[i].path
<1>1. /\ i \notin over /\ failed[i] = None /\ spec \in DirSpecs /\ root \in Paths
      /\ Len(root) \in Nat /\ todo[i] \in SUBSET Paths /\ out[i] \in Seq(Files)
      /\ Frontier(spec, todo[i]) /\ Found(spec, todo[i], out[i]) /\ Reached(spec, todo[i], out[i])
      /\ root \in todo[i] /\ Walking(i) /\ UNCHANGED <<disk, tree>>
  BY GoesOn DEF WalkRoot
<1>2. failed = [failed EXCEPT ![i] = None] /\ out = [out EXCEPT ![i] = out[i]]
  BY <1>1 DEF Walks
<1>3. todo[i] \ {root} = {}
  BY <1>1 DEF Frontier
<1>4. Frontier(spec, {}) /\ Found(spec, {}, out[i])
  BY <1>1 DEF Frontier, Found
<1>5. ASSUME NEW d \in denied, NEW f \in always, Promise!Enters(spec, d), IsPrefix(d, f)
      PROVE  IsPrefix(root, d) /\ IsPrefix(root, f)
  <2>1. d \in Paths /\ f \in Paths
    BY FilesAssumption DEF Disk, Paths
  <2>2. IsPrefix(root, d)
    BY <1>1, <1>5, <2>1, EntersIs
  <2> QED BY <1>1, <1>5, <2>1, <2>2, PrefixOfPrefix
<1>6. CASE ~Exists(root)
  <2>1. todo' = [todo EXCEPT ![i] = {}] /\ over' = over /\ out' = out /\ failed' = failed
    BY <1>6 DEF WalkRoot
  <2>2. \A f \in always : ~IsPrefix(root, f)
    BY <1>6 DEF Exists, Disk
  <2>3. Reached(spec, {}, out[i])
    <3>1. Reached(spec, todo[i] \ {root}, out[i])
      BY <1>1, <1>5, <2>2, DroppedReached DEF InTheWay
    <3> QED BY <1>3, <3>1
  <2>4. over' = over \cup {} /\ failed' = [failed EXCEPT ![i] = None] /\ out' = [out EXCEPT ![i] = out[i]]
    BY <1>2, <2>1
  <2> HIDE DEF spec
  <2>5. spec = specs[i]
    BY DEF spec
  <2> QED BY <1>1, <1>4, <2>1, <2>3, <2>4, <2>5, OneWalk
<1>7. CASE root \in present /\ Exists(root)
  <2> DEFINE one == <<root>>
  <2>1. /\ todo' = [todo EXCEPT ![i] = {}] /\ out' = [out EXCEPT ![i] = one]
        /\ over' = over \cup {} /\ failed' = [failed EXCEPT ![i] = None]
    BY <1>2, <1>7 DEF WalkRoot
  <2>2. root \in Files /\ root \in ever
    BY <1>7 DEF Disk
  <2>3. one \in Seq(Files) /\ ToSet(one) = {root} /\ NoneTwice(one)
    BY <2>2 DEF ToSet, NoneTwice
  <2>4. ToSet(out[i]) = {}
    <3>1. ASSUME NEW f \in ToSet(out[i]) PROVE FALSE
      <4>1. f \in Files /\ f \in Paths
        BY <1>1, FilesAssumption DEF ToSet, Paths
      <4>2. IsPrefix(root, f)
        BY <1>1, <4>1, TakesIs, PrefixOfItself DEF Found
      <4> QED BY <1>1, <4>2 DEF Found
    <3> QED BY <3>1
  <2>5. \A f \in always : IsPrefix(root, f) => f = root
    BY <2>2, FilesAssumption DEF Disk
  <2>6. \A d \in denied : InTheWay(spec, d) => ~IsPrefix(root, d)
    BY <2>2, FileInNoWay DEF InTheWay
  <2> HIDE DEF one
  <2>7. Reached(spec, {}, one)
    <3>1. Reached(spec, todo[i] \ {root}, one)
      BY <1>1, <2>3, <2>4, <2>5, <2>6, DroppedReached
    <3> QED BY <1>3, <3>1
  <2>8. Promise!Takes(spec, root)
    BY <1>1, TakesIs
  <2>9. Found(spec, {}, one)
    BY <2>2, <2>3, <2>8 DEF Found
  <2> HIDE DEF spec
  <2>10. spec = specs[i]
    BY DEF spec
  <2> QED BY <1>1, <1>4, <2>1, <2>3, <2>7, <2>9, <2>10, OneWalk
<1>8. CASE root \notin present /\ Exists(root)
  <2>1. Open(i, root) /\ UNCHANGED out
    BY <1>8 DEF WalkRoot
  <2>2. root \notin Files
    <3>1. PICK g \in present : IsPrefix(root, g)
      BY <1>8 DEF Exists
    <3> QED BY <1>8, <3>1, FilesAssumption DEF Disk
  <2>3. Clear(spec, root, Len(root))
    BY <1>1 DEF Clear
  <2> QED BY <1>1, <2>1, <2>2, <2>3, OpenStep
<1>9. root \in present => Exists(root)
  BY <1>1, PrefixOfItself DEF Exists
<1> QED BY <1>6, <1>7, <1>8, <1>9

(* An entry below the root is longer than it, by its name at least. *)
LEMMA SeenIs ==
  ASSUME Disk, Walks, NEW i \in SpecIds, NEW p, Seen(i, p)
  PROVE  /\ Walking(i) /\ p \in todo[i] /\ p \in Paths
         /\ Len(p) \in Len(specs[i].path) + 1 .. Len(p)
         /\ Clear(specs[i], p, Len(p) - 1)
<1>1. Walking(i) /\ p \in todo[i] /\ p # specs[i].path
  BY DEF Seen
<1>2. p \in Paths /\ specs[i].path \in Paths /\ Frontier(specs[i], todo[i])
  BY <1>1, GoesOn
<1>3. IsPrefix(specs[i].path, p) /\ Clear(specs[i], p, Len(p) - 1)
  BY <1>1, <1>2 DEF Frontier
<1>4. ~(Len(specs[i].path) >= Len(p))
  BY <1>1, <1>2, <1>3, PrefixEqual
<1>5. Len(p) \in Nat /\ Len(specs[i].path) \in Nat
  BY <1>2 DEF Paths
<1> QED BY <1>1, <1>2, <1>3, <1>4, <1>5

LEMMA IgnoredStep ==
  ASSUME Disk, Walks, NEW i \in SpecIds, NEW p, WalkIgnored(i, p)
  PROVE  Walks'
<1> DEFINE spec == specs[i]
<1>1. Seen(i, p) /\ UNCHANGED <<disk, tree, over, out, failed>> /\ todo' = [todo EXCEPT ![i] = @ \ {p}]
  BY DEF WalkIgnored
<1>2. /\ Walking(i) /\ p \in todo[i] /\ p \in Paths /\ Len(p) \in Len(spec.path) + 1 .. Len(p)
  BY <1>1, SeenIs
<1>3. /\ i \notin over /\ failed[i] = None /\ spec \in DirSpecs /\ spec.path \in Paths
      /\ Len(spec.path) \in Nat /\ todo[i] \in SUBSET Paths /\ out[i] \in Seq(Files)
      /\ Frontier(spec, todo[i]) /\ Found(spec, todo[i], out[i]) /\ Reached(spec, todo[i], out[i])
  BY <1>2, GoesOn
<1>4. PICK n \in Nat : n = Len(p)
  BY <1>2 DEF Paths
<1>5. \/ p[n] \in Dotted
      \/ p \notin Files /\ spec.skip_hidden /\ p[n] \in Underscored
      \/ p \in Files /\ p[n] \notin Rbs
  BY <1>4 DEF WalkIgnored, Name
<1>6. ASSUME NEW f \in always, Promise!Takes(spec, f), IsPrefix(p, f) PROVE FALSE
  <2>1. f \in Files /\ f \in Paths /\ Len(f) \in Nat
    BY FilesAssumption DEF Disk, Paths
  <2>2. n <= Len(f) /\ p[n] = f[n]
    <3>1. n \in 1 .. Len(p)
      BY <1>2, <1>3, <1>4
    <3> QED BY <1>2, <1>4, <1>6, <2>1, <3>1, PrefixIs
  <2>3. f # spec.path
    BY <1>2, <1>3, <1>4, <2>1, <2>2
  <2>4. f[Len(f)] \in Rbs /\ f[Len(f)] \notin Dotted /\ Clear(spec, f, Len(f) - 1)
    BY <1>3, <1>6, <2>1, <2>3, TakesIs
  <2>5. CASE n = Len(f)
    <3>1. p = f
      <4>1. Len(p) >= Len(f)
        BY <1>4, <2>5
      <4> QED BY <1>2, <1>6, <2>1, <4>1, PrefixEqual
    <3> QED BY <1>5, <2>1, <2>4, <2>5, <3>1
  <2>6. CASE n # Len(f)
    <3>1. n \in Len(spec.path) + 1 .. Len(f) - 1
      BY <1>2, <1>3, <1>4, <2>1, <2>2, <2>6
    <3>2. p[n] \notin Dotted /\ (spec.skip_hidden => p[n] \notin Underscored)
      BY <2>2, <2>4, <3>1 DEF Clear
    <3>3. p \notin Files
      BY <1>4, <1>6, <2>1, <2>6, FilesAssumption
    <3> QED BY <1>5, <3>2, <3>3
  <2> QED BY <2>5, <2>6
<1>7. ASSUME NEW d \in denied, InTheWay(spec, d), IsPrefix(p, d) PROVE FALSE
  <2>1. d \in Paths /\ Len(d) \in Nat
    BY DEF Disk, Paths
  <2>2. Clear(spec, d, Len(d))
    BY <1>3, <1>7, <2>1, EntersIs DEF InTheWay
  <2>3. n <= Len(d) /\ p[n] = d[n]
    <3>1. n \in 1 .. Len(p)
      BY <1>2, <1>3, <1>4
    <3> QED BY <1>2, <1>4, <1>7, <2>1, <3>1, PrefixIs
  <2>4. n \in Len(spec.path) + 1 .. Len(d)
    BY <1>2, <1>3, <1>4, <2>1, <2>3
  <2>5. p[n] \notin Dotted /\ (spec.skip_hidden => p[n] \notin Underscored)
    BY <2>2, <2>3, <2>4 DEF Clear
  <2>6. p \in Files
    BY <1>5, <2>5
  <2>7. PICK f \in always : IsPrefix(d, f)
    BY <1>7 DEF InTheWay
  <2> QED BY <1>7, <2>6, <2>7, FileInNoWay
<1>8. Reached(spec, todo[i] \ {p}, out[i])
  BY <1>3, <1>6, <1>7, DroppedReached
<1>9. Frontier(spec, todo[i] \ {p}) /\ Found(spec, todo[i] \ {p}, out[i])
  BY <1>3, Dropped
<1>10. /\ todo' = [todo EXCEPT ![i] = todo[i] \ {p}] /\ over' = over \cup {}
       /\ out' = [out EXCEPT ![i] = out[i]] /\ failed' = [failed EXCEPT ![i] = None]
  BY <1>1, <1>3 DEF Walks
<1> HIDE DEF spec
<1>11. spec = specs[i]
  BY DEF spec
<1>12. PICK t \in SUBSET Paths : t = todo[i] \ {p}
  BY <1>3
<1>13. out[i] \in Seq(Files) /\ i \notin over /\ UNCHANGED <<disk, tree>>
  BY <1>1, <1>3
<1>14. Frontier(specs[i], t) /\ Found(specs[i], t, out[i]) /\ Reached(specs[i], t, out[i])
  BY <1>8, <1>9, <1>11, <1>12
<1> QED BY <1>10, <1>12, <1>13, <1>14, OneWalk

LEMMA DirStep ==
  ASSUME Disk, Walks, NEW i \in SpecIds, NEW p, WalkDir(i, p)
  PROVE  Walks'
<1>1. /\ Seen(i, p) /\ UNCHANGED <<disk, tree, out>> /\ p \notin Files /\ Open(i, p)
      /\ Name(p) \notin Dotted /\ ~(specs[i].skip_hidden /\ Name(p) \in Underscored)
  BY DEF WalkDir
<1>2. /\ Walking(i) /\ p \in todo[i] /\ p \in Paths /\ Clear(specs[i], p, Len(p) - 1)
  BY <1>1, SeenIs
<1>3. Len(p) \in Nat /\ Len(specs[i].path) \in Nat
  BY <1>2, GoesOn DEF Paths
<1>4. ASSUME NEW j \in Len(specs[i].path) + 1 .. Len(p)
      PROVE  p[j] \notin Dotted /\ (specs[i].skip_hidden => p[j] \notin Underscored)
  <2>1. CASE j = Len(p)
    BY <1>1, <2>1 DEF Name
  <2>2. CASE j # Len(p)
    <3>1. j \in Len(specs[i].path) + 1 .. Len(p) - 1
      BY <1>3, <2>2
    <3> QED BY <1>2, <3>1 DEF Clear
  <2> QED BY <2>1, <2>2
<1>5. Clear(specs[i], p, Len(p))
  BY <1>4 DEF Clear
<1> QED BY <1>1, <1>2, <1>5, OpenStep

LEMMA FileStep ==
  ASSUME Disk, Walks, NEW i \in SpecIds, NEW p, WalkFile(i, p)
  PROVE  Walks'
<1> DEFINE spec == specs[i]
           o    == Append(out[i], p)
<1>1. /\ Seen(i, p) /\ UNCHANGED <<disk, tree, over, failed>> /\ p \in Files
      /\ Name(p) \notin Dotted /\ Name(p) \in Rbs
      /\ todo' = [todo EXCEPT ![i] = @ \ {p}] /\ out' = [out EXCEPT ![i] = Append(@, p)]
  BY DEF WalkFile
<1>2. /\ Walking(i) /\ p \in todo[i] /\ p \in Paths /\ Clear(spec, p, Len(p) - 1)
  BY <1>1, SeenIs
<1>3. /\ i \notin over /\ failed[i] = None /\ spec \in DirSpecs /\ spec.path \in Paths
      /\ todo[i] \in SUBSET Paths /\ out[i] \in Seq(Files)
      /\ Frontier(spec, todo[i]) /\ Found(spec, todo[i], out[i]) /\ Reached(spec, todo[i], out[i])
  BY <1>2, GoesOn
<1>4. p # spec.path /\ IsPrefix(spec.path, p)
  BY <1>1, <1>2, <1>3 DEF Seen, Frontier
<1>5. p \in ever
  <2>1. PICK f \in ever : IsPrefix(p, f)
    BY <1>2, <1>3, <1>4 DEF Frontier
  <2> QED BY <1>1, <2>1, FilesAssumption DEF Disk
<1>6. Promise!Takes(spec, p)
  BY <1>1, <1>2, <1>3, <1>4, TakesIs DEF Name
<1>7. p \notin ToSet(out[i])
  BY <1>2, <1>3, PrefixOfItself DEF Found
<1>8. o \in Seq(Files) /\ ToSet(o) = ToSet(out[i]) \cup {p} /\ NoneTwice(o)
  <2>1. NoneTwice(out[i])
    BY <1>3 DEF Found
  <2>2. /\ o \in Seq(Files) /\ DOMAIN o = 1 .. Len(out[i]) + 1 /\ o[Len(out[i]) + 1] = p
        /\ \A j \in 1 .. Len(out[i]) : o[j] = out[i][j]
    BY <1>1, <1>3
  <2>3. DOMAIN out[i] = 1 .. Len(out[i]) /\ Len(out[i]) \in Nat
    BY <1>3
  <2> HIDE DEF o
  <2>4. \A j \in 1 .. Len(out[i]) + 1 : j \in 1 .. Len(out[i]) \/ j = Len(out[i]) + 1
    BY <2>3
  <2>5. \A j \in 1 .. Len(out[i]) : o[j] # p
    BY <1>7, <2>2, <2>3 DEF ToSet
  <2>6. NoneTwice(o)
    BY <2>1, <2>2, <2>3, <2>4, <2>5 DEF NoneTwice
  <2>7. ToSet(o) = ToSet(out[i]) \cup {p}
    <3>1. \A j \in 1 .. Len(out[i]) : j \in 1 .. Len(out[i]) + 1
      BY <2>3
    <3>2. Len(out[i]) + 1 \in 1 .. Len(out[i]) + 1
      BY <2>3
    <3> QED BY <2>2, <2>3, <2>4, <3>1, <3>2 DEF ToSet
  <2> QED BY <2>2, <2>6, <2>7
<1> HIDE DEF o
<1>9. Frontier(spec, todo[i] \ {p}) /\ Found(spec, todo[i] \ {p}, out[i])
  BY <1>3, Dropped
<1>10. \A q \in todo[i] \ {p} : ~IsPrefix(q, p)
  BY <1>2, <1>3 DEF Frontier
<1>11. Found(spec, todo[i] \ {p}, o)
  BY <1>5, <1>6, <1>8, <1>9, <1>10 DEF Found
<1>12. \A f \in always : IsPrefix(p, f) => f = p
  BY <1>1, FilesAssumption DEF Disk
<1>13. \A d \in denied : InTheWay(spec, d) => ~IsPrefix(p, d)
  BY <1>1, FileInNoWay DEF InTheWay
<1>14. Reached(spec, todo[i] \ {p}, o)
  BY <1>3, <1>8, <1>12, <1>13, DroppedReached
<1>15. /\ todo' = [todo EXCEPT ![i] = todo[i] \ {p}] /\ over' = over \cup {}
       /\ out' = [out EXCEPT ![i] = o] /\ failed' = [failed EXCEPT ![i] = None]
  BY <1>1, <1>3 DEF Walks, o
<1> HIDE DEF spec
<1>16. spec = specs[i]
  BY DEF spec
<1>17. PICK t \in SUBSET Paths : t = todo[i] \ {p}
  BY <1>3
<1>18. o \in Seq(Files) /\ i \notin over /\ UNCHANGED <<disk, tree>>
  BY <1>1, <1>3, <1>8
<1>19. Frontier(specs[i], t) /\ Found(specs[i], t, o) /\ Reached(specs[i], t, o)
  BY <1>9, <1>11, <1>14, <1>16, <1>17
<1> QED BY <1>15, <1>17, <1>18, <1>19, OneWalk

LEMMA EndStep ==
  ASSUME Disk, Walks, NEW i \in SpecIds, WalkEnd(i)
  PROVE  Walks'
<1> DEFINE spec == specs[i]
           o    == Sorted(out[i])
<1>1. /\ Walking(i) /\ todo[i] = {} /\ UNCHANGED <<disk, tree, todo, failed>>
      /\ over' = over \cup {i} /\ out' = [out EXCEPT ![i] = o]
  BY DEF WalkEnd
<1>2. /\ i \notin over /\ failed[i] = None /\ out[i] \in Seq(Files)
      /\ Frontier(spec, {}) /\ Found(spec, {}, out[i]) /\ Reached(spec, {}, out[i])
  BY <1>1, GoesOn
<1>3. /\ o = Promise!InOrder(ToSet(out[i])) /\ o \in Seq(Files) /\ NoneTwice(o)
      /\ ToSet(o) = ToSet(out[i])
  BY <1>2, SortedIs DEF Found
<1> HIDE DEF o
<1>4. Found(spec, {}, o) /\ Reached(spec, {}, o) /\ o = Promise!InOrder(ToSet(o))
  BY <1>2, <1>3 DEF Found, Reached
<1>5. todo' = [todo EXCEPT ![i] = {}] /\ failed' = [failed EXCEPT ![i] = None]
  BY <1>1, <1>2 DEF Walks
<1> HIDE DEF spec
<1>6. spec = specs[i]
  BY DEF spec
<1> QED BY <1>1, <1>2, <1>3, <1>4, <1>5, <1>6, OneWalk

-----------------------------------------------------------------------------
(* The load.                                                               *)

\* What there may be an error about.
Blamed == bad \cup denied \cup (Files \ always)

\* A file of the list has been read well, unless it is still to be read or
\* there is an error.
Reads ==
  /\ error # None => /\ paths # None /\ error \in ToSet(paths)
                     /\ error \in bad \cup (Files \ always)
  /\ paths # None =>
       /\ SpecIds \subseteq over /\ \A i \in SpecIds : failed[i] = None
       /\ paths = Merge(out) /\ unread \subseteq ToSet(paths)
       /\ \A f \in ToSet(paths) : f \in unread \/ error # None \/ f \notin bad

Answers ==
  answer # None =>
    /\ answer \in Results
    /\ IF answer.ok
       THEN answer.files = paths /\ paths # None /\ unread = {} /\ error = None
       ELSE answer.at \in Blamed

IInv == Disk /\ Walks /\ Reads /\ Answers

(* Before the first step nothing is known, and all is ahead. *)
LEMMA InitHolds == Init => IInv
<1> SUFFICES ASSUME Init PROVE IInv
  OBVIOUS
<1>1. specs \in Seq(DirSpecs)
  BY SpecsAssumption DEF Init, DirSpecs, Paths
<1>2. Disk
  BY <1>1, DiskAssumption DEF Init, Disk, Paths
<1>3. /\ todo = [i \in SpecIds |-> {specs[i].path}] /\ out = [i \in SpecIds |-> << >>]
      /\ failed = [i \in SpecIds |-> None] /\ over = {}
      /\ always = present /\ ever = present
  BY DEF Init, SpecIds
<1>4. ASSUME NEW i \in SpecIds PROVE Sound(i) /\ {specs[i].path} \in SUBSET Paths
  <2> DEFINE spec == specs[i]
             t    == {specs[i].path}
  <2>1. spec \in DirSpecs /\ spec.path \in Paths /\ Len(spec.path) \in Nat
    <3>1. spec \in DirSpecs
      BY <1>1 DEF SpecIds
    <3>2. spec.path \in Paths
      BY <3>1 DEF DirSpecs
    <3> QED BY <3>1, <3>2 DEF Paths
  <2>2. todo[i] = t /\ out[i] = << >> /\ failed[i] = None /\ i \notin over
    BY <1>3
  <2>3. IsPrefix(spec.path, spec.path)
    BY <2>1, PrefixOfItself
  <2>4. Clear(spec, spec.path, Len(spec.path) - 1)
    BY <2>1 DEF Clear
  <2>5. Frontier(spec, t)
    BY <2>3, <2>4 DEF Frontier
  <2>6. Found(spec, t, << >>)
    BY DEF Found, NoneTwice, ToSet
  <2>7. ASSUME NEW f \in always, Promise!Takes(spec, f) PROVE IsPrefix(spec.path, f)
    <3>1. f \in Paths
      BY <1>2, FilesAssumption DEF Disk, Paths
    <3> QED BY <2>1, <2>3, <2>7, <3>1, TakesIs
  <2>8. ASSUME NEW d \in denied, InTheWay(spec, d) PROVE IsPrefix(spec.path, d)
    <3>1. d \in Paths
      BY <1>2 DEF Disk
    <3> QED BY <2>1, <2>8, <3>1, EntersIs DEF InTheWay
  <2>9. Reached(spec, t, << >>)
    BY <2>7, <2>8 DEF Reached
  <2> QED BY <2>1, <2>2, <2>5, <2>6, <2>9 DEF Sound
<1>5. Walks
  BY <1>3, <1>4 DEF Walks
<1>6. Reads /\ Answers
  BY DEF Init, Reads, Answers
<1> QED BY <1>2, <1>5, <1>6 DEF IInv

(* A directory that cannot be read is one of denied. *)
LEMMA WalkStep ==
  ASSUME IInv, Walk
  PROVE  IInv'
<1>1. PICK i \in SpecIds :
        \/ WalkRoot(i) \/ WalkEnd(i)
        \/ \E p \in todo[i] : WalkIgnored(i, p) \/ WalkDir(i, p) \/ WalkFile(i, p)
  BY DEF Walk
<1>2. UNCHANGED <<disk, tree, reads, answer>> /\ paths = None
  BY <1>1 DEF WalkRoot, WalkEnd, WalkIgnored, WalkDir, WalkFile, Seen, Walking
<1>3. Walks'
  BY <1>1, RootStep, EndStep, IgnoredStep, DirStep, FileStep DEF IInv
<1>4. (Disk /\ Reads /\ Answers)'
  BY <1>2 DEF IInv, Disk, Reads, Answers, Blamed, disk, tree, reads
<1> QED BY <1>3, <1>4 DEF IInv

LEMMA WalksOver ==
  ASSUME Walks, UNCHANGED <<disk, tree, walks>>
  PROVE  Walks'
BY DEF Walks, Sound, Frontier, Found, Reached, InTheWay, Stopped, SpecIds, disk, tree, walks

(* What the walks have found, put together. *)
LEMMA OutIs ==
  ASSUME Disk, Walks
  PROVE  /\ out \in Seq(Seq(Files)) /\ DOMAIN out = SpecIds
         /\ Merge(out) \in Seq(Files)
         /\ \A i \in SpecIds : ToSet(out[i]) \subseteq ToSet(Merge(out))
         /\ \A f \in ToSet(Merge(out)) : f \in Files /\ \E i \in SpecIds : f \in ToSet(out[i])
<1>1. out \in Seq(Seq(Files)) /\ DOMAIN out = SpecIds
  <2>1. SpecIds = 1 .. Len(specs) /\ Len(specs) \in Nat
    BY DEF Disk, SpecIds
  <2>2. out \in [1 .. Len(specs) -> Seq(Files)]
    BY <2>1 DEF Walks
  <2> QED BY <2>1, <2>2
<1>2. /\ Merge(out) \in Seq(Files)
      /\ \A i \in SpecIds : ToSet(out[i]) \subseteq ToSet(Merge(out))
      /\ \A f \in ToSet(Merge(out)) : \E i \in SpecIds : f \in ToSet(out[i])
  BY <1>1, MergeIs
<1>3. \A f \in ToSet(Merge(out)) : f \in Files
  BY <1>2 DEF ToSet
<1> QED BY <1>1, <1>2, <1>3

(* The list of files, or the error of the first walk that failed. *)
LEMMA DiscoverStep ==
  ASSUME IInv, DiscoverFail \/ Discover
  PROVE  IInv'
<1>1. UNCHANGED <<disk, tree, walks, error>> /\ paths = None /\ answer = None
  BY DEF DiscoverFail, Discover, reads, Walked
<1>2. Disk' /\ Walks'
  BY <1>1, WalksOver DEF IInv, Disk, disk, tree
<1>3. CASE DiscoverFail
  <2>1. PICK i \in SpecIds : failed[i] # None /\ Reply(FALSE, << >>, failed[i])
    BY <1>3 DEF DiscoverFail
  <2>2. UNCHANGED reads
    BY <1>3 DEF DiscoverFail
  <2>3. failed[i] \in denied
    BY <2>1 DEF IInv, Walks
  <2>4. answer' \in Results /\ ~answer'.ok /\ answer'.at = failed[i]
    BY <2>1, <2>3 DEF Reply, Results, IInv, Disk, Paths
  <2>5. Answers'
    BY <1>1, <2>3, <2>4 DEF Answers, Blamed, disk
  <2>6. Reads'
    BY <1>1, <2>2 DEF IInv, Reads, disk, tree, walks, reads, SpecIds
  <2> QED BY <1>2, <2>5, <2>6 DEF IInv
<1>4. CASE Discover
  <2>1. /\ SpecIds \subseteq over /\ \A i \in SpecIds : failed[i] = None
        /\ paths' = Merge(out) /\ unread' = ToSet(Merge(out)) /\ answer' = answer
    BY <1>4 DEF Discover, Walked
  <2>2. error = None
    BY <1>1 DEF IInv, Reads
  <2>3. Reads'
    BY <1>1, <2>1, <2>2 DEF Reads, walks, disk, SpecIds
  <2>4. Answers'
    BY <1>1, <2>1 DEF Answers
  <2> QED BY <1>2, <2>3, <2>4 DEF IInv
<1> QED BY <1>3, <1>4

(* One file read: it is done with, and its error is kept unless there is one. *)
LEMMA ReadStep ==
  ASSUME IInv, NEW f \in Files, Read(f)
  PROVE  IInv'
<1>1. /\ paths # None /\ answer = None /\ f \in unread /\ unread' = unread \ {f}
      /\ error' = IF error = None /\ (f \notin present \/ f \in bad) THEN f ELSE error
      /\ UNCHANGED <<disk, tree, walks, paths, answer>>
  BY DEF Read, Reading
<1>2. Disk' /\ Walks' /\ Answers'
  BY <1>1, WalksOver DEF IInv, Disk, disk, tree, Answers
<1>3. CASE error = None /\ (f \notin present \/ f \in bad)
  <2>1. error' = f /\ f # None
    BY <1>1, <1>3, NoneAssumption
  <2>2. f \in bad \cup (Files \ always) /\ f \in ToSet(paths)
    BY <1>1, <1>3 DEF IInv, Disk, Reads
  <2> QED BY <1>1, <1>2, <2>1, <2>2 DEF IInv, Reads, disk, tree, walks, SpecIds
<1>4. CASE ~(error = None /\ (f \notin present \/ f \in bad))
  <2>1. error' = error /\ (error = None => f \notin bad)
    BY <1>1, <1>4
  <2> QED BY <1>1, <1>2, <2>1 DEF IInv, Reads, disk, tree, walks, SpecIds
<1> QED BY <1>3, <1>4

(* The answer. *)
LEMMA AnswerStep ==
  ASSUME IInv, FailLoad \/ Loaded
  PROVE  IInv'
<1>1. UNCHANGED <<disk, tree, walks, reads>> /\ paths # None /\ answer = None
  BY DEF FailLoad, Loaded, Reading
<1>2. Disk' /\ Walks' /\ Reads'
  BY <1>1, WalksOver DEF IInv, Disk, Reads, disk, tree, walks, reads, SpecIds
<1>3. paths \in Seq(Files) /\ \A f \in ToSet(paths) : f \in Files /\ f \in Seq(STRING)
  BY <1>1, OutIs, FilesAssumption DEF IInv, Reads
<1>4. CASE FailLoad
  <2>1. error # None /\ answer' = [ok |-> FALSE, files |-> << >>, at |-> error]
    BY <1>4 DEF FailLoad, Reply
  <2>2. error \in Blamed /\ error \in Seq(STRING)
    BY <1>3, <2>1 DEF IInv, Reads, Blamed
  <2>3. answer' \in Results /\ ~answer'.ok /\ answer'.at = error
    BY <2>1, <2>2 DEF Results
  <2>4. Answers'
    BY <1>1, <2>2, <2>3 DEF Answers, Blamed, disk, tree
  <2> QED BY <1>2, <2>4 DEF IInv
<1>5. CASE Loaded
  <2>1. unread = {} /\ error = None /\ answer' = [ok |-> TRUE, files |-> paths, at |-> None]
    BY <1>5 DEF Loaded, Reply
  <2>2. answer' \in Results /\ answer'.ok /\ answer'.files = paths
    BY <1>3, <2>1 DEF Results
  <2>3. Answers'
    BY <1>1, <2>1, <2>2 DEF Answers, reads
  <2> QED BY <1>2, <2>3 DEF IInv
<1> QED BY <1>4, <1>5

(* Other programs only take files from those there are all the time, and add
   to those there are at some time. *)
LEMMA ChangeStep ==
  ASSUME IInv, NEW f \in Files, Change(f)
  PROVE  IInv'
<1>1. /\ UNCHANGED <<disk, walks, reads, answer>> /\ answer = None
      /\ always' \subseteq always /\ ever \subseteq ever'
      /\ Disk'
  BY DEF Change, IInv, Disk, disk
<1>2. ASSUME NEW i \in SpecIds PROVE Sound(i)'
  <2>1. Sound(i)
    BY DEF IInv, Walks
  <2>2. Frontier(specs[i], todo[i])'
    BY <1>1, <2>1 DEF Sound, Frontier, disk, walks
  <2>3. Found(specs[i], todo[i], out[i])'
    BY <1>1, <2>1 DEF Sound, Found, disk, walks
  <2>4. (failed[i] = None => Reached(specs[i], todo[i], out[i]))'
    BY <1>1, <2>1 DEF Sound, Reached, InTheWay, disk, walks
  <2>5. (failed[i] # None => Stopped(specs[i], failed[i]))'
    BY <1>1, <2>1 DEF Sound, Stopped, disk, walks
  <2> QED BY <1>1, <2>1, <2>2, <2>3, <2>4, <2>5 DEF Sound, walks
<1>3. Walks'
  BY <1>1, <1>2 DEF IInv, Walks, SpecIds, disk, walks
<1>4. Reads'
  BY <1>1 DEF IInv, Reads, disk, walks, reads, SpecIds
<1>5. Answers'
  BY <1>1 DEF Answers
<1> QED BY <1>1, <1>3, <1>4, <1>5 DEF IInv

(* The invariant holds in every state of a load. *)
THEOREM Invariance == Spec => []IInv
<1>1. IInv /\ [Next]_vars => IInv'
  <2> SUFFICES ASSUME IInv, [Next]_vars PROVE IInv'
    OBVIOUS
  <2>1. CASE Walk
    BY <2>1, WalkStep
  <2>2. CASE DiscoverFail \/ Discover
    BY <2>2, DiscoverStep
  <2>3. ASSUME NEW f \in Files, Read(f) PROVE IInv'
    BY <2>3, ReadStep
  <2>4. CASE FailLoad \/ Loaded
    BY <2>4, AnswerStep
  <2>5. ASSUME NEW f \in Files, Change(f) PROVE IInv'
    BY <2>5, ChangeStep
  <2>6. CASE UNCHANGED vars
    <3>1. Walks' /\ Disk'
      BY <2>6, WalksOver DEF vars, IInv, Disk, disk, tree
    <3>2. Reads' /\ Answers'
      BY <2>6 DEF vars, disk, tree, walks, reads, IInv, Reads, Answers, Blamed, SpecIds
    <3> QED BY <3>1, <3>2 DEF IInv
  <2> QED BY <2>1, <2>2, <2>3, <2>4, <2>5, <2>6 DEF Next, Load
<1> QED BY <1>1, InitHolds, PTL DEF Spec

(* TypeOK: what discovery and from_paths keep is made of files, and the walk of
   a spec stays below its path. *)
THEOREM TypeCorrect == Spec => []TypeOK
<1>1. IInv => TypeOK
  <2> SUFFICES ASSUME IInv PROVE TypeOK
    OBVIOUS
  <2>1. Merge(out) \in Seq(Files) /\ \A f \in ToSet(Merge(out)) : f \in Files
    BY OutIs DEF IInv
  <2>2. \A i \in SpecIds : \A p \in todo[i] : IsPrefix(specs[i].path, p)
    BY DEF IInv, Walks, Sound, Frontier
  <2> QED BY <2>1, <2>2 DEF IInv, Disk, Walks, Reads, Answers, TypeOK
<1> QED BY <1>1, Invariance, PTL

(* LoadedFilesWereRead: what is loaded was there and could be parsed, and no
   file of the list is missing. *)
THEOREM OnlyWhatWasRead == Spec => []LoadedFilesWereRead
<1>1. IInv => LoadedFilesWereRead
  <2> SUFFICES ASSUME IInv, answer # None, answer.ok
               PROVE  /\ answer.files = paths /\ unread = {}
                      /\ \A f \in ToSet(paths) : f \notin bad /\ f \in ever
    BY DEF LoadedFilesWereRead
  <2>1. answer.files = paths /\ paths # None /\ unread = {} /\ error = None
    BY DEF IInv, Answers
  <2>2. paths = Merge(out) /\ \A f \in ToSet(paths) : f \notin bad
    BY <2>1 DEF IInv, Reads
  <2>3. \A f \in ToSet(paths) : \E i \in SpecIds : f \in ToSet(out[i])
    BY <2>2, OutIs DEF IInv
  <2>4. \A f \in ToSet(paths) : f \in ever
    BY <2>3 DEF IInv, Walks, Sound, Found
  <2> QED BY <2>1, <2>2, <2>4
<1> QED BY <1>1, Invariance, PTL

(* ErrorsAreReal: an error names a bad file, one that was away, or a
   directory that cannot be read. *)
THEOREM ErrorsHaveACause == Spec => []ErrorsAreReal
<1>1. IInv => ErrorsAreReal
  BY DEF IInv, Answers, Blamed, ErrorsAreReal
<1> QED BY <1>1, Invariance, PTL

-----------------------------------------------------------------------------
(* What the load promises.                                                 *)

(* The answer that lists files is one a walk and a read one after the other
   would give. *)
LEMMA LoadedSucceeds ==
  ASSUME IInv, Loaded
  PROVE  Promise!Succeed
<1>1. /\ paths # None /\ answer = None /\ unread = {} /\ error = None
      /\ answer' = [ok |-> TRUE, files |-> paths, at |-> None]
      /\ UNCHANGED <<disk, tree, walks, reads>>
  BY DEF Loaded, Reading, Reply
<1>2. /\ \A i \in SpecIds : i \in over /\ failed[i] = None
      /\ paths = Merge(out) /\ \A f \in ToSet(paths) : f \notin bad
  BY <1>1 DEF IInv, Reads
<1>3. /\ out \in Seq(Seq(Files)) /\ DOMAIN out = SpecIds
      /\ \A i \in SpecIds : ToSet(out[i]) \subseteq ToSet(paths)
  BY <1>2, OutIs DEF IInv
<1>4. \A i \in SpecIds : /\ Found(specs[i], {}, out[i]) /\ Reached(specs[i], {}, out[i])
                         /\ out[i] = Promise!InOrder(ToSet(out[i]))
  BY <1>2 DEF IInv, Walks, Sound
<1> DEFINE known == [i \in SpecIds |-> ToSet(out[i]) \ always]
           found == [i \in SpecIds |-> {f \in always \cup known[i] : Promise!Takes(specs[i], f)}]
<1>5. known \in [SpecIds -> SUBSET (ever \ always)]
  BY <1>4 DEF Found
<1>6. ASSUME NEW i \in SpecIds PROVE found[i] = ToSet(out[i])
  <2>1. \A f \in ToSet(out[i]) : Promise!Takes(specs[i], f)
    BY <1>4 DEF Found
  <2>2. \A f \in always : Promise!Takes(specs[i], f) => f \in ToSet(out[i])
    BY <1>4 DEF Reached
  <2>3. found[i] = {f \in always \cup (ToSet(out[i]) \ always) : Promise!Takes(specs[i], f)}
    OBVIOUS
  <2> QED BY <2>1, <2>2, <2>3
<1>7. \A i \in SpecIds : found[i] \cap bad = {}
  <2> HIDE DEF found
  <2> QED BY <1>2, <1>3, <1>6
<1>8. Promise!Concatenated(found) = paths
  <2> HIDE DEF found
  <2>1. [i \in SpecIds |-> Promise!InOrder(found[i])] = [i \in SpecIds |-> out[i]]
    BY <1>4, <1>6
  <2>2. [i \in SpecIds |-> out[i]] = out
    BY <1>3
  <2>3. Promise!Concatenated(found) = Promise!FirstOccurrences(Promise!FlattenSeq(out))
    BY <2>1, <2>2 DEF Promise!Concatenated, SpecIds
  <2> QED BY <1>2, <2>3, SameFold
<1>9. answer' = [ok |-> TRUE, files |-> Promise!Concatenated(found), at |-> None]
  <2> HIDE DEF found
  <2> QED BY <1>1, <1>8
<1>10. ASSUME NEW d \in denied, Promise!Entered(d), NEW f \in always, Promise!IsPrefix(d, f)
       PROVE  FALSE
  <2>1. PICK i \in SpecIds : Promise!Enters(specs[i], d)
    BY <1>10 DEF Promise!Entered, SpecIds
  <2>2. InTheWay(specs[i], d)
    BY <1>10, <2>1, SameOperators DEF InTheWay
  <2> QED BY <1>4, <2>2 DEF Reached
<1>11. \E k \in [SpecIds -> SUBSET (ever \ always)] :
         LET fs == [i \in SpecIds |-> {f \in always \cup k[i] : Promise!Takes(specs[i], f)}]
         IN  /\ \A i \in SpecIds : fs[i] \cap bad = {}
             /\ answer' = [ok |-> TRUE, files |-> Promise!Concatenated(fs), at |-> None]
  <2> WITNESS known \in [SpecIds -> SUBSET (ever \ always)]
  <2> QED BY <1>7, <1>9
<1> QED BY <1>10, <1>11 DEF Promise!Succeed, SpecIds

(* An error is about what stands in the way. *)
LEMMA FailLoadFails ==
  ASSUME IInv, FailLoad
  PROVE  Promise!Fail
<1>1. /\ paths # None /\ answer = None /\ error # None
      /\ answer' = [ok |-> FALSE, files |-> << >>, at |-> error]
  BY DEF FailLoad, Reading, Reply
<1>2. paths = Merge(out) /\ error \in ToSet(paths) /\ error \in bad \cup (Files \ always)
  BY <1>1 DEF IInv, Reads
<1>3. PICK i \in SpecIds : error \in Files /\ error \in ToSet(out[i])
  BY <1>2, OutIs DEF IInv
<1>4. error \in ever /\ Promise!Takes(specs[i], error)
  BY <1>3 DEF IInv, Walks, Sound, Found
<1>5. Promise!Taken(error)
  BY <1>4 DEF Promise!Taken, SpecIds
<1>6. error \notin denied
  BY <1>3 DEF IInv, Disk
<1>7. Promise!IsPrefix(error, error)
  BY <1>3, FilesAssumption, SameOperators, PrefixOfItself DEF Paths
<1>8. error \in bad \cup (ever \ always) \cup denied
  BY <1>2, <1>4
<1> QED BY <1>1, <1>4, <1>5, <1>6, <1>7, <1>8 DEF Promise!Fail

LEMMA DiscoverFailFails ==
  ASSUME IInv, DiscoverFail
  PROVE  Promise!Fail
<1>1. PICK i \in SpecIds : failed[i] # None /\ answer' = [ok |-> FALSE, files |-> << >>, at |-> failed[i]]
  BY DEF DiscoverFail, Reply
<1>2. Stopped(specs[i], failed[i])
  BY <1>1 DEF IInv, Walks, Sound
<1>3. failed[i] \in denied /\ Promise!Entered(failed[i])
  BY <1>2 DEF Stopped, Promise!Entered, SpecIds
<1>4. \E f \in ever : Promise!IsPrefix(failed[i], f)
  BY <1>2, SameOperators DEF Stopped
<1> QED BY <1>1, <1>3, <1>4 DEF Promise!Fail

(* Every step of the threads and of other programs is a step of FileLoading, or
   none. *)
LEMMA StepsAreSequential ==
  ASSUME IInv, [Next]_vars
  PROVE  [Promise!Next]_(Promise!vars)
<1>1. CASE Walk \/ Discover
  <2>1. UNCHANGED <<disk, tree, answer>>
    BY <1>1 DEF Walk, WalkRoot, WalkEnd, WalkIgnored, WalkDir, WalkFile, Discover
  <2> QED BY <2>1 DEF Promise!vars, Promise!disk, disk, tree
<1>2. ASSUME NEW f \in Files, Read(f) PROVE UNCHANGED Promise!vars
  BY <1>2 DEF Read, Promise!vars, Promise!disk, disk, tree
<1>3. CASE DiscoverFail \/ FailLoad \/ Loaded
  <2>1. answer = None /\ UNCHANGED <<disk, tree>>
    BY <1>3 DEF DiscoverFail, FailLoad, Loaded, Walked, Reading
  <2>2. answer' \in Results
    <3>1. CASE DiscoverFail
      <4>1. PICK i \in SpecIds :
              failed[i] # None /\ answer' = [ok |-> FALSE, files |-> << >>, at |-> failed[i]]
        BY <3>1 DEF DiscoverFail, Reply
      <4>2. failed[i] \in Seq(STRING)
        BY <4>1 DEF IInv, Walks, Disk, Paths
      <4> QED BY <4>1, <4>2 DEF Results
    <3>2. CASE FailLoad
      <4>1. error # None /\ paths # None /\ answer' = [ok |-> FALSE, files |-> << >>, at |-> error]
        BY <3>2 DEF FailLoad, Reply, Reading
      <4>2. error \in Seq(STRING)
        BY <4>1, OutIs, FilesAssumption DEF IInv, Reads
      <4> QED BY <4>1, <4>2 DEF Results
    <3>3. CASE Loaded
      <4>1. paths # None /\ answer' = [ok |-> TRUE, files |-> paths, at |-> None]
        BY <3>3 DEF Loaded, Reply, Reading
      <4>2. paths \in Seq(Files)
        BY <4>1, OutIs DEF IInv, Reads
      <4> QED BY <4>1, <4>2 DEF Results
    <3> QED BY <1>3, <3>1, <3>2, <3>3
  <2>3. answer' # None
    BY <2>2, NoneAssumption
  <2>4. Promise!Succeed \/ Promise!Fail
    BY <1>3, LoadedSucceeds, FailLoadFails, DiscoverFailFails
  <2>5. Promise!Reply
    BY <2>1, <2>3, <2>4 DEF Promise!Reply, Promise!disk, disk, tree
  <2> QED BY <2>5 DEF Promise!Next
<1>4. ASSUME NEW f \in Files, Change(f) PROVE Promise!Vanish(f) \/ Promise!Appear(f)
  BY <1>4 DEF Change, Promise!Vanish, Promise!Appear, Promise!disk, disk
<1>5. CASE UNCHANGED vars
  BY <1>5 DEF vars, disk, tree, Promise!vars, Promise!disk
<1> QED BY <1>1, <1>2, <1>3, <1>4, <1>5 DEF Next, Load, Promise!Next

(* IsSequentialLoad: whatever the order in which the threads walk and read,
   and whatever comes and goes on the disk meanwhile, a load gives at most one
   answer, and one that FileLoading allows. *)
THEOREM LoadsSequentially == Spec => IsSequentialLoad
<1>1. Init => Promise!Init
  BY DEF Init, Promise!Init
<1>2. IInv /\ [Next]_vars => [Promise!Next]_(Promise!vars)
  BY StepsAreSequential
<1> QED BY <1>1, <1>2, Invariance, PTL DEF Spec, IsSequentialLoad, Promise!SafeSpec

=============================================================================
