---------------------------- MODULE SequenceProofs ----------------------------
(***************************************************************************)
(* Facts about sequences put together and folded, and about functions on   *)
(* trees: what is defined by recursion over a sequence is reasoned about   *)
(* by induction on sets of positions.                                      *)
(***************************************************************************)
EXTENDS Naturals, SequencesExt, FiniteSetTheorems, WellFoundedInduction, SequenceTheorems, TLAPS

-----------------------------------------------------------------------------
(* Induction.                                                              *)

(* A non-empty set of positions up to L has a greatest one. *)
LEMMA Greatest ==
  ASSUME NEW L \in Nat, NEW F \in SUBSET (0..L), F # {}
  PROVE  \E i \in F : \A j \in F : j <= i
<1> DEFINE Up == {i..L : i \in F}
<1>1. Up \subseteq FiniteSubsetsOf(0..L)
  <2> SUFFICES ASSUME NEW i \in F PROVE i..L \in FiniteSubsetsOf(0..L)
    OBVIOUS
  <2>1. i \in Int /\ L \in Int /\ i..L \in SUBSET (0..L)
    OBVIOUS
  <2>2. IsFiniteSet(i..L)
    BY <2>1, FS_Interval
  <2> QED BY <2>1, <2>2 DEF FiniteSubsetsOf
<1>2. Up # {}
  OBVIOUS
<1>3. PICK x \in Up : \A y \in Up : <<y, x>> \notin StrictSubsetOrdering(0..L)
  <2>1. IsWellFoundedOn(StrictSubsetOrdering(0..L), FiniteSubsetsOf(0..L))
    BY FS_StrictSubsetOrderingWellFounded
  <2> HIDE DEF Up
  <2> QED BY <1>1, <1>2, <2>1, WFMin
<1>4. PICK i \in F : x = i..L
  BY <1>3
<1>5. ASSUME NEW j \in F, j > i PROVE FALSE
  <2>1. j..L \subseteq i..L /\ i \in i..L /\ i \notin j..L
    BY <1>5
  <2>2. <<j..L, x>> \in StrictSubsetOrdering(0..L)
    BY <1>4, <2>1 DEF StrictSubsetOrdering
  <2> QED BY <1>3, <2>2
<1> QED BY <1>5

(* Induction up to a bound, on a set instead of a predicate. *)
LEMMA UpTo ==
  ASSUME NEW n \in Nat, NEW A, 0 \in A,
         \A i \in 0 .. n : i # n /\ i \in A => i + 1 \in A
  PROVE  0 .. n \subseteq A
<1> DEFINE F == {i \in 0 .. n : 0 .. i \subseteq A}
<1>1. 0 \in F
  OBVIOUS
<1>2. PICK i \in F : \A j \in F : j <= i
  <2> HIDE DEF F
  <2>1. F \in SUBSET (0 .. n)
    BY DEF F
  <2> QED BY <1>1, <2>1, Greatest
<1>3. ASSUME i # n PROVE FALSE
  <2>1. i \in 0 .. n /\ i \in A /\ i + 1 \in A /\ i + 1 \in 0 .. n
    BY <1>3
  <2>2. i + 1 \in F
    BY <2>1
  <2> QED BY <1>2, <2>1, <2>2
<1> QED BY <1>3

\* The recursive function in FlattenSeq.
Partial(ss, n) ==
  CHOOSE f : f = [i \in 1 .. n |-> IF i = 1 THEN ss[i] ELSE f[i - 1] \o ss[i]]

(* It exists. *)
LEMMA Concatenation ==
  ASSUME NEW T, NEW n \in Nat \ {0}, NEW ss \in [1 .. n -> Seq(T)]
  PROVE  /\ Partial(ss, n) \in [1 .. n -> Seq(T)]
         /\ \A i \in 1 .. n :
              Partial(ss, n)[i] = IF i = 1 THEN ss[i] ELSE Partial(ss, n)[i - 1] \o ss[i]
<1> DEFINE Val(g, i) == IF i = 1 THEN ss[i] ELSE g[i - 1] \o ss[i]
           Upto(g, k) == g \in [1 .. k -> Seq(T)] /\ \A i \in 1 .. k : g[i] = Val(g, i)
           A == {k \in 0 .. n : \E g : Upto(g, k)}
<1>1. 0 \in A
  <2>1. Upto(<<>>, 0)
    OBVIOUS
  <2> HIDE DEF Upto
  <2> QED BY <2>1
<1>2. ASSUME NEW k \in 0 .. n, k # n, k \in A PROVE k + 1 \in A
  <2>1. PICK g : Upto(g, k)
    BY <1>2
  <2> DEFINE h == [i \in 1 .. k + 1 |-> Val(g, i)]
  <2>2. k + 1 \in 1 .. n
    BY <1>2
  <2>3. h \in [1 .. k + 1 -> Seq(T)]
    BY <1>2, <2>1, <2>2
  <2>4. ASSUME NEW i \in 1 .. k PROVE h[i] = g[i]
    <3>1. g[i] = Val(g, i)
      BY <2>1
    <3>2. h[i] = Val(g, i)
      <4> HIDE DEF Val
      <4> QED OBVIOUS
    <3> HIDE DEF Val, h
    <3> QED BY <3>1, <3>2
  <2>5. ASSUME NEW i \in 1 .. k + 1 PROVE h[i] = Val(h, i)
    <3>1. i = 1 \/ i - 1 \in 1 .. k
      OBVIOUS
    <3> QED BY <2>4, <3>1
  <2>6. Upto(h, k + 1)
    <3> HIDE DEF h
    <3> QED BY <2>3, <2>5
  <2> HIDE DEF Upto, h
  <2> QED BY <2>2, <2>6
<1>3. PICK g : Upto(g, n)
  <2> HIDE DEF A
  <2>1. 0 .. n \subseteq A
    BY <1>1, <1>2, UpTo
  <2>2. n \in A
    BY <2>1
  <2> HIDE DEF Upto
  <2> QED BY <2>2 DEF A
<1> DEFINE f == CHOOSE h : h = [i \in 1 .. n |-> Val(h, i)]
<1>4. f = [i \in 1 .. n |-> Val(f, i)]
  <2>1. g = [i \in 1 .. n |-> Val(g, i)]
    BY <1>3
  <2> QED BY <2>1
<1> DEFINE B == {i \in 0 .. n : i = 0 \/ f[i] \in Seq(T)}
<1>5. ASSUME NEW i \in 0 .. n, i # n, i \in B PROVE i + 1 \in B
  <2>1. i + 1 \in 1 .. n /\ ss[i + 1] \in Seq(T)
    BY <1>5
  <2> HIDE DEF f
  <2>2. f[i + 1] = Val(f, i + 1)
    BY <1>4, <2>1
  <2>3. f[i + 1] \in Seq(T)
    BY <1>5, <2>1, <2>2
  <2> QED BY <2>1, <2>3
<1>6. 0 .. n \subseteq B
  <2>1. 0 \in B
    OBVIOUS
  <2> HIDE DEF B
  <2> QED BY <1>5, <2>1, UpTo
<1>7. \A i \in 1 .. n : f[i] \in Seq(T)
  <2> HIDE DEF f
  <2> QED BY <1>6
<1> HIDE DEF f
<1>8. f \in [1 .. n -> Seq(T)]
  BY <1>4, <1>7
<1>9. \A i \in 1 .. n : f[i] = Val(f, i)
  <2> HIDE DEF Val
  <2> QED BY <1>4
<1> QED BY <1>8, <1>9 DEF f, Partial

\* p puts the sequences of s together, one after the other.
Joins(T, p, s, n) ==
  /\ p \in [1 .. n -> Seq(T)] /\ s \in [1 .. n -> Seq(T)]
  /\ \A i \in 1 .. n : p[i] = IF i = 1 THEN s[i] ELSE p[i - 1] \o s[i]

(* FlattenSeq is its last value. *)
LEMMA FlattenIsPartial ==
  ASSUME NEW T, NEW ss \in Seq(Seq(T)), NEW n \in Nat \ {0}, n = Len(ss)
  PROVE  FlattenSeq(ss) = Partial(ss, n)[n] /\ Joins(T, Partial(ss, n), ss, n)
<1>1. ss \in [1 .. n -> Seq(T)]
  OBVIOUS
<1>2. /\ Partial(ss, n) \in [1 .. n -> Seq(T)]
      /\ \A i \in 1 .. n :
           Partial(ss, n)[i] = IF i = 1 THEN ss[i] ELSE Partial(ss, n)[i - 1] \o ss[i]
  BY <1>1, Concatenation
<1>3. FlattenSeq(ss) = Partial(ss, n)[n]
  BY DEF FlattenSeq, Partial
<1> QED BY <1>1, <1>2, <1>3 DEF Joins

(* Sequences of a sequence put one after the other. *)
LEMMA FlattenIsSeq ==
  ASSUME NEW T, NEW ss \in Seq(Seq(T))
  PROVE  FlattenSeq(ss) \in Seq(T)
<1>1. CASE Len(ss) = 0
  BY <1>1 DEF FlattenSeq
<1>2. CASE Len(ss) # 0
  <2>1. PICK n \in Nat \ {0} : n = Len(ss)
    BY <1>2
  <2>2. FlattenSeq(ss) = Partial(ss, n)[n] /\ Partial(ss, n) \in [1 .. n -> Seq(T)]
    BY <2>1, FlattenIsPartial DEF Joins
  <2>3. n \in 1 .. n
    OBVIOUS
  <2> QED BY <2>2, <2>3
<1> QED BY <1>1, <1>2

(* Nothing put together, and nothings. *)
LEMMA FlattenOfNone == FlattenSeq(<<>>) = <<>>
BY DEF FlattenSeq

LEMMA FlattenOfNothing ==
  ASSUME NEW ss \in Seq(Seq({}))
  PROVE  FlattenSeq(ss) = <<>>
<1>1. FlattenSeq(ss) \in Seq({})
  BY FlattenIsSeq
<1> QED BY <1>1

(* One sequence is itself. *)
LEMMA FlattenOfOne ==
  ASSUME NEW T, NEW s \in Seq(T)
  PROVE  FlattenSeq(<<s>>) = s
<1> DEFINE ss == <<s>>
<1>1. ss \in Seq(Seq(T)) /\ Len(ss) = 1 /\ ss[1] = s
  OBVIOUS
<1> HIDE DEF ss
<1>2. FlattenSeq(ss) = Partial(ss, 1)[1] /\ Joins(T, Partial(ss, 1), ss, 1)
  <2>1. 1 \in Nat \ {0}
    OBVIOUS
  <2> QED BY <1>1, <2>1, FlattenIsPartial
<1>3. Partial(ss, 1)[1] = ss[1]
  BY <1>2 DEF Joins
<1> QED BY <1>1, <1>2, <1>3 DEF ss

\* c, of length k, is n of a followed by m of b.
Parts(a, n, b, m, c, k) ==
  /\ k = n + m
  /\ \A i \in 1 .. n : c[i] = a[i]
  /\ \A i \in 1 .. m : c[n + i] = b[i]

(* What is put together of the first part is put together of both. *)
LEMMA Associates ==
  ASSUME NEW T, NEW x \in Seq(T), NEW y \in Seq(T), NEW z \in Seq(T)
  PROVE  (x \o y) \o z = x \o (y \o z)
OBVIOUS

LEMMA FirstPart ==
  ASSUME NEW T, NEW n \in Nat \ {0}, NEW m \in Nat \ {0}, NEW k \in Nat, NEW a, NEW b, NEW c, NEW A, NEW C,
         Parts(a, n, b, m, c, k), Joins(T, A, a, n), Joins(T, C, c, k)
  PROVE  C[n] = A[n]
<1> DEFINE P == {i \in 0 .. n : i = 0 \/ C[i] = A[i]}
<1>1. 0 \in P
  OBVIOUS
<1>2. ASSUME NEW i \in 0 .. n, i # n, i \in P PROVE i + 1 \in P
  <2> SUFFICES C[i + 1] = A[i + 1]
    BY <1>2
  <2>1. i + 1 \in 1 .. n /\ c[i + 1] = a[i + 1]
    BY <1>2 DEF Parts
  <2>2. CASE i = 0
    <3>1. i + 1 = 1 /\ i + 1 \in 1 .. k
      BY <2>1, <2>2 DEF Parts
    <3> QED BY <2>1, <3>1 DEF Joins
  <2>3. CASE i # 0
    <3>1. C[i] = A[i]
      BY <1>2, <2>3
    <3>2. i + 1 \in 1 .. k /\ i + 1 # 1 /\ (i + 1) - 1 = i
      BY <2>1, <2>3 DEF Parts
    <3> HIDE DEF P
    <3>3. C[i + 1] = C[i] \o c[i + 1] /\ A[i + 1] = A[i] \o a[i + 1]
      BY <2>1, <3>2 DEF Joins
    <3> QED BY <2>1, <3>1, <3>3
  <2> QED BY <2>2, <2>3
<1> HIDE DEF P
<1>3. 0 .. n \subseteq P
  BY <1>1, <1>2, UpTo
<1>4. n \in P /\ n # 0
  BY <1>3
<1> QED BY <1>4 DEF P

\* Both parts and the whole put together.
Whole(T, A, a, n, B, b, m, C, c, k) ==
  Parts(a, n, b, m, c, k) /\ Joins(T, A, a, n) /\ Joins(T, B, b, m) /\ Joins(T, C, c, k)

Both(x, y) == x \o y

(* And what comes after it follows it. *)
LEMMA SecondPart ==
  ASSUME NEW T, NEW n \in Nat \ {0}, NEW m \in Nat \ {0}, NEW k \in Nat, NEW a, NEW b, NEW c,
         NEW A, NEW B, NEW C, Whole(T, A, a, n, B, b, m, C, c, k)
  PROVE  C[k] = Both(A[n], B[m])
<1> USE DEF Whole
<1> DEFINE x == A[n]
           Q == {i \in 0 .. m : i = 0 \/ C[n + i] = x \o B[i]}
<1>0. C[n] = x /\ x \in Seq(T)
  <2> HIDE DEF Q
  <2>1. C[n] = A[n]
    BY FirstPart
  <2>2. A[n] \in Seq(T)
    BY DEF Joins
  <2> QED BY <2>1, <2>2
<1> HIDE DEF x
<1>1. 0 \in Q
  OBVIOUS
<1>2. ASSUME NEW i \in 0 .. m, i # m, i \in Q PROVE i + 1 \in Q
  <2> SUFFICES C[n + (i + 1)] = x \o B[i + 1]
    BY <1>2
  <2>1. i + 1 \in 1 .. m /\ c[n + (i + 1)] = b[i + 1]
    BY <1>2 DEF Parts
  <2>2. b[i + 1] \in Seq(T)
    BY <2>1 DEF Joins
  <2>3. PICK j \in 1 .. k : j = n + (i + 1) /\ j - 1 = n + i /\ j # 1
    BY <1>2 DEF Parts
  <2>4. C[n + (i + 1)] = C[n + i] \o b[i + 1]
    <3> HIDE DEF Q
    <3>1. C[j] = C[j - 1] \o c[j]
      BY <2>3 DEF Joins
    <3> QED BY <2>1, <2>3, <3>1
  <2>5. CASE i = 0
    <3>1. B[1] = b[1] /\ n + i = n /\ i + 1 = 1
      BY <2>5 DEF Joins
    <3> QED BY <1>0, <2>4, <3>1
  <2>6. CASE i # 0
    <3>1. i \in 1 .. m /\ i + 1 # 1 /\ (i + 1) - 1 = i /\ C[n + i] = x \o B[i]
      BY <1>2, <2>6
    <3> HIDE DEF Q
    <3>2. B[i + 1] = B[i] \o b[i + 1] /\ B[i] \in Seq(T)
      BY <2>1, <3>1 DEF Joins
    <3>3. (x \o B[i]) \o b[i + 1] = x \o (B[i] \o b[i + 1])
      <4>1. PICK y \in Seq(T) : y = B[i]
        BY <3>2
      <4>2. PICK z \in Seq(T) : z = b[i + 1]
        BY <2>2
      <4>3. PICK w \in Seq(T) : w = x
        BY <1>0
      <4>4. (w \o y) \o z = w \o (y \o z)
        BY Associates
      <4> QED BY <4>1, <4>2, <4>3, <4>4
    <3> QED BY <2>4, <3>1, <3>2, <3>3
  <2> QED BY <2>5, <2>6
<1> HIDE DEF Q
<1>3. 0 .. m \subseteq Q
  BY <1>1, <1>2, UpTo
<1>4. m \in Q /\ m # 0 /\ k = n + m
  BY <1>3 DEF Parts
<1> QED BY <1>4 DEF Q, x, Both

(* First some, then others. *)
LEMMA FlattenOfBoth ==
  ASSUME NEW T, NEW a \in Seq(Seq(T)), NEW b \in Seq(Seq(T))
  PROVE  FlattenSeq(a \o b) = FlattenSeq(a) \o FlattenSeq(b)
<1>1. CASE a = <<>>
  <2>1. a \o b = b /\ FlattenSeq(a) = <<>>
    BY <1>1, FlattenOfNone
  <2> QED BY <2>1, FlattenIsSeq
<1>2. CASE b = <<>>
  <2>1. a \o b = a /\ FlattenSeq(b) = <<>>
    BY <1>2, FlattenOfNone
  <2> QED BY <2>1, FlattenIsSeq
<1>3. CASE a # <<>> /\ b # <<>>
  <2> DEFINE c == a \o b
  <2>1. c \in Seq(Seq(T))
    OBVIOUS
  <2>2. PICK n \in Nat \ {0} : n = Len(a)
    BY <1>3
  <2>3. PICK m \in Nat \ {0} : m = Len(b)
    BY <1>3
  <2>4. PICK k \in Nat \ {0} : k = Len(c) /\ k = n + m
    BY <2>1, <2>2, <2>3
  <2>12. Parts(a, n, b, m, c, k)
    BY <2>1, <2>2, <2>3, <2>4 DEF Parts
  <2> HIDE DEF c
  <2>5. FlattenSeq(a) = Partial(a, n)[n] /\ Joins(T, Partial(a, n), a, n)
    BY <2>2, FlattenIsPartial
  <2>6. FlattenSeq(b) = Partial(b, m)[m] /\ Joins(T, Partial(b, m), b, m)
    BY <2>3, FlattenIsPartial
  <2>7. FlattenSeq(c) = Partial(c, k)[k] /\ Joins(T, Partial(c, k), c, k)
    BY <2>1, <2>4, FlattenIsPartial
  <2>8. Partial(c, k)[k] = Both(Partial(a, n)[n], Partial(b, m)[m])
    <3>1. Whole(T, Partial(a, n), a, n, Partial(b, m), b, m, Partial(c, k), c, k) /\ k \in Nat
      BY <2>5, <2>6, <2>7, <2>12 DEF Whole
    <3> QED BY <3>1, SecondPart
  <2> QED BY <2>5, <2>6, <2>7, <2>8 DEF c, Both
<1> QED BY <1>1, <1>2, <1>3

(* Where an element of two sequences put together comes from. *)
LEMMA PlaceInBoth ==
  ASSUME NEW T, NEW s \in Seq(T), NEW t \in Seq(T), NEW i \in DOMAIN Both(s, t)
  PROVE  /\ i \in Nat /\ i >= 1
         /\ i <= Len(s) => i \in DOMAIN s /\ Both(s, t)[i] = s[i]
         /\ i > Len(s) => i - Len(s) \in DOMAIN t /\ Both(s, t)[i] = t[i - Len(s)]
<1>1. /\ Both(s, t) \in Seq(T) /\ Len(Both(s, t)) = Len(s) + Len(t)
      /\ Len(s) \in Nat /\ Len(t) \in Nat
  BY DEF Both
<1>2. i \in 1 .. Len(s) + Len(t)
  BY <1>1
<1>3. DOMAIN s = 1 .. Len(s) /\ DOMAIN t = 1 .. Len(t)
  OBVIOUS
<1>4. CASE i <= Len(s)
  BY <1>1, <1>2, <1>3, <1>4 DEF Both
<1>5. CASE i > Len(s)
  BY <1>1, <1>2, <1>3, <1>5 DEF Both
<1> QED BY <1>1, <1>2, <1>4, <1>5

(* The same, with the rest of a sequence. *)
LEMMA PlaceInRest ==
  ASSUME NEW T, NEW c \in Seq(T), NEW w \in Seq(T), w # <<>>,
         NEW next, next = Both(c, Tail(w))
  PROVE  \E n \in Nat : \A i \in DOMAIN next :
           /\ i \in Nat /\ next[i] \in T
           /\ \/ i \in DOMAIN c /\ next[i] = c[i]
              \/ i - n + 1 \in DOMAIN w \ {1} /\ next[i] = w[i - n + 1]
<1>1. PICK n \in Nat : n = Len(c)
  OBVIOUS
<1> SUFFICES ASSUME NEW i \in DOMAIN next
             PROVE  /\ i \in Nat /\ next[i] \in T
                    /\ \/ i \in DOMAIN c /\ next[i] = c[i]
                       \/ i - n + 1 \in DOMAIN w \ {1} /\ next[i] = w[i - n + 1]
  OBVIOUS
<1>2. PICK l \in Nat : l = Len(w)
  OBVIOUS
<1> DEFINE t == Tail(w)
<1>3. t \in Seq(T) /\ DOMAIN t = 1 .. l - 1 /\ DOMAIN w = 1 .. l
      /\ \A j \in 1 .. l - 1 : t[j] = w[j + 1] /\ t[j] \in T
  BY <1>2
<1> HIDE DEF t
<1>4. next = Both(c, t)
  BY DEF t
<1>5. /\ i \in Nat
      /\ i <= n => i \in DOMAIN c /\ next[i] = c[i]
      /\ i > n => i - n \in DOMAIN t /\ next[i] = t[i - n]
  BY <1>1, <1>3, <1>4, PlaceInBoth
<1>6. CASE i <= n
  BY <1>1, <1>5, <1>6
<1>7. CASE i > n
  <2>1. i - n \in 1 .. l - 1
    BY <1>3, <1>5, <1>7
  <2>2. i - n + 1 \in 1 .. l /\ i - n + 1 # 1
    BY <1>1, <1>2, <1>5, <2>1
  <2>3. next[i] = w[i - n + 1] /\ next[i] \in T
    BY <1>3, <1>5, <1>7, <2>1
  <2> QED BY <1>1, <1>3, <1>5, <2>2, <2>3
<1> QED BY <1>1, <1>5, <1>6, <1>7

(* Three in a row. *)
LEMMA ThreeInARow ==
  ASSUME NEW U, NEW p \in U, NEW q \in U, NEW m \in U
  PROVE  <<p, q, m>> = <<p>> \o <<q, m>> /\ <<q, m>> = <<q>> \o <<m>>
<1>1. <<p, q, m>> = <<p>> \o <<q, m>>
  <2> DEFINE s == <<p>> \o <<q, m>>
             t == <<p, q, m>>
  <2>1. t \in Seq(U) /\ Len(t) = 3 /\ t[1] = p /\ t[2] = q /\ t[3] = m
    OBVIOUS
  <2>2. s \in Seq(U) /\ Len(s) = 3 /\ s[1] = p /\ s[2] = q /\ s[3] = m
    OBVIOUS
  <2> HIDE DEF s, t
  <2>3. \A i \in 1 .. Len(s) : s[i] = t[i]
    BY <2>1, <2>2
  <2>4. s = t
    BY <2>1, <2>2, <2>3, SeqEqual
  <2> QED BY <2>4 DEF s, t
<1>2. <<q, m>> = <<q>> \o <<m>>
  <2> DEFINE s == <<q>> \o <<m>>
             t == <<q, m>>
  <2>1. t \in Seq(U) /\ Len(t) = 2 /\ t[1] = q /\ t[2] = m
    OBVIOUS
  <2>2. s \in Seq(U) /\ Len(s) = 2 /\ s[1] = q /\ s[2] = m
    OBVIOUS
  <2> HIDE DEF s, t
  <2>3. \A i \in 1 .. Len(s) : s[i] = t[i]
    BY <2>1, <2>2
  <2>4. s = t
    BY <2>1, <2>2, <2>3, SeqEqual
  <2> QED BY <2>4 DEF s, t
<1> QED BY <1>1, <1>2

LEMMA FlattenOfThree ==
  ASSUME NEW T, NEW p \in Seq(T), NEW q \in Seq(T), NEW m \in Seq(T)
  PROVE  FlattenSeq(<<p, q, m>>) = Both(p, Both(q, m))
<1>1. <<p>> \in Seq(Seq(T)) /\ <<q, m>> \in Seq(Seq(T)) /\ <<q>> \in Seq(Seq(T)) /\ <<m>> \in Seq(Seq(T))
  OBVIOUS
<1>2. FlattenSeq(<<p>>) = p /\ FlattenSeq(<<q>>) = q /\ FlattenSeq(<<m>>) = m
  BY FlattenOfOne
<1>3. <<p, q, m>> = <<p>> \o <<q, m>> /\ <<q, m>> = <<q>> \o <<m>>
  BY ThreeInARow
<1>4. FlattenSeq(<<p, q, m>>) = FlattenSeq(<<p>>) \o FlattenSeq(<<q, m>>)
  BY <1>1, <1>3, FlattenOfBoth
<1>5. FlattenSeq(<<q, m>>) = FlattenSeq(<<q>>) \o FlattenSeq(<<m>>)
  BY <1>1, <1>3, FlattenOfBoth
<1> QED BY <1>2, <1>4, <1>5 DEF Both

\* Recursion up to a bound: g starts at base and Op leads from each value to the next.
Operations(V, n) == [V \X (1 .. n) -> V]

Iteration(V, base, n, Op, g) ==
  /\ g \in [0 .. n -> V]
  /\ g[0] = base
  /\ \A i \in 1 .. n : g[i] = Op[<<g[i - 1], i>>]

LEMMA Iterates ==
  ASSUME NEW V, NEW base \in V, NEW n \in Nat, NEW Op \in Operations(V, n)
  PROVE  \E g : Iteration(V, base, n, Op, g)
<1> USE DEF Operations
<1> DEFINE Good(g, k) == g[0] = base /\ \A i \in 1 .. k : g[i] = Op[<<g[i - 1], i>>]
           A == {k \in 0 .. n : \E g \in [0 .. k -> V] : Good(g, k)}
<1>1. 0 \in A
  <2> SUFFICES ASSUME NEW k \in 0 .. n, k = 0 PROVE k \in A
    <3> HIDE DEF A
    <3> QED OBVIOUS
  <2> DEFINE g == [i \in 0 .. k |-> base]
  <2>1. g \in [0 .. k -> V] /\ g[0] = base /\ 1 .. k = {}
    OBVIOUS
  <2> HIDE DEF g
  <2>2. Good(g, k)
    BY <2>1
  <2> HIDE DEF Good
  <2> QED BY <2>1, <2>2
<1>2. ASSUME NEW k \in 0 .. n, k # n, k \in A PROVE k + 1 \in A
  <2>1. PICK g \in [0 .. k -> V] : Good(g, k)
    BY <1>2
  <2>2. k \in 0 .. k /\ k + 1 \in 1 .. n /\ k \in Nat
    BY <1>2
  <2> DEFINE next == Op[<<g[k], k + 1>>]
             h == [i \in 0 .. k + 1 |-> IF i = k + 1 THEN next ELSE g[i]]
  <2>3. next \in V
    BY <2>2
  <2>4. h \in [0 .. k + 1 -> V]
    <3>1. \A i \in 0 .. k + 1 : i # k + 1 => i \in 0 .. k
      BY <2>2
    <3> HIDE DEF next
    <3> QED BY <2>3, <3>1
  <2>5. \A i \in 0 .. k : h[i] = g[i]
    BY <2>2
  <2>6. h[k + 1] = Op[<<h[k], k + 1>>]
    <3>1. h[k] = g[k]
      BY <2>2, <2>5
    <3>2. h[k + 1] = next
      <4> HIDE DEF next
      <4> QED BY <2>2
    <3> QED BY <3>1, <3>2
  <2> HIDE DEF h
  <2>7. ASSUME NEW i \in 1 .. k + 1 PROVE h[i] = Op[<<h[i - 1], i>>]
    <3>1. CASE i = k + 1
      BY <2>2, <2>6, <3>1
    <3>2. CASE i # k + 1
      <4>1. i \in 1 .. k /\ i - 1 \in 0 .. k /\ i \in 0 .. k
        BY <2>2, <3>2
      <4> QED BY <2>1, <2>5, <4>1
    <3> QED BY <3>1, <3>2
  <2>8. Good(h, k + 1)
    BY <2>1, <2>2, <2>5, <2>7
  <2> HIDE DEF Good
  <2> QED BY <2>2, <2>4, <2>8
<1>3. n \in A
  <2> HIDE DEF A
  <2>1. 0 .. n \subseteq A
    BY <1>1, <1>2, UpTo
  <2> QED BY <2>1
<1> QED BY <1>3 DEF Iteration

-----------------------------------------------------------------------------
(* Elements of sequences put together. *)
LEMMA ElementsOfBoth ==
  ASSUME NEW T, NEW s \in Seq(T), NEW t \in Seq(T)
  PROVE  ToSet(s \o t) = ToSet(s) \cup ToSet(t)
<1>1. s \o t \in Seq(T) /\ Len(s \o t) = Len(s) + Len(t)
  OBVIOUS
<1>2. ASSUME NEW i \in DOMAIN (s \o t) PROVE (s \o t)[i] \in ToSet(s) \cup ToSet(t)
  <2>1. CASE i <= Len(s)
    <3>1. (s \o t)[i] = s[i] /\ i \in DOMAIN s
      BY <1>1, <2>1
    <3> QED BY <3>1 DEF ToSet
  <2>2. CASE ~(i <= Len(s))
    <3>1. (s \o t)[i] = t[i - Len(s)] /\ i - Len(s) \in DOMAIN t
      BY <1>1, <2>2
    <3> QED BY <3>1 DEF ToSet
  <2> QED BY <2>1, <2>2
<1>3. ASSUME NEW i \in DOMAIN s PROVE s[i] \in ToSet(s \o t)
  <2>1. (s \o t)[i] = s[i] /\ i \in DOMAIN (s \o t)
    BY <1>1
  <2> QED BY <2>1 DEF ToSet
<1>4. ASSUME NEW i \in DOMAIN t PROVE t[i] \in ToSet(s \o t)
  <2>1. (s \o t)[i + Len(s)] = t[i] /\ i + Len(s) \in DOMAIN (s \o t)
    BY <1>1
  <2> QED BY <2>1 DEF ToSet
<1>5. ToSet(s \o t) \subseteq ToSet(s) \cup ToSet(t)
  BY <1>2 DEF ToSet
<1>6. ToSet(s) \cup ToSet(t) \subseteq ToSet(s \o t)
  <2>1. \A e \in ToSet(s) : \E i \in DOMAIN s : e = s[i]
    BY DEF ToSet
  <2>2. \A e \in ToSet(t) : \E i \in DOMAIN t : e = t[i]
    BY DEF ToSet
  <2> QED BY <1>3, <1>4, <2>1, <2>2
<1> QED BY <1>5, <1>6

LEMMA ElementsOfFlatten ==
  ASSUME NEW T, NEW ss \in Seq(Seq(T)), NEW k \in DOMAIN ss
  PROVE  ToSet(ss[k]) \subseteq ToSet(FlattenSeq(ss))
<1>1. PICK n \in Nat \ {0} : n = Len(ss)
  OBVIOUS
<1> DEFINE p == Partial(ss, n)
<1>2. FlattenSeq(ss) = p[n] /\ Joins(T, p, ss, n)
  BY <1>1, FlattenIsPartial
<1> HIDE DEF p
<1>3. /\ p \in [1 .. n -> Seq(T)] /\ ss \in [1 .. n -> Seq(T)]
      /\ \A i \in 1 .. n : p[i] = IF i = 1 THEN ss[i] ELSE p[i - 1] \o ss[i]
  BY <1>2 DEF Joins
<1> DEFINE A == {i \in 0 .. n : i < k \/ ToSet(ss[k]) \subseteq ToSet(p[i])}
<1>4. k \in 1 .. n
  BY <1>1
<1>5. ASSUME NEW i \in 0 .. n, i # n, i \in A PROVE i + 1 \in A
  <2>1. i + 1 \in 1 .. n
    BY <1>5
  <2>2. CASE i + 1 < k
    BY <2>1, <2>2
  <2>3. CASE i + 1 = 1 /\ ~(i + 1 < k)
    <3>1. k = 1 /\ i = 0 /\ p[1] = ss[1]
      BY <1>3, <1>4, <2>1, <2>3
    <3> QED BY <2>1, <3>1
  <2>4. CASE i + 1 # 1 /\ ~(i + 1 < k)
    <3>1. i \in 1 .. n /\ i + 1 - 1 = i
      BY <1>5, <2>4
    <3>2. p[i + 1] = p[i] \o ss[i + 1]
      <4>1. PICK j \in 1 .. n : j = i + 1
        BY <2>1
      <4>2. p[j] = IF j = 1 THEN ss[j] ELSE p[j - 1] \o ss[j]
        BY <1>3
      <4>3. j - 1 = i /\ j # 1
        BY <2>4, <3>1, <4>1
      <4> QED BY <4>1, <4>2, <4>3
    <3>3. p[i] \in Seq(T) /\ ss[i + 1] \in Seq(T)
      BY <1>3, <2>1, <3>1
    <3>4. ToSet(p[i + 1]) = ToSet(p[i]) \cup ToSet(ss[i + 1])
      BY <3>2, <3>3, ElementsOfBoth
    <3>5. k = i + 1 \/ ToSet(ss[k]) \subseteq ToSet(p[i])
      BY <1>4, <1>5, <2>4
    <3> QED BY <2>1, <3>4, <3>5
  <2> QED BY <2>2, <2>3, <2>4
<1>6. 0 .. n \subseteq A
  <2>1. 0 \in A
    BY <1>4
  <2> HIDE DEF A
  <2> QED BY <1>5, <2>1, UpTo
<1>7. n \in A
  <2> HIDE DEF A
  <2> QED BY <1>6
<1> QED BY <1>2, <1>4, <1>7

LEMMA ElementOfFlatten ==
  ASSUME NEW T, NEW ss \in Seq(Seq(T)), NEW e \in ToSet(FlattenSeq(ss))
  PROVE  \E k \in DOMAIN ss : e \in ToSet(ss[k])
<1>1. CASE Len(ss) = 0
  BY <1>1 DEF FlattenSeq, ToSet
<1>2. CASE Len(ss) # 0
  <2>1. PICK n \in Nat \ {0} : n = Len(ss)
    BY <1>2
  <2> DEFINE p == Partial(ss, n)
  <2>2. FlattenSeq(ss) = p[n] /\ Joins(T, p, ss, n)
    BY <2>1, FlattenIsPartial
  <2> HIDE DEF p
  <2>3. /\ p \in [1 .. n -> Seq(T)] /\ ss \in [1 .. n -> Seq(T)]
        /\ \A i \in 1 .. n : p[i] = IF i = 1 THEN ss[i] ELSE p[i - 1] \o ss[i]
    BY <2>2 DEF Joins
  <2> DEFINE From(i) == \A x \in ToSet(p[i]) : \E k \in 1 .. n : x \in ToSet(ss[k])
             A == {i \in 0 .. n : i = 0 \/ From(i)}
  <2>4. ASSUME NEW i \in 0 .. n, i # n, i \in A PROVE i + 1 \in A
    <3>1. PICK j \in 1 .. n : j = i + 1
      BY <2>4
    <3>2. p[j] = IF j = 1 THEN ss[j] ELSE p[j - 1] \o ss[j]
      BY <2>3
    <3>3. CASE j = 1
      BY <3>1, <3>2, <3>3
    <3>4. CASE j # 1
      <4>1. j - 1 = i /\ i \in 1 .. n
        BY <2>4, <3>1, <3>4
      <4>2. p[i] \in Seq(T) /\ ss[j] \in Seq(T)
        BY <2>3, <4>1
      <4>3. ToSet(p[j]) = ToSet(p[i]) \cup ToSet(ss[j])
        BY <3>2, <3>4, <4>1, <4>2, ElementsOfBoth
      <4>4. From(i)
        BY <2>4, <4>1
      <4> QED BY <3>1, <4>3, <4>4
    <3> QED BY <3>3, <3>4
  <2>5. 0 .. n \subseteq A
    <3>1. 0 \in A
      OBVIOUS
    <3> HIDE DEF A
    <3> QED BY <2>4, <3>1, UpTo
  <2>6. n \in A /\ n # 0
    <3> HIDE DEF A
    <3> QED BY <2>5
  <2>7. From(n)
    BY <2>6
  <2> QED BY <2>1, <2>2, <2>7
<1> QED BY <1>1, <1>2

(* What a function gives for the items of a sequence, one after the other. *)

Below(f, s) == FlattenSeq([i \in DOMAIN s |-> f[s[i]]])

\* f gives a sequence over T for every member of S.
Gives(f, S, T) == f \in [S -> Seq(T)]

LEMMA EachIsSeq ==
  ASSUME NEW S, NEW T, NEW f, Gives(f, S, T), NEW s \in Seq(S)
  PROVE  [i \in DOMAIN s |-> f[s[i]]] \in Seq(Seq(T))
<1>1. DOMAIN s = 1 .. Len(s) /\ Len(s) \in Nat /\ \A i \in DOMAIN s : f[s[i]] \in Seq(T)
  BY DEF Gives
<1> QED BY <1>1

LEMMA BelowIsSeq ==
  ASSUME NEW S, NEW T, NEW f, Gives(f, S, T), NEW s \in Seq(S)
  PROVE  Below(f, s) \in Seq(T)
<1>1. [i \in DOMAIN s |-> f[s[i]]] \in Seq(Seq(T))
  BY EachIsSeq
<1> QED BY <1>1, FlattenIsSeq DEF Below

(* Of nothing, of one, of one sequence after another. *)
LEMMA BelowOfNone ==
  ASSUME NEW f
  PROVE  Below(f, <<>>) = <<>>
<1>1. [i \in DOMAIN <<>> |-> f[<<>>[i]]] = <<>>
  OBVIOUS
<1> QED BY <1>1, FlattenOfNone DEF Below

LEMMA BelowOfOne ==
  ASSUME NEW S, NEW T, NEW f, Gives(f, S, T), NEW x \in S
  PROVE  Below(f, <<x>>) = f[x]
<1>1. [i \in DOMAIN <<x>> |-> f[<<x>>[i]]] = <<f[x]>>
  OBVIOUS
<1>2. f[x] \in Seq(T)
  BY DEF Gives
<1> QED BY <1>1, <1>2, FlattenOfOne DEF Below

LEMMA SeqOfBoth ==
  ASSUME NEW U, NEW a \in Seq(U), NEW b \in Seq(U), NEW c \in Seq(U), Len(c) = Len(a) + Len(b),
         \A i \in 1 .. Len(a) : c[i] = a[i],
         \A i \in Len(a) + 1 .. Len(a) + Len(b) : c[i] = b[i - Len(a)]
  PROVE  c = Both(a, b)
<1>1. Both(a, b) \in Seq(U) /\ Len(Both(a, b)) = Len(c)
  BY DEF Both
<1>2. \A i \in 1 .. Len(c) : c[i] = Both(a, b)[i]
  BY DEF Both
<1> QED BY <1>1, <1>2, SeqEqual

LEMMA BelowOfBoth ==
  ASSUME NEW S, NEW T, NEW f, Gives(f, S, T), NEW a \in Seq(S), NEW b \in Seq(S)
  PROVE  Below(f, Both(a, b)) = Both(Below(f, a), Below(f, b))
<1> DEFINE c == Both(a, b)
           fa == [i \in DOMAIN a |-> f[a[i]]]
           fb == [i \in DOMAIN b |-> f[b[i]]]
           fc == [i \in DOMAIN c |-> f[c[i]]]
<1>1. c \in Seq(S) /\ c = a \o b
  BY DEF Both
<1> HIDE DEF c
<1>2. fa \in Seq(Seq(T))
  BY EachIsSeq
<1>3. fb \in Seq(Seq(T))
  BY EachIsSeq
<1>4. fc \in Seq(Seq(T))
  BY <1>1, EachIsSeq
<1>5. Len(fa) = Len(a) /\ Len(fb) = Len(b) /\ Len(fc) = Len(a) + Len(b)
  BY <1>1
<1>6. \A i \in 1 .. Len(a) : fc[i] = fa[i]
  BY <1>1
<1>7. \A i \in Len(a) + 1 .. Len(a) + Len(b) : fc[i] = fb[i - Len(a)]
  BY <1>1
<1>8. fc = fa \o fb
  <2> HIDE DEF fa, fb, fc
  <2>0. /\ Len(fc) = Len(fa) + Len(fb)
        /\ \A i \in 1 .. Len(fa) : fc[i] = fa[i]
        /\ \A i \in Len(fa) + 1 .. Len(fa) + Len(fb) : fc[i] = fb[i - Len(fa)]
    BY <1>5, <1>6, <1>7
  <2>1. fc = Both(fa, fb)
    BY <1>2, <1>3, <1>4, <2>0, SeqOfBoth
  <2> QED BY <2>1 DEF Both
<1> HIDE DEF fa, fb, fc
<1>9. FlattenSeq(fc) = FlattenSeq(fa) \o FlattenSeq(fb)
  BY <1>2, <1>3, <1>8, FlattenOfBoth
<1> QED BY <1>9 DEF Below, Both, c, fa, fb, fc

LEMMA BelowOfFirst ==
  ASSUME NEW S, NEW T, NEW f, Gives(f, S, T), NEW s \in Seq(S), s # <<>>
  PROVE  Below(f, s) = Both(f[Head(s)], Below(f, Tail(s)))
<1> DEFINE x == Head(s)
           r == Tail(s)
           o == <<x>>
<1>1. x \in S /\ r \in Seq(S) /\ o \in Seq(S)
  OBVIOUS
<1>2. s = Both(o, r)
  BY DEF Both
<1>3. Below(f, o) = f[x]
  <2> HIDE DEF x
  <2> QED BY <1>1, BelowOfOne
<1> HIDE DEF x, r, o
<1>4. Below(f, Both(o, r)) = Both(Below(f, o), Below(f, r))
  BY <1>1, BelowOfBoth
<1> QED BY <1>2, <1>3, <1>4 DEF x, r

(* It is all that matters of the function. *)
LEMMA BelowIsSame ==
  ASSUME NEW f, NEW g, NEW s, NEW t, DOMAIN s = DOMAIN t, \A i \in DOMAIN s : f[s[i]] = g[t[i]]
  PROVE  Below(f, s) = Below(g, t)
<1>1. [i \in DOMAIN s |-> f[s[i]]] = [i \in DOMAIN t |-> g[t[i]]]
  OBVIOUS
<1> QED BY <1>1 DEF Below

LEMMA BelowIsNothing ==
  ASSUME NEW S, NEW f, NEW s \in Seq(S), \A i \in DOMAIN s : f[s[i]] = <<>>
  PROVE  Below(f, s) = <<>>
<1>1. [i \in DOMAIN s |-> f[s[i]]] \in Seq(Seq({}))
  <2>1. DOMAIN s = 1 .. Len(s) /\ Len(s) \in Nat
    OBVIOUS
  <2>2. <<>> \in Seq({})
    OBVIOUS
  <2>3. \A i \in DOMAIN s : f[s[i]] \in Seq({})
    BY <2>2
  <2> QED BY <2>1, <2>3
<1> QED BY <1>1, FlattenOfNothing DEF Below

(* Sequences put together first, or what is below each of them. *)
LEMMA BelowOfFlatten ==
  ASSUME NEW S, NEW T, NEW f, Gives(f, S, T), NEW ss \in Seq(Seq(S))
  PROVE  Below(f, FlattenSeq(ss)) = FlattenSeq([i \in DOMAIN ss |-> Below(f, ss[i])])
<1> DEFINE ts == [i \in DOMAIN ss |-> Below(f, ss[i])]
<1>1. ASSUME NEW i \in DOMAIN ss PROVE ss[i] \in Seq(S) /\ Below(f, ss[i]) \in Seq(T)
  <2>1. ss[i] \in Seq(S)
    OBVIOUS
  <2> QED BY <2>1, BelowIsSeq
<1>2. ts \in Seq(Seq(T)) /\ Len(ts) = Len(ss) /\ \A i \in DOMAIN ss : ts[i] = Below(f, ss[i])
  <2>1. DOMAIN ss = 1 .. Len(ss) /\ Len(ss) \in Nat
    OBVIOUS
  <2>2. \A i \in 1 .. Len(ss) : Below(f, ss[i]) \in Seq(T)
    BY <1>1, <2>1
  <2> QED BY <2>1, <2>2
<1> HIDE DEF ts
<1>3. CASE ss = <<>>
  <2>1. ts = <<>>
    BY <1>2, <1>3
  <2> QED BY <1>3, <2>1, FlattenOfNone, BelowOfNone DEF ts
<1>4. CASE ss # <<>>
  <2>1. PICK n \in Nat \ {0} : n = Len(ss)
    BY <1>4
  <2> DEFINE p == Partial(ss, n)
             q == Partial(ts, n)
  <2>2. FlattenSeq(ss) = p[n] /\ Joins(S, p, ss, n)
    BY <2>1, FlattenIsPartial
  <2>3. FlattenSeq(ts) = q[n] /\ Joins(T, q, ts, n)
    BY <1>2, <2>1, FlattenIsPartial
  <2> HIDE DEF p, q
  <2> DEFINE A == {i \in 0 .. n : i = 0 \/ Below(f, p[i]) = q[i]}
  <2>4. 0 \in A
    OBVIOUS
  <2>5. ASSUME NEW i \in 0 .. n, i # n, i \in A PROVE i + 1 \in A
    <3>1. PICK j \in 1 .. n : j = i + 1 /\ j - 1 = i
      BY <2>5
    <3>2. ts[j] = Below(f, ss[j]) /\ ss[j] \in Seq(S)
      <4>1. j \in DOMAIN ss
        BY <2>1
      <4> QED BY <1>1, <1>2, <4>1
    <3>3. CASE j = 1
      BY <2>2, <2>3, <3>1, <3>2, <3>3 DEF Joins
    <3>4. CASE j # 1
      <4>1. p[j] = p[j - 1] \o ss[j] /\ q[j] = q[j - 1] \o ts[j]
        BY <2>2, <2>3, <3>4 DEF Joins
      <4>2. j - 1 \in 1 .. n /\ p[j - 1] \in Seq(S)
        BY <2>2, <3>4 DEF Joins
      <4>3. Below(f, p[j - 1]) = q[j - 1]
        BY <2>5, <3>1, <3>4
      <4>4. Below(f, Both(p[j - 1], ss[j])) = Both(Below(f, p[j - 1]), Below(f, ss[j]))
        BY <3>2, <4>2, BelowOfBoth
      <4>5. Below(f, p[j]) = q[j]
        BY <3>2, <4>1, <4>3, <4>4 DEF Both
      <4> QED BY <3>1, <4>5
    <3> QED BY <3>3, <3>4
  <2>6. n \in A
    <3> HIDE DEF A
    <3>1. 0 .. n \subseteq A
      BY <2>4, <2>5, UpTo
    <3> QED BY <3>1
  <2> QED BY <2>2, <2>3, <2>6 DEF ts
<1> QED BY <1>3, <1>4

-----------------------------------------------------------------------------
(* Functions on trees.                                                     *)

\* f gives what is here, then what it gives for the children.
Unfolds(S, T, here, kids, x, f) == f[x] = here[x] \o Below(f, kids[x])

\* Children rank below.
Ranked(S, kids, rank) ==
  /\ kids \in [S -> Seq(S)] /\ rank \in [S -> Nat]
  /\ \A x \in S : \A i \in DOMAIN kids[x] : rank[kids[x][i]] < rank[x]

\* f does so below rank n.
UnfoldsTo(S, T, here, kids, rank, n, f) ==
  Gives(f, S, T) /\ \A x \in S : rank[x] < n => Unfolds(S, T, here, kids, x, f)

(* There is such a function up to every rank. *)
LEMMA FoldsToRank ==
  ASSUME NEW S, NEW T, NEW here, Gives(here, S, T), NEW kids, NEW rank, Ranked(S, kids, rank),
         NEW n \in Nat
  PROVE  \E f : UnfoldsTo(S, T, here, kids, rank, n, f)
<1> DEFINE A == {k \in 0 .. n : \E f : UnfoldsTo(S, T, here, kids, rank, k, f)}
<1>1. 0 \in A
  <2>1. UnfoldsTo(S, T, here, kids, rank, 0, here)
    BY DEF UnfoldsTo, Ranked
  <2> QED BY <2>1
<1>2. ASSUME NEW k \in 0 .. n, k # n, k \in A PROVE k + 1 \in A
  <2>1. PICK f : UnfoldsTo(S, T, here, kids, rank, k, f)
    BY <1>2
  <2> DEFINE g == [x \in S |-> here[x] \o Below(f, kids[x])]
  <2>2. Gives(g, S, T)
    <3>1. ASSUME NEW x \in S PROVE here[x] \o Below(f, kids[x]) \in Seq(T)
      <4>1. kids[x] \in Seq(S) /\ here[x] \in Seq(T)
        BY DEF Ranked, Gives
      <4>2. Below(f, kids[x]) \in Seq(T)
        BY <2>1, <4>1, BelowIsSeq DEF UnfoldsTo
      <4> QED BY <4>1, <4>2
    <3> QED BY <3>1 DEF Gives
  <2>3. ASSUME NEW x \in S, rank[x] < k PROVE g[x] = f[x]
    BY <2>1, <2>3 DEF UnfoldsTo, Unfolds
  <2>4. ASSUME NEW x \in S, rank[x] < k + 1 PROVE Unfolds(S, T, here, kids, x, g)
    <3>1. ASSUME NEW i \in DOMAIN kids[x] PROVE f[kids[x][i]] = g[kids[x][i]]
      <4>1. kids[x] \in Seq(S) /\ rank[x] \in Nat
        BY DEF Ranked
      <4>2. kids[x][i] \in S
        BY <4>1
      <4>3. rank[kids[x][i]] < rank[x] /\ rank[kids[x][i]] \in Nat
        BY <4>2 DEF Ranked
      <4>4. rank[kids[x][i]] < k
        BY <2>4, <4>1, <4>3
      <4> QED BY <2>3, <4>2, <4>4
    <3> HIDE DEF g
    <3>2. Below(f, kids[x]) = Below(g, kids[x])
      BY <3>1, BelowIsSame
    <3> QED BY <3>2 DEF Unfolds, g
  <2>5. UnfoldsTo(S, T, here, kids, rank, k + 1, g)
    <3> HIDE DEF g
    <3> QED BY <2>2, <2>4 DEF UnfoldsTo
  <2>6. k + 1 \in 0 .. n
    BY <1>2
  <2> HIDE DEF g
  <2> QED BY <2>5, <2>6
<1>3. n \in A
  <2> HIDE DEF A
  <2>1. 0 .. n \subseteq A
    BY <1>1, <1>2, UpTo
  <2> QED BY <2>1
<1> QED BY <1>3

(* Any two agree on the ranks of both. *)
LEMMA FoldsAgree ==
  ASSUME NEW S, NEW T, NEW here, Gives(here, S, T), NEW kids, NEW rank, Ranked(S, kids, rank),
         NEW n \in Nat, NEW m \in Nat, NEW f, NEW g,
         UnfoldsTo(S, T, here, kids, rank, n, f), UnfoldsTo(S, T, here, kids, rank, m, g),
         NEW x \in S, rank[x] < n, rank[x] < m
  PROVE  f[x] = g[x]
<1> DEFINE A == {k \in 0 .. n : \A y \in S : rank[y] < k /\ rank[y] < m => f[y] = g[y]}
<1>1. 0 \in A
  BY DEF Ranked
<1>2. ASSUME NEW k \in 0 .. n, k # n, k \in A PROVE k + 1 \in A
  <2>1. k + 1 \in 0 .. n
    BY <1>2
  <2>2. ASSUME NEW y \in S, rank[y] < k + 1, rank[y] < m PROVE f[y] = g[y]
    <3>1. kids[y] \in Seq(S) /\ rank[y] \in Nat
      BY DEF Ranked
    <3>2. ASSUME NEW i \in DOMAIN kids[y] PROVE f[kids[y][i]] = g[kids[y][i]]
      <4>1. kids[y][i] \in S
        BY <3>1
      <4>2. rank[kids[y][i]] < rank[y] /\ rank[kids[y][i]] \in Nat
        BY <4>1 DEF Ranked
      <4>3. rank[kids[y][i]] < k /\ rank[kids[y][i]] < m
        BY <2>2, <3>1, <4>2
      <4> QED BY <1>2, <4>1, <4>3
    <3>3. Below(f, kids[y]) = Below(g, kids[y])
      BY <3>2, BelowIsSame
    <3>4. rank[y] < n
      BY <2>1, <2>2, <3>1
    <3>5. f[y] = here[y] \o Below(f, kids[y]) /\ g[y] = here[y] \o Below(g, kids[y])
      BY <2>2, <3>4 DEF UnfoldsTo, Unfolds
    <3> QED BY <3>3, <3>5
  <2> QED BY <2>1, <2>2
<1>3. n \in A
  <2> HIDE DEF A
  <2>1. 0 .. n \subseteq A
    BY <1>1, <1>2, UpTo
  <2> QED BY <2>1
<1> QED BY <1>3

(* So there is one for all of them. *)
LEMMA FoldsTree ==
  ASSUME NEW S, NEW T, NEW here, Gives(here, S, T), NEW kids, NEW rank, Ranked(S, kids, rank)
  PROVE  \E f : Gives(f, S, T) /\ \A x \in S : Unfolds(S, T, here, kids, x, f)
<1> DEFINE G(n) == CHOOSE f : UnfoldsTo(S, T, here, kids, rank, n, f)
           f == [x \in S |-> G(rank[x] + 1)[x]]
<1>1. ASSUME NEW n \in Nat PROVE UnfoldsTo(S, T, here, kids, rank, n, G(n))
  BY FoldsToRank
<1> HIDE DEF G
<1>2. ASSUME NEW x \in S
      PROVE  /\ rank[x] \in Nat /\ rank[x] + 1 \in Nat /\ rank[x] < rank[x] + 1
             /\ UnfoldsTo(S, T, here, kids, rank, rank[x] + 1, G(rank[x] + 1))
  <2>1. rank[x] \in Nat /\ rank[x] + 1 \in Nat /\ rank[x] < rank[x] + 1
    BY DEF Ranked
  <2> QED BY <1>1, <2>1
<1>3. f \in [S -> Seq(T)]
  <2>1. \A x \in S : G(rank[x] + 1)[x] \in Seq(T)
    BY <1>2 DEF UnfoldsTo, Gives
  <2> QED BY <2>1
<1>4. ASSUME NEW x \in S PROVE f[x] = here[x] \o Below(f, kids[x])
  <2> DEFINE g == G(rank[x] + 1)
  <2>1. g[x] = here[x] \o Below(g, kids[x])
    BY <1>2 DEF UnfoldsTo, Unfolds
  <2>2. ASSUME NEW i \in DOMAIN kids[x] PROVE f[kids[x][i]] = g[kids[x][i]]
    <3> DEFINE y == kids[x][i]
    <3>1. y \in S /\ rank[y] < rank[x] /\ rank[y] \in Nat /\ rank[x] \in Nat
      BY DEF Ranked
    <3>2. UnfoldsTo(S, T, here, kids, rank, rank[y] + 1, G(rank[y] + 1))
      BY <1>2, <3>1
    <3>3. UnfoldsTo(S, T, here, kids, rank, rank[x] + 1, g)
      BY <1>2
    <3>4. PICK n \in Nat : n = rank[y] + 1
      BY <3>1
    <3>5. PICK m \in Nat : m = rank[x] + 1
      BY <3>1
    <3>6. rank[y] < n /\ rank[y] < m
      BY <3>1, <3>4, <3>5
    <3> HIDE DEF y, g
    <3>7. G(n)[y] = g[y]
      BY <3>1, <3>2, <3>3, <3>4, <3>5, <3>6, FoldsAgree
    <3> QED BY <3>1, <3>4, <3>7 DEF y
  <2> HIDE DEF g, f
  <2>3. Below(f, kids[x]) = Below(g, kids[x])
    BY <2>2, BelowIsSame
  <2> QED BY <2>1, <2>3 DEF f, g
<1> HIDE DEF f
<1> QED BY <1>3, <1>4 DEF Gives, Unfolds

-----------------------------------------------------------------------------
(* Folds over sets of positions.                                           *)

(* The greatest of some positions. *)
LEMMA MaxIsGreatest ==
  ASSUME NEW n \in Nat, NEW s \in SUBSET (1 .. n), s # {}
  PROVE  Max(s) \in s /\ \A i \in s : i <= Max(s)
<1>1. s \in SUBSET (0 .. n)
  OBVIOUS
<1>2. PICK x \in s : \A y \in s : y <= x
  BY <1>1, Greatest
<1>3. \A y \in s : x >= y
  BY <1>2
<1>4. Max(s) \in s /\ \A y \in s : Max(s) >= y
  BY <1>3 DEF Max
<1> QED BY <1>4

(* What is below the greatest. *)
LEMMA BelowMax ==
  ASSUME NEW n \in Nat, NEW s \in SUBSET (1 .. n), s # {}
  PROVE  Max(s) \in 1 .. n /\ s \ {Max(s)} \in SUBSET (1 .. Max(s) - 1)
<1>1. Max(s) \in s /\ \A i \in s : i <= Max(s)
  BY MaxIsGreatest
<1>2. Max(s) \in 1 .. n
  BY <1>1
<1>3. ASSUME NEW i \in s, i # Max(s) PROVE i \in 1 .. Max(s) - 1
  <2>1. i \in 1 .. n /\ i <= Max(s)
    BY <1>1
  <2> QED BY <1>2, <1>3, <2>1
<1> QED BY <1>2, <1>3

\* g folds Op over the sets of positions up to k.
Folds(g, Op, base, k) ==
  \A s \in SUBSET (1 .. k) :
    g[s] = IF s = {} THEN base ELSE Op[<<g[s \ {Max(s)}], Max(s)>>]

(* The recursive function in FoldLeft exists. *)
LEMMA FoldExists ==
  ASSUME NEW V, NEW base \in V, NEW n \in Nat, NEW Op \in [V \X (1 .. n) -> V]
  PROVE  \E g \in [SUBSET (1 .. n) -> V] : Folds(g, Op, base, n)
<1> DEFINE A == {k \in 0 .. n : \E g \in [SUBSET (1 .. k) -> V] : Folds(g, Op, base, k)}
<1>1. 0 \in A
  <2> SUFFICES ASSUME NEW k \in 0 .. n, k = 0 PROVE k \in A
    <3> HIDE DEF A
    <3> QED OBVIOUS
  <2> DEFINE g == [s \in SUBSET (1 .. k) |-> base]
  <2>1. g \in [SUBSET (1 .. k) -> V]
    OBVIOUS
  <2>2. \A s \in SUBSET (1 .. k) : s = {} /\ g[s] = base
    OBVIOUS
  <2> HIDE DEF g
  <2>3. Folds(g, Op, base, k)
    BY <2>2 DEF Folds
  <2> QED BY <2>1, <2>3
<1>2. ASSUME NEW k \in 0 .. n, k # n, k \in A PROVE k + 1 \in A
  <2>1. PICK g \in [SUBSET (1 .. k) -> V] : Folds(g, Op, base, k)
    BY <1>2
  <2> DEFINE Val(f, s) == IF s = {} THEN base ELSE Op[<<f[s \ {Max(s)}], Max(s)>>]
             h == [s \in SUBSET (1 .. k + 1) |-> Val(g, s)]
  <2>2. k \in Nat /\ k + 1 \in Nat /\ k + 1 \in 0 .. n /\ k + 1 <= n
    BY <1>2
  <2>3. ASSUME NEW s \in SUBSET (1 .. k + 1), s # {}
        PROVE  Max(s) \in 1 .. k + 1 /\ s \ {Max(s)} \in SUBSET (1 .. k)
    <3>1. Max(s) \in 1 .. k + 1 /\ s \ {Max(s)} \in SUBSET (1 .. Max(s) - 1)
      BY <2>2, <2>3, BelowMax
    <3> QED BY <2>2, <3>1
  <2>4. ASSUME NEW s \in SUBSET (1 .. k + 1) PROVE Val(g, s) \in V
    <3>1. CASE s = {}
      BY <3>1
    <3>2. CASE s # {}
      <4>1. g[s \ {Max(s)}] \in V /\ Max(s) \in 1 .. n
        BY <2>2, <2>3, <3>2
      <4> QED BY <3>2, <4>1
    <3> QED BY <3>1, <3>2
  <2>5. h \in [SUBSET (1 .. k + 1) -> V]
    <3> HIDE DEF Val
    <3> QED BY <2>4
  <2>6. ASSUME NEW s \in SUBSET (1 .. k) PROVE h[s] = g[s]
    <3>1. g[s] = Val(g, s)
      BY <2>1 DEF Folds
    <3>2. s \in SUBSET (1 .. k + 1)
      BY <2>2
    <3>3. h[s] = Val(g, s)
      <4> HIDE DEF Val
      <4> QED BY <3>2
    <3> HIDE DEF Val, h
    <3> QED BY <3>1, <3>3
  <2>7. ASSUME NEW s \in SUBSET (1 .. k + 1) PROVE h[s] = Val(h, s)
    <3>1. h[s] = Val(g, s)
      <4> HIDE DEF Val
      <4> QED OBVIOUS
    <3>2. Val(g, s) = Val(h, s)
      <4> HIDE DEF h
      <4> QED BY <2>3, <2>6
    <3> HIDE DEF Val, h
    <3> QED BY <3>1, <3>2
  <2>8. Folds(h, Op, base, k + 1)
    <3> HIDE DEF h
    <3> QED BY <2>7 DEF Folds
  <2> HIDE DEF h
  <2> QED BY <2>2, <2>5, <2>8
<1>3. n \in A
  <2> HIDE DEF A
  <2>1. 0 .. n \subseteq A
    BY <1>1, <1>2, UpTo
  <2> QED BY <2>1
<1> QED BY <1>3

===============================================================================
