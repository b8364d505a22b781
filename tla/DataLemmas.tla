----------------------------- MODULE DataLemmas -----------------------------
(***************************************************************************)
(* Facts about numbers and sequences the proofs of several components      *)
(* need: the least and the greatest member of a set of numbers, which      *)
(* stand in for an induction where the code takes "the innermost" or "the  *)
(* last" of something; what popping and changing the last element of a     *)
(* sequence does; that listing a finite set lists each member; what        *)
(* FlattenSeq is of a sequence and of its prefixes; and that a recursive   *)
(* function whose calls go down is well defined.                           *)
(***************************************************************************)
EXTENDS Naturals, SequencesExt, SequenceTheorems, FiniteSetTheorems, WellFoundedInduction,
        TLAPS

\* Every set of naturals has a least member.
LEMMA Least ==
  ASSUME NEW T \in SUBSET Nat, T # {}
  PROVE  \E x \in T : \A y \in T : x <= y
<1> DEFINE R == {ss \in Nat \X Nat : ss[1] < ss[2]}
<1>1. IsWellFoundedOn(R, Nat)
  BY NatLessThanWellFounded DEF OpToRel
<1> HIDE DEF R
<1>2. PICK x \in T : \A y \in T : ~(<<y, x>> \in R)
  BY <1>1, WFMin
<1>3. \A y \in T : ~(y < x)
  BY <1>2 DEF R
<1>4. QED
  BY <1>3

\* A set of numbers up to n has a greatest one.
LEMMA Greatest ==
  ASSUME NEW n \in Nat, NEW S \in SUBSET (1 .. n), S # {}
  PROVE  \E i \in S : \A j \in S : j <= i
<1> DEFINE T == {n - i : i \in S}
<1>1. T \in SUBSET Nat
  OBVIOUS
<1>2. T # {}
  <2>1. PICK i \in S : TRUE
    OBVIOUS
  <2>2. n - i \in T
    OBVIOUS
  <2>3. QED
    BY <2>2
<1> HIDE DEF T
<1>3. PICK m \in T : \A k \in T : m <= k
  BY <1>1, <1>2, Least
<1>4. PICK i \in S : m = n - i
  BY <1>3 DEF T
<1>5. \A j \in S : n - j \in T
  BY DEF T
<1>6. \A j \in S : n - i <= n - j
  BY <1>3, <1>4, <1>5
<1>7. QED
  BY <1>6

\* What is left of a sequence without its last element.
LEMMA Popped ==
  ASSUME NEW S, NEW s \in Seq(S), s # <<>>
  PROVE  /\ Front(s) \in Seq(S) /\ Len(Front(s)) = Len(s) - 1
         /\ \A i \in 1 .. Len(s) - 1 : Front(s)[i] = s[i]
<1> DEFINE n == Len(s) - 1
<1>1. n \in Nat /\ \A i \in 1 .. n : s[i] \in S
  BY EmptySeq, ElementOfSeq, LenProperties
<1>2. Front(s) = SubSeq(s, 1, n)
  BY DEF Front
<1> HIDE DEF n
<1>3. SubSeq(s, 1, n) \in Seq(S)
  BY <1>1, SubSeqProperties
<1>4. Len(SubSeq(s, 1, n)) = n
  BY <1>1
<1>5. \A i \in 1 .. n : SubSeq(s, 1, n)[i] = s[i]
  BY <1>1
<1>6. QED
  BY <1>2, <1>3, <1>4, <1>5, Zenon DEF n

\* A sequence with another last element.
LEMMA Replaced ==
  ASSUME NEW S, NEW s \in Seq(S), s # <<>>, NEW e \in S
  PROVE  /\ [s EXCEPT ![Len(s)] = e] \in Seq(S)
         /\ Len([s EXCEPT ![Len(s)] = e]) = Len(s)
         /\ [s EXCEPT ![Len(s)] = e][Len(s)] = e
         /\ \A i \in 1 .. Len(s) - 1 : [s EXCEPT ![Len(s)] = e][i] = s[i]
<1>1. Len(s) \in 1 .. Len(s)
  BY EmptySeq
<1>2. QED
  BY <1>1, ExceptSeq

\* The last element is one of the elements.
LEMMA LastIsIn ==
  ASSUME NEW S, NEW s \in Seq(S), s # <<>>
  PROVE  Last(s) \in S /\ Last(s) = s[Len(s)] /\ Len(s) \in 1 .. Len(s)
<1>1. Len(s) \in 1 .. Len(s)
  BY EmptySeq
<1>2. QED
  BY <1>1, ElementOfSeq DEF Last

\* SetToSeq lists every member of a finite set once.
LEMMA Listed ==
  ASSUME NEW S, IsFiniteSet(S)
  PROVE  /\ SetToSeq(S) \in [1 .. Cardinality(S) -> S] /\ Cardinality(S) \in Nat
         /\ \A x \in S : \E i \in 1 .. Cardinality(S) : SetToSeq(S)[i] = x
<1> DEFINE D == 1 .. Cardinality(S)
           f == SetToSeq(S)
<1>1. Cardinality(S) \in Nat /\ ExistsBijection(D, S)
  BY FS_CardinalityType
<1>2. \E g \in [D -> S] : IsInjective(g)
  BY <1>1 DEF ExistsBijection, Bijection, Injection
<1>3. f \in [D -> S] /\ IsInjective(f)
  BY <1>2 DEF SetToSeq
<1>4. f \in Injection(D, S)
  BY <1>3 DEF Injection
<1>5. Cardinality(D) = Cardinality(S)
  BY <1>1, FS_Interval
<1> HIDE DEF f, D
<1>6. f \in Surjection(D, S)
  BY <1>4, <1>5, FS_Injection
<1>7. \A x \in S : \E i \in D : f[i] = x
  BY <1>6 DEF Surjection
<1>8. QED
  BY <1>1, <1>3, <1>7 DEF f, D

-----------------------------------------------------------------------------
(* Flattening.  Its recursive function over the positions is the only one   *)
(* of its equation (FlattenSteps), and so grows with the sequence.          *)

\* What a function of the first n positions has to be.
Flattens(f, s, n) ==
  f = [i \in 1 .. n |-> IF i = 1 THEN s[i] ELSE f[i - 1] \o s[i]]

LEMMA FlattenOne ==
  ASSUME NEW S, NEW s \in Seq(Seq(S)), NEW n \in 1 .. Len(s)
  PROVE  \E f \in [1 .. n -> Seq(S)] : Flattens(f, s, n)
<1> DEFINE T == {m \in 1 .. Len(s) : ~\E f \in [1 .. m -> Seq(S)] : Flattens(f, s, m)}
<1>1. SUFFICES ASSUME T # {} PROVE FALSE
  OBVIOUS
<1>2. PICK m \in T : \A k \in T : m <= k
  <2>1. T \in SUBSET Nat
    OBVIOUS
  <2> HIDE DEF T
  <2>2. QED
    BY <1>1, <2>1, Least
<1>3. CASE m = 1
  <2>1. [i \in 1 .. 1 |-> s[1]] \in [1 .. 1 -> Seq(S)]
    OBVIOUS
  <2>2. Flattens([i \in 1 .. 1 |-> s[1]], s, 1)
    BY DEF Flattens
  <2>3. QED
    BY <1>2, <1>3, <2>1, <2>2
<1>4. CASE m # 1
  <2>1. m \in Nat /\ m - 1 \in 1 .. Len(s) /\ m - 1 \notin T
    <3>1. m \in 1 .. Len(s) /\ Len(s) \in Nat
      BY <1>2, LenProperties
    <3>2. m - 1 \in 1 .. Len(s) /\ m \in Nat /\ ~(m <= m - 1)
      BY <1>4, <3>1
    <3> HIDE DEF T
    <3>3. QED
      BY <1>2, <3>2
  <2>2. PICK f \in [1 .. m - 1 -> Seq(S)] : Flattens(f, s, m - 1)
    BY <2>1
  <2>c. PICK c : c = f[m - 1] \o s[m]
    OBVIOUS
  <2> DEFINE g == [i \in 1 .. m |-> IF i < m THEN f[i] ELSE c]
  <2>3. f[m - 1] \in Seq(S) /\ s[m] \in Seq(S)
    BY <1>2, <2>1
  <2>4. c \in Seq(S)
    BY <2>3, <2>c, ConcatProperties
  <2>5. g \in [1 .. m -> Seq(S)]
    BY <2>1, <2>4
  <2>6. \A i \in 1 .. m : g[i] = IF i = 1 THEN s[i] ELSE g[i - 1] \o s[i]
    <3> SUFFICES ASSUME NEW i \in 1 .. m
                 PROVE  g[i] = IF i = 1 THEN s[i] ELSE g[i - 1] \o s[i]
      OBVIOUS
    <3>1. CASE i = m
      <4>1. g[i] = c /\ g[m - 1] = f[m - 1]
        BY <1>4, <2>1, <3>1
      <4>2. QED
        BY <1>4, <2>c, <3>1, <4>1
    <3>2. CASE i < m
      <4>1. i \in 1 .. m - 1 /\ (i # 1 => i - 1 \in 1 .. m - 1)
        BY <3>2, <2>1
      <4>2. f[i] = IF i = 1 THEN s[i] ELSE f[i - 1] \o s[i]
        BY <2>2, <4>1 DEF Flattens
      <4>3. g[i] = f[i] /\ (i # 1 => g[i - 1] = f[i - 1])
        BY <3>2, <4>1, <2>1
      <4>4. QED
        BY <4>2, <4>3
    <3>3. QED
      BY <3>1, <3>2, <2>1
  <2> HIDE DEF g
  <2>7. Flattens(g, s, m)
    BY <2>5, <2>6 DEF Flattens
  <2>8. QED
    BY <1>2, <2>5, <2>7
<1>5. QED
  BY <1>3, <1>4

LEMMA FlattenSame ==
  ASSUME NEW s, NEW n \in Nat, NEW m \in Nat, m <= n, NEW f, NEW g,
         Flattens(f, s, m), Flattens(g, s, n)
  PROVE  \A i \in 1 .. m : f[i] = g[i]
<1> DEFINE T == {i \in 1 .. m : f[i] # g[i]}
<1>1. SUFFICES ASSUME T # {} PROVE FALSE
  OBVIOUS
<1>2. PICK i \in T : \A k \in T : i <= k
  <2>1. T \in SUBSET Nat
    OBVIOUS
  <2> HIDE DEF T
  <2>2. QED
    BY <1>1, <2>1, Least
<1>a. i \in 1 .. m /\ i \in 1 .. n /\ f[i] # g[i]
  BY <1>2
<1>3. /\ f[i] = IF i = 1 THEN s[i] ELSE f[i - 1] \o s[i]
      /\ g[i] = IF i = 1 THEN s[i] ELSE g[i - 1] \o s[i]
  <2>1. \A j \in 1 .. m : f[j] = IF j = 1 THEN s[j] ELSE f[j - 1] \o s[j]
    BY Zenon DEF Flattens
  <2>2. \A j \in 1 .. n : g[j] = IF j = 1 THEN s[j] ELSE g[j - 1] \o s[j]
    BY Zenon DEF Flattens
  <2>3. QED
    BY <1>a, <2>1, <2>2, Zenon
<1>4. i # 1 => f[i - 1] = g[i - 1]
  <2>1. i # 1 => i - 1 \in 1 .. m /\ ~(i <= i - 1)
    BY <1>a
  <2>2. QED
    BY <1>2, <2>1
<1>5. QED
  BY <1>a, <1>3, <1>4, Zenon

LEMMA FlattenSteps ==
  ASSUME NEW S, NEW s \in Seq(Seq(S)), s # <<>>
  PROVE  \E f \in [1 .. Len(s) -> Seq(S)] : Flattens(f, s, Len(s)) /\ FlattenSeq(s) = f[Len(s)]
<1>1. Len(s) \in Nat \ {0}
  BY EmptySeq
<1>2. PICK f \in [1 .. Len(s) -> Seq(S)] : Flattens(f, s, Len(s))
  BY <1>1, FlattenOne
<1> DEFINE flat == CHOOSE g : g = [i \in 1 .. Len(s) |-> IF i = 1 THEN s[i] ELSE g[i - 1] \o s[i]]
<1>3. flat = [i \in 1 .. Len(s) |-> IF i = 1 THEN s[i] ELSE flat[i - 1] \o s[i]]
  BY <1>2 DEF Flattens
<1>4. FlattenSeq(s) = flat[Len(s)]
  BY <1>1 DEF FlattenSeq
<1> HIDE DEF flat
<1>5. Flattens(flat, s, Len(s))
  BY <1>3 DEF Flattens
<1>6. f[Len(s)] = flat[Len(s)]
  BY <1>1, <1>2, <1>5, FlattenSame
<1>7. QED
  BY <1>2, <1>4, <1>6

LEMMA FlattenNil == FlattenSeq(<<>>) = <<>>
  BY DEF FlattenSeq

LEMMA FlattenIsSeq ==
  ASSUME NEW S, NEW s \in Seq(Seq(S))
  PROVE  FlattenSeq(s) \in Seq(S)
<1>1. CASE s = <<>>
  <2>1. FlattenSeq(s) = <<>>
    BY <1>1, FlattenNil
  <2>2. QED
    BY <2>1
<1>2. CASE s # <<>>
  <2>1. PICK f \in [1 .. Len(s) -> Seq(S)] : FlattenSeq(s) = f[Len(s)]
    BY <1>2, FlattenSteps
  <2>2. Len(s) \in 1 .. Len(s)
    BY <1>2, EmptySeq
  <2>3. QED
    BY <2>1, <2>2
<1>3. QED
  BY <1>1, <1>2

LEMMA FlattenAgree ==
  ASSUME NEW s, NEW p \in Nat, NEW m \in Nat, p <= m, p # 0,
         NEW f, NEW g, Flattens(f, s, p), Flattens(g, s, m)
  PROVE  f[p] = g[p]
<1>1. \A i \in 1 .. p : f[i] = g[i]
  BY FlattenSame
<1>2. QED
  BY <1>1

LEMMA FlattenAppend ==
  ASSUME NEW S, NEW s \in Seq(Seq(S)), NEW e \in Seq(S)
  PROVE  FlattenSeq(Append(s, e)) = FlattenSeq(s) \o e
<1> DEFINE t == Append(s, e)
           n == Len(s)
<1>1. /\ t \in Seq(Seq(S)) /\ Len(t) = n + 1 /\ n \in Nat /\ t[n + 1] = e
      /\ \A i \in 1 .. n : t[i] = s[i]
  BY AppendProperties
<1> HIDE DEF t
<1>2. PICK g \in [1 .. n + 1 -> Seq(S)] : Flattens(g, t, n + 1) /\ FlattenSeq(t) = g[n + 1]
  <2>1. t # <<>>
    BY <1>1
  <2>2. QED
    BY <1>1, <2>1, FlattenSteps
<1>3. g[n + 1] = IF n = 0 THEN e ELSE g[n] \o e
  <2>1. \A i \in 1 .. n + 1 : g[i] = IF i = 1 THEN t[i] ELSE g[i - 1] \o t[i]
    BY <1>2, Zenon DEF Flattens
  <2>2. n + 1 \in 1 .. n + 1 /\ (n + 1 = 1 <=> n = 0) /\ n + 1 - 1 = n
    BY <1>1
  <2>3. g[n + 1] = IF n + 1 = 1 THEN t[n + 1] ELSE g[n + 1 - 1] \o t[n + 1]
    <3>1. PICK k \in 1 .. n + 1 : k = n + 1
      BY <2>2
    <3>2. g[k] = IF k = 1 THEN t[k] ELSE g[k - 1] \o t[k]
      BY <2>1
    <3>3. QED
      BY <3>1, <3>2
  <2>4. CASE n = 0
    <3>1. n + 1 = 1
      BY <2>4
    <3>2. QED
      BY <1>1, <2>3, <2>4, <3>1, Zenon
  <2>5. CASE n # 0
    <3>1. n + 1 # 1
      BY <1>1, <2>5
    <3>2. QED
      BY <1>1, <2>2, <2>3, <2>5, <3>1, Zenon
  <2>6. QED
    BY <2>4, <2>5, Zenon
<1>4. CASE n = 0
  <2>1. s = <<>>
    BY <1>4, EmptySeq
  <2>2. FlattenSeq(s) \o e = e
    BY <2>1, FlattenNil, ConcatEmptySeq
  <2>3. QED
    BY <1>2, <1>3, <1>4, <2>2 DEF t
<1>5. CASE n # 0
  <2>1. PICK f \in [1 .. n -> Seq(S)] : Flattens(f, s, n) /\ FlattenSeq(s) = f[n]
    BY <1>5, FlattenSteps
  <2>2. Flattens(f, t, n)
    <3>1. \A i \in 1 .. n : f[i] = IF i = 1 THEN t[i] ELSE f[i - 1] \o t[i]
      BY <1>1, <2>1 DEF Flattens
    <3>2. QED
      BY <3>1, <2>1 DEF Flattens
  <2>3. f[n] = g[n]
    <3>1. n + 1 \in Nat /\ n <= n + 1 /\ n # 0
      BY <1>1, <1>5
    <3>2. QED
      BY <1>1, <1>2, <2>2, <3>1, FlattenAgree
  <2>4. QED
    BY <1>1, <1>2, <1>3, <1>5, <2>1, <2>3 DEF t
<1>6. QED
  BY <1>4, <1>5

\* What the first k give is the beginning of what all give, and what the next
\* gives comes next.
LEMMA FlattenNext ==
  ASSUME NEW S, NEW s \in Seq(Seq(S)), NEW k \in 0 .. Len(s) - 1
  PROVE  /\ SubSeq(s, 1, k) \in Seq(Seq(S)) /\ SubSeq(s, 1, k + 1) \in Seq(Seq(S))
         /\ FlattenSeq(SubSeq(s, 1, k + 1)) = FlattenSeq(SubSeq(s, 1, k)) \o s[k + 1]
<1>1. /\ SubSeq(s, 1, k) \in Seq(Seq(S)) /\ SubSeq(s, 1, k + 1) \in Seq(Seq(S))
      /\ s[k + 1] \in Seq(S)
  BY SubSeqProperties
<1>2. SubSeq(s, 1, k + 1) = Append(SubSeq(s, 1, k), s[k + 1])
  OBVIOUS
<1>3. QED
  BY <1>1, <1>2, FlattenAppend

LEMMA FlattenPrefix ==
  ASSUME NEW S, NEW s \in Seq(Seq(S)), NEW k \in 0 .. Len(s)
  PROVE  \E r \in Seq(S) : FlattenSeq(s) = FlattenSeq(SubSeq(s, 1, k)) \o r
<1> DEFINE T == {m \in Nat : m \in k .. Len(s) /\
                   ~\E r \in Seq(S) :
                      FlattenSeq(SubSeq(s, 1, m)) = FlattenSeq(SubSeq(s, 1, k)) \o r}
<1>1. CASE T = {}
  <2>1. PICK r \in Seq(S) :
          FlattenSeq(SubSeq(s, 1, Len(s))) = FlattenSeq(SubSeq(s, 1, k)) \o r
    <3>1. Len(s) \in Nat /\ Len(s) \in k .. Len(s)
      BY LenProperties
    <3>2. QED
      BY <1>1, <3>1, Zenon
  <2>2. SubSeq(s, 1, Len(s)) = s
    OBVIOUS
  <2>3. QED
    BY <2>1, <2>2
<1>2. ASSUME T # {} PROVE FALSE
  <2>1. PICK m \in T : \A j \in T : m <= j
    <3>1. T \in SUBSET Nat
      OBVIOUS
    <3> HIDE DEF T
    <3>2. QED
      BY <1>2, <3>1, Least
  <2>2. FlattenSeq(SubSeq(s, 1, k)) \in Seq(S)
    <3>1. SubSeq(s, 1, k) \in Seq(Seq(S))
      BY SubSeqProperties
    <3>2. QED
      BY <3>1, FlattenIsSeq
  <2>3. m # k
    <3>1. FlattenSeq(SubSeq(s, 1, k)) = FlattenSeq(SubSeq(s, 1, k)) \o <<>> /\ <<>> \in Seq(S)
      BY <2>2, ConcatEmptySeq
    <3>2. QED
      BY <2>1, <3>1
  <2>4. m - 1 \in k .. Len(s) /\ m - 1 \in Nat /\ m - 1 \notin T /\ m - 1 \in 0 .. Len(s) - 1
    <3>1. m \in k .. Len(s) /\ Len(s) \in Nat /\ k \in Nat
      BY <2>1, LenProperties
    <3>2. m - 1 \in k .. Len(s) /\ m - 1 \in Nat /\ m - 1 \in 0 .. Len(s) - 1 /\ ~(m <= m - 1)
      BY <2>3, <3>1
    <3> HIDE DEF T
    <3>3. QED
      BY <2>1, <3>2
  <2>5. PICK r \in Seq(S) :
          FlattenSeq(SubSeq(s, 1, m - 1)) = FlattenSeq(SubSeq(s, 1, k)) \o r
    BY <2>4
  <2>6. FlattenSeq(SubSeq(s, 1, m)) = FlattenSeq(SubSeq(s, 1, m - 1)) \o s[m] /\ s[m] \in Seq(S)
    <3>1. m - 1 + 1 = m /\ m \in 1 .. Len(s)
      <4>1. m \in Nat /\ Len(s) \in Nat
        BY <2>1, LenProperties
      <4>2. QED
        BY <2>4, <4>1
    <3>2. PICK j \in 0 .. Len(s) - 1 : j = m - 1
      BY <2>4
    <3>3. /\ FlattenSeq(SubSeq(s, 1, j + 1)) = FlattenSeq(SubSeq(s, 1, j)) \o s[j + 1]
      BY FlattenNext
    <3>4. s[m] \in Seq(S)
      BY <3>1
    <3>5. QED
      BY <3>1, <3>2, <3>3, <3>4
  <2>7. FlattenSeq(SubSeq(s, 1, m)) = FlattenSeq(SubSeq(s, 1, k)) \o (r \o s[m])
    <3>1. PICK a \in Seq(S) : a = FlattenSeq(SubSeq(s, 1, k))
      BY <2>2
    <3>2. PICK b \in Seq(S) : b = s[m]
      BY <2>6
    <3>3. (a \o r) \o b = a \o (r \o b)
      BY ConcatAssociative
    <3>4. QED
      BY <2>5, <2>6, <3>1, <3>2, <3>3
  <2>8. r \o s[m] \in Seq(S)
    BY <2>5, <2>6, ConcatProperties
  <2>9. QED
    BY <2>1, <2>7, <2>8
<1>3. QED
  BY <1>1, <1>2

-----------------------------------------------------------------------------
(* Recursion.  A function whose value at a place is made of its value at one *)
(* place further down is well defined: `rank` goes down lexicographically.   *)

Below(p, q) == p[1] < q[1] \/ (p[1] = q[1] /\ p[2] < q[2])

LEMMA LexLeast ==
  ASSUME NEW D, NEW rank \in [D -> Nat \X Nat], NEW T \in SUBSET D, T # {}
  PROVE  \E x \in T : \A y \in T : ~Below(rank[y], rank[x])
<1> DEFINE A == {rank[x][1] : x \in T}
<1>1. A \in SUBSET Nat /\ A # {}
  OBVIOUS
<1>2. PICK m \in A : \A k \in A : m <= k
  BY <1>1, Least
<1> DEFINE B == {rank[x][2] : x \in {y \in T : rank[y][1] = m}}
<1>3. B \in SUBSET Nat /\ B # {}
  BY <1>2
<1>4. PICK l \in B : \A k \in B : l <= k
  BY <1>3, Least
<1>5. PICK x \in T : rank[x][1] = m /\ rank[x][2] = l
  BY <1>4
<1>6. ASSUME NEW y \in T PROVE ~Below(rank[y], rank[x])
  <2>1. rank[y] \in Nat \X Nat /\ rank[y][1] \in Nat /\ rank[y][2] \in Nat /\ rank[y][1] \in A
    OBVIOUS
  <2>2. m \in Nat /\ l \in Nat /\ m <= rank[y][1]
    BY <1>1, <1>2, <1>3, <2>1
  <2>3. rank[y][1] = m => rank[y][2] \in B
    OBVIOUS
  <2>4. rank[y][1] = m => l <= rank[y][2]
    BY <1>4, <2>3
  <2> HIDE DEF A, B
  <2>5. QED
    BY <1>5, <2>1, <2>2, <2>4 DEF Below
<1>7. QED
  BY <1>6

\* f does on C what the equation says, which has all it asks for there.
Solves(f, C, E, base, next, made) ==
  \A d \in C : IF d \in E THEN f[d] = base[d] ELSE next[d] \in C /\ f[d] = made[d][f[next[d]]]

LEMMA SolutionsAgree ==
  ASSUME NEW D, NEW E, NEW base, NEW next, NEW made, NEW rank \in [D -> Nat \X Nat],
         \A d \in D \ E : next[d] \in D /\ Below(rank[next[d]], rank[d]),
         NEW B \in SUBSET D, NEW C \in SUBSET D, NEW f, NEW g,
         Solves(f, B, E, base, next, made), Solves(g, C, E, base, next, made)
  PROVE  \A d \in B \cap C : f[d] = g[d]
<1> DEFINE T == {d \in B \cap C : f[d] # g[d]}
<1>1. SUFFICES ASSUME T # {} PROVE FALSE
  OBVIOUS
<1>2. PICK x \in T : \A y \in T : ~Below(rank[y], rank[x])
  <2>1. T \in SUBSET D
    OBVIOUS
  <2> HIDE DEF T
  <2>2. QED
    BY <1>1, <2>1, LexLeast
<1>3. CASE x \in E
  BY <1>3 DEF Solves
<1>4. CASE x \notin E
  <2>1. next[x] \in B \cap C /\ f[x] = made[x][f[next[x]]] /\ g[x] = made[x][g[next[x]]]
    BY <1>4 DEF Solves
  <2>2. next[x] \notin T
    BY <1>2, <1>4
  <2>3. QED
    BY <2>1, <2>2
<1>5. QED
  BY <1>3, <1>4

LEMMA SolvedEverywhere ==
  ASSUME NEW D, NEW R, NEW E, NEW base, NEW next, NEW made, NEW rank \in [D -> Nat \X Nat],
         \A d \in D \ E : next[d] \in D /\ Below(rank[next[d]], rank[d]),
         \A d \in D \cap E : base[d] \in R,
         \A d \in D \ E : \A r \in R : made[d][r] \in R
  PROVE  \A d \in D : \E C \in SUBSET D : \E f \in [C -> R] :
           d \in C /\ Solves(f, C, E, base, next, made)
<1> DEFINE Has(d) == \E C \in SUBSET D : \E f \in [C -> R] :
                       d \in C /\ Solves(f, C, E, base, next, made)
           T == {d \in D : ~Has(d)}
<1>1. SUFFICES ASSUME T # {} PROVE FALSE
  OBVIOUS
<1>2. PICK x \in T : \A y \in T : ~Below(rank[y], rank[x])
  <2>1. T \in SUBSET D
    OBVIOUS
  <2> HIDE DEF T
  <2>2. QED
    BY <1>1, <2>1, LexLeast
<1>3. CASE x \in E
  <2> DEFINE f == [d \in {x} |-> base[x]]
  <2>1. f \in [{x} -> R] /\ Solves(f, {x}, E, base, next, made)
    BY <1>3 DEF Solves
  <2> HIDE DEF f
  <2>2. QED
    BY <2>1
<1>4. CASE x \notin E
  <2>1. next[x] \in D /\ next[x] \notin T
    BY <1>2, <1>4
  <2>2. PICK C \in SUBSET D : \E f \in [C -> R] :
          next[x] \in C /\ Solves(f, C, E, base, next, made)
    BY <2>1
  <2>3. PICK f \in [C -> R] : next[x] \in C /\ Solves(f, C, E, base, next, made)
    BY <2>2
  <2>a. x \notin C
    BY <2>3
  <2> DEFINE B == C \cup {x}
             g == [d \in B |-> IF d = x THEN made[x][f[next[x]]] ELSE f[d]]
  <2>4. g \in [B -> R]
    BY <1>4, <2>3
  <2>5. g[x] = made[x][f[next[x]]] /\ \A d \in C : g[d] = f[d]
    BY <2>a
  <2>6. B \in SUBSET D /\ x \in B /\ C \subseteq B /\ \A d \in B : d \in C \/ d = x
    OBVIOUS
  <2> HIDE DEF g, B
  <2>7. Solves(g, B, E, base, next, made)
    BY <1>4, <2>3, <2>5, <2>6 DEF Solves
  <2>8. QED
    BY <2>4, <2>6, <2>7
<1>5. QED
  BY <1>3, <1>4

GoesDown(D, R, E, base, next, made, rank) ==
  /\ rank \in [D -> Nat \X Nat]
  /\ \A d \in D \ E : next[d] \in D /\ Below(rank[next[d]], rank[d])
  /\ \A d \in D \cap E : base[d] \in R
  /\ \A d \in D \ E : \A r \in R : made[d][r] \in R
Obeys(F, D, E, base, next, made) ==
  \A d \in D : F[d] = IF d \in E THEN base[d] ELSE made[d][F[next[d]]]

LEMMA RecursionIsDefined ==
  ASSUME NEW D, NEW R, NEW E, NEW base, NEW next, NEW made, NEW rank,
         GoesDown(D, R, E, base, next, made, rank)
  PROVE  \E F \in [D -> R] : Obeys(F, D, E, base, next, made)
<1> DEFINE Is(d, v) == \E C \in SUBSET D : \E f \in [C -> R] :
                         /\ d \in C /\ Solves(f, C, E, base, next, made) /\ v = f[d]
           F == [d \in D |-> CHOOSE v \in R : Is(d, v)]
<1>1. ASSUME NEW d \in D PROVE \E v \in R : Is(d, v)
  <2>1. \A e \in D : \E C \in SUBSET D : \E f \in [C -> R] :
          e \in C /\ Solves(f, C, E, base, next, made)
    BY SolvedEverywhere DEF GoesDown
  <2>2. PICK C \in SUBSET D : \E f \in [C -> R] :
          d \in C /\ Solves(f, C, E, base, next, made)
    BY <2>1
  <2>3. PICK f \in [C -> R] : d \in C /\ Solves(f, C, E, base, next, made)
    BY <2>2
  <2>4. f[d] \in R /\ Is(d, f[d])
    BY <2>3
  <2>5. QED
    BY <2>4
<1>2. \A d \in D, v \in R, u \in R : Is(d, v) /\ Is(d, u) => v = u
  BY SolutionsAgree DEF GoesDown
<1> HIDE DEF Is
<1>3. \A d \in D : F[d] \in R /\ Is(d, F[d])
  BY <1>1
<1>4. F \in [D -> R]
  BY <1>3
<1> HIDE DEF F
<1>5. ASSUME NEW d \in D
      PROVE  F[d] = IF d \in E THEN base[d] ELSE made[d][F[next[d]]]
  <2> PICK C \in SUBSET D : \E f \in [C -> R] :
        d \in C /\ Solves(f, C, E, base, next, made) /\ F[d] = f[d]
    BY <1>3 DEF Is
  <2>1. PICK f \in [C -> R] : d \in C /\ Solves(f, C, E, base, next, made) /\ F[d] = f[d]
    OBVIOUS
  <2>2. CASE d \in E
    BY <2>1, <2>2 DEF Solves
  <2>3. CASE d \notin E
    <3>1. next[d] \in C /\ f[d] = made[d][f[next[d]]] /\ next[d] \in D
      BY <2>1, <2>3 DEF Solves, GoesDown
    <3>2. Is(next[d], f[next[d]])
      BY <2>1, <3>1 DEF Is
    <3>3. F[next[d]] = f[next[d]]
      BY <1>2, <1>3, <3>1, <3>2
    <3>4. QED
      BY <2>1, <2>3, <3>1, <3>3
  <2>4. QED
    BY <2>2, <2>3
<1>6. QED
  BY <1>4, <1>5 DEF Obeys

=============================================================================
