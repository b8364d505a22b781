--------------------------- MODULE LibraryProofs ---------------------------
(***************************************************************************)
(* That the index of a dict or a set never changes what a lookup answers,  *)
(* for any keys, any threshold and any length; that the methods of an      *)
(* array mean what they say, for any elements; that the operators do, for  *)
(* any values and any width of a word; and that training resumes from a    *)
(* whole save, with the moments of its step, for any modulus.              *)
(*                                                                         *)
(* The index outlives changes of the entries: it is trusted while the      *)
(* length and the last key are those it was built at.  The invariant       *)
(* therefore says what a container can have become since its index was     *)
(* built, and the lemmas show that of all these only the very same entries *)
(* still have the stamp.  Part, Since and DictOk are about dicts, Covers   *)
(* and SetOk about sets; a lemma for each operation follows, and IndexStep *)
(* joins them.                                                             *)
(*                                                                         *)
(* A method that runs has called back, in order, for every element it is   *)
(* past, and none of the answers has decided it; a sort has the greatest   *)
(* keys in place.  CallOk says so, EndOk what is asked of the end.         *)
(*                                                                         *)
(* Same is what all equalities of plain values come to; the rest about the *)
(* operators is arithmetic: sums of bits, quotients and remainders.        *)
(*                                                                         *)
(* A weights file is a prefix of what some save was about to write.        *)
(* TrainingInv says so, and that the moments of every state begun to be    *)
(* saved are those of its step; ParsedIs is what a load makes of such a    *)
(* prefix, all of the state or nothing.                                    *)
(***************************************************************************)
EXTENDS HashIndex, ArrayMethods, Values, Training, DataLemmas, TLAPS

-----------------------------------------------------------------------------
(* The hypotheses and the invariant.                                         *)

\* A container of the program: no two of its keys are spelled alike.
OneSpelling == \A k, l \in Keys : k.canon = l.canon => k = l

\* No container shrinks below the length its index needs.
StaysLarge == IndexMin > 0 /\ IndexMin <= Floor

\* A key as it is written, and as the text that stands for it.
Text(k) == [canon |-> k.legacy, legacy |-> k.legacy]
Spellings == Keys \cup {Text(k) : k \in Keys}

\* The keys of another older spelling, and those that have one.
Unlike(key) == {k \in Spellings : k.legacy # key.legacy}
Alike(key) == {k \in Spellings : k.canon # Blank /\ k.canon = key.canon}
Named == {k \in Spellings : k.legacy # Blank}
\* What removing may leave of the entries.
AtFloor(e) == e # entries => Len(e) >= Floor
NoBlank(s) == \A i \in DOMAIN s : s[i].legacy # Blank
Mark(e) == [length |-> Len(e), last |-> e[Len(e)].canon]
Indexed(e) == [c \in {e[i].canon : i \in DOMAIN e} |-> FirstAt(e, c)]

\* What is left of a dict s without some of its entries, all blank ones among them.
Part(s, e) ==
  /\ NoBlank(e) /\ Len(e) < Len(s)
  /\ s[Len(s)].legacy = Blank /\ Len(e) + 1 = Len(s) => e = Front(s)

\* What a dict can be since it was indexed as s.
Since(s, e) ==
  \/ e = s
  \/ Len(e) < Len(s) /\ ~NoBlank(e)
  \/ Part(s, e)
  \/ /\ e # <<>> /\ e[Len(e)].legacy = Blank
     /\ Part(s, Front(e)) \/ (Front(e) = s /\ NoBlank(s))

DictOk(e, c, st) ==
  \/ st = Empty
  \/ \E s \in Seq(Spellings) : s # <<>> /\ st = Mark(s) /\ c = Indexed(s) /\ Since(s, e)

\* What a set's index may have missed is in it all the same.
Covers(c, n, e) ==
  /\ \A i \in DOMAIN e : e[i].canon # Blank => e[i].canon \in DOMAIN c
  /\ \A x \in DOMAIN c : c[x] \in 1 .. n
SetOk(e, c, st) ==
  \/ st = Empty
  \/ st.length \in Nat /\ (st.length < Len(e) \/ Covers(c, st.length, e))
Distinct(e) == \A i, j \in DOMAIN e : i # j /\ e[i].canon = e[j].canon => e[i].canon = Blank

IndexState(k, e, c, st) ==
  /\ k \in {"dict", "set"} /\ e \in Seq(Spellings)
  /\ Len(e) < IndexMin => st = Empty /\ c = Nothing
  /\ k = "dict" => DictOk(e, c, st)
  /\ k = "set" => SetOk(e, c, st) /\ Distinct(e)
IndexInv == IndexState(kind, entries, cache, stamp)

-----------------------------------------------------------------------------
(* Retaining: what is left of a sequence when only the members of A are     *)
(* kept, by a recursive function over its positions.                        *)

\* What the recursive function of Retain has to be, for what is kept in A.
Keeps(f, s, A) ==
  /\ f[0] = <<>>
  /\ \A i \in 1 .. Len(s) : f[i] = IF s[i] \in A THEN Append(f[i - 1], s[i]) ELSE f[i - 1]

\* What has been kept of the first n elements of s.
KeptOf(e, s, A, n) ==
  /\ \A i \in 1 .. Len(e) : e[i] \in A
  /\ Len(e) <= n
  /\ (\A i \in 1 .. n : s[i] \in A) => Len(e) = n
  /\ Len(e) = n => \A i \in 1 .. n : e[i] = s[i]
  /\ \A i \in 1 .. n : s[i] \in A => \E j \in 1 .. Len(e) : e[j] = s[i]
  /\ \A i \in 1 .. Len(e) : \E p \in 1 .. n : e[i] = s[p]
  /\ \A i, j \in 1 .. Len(e) : i < j => \E p, q \in 1 .. n : p < q /\ e[i] = s[p] /\ e[j] = s[q]

LEMMA KeptNext ==
  ASSUME NEW S, NEW s \in Seq(S), NEW A, NEW n \in 1 .. Len(s), NEW e \in Seq(S),
         KeptOf(e, s, A, n - 1)
  PROVE  KeptOf(IF s[n] \in A THEN Append(e, s[n]) ELSE e, s, A, n)
<1>0. n \in Nat /\ n # 0 /\ Len(e) \in Nat /\ s[n] \in S
  OBVIOUS
<1>1. CASE s[n] \notin A
  <2>1. \A i \in 1 .. n : i \in 1 .. n - 1 \/ i = n
    OBVIOUS
  <2>2. \A i \in 1 .. n - 1 : i \in 1 .. n
    OBVIOUS
  <2>3. KeptOf(e, s, A, n)
    BY <1>0, <1>1, <2>1, <2>2 DEF KeptOf
  <2>4. QED
    BY <1>1, <2>3
<1>2. CASE s[n] \in A
  <2> DEFINE g == Append(e, s[n])
  <2>1. /\ Len(g) = Len(e) + 1 /\ g[Len(e) + 1] = s[n]
        /\ \A i \in 1 .. Len(e) : g[i] = e[i]
    BY <1>0, AppendProperties
  <2>2. \A i \in 1 .. Len(g) : i \in 1 .. Len(e) \/ i = Len(g)
    BY <2>1, <1>0
  <2>3. \A i \in 1 .. n : i \in 1 .. n - 1 \/ i = n
    OBVIOUS
  <2>4. \A i \in 1 .. n - 1 : i \in 1 .. n /\ i < n
    OBVIOUS
  <2>5. \A i \in 1 .. Len(e) : i \in 1 .. Len(g)
    BY <2>1, <1>0
  <2> HIDE DEF g
  <2>6. \A i \in 1 .. Len(g) : g[i] \in A
    BY <1>2, <2>1, <2>2 DEF KeptOf
  <2>7. Len(g) <= n /\ (Len(g) = n => \A i \in 1 .. n : g[i] = s[i])
    BY <1>0, <2>1, <2>3 DEF KeptOf
  <2>b. (\A i \in 1 .. n : s[i] \in A) => Len(g) = n
    BY <1>0, <2>1, <2>4 DEF KeptOf
  <2>8. \A i \in 1 .. n : s[i] \in A => \E j \in 1 .. Len(g) : g[j] = s[i]
    <3>1. Len(g) \in 1 .. Len(g)
      BY <1>0, <2>1
    <3>2. QED
      BY <2>1, <2>3, <2>5, <3>1 DEF KeptOf
  <2>a. n \in 1 .. n
    BY <1>0
  <2>9. ASSUME NEW i \in 1 .. Len(g) PROVE \E p \in 1 .. n : g[i] = s[p]
    <3>1. CASE i \in 1 .. Len(e)
      <4>1. PICK p \in 1 .. n - 1 : e[i] = s[p]
        BY <3>1 DEF KeptOf
      <4>2. g[i] = s[p] /\ p \in 1 .. n
        BY <2>1, <2>4, <3>1, <4>1
      <4>3. QED
        BY <4>2
    <3>2. CASE i = Len(g)
      BY <2>1, <2>a, <3>2
    <3>3. QED
      BY <2>2, <3>1, <3>2
  <2>10. ASSUME NEW i \in 1 .. Len(g), NEW j \in 1 .. Len(g), i < j
         PROVE  \E p, q \in 1 .. n : p < q /\ g[i] = s[p] /\ g[j] = s[q]
    <3>1. i \in 1 .. Len(e)
      BY <2>1, <2>2, <2>10, <1>0
    <3>2. CASE j \in 1 .. Len(e)
      <4>1. PICK p \in 1 .. n - 1, q \in 1 .. n - 1 : p < q /\ e[i] = s[p] /\ e[j] = s[q]
        BY <2>10, <3>1, <3>2 DEF KeptOf
      <4>2. p \in 1 .. n /\ q \in 1 .. n /\ g[i] = s[p] /\ g[j] = s[q]
        BY <2>1, <2>4, <3>1, <3>2, <4>1
      <4>3. QED
        BY <4>1, <4>2
    <3>3. CASE j = Len(g)
      <4>1. PICK p \in 1 .. n - 1 : e[i] = s[p]
        BY <3>1 DEF KeptOf
      <4>2. p \in 1 .. n /\ p < n /\ n \in 1 .. n /\ g[i] = s[p] /\ g[j] = s[n]
        BY <1>0, <2>1, <2>4, <3>1, <3>3, <4>1
      <4>3. QED
        BY <4>2
    <3>4. QED
      BY <2>2, <3>2, <3>3
  <2>11. KeptOf(g, s, A, n)
    BY <2>6, <2>7, <2>b, <2>8, <2>9, <2>10 DEF KeptOf
  <2>12. QED
    BY <1>2, <2>11 DEF g
<1>3. QED
  BY <1>1, <1>2

LEMMA KeptSoFar ==
  ASSUME NEW S, NEW s \in Seq(S), NEW A, NEW f, Keeps(f, s, A)
  PROVE  \A n \in 0 .. Len(s) : f[n] \in Seq(S) /\ KeptOf(f[n], s, A, n)
<1> DEFINE T == {n \in 0 .. Len(s) : ~(f[n] \in Seq(S) /\ KeptOf(f[n], s, A, n))}
<1>1. SUFFICES ASSUME T # {} PROVE FALSE
  OBVIOUS
<1>2. PICK n \in T : \A k \in T : n <= k
  <2>1. T \in SUBSET Nat
    OBVIOUS
  <2> HIDE DEF T
  <2>2. QED
    BY <1>1, <2>1, Least
<1>3. CASE n = 0
  <2>1. f[0] = <<>> /\ <<>> \in Seq(S) /\ Len(<<>>) = 0
    BY DEF Keeps
  <2>2. KeptOf(<<>>, s, A, 0)
    BY DEF KeptOf
  <2>3. QED
    BY <1>2, <1>3, <2>1, <2>2
<1>4. CASE n # 0
  <2>1. n \in 1 .. Len(s) /\ n - 1 \in 0 .. Len(s) /\ ~(n <= n - 1)
    BY <1>2, <1>4
  <2>2. f[n - 1] \in Seq(S) /\ KeptOf(f[n - 1], s, A, n - 1)
    BY <1>2, <2>1
  <2>3. f[n] = IF s[n] \in A THEN Append(f[n - 1], s[n]) ELSE f[n - 1]
    BY <2>1 DEF Keeps
  <2>4. s[n] \in S
    BY <2>1
  <2>5. f[n] \in Seq(S)
    BY <2>2, <2>3, <2>4
  <2>6. KeptOf(f[n], s, A, n)
    BY <2>1, <2>2, <2>3, KeptNext
  <2>7. QED
    BY <1>2, <2>5, <2>6
<1>5. QED
  BY <1>3, <1>4

LEMMA KeepsIsDefined ==
  ASSUME NEW S, NEW s \in Seq(S), NEW A
  PROVE  \E f : f = [i \in 0 .. Len(s) |->
                       IF i = 0 THEN <<>> ELSE IF s[i] \in A THEN Append(f[i - 1], s[i]) ELSE f[i - 1]]
<1> DEFINE D == 0 .. Len(s)
           base == [i \in D |-> <<>>]
           next == [i \in D |-> i - 1]
           made == [i \in D |-> [r \in Seq(S) |-> IF s[i] \in A THEN Append(r, s[i]) ELSE r]]
           rank == [i \in D |-> <<i, 0>>]
<1>1. GoesDown(D, Seq(S), {0}, base, next, made, rank)
  <2>1. rank \in [D -> Nat \X Nat]
    OBVIOUS
  <2>2. \A d \in D \ {0} : next[d] \in D /\ Below(rank[next[d]], rank[d])
    BY DEF Below
  <2>3. \A d \in D \cap {0} : base[d] \in Seq(S)
    OBVIOUS
  <2>4. \A d \in D \ {0} : \A r \in Seq(S) : made[d][r] \in Seq(S)
    <3>1. ASSUME NEW d \in D \ {0}, NEW r \in Seq(S) PROVE made[d][r] \in Seq(S)
      <4>1. s[d] \in S
        OBVIOUS
      <4>2. QED
        BY <4>1
    <3>2. QED
      BY <3>1
  <2> HIDE DEF D, base, next, made, rank
  <2>5. QED
    BY <2>1, <2>2, <2>3, <2>4 DEF GoesDown
<1>2. PICK f \in [D -> Seq(S)] : Obeys(f, D, {0}, base, next, made)
  <2> HIDE DEF D, base, next, made, rank
  <2>1. QED
    BY <1>1, RecursionIsDefined
<1>3. ASSUME NEW i \in D
      PROVE  f[i] = IF i = 0 THEN <<>> ELSE IF s[i] \in A THEN Append(f[i - 1], s[i]) ELSE f[i - 1]
  <2>1. CASE i = 0
    BY <1>2, <2>1 DEF Obeys
  <2>2. CASE i # 0
    <3>1. next[i] = i - 1 /\ i - 1 \in D
      BY <2>2
    <3>2. f[i] = made[i][f[i - 1]] /\ f[i - 1] \in Seq(S)
      BY <1>2, <2>2, <3>1 DEF Obeys
    <3>3. QED
      BY <2>2, <3>2
  <2>3. QED
    BY <2>1, <2>2
<1>4. f = [i \in 0 .. Len(s) |->
             IF i = 0 THEN <<>> ELSE IF s[i] \in A THEN Append(f[i - 1], s[i]) ELSE f[i - 1]]
  BY <1>2, <1>3
<1>5. QED
  BY <1>4

-----------------------------------------------------------------------------
(* Keys, the scan and a fresh index.                                         *)

LEMMA SpellingFacts ==
  /\ \A k \in Spellings : /\ k = [canon |-> k.canon, legacy |-> k.legacy]
                          /\ k.legacy # Blank => k.legacy = k.canon
  /\ OneSpelling => \A k, l \in Spellings : k.canon = l.canon => k = l
<1>1. ASSUME NEW k \in Spellings
      PROVE  /\ k = [canon |-> k.canon, legacy |-> k.legacy] /\ k.legacy \in {k.canon, Blank}
             /\ k \in Keys \/ k = [canon |-> Blank, legacy |-> Blank]
  <2>1. CASE k \in Keys
    BY <2>1, KeysAssumption
  <2>2. CASE k \notin Keys
    <3>1. PICK l \in Keys : k = Text(l)
      BY <2>2 DEF Spellings
    <3>2. k = [canon |-> l.legacy, legacy |-> l.legacy]
      BY <3>1 DEF Text
    <3>3. l.legacy # Blank => k = l
      BY <3>2, KeysAssumption
    <3>4. QED
      BY <2>2, <3>2, <3>3
  <2>3. QED
    BY <2>1, <2>2
<1>2. ASSUME OneSpelling, NEW k \in Spellings, NEW l \in Spellings, k.canon = l.canon
      PROVE  k = l
  <2>1. k \in Keys /\ l \in Keys => k = l
    BY <1>2 DEF OneSpelling
  <2>2. k.canon = Blank => k = [canon |-> Blank, legacy |-> Blank] /\ l = [canon |-> Blank, legacy |-> Blank]
    <3>1. k.canon = Blank => k.legacy = Blank /\ l.legacy = Blank
      BY <1>1, <1>2
    <3>2. QED
      BY <1>1, <1>2, <3>1
  <2>3. QED
    BY <1>1, <1>2, <2>1, <2>2
<1>3. QED
  BY <1>1, <1>2

LEMMA TextIsSpelling == \A k \in Keys : k \in Spellings /\ Text(k) \in Spellings
  BY DEF Spellings

\* The first occurrence of a key.
Finds(n, e, key) ==
  \/ n = 0 /\ \A i \in DOMAIN e : e[i].canon # key
  \/ n \in DOMAIN e /\ e[n].canon = key /\ \A j \in 1 .. n - 1 : e[j].canon # key

LEMMA FirstAtFinds ==
  ASSUME NEW S, NEW e \in Seq(S), NEW key
  PROVE  Finds(FirstAt(e, key), e, key)
<1> DEFINE T == {i \in DOMAIN e : e[i].canon = key}
<1>1. CASE T = {}
  BY <1>1 DEF FirstAt, First, Finds
<1>2. CASE T # {}
  <2>1. DOMAIN e = 1 .. Len(e) /\ Len(e) \in Nat
    OBVIOUS
  <2>2. PICK i \in T : \A j \in T : i <= j
    <3>1. T \in SUBSET Nat
      BY <2>1
    <3> HIDE DEF T
    <3>2. QED
      BY <1>2, <3>1, Least
  <2>3. i \in DOMAIN e /\ e[i].canon = key /\ \A j \in 1 .. i - 1 : ~(e[j].canon = key)
    BY <2>1, <2>2
  <2>4. FirstAt(e, key) = CHOOSE n \in DOMAIN e :
          e[n].canon = key /\ \A j \in 1 .. n - 1 : ~(e[j].canon = key)
    BY <2>3 DEF FirstAt, First
  <2> DEFINE m == FirstAt(e, key)
  <2>5. m \in DOMAIN e /\ e[m].canon = key /\ \A j \in 1 .. m - 1 : ~(e[j].canon = key)
    BY <2>3, <2>4
  <2>6. QED
    BY <2>5 DEF Finds
<1>3. QED
  BY <1>1, <1>2

LEMMA FoundOnce ==
  ASSUME NEW S, NEW e \in Seq(S), NEW key, NEW n, NEW m, Finds(n, e, key), Finds(m, e, key)
  PROVE  n = m
<1>1. DOMAIN e = 1 .. Len(e) /\ Len(e) \in Nat
  OBVIOUS
<1>2. QED
  BY <1>1 DEF Finds

LEMMA IndexedIs ==
  ASSUME NEW S, NEW e \in Seq(S)
  PROVE  /\ \A i \in DOMAIN e : e[i].canon \in DOMAIN Indexed(e)
         /\ \A c \in DOMAIN Indexed(e) : /\ Indexed(e)[c] = FirstAt(e, c)
                                         /\ Indexed(e)[c] \in DOMAIN e /\ e[Indexed(e)[c]].canon = c
<1>1. DOMAIN Indexed(e) = {e[i].canon : i \in DOMAIN e}
  BY DEF Indexed
<1>2. ASSUME NEW c \in DOMAIN Indexed(e)
      PROVE  /\ Indexed(e)[c] = FirstAt(e, c)
             /\ Indexed(e)[c] \in DOMAIN e /\ e[Indexed(e)[c]].canon = c
  <2>1. Indexed(e)[c] = FirstAt(e, c)
    BY <1>1 DEF Indexed
  <2>2. PICK i \in DOMAIN e : e[i].canon = c
    BY <1>1
  <2>3. Finds(FirstAt(e, c), e, c)
    BY FirstAtFinds
  <2>4. QED
    BY <2>1, <2>2, <2>3 DEF Finds
<1>3. QED
  BY <1>1, <1>2

\* Pushing a key extends what was indexed.
LEMMA IndexedPush ==
  ASSUME NEW e \in Seq(Spellings), NEW k \in Spellings
  PROVE  Indexed(Append(e, k)) =
           [c \in DOMAIN Indexed(e) \cup {k.canon} |->
              IF c \in DOMAIN Indexed(e) THEN Indexed(e)[c] ELSE Len(e) + 1]
<1> DEFINE g == Append(e, k)
<1>1. /\ g \in Seq(Spellings) /\ Len(g) = Len(e) + 1 /\ g[Len(e) + 1] = k /\ Len(e) \in Nat
      /\ \A i \in 1 .. Len(e) : g[i] = e[i]
      /\ DOMAIN g = 1 .. Len(e) + 1 /\ DOMAIN e = 1 .. Len(e)
  BY AppendProperties
<1>a. \A i \in DOMAIN g : i \in DOMAIN e \/ i = Len(e) + 1
  BY <1>1
<1>b. DOMAIN e \subseteq DOMAIN g /\ Len(e) + 1 \in DOMAIN g
  BY <1>1
<1> HIDE DEF g
<1>2. DOMAIN Indexed(g) = DOMAIN Indexed(e) \cup {k.canon}
  <2>1. DOMAIN Indexed(e) = {e[i].canon : i \in DOMAIN e}
    BY DEF Indexed
  <2>2. DOMAIN Indexed(g) = {g[i].canon : i \in DOMAIN g}
    BY DEF Indexed
  <2>3. \A i \in DOMAIN e : g[i] = e[i]
    BY <1>1
  <2>4. QED
    BY <1>1, <1>a, <1>b, <2>1, <2>2, <2>3
<1>3. ASSUME NEW c \in DOMAIN Indexed(g)
      PROVE  Indexed(g)[c] = IF c \in DOMAIN Indexed(e) THEN Indexed(e)[c] ELSE Len(e) + 1
  <2>1. Indexed(g)[c] = FirstAt(g, c) /\ Finds(FirstAt(g, c), g, c)
    BY <1>1, IndexedIs, FirstAtFinds
  <2>2. CASE c \in DOMAIN Indexed(e)
    <3>1. PICK n : n = Indexed(e)[c]
      OBVIOUS
    <3>2. n = FirstAt(e, c) /\ n \in DOMAIN e /\ Finds(n, e, c)
      BY <2>2, <3>1, IndexedIs, FirstAtFinds
    <3>3. n \in DOMAIN e /\ e[n].canon = c /\ \A j \in 1 .. n - 1 : e[j].canon # c
      BY <1>1, <3>2 DEF Finds
    <3>4. \A j \in 1 .. n - 1 : j \in 1 .. Len(e)
      BY <1>1, <3>3
    <3>5. Finds(n, g, c)
      BY <1>1, <1>b, <3>3, <3>4 DEF Finds
    <3>6. QED
      BY <1>1, <2>1, <2>2, <3>1, <3>5, FoundOnce
  <2>3. CASE c \notin DOMAIN Indexed(e)
    <3>1. \A i \in DOMAIN e : e[i].canon # c
      BY <2>3 DEF Indexed
    <3>2. c = k.canon
      BY <1>2, <2>3
    <3>3. \A j \in 1 .. Len(e) + 1 - 1 : g[j].canon # c
      BY <1>1, <3>1
    <3>4. Finds(Len(e) + 1, g, c)
      BY <1>1, <1>b, <3>2, <3>3 DEF Finds
    <3>5. QED
      BY <1>1, <2>1, <2>3, <3>4, FoundOnce
  <2>4. QED
    BY <2>2, <2>3
<1>4. QED
  BY <1>2, <1>3 DEF g, Indexed

\* A dict that still matches its stamp is the one that was indexed.
LEMMA MatchedIsIndexed ==
  ASSUME OneSpelling, NEW s \in Seq(Spellings), NEW e \in Seq(Spellings), s # <<>>, e # <<>>,
         Since(s, e), Mark(s) = Mark(e)
  PROVE  e = s
<1>1. Len(s) = Len(e) /\ s[Len(s)].canon = e[Len(e)].canon
  BY DEF Mark
<1>2. Len(s) \in Nat \ {0} /\ Len(e) \in Nat \ {0}
  BY EmptySeq
<1>3. s[Len(s)] \in Spellings /\ e[Len(e)] \in Spellings
  BY <1>2
<1>4. s[Len(s)] = e[Len(e)]
  BY <1>1, <1>3, SpellingFacts
<1>5. /\ Len(Front(e)) = Len(e) - 1 /\ \A i \in 1 .. Len(e) - 1 : Front(e)[i] = e[i]
  BY Popped
<1>6. \A i \in 1 .. Len(s) - 1 : Front(s)[i] = s[i]
  BY Popped
<1>7. CASE Part(s, e)
  <2>1. Len(e) < Len(s)
    BY <1>7, Zenon DEF Part
  <2>2. QED
    BY <1>1, <1>2, <2>1
<1>8. CASE e[Len(e)].legacy = Blank /\ Part(s, Front(e))
  <2>0. s[Len(s)].legacy = Blank /\ Len(Front(e)) + 1 = Len(s)
    <3>1. s[Len(s)].legacy = Blank
      BY <1>4, <1>8
    <3>2. Len(Front(e)) + 1 = Len(s)
      BY <1>1, <1>2, <1>5
    <3>3. QED
      BY <3>1, <3>2
  <2>1. Front(e) = Front(s)
    BY <1>8, <2>0, Zenon DEF Part
  <2>2. \A i \in 1 .. Len(e) : e[i] = s[i]
    <3>1. \A i \in 1 .. Len(e) - 1 : e[i] = s[i]
      BY <1>1, <1>5, <1>6, <2>1
    <3>2. \A i \in 1 .. Len(e) : i \in 1 .. Len(e) - 1 \/ i = Len(e)
      BY <1>2
    <3>3. QED
      BY <1>1, <1>4, <3>1, <3>2
  <2>3. QED
    BY <1>1, <2>2, SeqEqual
<1>9. CASE Front(e) = s
  BY <1>1, <1>2, <1>5, <1>9
<1>10. CASE Len(e) < Len(s)
  BY <1>1, <1>2, <1>10
<1>11. QED
  BY <1>7, <1>8, <1>9, <1>10 DEF Since

\* What a lookup leaves of a dict: it answers, and the index is that of the entries.
Looked(found, e, c, st, key) ==
  /\ found.at = FirstAt(e, key)
  /\ Len(e) < IndexMin => found.cache = c /\ found.stamp = st
  /\ Len(e) >= IndexMin => found.cache = Indexed(e) /\ found.stamp = Mark(e)

LEMMA DictLooks ==
  ASSUME OneSpelling, StaysLarge, kind = "dict",
         IndexState(kind, entries, cache, stamp), NEW key
  PROVE  Looked(Lookup(key), entries, cache, stamp, key)
<1>0. entries \in Seq(Spellings) /\ Len(entries) \in Nat /\ IndexMin \in Nat \ {0}
  BY IndexAssumption DEF IndexState, StaysLarge
<1>1. CASE Len(entries) < IndexMin
  <2>1. Lookup(key) = [at |-> FirstAt(entries, key), cache |-> cache, stamp |-> stamp]
    BY <1>1 DEF Lookup
  <2>2. QED
    BY <1>0, <1>1, <2>1 DEF Looked
<1>2. CASE ~(Len(entries) < IndexMin)
  <2> DEFINE map == IF stamp = Mark(entries) THEN cache ELSE Built(entries)
             at == IF key \notin DOMAIN map THEN 0
                   ELSE IF entries[map[key]].canon = key THEN map[key] ELSE FirstAt(entries, key)
  <2>1. Lookup(key) = [at |-> at, cache |-> map, stamp |-> Mark(entries)]
    BY <1>2 DEF Lookup, Mark
  <2>2. Built(entries) = Indexed(entries)
    BY DEF Built, Indexed
  <2>3. entries # <<>>
    BY <1>0, <1>2
  <2>4. ASSUME stamp = Mark(entries) PROVE cache = Indexed(entries)
    <3>1. stamp # Empty
      <4>1. Mark(entries).length = Len(entries)
        BY DEF Mark
      <4>2. Empty.length = 0
        BY DEF Empty
      <4>3. Len(entries) # 0
        BY <1>0, <1>2
      <4>4. QED
        BY <2>4, <4>1, <4>2, <4>3
    <3>2. PICK s \in Seq(Spellings) : s # <<>> /\ stamp = Mark(s) /\ cache = Indexed(s) /\ Since(s, entries)
      BY <3>1 DEF IndexState, DictOk
    <3>3. entries = s
      BY <1>0, <2>3, <2>4, <3>2, MatchedIsIndexed
    <3>4. QED
      BY <3>2, <3>3
  <2>5. map = Indexed(entries)
    BY <2>2, <2>4
  <2>6. at = FirstAt(entries, key)
    <3>1. CASE key \in DOMAIN Indexed(entries)
      BY <1>0, <2>5, <3>1, IndexedIs
    <3>2. CASE key \notin DOMAIN Indexed(entries)
      <4>1. \A i \in DOMAIN entries : entries[i].canon # key
        BY <3>2 DEF Indexed
      <4>2. Finds(FirstAt(entries, key), entries, key)
        BY <1>0, FirstAtFinds
      <4>3. FirstAt(entries, key) = 0
        BY <4>1, <4>2 DEF Finds
      <4>4. QED
        BY <2>5, <3>2, <4>3
    <3>3. QED
      BY <3>1, <3>2
  <2> HIDE DEF at, map
  <2>7. QED
    BY <1>0, <1>2, <2>1, <2>5, <2>6 DEF Looked
<1>3. QED
  BY <1>1, <1>2

-----------------------------------------------------------------------------
(* The steps of a dict.                                                      *)

LEMMA SinceItself == ASSUME NEW s \in Seq(Spellings), s # <<>> PROVE DictOk(s, Indexed(s), Mark(s))
  BY DEF DictOk, Since

LEMMA DictLooked ==
  ASSUME StaysLarge, IndexState("dict", entries, cache, stamp), NEW found, NEW key,
         Looked(found, entries, cache, stamp, key)
  PROVE  IndexState("dict", entries, found.cache, found.stamp)
<1>1. entries \in Seq(Spellings) /\ Len(entries) \in Nat /\ IndexMin \in Nat \ {0}
  BY IndexAssumption DEF IndexState, StaysLarge
<1>2. CASE Len(entries) < IndexMin
  <2>1. found.cache = cache /\ found.stamp = stamp
    BY <1>2 DEF Looked
  <2>2. QED
    BY <2>1
<1>3. CASE ~(Len(entries) < IndexMin)
  <2>1. entries # <<>> /\ Len(entries) >= IndexMin
    BY <1>1, <1>3
  <2>2. found.cache = Indexed(entries) /\ found.stamp = Mark(entries)
    BY <2>1 DEF Looked
  <2>3. DictOk(entries, found.cache, found.stamp)
    BY <1>1, <2>1, <2>2, SinceItself
  <2>4. QED
    BY <1>1, <1>3, <2>3 DEF IndexState
<1>4. QED
  BY <1>2, <1>3

LEMMA DictPushed ==
  ASSUME StaysLarge, IndexState("dict", entries, cache, stamp), NEW k \in Spellings, NEW found,
         Looked(found, entries, cache, stamp, k.canon)
  PROVE  IndexState("dict", Append(entries, k), Recorded(found, k.canon).cache,
                    Recorded(found, k.canon).stamp)
<1> DEFINE e == Append(entries, k)
           r == Recorded(found, k.canon)
<1>1. /\ entries \in Seq(Spellings) /\ Len(entries) \in Nat /\ IndexMin \in Nat \ {0}
      /\ e \in Seq(Spellings) /\ Len(e) = Len(entries) + 1 /\ e[Len(entries) + 1] = k /\ e # <<>>
  BY IndexAssumption, AppendProperties DEF IndexState, StaysLarge
<1>2. CASE Len(entries) < IndexMin
  <2>1. found.cache = cache /\ found.stamp = stamp
    BY <1>2 DEF Looked
  <2>2. cache = Nothing /\ stamp = Empty
    BY <1>2 DEF IndexState
  <2>3. r = [cache |-> found.cache, stamp |-> found.stamp]
    BY <2>1, <2>2 DEF Recorded
  <2>4. r.cache = Nothing /\ r.stamp = Empty
    BY <2>1, <2>2, <2>3
  <2> HIDE DEF e, r
  <2>5. QED
    BY <1>1, <2>4 DEF IndexState, DictOk, e, r
<1>3. CASE ~(Len(entries) < IndexMin)
  <2>1. entries # <<>> /\ Len(entries) >= IndexMin /\ 1 \in DOMAIN entries
    BY <1>1, <1>3
  <2>2. found.cache = Indexed(entries) /\ found.stamp = Mark(entries)
    BY <2>1 DEF Looked
  <2>3. found.stamp.length = Len(entries)
    BY <2>2 DEF Mark
  <2>4. found.cache # Nothing
    <3>1. entries[1].canon \in DOMAIN found.cache
      BY <1>1, <2>1, <2>2, IndexedIs
    <3>2. DOMAIN Nothing = {}
      BY DEF Nothing
    <3>3. QED
      BY <3>1, <3>2
  <2>5. r = [cache |-> [c \in DOMAIN found.cache \cup {k.canon} |->
                          IF c \in DOMAIN found.cache THEN found.cache[c] ELSE Len(entries) + 1],
             stamp |-> [length |-> Len(entries) + 1, last |-> k.canon]]
    BY <2>3, <2>4 DEF Recorded
  <2>6. r.cache = Indexed(e)
    <3>1. r.cache = [c \in DOMAIN Indexed(entries) \cup {k.canon} |->
                       IF c \in DOMAIN Indexed(entries) THEN Indexed(entries)[c] ELSE Len(entries) + 1]
      BY <2>2, <2>5
    <3> HIDE DEF r
    <3>2. Indexed(Append(entries, k)) =
            [c \in DOMAIN Indexed(entries) \cup {k.canon} |->
               IF c \in DOMAIN Indexed(entries) THEN Indexed(entries)[c] ELSE Len(entries) + 1]
      <4> HIDE DEF e
      <4>1. QED
        BY <1>1, IndexedPush, Zenon
    <3>3. QED
      BY <3>1, <3>2
  <2>7. r.stamp = Mark(e)
    BY <1>1, <2>5 DEF Mark
  <2>8. DictOk(e, r.cache, r.stamp)
    BY <1>1, <2>6, <2>7, SinceItself
  <2> HIDE DEF e, r
  <2>9. ~(Len(e) < IndexMin)
    BY <1>1, <1>3
  <2>10. IndexState("dict", e, r.cache, r.stamp)
    BY <1>1, <2>8, <2>9 DEF IndexState
  <2>11. QED
    BY <2>10 DEF e, r
<1>4. QED
  BY <1>2, <1>3

\* Entries that shrank while the index was fresh.
LEMMA DictShrinks ==
  ASSUME StaysLarge, IndexState("dict", entries, cache, stamp), NEW found, NEW k \in Keys, k.legacy # Blank,
         NEW key, Looked(found, entries, cache, stamp, key),
         NEW e \in Seq(Spellings), KeptOf(e, entries, Unlike(k), Len(entries)),
         AtFloor(e)
  PROVE  IndexState("dict", e, found.cache, found.stamp)
<1>1. /\ entries \in Seq(Spellings) /\ Len(entries) \in Nat /\ IndexMin \in Nat \ {0} /\ Floor \in Nat
      /\ Len(e) \in Nat
  BY IndexAssumption DEF IndexState, StaysLarge
<1>2. CASE e = entries
  BY <1>2, DictLooked
<1>3. CASE e # entries
  <2>1. Len(e) < Len(entries)
    <3>1. Len(e) <= Len(entries)
      BY DEF KeptOf
    <3>2. Len(e) = Len(entries) => \A i \in 1 .. Len(entries) : e[i] = entries[i]
      BY DEF KeptOf
    <3>3. Len(e) # Len(entries)
      BY <1>1, <1>3, <3>2, SeqEqual
    <3>4. QED
      BY <1>1, <3>1, <3>3
  <2>2. Len(e) >= IndexMin /\ Len(entries) >= IndexMin /\ entries # <<>>
    BY <1>1, <1>3, <2>1 DEF StaysLarge, AtFloor
  <2>3. found.cache = Indexed(entries) /\ found.stamp = Mark(entries)
    BY <2>2 DEF Looked
  <2>4. NoBlank(e) => entries[Len(entries)].legacy # Blank
    <3>1. Len(entries) \in 1 .. Len(entries) /\ entries[Len(entries)] \in Spellings
      BY <1>1, <2>2
    <3>2. ASSUME entries[Len(entries)].legacy = Blank
          PROVE  \E j \in 1 .. Len(e) : e[j] = entries[Len(entries)]
      BY <3>1, <3>2 DEF KeptOf, Unlike
    <3>3. QED
      BY <1>1, <3>2 DEF NoBlank
  <2>5. Since(entries, e)
    BY <2>1, <2>4 DEF Since, Part
  <2>6. DictOk(e, found.cache, found.stamp)
    BY <1>1, <2>2, <2>3, <2>5 DEF DictOk
  <2>7. QED
    BY <1>1, <2>2, <2>6 DEF IndexState
<1>4. QED
  BY <1>2, <1>3

\* The blank entries of a dict are dropped without a look at the index.
LEMMA BlanksGo ==
  ASSUME StaysLarge, IndexState("dict", entries, cache, stamp), ~NoBlank(entries),
         NEW e \in Seq(Spellings), KeptOf(e, entries, Named, Len(entries)),
         Len(entries) > 0 /\ entries[Len(entries)].legacy = Blank =>
           KeptOf(e, entries, Named, Len(entries) - 1),
         AtFloor(e)
  PROVE  IndexState("dict", e, cache, stamp)
<1>1. /\ entries \in Seq(Spellings) /\ Len(entries) \in Nat /\ IndexMin \in Nat \ {0} /\ Floor \in Nat
      /\ Len(e) \in Nat
  BY IndexAssumption DEF IndexState, StaysLarge
<1>2. NoBlank(e)
  BY <1>1 DEF NoBlank, KeptOf, Named
<1>3. e # entries
  BY <1>2
<1>4. Len(e) < Len(entries)
  <2>1. Len(e) <= Len(entries)
    BY DEF KeptOf
  <2>2. Len(e) = Len(entries) => \A i \in 1 .. Len(entries) : e[i] = entries[i]
    BY DEF KeptOf
  <2>3. Len(e) # Len(entries)
    BY <1>1, <1>3, <2>2, SeqEqual
  <2>4. QED
    BY <1>1, <2>1, <2>3
<1>5. ~(Len(e) < IndexMin)
  BY <1>1, <1>3 DEF StaysLarge, AtFloor
<1>a. entries # <<>> /\ Front(entries) \in Seq(Spellings) /\ Len(Front(entries)) = Len(entries) - 1
  <2>1. entries # <<>>
    BY <1>1, <1>4
  <2>2. QED
    BY <1>1, <2>1, Popped
\* When the last entry is blank and the others are not, they are what is kept.
<1>6. ASSUME entries[Len(entries)].legacy = Blank, Len(e) + 1 = Len(entries)
      PROVE  e = Front(entries)
  <2>1. KeptOf(e, entries, Named, Len(entries) - 1)
    BY <1>1, <1>4, <1>6
  <2>2. Len(e) = Len(entries) - 1
    BY <1>1, <1>6
  <2>3. \A i \in 1 .. Len(entries) - 1 : e[i] = Front(entries)[i]
    BY <1>1, <1>a, <2>1, <2>2, Popped DEF KeptOf
  <2>4. QED
    BY <1>a, <2>2, <2>3, SeqEqual
<1>b. ASSUME entries[Len(entries)].legacy = Blank, NoBlank(Front(entries)) PROVE e = Front(entries)
  <2>1. KeptOf(e, entries, Named, Len(entries) - 1)
    BY <1>1, <1>4, <1>b
  <2>2. QED
    <3>1. \A i \in 1 .. Len(entries) - 1 : entries[i] \in Named
      <4>1. SUFFICES ASSUME NEW i \in 1 .. Len(entries) - 1 PROVE entries[i] \in Named
        OBVIOUS
      <4>2. Front(entries)[i] = entries[i] /\ i \in 1 .. Len(Front(entries))
        BY <1>1, <1>a, Popped
      <4>3. entries[i].legacy # Blank /\ entries[i] \in Spellings
        BY <1>1, <1>b, <4>1, <4>2 DEF NoBlank
      <4>4. QED
        BY <4>3 DEF Named
    <3>2. Len(e) + 1 = Len(entries)
      BY <1>1, <2>1, <3>1, SMTT(30) DEF KeptOf
    <3>3. QED
      BY <1>b, <1>6, <3>2
<1>7. DictOk(e, cache, stamp)
  <2>1. CASE stamp = Empty
    BY <2>1 DEF DictOk
  <2>2. CASE stamp # Empty
    <3>1. PICK s \in Seq(Spellings) :
            s # <<>> /\ stamp = Mark(s) /\ cache = Indexed(s) /\ Since(s, entries)
      BY <2>2 DEF IndexState, DictOk
    <3>2. Len(s) \in Nat
      OBVIOUS
    <3>3. CASE entries = s
      BY <1>2, <1>4, <1>6, <3>1, <3>3 DEF DictOk, Since, Part
    <3>4. CASE Len(entries) < Len(s)
      <4>1. Len(e) < Len(s) /\ Len(e) + 1 # Len(s)
        BY <1>1, <1>4, <3>2, <3>4
      <4>2. Part(s, e)
        BY <1>2, <4>1, Zenon DEF Part
      <4>3. QED
        BY <3>1, <4>2 DEF DictOk, Since
    <3>5. CASE entries[Len(entries)].legacy = Blank /\ Part(s, Front(entries))
      <4>1. e = Front(entries)
        BY <1>b, <3>5 DEF Part
      <4>2. QED
        BY <3>1, <3>5, <4>1 DEF DictOk, Since
    <3>6. CASE entries[Len(entries)].legacy = Blank /\ Front(entries) = s /\ NoBlank(s)
      <4>1. e = s
        BY <1>b, <3>6
      <4>2. QED
        BY <3>1, <4>1 DEF DictOk, Since
    <3>7. CASE Part(s, entries)
      BY <3>7 DEF Part
    <3>8. QED
      BY <3>1, <3>3, <3>4, <3>5, <3>6, <3>7 DEF Since
  <2>3. QED
    BY <2>1, <2>2
<1>8. QED
  BY <1>1, <1>5, <1>7 DEF IndexState

\* What Remove leaves.
LEMMA Dropped ==
  ASSUME entries \in Seq(Spellings), NEW k \in Keys
  PROVE  LET e == Retain(entries, LAMBDA l : l.legacy # k.legacy)
         IN  /\ e \in Seq(Spellings) /\ KeptOf(e, entries, Unlike(k), Len(entries))
             /\ Len(entries) > 0 /\ entries[Len(entries)] \notin Unlike(k) =>
                  KeptOf(e, entries, Unlike(k), Len(entries) - 1)
<1>1. PICK f : f = [i \in 0 .. Len(entries) |->
                     IF i = 0 THEN <<>>
                     ELSE IF entries[i] \in Unlike(k) THEN Append(f[i - 1], entries[i]) ELSE f[i - 1]]
  BY KeepsIsDefined, ZenonT(30)
<1>2. \A i \in 0 .. Len(entries) : i # 0 => (entries[i] \in Unlike(k) <=> entries[i].legacy # k.legacy)
  BY DEF Unlike
<1> DEFINE kept == CHOOSE g : g = [i \in 0 .. Len(entries) |->
                     IF i = 0 THEN <<>>
                     ELSE IF entries[i].legacy # k.legacy THEN Append(g[i - 1], entries[i]) ELSE g[i - 1]]
<1>3. f = [i \in 0 .. Len(entries) |->
            IF i = 0 THEN <<>>
            ELSE IF entries[i].legacy # k.legacy THEN Append(f[i - 1], entries[i]) ELSE f[i - 1]]
  BY <1>1, <1>2
<1>4. kept = [i \in 0 .. Len(entries) |->
               IF i = 0 THEN <<>>
               ELSE IF entries[i].legacy # k.legacy THEN Append(kept[i - 1], entries[i]) ELSE kept[i - 1]]
  BY <1>3
<1>5. Retain(entries, LAMBDA l : l.legacy # k.legacy) = kept[Len(entries)]
  BY DEF Retain
<1> HIDE DEF kept
<1>6. /\ kept[0] = <<>>
      /\ \A i \in 1 .. Len(entries) :
           kept[i] = IF entries[i] \in Unlike(k) THEN Append(kept[i - 1], entries[i]) ELSE kept[i - 1]
  <2>1. Len(entries) \in Nat /\ 0 \in 0 .. Len(entries)
    OBVIOUS
  <2>2. \A i \in 1 .. Len(entries) : i \in 0 .. Len(entries) /\ i # 0
    OBVIOUS
  <2>3. QED
    BY <1>2, <1>4, <2>1, <2>2
<1>7. Keeps(kept, entries, Unlike(k))
  BY <1>6 DEF Keeps
<1> DEFINE e == Retain(entries, LAMBDA l : l.legacy # k.legacy)
           n == Len(entries)
<1>8. e = kept[n]
  BY <1>5
<1> HIDE DEF e
<1>9. \A m \in 0 .. n : kept[m] \in Seq(Spellings) /\ KeptOf(kept[m], entries, Unlike(k), m)
  BY <1>7, KeptSoFar
<1>10. n \in Nat
  OBVIOUS
<1>11. n \in 0 .. n /\ (n > 0 => n - 1 \in 0 .. n /\ n \in 1 .. n)
  BY <1>10
<1>12. n > 0 /\ entries[n] \notin Unlike(k) => e = kept[n - 1]
  BY <1>7, <1>8, <1>11 DEF Keeps
<1>13. QED
  BY <1>8, <1>9, <1>11, <1>12 DEF e

LEMMA ReadStep ==
  ASSUME OneSpelling, StaysLarge, IndexInv, kind = "dict", NEW k \in Keys, Read(k)
  PROVE  IndexInv'
<1>1. Looked(Lookup(k.legacy), entries, cache, stamp, k.legacy)
  BY DictLooks DEF IndexInv
<1>2. cache' = Lookup(k.legacy).cache /\ stamp' = Lookup(k.legacy).stamp /\ entries' = entries /\ kind' = kind
  BY DEF Read, Index
<1>3. IndexState("dict", entries, Lookup(k.legacy).cache, Lookup(k.legacy).stamp)
  BY <1>1, DictLooked DEF IndexInv
<1>4. QED
  BY <1>2, <1>3 DEF IndexInv

LEMMA WriteStep ==
  ASSUME OneSpelling, StaysLarge, IndexInv, kind = "dict", NEW k \in Keys, Write(k)
  PROVE  IndexInv'
<1> DEFINE found == Lookup(k.legacy)
<1>1. Looked(found, entries, cache, stamp, k.legacy)
  BY DictLooks DEF IndexInv
<1>2. IndexState("dict", entries, cache, stamp) /\ kind' = "dict"
  BY DEF IndexInv, Write
<1> HIDE DEF found
<1>3. CASE found.at # 0
  <2>1. cache' = found.cache /\ stamp' = found.stamp /\ entries' = entries
    BY <1>3 DEF Write, Index, found
  <2>2. IndexState("dict", entries, found.cache, found.stamp)
    BY <1>1, <1>2, DictLooked
  <2>3. QED
    BY <1>2, <2>1, <2>2 DEF IndexInv
<1>4. CASE found.at = 0
  <2>1. /\ cache' = Recorded(found, k.legacy).cache /\ stamp' = Recorded(found, k.legacy).stamp
        /\ entries' = Append(entries, Text(k))
    BY <1>4 DEF Write, PushEntry, Index, Text, found
  <2>2. Text(k) \in Spellings /\ Text(k).canon = k.legacy
    BY TextIsSpelling DEF Text
  <2>3. IndexState("dict", Append(entries, Text(k)), Recorded(found, k.legacy).cache,
                   Recorded(found, k.legacy).stamp)
    BY <1>1, <1>2, <2>2, DictPushed
  <2>4. QED
    BY <1>2, <2>1, <2>3 DEF IndexInv
<1>5. QED
  BY <1>3, <1>4

\* A blank key is added only where there is none, and without a look at the index.
LEMMA BlankPushed ==
  ASSUME StaysLarge, IndexState("dict", entries, cache, stamp), NEW k \in Spellings, k.legacy = Blank,
         NoBlank(entries)
  PROVE  IndexState("dict", Append(entries, k), cache, stamp)
<1> DEFINE e == Append(entries, k)
<1>1. /\ entries \in Seq(Spellings) /\ Len(entries) \in Nat /\ IndexMin \in Nat \ {0}
      /\ e \in Seq(Spellings) /\ Len(e) = Len(entries) + 1 /\ e[Len(e)] = k /\ e # <<>>
  BY IndexAssumption, AppendProperties DEF IndexState, StaysLarge
<1>2. Front(e) = entries
  <2>1. /\ Front(e) \in Seq(Spellings) /\ Len(Front(e)) = Len(e) - 1
        /\ \A i \in 1 .. Len(e) - 1 : Front(e)[i] = e[i]
    BY <1>1, Popped
  <2>2. \A i \in 1 .. Len(entries) : e[i] = entries[i]
    BY <1>1, AppendProperties
  <2> HIDE DEF e
  <2>3. QED
    BY <1>1, <2>1, <2>2, SeqEqual
<1> HIDE DEF e
<1>3. Len(e) < IndexMin => stamp = Empty /\ cache = Nothing
  BY <1>1 DEF IndexState
<1>4. DictOk(e, cache, stamp)
  <2>1. CASE stamp = Empty
    BY <2>1 DEF DictOk
  <2>2. CASE stamp # Empty
    <3>1. PICK s \in Seq(Spellings) :
            s # <<>> /\ stamp = Mark(s) /\ cache = Indexed(s) /\ Since(s, entries)
      BY <2>2 DEF IndexState, DictOk
    <3>2. entries # <<>> => entries[Len(entries)].legacy # Blank
      BY <1>1, EmptySeq DEF NoBlank
    <3>3. entries = s \/ Part(s, entries)
      BY <3>1, <3>2 DEF Since
    <3>4. Since(s, e)
      BY <1>1, <1>2, <3>3 DEF Since
    <3>5. QED
      BY <3>1, <3>4 DEF DictOk
  <2>3. QED
    BY <2>1, <2>2
<1>5. IndexState("dict", e, cache, stamp)
  BY <1>1, <1>3, <1>4 DEF IndexState
<1>6. QED
  BY <1>5 DEF e

LEMMA AddStep ==
  ASSUME OneSpelling, StaysLarge, IndexInv, kind = "dict", NEW k \in Keys, Add(k)
  PROVE  IndexInv'
<1>1. IndexState("dict", entries, cache, stamp) /\ kind' = "dict" /\ entries \in Seq(Spellings)
  BY DEF IndexInv, IndexState, Add
<1>2. CASE k.legacy = Blank
  <2> DEFINE at == First(entries, LAMBDA e : e.legacy = Blank)
  <2>1. CASE at # 0
    <3>1. cache' = cache /\ stamp' = stamp /\ entries' = entries
      BY <1>2, <2>1 DEF Add, Index, Untouched
    <3>2. QED
      BY <1>1, <3>1 DEF IndexInv
  <2>2. CASE at = 0
    <3>1. cache' = cache /\ stamp' = stamp /\ entries' = Append(entries, k)
      BY <1>2, <2>2 DEF Add, PushEntry, Index, Untouched
    <3>2. NoBlank(entries)
      <4>1. SUFFICES ASSUME ~NoBlank(entries) PROVE FALSE
        OBVIOUS
      <4> DEFINE T == {i \in DOMAIN entries : entries[i].legacy = Blank}
      <4>2. T # {} /\ DOMAIN entries = 1 .. Len(entries)
        BY <1>1, <4>1 DEF NoBlank
      <4>3. PICK i \in T : \A j \in T : i <= j
        <5>1. T \in SUBSET Nat
          BY <4>2
        <5> HIDE DEF T
        <5>2. QED
          BY <4>2, <5>1, Least
      <4>4. i \in DOMAIN entries /\ entries[i].legacy = Blank /\ \A j \in 1 .. i - 1 : ~(entries[j].legacy = Blank)
        BY <4>2, <4>3
      <4>5. at \in DOMAIN entries
        BY <4>4 DEF First
      <4>6. QED
        BY <2>2, <4>2, <4>5
    <3>3. QED
      BY <1>1, <1>2, <3>1, <3>2, BlankPushed, TextIsSpelling DEF IndexInv
  <2>3. QED
    BY <2>1, <2>2
<1>3. CASE k.legacy # Blank
  <2> DEFINE found == Lookup(k.legacy)
             at == DictPos(found, k)
  <2>1. Looked(found, entries, cache, stamp, k.legacy)
    BY DictLooks DEF IndexInv
  <2>2. CASE at # 0
    <3>1. cache' = found.cache /\ stamp' = found.stamp /\ entries' = entries
      BY <1>3, <2>2 DEF Add, Index
    <3> HIDE DEF found
    <3>2. IndexState("dict", entries, found.cache, found.stamp)
      BY <1>1, <2>1, DictLooked
    <3>3. QED
      BY <1>1, <3>1, <3>2 DEF IndexInv
  <2>3. CASE at = 0
    <3>1. /\ cache' = Recorded(found, k.legacy).cache /\ stamp' = Recorded(found, k.legacy).stamp
          /\ entries' = Append(entries, k)
      BY <1>3, <2>3 DEF Add, PushEntry, Index
    <3> HIDE DEF found
    <3>2. k \in Spellings /\ k.canon = k.legacy
      BY <1>3, TextIsSpelling, SpellingFacts
    <3>3. IndexState("dict", Append(entries, k), Recorded(found, k.legacy).cache,
                     Recorded(found, k.legacy).stamp)
      BY <1>1, <2>1, <3>2, DictPushed
    <3>4. QED
      BY <1>1, <3>1, <3>3 DEF IndexInv
  <2>4. QED
    BY <2>2, <2>3
<1>4. QED
  BY <1>2, <1>3

LEMMA DropStep ==
  ASSUME OneSpelling, StaysLarge, IndexInv, kind = "dict", NEW k \in Keys, Drop(k)
  PROVE  IndexInv'
<1>1. IndexState("dict", entries, cache, stamp) /\ kind' = "dict" /\ entries \in Seq(Spellings)
  BY DEF IndexInv, IndexState, Drop
<1> DEFINE e == Retain(entries, LAMBDA l : l.legacy # k.legacy)
<1>2. /\ e \in Seq(Spellings) /\ KeptOf(e, entries, Unlike(k), Len(entries))
      /\ Len(entries) > 0 /\ entries[Len(entries)] \notin Unlike(k) =>
           KeptOf(e, entries, Unlike(k), Len(entries) - 1)
  BY <1>1, Dropped
<1>3. CASE k.legacy = Blank
  <2>1. CASE NoBlank(entries)
    <3>1. cache' = cache /\ stamp' = stamp /\ entries' = entries
      BY <1>3, <2>1 DEF Drop, Index, Untouched, NoBlank
    <3>2. QED
      BY <1>1, <3>1 DEF IndexInv
  <2>2. CASE ~NoBlank(entries)
    <3>1. cache' = cache /\ stamp' = stamp /\ entries' = e /\ AtFloor(e)
      BY <1>3, <2>2 DEF Drop, Index, Untouched, NoBlank, AtFloor
    <3>2. Unlike(k) = Named
      BY <1>3 DEF Unlike, Named
    <3>3. entries[Len(entries)].legacy = Blank => entries[Len(entries)] \notin Named
      BY DEF Named
    <3> HIDE DEF e
    <3>4. IndexState("dict", e, cache, stamp)
      BY <1>1, <1>2, <2>2, <3>1, <3>2, <3>3, BlanksGo
    <3>5. QED
      BY <1>1, <3>1, <3>4 DEF IndexInv
  <2>3. QED
    BY <2>1, <2>2
<1>4. CASE k.legacy # Blank
  <2> DEFINE found == Lookup(k.legacy)
  <2>1. Looked(found, entries, cache, stamp, k.legacy)
    BY DictLooks DEF IndexInv
  <2>2. cache' = found.cache /\ stamp' = found.stamp
    BY <1>4 DEF Drop, Index
  <2>3. entries' = entries \/ (entries' = e /\ AtFloor(e))
    BY <1>4 DEF Drop, AtFloor
  <2> HIDE DEF found, e
  <2>4. IndexState("dict", entries, found.cache, found.stamp)
    BY <1>1, <2>1, DictLooked
  <2>5. AtFloor(e) => IndexState("dict", e, found.cache, found.stamp)
    BY <1>1, <1>2, <1>4, <2>1, DictShrinks
  <2>6. QED
    BY <1>1, <2>2, <2>3, <2>4, <2>5 DEF IndexInv
<1>5. QED
  BY <1>3, <1>4

-----------------------------------------------------------------------------
(* The steps of a set.                                                       *)

SetLooked(found, e, c, st, key) ==
  /\ found.at = FirstAt(e, key)
  /\ Len(e) < IndexMin => found.cache = c /\ found.stamp = st
  /\ Len(e) >= IndexMin => found.stamp = Mark(e) /\ Covers(found.cache, Len(e), e)

LEMMA SetLooks ==
  ASSUME StaysLarge, kind = "set", IndexState(kind, entries, cache, stamp), NEW key, key # Blank
  PROVE  SetLooked(Lookup(key), entries, cache, stamp, key)
<1>0. entries \in Seq(Spellings) /\ Len(entries) \in Nat /\ IndexMin \in Nat \ {0}
  BY IndexAssumption DEF IndexState, StaysLarge
<1>1. CASE Len(entries) < IndexMin
  <2>1. Lookup(key) = [at |-> FirstAt(entries, key), cache |-> cache, stamp |-> stamp]
    BY <1>1 DEF Lookup
  <2>2. QED
    BY <1>0, <1>1, <2>1 DEF SetLooked
<1>2. CASE ~(Len(entries) < IndexMin)
  <2> DEFINE map == IF stamp = Mark(entries) THEN cache ELSE Built(entries)
             at == IF key \notin DOMAIN map THEN 0
                   ELSE IF entries[map[key]].canon = key THEN map[key] ELSE FirstAt(entries, key)
  <2>1. Lookup(key) = [at |-> at, cache |-> map, stamp |-> Mark(entries)]
    BY <1>2 DEF Lookup, Mark
  <2>2. DOMAIN entries = 1 .. Len(entries)
    BY <1>0
  <2>3. Covers(Built(entries), Len(entries), entries)
    <3>1. DOMAIN Built(entries) = {entries[i].canon : i \in {j \in DOMAIN entries : entries[j].canon # Blank}}
      BY DEF Built
    <3>2. ASSUME NEW i \in DOMAIN entries, entries[i].canon # Blank
          PROVE  entries[i].canon \in DOMAIN Built(entries)
      BY <3>1, <3>2
    <3>3. ASSUME NEW x \in DOMAIN Built(entries) PROVE Built(entries)[x] \in 1 .. Len(entries)
      <4>1. PICK i \in DOMAIN entries : entries[i].canon = x
        BY <3>1
      <4>2. Built(entries)[x] = FirstAt(entries, x)
        BY DEF Built
      <4>3. Finds(FirstAt(entries, x), entries, x)
        BY <1>0, FirstAtFinds
      <4>4. QED
        BY <2>2, <4>1, <4>2, <4>3 DEF Finds
    <3>4. QED
      BY <3>2, <3>3 DEF Covers
  <2>4. ASSUME stamp = Mark(entries) PROVE Covers(cache, Len(entries), entries)
    <3>1. stamp.length = Len(entries)
      BY <2>4 DEF Mark
    <3>2. stamp # Empty
      <4>1. Empty.length = 0
        BY DEF Empty
      <4>2. QED
        BY <1>0, <1>2, <3>1, <4>1
    <3>3. ~(stamp.length < Len(entries))
      BY <1>0, <3>1
    <3>4. QED
      BY <3>1, <3>2, <3>3 DEF IndexState, SetOk
  <2>5. Covers(map, Len(entries), entries)
    BY <2>3, <2>4
  <2> HIDE DEF map
  <2>6. at = FirstAt(entries, key)
    <3>1. Finds(FirstAt(entries, key), entries, key)
      BY <1>0, FirstAtFinds
    <3>2. CASE key \in DOMAIN map
      <4>1. map[key] \in DOMAIN entries
        BY <2>2, <2>5, <3>2 DEF Covers
      <4>2. CASE entries[map[key]].canon = key
        <5>1. FirstAt(entries, key) \in DOMAIN entries /\ entries[FirstAt(entries, key)].canon = key
          BY <3>1, <4>1, <4>2 DEF Finds
        <5>2. map[key] = FirstAt(entries, key)
          BY <4>1, <4>2, <5>1 DEF IndexState, Distinct
        <5>3. QED
          BY <3>2, <4>2, <5>2
      <4>3. QED
        BY <3>2, <4>2
    <3>3. CASE key \notin DOMAIN map
      <4>1. \A i \in DOMAIN entries : entries[i].canon # key
        BY <2>5, <3>3 DEF Covers
      <4>2. FirstAt(entries, key) = 0
        BY <3>1, <4>1 DEF Finds
      <4>3. QED
        BY <3>3, <4>2
    <3>4. QED
      BY <3>2, <3>3
  <2> HIDE DEF at
  <2>7. QED
    BY <1>0, <1>2, <2>1, <2>5, <2>6 DEF SetLooked
<1>3. QED
  BY <1>1, <1>2

LEMMA SetKept ==
  ASSUME StaysLarge, IndexState("set", entries, cache, stamp), NEW found, NEW key,
         SetLooked(found, entries, cache, stamp, key)
  PROVE  IndexState("set", entries, found.cache, found.stamp)
<1>1. entries \in Seq(Spellings) /\ Len(entries) \in Nat /\ IndexMin \in Nat \ {0}
  BY IndexAssumption DEF IndexState, StaysLarge
<1>2. CASE Len(entries) < IndexMin
  <2>1. found.cache = cache /\ found.stamp = stamp
    BY <1>2 DEF SetLooked
  <2>2. QED
    BY <2>1
<1>3. CASE ~(Len(entries) < IndexMin)
  <2>1. found.stamp.length = Len(entries) /\ Covers(found.cache, Len(entries), entries)
    BY <1>1, <1>3 DEF SetLooked, Mark
  <2>2. SetOk(entries, found.cache, found.stamp)
    BY <1>1, <2>1 DEF SetOk
  <2>3. QED
    BY <1>1, <1>3, <2>2 DEF IndexState
<1>4. QED
  BY <1>2, <1>3

\* What Probe answers of a set, and what it leaves of the index.
LEMMA SetProbes ==
  ASSUME StaysLarge, IndexInv, kind = "set", NEW k \in Keys, k.canon # Blank
  PROVE  /\ SetLooked(Probe(k), entries, cache, stamp, k.canon)
         /\ IndexState("set", entries, Probe(k).cache, Probe(k).stamp)
<1>0. /\ IndexState("set", entries, cache, stamp) /\ entries \in Seq(Spellings)
      /\ Len(entries) \in Nat /\ IndexMin \in Nat \ {0}
  BY IndexAssumption DEF IndexInv, IndexState, StaysLarge
<1>1. SetLooked(Probe(k), entries, cache, stamp, k.canon)
  <2>1. CASE Len(entries) >= IndexMin
    <3>1. Probe(k) = Lookup(k.canon)
      BY <2>1 DEF Probe
    <3>2. QED
      BY <3>1, SetLooks DEF IndexInv
  <2>2. CASE ~(Len(entries) >= IndexMin)
    <3>1. Probe(k) = [Untouched EXCEPT !.at = FirstAt(entries, k.canon)]
      BY <2>2 DEF Probe
    <3>2. /\ Probe(k).at = FirstAt(entries, k.canon) /\ Probe(k).cache = cache
          /\ Probe(k).stamp = stamp
      BY <3>1 DEF Untouched
    <3>3. QED
      BY <2>2, <3>2 DEF SetLooked
  <2>3. QED
    BY <2>1, <2>2
<1>2. QED
  BY <1>0, <1>1, SetKept

LEMMA HasStep ==
  ASSUME StaysLarge, IndexInv, kind = "set", NEW k \in Keys, Has(k)
  PROVE  IndexInv'
<1>1. cache' = Probe(k).cache /\ stamp' = Probe(k).stamp /\ entries' = entries /\ kind' = "set"
  BY DEF Has, Index
<1>2. CASE k.canon = Blank
  <2>1. Probe(k).cache = cache /\ Probe(k).stamp = stamp
    BY <1>2 DEF Probe, Untouched
  <2>2. QED
    BY <1>1, <2>1 DEF IndexInv
<1>3. CASE k.canon # Blank
  <2>1. IndexState("set", entries, Probe(k).cache, Probe(k).stamp)
    BY <1>3, SetProbes
  <2>2. QED
    BY <1>1, <2>1 DEF IndexInv
<1>4. QED
  BY <1>2, <1>3

LEMMA DistinctPush ==
  ASSUME NEW e \in Seq(Spellings), Distinct(e), NEW k \in Spellings,
         k.canon # Blank => \A i \in DOMAIN e : e[i].canon # k.canon
  PROVE  Distinct(Append(e, k))
<1> DEFINE g == Append(e, k)
<1>1. /\ Len(e) \in Nat /\ DOMAIN g = 1 .. Len(e) + 1 /\ DOMAIN e = 1 .. Len(e) /\ g[Len(e) + 1] = k
      /\ \A i \in 1 .. Len(e) : g[i] = e[i]
  BY AppendProperties
<1>2. \A i \in DOMAIN g : (i \in DOMAIN e /\ g[i] = e[i]) \/ (i = Len(e) + 1 /\ g[i] = k)
  BY <1>1
<1> HIDE DEF g
<1>3. Distinct(g)
  BY <1>2 DEF Distinct
<1>4. QED
  BY <1>3 DEF g

LEMMA BlankElementPushed ==
  ASSUME StaysLarge, IndexState("set", entries, cache, stamp), NEW k \in Spellings, k.canon = Blank
  PROVE  IndexState("set", Append(entries, k), cache, stamp)
<1> DEFINE e == Append(entries, k)
<1>1. /\ entries \in Seq(Spellings) /\ Len(entries) \in Nat /\ IndexMin \in Nat \ {0}
      /\ e \in Seq(Spellings) /\ Len(e) = Len(entries) + 1
      /\ DOMAIN e = 1 .. Len(entries) + 1 /\ DOMAIN entries = 1 .. Len(entries)
      /\ e[Len(entries) + 1] = k /\ \A i \in 1 .. Len(entries) : e[i] = entries[i]
  BY IndexAssumption, AppendProperties DEF IndexState, StaysLarge
<1>2. Distinct(e)
  BY <1>1, DistinctPush DEF IndexState
<1>3. \A i \in DOMAIN e : (i \in DOMAIN entries /\ e[i] = entries[i]) \/ e[i] = k
  BY <1>1
<1> HIDE DEF e
<1>4. \A n : Covers(cache, n, entries) => Covers(cache, n, e)
  BY <1>3 DEF Covers
<1>5. SetOk(e, cache, stamp)
  <2>1. CASE stamp = Empty
    BY <2>1 DEF SetOk
  <2>2. CASE stamp # Empty
    <3>1. stamp.length \in Nat /\ (stamp.length < Len(entries) \/ Covers(cache, stamp.length, entries))
      BY <2>2 DEF IndexState, SetOk
    <3>2. stamp.length < Len(e) \/ Covers(cache, stamp.length, e)
      BY <1>1, <1>4, <3>1
    <3>3. QED
      BY <3>1, <3>2 DEF SetOk
  <2>3. QED
    BY <2>1, <2>2
<1>6. Len(e) < IndexMin => stamp = Empty /\ cache = Nothing
  BY <1>1 DEF IndexState
<1>7. IndexState("set", e, cache, stamp)
  BY <1>1, <1>2, <1>5, <1>6 DEF IndexState
<1>8. QED
  BY <1>7 DEF e

LEMMA ElementPushed ==
  ASSUME StaysLarge, IndexState("set", entries, cache, stamp), NEW k \in Spellings, k.canon # Blank,
         NEW found, SetLooked(found, entries, cache, stamp, k.canon), found.at = 0
  PROVE  IndexState("set", Append(entries, k), Recorded(found, k.canon).cache,
                    Recorded(found, k.canon).stamp)
<1> DEFINE e == Append(entries, k)
           r == Recorded(found, k.canon)
<1>1. /\ entries \in Seq(Spellings) /\ Len(entries) \in Nat /\ IndexMin \in Nat \ {0}
      /\ e \in Seq(Spellings) /\ Len(e) = Len(entries) + 1
      /\ DOMAIN e = 1 .. Len(entries) + 1 /\ DOMAIN entries = 1 .. Len(entries)
      /\ e[Len(entries) + 1] = k /\ \A i \in 1 .. Len(entries) : e[i] = entries[i]
  BY IndexAssumption, AppendProperties DEF IndexState, StaysLarge
<1>2. Distinct(e)
  <2>1. Finds(found.at, entries, k.canon)
    BY <1>1, FirstAtFinds DEF SetLooked
  <2>2. \A i \in DOMAIN entries : entries[i].canon # k.canon
    BY <1>1, <2>1 DEF Finds
  <2>3. QED
    BY <1>1, <2>2, DistinctPush DEF IndexState
<1>3. CASE Len(entries) < IndexMin
  <2>1. found.cache = Nothing /\ found.stamp = Empty
    BY <1>3 DEF SetLooked, IndexState
  <2>2. r = [cache |-> found.cache, stamp |-> found.stamp]
    BY <2>1 DEF Recorded
  <2>3. r.cache = Nothing /\ r.stamp = Empty
    BY <2>1, <2>2
  <2> HIDE DEF e, r
  <2>4. IndexState("set", e, r.cache, r.stamp)
    BY <1>1, <1>2, <2>3 DEF IndexState, SetOk
  <2>5. QED
    BY <2>4 DEF e, r
<1>4. CASE ~(Len(entries) < IndexMin)
  <2>1. found.stamp.length = Len(entries) /\ Covers(found.cache, Len(entries), entries)
    BY <1>1, <1>4 DEF SetLooked, Mark
  <2>2. CASE found.cache = Nothing
    <3>1. r = [cache |-> found.cache, stamp |-> found.stamp]
      BY <2>2 DEF Recorded
    <3>2. r.stamp.length = Len(entries)
      BY <2>1, <3>1
    <3> HIDE DEF e, r
    <3>3. SetOk(e, r.cache, r.stamp)
      BY <1>1, <3>2 DEF SetOk
    <3>4. IndexState("set", e, r.cache, r.stamp)
      BY <1>1, <1>2, <1>4, <3>3 DEF IndexState
    <3>5. QED
      BY <3>4 DEF e, r
  <2>3. CASE found.cache # Nothing
    <3>1. r = [cache |-> [c \in DOMAIN found.cache \cup {k.canon} |->
                            IF c \in DOMAIN found.cache THEN found.cache[c] ELSE Len(entries) + 1],
               stamp |-> [length |-> Len(entries) + 1, last |-> k.canon]]
      BY <2>1, <2>3 DEF Recorded
    <3>2. /\ r.stamp.length = Len(entries) + 1
          /\ r.cache = [c \in DOMAIN found.cache \cup {k.canon} |->
                          IF c \in DOMAIN found.cache THEN found.cache[c] ELSE Len(entries) + 1]
      BY <3>1
    <3> HIDE DEF r
    <3>3. DOMAIN r.cache = DOMAIN found.cache \cup {k.canon}
      BY <3>2
    <3>4. ASSUME NEW x \in DOMAIN r.cache PROVE r.cache[x] \in 1 .. Len(entries) + 1
      <4>1. x \in DOMAIN found.cache => found.cache[x] \in 1 .. Len(entries)
        BY <2>1 DEF Covers
      <4>2. r.cache[x] = IF x \in DOMAIN found.cache THEN found.cache[x] ELSE Len(entries) + 1
        BY <3>2, <3>4
      <4>3. QED
        BY <1>1, <4>1, <4>2
    <3>5. ASSUME NEW i \in DOMAIN e, e[i].canon # Blank PROVE e[i].canon \in DOMAIN r.cache
      <4>1. (i \in DOMAIN entries /\ e[i] = entries[i]) \/ e[i] = k
        BY <1>1
      <4> HIDE DEF e
      <4>2. QED
        BY <2>1, <3>3, <3>5, <4>1 DEF Covers
    <3> HIDE DEF e
    <3>6. Covers(r.cache, Len(entries) + 1, e)
      BY <3>4, <3>5 DEF Covers
    <3>7. SetOk(e, r.cache, r.stamp)
      BY <1>1, <3>2, <3>6 DEF SetOk
    <3>8. IndexState("set", e, r.cache, r.stamp)
      BY <1>1, <1>2, <1>4, <3>7 DEF IndexState
    <3>9. QED
      BY <3>8 DEF e, r
  <2>4. QED
    BY <2>2, <2>3
<1>5. QED
  BY <1>3, <1>4

LEMMA AddElementStep ==
  ASSUME StaysLarge, IndexInv, kind = "set", NEW k \in Keys, AddElement(k)
  PROVE  IndexInv'
<1>1. IndexState("set", entries, cache, stamp) /\ kind' = "set" /\ k \in Spellings
  BY TextIsSpelling DEF IndexInv, AddElement
<1>2. CASE Probe(k).at # 0
  <2>1. Has(k)
    BY <1>2 DEF AddElement, Has
  <2>2. QED
    BY <2>1, HasStep
<1>3. CASE Probe(k).at = 0 /\ k.canon = Blank
  <2>1. cache' = cache /\ stamp' = stamp /\ entries' = Append(entries, k)
    BY <1>3 DEF AddElement, PushEntry, Index, Untouched
  <2>2. QED
    BY <1>1, <1>3, <2>1, BlankElementPushed DEF IndexInv
<1>4. CASE Probe(k).at = 0 /\ k.canon # Blank
  <2>1. /\ cache' = Recorded(Probe(k), k.canon).cache /\ stamp' = Recorded(Probe(k), k.canon).stamp
        /\ entries' = Append(entries, k)
    BY <1>4 DEF AddElement, PushEntry, Index
  <2>2. SetLooked(Probe(k), entries, cache, stamp, k.canon)
    BY <1>4, SetProbes
  <2>3. IndexState("set", Append(entries, k), Recorded(Probe(k), k.canon).cache,
                   Recorded(Probe(k), k.canon).stamp)
    BY <1>1, <1>4, <2>2, ElementPushed
  <2>4. QED
    BY <1>1, <2>1, <2>3 DEF IndexInv
<1>5. QED
  BY <1>2, <1>3, <1>4

LEMMA DeleteStep ==
  ASSUME StaysLarge, IndexInv, kind = "set", NEW k \in Keys, Delete(k)
  PROVE  IndexInv'
<1>1. /\ IndexState("set", entries, cache, stamp) /\ kind' = "set" /\ entries \in Seq(Spellings)
      /\ Len(entries) \in Nat /\ IndexMin \in Nat \ {0} /\ Floor \in Nat
  BY IndexAssumption DEF IndexInv, IndexState, Delete, StaysLarge
<1>2. CASE Probe(k).at = 0
  <2>1. Has(k)
    BY <1>2 DEF Delete, Has
  <2>2. QED
    BY <2>1, HasStep
<1>3. CASE Probe(k).at # 0
  <2>1. k.canon # Blank
    <3>1. k.canon = Blank => Probe(k) = [Untouched EXCEPT !.at = 0]
      BY DEF Probe
    <3>2. k.canon = Blank => Probe(k).at = 0
      BY <3>1 DEF Untouched
    <3>3. QED
      BY <1>3, <3>2
  <2>2. SetLooked(Probe(k), entries, cache, stamp, k.canon)
    BY <2>1, SetProbes
  <2>3. PICK i : i = Probe(k).at
    OBVIOUS
  <2>4. i \in 1 .. Len(entries)
    <3>1. Finds(i, entries, k.canon)
      BY <1>1, <2>2, <2>3, FirstAtFinds DEF SetLooked
    <3>2. DOMAIN entries = 1 .. Len(entries)
      BY <1>1
    <3>3. QED
      BY <1>3, <2>3, <3>1, <3>2 DEF Finds
  <2> DEFINE e == RemoveAt(entries, i)
  <2>5. /\ e \in Seq(Spellings) /\ Len(e) = Len(entries) - 1
        /\ \A j \in 1 .. Len(entries) - 1 : e[j] = IF j < i THEN entries[j] ELSE entries[j + 1]
    <3> DEFINE a == SubSeq(entries, 1, i - 1)
               b == SubSeq(entries, i + 1, Len(entries))
               n == Len(entries)
    <3>1. /\ \A j \in 1 .. i - 1 : entries[j] \in Spellings
          /\ \A j \in i + 1 .. n : entries[j] \in Spellings
      BY <1>1, <2>4
    <3>2. a \in Seq(Spellings) /\ Len(a) = i - 1 /\ \A j \in 1 .. i - 1 : a[j] = entries[j]
      BY <1>1, <2>4, <3>1, SubSeqProperties
    <3>3. b \in Seq(Spellings) /\ Len(b) = n - i /\ \A j \in 1 .. n - i : b[j] = entries[i + j]
      BY <1>1, <2>4, <3>1, SubSeqProperties
    <3>4. e = a \o b
      BY DEF RemoveAt
    <3> HIDE DEF a, b, e
    <3>5. /\ e \in Seq(Spellings) /\ Len(e) = n - 1
          /\ \A j \in 1 .. n - 1 : e[j] = IF j <= i - 1 THEN a[j] ELSE b[j - (i - 1)]
      <4>1. /\ e \in Seq(Spellings) /\ Len(e) = Len(a) + Len(b)
            /\ \A j \in 1 .. Len(a) + Len(b) : e[j] = IF j <= Len(a) THEN a[j] ELSE b[j - Len(a)]
        BY <3>2, <3>3, <3>4, ConcatProperties
      <4>2. Len(a) = i - 1 /\ Len(a) + Len(b) = n - 1
        BY <1>1, <2>4, <3>2, <3>3
      <4>3. QED
        BY <4>1, <4>2
    <3>6. ASSUME NEW j \in 1 .. n - 1 PROVE e[j] = IF j < i THEN entries[j] ELSE entries[j + 1]
      <4>1. CASE j < i
        <5>1. j \in 1 .. i - 1 /\ j <= i - 1
          BY <2>4, <4>1
        <5>2. QED
          BY <3>2, <3>5, <4>1, <5>1
      <4>2. CASE ~(j < i)
        <5>1. ~(j <= i - 1) /\ j - (i - 1) \in 1 .. n - i /\ i + (j - (i - 1)) = j + 1
          BY <1>1, <2>4, <4>2
        <5>2. QED
          BY <3>3, <3>5, <4>2, <5>1
      <4>3. QED
        BY <4>1, <4>2
    <3>7. QED
      BY <3>5, <3>6
  <2>6. entries' = e /\ cache' = Probe(k).cache /\ stamp' = Probe(k).stamp /\ Len(entries) > Floor
    BY <1>3, <2>3 DEF Delete, Index
  <2>7. ~(Len(e) < IndexMin) /\ Len(entries) >= IndexMin
    BY <1>1, <2>5, <2>6 DEF StaysLarge
  <2>8. /\ Probe(k).stamp.length = Len(entries)
        /\ Covers(Probe(k).cache, Len(entries), entries)
    BY <2>2, <2>7 DEF SetLooked, Mark
  <2> HIDE DEF e
  <2>9. DOMAIN e = 1 .. Len(entries) - 1 /\ DOMAIN entries = 1 .. Len(entries)
    BY <1>1, <2>5
  <2> DEFINE from(j) == IF j < i THEN j ELSE j + 1
  <2>10. \A j \in DOMAIN e : from(j) \in DOMAIN entries /\ e[j] = entries[from(j)]
    BY <1>1, <2>4, <2>5, <2>9
  <2>11. \A j, l \in DOMAIN e : j # l => from(j) # from(l)
    BY <1>1, <2>4, <2>9
  <2> HIDE DEF from
  <2>12. Distinct(e)
    <3>1. Distinct(entries)
      BY <1>1 DEF IndexState
    <3>2. QED
      BY <2>10, <2>11, <3>1 DEF Distinct
  <2>13. Covers(Probe(k).cache, Len(entries), e)
    BY <2>8, <2>10 DEF Covers
  <2>14. SetOk(e, Probe(k).cache, Probe(k).stamp)
    BY <1>1, <2>8, <2>13 DEF SetOk
  <2>15. IndexState("set", e, Probe(k).cache, Probe(k).stamp)
    BY <2>5, <2>7, <2>12, <2>14 DEF IndexState
  <2>16. QED
    BY <1>1, <2>6, <2>15 DEF IndexInv
<1>4. QED
  BY <1>2, <1>3

\* A container without an index.
LEMMA Unindexed ==
  ASSUME NEW c \in {"dict", "set"}, NEW e \in Seq(Spellings), c = "set" => Distinct(e)
  PROVE  IndexState(c, e, Nothing, Empty)
  BY DEF IndexState, DictOk, SetOk

LEMMA UnionStep ==
  ASSUME StaysLarge, IndexInv, kind = "set", NEW k \in Keys, Union(k)
  PROVE  IndexInv'
<1>1. /\ kind' = "set" /\ entries \in Seq(Spellings) /\ Distinct(entries) /\ k \in Spellings
      /\ cache' = Nothing /\ stamp' = Empty
  BY TextIsSpelling DEF IndexInv, IndexState, Union
<1>2. entries' \in Seq(Spellings) /\ Distinct(entries')
  <2>1. CASE k.canon # Blank /\ \E i \in DOMAIN entries : entries[i].canon = k.canon
    BY <1>1, <2>1 DEF Union
  <2>2. CASE ~(k.canon # Blank /\ \E i \in DOMAIN entries : entries[i].canon = k.canon)
    <3>1. entries' = Append(entries, k)
      BY <2>2 DEF Union
    <3>2. Append(entries, k) \in Seq(Spellings)
      BY <1>1
    <3>3. Distinct(Append(entries, k))
      BY <1>1, <2>2, DistinctPush
    <3>4. QED
      BY <3>1, <3>2, <3>3
  <2>3. QED
    BY <2>1, <2>2
<1>3. QED
  BY <1>1, <1>2, Unindexed DEF IndexInv

\* What an intersection leaves: one element at most.
LEMMA IntersectionStep ==
  ASSUME StaysLarge, IndexInv, kind = "set", NEW k \in Keys, Intersection(k)
  PROVE  IndexInv'
<1>0. /\ kind' = "set" /\ entries \in Seq(Spellings) /\ Distinct(entries)
      /\ cache' = Nothing /\ stamp' = Empty
  BY DEF IndexInv, IndexState, Intersection
<1>1. PICK f : f = [i \in 0 .. Len(entries) |->
                     IF i = 0 THEN <<>>
                     ELSE IF entries[i] \in Alike(k) THEN Append(f[i - 1], entries[i]) ELSE f[i - 1]]
  BY <1>0, KeepsIsDefined, ZenonT(30)
<1>2. \A i \in 0 .. Len(entries) : i # 0 => (entries[i] \in Alike(k) <=> entries[i].canon # Blank /\ entries[i].canon = k.canon)
  BY <1>0 DEF Alike
<1> DEFINE kept == CHOOSE g : g = [i \in 0 .. Len(entries) |->
                     IF i = 0 THEN <<>>
                     ELSE IF entries[i].canon # Blank /\ entries[i].canon = k.canon THEN Append(g[i - 1], entries[i]) ELSE g[i - 1]]
<1>3. f = [i \in 0 .. Len(entries) |->
            IF i = 0 THEN <<>>
            ELSE IF entries[i].canon # Blank /\ entries[i].canon = k.canon THEN Append(f[i - 1], entries[i]) ELSE f[i - 1]]
  BY <1>1, <1>2
<1>4. kept = [i \in 0 .. Len(entries) |->
               IF i = 0 THEN <<>>
               ELSE IF entries[i].canon # Blank /\ entries[i].canon = k.canon THEN Append(kept[i - 1], entries[i]) ELSE kept[i - 1]]
  BY <1>3
<1>5. Retain(entries, LAMBDA l : l.canon # Blank /\ l.canon = k.canon) = kept[Len(entries)]
  BY DEF Retain
<1> HIDE DEF kept
<1>6. /\ kept[0] = <<>>
      /\ \A i \in 1 .. Len(entries) :
           kept[i] = IF entries[i] \in Alike(k) THEN Append(kept[i - 1], entries[i]) ELSE kept[i - 1]
  <2>1. Len(entries) \in Nat /\ 0 \in 0 .. Len(entries)
    OBVIOUS
  <2>2. \A i \in 1 .. Len(entries) : i \in 0 .. Len(entries) /\ i # 0
    OBVIOUS
  <2>3. QED
    BY <1>2, <1>4, <2>1, <2>2
<1>7. Keeps(kept, entries, Alike(k))
  BY <1>6 DEF Keeps
<1> DEFINE e == kept[Len(entries)]
<1>8. entries' = e
  BY <1>5 DEF Intersection
<1>9. e \in Seq(Spellings) /\ KeptOf(e, entries, Alike(k), Len(entries))
  <2>1. Len(entries) \in 0 .. Len(entries)
    BY <1>0
  <2>2. QED
    BY <1>0, <1>7, <2>1, KeptSoFar
<1> HIDE DEF e
<1>10. ASSUME NEW i \in 1 .. Len(e), NEW j \in 1 .. Len(e), i < j PROVE FALSE
  <2>1. PICK p \in 1 .. Len(entries), q \in 1 .. Len(entries) : p < q /\ e[i] = entries[p] /\ e[j] = entries[q]
    BY <1>9, <1>10 DEF KeptOf
  <2>2. e[i] \in Alike(k) /\ e[j] \in Alike(k)
    BY <1>9 DEF KeptOf
  <2>3. p # q /\ p \in DOMAIN entries /\ q \in DOMAIN entries
    BY <1>0, <2>1
  <2>4. QED
    BY <1>0, <2>1, <2>2, <2>3 DEF Distinct, Alike
<1>11. Distinct(e)
  <2>1. DOMAIN e = 1 .. Len(e) /\ Len(e) \in Nat
    BY <1>9
  <2>2. \A i, j \in DOMAIN e : i = j
    BY <1>10, <2>1
  <2>3. QED
    BY <2>2 DEF Distinct
<1>12. QED
  BY <1>0, <1>8, <1>9, <1>11, Unindexed DEF IndexInv

-----------------------------------------------------------------------------
LEMMA IndexStep ==
  ASSUME OneSpelling, StaysLarge, IndexInv, [IndexNext]_indexVars
  PROVE  IndexInv'
<1>1. CASE UNCHANGED indexVars
  BY <1>1 DEF indexVars, IndexInv
<1>2. CASE IndexNext
  <2>1. CASE kind = "dict" /\ \E k \in Keys : Read(k) \/ Write(k) \/ Add(k) \/ Drop(k)
    BY <2>1, ReadStep, WriteStep, AddStep, DropStep
  <2>2. CASE kind = "set" /\ \E k \in Keys :
               Has(k) \/ AddElement(k) \/ Delete(k) \/ Union(k) \/ Intersection(k)
    BY <2>2, HasStep, AddElementStep, DeleteStep, UnionStep, IntersectionStep
  <2>3. CASE Clear
    <3>1. Floor = 0
      BY <2>3 DEF Clear
    <3>2. QED
      BY <3>1, IndexAssumption DEF StaysLarge
  <2>4. CASE Copy
    <3>1. kind' = kind /\ entries' = entries /\ cache' = Nothing /\ stamp' = Empty
      BY <2>4 DEF Copy
    <3>2. kind \in {"dict", "set"} /\ entries \in Seq(Spellings) /\ (kind = "set" => Distinct(entries))
      BY DEF IndexInv, IndexState
    <3>3. QED
      BY <3>1, <3>2, Unindexed DEF IndexInv
  <2>5. QED
    BY <1>2, <2>1, <2>2, <2>3, <2>4 DEF IndexNext
<1>3. QED
  BY <1>1, <1>2

LEMMA IndexStart == IndexInit => IndexInv
<1> SUFFICES ASSUME IndexInit PROVE IndexInv
  OBVIOUS
<1>1. kind \in {"dict", "set"} /\ cache = Nothing /\ stamp = Empty
  BY DEF IndexInit
<1>2. PICK s \in BoundedSeq(Keys, IndexMin) :
        /\ kind = "set" => \A i, j \in DOMAIN s : i # j /\ s[i].canon = s[j].canon => s[i].canon = Blank
        /\ entries = s
  BY DEF IndexInit
<1>3. entries \in Seq(Spellings)
  <2>1. s \in Seq(Keys)
    BY <1>2, IndexAssumption DEF BoundedSeq, SeqOf
  <2>2. \A i \in 1 .. Len(s) : s[i] \in Spellings
    BY <2>1, TextIsSpelling
  <2>3. QED
    BY <1>2, <2>1, <2>2
<1>4. kind = "set" => Distinct(entries)
  BY <1>2 DEF Distinct
<1>5. QED
  BY <1>1, <1>3, <1>4, Unindexed DEF IndexInv

LEMMA IndexAnswers ==
  ASSUME OneSpelling, StaysLarge, IndexInv
  PROVE  LookupIsFindFirst
<1>1. NoElementTwice
  BY DEF IndexInv, IndexState, Distinct, NoElementTwice
<1>2. ASSUME NEW key \in Probes, kind = "dict" \/ key # Blank
      PROVE  Lookup(key).at = FirstAt(entries, key)
  <2>1. CASE kind = "dict"
    <3>1. Looked(Lookup(key), entries, cache, stamp, key)
      BY <2>1, DictLooks DEF IndexInv
    <3>2. QED
      BY <3>1 DEF Looked
  <2>2. CASE kind = "set"
    <3>1. SetLooked(Lookup(key), entries, cache, stamp, key)
      BY <1>2, <2>2, SetLooks DEF IndexInv, IndexState
    <3>2. QED
      BY <3>1 DEF SetLooked
  <2>3. QED
    BY <2>1, <2>2 DEF IndexInv, IndexState
<1>3. QED
  BY <1>1, <1>2 DEF LookupIsFindFirst

\* A lookup through the index answers as the scan does, and no set holds an
\* element twice (region.rs), whatever the program does to the container.
THEOREM LookupsAgree ==
  ASSUME OneSpelling, StaysLarge PROVE IndexSpec => []LookupIsFindFirst
<1>1. IndexInit => IndexInv
  BY IndexStart
<1>2. IndexInv /\ [IndexNext]_indexVars => IndexInv'
  BY IndexStep
<1>3. IndexInv => LookupIsFindFirst
  BY IndexAnswers
<1>4. QED
  BY <1>1, <1>2, <1>3, PTL DEF IndexSpec

-----------------------------------------------------------------------------
(* Array methods.                                                            *)

CallFields == {"m", "elems", "i", "j", "work", "log", "yes", "touched"}
Walking == Searching \cup {"map", "reduce"}
\* The element the k-th callback of a walk was given.
Place(c, k) == IF c.m = "reduce" THEN k + 1 ELSE k

CallTyped(c) ==
  /\ DOMAIN c = CallFields /\ c.m \in Methods
  /\ c.elems \in Seq(Elements) /\ c.work \in Seq(Elements)
  /\ c.i \in Nat \ {0} /\ c.j \in Nat \ {0}
  /\ c.log \in Seq(Seq(Elements \cup Nat)) /\ c.yes \in SUBSET (1 .. Len(c.log))

\* A walk has called back once for each element it is past, in order, and what
\* would have decided it has not been said.
Heard(c) ==
  \A k \in 1 .. Len(c.log) : c.log[k][Len(c.log[k])] = c.elems[Place(c, k)]
Walked(c) ==
  /\ c.i = Place(c, Len(c.log) + 1) /\ c.i <= Len(c.elems) + 1
  /\ Heard(c)
  /\ c.m \in {"find", "findIndex", "some"} => c.yes = {}
  /\ c.m = "every" => c.yes = 1 .. Len(c.log)

\* Before comparison j of pass i, e in the order w so far: the last i - 1
\* elements are in place, and the greatest key of the first j is the j-th.
BubbledTo(e, w, i, j) ==
  /\ Rearranged(e, w)
  /\ i <= Len(e) + 1 /\ (j = 1 \/ j <= Len(e) - (i - 1))
  /\ \A k, l \in 1 .. Len(e) : k < l /\ l > Len(e) - (i - 1) => w[k].key <= w[l].key
  /\ \A k \in 1 .. Len(e) : k < j => w[k].key <= w[j].key
Bubbled(c) == BubbledTo(c.elems, c.work, c.i, c.j)

CallOk(c) ==
  /\ CallTyped(c)
  /\ c.m \in Walking => Walked(c)
  /\ c.m = "sort" => Bubbled(c)

ArrayInv ==
  /\ slot \in Seq(Elements)
  /\ arrayCall # <<>> => CallOk(arrayCall[1])
  /\ MethodsMeanWhatTheySay

\* What the property asks of a call that ends.
EndOk(c, how, result, left, after) ==
  /\ how = "throw" \/ c.m \notin Changing => after = left
  /\ how = "value" => Meaning(c, result, after)
  /\ c.m \in Walking => Heard(c)

-----------------------------------------------------------------------------
LEMMA MethodNames ==
  /\ Methods = {"filter", "find", "findIndex", "every", "some", "sort", "unshift", "remove", "map", "reduce"}
  /\ Walking = {"filter", "find", "findIndex", "every", "some", "map", "reduce"}
  /\ Changing = {"sort", "unshift", "remove"}
  BY DEF Methods, Walking, Changing, Searching

LEMMA InPlaceAtFirst ==
  ASSUME NEW s \in Seq(Elements)
  PROVE  Rearranged(s, s)
<1> DEFINE p == [k \in DOMAIN s |-> k]
<1>1. p \in [DOMAIN s -> DOMAIN s] /\ \A k \in DOMAIN p : p[k] = k
  OBVIOUS
<1>2. DOMAIN p = 1 .. Len(s) /\ DOMAIN s = 1 .. Len(s)
  OBVIOUS
<1> HIDE DEF p
<1>3. \A k, l \in DOMAIN p : k < l => p[k] # p[l] /\ p[k] < p[l]
  BY <1>1, <1>2
<1>4. QED
  BY <1>1, <1>3 DEF Rearranged

\* Two neighbours of different keys change places.
LEMMA SwapRearranges ==
  ASSUME NEW before \in Seq(Elements), NEW w \in Seq(Elements), Rearranged(before, w),
         NEW j \in Nat \ {0}, j < Len(before), w[j + 1].key < w[j].key
  PROVE  /\ Swap(w, j) \in Seq(Elements) /\ Rearranged(before, Swap(w, j))
         /\ Swap(w, j)[j] = w[j + 1] /\ Swap(w, j)[j + 1] = w[j]
         /\ \A k \in 1 .. Len(w) : k # j /\ k # j + 1 => Swap(w, j)[k] = w[k]
<1> DEFINE n == Len(before)
           v == Swap(w, j)
<1>1. n \in Nat /\ Len(w) = n /\ j \in 1 .. n /\ j + 1 \in 1 .. n /\ DOMAIN before = 1 .. n /\ DOMAIN w = 1 .. n
  BY DEF Rearranged
<1>2. /\ v \in Seq(Elements) /\ Len(v) = n /\ v[j] = w[j + 1] /\ v[j + 1] = w[j]
      /\ \A k \in 1 .. n : k # j /\ k # j + 1 => v[k] = w[k]
  BY <1>1 DEF Swap
<1> HIDE DEF v
<1>3. PICK p \in [1 .. n -> 1 .. n] :
        /\ \A k, l \in 1 .. n : k < l => p[k] # p[l] /\ (w[k].key = w[l].key => p[k] < p[l])
        /\ \A k \in 1 .. n : w[k] = before[p[k]]
  BY <1>1 DEF Rearranged
<1> DEFINE q == [k \in 1 .. n |-> IF k = j THEN p[j + 1] ELSE IF k = j + 1 THEN p[j] ELSE p[k]]
<1>4. /\ q \in [1 .. n -> 1 .. n] /\ q[j] = p[j + 1] /\ q[j + 1] = p[j]
      /\ \A k \in 1 .. n : k # j /\ k # j + 1 => q[k] = p[k]
  BY <1>1
<1> HIDE DEF q
<1>5. ASSUME NEW k \in 1 .. n PROVE v[k] = before[q[k]]
  <2>1. CASE k = j
    BY <1>1, <1>2, <1>3, <1>4, <2>1
  <2>2. CASE k = j + 1
    BY <1>1, <1>2, <1>3, <1>4, <2>2
  <2>3. CASE k # j /\ k # j + 1
    BY <1>2, <1>3, <1>4, <2>3
  <2>4. QED
    BY <2>1, <2>2, <2>3
<1>6. ASSUME NEW k \in 1 .. n, NEW l \in 1 .. n, k < l
      PROVE  q[k] # q[l] /\ (v[k].key = v[l].key => q[k] < q[l])
  <2>1. CASE k = j /\ l = j + 1
    <3>1. p[j] # p[j + 1]
      BY <1>1, <1>3
    <3>2. w[j + 1].key # w[j].key
      <4>1. w[j] \in Elements /\ w[j + 1] \in Elements
        BY <1>1
      <4>2. QED
        BY <4>1, ArrayAssumption
    <3>3. QED
      BY <1>2, <1>4, <2>1, <3>1, <3>2
  <2>2. CASE k = j /\ l # j + 1
    <3>1. j + 1 < l /\ j < l
      BY <1>1, <2>2, <1>6
    <3>2. p[j + 1] # p[l] /\ (w[j + 1].key = w[l].key => p[j + 1] < p[l])
      BY <1>1, <1>3, <3>1
    <3>3. QED
      BY <1>2, <1>4, <2>2, <3>1, <3>2
  <2>3. CASE k = j + 1
    <3>1. j < l /\ l # j /\ l # j + 1
      BY <1>1, <2>3, <1>6
    <3>2. p[j] # p[l] /\ (w[j].key = w[l].key => p[j] < p[l])
      BY <1>1, <1>3, <3>1
    <3>3. QED
      BY <1>2, <1>4, <2>3, <3>1, <3>2
  <2>4. CASE k # j /\ k # j + 1 /\ l = j
    <3>1. k < j + 1
      BY <1>1, <2>4, <1>6
    <3>2. p[k] # p[j + 1] /\ (w[k].key = w[j + 1].key => p[k] < p[j + 1])
      BY <1>1, <1>3, <3>1
    <3>3. QED
      BY <1>2, <1>4, <2>4, <3>2
  <2>5. CASE k # j /\ k # j + 1 /\ l = j + 1
    <3>1. k < j
      BY <1>1, <2>5, <1>6
    <3>2. p[k] # p[j] /\ (w[k].key = w[j].key => p[k] < p[j])
      BY <1>1, <1>3, <3>1
    <3>3. QED
      BY <1>2, <1>4, <2>5, <3>2
  <2>6. CASE k # j /\ k # j + 1 /\ l # j /\ l # j + 1
    BY <1>2, <1>3, <1>4, <1>6, <2>6
  <2>7. QED
    BY <2>1, <2>2, <2>3, <2>4, <2>5, <2>6
<1>7. Rearranged(before, v)
  <2>1. DOMAIN q = 1 .. n
    BY <1>4
  <2>2. q \in [DOMAIN before -> DOMAIN before]
    BY <1>1, <1>4
  <2>3. \A k, l \in DOMAIN q : k < l => q[k] # q[l] /\ (v[k].key = v[l].key => q[k] < q[l])
    BY <1>6, <2>1
  <2>4. \A k \in DOMAIN q : v[k] = before[q[k]]
    BY <1>5, <2>1
  <2>5. QED
    BY <1>2, <2>2, <2>3, <2>4, Zenon DEF Rearranged
<1>8. QED
  BY <1>1, <1>2, <1>7 DEF v

\* One comparison of the sort.
LEMMA ComparedTo ==
  ASSUME NEW e \in Seq(Elements), NEW w \in Seq(Elements), NEW i \in Nat \ {0}, NEW j \in Nat \ {0},
         BubbledTo(e, w, i, j), j < Len(e) - (i - 1),
         NEW v, v = IF w[j].key > w[j + 1].key THEN Swap(w, j) ELSE w
  PROVE  v \in Seq(Elements) /\ BubbledTo(e, v, i, j + 1)
<1> DEFINE n == Len(e)
<1>1. /\ n \in Nat /\ Len(w) = n /\ i <= n /\ j < n /\ j \in 1 .. n /\ j + 1 \in 1 .. n
      /\ j + 1 <= n - (i - 1)
  BY DEF BubbledTo, Rearranged
<1>2. \A k \in 1 .. n : w[k] \in Elements /\ w[k].key \in Int
  BY <1>1, ArrayAssumption
<1>3. /\ \A k, l \in 1 .. n : k < l /\ l > n - (i - 1) => w[k].key <= w[l].key
      /\ \A k \in 1 .. n : k < j => w[k].key <= w[j].key
      /\ Rearranged(e, w)
  BY DEF BubbledTo
<1>4. CASE w[j].key > w[j + 1].key
  <2>1. w[j + 1].key < w[j].key
    BY <1>1, <1>2, <1>4
  <2>2. /\ v \in Seq(Elements) /\ Rearranged(e, v) /\ v[j] = w[j + 1] /\ v[j + 1] = w[j]
        /\ \A k \in 1 .. n : k # j /\ k # j + 1 => v[k] = w[k]
    BY <1>1, <1>3, <1>4, <2>1, SwapRearranges
  <2>3. ASSUME NEW k \in 1 .. n, NEW l \in 1 .. n, k < l, l > n - (i - 1)
        PROVE  v[k].key <= v[l].key
    <3>1. l # j /\ l # j + 1 /\ j < l /\ j + 1 < l
      BY <1>1, <2>3
    <3>2. v[l] = w[l]
      BY <2>2, <3>1
    <3>3. \A x \in 1 .. n : x < l => w[x].key <= w[l].key
      BY <1>3, <2>3
    <3>4. QED
      BY <1>1, <2>2, <2>3, <3>1, <3>2, <3>3
  <2>4. ASSUME NEW k \in 1 .. n, k < j + 1 PROVE v[k].key <= v[j + 1].key
    <3>1. CASE k = j
      BY <1>1, <1>2, <2>1, <2>2, <3>1
    <3>2. CASE k # j
      <4>1. k < j /\ k # j + 1
        BY <1>1, <2>4, <3>2
      <4>2. v[k] = w[k] /\ w[k].key <= w[j].key
        BY <1>3, <2>2, <4>1
      <4>3. QED
        BY <2>2, <4>2
    <3>3. QED
      BY <3>1, <3>2
  <2>5. QED
    BY <1>1, <2>2, <2>3, <2>4 DEF BubbledTo
<1>5. CASE ~(w[j].key > w[j + 1].key)
  <2>1. v = w /\ w[j].key <= w[j + 1].key
    BY <1>1, <1>2, <1>5
  <2>2. ASSUME NEW k \in 1 .. n, k < j + 1 PROVE w[k].key <= w[j + 1].key
    <3>1. k = j \/ k < j
      BY <1>1, <2>2
    <3>2. w[k].key <= w[j].key
      BY <1>1, <1>2, <1>3, <3>1
    <3>3. w[k].key \in Int /\ w[j].key \in Int /\ w[j + 1].key \in Int
      BY <1>1, <1>2
    <3>4. QED
      BY <2>1, <3>2, <3>3
  <2>3. QED
    BY <1>1, <1>3, <2>1, <2>2 DEF BubbledTo
<1>6. QED
  BY <1>4, <1>5

\* A pass that is over has put one more element in place.
LEMMA TurnedTo ==
  ASSUME NEW e \in Seq(Elements), NEW w \in Seq(Elements), NEW i \in Nat \ {0}, NEW j \in Nat \ {0},
         BubbledTo(e, w, i, j), i <= Len(e), ~(j < Len(e) - (i - 1))
  PROVE  BubbledTo(e, w, i + 1, 1)
<1> DEFINE n == Len(e)
<1>1. n \in Nat /\ Len(w) = n /\ j = n - (i - 1) /\ j \in 1 .. n
  BY DEF BubbledTo, Rearranged
<1>2. /\ \A k, l \in 1 .. n : k < l /\ l > n - (i - 1) => w[k].key <= w[l].key
      /\ \A k \in 1 .. n : k < j => w[k].key <= w[j].key
      /\ Rearranged(e, w)
  BY DEF BubbledTo
<1>3. ASSUME NEW k \in 1 .. n, NEW l \in 1 .. n, k < l, l > n - (i + 1 - 1) PROVE w[k].key <= w[l].key
  <2>1. l = j \/ l > n - (i - 1)
    BY <1>1, <1>3
  <2>2. QED
    BY <1>2, <1>3, <2>1
<1>4. \A k \in 1 .. n : ~(k < 1)
  OBVIOUS
<1>5. i + 1 <= n + 1
  BY <1>1
<1>6. QED
  BY <1>2, <1>3, <1>4, <1>5 DEF BubbledTo

\* After the last pass the elements are sorted.
LEMMA SortedAtLast ==
  ASSUME NEW e \in Seq(Elements), NEW w \in Seq(Elements), NEW i \in Nat \ {0}, NEW j,
         BubbledTo(e, w, i, j), i > Len(e)
  PROVE  Sorted(e, w)
<1> DEFINE n == Len(e)
<1>1. n \in Nat /\ Len(w) = n /\ i = n + 1
  BY DEF BubbledTo, Rearranged
<1>2. \A k, l \in 1 .. n : k < l /\ l > n - (i - 1) => w[k].key <= w[l].key
  BY DEF BubbledTo
<1>3. ASSUME NEW k \in 1 .. Len(w) - 1 PROVE w[k].key <= w[k + 1].key
  <2>1. k \in 1 .. n /\ k + 1 \in 1 .. n /\ k < k + 1 /\ k + 1 > n - (i - 1)
    BY <1>1
  <2>2. QED
    BY <1>2, <2>1
<1>4. QED
  BY <1>3 DEF Sorted, BubbledTo

-----------------------------------------------------------------------------
(* A call.                                                                    *)

\* The call d after the next callback of c has answered.
After(c, answer, d) ==
  /\ DOMAIN d = CallFields /\ d.m = c.m /\ d.elems = c.elems
  /\ d.log = Append(c.log, Given(c))
  /\ d.yes = IF answer THEN c.yes \cup {Len(c.log) + 1} ELSE c.yes
  /\ c.m = "sort" => /\ d.work = IF answer THEN Swap(c.work, c.j) ELSE c.work
                     /\ d.i = c.i /\ d.j = c.j + 1
  /\ c.m # "sort" => d.work = c.work /\ d.i = c.i + 1 /\ d.j = c.j

LEMMA LoggedIs ==
  ASSUME NEW c, CallTyped(c), NEW answer \in BOOLEAN
  PROVE  After(c, answer, Logged(c, answer))
<1>1. CASE c.m = "sort"
  BY <1>1 DEF CallTyped, CallFields, Logged, After
<1>2. CASE c.m # "sort"
  BY <1>2 DEF CallTyped, CallFields, Logged, After
<1>3. QED
  BY <1>1, <1>2

LEMMA GivenIs ==
  ASSUME NEW c, CallTyped(c), More(c), c.m \in Walking => Walked(c), c.m = "sort" => Bubbled(c)
  PROVE  /\ Given(c) \in Seq(Elements \cup Nat)
         /\ c.m \in Walking => Given(c)[Len(Given(c))] = c.elems[Place(c, Len(c.log) + 1)]
         /\ c.m = "sort" => c.j < Len(c.elems) - (c.i - 1) /\ c.i <= Len(c.elems)
         /\ c.m \in Walking => c.i <= Len(c.elems)
<1>1. CASE c.m = "sort"
  <2>1. c.j < Len(c.elems) - (c.i - 1) /\ c.i <= Len(c.elems)
    BY <1>1 DEF More, Sorting
  <2>2. Len(c.work) = Len(c.elems) /\ c.j \in 1 .. Len(c.work) /\ c.j + 1 \in 1 .. Len(c.work)
    BY <1>1, <2>1 DEF Bubbled, BubbledTo, Rearranged, CallTyped
  <2>3. c.work[c.j] \in Elements /\ c.work[c.j + 1] \in Elements
    <3>1. c.work \in Seq(Elements)
      BY DEF CallTyped
    <3>2. QED
      BY <2>2, <3>1, ElementOfSeq
  <2>4. Given(c) = <<c.work[c.j], c.work[c.j + 1]>>
    BY <1>1 DEF Given
  <2>5. QED
    BY <1>1, <2>1, <2>3, <2>4, MethodNames
<1>2. CASE c.m \in {"unshift", "remove"}
  <2>1. Given(c) = <<>>
    BY <1>2 DEF Given
  <2>2. QED
    BY <1>2, <2>1, MethodNames
<1>3. CASE c.m \in Walking
  <2>1. c.i <= Len(c.elems) /\ c.i \in 1 .. Len(c.elems)
    BY <1>3, MethodNames DEF More, CallTyped
  <2>2. c.elems[c.i] \in Elements
    BY <2>1 DEF CallTyped
  <2>3. Given(c) = IF c.m = "reduce" THEN <<Len(c.log), c.elems[c.i]>> ELSE <<c.elems[c.i]>>
    BY <1>3, MethodNames DEF Given
  <2>4. Len(c.log) \in Nat /\ c.i = Place(c, Len(c.log) + 1)
    BY <1>3 DEF CallTyped, Walked
  <2>5. Given(c) \in Seq(Elements \cup Nat) /\ Given(c)[Len(Given(c))] = c.elems[c.i]
    <3>1. CASE c.m = "reduce"
      BY <2>2, <2>3, <2>4, <3>1
    <3>2. CASE c.m # "reduce"
      BY <2>2, <2>3, <3>2
    <3>3. QED
      BY <3>1, <3>2
  <2>6. c.m # "sort"
    BY <1>3, MethodNames
  <2>7. QED
    BY <2>1, <2>4, <2>5, <2>6
<1>4. QED
  BY <1>1, <1>2, <1>3, MethodNames DEF CallTyped

\* A callback that decides nothing leaves the call as it should be.
LEMMA CallbackKeeps ==
  ASSUME NEW c, CallOk(c), More(c), NEW answer \in BOOLEAN, answer \in Answers(c),
         NEW d, d = Logged(c, answer)
  PROVE  /\ CallTyped(d) /\ d.m = c.m /\ d.elems = c.elems
         /\ d.m \in Walking => /\ Heard(d) /\ d.i = Place(d, Len(d.log) + 1) /\ d.i <= Len(d.elems) + 1
                               /\ Len(d.log) = Len(c.log) + 1 /\ Len(c.log) \in Nat
         /\ ~Decides(d.m, answer) => CallOk(d)
<1>1. CallTyped(c) /\ (c.m \in Walking => Walked(c)) /\ (c.m = "sort" => Bubbled(c))
  BY DEF CallOk
<1>a. After(c, answer, d)
  BY <1>1, LoggedIs, Zenon
<1> DEFINE g == Given(c)
<1>2. /\ DOMAIN d = CallFields /\ d.m = c.m /\ d.elems = c.elems /\ d.log = Append(c.log, g)
      /\ d.yes = IF answer THEN c.yes \cup {Len(c.log) + 1} ELSE c.yes
      /\ c.m = "sort" => /\ d.work = IF answer THEN Swap(c.work, c.j) ELSE c.work
                         /\ d.i = c.i /\ d.j = c.j + 1
      /\ c.m # "sort" => d.work = c.work /\ d.i = c.i + 1 /\ d.j = c.j
  BY <1>a, Zenon DEF After
<1>3. /\ g \in Seq(Elements \cup Nat)
      /\ c.m \in Walking => g[Len(g)] = c.elems[Place(c, Len(c.log) + 1)] /\ c.i <= Len(c.elems)
      /\ c.m = "sort" => c.j < Len(c.elems) - (c.i - 1)
  BY <1>1, GivenIs
<1> HIDE DEF g
<1>4. /\ d.log \in Seq(Seq(Elements \cup Nat)) /\ Len(d.log) = Len(c.log) + 1 /\ Len(c.log) \in Nat
      /\ d.log[Len(c.log) + 1] = g /\ \A k \in 1 .. Len(c.log) : d.log[k] = c.log[k]
  BY <1>1, <1>2, <1>3 DEF CallTyped
<1>5. d.yes \in SUBSET (1 .. Len(d.log))
  BY <1>1, <1>2, <1>4 DEF CallTyped
<1>6. c.m = "sort" => d.work \in Seq(Elements) /\ Bubbled(d)
  <2>1. SUFFICES ASSUME c.m = "sort" PROVE d.work \in Seq(Elements) /\ Bubbled(d)
    OBVIOUS
  <2>2. answer = (c.work[c.j].key > c.work[c.j + 1].key)
    BY <2>1 DEF Answers
  <2>3. d.work = IF c.work[c.j].key > c.work[c.j + 1].key THEN Swap(c.work, c.j) ELSE c.work
    BY <1>2, <2>1, <2>2
  <2>4. /\ c.elems \in Seq(Elements) /\ c.work \in Seq(Elements) /\ c.i \in Nat \ {0} /\ c.j \in Nat \ {0}
        /\ BubbledTo(c.elems, c.work, c.i, c.j) /\ c.j < Len(c.elems) - (c.i - 1)
    BY <1>1, <1>3, <2>1 DEF CallTyped, Bubbled
  <2>5. d.work \in Seq(Elements) /\ BubbledTo(c.elems, d.work, c.i, c.j + 1)
    BY <2>3, <2>4, ComparedTo
  <2>6. QED
    BY <1>2, <2>1, <2>5 DEF Bubbled
<1>7. CallTyped(d)
  BY <1>1, <1>2, <1>4, <1>5, <1>6 DEF CallTyped
<1>8. ASSUME c.m \in Walking
      PROVE  Heard(d) /\ d.i = Place(d, Len(d.log) + 1) /\ d.i <= Len(d.elems) + 1
  <2>1. c.m # "sort" /\ c.i = Place(c, Len(c.log) + 1) /\ Heard(c) /\ c.i \in Nat /\ Len(c.elems) \in Nat
    BY <1>1, <1>8, MethodNames DEF Walked, CallTyped
  <2>2. d.i = Place(d, Len(d.log) + 1) /\ d.i <= Len(d.elems) + 1
    BY <1>2, <1>3, <1>4, <1>8, <2>1 DEF Place
  <2>3. ASSUME NEW k \in 1 .. Len(d.log) PROVE d.log[k][Len(d.log[k])] = d.elems[Place(d, k)]
    <3>1. Place(d, k) = Place(c, k)
      BY <1>2 DEF Place
    <3>2. CASE k = Len(c.log) + 1
      BY <1>2, <1>3, <1>4, <1>8, <3>1, <3>2
    <3>3. CASE k # Len(c.log) + 1
      <4>1. k \in 1 .. Len(c.log)
        BY <1>4, <3>3
      <4>2. QED
        BY <1>2, <1>4, <2>1, <3>1, <4>1 DEF Heard
    <3>4. QED
      BY <3>2, <3>3
  <2>4. Heard(d)
    BY <2>3 DEF Heard
  <2>5. QED
    BY <2>2, <2>4
<1>9. ASSUME ~Decides(d.m, answer), c.m \in Walking PROVE Walked(d)
  <2>1. Walked(c)
    BY <1>1, <1>9
  <2>2. d.m \in {"find", "findIndex", "some"} => d.yes = {}
    BY <1>2, <1>9, <2>1 DEF Decides, Walked
  <2>3. d.m = "every" => d.yes = 1 .. Len(d.log)
    <3>1. SUFFICES ASSUME d.m = "every" PROVE d.yes = 1 .. Len(d.log)
      OBVIOUS
    <3>2. answer = TRUE /\ c.yes = 1 .. Len(c.log)
      BY <1>2, <1>9, <2>1, <3>1 DEF Decides, Walked
    <3>3. d.yes = c.yes \cup {Len(c.log) + 1}
      BY <1>2, <3>2
    <3>4. QED
      BY <1>4, <3>2, <3>3
  <2>4. QED
    BY <1>8, <1>9, <2>2, <2>3 DEF Walked
<1>10. ~Decides(d.m, answer) => CallOk(d)
  BY <1>2, <1>6, <1>7, <1>9 DEF CallOk
<1>11. QED
  BY <1>2, <1>4, <1>7, <1>8, <1>10
-----------------------------------------------------------------------------
(* The filter picks what its callbacks said yes to.                          *)

LEMMA ChosenIs ==
  ASSUME NEW c, CallTyped(c)
  PROVE  /\ Chosen(c) \in Seq(Nat) /\ \A k \in 1 .. Len(Chosen(c)) : Chosen(c)[k] \in c.yes
         /\ \A k, l \in 1 .. Len(Chosen(c)) : k < l => Chosen(c)[k] < Chosen(c)[l]
         /\ \A y \in c.yes : \E k \in 1 .. Len(Chosen(c)) : Chosen(c)[k] = y
<1> DEFINE n == Len(c.log)
           s == [k \in 1 .. n |-> k]
<1>0. PICK Y : Y = c.yes
  OBVIOUS
<1>1. n \in Nat /\ Y \in SUBSET (1 .. n)
  BY <1>0 DEF CallTyped
<1>2. s \in Seq(Nat) /\ Len(s) = n /\ \A k \in 1 .. n : s[k] = k
  BY <1>1
<1>a. PICK z \in Seq(Nat) : z = s
  BY <1>2
<1> HIDE DEF s
<1>3. PICK f : f = [k \in 0 .. Len(z) |->
                     IF k = 0 THEN <<>> ELSE IF z[k] \in Y THEN Append(f[k - 1], z[k]) ELSE f[k - 1]]
  BY KeepsIsDefined, ZenonT(30)
<1> DEFINE chosen == CHOOSE g : g = [k \in 0 .. Len(c.log) |->
                     IF k = 0 THEN <<>> ELSE IF k \in Y THEN Append(g[k - 1], k) ELSE g[k - 1]]
<1>4. \A k \in 0 .. Len(c.log) : k # 0 => s[k] = k
  BY <1>1, <1>2
<1>5. f = [k \in 0 .. Len(c.log) |->
            IF k = 0 THEN <<>> ELSE IF k \in Y THEN Append(f[k - 1], k) ELSE f[k - 1]]
  BY <1>2, <1>a, <1>3, <1>4
<1>6. chosen = [k \in 0 .. Len(c.log) |->
                 IF k = 0 THEN <<>> ELSE IF k \in Y THEN Append(chosen[k - 1], k) ELSE chosen[k - 1]]
  BY <1>5
<1>7. Chosen(c) = chosen[n]
  BY <1>0 DEF Chosen
<1> HIDE DEF chosen
<1>8. Keeps(chosen, s, Y)
  <2>1. 0 \in 0 .. Len(c.log) /\ \A k \in 1 .. Len(s) : k \in 0 .. Len(c.log) /\ k # 0 /\ s[k] = k
    BY <1>1, <1>2
  <2>2. QED
    BY <1>6, <2>1 DEF Keeps
<1>9. \A m \in 0 .. Len(s) : chosen[m] \in Seq(Nat) /\ KeptOf(chosen[m], s, Y, m)
  BY <1>2, <1>8, KeptSoFar
<1> DEFINE e == Chosen(c)
<1>10. e \in Seq(Nat) /\ KeptOf(e, s, Y, n)
  BY <1>1, <1>2, <1>7, <1>9
<1> HIDE DEF e
<1>11. \A k \in 1 .. Len(e) : e[k] \in Y
  BY <1>10 DEF KeptOf
<1>12. ASSUME NEW k \in 1 .. Len(e), NEW l \in 1 .. Len(e), k < l PROVE e[k] < e[l]
  <2>1. PICK p \in 1 .. n, q \in 1 .. n : p < q /\ e[k] = s[p] /\ e[l] = s[q]
    BY <1>10, <1>12 DEF KeptOf
  <2>2. QED
    BY <1>2, <2>1
<1>13. ASSUME NEW y \in Y PROVE \E k \in 1 .. Len(e) : e[k] = y
  <2>1. y \in 1 .. n /\ s[y] = y
    BY <1>1, <1>2
  <2>2. \E k \in 1 .. Len(e) : e[k] = s[y]
    BY <1>10, <1>13, <2>1 DEF KeptOf
  <2>3. QED
    BY <2>1, <2>2
<1>14. QED
  BY <1>0, <1>10, <1>11, <1>12, <1>13 DEF e
-----------------------------------------------------------------------------
(* How a call ends.                                                          *)

LEMMA EndKeeps ==
  ASSUME NEW c, c.m \in Methods, NEW how, NEW result, NEW after \in Seq(Elements),
         End(c, how, result, after), EndOk(c, how, result, slot, after)
  PROVE  ArrayInv'
<1> DEFINE e == [call |-> c, how |-> how, result |-> result, left |-> slot, after |-> after]
<1>1. slot' \in Seq(Elements) /\ arrayCall' = <<>> /\ ended' = <<e>> /\ ended'[1] = e
  BY DEF End
<1>2. e.call = c /\ e.how = how /\ e.result = result /\ e.left = slot /\ e.after = after
  OBVIOUS
<1> HIDE DEF e
<1>3. c.m \notin Changing =>
        \A k \in DOMAIN c.log : c.log[k][Len(c.log[k])] = c.elems[IF c.m = "reduce" THEN k + 1 ELSE k]
  BY MethodNames, SMTT(30) DEF EndOk, Heard, Place
<1>4. MethodsMeanWhatTheySay'
  BY <1>1, <1>2, <1>3 DEF EndOk, MethodsMeanWhatTheySay
<1>5. QED
  BY <1>1, <1>4 DEF ArrayInv

LEMMA Listening ==
  ASSUME NEW c, CallTyped(c)
  PROVE  DOMAIN c.log = 1 .. Len(c.log) /\ Len(c.log) \in Nat /\ Len(c.elems) \in Nat /\ c.yes \in SUBSET (1 .. Len(c.log))
  BY DEF CallTyped

\* A callback that decides ends the search with what it decided.
LEMMA Decided ==
  ASSUME NEW c, NEW s, CallOk(c), More(c), NEW answer \in BOOLEAN, answer \in Answers(c),
         NEW d, d = Logged(c, answer), Decides(d.m, answer)
  PROVE  EndOk(d, "value", CASE d.m = "find" -> <<d.elems[d.i - 1]>>
                             [] d.m = "findIndex" -> <<d.i - 2>>
                             [] OTHER -> <<answer>>, s, s)
<1> DEFINE n == Len(d.log)
<1>1. d.m \in {"find", "findIndex", "some", "every"} /\ (answer <=> d.m # "every")
  BY DEF Decides
<1>2. d.m \in Walking /\ d.m \notin Changing /\ d.m \notin {"sort", "unshift"}
  BY <1>1, MethodNames
<1>3. /\ CallTyped(d) /\ Heard(d) /\ d.i = n + 1 /\ n = Len(c.log) + 1 /\ Len(c.log) \in Nat /\ d.m = c.m
  BY <1>1, <1>2, CallbackKeeps DEF Place
<1>4. Walked(c) /\ CallTyped(c)
  BY <1>2, <1>3 DEF CallOk
<1>5. After(c, answer, d)
  BY <1>4, LoggedIs, Zenon
<1>6. d.yes = IF answer THEN c.yes \cup {n} ELSE c.yes
  BY <1>3, <1>5, Zenon DEF After
<1>7. DOMAIN d.log = 1 .. n /\ n \in Nat
  BY <1>3, Listening
<1>8. CASE d.m = "find"
  <2>1. d.yes = {n} /\ d.i - 1 = n
    BY <1>1, <1>3, <1>4, <1>6, <1>8 DEF Walked
  <2>2. Meaning(d, <<d.elems[d.i - 1]>>, s)
    BY <2>1, <1>8 DEF Meaning
  <2>3. QED
    BY <1>2, <1>3, <1>8, <2>2 DEF EndOk
<1>9. CASE d.m = "findIndex"
  <2>1. d.yes = {n} /\ d.i - 2 = n - 1 /\ <<n - 1>> # <<-1>>
    BY <1>1, <1>3, <1>4, <1>6, <1>9 DEF Walked
  <2>2. Meaning(d, <<d.i - 2>>, s)
    BY <2>1, <1>9 DEF Meaning
  <2>3. QED
    BY <1>2, <1>3, <1>9, <2>2 DEF EndOk
<1>10. CASE d.m = "some"
  <2>1. d.yes = {n} /\ answer = TRUE
    BY <1>1, <1>3, <1>4, <1>6, <1>10 DEF Walked
  <2>2. <<TRUE>> # <<FALSE>>
    OBVIOUS
  <2>3. Meaning(d, <<answer>>, s)
    BY <2>1, <2>2, <1>10 DEF Meaning
  <2>4. QED
    BY <1>2, <1>3, <1>10, <2>3 DEF EndOk
<1>11. CASE d.m = "every"
  <2>1. d.yes = 1 .. n - 1 /\ answer = FALSE
    BY <1>1, <1>3, <1>4, <1>6, <1>11 DEF Walked
  <2>2. No(d) = {n}
    BY <1>3, <1>7, <2>1 DEF No
  <2>3. <<FALSE>> # <<TRUE>>
    OBVIOUS
  <2>4. Meaning(d, <<answer>>, s)
    BY <2>1, <2>2, <2>3, <1>11 DEF Meaning
  <2>5. QED
    BY <1>2, <1>3, <1>11, <2>4 DEF EndOk
<1>12. QED
  BY <1>1, <1>8, <1>9, <1>10, <1>11

LEMMA CallbackStep ==
  ASSUME ArrayInv, NEW answer \in BOOLEAN, Callback(answer)
  PROVE  ArrayInv'
<1> DEFINE c == arrayCall[1]
           d == Logged(c, answer)
<1>1. CallOk(c) /\ More(c) /\ answer \in Answers(c) /\ slot \in Seq(Elements)
  BY DEF ArrayInv, Callback
<1>2. CallTyped(d) /\ (~Decides(d.m, answer) => CallOk(d))
  BY <1>1, CallbackKeeps
<1>3. CASE Decides(d.m, answer)
  <2> DEFINE r == CASE d.m = "find" -> <<d.elems[d.i - 1]>> [] d.m = "findIndex" -> <<d.i - 2>> [] OTHER -> <<answer>>
  <2>1. EndOk(d, "value", r, slot, slot)
    BY <1>1, <1>3, Decided
  <2>2. End(d, "value", r, slot)
    BY <1>3 DEF Callback
  <2> HIDE DEF d, r
  <2>3. QED
    BY <1>1, <1>2, <2>1, <2>2, EndKeeps DEF CallTyped
<1>4. CASE ~Decides(d.m, answer)
  <2>1. arrayCall' = <<d>> /\ UNCHANGED <<slot, ended>>
    BY <1>4 DEF Callback
  <2> HIDE DEF d
  <2>2. arrayCall'[1] = d /\ CallOk(d)
    BY <1>2, <1>4, <2>1
  <2>3. MethodsMeanWhatTheySay'
    BY <2>1 DEF ArrayInv, MethodsMeanWhatTheySay
  <2>4. QED
    BY <1>1, <2>1, <2>2, <2>3 DEF ArrayInv
<1>5. QED
  BY <1>3, <1>4

LEMMA NextPassStep ==
  ASSUME ArrayInv, NextPass
  PROVE  ArrayInv'
<1> DEFINE c == arrayCall[1]
           d == Turned(c)
<1>1. CallOk(c) /\ c.m = "sort" /\ ~Sorting(c) /\ c.i <= Len(c.elems)
  BY DEF ArrayInv, NextPass
<1>2. arrayCall' = <<d>> /\ UNCHANGED <<slot, ended>>
  BY DEF NextPass
<1>3. /\ DOMAIN d = CallFields /\ d.m = "sort" /\ d.elems = c.elems /\ d.work = c.work /\ d.log = c.log
      /\ d.yes = c.yes /\ d.i = c.i + 1 /\ d.j = 1
  BY <1>1 DEF Turned, CallOk, CallTyped, CallFields
<1> HIDE DEF d
<1>4. CallTyped(d)
  <2>1. CallTyped(c)
    BY <1>1 DEF CallOk
  <2>2. QED
    BY <1>1, <1>3, <2>1, SMTT(30) DEF CallTyped
<1>5. BubbledTo(c.elems, c.work, c.i + 1, 1)
  <2>1. /\ c.elems \in Seq(Elements) /\ c.work \in Seq(Elements) /\ c.i \in Nat \ {0} /\ c.j \in Nat \ {0}
        /\ BubbledTo(c.elems, c.work, c.i, c.j) /\ ~(c.j < Len(c.elems) - (c.i - 1))
    BY <1>1 DEF CallOk, CallTyped, Bubbled, Sorting
  <2>2. QED
    BY <1>1, <2>1, TurnedTo
<1>6. CallOk(d)
  BY <1>3, <1>4, <1>5, MethodNames DEF CallOk, Bubbled
<1>7. MethodsMeanWhatTheySay'
  BY <1>2 DEF ArrayInv, MethodsMeanWhatTheySay
<1>8. QED
  BY <1>2, <1>6, <1>7 DEF ArrayInv

LEMMA ThrowsStep ==
  ASSUME ArrayInv, Throws
  PROVE  ArrayInv'
<1> DEFINE c == arrayCall[1]
<1>1. CallOk(c) /\ End(c, "throw", <<>>, slot) /\ slot \in Seq(Elements)
  BY DEF ArrayInv, Throws
<1>2. c.m \in Methods /\ (c.m \in Walking => Heard(c))
  BY <1>1 DEF CallOk, CallTyped, Walked
<1> HIDE DEF c
<1>3. EndOk(c, "throw", <<>>, slot, slot)
  BY <1>2 DEF EndOk
<1>4. QED
  BY <1>1, <1>2, <1>3, EndKeeps

\* Nothing decided a walk that is over.
LEMMA Exhausted ==
  ASSUME NEW c, CallOk(c), c.m \in Walking, ~More(c)
  PROVE  /\ Len(c.log) \in Nat /\ Len(c.elems) \in Nat /\ DOMAIN c.log = 1 .. Len(c.log)
         /\ c.m # "reduce" => Len(c.log) = Len(c.elems)
         /\ c.m = "reduce" => Len(c.log) = Len(c.elems) - 1
         /\ c.yes \in SUBSET (1 .. Len(c.log)) /\ Heard(c)
         /\ c.m \in {"find", "findIndex", "some"} => c.yes = {}
         /\ c.m = "every" => No(c) = {}
<1>1. CallTyped(c) /\ Walked(c)
  BY DEF CallOk
<1>2. /\ Len(c.log) \in Nat /\ Len(c.elems) \in Nat /\ DOMAIN c.log = 1 .. Len(c.log)
      /\ c.yes \in SUBSET (1 .. Len(c.log))
  BY <1>1, Listening
<1>3. c.i > Len(c.elems) /\ c.i = Place(c, Len(c.log) + 1) /\ c.i <= Len(c.elems) + 1
  BY <1>1, <1>2, MethodNames DEF More, Walked, CallTyped
<1>4. /\ c.m # "reduce" => Len(c.log) = Len(c.elems)
      /\ c.m = "reduce" => Len(c.log) = Len(c.elems) - 1
  BY <1>2, <1>3 DEF Place
<1>5. c.m = "every" => No(c) = {}
  BY <1>1, <1>2 DEF No, Walked
<1>6. QED
  BY <1>1, <1>2, <1>4, <1>5 DEF Walked

LEMMA FilterPicks ==
  ASSUME NEW c, CallTyped(c), Len(c.log) = Len(c.elems)
  PROVE  Picked(c, Filtered(c))
<1> DEFINE e == Chosen(c)
           r == Filtered(c)
<1>1. /\ e \in Seq(Nat) /\ \A k \in 1 .. Len(e) : e[k] \in c.yes
      /\ \A k, l \in 1 .. Len(e) : k < l => e[k] < e[l]
      /\ \A y \in c.yes : \E k \in 1 .. Len(e) : e[k] = y
  BY ChosenIs
<1> HIDE DEF e
<1>2. DOMAIN e = 1 .. Len(e)
  BY <1>1
<1>3. r = [k \in DOMAIN e |-> c.elems[e[k]]]
  BY DEF Filtered, e
<1> HIDE DEF r
<1>4. DOMAIN r = 1 .. Len(e) /\ \A k \in 1 .. Len(e) : r[k] = c.elems[e[k]]
  BY <1>2, <1>3
<1> DEFINE p == [k \in 1 .. Len(e) |-> e[k]]
<1>5. p \in [1 .. Len(e) -> c.yes] /\ DOMAIN p = 1 .. Len(e) /\ \A k \in 1 .. Len(e) : p[k] = e[k]
  BY <1>1
<1> HIDE DEF p
<1>6. \A k, l \in DOMAIN p : k < l => p[k] < p[l]
  BY <1>1, <1>5
<1>7. \A y \in c.yes : \E k \in DOMAIN p : p[k] = y
  BY <1>1, <1>5
<1>8. \A k \in DOMAIN p : r[k] = c.elems[p[k]]
  BY <1>4, <1>5
<1>9. Picked(c, r)
  BY <1>4, <1>5, <1>6, <1>7, <1>8 DEF Picked
<1>10. QED
  BY <1>9 DEF r

LEMMA WalkEnds ==
  ASSUME NEW c, NEW s, CallOk(c), c.m \in Walking, ~More(c), NEW result,
         /\ c.m = "map" => result = Mapped(c)
         /\ c.m = "filter" => result = Filtered(c)
         /\ c.m = "reduce" => result = Reduced(c)
         /\ c.m = "find" => result = FoundNone
         /\ c.m = "findIndex" => result = IndexNone
         /\ c.m = "every" => result = EveryOne
         /\ c.m = "some" => result = SomeNone
  PROVE  EndOk(c, "value", result, s, s)
<1> DEFINE n == Len(c.elems)
<1>1. /\ Len(c.log) \in Nat /\ n \in Nat /\ DOMAIN c.log = 1 .. Len(c.log)
      /\ c.m # "reduce" => Len(c.log) = n
      /\ c.m = "reduce" => Len(c.log) = n - 1
      /\ c.yes \in SUBSET (1 .. Len(c.log)) /\ Heard(c)
      /\ c.m \in {"find", "findIndex", "some"} => c.yes = {}
      /\ c.m = "every" => No(c) = {}
  BY Exhausted
<1>2. c.m \in {"filter", "find", "findIndex", "every", "some", "map", "reduce"} /\ c.m \notin Changing
  BY MethodNames
<1>3. Meaning(c, result, s)
  <2>1. CASE c.m = "map"
    <3>1. result = [k \in 1 .. n |-> k \in c.yes]
      BY <1>1, <2>1 DEF Mapped
    <3>2. Len(result) = n /\ \A k \in 1 .. n : result[k] = (k \in c.yes)
      BY <1>1, <3>1
    <3>3. QED
      BY <2>1, <3>2 DEF Meaning
  <2>2. CASE c.m = "filter"
    <3>1. Len(c.log) = n /\ Picked(c, result)
      BY <1>1, <2>2, FilterPicks DEF CallOk
    <3>2. QED
      BY <2>2, <3>1 DEF Meaning
  <2>3. CASE c.m = "find"
    BY <1>1, <2>3 DEF Meaning, FoundNone
  <2>4. CASE c.m = "findIndex"
    BY <1>1, <2>4 DEF Meaning, IndexNone
  <2>5. CASE c.m = "every"
    BY <1>1, <2>5 DEF Meaning, EveryOne
  <2>6. CASE c.m = "some"
    BY <1>1, <2>6 DEF Meaning, SomeNone
  <2>7. CASE c.m = "reduce"
    BY <1>1, <2>7 DEF Meaning, Reduced
  <2>8. QED
    BY <1>2, <2>1, <2>2, <2>3, <2>4, <2>5, <2>6, <2>7
<1>4. QED
  BY <1>1, <1>2, <1>3 DEF EndOk

\* What stands between two places of a sequence.
LEMMA SliceIs ==
  ASSUME NEW s \in Seq(Elements), NEW m \in Nat \ {0}, NEW n \in Nat, n <= Len(s), m <= n + 1
  PROVE  /\ SubSeq(s, m, n) \in Seq(Elements) /\ Len(SubSeq(s, m, n)) = n - m + 1
         /\ \A i \in 1 .. n - m + 1 : SubSeq(s, m, n)[i] = s[m + i - 1]
<1>1. \A i \in m .. n : s[i] \in Elements
  OBVIOUS
<1>2. m \in Int /\ n \in Int
  OBVIOUS
<1>3. /\ SubSeq(s, m, n) \in Seq(Elements)
      /\ Len(SubSeq(s, m, n)) = IF m <= n THEN n - m + 1 ELSE 0
      /\ \A i \in 1 .. n - m + 1 : SubSeq(s, m, n)[i] = s[m + i - 1]
  BY <1>1, <1>2, SubSeqProperties
<1>4. QED
  BY <1>3

\* RemoveAt takes out one element.
LEMMA RemovedAt ==
  ASSUME NEW s \in Seq(Elements), NEW at \in 1 .. Len(s)
  PROVE  RemoveAt(s, at) \in Seq(Elements) /\ TakenOut(s, at, RemoveAt(s, at))
<1>1. PICK n \in Nat, d \in Nat, e \in Nat \ {0} :
        n = Len(s) /\ d = at - 1 /\ e = at + 1 /\ d <= n /\ e <= n + 1 /\ DOMAIN s = 1 .. n
  BY LenProperties
<1>2. PICK a \in Seq(Elements), b \in Seq(Elements) : a = SubSeq(s, 1, d) /\ b = SubSeq(s, e, n)
  <2>1. SubSeq(s, 1, d) \in Seq(Elements)
    BY <1>1, SliceIs
  <2>2. SubSeq(s, e, n) \in Seq(Elements)
    BY <1>1, SliceIs
  <2>3. QED
    BY <2>1, <2>2
<1>3. Len(a) = d /\ \A k \in 1 .. d : a[k] = s[k]
  <2>1. Len(a) = d - 1 + 1 /\ \A k \in 1 .. d - 1 + 1 : a[k] = s[1 + k - 1]
    BY <1>1, <1>2, SliceIs
  <2>2. QED
    BY <1>1, <2>1
<1>4. Len(b) = n - at /\ \A k \in 1 .. n - at : b[k] = s[at + k]
  <2>1. Len(b) = n - e + 1 /\ \A k \in 1 .. n - e + 1 : b[k] = s[e + k - 1]
    BY <1>1, <1>2, SliceIs
  <2>2. QED
    BY <1>1, <2>1
<1>5. PICK r : r = a \o b
  OBVIOUS
<1>6. /\ r \in Seq(Elements) /\ Len(r) = Len(a) + Len(b)
      /\ \A i \in 1 .. Len(a) + Len(b) : r[i] = IF i <= Len(a) THEN a[i] ELSE b[i - Len(a)]
  BY <1>5, ConcatProperties
<1>7. Len(r) = n - 1 /\ \A i \in 1 .. n - 1 : r[i] = IF i <= d THEN a[i] ELSE b[i - d]
  BY <1>1, <1>3, <1>4, <1>6
<1>8. ASSUME NEW k \in (1 .. n) \ {at} PROVE r[IF k < at THEN k ELSE k - 1] = s[k]
  <2>1. CASE k < at
    <3>1. k \in 1 .. n - 1 /\ k <= d /\ k \in 1 .. d
      BY <1>1, <2>1
    <3>2. QED
      BY <1>3, <1>7, <2>1, <3>1
  <2>2. CASE ~(k < at)
    <3>1. PICK j \in 1 .. n - 1, i \in 1 .. n - at : j = k - 1 /\ i = j - d /\ ~(j <= d) /\ at + i = k
      BY <1>1, <2>2
    <3>2. r[j] = b[i] /\ b[i] = s[k]
      BY <1>4, <1>7, <3>1
    <3>3. QED
      BY <2>2, <3>1, <3>2
  <2>3. QED
    BY <2>1, <2>2
<1>9. RemoveAt(s, at) = r
  BY <1>1, <1>2, <1>5 DEF RemoveAt
<1>10. QED
  BY <1>1, <1>6, <1>7, <1>8, <1>9 DEF TakenOut

LEMMA EndsStep ==
  ASSUME ArrayInv, Ends
  PROVE  ArrayInv'
<1> DEFINE c == arrayCall[1]
<1>1. CallOk(c) /\ ~More(c) /\ slot \in Seq(Elements) /\ CallTyped(c) /\ c.m \in Methods
  BY DEF ArrayInv, Ends, CallOk, CallTyped
<1>2. /\ c.m = "map" => End(c, "value", Mapped(c), slot)
      /\ c.m = "filter" => End(c, "value", Filtered(c), slot)
      /\ c.m = "reduce" => End(c, "value", Reduced(c), slot)
      /\ c.m = "find" => End(c, "value", FoundNone, slot)
      /\ c.m = "findIndex" => End(c, "value", IndexNone, slot)
      /\ c.m = "every" => End(c, "value", EveryOne, slot)
      /\ c.m = "some" => End(c, "value", SomeNone, slot)
      /\ c.m = "sort" => Sort(c)
      /\ c.m = "unshift" => Unshift(c)
      /\ c.m = "remove" => RemoveIndex(c)
  BY DEF Ends
<1> HIDE DEF c
<1>3. CASE c.m \in Walking
  <2> DEFINE r == IF c.m = "map" THEN Mapped(c) ELSE IF c.m = "filter" THEN Filtered(c)
                  ELSE IF c.m = "reduce" THEN Reduced(c) ELSE IF c.m = "find" THEN FoundNone
                  ELSE IF c.m = "findIndex" THEN IndexNone ELSE IF c.m = "every" THEN EveryOne ELSE SomeNone
  <2>1. End(c, "value", r, slot)
    BY <1>2, <1>3, MethodNames
  <2>2. /\ c.m = "map" => r = Mapped(c)
        /\ c.m = "filter" => r = Filtered(c)
        /\ c.m = "reduce" => r = Reduced(c)
        /\ c.m = "find" => r = FoundNone
        /\ c.m = "findIndex" => r = IndexNone
        /\ c.m = "every" => r = EveryOne
        /\ c.m = "some" => r = SomeNone
    OBVIOUS
  <2> HIDE DEF r
  <2>3. EndOk(c, "value", r, slot, slot)
    BY <1>1, <1>3, <2>2, WalkEnds
  <2>4. QED
    BY <1>1, <2>1, <2>3, EndKeeps
<1>4. CASE c.m = "sort"
  <2>1. End(c, "value", <<>>, c.work) /\ c.i > Len(c.elems)
    BY <1>2, <1>4 DEF Sort
  <2>2. /\ c.elems \in Seq(Elements) /\ c.work \in Seq(Elements) /\ c.i \in Nat \ {0}
        /\ BubbledTo(c.elems, c.work, c.i, c.j)
    BY <1>1, <1>4 DEF CallOk, CallTyped, Bubbled
  <2>3. Sorted(c.elems, c.work)
    BY <2>1, <2>2, SortedAtLast
  <2>4. EndOk(c, "value", <<>>, slot, c.work)
    BY <1>4, <2>3, MethodNames DEF EndOk, Meaning
  <2>5. QED
    BY <1>1, <2>1, <2>2, <2>4, EndKeeps
<1>5. CASE c.m = "unshift"
  <2>1. PICK e \in Elements : End(c, "value", <<e>>, <<e>> \o c.elems)
    BY <1>2, <1>5 DEF Unshift
  <2>2. <<e>> \o c.elems \in Seq(Elements)
    BY <1>1 DEF CallTyped
  <2>3. EndOk(c, "value", <<e>>, slot, <<e>> \o c.elems)
    BY <1>5, <2>2, MethodNames DEF EndOk, Meaning
  <2>4. QED
    BY <1>1, <2>1, <2>2, <2>3, EndKeeps
<1>6. CASE c.m = "remove"
  <2>1. ASSUME NEW result, NEW after \in Seq(Elements), End(c, "value", result, after), Meaning(c, result, after)
        PROVE  ArrayInv'
    <3>1. EndOk(c, "value", result, slot, after)
      BY <1>6, <2>1, MethodNames DEF EndOk
    <3>2. QED
      BY <1>1, <2>1, <3>1, EndKeeps
  <2>2. ASSUME End(c, "throw", <<>>, slot) PROVE ArrayInv'
    <3>1. EndOk(c, "throw", <<>>, slot, slot)
      BY <1>6, MethodNames DEF EndOk
    <3>2. QED
      BY <1>1, <2>2, <3>1, EndKeeps
  <2>3. CASE c.elems = <<>>
    <3>1. Meaning(c, <<>>, slot)
      BY <1>6, <2>3 DEF Meaning
    <3>2. End(c, "value", <<>>, slot)
      BY <1>2, <1>6, <2>3 DEF RemoveIndex
    <3>3. QED
      BY <1>1, <2>1, <3>1, <3>2
  <2>4. CASE c.elems # <<>>
    <3>1. PICK at \in 1 .. MaxLength + 1 :
            IF at > Len(c.elems) THEN End(c, "throw", <<>>, slot)
            ELSE End(c, "value", <<c.elems[at]>>, RemoveAt(c.elems, at))
      BY <1>2, <1>6, <2>4 DEF RemoveIndex
    <3>2. CASE at > Len(c.elems)
      BY <2>2, <3>1, <3>2
    <3>3. CASE ~(at > Len(c.elems))
      <4>1. c.elems \in Seq(Elements) /\ at \in 1 .. Len(c.elems)
        BY <1>1, <3>3, ArrayAssumption DEF CallTyped
      <4>2. RemoveAt(c.elems, at) \in Seq(Elements) /\ TakenOut(c.elems, at, RemoveAt(c.elems, at))
        BY <4>1, RemovedAt
      <4>3. Meaning(c, <<c.elems[at]>>, RemoveAt(c.elems, at))
        BY <1>6, <2>4, <4>1, <4>2 DEF Meaning
      <4>4. QED
        BY <2>1, <3>1, <3>3, <4>2, <4>3
    <3>4. QED
      BY <3>2, <3>3
  <2>5. QED
    BY <2>3, <2>4
<1>7. QED
  BY <1>1, <1>3, <1>4, <1>5, <1>6, MethodNames

-----------------------------------------------------------------------------
(* The other steps.                                                          *)

LEMMA TouchStep ==
  ASSUME ArrayInv, NEW after \in Seq(Elements), Touch(after)
  PROVE  ArrayInv'
<1> DEFINE c == arrayCall[1]
           d == [c EXCEPT !.touched = TRUE]
<1>1. CallOk(c) /\ c.m \in Reentrant
  BY DEF ArrayInv, Touch
<1>2. arrayCall' = <<d>> /\ slot' = after /\ UNCHANGED ended
  BY DEF Touch
<1>3. /\ DOMAIN d = CallFields /\ d.m = c.m /\ d.elems = c.elems /\ d.work = c.work /\ d.log = c.log
      /\ d.yes = c.yes /\ d.i = c.i /\ d.j = c.j
  BY <1>1 DEF CallOk, CallTyped, CallFields
<1> HIDE DEF d
<1>4. CallTyped(d)
  BY <1>1, <1>3 DEF CallOk, CallTyped
<1>5. d.m \in Walking => Walked(d)
  BY <1>1, <1>3 DEF CallOk, Walked, Heard, Place
<1>6. d.m = "sort" => Bubbled(d)
  BY <1>1, <1>3 DEF CallOk, Bubbled
<1>7. CallOk(d)
  BY <1>1, <1>3, <1>4, <1>5, <1>6 DEF CallOk
<1>8. MethodsMeanWhatTheySay'
  BY <1>2 DEF ArrayInv, MethodsMeanWhatTheySay
<1>9. QED
  BY <1>2, <1>7, <1>8 DEF ArrayInv

LEMMA BeginStep ==
  ASSUME ArrayInv, NEW m \in Methods, Begin(m)
  PROVE  ArrayInv'
<1> DEFINE d == [m |-> m, elems |-> slot, i |-> IF m = "reduce" THEN 2 ELSE 1, j |-> 1, work |-> slot,
                 log |-> <<>>, yes |-> {}, touched |-> FALSE]
<1>1. arrayCall' = <<d>> /\ UNCHANGED <<slot, ended>> /\ (m = "reduce" => slot # <<>>)
  BY DEF Begin
<1>2. /\ DOMAIN d = CallFields /\ d.m = m /\ d.elems = slot /\ d.i = (IF m = "reduce" THEN 2 ELSE 1)
      /\ d.j = 1 /\ d.work = slot /\ d.log = <<>> /\ d.yes = {}
  BY DEF CallFields
<1> HIDE DEF d
<1>3. slot \in Seq(Elements) /\ Len(slot) \in Nat /\ (slot # <<>> => Len(slot) > 0)
  BY DEF ArrayInv
<1>4. CallTyped(d)
  BY <1>2, <1>3 DEF CallTyped
<1>5. m \in Walking => Walked(d)
  BY <1>1, <1>2, <1>3 DEF Walked, Heard, Place
<1>6. m = "sort" => Bubbled(d)
  <2>1. Rearranged(slot, slot)
    BY <1>3, InPlaceAtFirst
  <2>2. BubbledTo(slot, slot, 1, 1)
    BY <1>3, <2>1 DEF BubbledTo
  <2>3. m = "sort" => d.i = 1
    BY <1>2
  <2>4. QED
    BY <1>2, <2>2, <2>3 DEF Bubbled
<1>7. CallOk(d)
  BY <1>2, <1>4, <1>5, <1>6 DEF CallOk
<1>8. MethodsMeanWhatTheySay'
  BY <1>1 DEF ArrayInv, MethodsMeanWhatTheySay
<1>9. QED
  BY <1>1, <1>3, <1>7, <1>8 DEF ArrayInv

LEMMA ArrayStep ==
  ASSUME ArrayInv, [ArrayNext]_arrayVars
  PROVE  ArrayInv'
<1>1. CASE UNCHANGED arrayVars
  BY <1>1 DEF ArrayInv, arrayVars, MethodsMeanWhatTheySay
<1>2. CASE \E m \in Methods : Begin(m)
  BY <1>2, BeginStep
<1>3. CASE \E answer \in BOOLEAN : Callback(answer)
  BY <1>3, CallbackStep
<1>4. CASE \E e \in Elements : Push(e)
  <2>1. PICK e \in Elements : Touch(Append(slot, e))
    BY <1>4 DEF Push
  <2>2. Append(slot, e) \in Seq(Elements)
    BY DEF ArrayInv
  <2>3. QED
    BY <2>1, <2>2, TouchStep
<1>5. CASE Pop
  <2>1. Touch(Front(slot)) /\ slot # <<>>
    BY <1>5 DEF Pop
  <2>2. Front(slot) \in Seq(Elements)
    BY <2>1, Popped DEF ArrayInv
  <2>3. QED
    BY <2>1, <2>2, TouchStep
<1>6. QED
  BY <1>1, <1>2, <1>3, <1>4, <1>5, NextPassStep, ThrowsStep, EndsStep DEF ArrayNext

LEMMA ArrayStart == ArrayInit => ArrayInv
<1> SUFFICES ASSUME ArrayInit PROVE ArrayInv
  OBVIOUS
<1>1. slot \in Seq(Elements)
  <2>1. PICK n \in 0..MaxLength : slot \in [1..n -> Elements]
    BY DEF ArrayInit, BoundedSeq, SeqOf
  <2>2. n \in Nat
    BY ArrayAssumption
  <2>3. QED
    BY <2>1, <2>2
<1>2. arrayCall = <<>> /\ ended = <<>>
  BY DEF ArrayInit
<1>3. MethodsMeanWhatTheySay
  BY <1>2 DEF MethodsMeanWhatTheySay
<1>4. QED
  BY <1>1, <1>2, <1>3 DEF ArrayInv

\* A method of an array answers from the copy it took, calls back once for each
\* element in order and no further than its answer, sorts stably, writes what its
\* copy became, and writes nothing when a throw ends it (methods_array.rs),
\* whatever the code it runs pushes to the array or pops from it meanwhile.
THEOREM MethodsAnswerFromTheirCopy ==
  ArraySpec => []MethodsMeanWhatTheySay
<1>1. ArrayInit => ArrayInv
  BY ArrayStart
<1>2. ArrayInv /\ [ArrayNext]_arrayVars => ArrayInv'
  BY ArrayStep
<1>3. ArrayInv => MethodsMeanWhatTheySay
  BY DEF ArrayInv
<1>4. QED
  BY <1>1, <1>2, <1>3, PTL DEF ArraySpec

-----------------------------------------------------------------------------
(* Operators.                                                                *)

\* What == is of two plain values whose classes define nothing.
Same(l, r) ==
  LET types == {l.t, r.t}
  IN  CASE types \in {{"DateTime"}, {"int"}, {"dec"}, {"dec", "int"}, {"bool"}, {"variant"}} -> l.n = r.n
        [] types \in {{"decimal"}, {"decimal", "int"}} -> AsDecimal(l.n) = AsDecimal(r.n)
        [] types = {"string"} -> l.s = r.s
        [] OTHER -> types = {"null"}

LEMMA Truths == \A p, q \in BOOLEAN : Truth(p) = Truth(q) => p = q
<1>1. ASSUME NEW p \in BOOLEAN, NEW q \in BOOLEAN, Truth(p) = Truth(q) PROVE p = q
  <2>1. Bool(p).n = Bool(q).n
    BY <1>1 DEF Truth, Answer
  <2>2. (IF p THEN 2 ELSE 0) = (IF q THEN 2 ELSE 0)
    BY <2>1 DEF Bool, Value
  <2>3. QED
    BY <2>2
<1>2. QED
  BY <1>1

LEMMA SameIsOne == ASSUME NEW l, NEW r PROVE Same(l, r) \in BOOLEAN /\ Same(l, r) = Same(r, l)
<1>1. {l.t, r.t} = {r.t, l.t}
  OBVIOUS
<1>2. PICK types : types = {l.t, r.t} /\ types = {r.t, l.t}
  BY <1>1
<1>3. \A x, y : {x.t, y.t} = types =>
        Same(x, y) =
          CASE types \in {{"DateTime"}, {"int"}, {"dec"}, {"dec", "int"}, {"bool"}, {"variant"}} -> x.n = y.n
            [] types \in {{"decimal"}, {"decimal", "int"}} -> AsDecimal(x.n) = AsDecimal(y.n)
            [] types = {"string"} -> x.s = y.s
            [] OTHER -> types = {"null"}
  BY DEF Same
<1>4. CASE types \in {{"DateTime"}, {"int"}, {"dec"}, {"dec", "int"}, {"bool"}, {"variant"}}
  <2>1. Same(l, r) = (l.n = r.n) /\ Same(r, l) = (r.n = l.n)
    BY <1>2, <1>3, <1>4
  <2>2. QED
    BY <2>1
<1>5. CASE types \in {{"decimal"}, {"decimal", "int"}}
  <2>1. Same(l, r) = (AsDecimal(l.n) = AsDecimal(r.n)) /\ Same(r, l) = (AsDecimal(r.n) = AsDecimal(l.n))
    BY <1>2, <1>3, <1>5
  <2>2. QED
    BY <2>1
<1>6. CASE types = {"string"}
  <2>1. Same(l, r) = (l.s = r.s) /\ Same(r, l) = (r.s = l.s)
    BY <1>2, <1>3, <1>6
  <2>2. QED
    BY <2>1
<1>7. CASE /\ types \notin {{"DateTime"}, {"int"}, {"dec"}, {"dec", "int"}, {"bool"}, {"variant"}}
           /\ types \notin {{"decimal"}, {"decimal", "int"}} /\ types # {"string"}
  <2>1. \A x, y : {x.t, y.t} = types => Same(x, y) = (types = {"null"})
    BY <1>3, <1>7
  <2>2. QED
    BY <1>2, <2>1
<1>8. QED
  BY <1>4, <1>5, <1>6, <1>7

\* eval_infix on plain values of the types in T.
ByTypes(op, x, y, T) ==
  CASE T = {"DateTime"} -> IF op \in Comparisons THEN Compared(op, x.n, y.n) ELSE Failure("TypeError")
    [] "null" \in T -> NullOp(op, x, y)
    [] T = {"int"} -> IF op \in Comparisons THEN Compared(op, x.n, y.n) ELSE IntegerOp(op, x.n \div 2, y.n \div 2)
    [] T \in {{"dec"}, {"dec", "int"}} -> DecBinop(op, x.n, y.n)
    [] T = {"dec", "decimal"} -> Failure("TypeError")
    [] T \in {{"decimal"}, {"decimal", "int"}} -> DecimalOp(op, AsDecimal(x.n), AsDecimal(y.n))
    [] "string" \in T /\ T \subseteq Scalars \cup {"string", "DateTime"} -> TextOp(op, x, y)
    [] T = {"bool"} -> IF op \in {"==", "!="} THEN Compared(op, x.n, y.n) ELSE Failure("TypeError")
    [] T = {"variant"} -> IF op \in {"==", "!="} THEN Compared(op, x.n, y.n) ELSE Failure("TypeError")
    [] OTHER -> Overloaded(op, x, y)

LEMMA InfixByTypes ==
  ASSUME NEW op, NEW a, NEW b
  PROVE  EvalInfix(op, a, b) = ByTypes(op, Plain(a), Plain(b), {Plain(a).t, Plain(b).t})
  BY DEF EvalInfix, ByTypes

LEMMA EqualByTypes ==
  ASSUME NEW x, NEW y, NEW T, T = {x.t, y.t}, T # {"dec", "decimal"}, x.ops = {}, y.ops = {},
         NEW op \in {"==", "!="}
  PROVE  ByTypes(op, x, y, T) = Truth(Same(x, y) = (op = "=="))
<1>1. op \in Comparisons
  BY DEF Comparisons
<1>2. \A m, n : Compared(op, m, n) = Truth((m = n) = (op = "=="))
  BY DEF Compared
<1>3. Overloaded(op, x, y) = Truth(op = "!=") /\ Truth(op = "!=") = Truth(FALSE = (op = "=="))
  BY DEF Overloaded
<1>4. CASE T = {"DateTime"}
  <2>1. Same(x, y) = (x.n = y.n)
    BY <1>4 DEF Same
  <2>2. ByTypes(op, x, y, T) = Compared(op, x.n, y.n)
    BY <1>1, <1>4 DEF ByTypes
  <2>3. QED
    BY <1>2, <2>1, <2>2
<1>5. CASE "null" \in T
  <2>1. /\ T \notin {{"DateTime"}, {"int"}, {"dec"}, {"dec", "int"}, {"bool"}, {"variant"}}
        /\ T \notin {{"decimal"}, {"decimal", "int"}} /\ T # {"string"} /\ (T = {"null"} <=> x.t = y.t)
        /\ ~(T \subseteq Scalars \cup {"string", "DateTime"})
    BY <1>5 DEF Scalars
  <2>2. Same(x, y) = (x.t = y.t)
    BY <2>1 DEF Same
  <2>3. ByTypes(op, x, y, T) = NullOp(op, x, y)
    BY <1>5, <2>1 DEF ByTypes
  <2>4. QED
    BY <2>2, <2>3 DEF NullOp
<1>6. CASE T = {"int"}
  <2>1. Same(x, y) = (x.n = y.n) /\ T # {"DateTime"} /\ "null" \notin T
    BY <1>6 DEF Same
  <2>2. ByTypes(op, x, y, T) = Compared(op, x.n, y.n)
    BY <1>1, <1>6, <2>1, SMTT(30) DEF ByTypes
  <2>3. QED
    BY <1>2, <2>1, <2>2
<1>7. CASE T \in {{"dec"}, {"dec", "int"}}
  <2>1. Same(x, y) = (x.n = y.n) /\ T # {"DateTime"} /\ "null" \notin T /\ T # {"int"}
    BY <1>7 DEF Same
  <2>2. ByTypes(op, x, y, T) = DecBinop(op, x.n, y.n)
    BY <1>7, <2>1 DEF ByTypes
  <2>3. DecBinop(op, x.n, y.n) = Compared(op, x.n, y.n)
    BY <1>1 DEF DecBinop
  <2>4. QED
    BY <1>2, <2>1, <2>2, <2>3
<1>8. CASE T \in {{"decimal"}, {"decimal", "int"}}
  <2>1. /\ Same(x, y) = (AsDecimal(x.n) = AsDecimal(y.n)) /\ T # {"DateTime"} /\ "null" \notin T /\ T # {"int"}
        /\ T # {"dec"} /\ T # {"dec", "int"}
    BY <1>8 DEF Same
  <2>2. ByTypes(op, x, y, T) = DecimalOp(op, AsDecimal(x.n), AsDecimal(y.n))
    BY <1>8, <2>1 DEF ByTypes
  <2>3. DecimalOp(op, AsDecimal(x.n), AsDecimal(y.n)) = Compared(op, AsDecimal(x.n), AsDecimal(y.n))
    BY <1>1 DEF DecimalOp, Arithmetic
  <2>4. QED
    BY <1>2, <2>1, <2>2, <2>3
<1>9. CASE T \in {{"bool"}, {"variant"}}
  <2>1. /\ Same(x, y) = (x.n = y.n) /\ T # {"DateTime"} /\ "null" \notin T /\ T # {"int"} /\ T # {"dec"}
        /\ T # {"dec", "int"} /\ T # {"decimal"} /\ T # {"decimal", "int"} /\ "string" \notin T
    BY <1>9 DEF Same
  <2>2. ByTypes(op, x, y, T) = Compared(op, x.n, y.n)
    BY <1>9, <2>1 DEF ByTypes
  <2>3. QED
    BY <1>2, <2>1, <2>2
<1>10. CASE /\ T \notin {{"DateTime"}, {"int"}, {"dec"}, {"dec", "int"}, {"bool"}, {"variant"}}
            /\ T \notin {{"decimal"}, {"decimal", "int"}} /\ "null" \notin T
  <2>1. Same(x, y) = (T = {"string"} /\ x.s = y.s)
    BY <1>10 DEF Same
  <2>2. \/ ByTypes(op, x, y, T) = TextOp(op, x, y) /\ "string" \in T
        \/ ByTypes(op, x, y, T) = Overloaded(op, x, y) /\ T # {"string"}
    BY <1>10 DEF ByTypes, Scalars
  <2>3. TextOp(op, x, y) = Truth((x.t = y.t /\ x.s = y.s) = (op = "=="))
    BY DEF TextOp
  <2>4. "string" \in T => (T = {"string"} <=> x.t = y.t)
    OBVIOUS
  <2>5. QED
    BY <1>3, <2>1, <2>2, <2>3, <2>4
<1>11. QED
  BY <1>4, <1>5, <1>6, <1>7, <1>8, <1>9, <1>10

LEMMA EqualAnswers ==
  ASSUME NEW a, NEW b, a.ops = {}, b.ops = {}, ~Mixes(a, b), NEW op \in {"==", "!="}
  PROVE  EvalInfix(op, a, b) = Truth(Same(Plain(a), Plain(b)) = (op = "=="))
<1>1. Plain(a).ops = {} /\ Plain(b).ops = {}
  BY DEF Plain, Value
<1>2. {Plain(a).t, Plain(b).t} # {"dec", "decimal"}
  BY DEF Mixes
<1>3. ByTypes(op, Plain(a), Plain(b), {Plain(a).t, Plain(b).t}) = Truth(Same(Plain(a), Plain(b)) = (op = "=="))
  BY <1>1, <1>2, EqualByTypes
<1>4. QED
  BY <1>3, InfixByTypes

LEMMA SwitchIs == ASSUME NEW a, NEW b PROVE ValuesEqual(a, b) = Same(Plain(a), Plain(b))
  BY DEF ValuesEqual, Same

LEMMA IncludesIs ==
  ASSUME NEW a, NEW b, a.t \notin {"function", "variant", "ptr"}, ObjDataEq(OwnedToObjData(a), b)
  PROVE  Same(Plain(a), Plain(b)) = TRUE
<1>1. /\ a.t = b.t /\ a.n = b.n /\ a.s = b.s
      /\ a.t \in {"int", "decimal", "dec", "bool", "string", "null"}
  BY DEF ObjDataEq, OwnedToObjData
<1>2. Plain(a) = a /\ Plain(b) = b
  BY <1>1 DEF Plain
<1>3. {a.t, b.t} = {a.t}
  BY <1>1
<1>4. QED
  BY <1>1, <1>2, <1>3 DEF Same

LEMMA YesIs == ASSUME NEW p \in BOOLEAN PROVE Yes(Truth(p)) <=> p
  BY Truths DEF Yes

\* What the operators, switch, match and includes may answer of a and b.
Says(a, b, said) ==
  /\ said.of = "infix" => said.answer = EvalInfix(said.op, a, b)
  /\ said.of = "switch" => said.answer = Truth(ValuesEqual(a, b))
  /\ said.of = "match" =>
       said.answer \in {Truth(ValuesEqual(a, b)), Truth(ValuesEqual(a, Null) \/ ValuesEqual(a, b))}
  /\ said.of = "includes" => said.answer = Truth(ObjDataEq(OwnedToObjData(a), b))

LEMMA EqualityHolds ==
  ASSUME NEW a, NEW b, NEW said, Says(a, b, said)
  PROVE  OneEquality(a, b, said)
<1> SUFFICES ASSUME a.ops = {}, b.ops = {}, ~Mixes(a, b)
    PROVE  /\ said.of = "infix" /\ said.op = "==" => said.answer = Equal(b, a)
           /\ said.of = "infix" /\ said.op = "!=" => (Yes(said.answer) <=> ~Yes(Equal(a, b)))
           /\ said.of = "switch" => (Yes(said.answer) <=> Yes(Equal(a, b)))
           /\ said.of = "match" => (Yes(Equal(a, b)) => Yes(said.answer))
           /\ said.of = "includes" /\ a.t \notin {"function", "variant", "ptr"} => (Yes(said.answer) => Yes(Equal(a, b)))
  BY DEF OneEquality
<1>1. PICK same \in BOOLEAN : same = Same(Plain(a), Plain(b)) /\ same = Same(Plain(b), Plain(a))
  BY SameIsOne
<1>2. ~Mixes(a, b) /\ ~Mixes(b, a)
  BY DEF Mixes
<1>3. ASSUME NEW op \in {"==", "!="}
      PROVE  EvalInfix(op, a, b) = Truth(same = (op = "==")) /\ EvalInfix(op, b, a) = Truth(same = (op = "=="))
  <2>1. EvalInfix(op, a, b) = Truth(same = (op = "=="))
    <3>1. EvalInfix(op, a, b) = Truth(Same(Plain(a), Plain(b)) = (op = "=="))
      BY <1>2, EqualAnswers
    <3>2. QED
      BY <1>1, <3>1
  <2>2. EvalInfix(op, b, a) = Truth(same = (op = "=="))
    BY <1>1, <1>2, EqualAnswers
  <2>3. QED
    BY <2>1, <2>2
<1>4. /\ Equal(a, b) = Truth(same) /\ Equal(b, a) = Truth(same)
      /\ EvalInfix("!=", a, b) = Truth(~same)
  BY <1>3 DEF Equal
<1>5. Yes(Equal(a, b)) <=> same
  BY <1>4, YesIs
<1>6. said.of = "infix" /\ said.op = "==" => said.answer = Equal(b, a)
  BY <1>4 DEF Says, Equal
<1>7. said.of = "infix" /\ said.op = "!=" => (Yes(said.answer) <=> ~Yes(Equal(a, b)))
  <2>1. Yes(Truth(~same)) <=> ~same
    BY YesIs
  <2>2. QED
    BY <1>4, <1>5, <2>1 DEF Says
<1>8. ValuesEqual(a, b) = same
  BY <1>1, SwitchIs
<1>9. said.of = "switch" => (Yes(said.answer) <=> Yes(Equal(a, b)))
  BY <1>5, <1>8, YesIs DEF Says
<1>10. said.of = "match" => (Yes(Equal(a, b)) => Yes(said.answer))
  <2>1. same => Truth(ValuesEqual(a, b)) = Truth(TRUE) /\ Truth(ValuesEqual(a, Null) \/ ValuesEqual(a, b)) = Truth(TRUE)
    BY <1>8
  <2>2. QED
    BY <1>5, <2>1 DEF Says, Yes
<1>11. said.of = "includes" /\ a.t \notin {"function", "variant", "ptr"} => (Yes(said.answer) => Yes(Equal(a, b)))
  <2>1. PICK p \in BOOLEAN : p = ObjDataEq(OwnedToObjData(a), b)
    BY DEF ObjDataEq
  <2>2. a.t \notin {"function", "variant", "ptr"} /\ p => same
    BY <1>1, <2>1, IncludesIs
  <2>3. QED
    BY <1>5, <2>1, <2>2, YesIs DEF Says
<1>12. QED
  BY <1>6, <1>7, <1>9, <1>10, <1>11

\* A recursion over numbers in which each is a multiple of the one before and a term.
Counts(f, N, first, m, term) ==
  f[0] = first /\ \A k \in 1 .. N : f[k] = m * f[k - 1] + term[k]

LEMMA NumbersAreDefined ==
  ASSUME NEW N \in Nat, NEW first \in Int, NEW m \in Int, NEW term \in [0 .. N -> Int]
  PROVE  \E f \in [0 .. N -> Int] : Counts(f, N, first, m, term)
<1> DEFINE D == 0 .. N
           base == [i \in D |-> first]
           next == [i \in D |-> i - 1]
           made == [i \in D |-> [r \in Int |-> m * r + term[i]]]
           rank == [i \in D |-> <<i, 0>>]
<1>1. GoesDown(D, Int, {0}, base, next, made, rank)
  <2>1. rank \in [D -> Nat \X Nat]
    OBVIOUS
  <2>2. \A d \in D \ {0} : next[d] \in D /\ Below(rank[next[d]], rank[d])
    BY DEF Below
  <2>3. \A d \in D \cap {0} : base[d] \in Int
    OBVIOUS
  <2>4. \A d \in D \ {0} : \A r \in Int : made[d][r] \in Int
    OBVIOUS
  <2> HIDE DEF D, base, next, made, rank
  <2>5. QED
    BY <2>1, <2>2, <2>3, <2>4 DEF GoesDown
<1>2. PICK f \in [D -> Int] : Obeys(f, D, {0}, base, next, made)
  <2> HIDE DEF D, base, next, made, rank
  <2>1. QED
    BY <1>1, RecursionIsDefined
<1>3. ASSUME NEW i \in D PROVE  f[i] = IF i = 0 THEN first ELSE m * f[i - 1] + term[i]
  <2>1. CASE i = 0
    BY <1>2, <2>1 DEF Obeys
  <2>2. CASE i # 0
    <3>1. next[i] = i - 1 /\ i - 1 \in D
      BY <2>2
    <3>2. f[i] = made[i][f[i - 1]] /\ f[i - 1] \in Int
      BY <1>2, <2>2, <3>1 DEF Obeys
    <3>3. QED
      BY <2>2, <3>2
  <2>3. QED
    BY <2>1, <2>2
<1>4. Counts(f, N, first, m, term)
  BY <1>3 DEF Counts
<1>5. QED
  BY <1>2, <1>4

LEMMA PowersOfTwo ==
  /\ TwoTo \in [0 .. WordBits -> Nat \ {0}] /\ TwoTo[0] = 1
  /\ \A k \in 1 .. WordBits : TwoTo[k] = 2 * TwoTo[k - 1]
<1>0. WordBits \in Nat \ {0}
  BY ValuesAssumption
<1>1. PICK f \in [0 .. WordBits -> Int] : f = [k \in 0 .. WordBits |-> IF k = 0 THEN 1 ELSE 2 * f[k - 1]]
  <2> DEFINE none == [k \in 0 .. WordBits |-> 0]
  <2>1. none \in [0 .. WordBits -> Int] /\ \A k \in 0 .. WordBits : none[k] = 0
    OBVIOUS
  <2> HIDE DEF none
  <2>2. PICK f \in [0 .. WordBits -> Int] : Counts(f, WordBits, 1, 2, none)
    <3>1. PICK one, two, n : one = 1 /\ two = 2 /\ n = WordBits
      OBVIOUS
    <3>2. one \in Int /\ two \in Int /\ n \in Nat /\ none \in [0 .. n -> Int]
      BY <1>0, <2>1, <3>1
    <3>3. \E f \in [0 .. n -> Int] : Counts(f, n, one, two, none)
      BY <3>2, NumbersAreDefined
    <3>4. QED
      BY <3>1, <3>3
  <2>3. \A k \in 0 .. WordBits : f[k] = IF k = 0 THEN 1 ELSE 2 * f[k - 1]
    <3>1. f[0] = 1 /\ \A k \in 1 .. WordBits : f[k] = 2 * f[k - 1] + none[k]
      BY <2>2 DEF Counts
    <3>2. SUFFICES ASSUME NEW k \in 0 .. WordBits, k # 0
                   PROVE  f[k] = 2 * f[k - 1]
      BY <3>1
    <3>3. k \in 1 .. WordBits /\ k - 1 \in 0 .. WordBits
      BY <1>0, <3>2
    <3>4. f[k - 1] \in Int /\ none[k] = 0 /\ f[k] = 2 * f[k - 1] + none[k]
      BY <2>1, <3>1, <3>3
    <3>5. PICK p \in Int : p = f[k - 1]
      BY <3>4
    <3>6. QED
      BY <3>4, <3>5
  <2>4. QED
    BY <2>3
<1>2. TwoTo = [k \in 0 .. WordBits |-> IF k = 0 THEN 1 ELSE 2 * TwoTo[k - 1]]
  BY <1>1 DEF TwoTo
<1> HIDE DEF TwoTo
<1>3. \A k \in 1 .. WordBits : TwoTo[k] = 2 * TwoTo[k - 1]
  BY <1>0, <1>2
<1>4. TwoTo[0] = 1 /\ DOMAIN TwoTo = 0 .. WordBits
  BY <1>0, <1>2
<1> DEFINE T == {k \in 0 .. WordBits : TwoTo[k] \notin Nat \ {0}}
<1>5. T = {}
  <2>1. SUFFICES ASSUME T # {} PROVE FALSE
    OBVIOUS
  <2>2. PICK k \in T : \A j \in T : k <= j
    <3>1. T \in SUBSET Nat
      BY <1>0
    <3> HIDE DEF T
    <3>2. QED
      BY <2>1, <3>1, Least
  <2>3. k # 0 /\ k - 1 \in 0 .. WordBits /\ k \in 1 .. WordBits
    BY <1>0, <1>4, <2>2
  <2>4. TwoTo[k - 1] \in Nat \ {0}
    BY <1>0, <2>2, <2>3
  <2>5. QED
    BY <1>3, <2>2, <2>3, <2>4
<1>6. QED
  BY <1>2, <1>3, <1>4, <1>5

\* What FromBits adds up.
Sums(f, b) ==
  /\ f[0] = 0
  /\ \A i \in 1 .. WordBits :
       f[i] = f[i - 1] + (IF i = WordBits THEN -1 ELSE 1) * b[i - 1] * TwoTo[i - 1]

LEMMA SumIsDefined ==
  ASSUME NEW b \in [Bits -> {0, 1}]
  PROVE  \E f \in [0 .. WordBits -> Int] : Sums(f, b) /\ FromBits(b) = f[WordBits]
<1>0. WordBits \in Nat \ {0}
  BY ValuesAssumption
<1> DEFINE term == [k \in 0 .. WordBits |->
                      IF k = 0 THEN 0 ELSE (IF k = WordBits THEN -1 ELSE 1) * b[k - 1] * TwoTo[k - 1]]
<1>1. term \in [0 .. WordBits -> Int]
  <2>1. ASSUME NEW k \in 1 .. WordBits PROVE (IF k = WordBits THEN -1 ELSE 1) * b[k - 1] * TwoTo[k - 1] \in Int
    <3>1. b[k - 1] \in Int /\ TwoTo[k - 1] \in Int
      BY <1>0, PowersOfTwo DEF Bits
    <3>2. QED
      BY <3>1
  <2>2. QED
    BY <1>0, <2>1
<1> HIDE DEF term
<1>2. PICK f \in [0 .. WordBits -> Int] : Counts(f, WordBits, 0, 1, term)
  <2>1. PICK zero, one, n : zero = 0 /\ one = 1 /\ n = WordBits
    OBVIOUS
  <2>2. zero \in Int /\ one \in Int /\ n \in Nat /\ term \in [0 .. n -> Int]
    BY <1>0, <1>1, <2>1
  <2>3. \E f \in [0 .. n -> Int] : Counts(f, n, zero, one, term)
    BY <2>2, NumbersAreDefined
  <2>4. QED
    BY <2>1, <2>3
<1>3. f = [i \in 0 .. WordBits |->
            IF i = 0 THEN 0
            ELSE f[i - 1] + (IF i = WordBits THEN -1 ELSE 1) * b[i - 1] * TwoTo[i - 1]]
  <2>1. ASSUME NEW k \in 1 .. WordBits
        PROVE  f[k] = f[k - 1] + (IF k = WordBits THEN -1 ELSE 1) * b[k - 1] * TwoTo[k - 1]
    <3>1. f[k] = f[k - 1] + term[k]
      BY <1>0, <1>1, <1>2 DEF Counts
    <3>2. term[k] = (IF k = WordBits THEN -1 ELSE 1) * b[k - 1] * TwoTo[k - 1]
      BY <1>0 DEF term
    <3>3. QED
      BY <3>1, <3>2
  <2>2. f[0] = 0
    BY <1>2 DEF Counts
  <2>3. QED
    BY <1>0, <2>1, <2>2
<1> DEFINE sum == CHOOSE g : g = [i \in 0 .. WordBits |->
            IF i = 0 THEN 0
            ELSE g[i - 1] + (IF i = WordBits THEN -1 ELSE 1) * b[i - 1] * TwoTo[i - 1]]
<1>4. sum = [i \in 0 .. WordBits |->
            IF i = 0 THEN 0
            ELSE sum[i - 1] + (IF i = WordBits THEN -1 ELSE 1) * b[i - 1] * TwoTo[i - 1]]
  BY <1>3
<1>5. FromBits(b) = sum[WordBits]
  BY DEF FromBits
<1> HIDE DEF sum
<1>6. Sums(sum, b) /\ Sums(f, b)
  BY <1>0, <1>3, <1>4 DEF Sums
<1> DEFINE T == {k \in 0 .. WordBits : sum[k] # f[k]}
<1>7. T = {}
  <2>1. SUFFICES ASSUME T # {} PROVE FALSE
    OBVIOUS
  <2>2. PICK k \in T : \A j \in T : k <= j
    <3>1. T \in SUBSET Nat
      BY <1>0
    <3> HIDE DEF T
    <3>2. QED
      BY <2>1, <3>1, Least
  <2>3. k # 0 /\ k - 1 \in 0 .. WordBits /\ k \in 1 .. WordBits
    BY <1>0, <1>6, <2>2 DEF Sums
  <2>4. sum[k - 1] = f[k - 1]
    BY <1>0, <2>2, <2>3
  <2>5. QED
    BY <1>6, <2>2, <2>3, <2>4 DEF Sums
<1>8. QED
  BY <1>0, <1>5, <1>6, <1>7

LEMMA SumsFit ==
  ASSUME NEW b \in [Bits -> {0, 1}]
  PROVE  FromBits(b) \in Int /\ Fits(FromBits(b))
<1>0. WordBits \in Nat \ {0}
  BY ValuesAssumption
<1>1. PICK f \in [0 .. WordBits -> Int] : Sums(f, b) /\ FromBits(b) = f[WordBits]
  BY SumIsDefined
<1> DEFINE T == {k \in 0 .. WordBits - 1 : ~(0 <= f[k] /\ f[k] <= TwoTo[k] - 1)}
<1>2. T = {}
  <2>1. SUFFICES ASSUME T # {} PROVE FALSE
    OBVIOUS
  <2>2. PICK k \in T : \A j \in T : k <= j
    <3>1. T \in SUBSET Nat
      BY <1>0
    <3> HIDE DEF T
    <3>2. QED
      BY <2>1, <3>1, Least
  <2>3. k # 0 /\ k - 1 \in 0 .. WordBits - 1 /\ k \in 1 .. WordBits /\ k # WordBits
    <3>1. f[0] = 0 /\ TwoTo[0] = 1
      BY <1>1, PowersOfTwo DEF Sums
    <3>2. k # 0
      BY <2>2, <3>1
    <3>3. QED
      BY <1>0, <2>2, <3>2
  <2>4. 0 <= f[k - 1] /\ f[k - 1] <= TwoTo[k - 1] - 1
    BY <1>0, <2>2, <2>3
  <2>5. b[k - 1] \in {0, 1} /\ TwoTo[k - 1] \in Nat /\ f[k - 1] \in Int
    <3>1. k - 1 \in Bits /\ k - 1 \in 0 .. WordBits
      BY <1>0, <2>3 DEF Bits
    <3>2. QED
      BY <3>1, PowersOfTwo
  <2>6. f[k] = f[k - 1] + b[k - 1] * TwoTo[k - 1]
    <3>1. f[k] = f[k - 1] + 1 * b[k - 1] * TwoTo[k - 1]
      BY <1>1, <2>3 DEF Sums
    <3>2. QED
      BY <2>5, <3>1
  <2>7. TwoTo[k] = 2 * TwoTo[k - 1]
    BY <2>3, PowersOfTwo
  <2>8. b[k - 1] * TwoTo[k - 1] = 0 \/ b[k - 1] * TwoTo[k - 1] = TwoTo[k - 1]
    BY <2>5
  <2>9. QED
    BY <2>2, <2>4, <2>5, <2>6, <2>7, <2>8
<1> DEFINE k == WordBits - 1
<1>3. k \in 0 .. WordBits - 1 /\ k + 1 = WordBits /\ WordBits \in 1 .. WordBits
  BY <1>0
<1>4. 0 <= f[k] /\ f[k] <= TwoTo[k] - 1
  BY <1>2, <1>3
<1>5. b[k] \in {0, 1} /\ TwoTo[k] \in Nat /\ f[k] \in Int
  BY <1>0, PowersOfTwo DEF Bits
<1>6. f[WordBits] = f[k] + (-1) * b[k] * TwoTo[k]
  BY <1>1, <1>3 DEF Sums
<1>7. (-1) * b[k] * TwoTo[k] = 0 \/ (-1) * b[k] * TwoTo[k] = -TwoTo[k]
  BY <1>5
<1> HIDE DEF k
<1>8. f[WordBits] \in -TwoTo[k] .. TwoTo[k] - 1
  BY <1>4, <1>5, <1>6, <1>7
<1>9. QED
  BY <1>1, <1>5, <1>8 DEF Fits, WordLow, WordHigh, k

LEMMA SumsSubtract ==
  ASSUME NEW b \in [Bits -> {0, 1}], NEW c \in [Bits -> {0, 1}], NEW d \in [Bits -> {0, 1}],
         \A i \in Bits : d[i] = b[i] - c[i]
  PROVE  FromBits(d) = FromBits(b) - FromBits(c)
<1>0. WordBits \in Nat \ {0}
  BY ValuesAssumption
<1>1. PICK f \in [0 .. WordBits -> Int] : Sums(f, b) /\ FromBits(b) = f[WordBits]
  BY SumIsDefined
<1>2. PICK g \in [0 .. WordBits -> Int] : Sums(g, c) /\ FromBits(c) = g[WordBits]
  BY SumIsDefined
<1>3. PICK h \in [0 .. WordBits -> Int] : Sums(h, d) /\ FromBits(d) = h[WordBits]
  BY SumIsDefined
<1> DEFINE T == {k \in 0 .. WordBits : h[k] # f[k] - g[k]}
<1>4. T = {}
  <2>1. SUFFICES ASSUME T # {} PROVE FALSE
    OBVIOUS
  <2>2. PICK k \in T : \A j \in T : k <= j
    <3>1. T \in SUBSET Nat
      BY <1>0
    <3> HIDE DEF T
    <3>2. QED
      BY <2>1, <3>1, Least
  <2>3. k # 0 /\ k - 1 \in 0 .. WordBits /\ k \in 1 .. WordBits /\ k - 1 \in Bits
    BY <1>0, <1>1, <1>2, <1>3, <2>2 DEF Sums, Bits
  <2>4. h[k - 1] = f[k - 1] - g[k - 1]
    BY <1>0, <2>2, <2>3
  <2>5. PICK s \in {-1, 1} : s = IF k = WordBits THEN -1 ELSE 1
    OBVIOUS
  <2>6. PICK w \in Int : w = TwoTo[k - 1]
    BY <2>3, PowersOfTwo
  <2>7. /\ f[k] = f[k - 1] + s * b[k - 1] * w /\ g[k] = g[k - 1] + s * c[k - 1] * w
        /\ h[k] = h[k - 1] + s * d[k - 1] * w
    BY <1>1, <1>2, <1>3, <2>3, <2>5, <2>6 DEF Sums
  <2>8. /\ b[k - 1] \in {0, 1} /\ c[k - 1] \in {0, 1} /\ d[k - 1] = b[k - 1] - c[k - 1]
        /\ f[k - 1] \in Int /\ g[k - 1] \in Int
    BY <2>3
  <2>9. s * d[k - 1] * w = s * b[k - 1] * w - s * c[k - 1] * w
    BY <2>8
  <2>10. s * b[k - 1] * w \in Int /\ s * c[k - 1] * w \in Int
    BY <2>8
  <2>11. h[k] = f[k] - g[k]
    BY <2>4, <2>7, <2>8, <2>9, <2>10
  <2>12. QED
    BY <2>2, <2>11
<1>5. h[WordBits] = f[WordBits] - g[WordBits]
  <2>1. WordBits \in 0 .. WordBits
    BY <1>0
  <2>2. QED
    BY <1>4, <2>1
<1> HIDE DEF T
<1>6. QED
  BY <1>1, <1>2, <1>3, <1>5

LEMMA Divided ==
  ASSUME NEW n \in Int, NEW p \in Nat \ {0}
  PROVE  /\ n \div p \in Int /\ n % p \in Nat /\ n % p < p
         /\ n = p * (n \div p) + (n % p) /\ (n >= 0 => n \div p \in Nat)
  OBVIOUS

LEMMA Undivided ==
  ASSUME NEW q \in Int, NEW p \in Nat \ {0}
  PROVE  (p * q) % p = 0
<1>1. PICK x \in Int : x = p * q
  OBVIOUS
<1> DEFINE d == x \div p
           m == x % p
<1>2. d \in Int /\ m \in Nat /\ m < p /\ x = p * d + m
  BY Divided
<1> HIDE DEF d, m
<1>3. p * (q - d) = m
  BY <1>1, <1>2
<1>4. q - d >= 1 => p * (q - d) >= p
  BY <1>2
<1>5. q - d <= -1 => p * (q - d) <= -p
  BY <1>2
<1>6. q - d = 0
  BY <1>2, <1>3, <1>4, <1>5
<1>7. m = 0
  BY <1>2, <1>3, <1>6
<1>8. QED
  BY <1>1, <1>7 DEF m

LEMMA WordIs ==
  \E M \in Nat \ {0} : WordLow = -M /\ WordHigh = M - 1 /\ \A n : Fits(n) <=> n \in -M .. M - 1
<1>0. WordBits - 1 \in 0 .. WordBits
  BY ValuesAssumption
<1>1. TwoTo[WordBits - 1] \in Nat \ {0}
  BY <1>0, PowersOfTwo
<1>2. QED
  BY <1>1 DEF Fits, WordLow, WordHigh

LEMMA IntegerIs ==
  ASSUME NEW n \in Int
  PROVE  /\ Answer(Integer(n)).kind = "value" /\ Answer(Integer(n)).value.t = "int"
         /\ Answer(Integer(n)).value.n \div 2 = n
  BY DEF Answer, Integer, Value

LEMMA FailureIs ==
  \A why \in {"Overflow", "DivisionByZero", "TypeError"} : Failure(why).kind = why
  BY DEF Failure

LEMMA CheckedIs ==
  ASSUME NEW n \in Int
  PROVE  /\ Fits(n) => Checked(n) = Answer(Integer(n)) /\ Checked(n).value.n \div 2 = n
         /\ ~Fits(n) => Checked(n).kind = "Overflow"
         /\ Checked(n).kind = "value" => Fits(n) /\ Checked(n).value.n \div 2 = n
  BY IntegerIs, FailureIs DEF Checked

LEMMA MagnitudeIs ==
  ASSUME NEW n \in Int
  PROVE  /\ Magnitude(n) \in Nat /\ (n # 0 => Magnitude(n) # 0) /\ Magnitude(-n) = Magnitude(n)
         /\ (n >= 0 => Magnitude(n) = n) /\ (n < 0 => Magnitude(n) = -n)
  BY DEF Magnitude

LEMMA QuotientIs ==
  ASSUME NEW l \in Int, NEW r \in Int, r # 0
  PROVE  Quotient(l, r) \in Int /\ Magnitude(l - Quotient(l, r) * r) < Magnitude(r)
<1>1. PICK a \in Nat, m \in Nat \ {0} : a = Magnitude(l) /\ m = Magnitude(r)
  BY MagnitudeIs
<1>2. PICK d \in Int, e \in Nat : d = a \div m /\ e < m /\ a = m * d + e
  <2>1. a \div m \in Int /\ a % m \in Nat /\ a % m < m /\ a = m * (a \div m) + (a % m)
    BY Divided
  <2>2. QED
    BY <2>1
<1>3. Quotient(l, r) = IF (l < 0) = (r < 0) THEN d ELSE -d
  BY <1>1, <1>2 DEF Quotient
<1>4. l = (IF l < 0 THEN -a ELSE a) /\ r = IF r < 0 THEN -m ELSE m
  BY <1>1 DEF Magnitude
<1>5. l - Quotient(l, r) * r = IF l < 0 THEN -e ELSE e
  <2>1. CASE l < 0 /\ r < 0
    BY <1>2, <1>3, <1>4, <2>1
  <2>2. CASE l < 0 /\ ~(r < 0)
    BY <1>2, <1>3, <1>4, <2>2
  <2>3. CASE ~(l < 0) /\ r < 0
    BY <1>2, <1>3, <1>4, <2>3
  <2>4. CASE ~(l < 0) /\ ~(r < 0)
    BY <1>2, <1>3, <1>4, <2>4
  <2>5. QED
    BY <2>1, <2>2, <2>3, <2>4
<1>6. QED
  BY <1>1, <1>2, <1>3, <1>5 DEF Magnitude

LEMMA RemainderIs ==
  ASSUME NEW l \in Int, NEW r \in Int, r # 0
  PROVE  /\ Remainder(l, r) \in Int /\ Magnitude(Remainder(l, r)) < Magnitude(r)
         /\ (l - Remainder(l, r)) % Magnitude(r) = 0 /\ Remainder(l, r) * l >= 0
         /\ Magnitude(Remainder(l, r)) <= Magnitude(l) /\ (Remainder(l, r) < 0 => l < 0)
<1>1. PICK a \in Nat, m \in Nat \ {0} : a = Magnitude(l) /\ m = Magnitude(r)
  BY MagnitudeIs
<1>2. PICK d \in Nat, e \in Nat : e = a % m /\ e < m /\ a = m * d + e
  <2>1. a \div m \in Nat /\ a % m \in Nat /\ a % m < m /\ a = m * (a \div m) + (a % m)
    BY Divided
  <2>2. QED
    BY <2>1
<1>3. Remainder(l, r) = (IF l < 0 THEN -e ELSE e) /\ l = IF l < 0 THEN -a ELSE a
  BY <1>1, <1>2 DEF Remainder, Magnitude
<1> DEFINE q == IF l < 0 THEN -d ELSE d
<1>4. q \in Int /\ l - Remainder(l, r) = m * q
  <2>1. CASE l < 0
    BY <1>2, <1>3, <2>1
  <2>2. CASE ~(l < 0)
    BY <1>2, <1>3, <2>2
  <2>3. QED
    BY <2>1, <2>2
<1> HIDE DEF q
<1>5. (l - Remainder(l, r)) % m = 0
  BY <1>4, Undivided
<1>6. e <= a
  <2>1. m * d \in Nat
    OBVIOUS
  <2>2. QED
    BY <1>2, <2>1
<1>7. Magnitude(Remainder(l, r)) = e
  BY <1>3 DEF Magnitude
<1>8. Remainder(l, r) * l >= 0
  <2>1. e * a >= 0 /\ (-e) * (-a) = e * a
    OBVIOUS
  <2>2. QED
    BY <1>3, <2>1
<1>9. Remainder(l, r) \in Int /\ (Remainder(l, r) < 0 => l < 0)
  BY <1>3
<1>10. QED
  BY <1>1, <1>2, <1>5, <1>6, <1>7, <1>8, <1>9

LEMMA ShiftedIs ==
  ASSUME NEW l \in Int, Fits(l), NEW p \in Nat \ {0}
  PROVE  /\ l \div p \in Int /\ Fits(l \div p)
         /\ (l \div p) * p <= l /\ l < ((l \div p) + 1) * p
<1>1. PICK q \in Int, e \in Nat : q = l \div p /\ e < p /\ l = p * q + e
  <2>1. l \div p \in Int /\ l % p \in Nat /\ l % p < p /\ l = p * (l \div p) + (l % p)
    BY Divided
  <2>2. QED
    BY <2>1
<1>2. q * p <= l /\ l < (q + 1) * p
  BY <1>1
<1>3. PICK M \in Nat \ {0} : \A n : Fits(n) <=> n \in -M .. M - 1
  BY WordIs
<1>4. q >= 0 => q <= l
  <2>1. q >= 0 => q <= p * q
    OBVIOUS
  <2>2. QED
    BY <1>1, <2>1
<1>5. q < 0 => l <= q
  <2>1. q < 0 => p * (q + 1) <= q + 1
    OBVIOUS
  <2>2. QED
    BY <1>1, <1>2, <2>1
<1>6. Fits(q)
  <2>1. l \in -M .. M - 1
    BY <1>3
  <2>2. q \in -M .. M - 1
    BY <1>4, <1>5, <2>1
  <2>3. QED
    BY <1>3, <2>2
<1>7. QED
  BY <1>1, <1>2, <1>6

\* The bits of a word and what the three operators make of them.
LEMMA BitsAre ==
  ASSUME NEW l \in Int, NEW r \in Int
  PROVE  /\ [i \in Bits |-> Bit(l, i)] \in [Bits -> {0, 1}]
         /\ [i \in Bits |-> Bit(l, i) * Bit(r, i)] \in [Bits -> {0, 1}]
         /\ [i \in Bits |-> IF Bit(l, i) + Bit(r, i) = 0 THEN 0 ELSE 1] \in [Bits -> {0, 1}]
         /\ [i \in Bits |-> (Bit(l, i) + Bit(r, i)) % 2] \in [Bits -> {0, 1}]
         /\ \A i \in Bits : (Bit(l, i) + Bit(r, i)) % 2
                            = (IF Bit(l, i) + Bit(r, i) = 0 THEN 0 ELSE 1) - Bit(l, i) * Bit(r, i)
<1>1. ASSUME NEW n \in Int, NEW i \in Bits PROVE Bit(n, i) \in {0, 1}
  <2>1. TwoTo[i] \in Nat \ {0}
    BY ValuesAssumption, PowersOfTwo DEF Bits
  <2>2. PICK q \in Int : q = n \div TwoTo[i]
    BY <2>1, Divided
  <2>3. QED
    BY <2>2 DEF Bit
<1>2. ASSUME NEW x \in {0, 1}, NEW y \in {0, 1}
      PROVE  /\ x * y \in {0, 1} /\ (x + y) % 2 \in {0, 1}
             /\ (x + y) % 2 = (IF x + y = 0 THEN 0 ELSE 1) - x * y
  OBVIOUS
<1>3. QED
  BY <1>1, <1>2

LEMMA BitwiseFits ==
  ASSUME NEW l \in Int, NEW r \in Int, NEW op \in {"&", "|", "^", "<<"}
  PROVE  \/ IntegerOp(op, l, r) = Failure("TypeError")
         \/ \E n \in Int : Fits(n) /\ IntegerOp(op, l, r) = Answer(Integer(n))
<1>1. CASE op = "&"
  BY <1>1, BitsAre, SumsFit DEF IntegerOp
<1>2. CASE op = "|"
  BY <1>2, BitsAre, SumsFit DEF IntegerOp
<1>3. CASE op = "^"
  BY <1>3, BitsAre, SumsFit DEF IntegerOp
<1>4. CASE op = "<<"
  <2>1. CASE r \in Bits
    <3>1. TwoTo[r] \in Nat
      BY <2>1, ValuesAssumption, PowersOfTwo DEF Bits
    <3>2. PICK n \in Int : n = l * TwoTo[r]
      BY <3>1
    <3>3. Wrapped(n) \in Int /\ Fits(Wrapped(n))
      BY BitsAre, SumsFit DEF Wrapped
    <3>4. QED
      BY <1>4, <2>1, <3>2, <3>3 DEF IntegerOp
  <2>2. QED
    BY <1>4, <2>1 DEF IntegerOp
<1>5. QED
  BY <1>1, <1>2, <1>3, <1>4

LEMMA XorIs ==
  ASSUME NEW l \in Int, NEW r \in Int
  PROVE  IntegerOp("^", l, r)
         = IntegerOp("-", IntegerOp("|", l, r).value.n \div 2, IntegerOp("&", l, r).value.n \div 2)
<1> DEFINE both == [i \in Bits |-> Bit(l, i) * Bit(r, i)]
           any == [i \in Bits |-> IF Bit(l, i) + Bit(r, i) = 0 THEN 0 ELSE 1]
           one == [i \in Bits |-> (Bit(l, i) + Bit(r, i)) % 2]
<1>1. /\ IntegerOp("^", l, r) = Answer(Integer(FromBits(one)))
      /\ IntegerOp("|", l, r) = Answer(Integer(FromBits(any)))
      /\ IntegerOp("&", l, r) = Answer(Integer(FromBits(both)))
  BY DEF IntegerOp
<1>2. /\ both \in [Bits -> {0, 1}] /\ any \in [Bits -> {0, 1}] /\ one \in [Bits -> {0, 1}]
      /\ \A i \in Bits : one[i] = any[i] - both[i]
  BY BitsAre
<1> HIDE DEF both, any, one
<1>3. FromBits(one) = FromBits(any) - FromBits(both)
  BY <1>2, SumsSubtract
<1>4. FromBits(one) \in Int /\ Fits(FromBits(one)) /\ FromBits(any) \in Int /\ FromBits(both) \in Int
  BY <1>2, SumsFit
<1>5. /\ IntegerOp("|", l, r).value.n \div 2 = FromBits(any)
      /\ IntegerOp("&", l, r).value.n \div 2 = FromBits(both)
  BY <1>1, <1>4, IntegerIs
<1>6. \A m, n : IntegerOp("-", m, n) = Checked(m - n)
  BY DEF IntegerOp
<1>7. Checked(FromBits(one)) = Answer(Integer(FromBits(one)))
  BY <1>4, CheckedIs
<1>8. QED
  BY <1>1, <1>3, <1>5, <1>6, <1>7

LEMMA ExactHolds ==
  ASSUME NEW l \in Int, Fits(l), NEW r \in Int, Fits(r), NEW op \in Arithmetic \cup Bitwise
  PROVE  Exact(l, r, op, IntegerOp(op, l, r))
<1>1. CASE op \in {"+", "-", "*"}
  <2>1. PICK n \in Int : n = CASE op = "+" -> l + r [] op = "-" -> l - r [] op = "*" -> l * r
    BY <1>1
  <2>2. IntegerOp(op, l, r) = Checked(n)
    BY <1>1, <2>1 DEF IntegerOp
  <2>3. QED
    BY <1>1, <2>1, <2>2, CheckedIs DEF Exact
<1>2. CASE op = "/"
  <2>1. CASE r = 0
    BY <1>2, <2>1, FailureIs DEF IntegerOp, Exact
  <2>2. CASE r # 0
    <3>1. IntegerOp(op, l, r) = Checked(Quotient(l, r))
      BY <1>2, <2>2 DEF IntegerOp
    <3>2. QED
      BY <1>2, <2>2, <3>1, QuotientIs, CheckedIs DEF Exact
  <2>3. QED
    BY <2>1, <2>2
<1>3. CASE op = "%"
  <2>1. CASE r = 0 \/ (l = WordLow /\ r = -1)
    BY <1>3, <2>1, FailureIs DEF IntegerOp, Exact
  <2>2. CASE ~(r = 0 \/ (l = WordLow /\ r = -1))
    <3>1. IntegerOp(op, l, r) = Answer(Integer(Remainder(l, r)))
      BY <1>3, <2>2 DEF IntegerOp
    <3>2. PICK n \in Int : n = Remainder(l, r) /\ Magnitude(n) < Magnitude(r)
                           /\ (l - n) % Magnitude(r) = 0 /\ n * l >= 0
                           /\ Magnitude(n) <= Magnitude(l) /\ (n < 0 => l < 0)
      BY <2>2, RemainderIs
    <3>3. Fits(n)
      <4>1. PICK M \in Nat \ {0} : \A k : Fits(k) <=> k \in -M .. M - 1
        BY WordIs
      <4>2. l \in -M .. M - 1
        BY <4>1
      <4>3. n \in -M .. M - 1
        BY <3>2, <4>2 DEF Magnitude
      <4>4. QED
        BY <4>1, <4>3
    <3>4. QED
      BY <1>3, <3>1, <3>2, <3>3, IntegerIs DEF Exact
  <2>3. QED
    BY <2>1, <2>2
<1>4. CASE op = "**"
  <2>1. CASE r < 0
    <3>1. IntegerOp(op, l, r).value.t = "decimal"
      BY <1>4, <2>1 DEF IntegerOp, Answer, Value
    <3>2. QED
      BY <1>4, <3>1 DEF Exact
  <2>2. CASE ~(r < 0)
    <3>1. PICK n : n = Power(l, r) /\ IntegerOp(op, l, r) = Checked(n)
      BY <1>4, <2>2 DEF IntegerOp
    <3>2. CASE Fits(n)
      <4>1. n \in Int
        BY <3>2, WordIs
      <4>2. QED
        BY <1>4, <3>1, <3>2, <4>1, CheckedIs DEF Exact
    <3>3. CASE ~Fits(n)
      BY <1>4, <3>1, <3>3, FailureIs DEF Checked, Exact
    <3>4. QED
      BY <3>2, <3>3
  <2>3. QED
    BY <2>1, <2>2
<1>5. CASE op \in {"&", "|", "<<"}
  BY <1>5, BitwiseFits, IntegerIs, FailureIs DEF Exact
<1>6. CASE op = "^"
  <2>1. PICK n \in Int : Fits(n) /\ IntegerOp(op, l, r) = Answer(Integer(n))
    BY <1>6, BitsAre, SumsFit DEF IntegerOp
  <2>2. QED
    BY <1>6, <2>1, XorIs, IntegerIs DEF Exact
<1>7. CASE op = ">>"
  <2>1. CASE r \in Bits
    <3>1. TwoTo[r] \in Nat \ {0}
      BY <2>1, ValuesAssumption, PowersOfTwo DEF Bits
    <3>2. PICK p \in Nat \ {0} : p = TwoTo[r]
      BY <3>1
    <3>3. PICK n \in Int : n = l \div p /\ Fits(n) /\ n * p <= l /\ l < (n + 1) * p
      BY ShiftedIs
    <3>4. IntegerOp(op, l, r) = Answer(Integer(n))
      BY <1>7, <2>1, <3>2, <3>3 DEF IntegerOp
    <3>5. QED
      BY <1>7, <3>2, <3>3, <3>4, IntegerIs DEF Exact
  <2>2. CASE r \notin Bits
    BY <1>7, <2>2, FailureIs DEF IntegerOp, Exact
  <2>3. QED
    BY <2>1, <2>2
<1>8. QED
  BY <1>1, <1>2, <1>3, <1>4, <1>5, <1>6, <1>7 DEF Arithmetic, Bitwise

LEMMA IntsByTypes ==
  ASSUME NEW op, NEW x, NEW y
  PROVE  ByTypes(op, x, y, {"int"}) = IF op \in Comparisons THEN Compared(op, x.n, y.n)
                                      ELSE IntegerOp(op, x.n \div 2, y.n \div 2)
<1>1. PICK T : T = {"int"}
  OBVIOUS
<1>2. /\ T \notin {{"DateTime"}, {"dec"}, {"dec", "int"}, {"bool"}, {"variant"}, {"dec", "decimal"}}
      /\ T \notin {{"decimal"}, {"decimal", "int"}} /\ "string" \notin T /\ "null" \notin T
  BY <1>1
<1>3. ByTypes(op, x, y, T) = IF op \in Comparisons THEN Compared(op, x.n, y.n)
                             ELSE IntegerOp(op, x.n \div 2, y.n \div 2)
  BY <1>1, <1>2 DEF ByTypes
<1>4. QED
  BY <1>1, <1>3

LEMMA NeverWraps ==
  ASSUME NEW a \in Samples, NEW b \in Samples, NEW said, Says(a, b, said),
         said.op \in Comparisons \cup Arithmetic \cup Bitwise,
         Plain(a).t = "int", Plain(b).t = "int", said.of = "infix"
  PROVE  Exact(Plain(a).n \div 2, Plain(b).n \div 2, said.op, said.answer)
<1> DEFINE l == Plain(a).n \div 2
           r == Plain(b).n \div 2
<1>1. l \in Int /\ r \in Int /\ Fits(l) /\ Fits(r)
  BY ValuesAssumption, WordIs
<1>2. said.answer = ByTypes(said.op, Plain(a), Plain(b), {"int"})
  BY InfixByTypes DEF Says
<1>3. CASE said.op \in Comparisons
  <2>1. said.answer = Compared(said.op, Plain(a).n, Plain(b).n)
    BY <1>2, <1>3 DEF ByTypes
  <2>2. said.answer.value.t = "bool"
    BY <2>1 DEF Compared, Truth, Answer, Bool, Value
  <2>3. said.op \notin {"+", "-", "*", "%", "/", ">>", "^"}
    BY <1>3 DEF Comparisons
  <2>4. QED
    BY <2>2, <2>3 DEF Exact
<1>4. CASE said.op \in Arithmetic \cup Bitwise
  <2>1. said.op \notin Comparisons
    BY <1>4 DEF Comparisons, Arithmetic, Bitwise
  <2>2. said.answer = IntegerOp(said.op, l, r)
    <3>1. ByTypes(said.op, Plain(a), Plain(b), {"int"})
          = IF said.op \in Comparisons THEN Compared(said.op, Plain(a).n, Plain(b).n) ELSE IntegerOp(said.op, l, r)
      BY IntsByTypes
    <3>2. QED
      BY <1>2, <2>1, <3>1
  <2>3. QED
    BY <1>1, <1>4, <2>2, ExactHolds
<1>5. QED
  BY <1>3, <1>4

ValuesInv == leftValue \in Samples /\ rightValue \in Samples /\ OperatorsAgree

\* What an action says is what Says allows.
LEMMA EachSays ==
  ASSUME ValuesNext
  PROVE  /\ Says(leftValue, rightValue, outcome') /\ UNCHANGED <<leftValue, rightValue>>
         /\ outcome'.of = "infix" => outcome'.op \in Comparisons \cup Arithmetic \cup Bitwise
<1>1. CASE Infix
  BY <1>1 DEF Infix, Say, Says
<1>2. CASE Prefix
  BY <1>2 DEF Prefix, Say, Says
<1>3. CASE ShortCircuit
  BY <1>3 DEF ShortCircuit, Say, Says
<1>4. CASE Switch
  BY <1>4 DEF Switch, Say, Says
<1>5. CASE Match
  <2>1. PICK literals \in {<<rightValue>>, <<Null, rightValue>>} :
          Say("match", "==", Truth(\E k \in DOMAIN literals : ValuesEqual(leftValue, literals[k])))
    BY <1>5 DEF Match
  <2>2. PICK p \in BOOLEAN, q \in BOOLEAN :
          p = ValuesEqual(leftValue, rightValue) /\ q = ValuesEqual(leftValue, Null)
    BY SwitchIs, SameIsOne
  <2>3. (\E k \in DOMAIN literals : ValuesEqual(leftValue, literals[k])) \in {p, q \/ p}
    <3>1. CASE literals = <<rightValue>>
      <4>1. DOMAIN literals = {1} /\ literals[1] = rightValue
        BY <3>1
      <4>2. QED
        BY <2>2, <4>1
    <3>2. CASE literals = <<Null, rightValue>>
      <4>1. DOMAIN literals = {1, 2} /\ literals[1] = Null /\ literals[2] = rightValue
        BY <3>2
      <4>2. QED
        BY <2>2, <4>1
    <3>3. QED
      BY <3>1, <3>2
  <2>4. QED
    BY <2>1, <2>2, <2>3 DEF Say, Says
<1>6. CASE Includes
  BY <1>6 DEF Includes, Say, Says
<1>7. CASE Is
  BY <1>7 DEF Is, Say, Says
<1>8. CASE Pass
  BY <1>8 DEF Pass, Say, Says
<1>9. QED
  BY <1>1, <1>2, <1>3, <1>4, <1>5, <1>6, <1>7, <1>8 DEF ValuesNext

LEMMA ValuesStep ==
  ASSUME ValuesInv, [ValuesNext]_valuesVars
  PROVE  ValuesInv'
<1>1. CASE UNCHANGED valuesVars
  BY <1>1 DEF ValuesInv, valuesVars, OperatorsAgree, EqualityIsOne, IntegersNeverWrap
<1>2. CASE ValuesNext
  <2>1. /\ Says(leftValue, rightValue, outcome') /\ UNCHANGED <<leftValue, rightValue>>
        /\ outcome'.of = "infix" => outcome'.op \in Comparisons \cup Arithmetic \cup Bitwise
    BY <1>2, EachSays
  <2>2. EqualityIsOne'
    <3>1. OneEquality(leftValue, rightValue, outcome')
      BY <2>1, EqualityHolds
    <3>2. QED
      BY <2>1, <3>1 DEF EqualityIsOne
  <2>3. IntegersNeverWrap'
    BY <2>1, NeverWraps DEF IntegersNeverWrap, ValuesInv
  <2>4. QED
    BY <2>1, <2>2, <2>3 DEF ValuesInv, OperatorsAgree
<1>3. QED
  BY <1>1, <1>2

LEMMA ValuesStart == ValuesInit => ValuesInv
<1> SUFFICES ASSUME ValuesInit PROVE ValuesInv
  OBVIOUS
<1>1. outcome.of = "nothing"
  BY DEF ValuesInit, Idle
<1>2. EqualityIsOne
  BY <1>1 DEF EqualityIsOne, OneEquality
<1>3. IntegersNeverWrap
  BY <1>1 DEF IntegersNeverWrap
<1>4. QED
  BY <1>2, <1>3 DEF ValuesInv, ValuesInit, OperatorsAgree

\* ==, !=, switch, match and includes are one equality on values whose classes
\* define none, and an operator on ints is exact or an error (ops.rs, control.rs).
THEOREM OperatorsMeanOneThing == ValuesSpec => []OperatorsAgree
<1>1. ValuesInit => ValuesInv
  BY ValuesStart
<1>2. ValuesInv /\ [ValuesNext]_valuesVars => ValuesInv'
  BY ValuesStep
<1>3. ValuesInv => OperatorsAgree
  BY DEF ValuesInv
<1>4. QED
  BY <1>1, <1>2, <1>3, PTL DEF ValuesSpec

-----------------------------------------------------------------------------
(* Training.                                                                 *)

Numbers == 0 .. Modulus - 1
States == [p : Numbers, m : Numbers, v : Numbers, step : 0 .. MaxSteps]

\* A number less than the modulus is its own rest, whatever multiple is added.
LEMMA RestIs ==
  ASSUME NEW n \in Int, NEW r \in Numbers, NEW k \in Int, n = r + k * Modulus
  PROVE  Mod(n) = r
<1>1. Modulus \in Nat \ {0}
  BY TrainingAssumption
<1>2. PICK M \in Nat \ {0} : M = Modulus
  BY <1>1
<1>3. PICK q \in Int : q = n \div M
  BY <1>2
<1>4. PICK s \in 0 .. M - 1 : s = n % M
  BY <1>2
<1>5. n = M * q + s
  BY <1>2, <1>3, <1>4, Divided
<1>6. (q - k) * M = r - s
  <2>1. r \in Int /\ s \in Int
    BY <1>2 DEF Numbers
  <2>2. M * q + s = r + k * M
    BY <1>2, <1>5
  <2>3. QED
    BY <2>1, <2>2
<1>7. r \in 0 .. M - 1
  BY <1>2 DEF Numbers
<1>8. ~(q - k >= 1)
  <2>1. q - k >= 1 => (q - k) * M >= M
    BY <1>2
  <2>2. QED
    BY <1>6, <1>7, <2>1
<1>9. ~(q - k <= -1)
  <2>1. q - k <= -1 => (q - k) * M <= -M
    BY <1>2
  <2>2. QED
    BY <1>6, <1>7, <2>1
<1>10. q = k
  BY <1>8, <1>9
<1>11. r = s
  BY <1>6, <1>7, <1>10
<1>12. QED
  BY <1>2, <1>4, <1>11 DEF Mod

\* Every integer is its rest and a multiple.
LEMMA RestOf ==
  ASSUME NEW n \in Int
  PROVE  /\ Mod(n) \in Numbers
         /\ \E k \in Int : n = Mod(n) + k * Modulus
<1>1. PICK M \in Nat \ {0} : M = Modulus
  BY TrainingAssumption
<1>2. PICK q \in Int : q = n \div M
  BY <1>1
<1>3. n % M \in 0 .. M - 1 /\ n = (n % M) + q * M
  BY <1>1, <1>2
<1>4. QED
  BY <1>1, <1>2, <1>3 DEF Mod, Numbers

\* Numbers that differ by a multiple have one rest.
LEMMA SameRest ==
  ASSUME NEW a \in Int, NEW b \in Int, NEW k \in Int, a = b + k * Modulus
  PROVE  Mod(a) = Mod(b)
<1>1. PICK M \in Nat \ {0} : M = Modulus
  BY TrainingAssumption
<1>2. Mod(b) \in Numbers /\ Mod(b) \in Int
  BY RestOf DEF Numbers
<1>3. PICK j \in Int : b = Mod(b) + j * M
  BY <1>1, RestOf
<1>4. PICK r \in Numbers : r = Mod(b)
  BY <1>2
<1>5. r \in Int
  BY <1>2, <1>4
<1>6. a = r + (j + k) * M
  BY <1>1, <1>3, <1>4, <1>5
<1>7. j + k \in Int
  OBVIOUS
<1>8. QED
  BY <1>1, <1>4, <1>6, <1>7, RestIs

\* The rest of a rest is the rest.
LEMMA RestOfRest ==
  ASSUME NEW r \in Numbers
  PROVE  Mod(r) = r
<1>1. PICK M \in Nat \ {0} : M = Modulus
  BY TrainingAssumption
<1>2. r \in Int /\ r = r + 0 * M
  BY <1>1 DEF Numbers
<1>3. PICK z \in Int : z = 0
  OBVIOUS
<1>4. QED
  BY <1>1, <1>2, <1>3, RestIs

\* The rest of a product is that of the product of the rests.
LEMMA RestsMultiply ==
  ASSUME NEW a \in Int, NEW b \in Int, NEW c \in Int
  PROVE  Mod(a * Mod(b) + c) = Mod(a * b + c)
<1>1. PICK M \in Nat \ {0} : M = Modulus
  BY TrainingAssumption
<1>2. PICK r \in Int : r = Mod(b)
  BY RestOf DEF Numbers
<1>3. PICK k \in Int : b = r + k * M
  BY <1>1, <1>2, RestOf
<1>4. a * b + c = a * r + c + (a * k) * M
  <2>1. a * b = a * r + a * (k * M)
    BY <1>1, <1>3
  <2>2. a * (k * M) = (a * k) * M
    BY <1>1
  <2>3. a * b \in Int /\ a * r \in Int /\ a * (k * M) \in Int
    BY <1>1
  <2>4. QED
    BY <2>1, <2>2, <2>3
<1>5. PICK x \in Int, y \in Int, j \in Int : x = a * b + c /\ y = a * r + c /\ j = a * k
  OBVIOUS
<1>6. Mod(x) = Mod(y)
  BY <1>1, <1>4, <1>5, SameRest
<1>7. QED
  BY <1>2, <1>5, <1>6

\* Likewise with one factor left as it is.
LEMMA RestTimes ==
  ASSUME NEW a \in Int, NEW b \in Int
  PROVE  Mod(a * Mod(b)) = Mod(a * b) /\ Mod(Mod(b) * a) = Mod(b * a)
<1>1. PICK r \in Int : r = Mod(b)
  BY RestOf DEF Numbers
<1>2. PICK z \in Int : z = 0
  OBVIOUS
<1>3. Mod(a * r + z) = Mod(a * b + z)
  BY <1>1, RestsMultiply
<1>4. a * r + z = a * r /\ a * b + z = a * b /\ a * r = r * a /\ a * b = b * a
  BY <1>2
<1>5. QED
  BY <1>1, <1>3, <1>4

\* A moment of n steps, one step later: what is left of the first gradient is
\* multiplied by beta once more.
LEMMA Averages ==
  ASSUME NEW b \in Int, NEW P \in Int, NEW x \in Int
  PROVE  Mod(b * Mod(x * (1 - P)) + (1 - b) * x) = Mod(x * (1 - Mod(P * b)))
<1>1. PICK M \in Nat \ {0} : M = Modulus
  BY TrainingAssumption
<1>2. PICK u \in Int : u = P * b
  OBVIOUS
<1>r. PICK r \in Int : r = Mod(u)
  BY RestOf DEF Numbers
<1>3. PICK k \in Int : u = r + k * M
  BY <1>1, <1>r, RestOf
<1>4. PICK A \in Int, c \in Int : A = x * (1 - P) /\ c = (1 - b) * x
  OBVIOUS
<1>5. Mod(b * Mod(A) + c) = Mod(b * A + c)
  BY RestsMultiply
<1>6. PICK y \in Int, z \in Int, j \in Int : y = x * (1 - r) /\ z = b * A + c /\ j = x * k
  OBVIOUS
<1>7. z = x - x * u
  <2>1. b * A = b * x - b * (x * P)
    BY <1>4
  <2>2. c = x - b * x
    BY <1>4
  <2>3. b * (x * P) = x * u
    BY <1>2
  <2>4. QED
    BY <1>6, <2>1, <2>2, <2>3
<1>8. y = x - x * r
  BY <1>6
<1>9. x * u = x * r + j * M
  <2>1. x * u = x * r + x * (k * M)
    BY <1>1, <1>3
  <2>2. x * (k * M) = j * M
    BY <1>1, <1>6
  <2>3. QED
    BY <2>1, <2>2
<1>10. y = z + j * M
  BY <1>1, <1>7, <1>8, <1>9
<1>11. Mod(y) = Mod(z)
  BY <1>1, <1>6, <1>10, SameRest
<1>12. QED
  BY <1>2, <1>r, <1>4, <1>5, <1>6, <1>11

\* What momentum adds up to, likewise.
LEMMA Accumulates ==
  ASSUME NEW v \in Int, NEW P \in Int, NEW g \in Int,
         Mod(v * (1 - Momentum)) = Mod(-(Rate * g * (1 - P)))
  PROVE  Mod(Mod(Momentum * v - Rate * g) * (1 - Momentum)) = Mod(-(Rate * g * (1 - Mod(P * Momentum))))
<1>1. PICK M \in Nat \ {0} : M = Modulus
  BY TrainingAssumption
<1>2. PICK u \in Int, c \in Int, a \in Int, e \in Int :
        u = P * 3 /\ c = 3 * v - 2 * g /\ a = v * (1 - 3) /\ e = -(2 * g * (1 - P))
  <2>1. P * 3 \in Int /\ 3 * v - 2 * g \in Int /\ v * (1 - 3) \in Int
    OBVIOUS
  <2>2. -(2 * g * (1 - P)) \in Int
    OBVIOUS
  <2>3. QED
    BY <2>1, <2>2, Zenon
<1>r. PICK r \in Int, w \in Int : r = Mod(u) /\ w = Mod(c)
  <2>1. Mod(u) \in Numbers /\ Mod(c) \in Numbers
    BY RestOf
  <2>2. Mod(u) \in Int /\ Mod(c) \in Int
    BY <2>1 DEF Numbers
  <2>3. QED
    BY <2>2, Zenon
<1>3. PICK k \in Int : u = r + k * M
  BY <1>1, <1>r, RestOf
<1>4. PICK l \in Int : c = w + l * M
  BY <1>1, <1>r, RestOf
<1>5. PICK i \in Int, j \in Int, n \in Int : a = n + i * M /\ e = n + j * M
  <2>0. Mod(a) = Mod(e)
    BY <1>2 DEF Momentum, Rate
  <2>1. PICK n \in Int : n = Mod(a) /\ n = Mod(e)
    BY <2>0, RestOf DEF Numbers
  <2>2. \E i \in Int : a = n + i * M
    BY <1>1, <2>1, RestOf
  <2>3. \E j \in Int : e = n + j * M
    BY <1>1, <2>1, RestOf
  <2>4. QED
    BY <2>2, <2>3
<1>6. PICK gP \in Int, gr \in Int, gk \in Int : gP = g * P /\ gr = g * r /\ gk = g * k
  OBVIOUS
<1>7. 3 * gP = gr + gk * M
  <2>1. g * u = g * r + g * (k * M)
    BY <1>1, <1>3
  <2>2. g * (k * M) = gk * M
    BY <1>1, <1>6
  <2>3. g * u = 3 * gP
    BY <1>2, <1>6
  <2>4. QED
    BY <1>6, <2>1, <2>2, <2>3
<1>8. PICK iM \in Int, jM \in Int, kM \in Int, lM \in Int :
        iM = i * M /\ jM = j * M /\ kM = gk * M /\ lM = l * M
  BY <1>1
<1>9. -(2 * g * (1 - P)) = 2 * gP - 2 * g /\ -(2 * g * (1 - r)) = 2 * gr - 2 * g
  BY <1>6
<1>10. w * (1 - 3) = -(2 * g * (1 - r)) + (3 * iM - 3 * jM + 2 * kM + 2 * lM)
  BY <1>2, <1>4, <1>5, <1>7, <1>8, <1>9
<1>11. 3 * iM - 3 * jM + 2 * kM + 2 * lM = (3 * i - 3 * j + 2 * gk + 2 * l) * M
  BY <1>1, <1>8
<1>12. PICK y \in Int, z \in Int, q \in Int :
         y = w * (1 - 3) /\ z = -(2 * g * (1 - r)) /\ q = 3 * i - 3 * j + 2 * gk + 2 * l
  OBVIOUS
<1>13. y = z + q * Modulus
  BY <1>1, <1>10, <1>11, <1>12
<1>14. Mod(y) = Mod(z)
  BY <1>13, SameRest
<1>15. QED
  BY <1>2, <1>r, <1>12, <1>14 DEF Momentum, Rate

\* Corrected for the steps it has, a moment is what it averages.
LEMMA CorrectedIs ==
  ASSUME NEW x \in Int, NEW b, NEW t, NEW P \in Numbers, P # 1, RaisedTo(b, t) = P
  PROVE  Unbiased(Mod(x * (1 - P)), b, t) = Mod(x)
<1>1. PICK M \in Nat : M = Modulus /\ M > 2
  BY TrainingAssumption
<1>2. PICK d \in Numbers : d = Mod(1 - P)
  BY RestOf DEF Numbers
<1>3. d \in 1 .. Modulus - 1
  <2>1. ASSUME d = 0 PROVE FALSE
    <3>1. PICK k \in Int : 1 - P = d + k * Modulus
      BY <1>2, RestOf DEF Numbers
    <3>2. 1 - P = k * M /\ P \in 0 .. M - 1
      BY <1>1, <2>1, <3>1 DEF Numbers
    <3>3. k >= 1 => k * M >= M
      BY <1>1
    <3>4. k <= -1 => k * M <= -M
      BY <1>1
    <3>5. k = 0
      BY <1>1, <3>2, <3>3, <3>4
    <3>6. QED
      BY <1>1, <3>2, <3>5
  <2>2. QED
    BY <1>1, <2>1 DEF Numbers
<1>4. PICK i \in Numbers : i = Invert(d) /\ Mod(i * d) = 1
  BY <1>3, TrainingAssumption DEF Invert, Numbers
<1>5. i \in Int /\ d \in Int /\ P \in Int
  BY <1>1 DEF Numbers
<1>6. PICK a \in Int, y \in Int, u \in Int : a = x * (1 - P) /\ y = x * i /\ u = 1 - P
  BY <1>5
<1>7. Mod(Mod(a) * i) = Mod(a * i)
  BY <1>5, RestTimes
<1>8. a * i = y * u
  BY <1>5, <1>6
<1>9. Mod(y * u) = Mod(y * d)
  BY <1>2, <1>6, RestTimes
<1>10. PICK f \in Int : f = i * d
  BY <1>5
<1>11. y * d = x * f
  BY <1>5, <1>6, <1>10
<1>12. Mod(x * f) = Mod(x * Mod(f))
  BY RestTimes
<1>13. x * Mod(f) = x
  BY <1>4, <1>10
<1>14. QED
  BY <1>2, <1>4, <1>6, <1>7, <1>8, <1>9, <1>11, <1>12, <1>13 DEF Unbiased

Raises(f, b) == \A k \in 0 .. MaxSteps : f[k] = IF k = 0 THEN 1 ELSE Mod(f[k - 1] * b)

\* f holds the powers of b, each from the one before.
LEMMA PowersAre ==
  ASSUME NEW b \in Int
  PROVE  /\ RaisedTo(b, 0) = 1
         /\ \A n \in 0 .. MaxSteps : RaisedTo(b, n) \in Numbers
         /\ \A n \in 0 .. MaxSteps : n < MaxSteps => RaisedTo(b, n + 1) = Mod(RaisedTo(b, n) * b)
<1>0. MaxSteps \in Nat /\ 1 \in Numbers /\ Numbers \subseteq Int
  BY TrainingAssumption DEF Numbers
<1> DEFINE D == 0 .. MaxSteps
           base == [i \in D |-> 1]
           next == [i \in D |-> i - 1]
           made == [i \in D |-> [r \in Numbers |-> Mod(r * b)]]
           rank == [i \in D |-> <<i, 0>>]
<1>1. GoesDown(D, Numbers, {0}, base, next, made, rank)
  <2>1. rank \in [D -> Nat \X Nat]
    BY <1>0
  <2>2. \A d \in D \ {0} : next[d] \in D /\ Below(rank[next[d]], rank[d])
    BY <1>0 DEF Below
  <2>3. \A d \in D \cap {0} : base[d] \in Numbers
    BY <1>0
  <2>4. \A d \in D \ {0} : \A r \in Numbers : made[d][r] \in Numbers
    BY <1>0, RestOf
  <2> HIDE DEF D, base, next, made, rank
  <2>5. QED
    BY <2>1, <2>2, <2>3, <2>4 DEF GoesDown
<1>2. PICK f \in [D -> Numbers] : Obeys(f, D, {0}, base, next, made)
  <2> HIDE DEF D, base, next, made, rank
  <2>1. QED
    BY <1>1, RecursionIsDefined
<1>3. Raises(f, b)
  <2>1. SUFFICES ASSUME NEW k \in D PROVE f[k] = IF k = 0 THEN 1 ELSE Mod(f[k - 1] * b)
    BY DEF Raises
  <2>2. CASE k = 0
    BY <1>2, <2>2 DEF Obeys
  <2>3. CASE k # 0
    <3>1. next[k] = k - 1 /\ k - 1 \in D
      BY <1>0, <2>3
    <3>2. f[k] = made[k][f[k - 1]] /\ f[k - 1] \in Numbers
      BY <1>2, <2>3, <3>1 DEF Obeys
    <3>3. QED
      BY <2>3, <3>2
  <2>4. QED
    BY <2>2, <2>3
<1>4. PICK h : /\ h = [k \in 0 .. MaxSteps |-> IF k = 0 THEN 1 ELSE Mod(h[k - 1] * b)]
               /\ \A n : RaisedTo(b, n) = h[n]
  <2>1. f = [k \in 0 .. MaxSteps |-> IF k = 0 THEN 1 ELSE Mod(f[k - 1] * b)]
    BY <1>2, <1>3 DEF Raises
  <2> DEFINE h == CHOOSE h : h = [k \in 0 .. MaxSteps |-> IF k = 0 THEN 1 ELSE Mod(h[k - 1] * b)]
  <2>2. h = [k \in 0 .. MaxSteps |-> IF k = 0 THEN 1 ELSE Mod(h[k - 1] * b)]
    BY <2>1
  <2>3. \A n : RaisedTo(b, n) = h[n]
    BY DEF RaisedTo
  <2>4. QED
    BY <2>2, <2>3
<1>5. h[0] = 1 /\ \A n \in 0 .. MaxSteps : n < MaxSteps => h[n + 1] = Mod(h[n] * b)
  BY <1>0, <1>4
<1>6. \A n \in 0 .. MaxSteps : h[n] \in Numbers
  <2> DEFINE T == {n \in 0 .. MaxSteps : h[n] \notin Numbers}
  <2>1. SUFFICES ASSUME T # {} PROVE FALSE
    OBVIOUS
  <2>2. PICK n \in T : \A j \in T : n <= j
    <3>1. T \in SUBSET Nat
      BY <1>0
    <3> HIDE DEF T
    <3>2. QED
      BY <2>1, <3>1, Least
  <2>3. n # 0 /\ n - 1 \in 0 .. MaxSteps /\ n - 1 < MaxSteps
    BY <1>0, <1>5, <2>2
  <2>4. h[n - 1] \in Numbers
    BY <1>0, <2>2, <2>3
  <2>5. h[n] = Mod(h[n - 1] * b)
    BY <1>0, <1>4, <2>2, <2>3
  <2>6. PICK r \in Int : r = h[n - 1]
    BY <1>0, <2>4
  <2>7. PICK y \in Int : y = r * b
    OBVIOUS
  <2>8. QED
    BY <2>2, <2>5, <2>6, <2>7, RestOf
<1>7. QED
  BY <1>4, <1>5, <1>6

\* What 1 / n and sqrt answer is a number of the model.
LEMMA InvertIs ==
  ASSUME NEW n \in 1 .. Modulus - 1
  PROVE  Invert(n) \in Numbers
BY TrainingAssumption DEF Invert, Numbers

LEMMA RootIs ==
  ASSUME NEW x
  PROVE  Root(x) \in Int /\ Root(x) + 1 \in 1 .. Modulus - 1
<1>1. PICK M \in Nat : M = Modulus /\ M > 2
  BY TrainingAssumption
<1>2. (M - 1) \div 2 \in Nat /\ (M - 1) \div 2 < M - 1
  BY <1>1
<1>3. PICK h \in Nat : h = (M - 1) \div 2
  BY <1>2
<1>4. Root(x) \in 0 .. h
  <2> DEFINE r == {y \in 0 .. h : Mod(y * y) = x}
  <2>1. Root(x) = IF r = {} THEN 0 ELSE CHOOSE y \in r : TRUE
    BY <1>1, <1>3 DEF Root
  <2>2. r \subseteq 0 .. h /\ 0 \in 0 .. h
    OBVIOUS
  <2> HIDE DEF r
  <2>3. QED
    BY <2>1, <2>2
<1>5. QED
  BY <1>1, <1>2, <1>3, <1>4

\* What the moments are after the steps a state has had.
MomentsOf(s) ==
  /\ method \in {"adamStep", "adamwStep"} =>
       /\ s.m = Mod(grad * (1 - RaisedTo(Beta1, s.step)))
       /\ s.v = Mod(grad * grad * (1 - RaisedTo(Beta2, s.step)))
  /\ method = "sgdStep" => Mod(s.v * (1 - Momentum)) = Mod(-(Rate * grad * (1 - RaisedTo(Momentum, s.step))))
  /\ method = "rmspropStep" => s.v = Mod(grad * grad * (1 - RaisedTo(Beta2, s.step)))

LEMMA StateIs ==
  ASSUME NEW s \in States
  PROVE  s.p \in Int /\ s.m \in Int /\ s.v \in Int /\ s.step \in 0 .. MaxSteps /\ s.step \in Int
BY TrainingAssumption DEF States, Numbers

\* The square of a gradient, as the steps write it.
LEMMA SquareIs ==
  ASSUME NEW b \in Int, NEW v \in Int, NEW g \in Int
  PROVE  /\ g * g \in Int /\ b * v + (1 - b) * g * g = b * v + (1 - b) * (g * g)
         /\ b * v + (1 - b) * g * g \in Int
OBVIOUS

\* One more step of each optimiser keeps the moments those of the step number.
LEMMA AdamSteps ==
  ASSUME NEW s \in States, s.step < MaxSteps, grad \in Int, method \in {"adamStep", "adamwStep"},
         MomentsOf(s), NEW decay \in Int
  PROVE  /\ AdamStep(s, grad, decay) \in States
         /\ MomentsOf(AdamStep(s, grad, decay))
<1> DEFINE t == s.step + 1
           m == Mod(Beta1 * s.m + (1 - Beta1) * grad)
           v == Mod(Beta2 * s.v + (1 - Beta2) * grad * grad)
           over == Invert(Mod(Root(Unbiased(v, Beta2, t)) + Epsilon))
           q == Mod(s.p * (1 - Rate * decay) - Rate * Unbiased(m, Beta1, t) * over)
           a == AdamStep(s, grad, decay)
<1>1. a = [step |-> t, m |-> m, v |-> v, p |-> q]
  BY DEF AdamStep
<1>2. t \in 0 .. MaxSteps /\ t \in 1 .. MaxSteps
  BY StateIs, TrainingAssumption
<1>3. m \in Numbers /\ m \in Int
  <2>1. Beta1 * s.m + (1 - Beta1) * grad \in Int
    BY StateIs DEF Beta1
  <2>2. QED
    BY <2>1, RestOf DEF Numbers
<1>4. v \in Numbers /\ v \in Int
  <2>1. Beta2 * s.v + (1 - Beta2) * grad * grad \in Int
    BY StateIs, SquareIs DEF Beta2
  <2>2. QED
    BY <2>1, RestOf DEF Numbers
<1>5. RaisedTo(Beta1, t) \in Int /\ RaisedTo(Beta2, t) \in Int
      /\ RaisedTo(Beta1, t) = Mod(RaisedTo(Beta1, s.step) * Beta1)
      /\ RaisedTo(Beta2, t) = Mod(RaisedTo(Beta2, s.step) * Beta2)
      /\ RaisedTo(Beta1, s.step) \in Int /\ RaisedTo(Beta2, s.step) \in Int
      /\ RaisedTo(Beta1, t) \in Numbers /\ RaisedTo(Beta1, t) # 1
  <2>1. Beta1 \in Int /\ Beta2 \in Int
    BY DEF Beta1, Beta2
  <2>2. s.step \in 0 .. MaxSteps /\ s.step < MaxSteps
    BY StateIs
  <2>3. Numbers \subseteq Int
    BY DEF Numbers
  <2>4. RaisedTo(Beta1, t) # 1
    BY <1>2, TrainingAssumption
  <2>5. QED
    BY <1>2, <2>1, <2>2, <2>3, <2>4, PowersAre
<1> HIDE DEF q, over, m, v, a
<1>6. m = Mod(grad * (1 - RaisedTo(Beta1, t)))
  <2>1. PICK b \in Int, P \in Int : b = Beta1 /\ P = RaisedTo(Beta1, s.step)
    BY <1>5 DEF Beta1
  <2>2. Mod(b * Mod(grad * (1 - P)) + (1 - b) * grad) = Mod(grad * (1 - Mod(P * b)))
    BY Averages
  <2>3. s.m = Mod(grad * (1 - P))
    BY <2>1 DEF MomentsOf
  <2>4. QED
    BY <1>5, <2>1, <2>2, <2>3 DEF m
<1>7. v = Mod(grad * grad * (1 - RaisedTo(Beta2, t)))
  <2>1. PICK b \in Int, P \in Int, x \in Int : b = Beta2 /\ P = RaisedTo(Beta2, s.step) /\ x = grad * grad
    BY <1>5, SquareIs DEF Beta2
  <2>2. Mod(b * Mod(x * (1 - P)) + (1 - b) * x) = Mod(x * (1 - Mod(P * b)))
    BY Averages
  <2>3. s.v = Mod(x * (1 - P))
    BY <2>1 DEF MomentsOf
  <2>4. v = Mod(b * s.v + (1 - b) * x)
    <3>1. b * s.v + (1 - b) * grad * grad = b * s.v + (1 - b) * x
      BY <2>1, SquareIs, StateIs
    <3>2. QED
      BY <2>1, <3>1 DEF v
  <2>5. QED
    BY <1>5, <2>1, <2>2, <2>3, <2>4
<1>8. over \in Int
  <2>1. PICK r \in Int : r = Root(Unbiased(v, Beta2, t)) /\ r + 1 \in 1 .. Modulus - 1
    BY RootIs
  <2>2. Mod(r + Epsilon) = r + 1
    BY <2>1, RestOfRest DEF Numbers, Epsilon
  <2>3. Invert(r + 1) \in Numbers
    BY <2>1, InvertIs
  <2>4. QED
    BY <2>1, <2>2, <2>3 DEF over, Numbers
<1>9. Unbiased(m, Beta1, t) \in Int
  <2>1. Unbiased(m, Beta1, t) = Mod(grad)
    BY <1>5, <1>6, CorrectedIs
  <2>2. QED
    BY <2>1, RestOf DEF Numbers
<1>10. q \in Numbers
  <2>1. PICK x \in Int, y \in Int, z \in Int : x = s.p /\ y = Unbiased(m, Beta1, t) /\ z = over
    BY <1>8, <1>9, StateIs
  <2>2. x * (1 - 2 * decay) - 2 * y * z \in Int
    OBVIOUS
  <2>3. q = Mod(x * (1 - 2 * decay) - 2 * y * z)
    BY <2>1 DEF q, Rate
  <2>4. QED
    BY <2>2, <2>3, RestOf
<1>11. a \in States
  BY <1>1, <1>2, <1>3, <1>4, <1>10 DEF States
<1>12. a.step = t /\ a.m = m /\ a.v = v
  BY <1>1
<1>13. MomentsOf(a)
  BY <1>6, <1>7, <1>12 DEF MomentsOf
<1>14. QED
  BY <1>11, <1>13 DEF a

LEMMA SgdSteps ==
  ASSUME NEW s \in States, s.step < MaxSteps, grad \in Int, method = "sgdStep", MomentsOf(s)
  PROVE  SgdStep(s, grad) \in States /\ MomentsOf(SgdStep(s, grad))
<1> DEFINE t == s.step + 1
           v == Mod(Momentum * s.v - Rate * grad)
           q == Mod(s.p + v)
           a == SgdStep(s, grad)
<1>1. a = [step |-> t, m |-> s.m, v |-> v, p |-> q]
  BY DEF SgdStep
<1>2. t \in 0 .. MaxSteps
  BY StateIs, TrainingAssumption
<1>3. v \in Numbers /\ v \in Int
  <2>1. Momentum * s.v - Rate * grad \in Int
    BY StateIs DEF Momentum, Rate
  <2>2. QED
    BY <2>1, RestOf DEF Numbers
<1>4. q \in Numbers
  <2>1. s.p + v \in Int
    BY <1>3, StateIs
  <2>2. QED
    BY <2>1, RestOf
<1>5. RaisedTo(Momentum, t) = Mod(RaisedTo(Momentum, s.step) * Momentum) /\ RaisedTo(Momentum, s.step) \in Int
  <2>1. Momentum \in Int /\ Numbers \subseteq Int
    BY DEF Momentum, Numbers
  <2>2. QED
    BY <2>1, StateIs, PowersAre
<1>6. s.m \in Numbers
  BY DEF States
<1> HIDE DEF v, q, a
<1>7. Mod(v * (1 - Momentum)) = Mod(-(Rate * grad * (1 - RaisedTo(Momentum, t))))
  <2>1. PICK P \in Int, w \in Int : P = RaisedTo(Momentum, s.step) /\ w = s.v
    BY <1>5, StateIs
  <2>2. Mod(w * (1 - Momentum)) = Mod(-(Rate * grad * (1 - P)))
    BY <2>1 DEF MomentsOf
  <2>3. Mod(Mod(Momentum * w - Rate * grad) * (1 - Momentum)) = Mod(-(Rate * grad * (1 - Mod(P * Momentum))))
    BY <2>2, Accumulates
  <2>4. QED
    BY <1>5, <2>1, <2>3 DEF v
<1>8. a \in States
  BY <1>1, <1>2, <1>3, <1>4, <1>6 DEF States
<1>9. a.step = t /\ a.v = v
  BY <1>1
<1>10. MomentsOf(a)
  BY <1>7, <1>9 DEF MomentsOf
<1>11. QED
  BY <1>8, <1>10 DEF a

LEMMA RmspropSteps ==
  ASSUME NEW s \in States, s.step < MaxSteps, grad \in Int, method = "rmspropStep", MomentsOf(s)
  PROVE  RmspropStep(s, grad) \in States /\ MomentsOf(RmspropStep(s, grad))
<1> DEFINE t == s.step + 1
           v == Mod(Beta2 * s.v + (1 - Beta2) * grad * grad)
           over == Root(v) + Epsilon
           q == Mod(s.p - Rate * grad * Invert(over))
           a == RmspropStep(s, grad)
<1>1. a = [step |-> t, m |-> s.m, v |-> v, p |-> q]
  BY DEF RmspropStep
<1>2. t \in 0 .. MaxSteps
  BY StateIs, TrainingAssumption
<1>3. v \in Numbers
  <2>1. Beta2 * s.v + (1 - Beta2) * grad * grad \in Int
    BY StateIs, SquareIs DEF Beta2
  <2>2. QED
    BY <2>1, RestOf
<1>4. RaisedTo(Beta2, t) = Mod(RaisedTo(Beta2, s.step) * Beta2) /\ RaisedTo(Beta2, s.step) \in Int
  <2>1. Beta2 \in Int /\ Numbers \subseteq Int
    BY DEF Beta2, Numbers
  <2>2. QED
    BY <2>1, StateIs, PowersAre
<1>5. s.m \in Numbers
  BY DEF States
<1> HIDE DEF v, a
<1>6. q \in Numbers
  <2>1. over \in 1 .. Modulus - 1
    BY RootIs DEF Epsilon
  <2>2. Invert(over) \in Numbers
    BY <2>1, InvertIs
  <2>3. PICK x \in Int, y \in Int : x = s.p /\ y = Invert(over)
    BY <2>2, StateIs DEF Numbers
  <2>4. x - 2 * grad * y \in Int
    OBVIOUS
  <2>5. q = Mod(x - 2 * grad * y)
    BY <2>3 DEF Rate
  <2>6. QED
    BY <2>4, <2>5, RestOf
<1> HIDE DEF q, over
<1>7. v = Mod(grad * grad * (1 - RaisedTo(Beta2, t)))
  <2>1. PICK b \in Int, P \in Int, x \in Int : b = Beta2 /\ P = RaisedTo(Beta2, s.step) /\ x = grad * grad
    BY <1>4, SquareIs DEF Beta2
  <2>2. Mod(b * Mod(x * (1 - P)) + (1 - b) * x) = Mod(x * (1 - Mod(P * b)))
    BY Averages
  <2>3. s.v = Mod(x * (1 - P))
    BY <2>1 DEF MomentsOf
  <2>4. v = Mod(b * s.v + (1 - b) * x)
    <3>1. b * s.v + (1 - b) * grad * grad = b * s.v + (1 - b) * x
      BY <2>1, SquareIs, StateIs
    <3>2. QED
      BY <2>1, <3>1 DEF v
  <2>5. QED
    BY <1>4, <2>1, <2>2, <2>3, <2>4
<1>8. a \in States
  BY <1>1, <1>2, <1>3, <1>5, <1>6 DEF States
<1>9. a.step = t /\ a.v = v
  BY <1>1
<1>10. MomentsOf(a)
  BY <1>7, <1>9 DEF MomentsOf
<1>11. QED
  BY <1>8, <1>10 DEF a

\* Whatever the optimiser, a step takes a state of the model to another.
LEMMA Steps ==
  ASSUME NEW s \in States, s.step < MaxSteps, grad \in Int, method \in Optimisers, MomentsOf(s)
  PROVE  Stepped(s) \in States /\ MomentsOf(Stepped(s))
<1>1. CASE method \in {"adamStep", "adamwStep"}
  <2>1. PICK decay \in Int : Stepped(s) = AdamStep(s, grad, decay)
    BY <1>1 DEF Stepped, Decay
  <2>2. QED
    BY <1>1, <2>1, AdamSteps
<1>2. CASE method = "sgdStep"
  BY <1>2, SgdSteps DEF Stepped
<1>3. CASE method = "rmspropStep"
  BY <1>3, RmspropSteps DEF Stepped
<1>4. QED
  BY <1>1, <1>2, <1>3 DEF Optimisers

\* New parameters have the moments of no step.
LEMMA FreshIs == ASSUME grad \in Int PROVE Fresh \in States /\ MomentsOf(Fresh)
<1>1. Fresh \in States
  BY TrainingAssumption DEF Fresh, States, Numbers
<1>2. Fresh.m = 0 /\ Fresh.v = 0 /\ Fresh.step = 0
  BY DEF Fresh
<1>3. RaisedTo(Beta1, 0) = 1 /\ RaisedTo(Beta2, 0) = 1 /\ RaisedTo(Momentum, 0) = 1
  BY PowersAre DEF Beta1, Beta2, Momentum
<1>4. PICK x \in Int, z \in Int : x = grad * grad /\ z = 0
  OBVIOUS
<1>5. Mod(z) = z
  BY <1>4, RestOfRest, TrainingAssumption DEF Numbers
<1>6. grad * (1 - 1) = z /\ x * (1 - 1) = z /\ 0 * (1 - Momentum) = z /\ -(Rate * grad * (1 - 1)) = z
  BY <1>4 DEF Momentum, Rate
<1>7. QED
  BY <1>1, <1>2, <1>3, <1>4, <1>5, <1>6 DEF MomentsOf

\* The invariant says what the property asks.
LEMMA MomentsMatch ==
  ASSUME grad \in Int, method \in Optimisers, state \in States, MomentsOf(state)
  PROVE  MomentsMatchTheirSteps
<1> DEFINE n == state.step
<1>1. n \in 0 .. MaxSteps
  BY StateIs
<1>2. CASE method \in {"adamStep", "adamwStep"}
  <2>1. ASSUME n > 0
        PROVE  Unbiased(state.m, Beta1, n) = Mod(grad) /\ Unbiased(state.v, Beta2, n) = Mod(grad * grad)
    <3>1. n \in 1 .. MaxSteps
      BY <1>1, <2>1, TrainingAssumption
    <3>2. PICK P, Q : P = RaisedTo(Beta1, n) /\ Q = RaisedTo(Beta2, n)
      OBVIOUS
    <3>3. P \in Numbers /\ Q \in Numbers
      BY <1>1, <3>2, PowersAre DEF Beta1, Beta2
    <3>4. P # 1 /\ Q # 1
      BY <3>1, <3>2, TrainingAssumption
    <3>5. PICK x \in Int : x = grad * grad
      OBVIOUS
    <3>6. state.m = Mod(grad * (1 - P)) /\ state.v = Mod(x * (1 - Q))
      BY <1>2, <3>2, <3>5 DEF MomentsOf
    <3>7. Unbiased(Mod(grad * (1 - P)), Beta1, n) = Mod(grad)
      BY <3>2, <3>3, <3>4, CorrectedIs
    <3>8. Unbiased(Mod(x * (1 - Q)), Beta2, n) = Mod(x)
      BY <3>2, <3>3, <3>4, CorrectedIs
    <3>9. QED
      BY <3>5, <3>6, <3>7, <3>8
  <2>2. QED
    BY <1>2, <2>1 DEF MomentsMatchTheirSteps
<1>3. CASE method = "sgdStep"
  BY <1>3 DEF MomentsOf, MomentsMatchTheirSteps
<1>4. CASE method = "rmspropStep"
  BY <1>4 DEF MomentsOf, MomentsMatchTheirSteps
<1>5. QED
  BY <1>2, <1>3, <1>4 DEF Optimisers

-----------------------------------------------------------------------------
(* The weights file.                                                         *)

\* What fits a word.
Fitting == 0 .. Base * Base - 1
\* The words of some numbers, as a tensor holds them.
Encoded(ns) == FlattenSeq([i \in DOMAIN ns |-> Word(ns[i])])

\* The bytes u are in w from q on.
At(w, q, u) == q + Len(u) - 1 <= Len(w) /\ \A i \in 1 .. Len(u) : w[q + i - 1] = u[i]
WordsAt(w, q, ns) ==
  \A i \in 1 .. Len(ns) : q + 2 * i - 1 <= Len(w) /\ w[q + 2 * i - 2] + Base * w[q + 2 * i - 1] = ns[i]

\* One, two and three fit a word.
LEMMA SmallFits == 1 \in Fitting /\ 2 \in Fitting /\ 3 \in Fitting
<1>1. PICK B \in Nat : B = Base /\ B > 2
  BY TrainingAssumption
<1>2. B * B > 3
  BY <1>1
<1>3. QED
  BY <1>1, <1>2 DEF Fitting

\* Where two sequences stand joined, the first stands, and the second behind it.
LEMMA AtConcat ==
  ASSUME NEW S, NEW u \in Seq(S), NEW v \in Seq(S), NEW w \in Seq(S), NEW q \in Nat \ {0}, At(w, q, u \o v)
  PROVE  At(w, q, u) /\ At(w, q + Len(u), v)
<1>1. PICK n \in Nat, m \in Nat, l \in Nat : n = Len(u) /\ m = Len(v) /\ l = Len(w)
  BY LenProperties
<1>2. PICK a : a = u \o v
  OBVIOUS
<1>3. Len(a) = n + m /\ \A i \in 1 .. n + m : a[i] = IF i <= n THEN u[i] ELSE v[i - n]
  BY <1>1, <1>2, ConcatProperties
<1>4. q + n + m - 1 <= l /\ \A i \in 1 .. n + m : w[q + i - 1] = a[i]
  BY <1>1, <1>2, <1>3 DEF At
<1>5. ASSUME NEW i \in 1 .. n PROVE w[q + i - 1] = u[i]
  <2>1. i \in 1 .. n + m /\ i <= n
    BY <1>1
  <2>2. QED
    BY <1>3, <1>4, <2>1
<1>6. ASSUME NEW i \in 1 .. m PROVE w[(q + n) + i - 1] = v[i]
  <2>1. n + i \in 1 .. n + m /\ ~(n + i <= n) /\ (n + i) - n = i /\ q + (n + i) - 1 = (q + n) + i - 1
    BY <1>1
  <2>2. QED
    BY <1>3, <1>4, <2>1
<1>7. q + n - 1 <= l /\ (q + n) + m - 1 <= l
  BY <1>1, <1>4
<1>8. QED
  BY <1>1, <1>5, <1>6, <1>7 DEF At

\* A word is two bytes, and both together give its number back.
LEMMA WordReads ==
  ASSUME NEW n \in Fitting
  PROVE  /\ Word(n) \in Seq(Nat) /\ Len(Word(n)) = 2
         /\ Word(n)[1] + Base * Word(n)[2] = n
<1>1. PICK B \in Nat \ {0} : B = Base
  BY TrainingAssumption
<1>2. n \in Int /\ n >= 0
  BY <1>1 DEF Fitting
<1>3. PICK lo \in Nat, hi \in Nat : lo = n % B /\ hi = n \div B /\ n = B * hi + lo
  BY <1>1, <1>2, Divided
<1>4. Word(n) = <<lo, hi>>
  BY <1>1, <1>3 DEF Word
<1>5. lo + B * hi = n
  BY <1>1, <1>3
<1>6. QED
  BY <1>1, <1>4, <1>5

\* A word that is at q is read there.
LEMMA WordAt ==
  ASSUME NEW n \in Fitting, NEW w \in Seq(Nat), NEW q \in Nat \ {0}, At(w, q, Word(n))
  PROVE  q + 1 <= Len(w) /\ w[q] + Base * w[q + 1] = n
<1>1. PICK u : u = Word(n)
  OBVIOUS
<1>2. Len(u) = 2 /\ u[1] + Base * u[2] = n
  BY <1>1, WordReads
<1>3. q + 2 - 1 <= Len(w) /\ \A i \in 1 .. 2 : w[q + i - 1] = u[i]
  BY <1>1, <1>2 DEF At
<1>4. w[q + 1 - 1] = u[1] /\ w[q + 2 - 1] = u[2]
  BY <1>3
<1>5. q + 1 - 1 = q /\ q + 2 - 1 = q + 1
  OBVIOUS
<1>6. QED
  BY <1>2, <1>3, <1>4, <1>5

\* One part, two and three joined are what FlattenSeq makes of them.
LEMMA FlatOne ==
  ASSUME NEW S, NEW a \in Seq(S)
  PROVE  FlattenSeq(<<a>>) = a
<1>1. Append(<<>>, a) = <<a>> /\ <<>> \in Seq(Seq(S))
  OBVIOUS
<1>2. <<>> \o a = a
  BY ConcatEmptySeq
<1>3. QED
  BY <1>1, <1>2, FlattenNil, FlattenAppend

\* Appending to sequences of one element and of two.
LEMMA AppendToOne ==
  ASSUME NEW a, NEW b
  PROVE  Append(<<a>>, b) = <<a, b>>
<1>1. PICK T : T = {a, b}
  OBVIOUS
<1>2. a \in T /\ b \in T
  BY <1>1
<1>3. <<a>> \in Seq(T) /\ Len(<<a>>) = 1 /\ <<a>>[1] = a
  BY <1>2
<1>4. <<a, b>> \in Seq(T) /\ Len(<<a, b>>) = 2 /\ <<a, b>>[1] = a /\ <<a, b>>[2] = b
  BY <1>2
<1>5. PICK s, t : s = <<a>> /\ t = <<a, b>>
  OBVIOUS
<1>6. /\ s \in Seq(T) /\ Len(s) = 1 /\ s[1] = a
      /\ t \in Seq(T) /\ Len(t) = 2 /\ t[1] = a /\ t[2] = b
  BY <1>3, <1>4, <1>5, Zenon
<1>7. PICK u : u = Append(s, b)
  OBVIOUS
<1>8. u \in Seq(T) /\ Len(u) = 2 /\ u[2] = b /\ \A i \in 1 .. 1 : u[i] = s[i]
  <2>1. s \in Seq(T) /\ b \in T
    BY <1>2, <1>6
  <2>2. /\ u \in Seq(T) /\ Len(u) = Len(s) + 1 /\ u[Len(s) + 1] = b
        /\ \A i \in 1 .. Len(s) : u[i] = s[i]
    BY <1>7, <2>1, AppendProperties
  <2>3. Len(s) = 1
    BY <1>6
  <2>4. QED
    BY <2>2, <2>3
<1>9. Len(u) = Len(t) /\ \A i \in 1 .. Len(u) : u[i] = t[i]
  BY <1>6, <1>8
<1>10. u = t
  BY <1>6, <1>8, <1>9, SeqEqual
<1>11. QED
  BY <1>5, <1>7, <1>10, Zenon

LEMMA AppendToTwo ==
  ASSUME NEW a, NEW b, NEW c
  PROVE  Append(<<a, b>>, c) = <<a, b, c>>
<1>1. PICK T : T = {a, b, c}
  OBVIOUS
<1>2. a \in T /\ b \in T /\ c \in T
  BY <1>1
<1>3. <<a, b>> \in Seq(T) /\ Len(<<a, b>>) = 2 /\ <<a, b>>[1] = a /\ <<a, b>>[2] = b
  BY <1>2
<1>4. <<a, b, c>> \in Seq(T) /\ Len(<<a, b, c>>) = 3 /\ <<a, b, c>>[1] = a /\ <<a, b, c>>[2] = b /\ <<a, b, c>>[3] = c
  BY <1>2
<1>5. PICK s, t : s = <<a, b>> /\ t = <<a, b, c>>
  OBVIOUS
<1>6. /\ s \in Seq(T) /\ Len(s) = 2 /\ s[1] = a /\ s[2] = b
      /\ t \in Seq(T) /\ Len(t) = 3 /\ t[1] = a /\ t[2] = b /\ t[3] = c
  BY <1>3, <1>4, <1>5, Zenon
<1>7. PICK u : u = Append(s, c)
  OBVIOUS
<1>8. u \in Seq(T) /\ Len(u) = 3 /\ u[3] = c /\ \A i \in 1 .. 2 : u[i] = s[i]
  <2>1. s \in Seq(T) /\ c \in T
    BY <1>2, <1>6
  <2>2. /\ u \in Seq(T) /\ Len(u) = Len(s) + 1 /\ u[Len(s) + 1] = c
        /\ \A i \in 1 .. Len(s) : u[i] = s[i]
    BY <1>7, <2>1, AppendProperties
  <2>3. Len(s) = 2
    BY <1>6
  <2>4. QED
    BY <2>2, <2>3
<1>9. Len(u) = Len(t) /\ \A i \in 1 .. Len(u) : u[i] = t[i]
  BY <1>6, <1>8
<1>10. u = t
  BY <1>6, <1>8, <1>9, SeqEqual
<1>11. QED
  BY <1>5, <1>7, <1>10, Zenon

LEMMA FlatTwo ==
  ASSUME NEW S, NEW a \in Seq(S), NEW b \in Seq(S)
  PROVE  FlattenSeq(<<a, b>>) = a \o b
<1>1. PICK T : T = Seq(S)
  OBVIOUS
<1>2. a \in T /\ <<a>> \in Seq(T)
  BY <1>1
<1>3. FlattenSeq(Append(<<a>>, b)) = FlattenSeq(<<a>>) \o b
  BY <1>1, <1>2, FlattenAppend, Zenon
<1>4. QED
  BY <1>3, FlatOne, AppendToOne, Zenon

LEMMA FlatThree ==
  ASSUME NEW a \in Seq(Nat), NEW b \in Seq(Nat), NEW c \in Seq(Nat)
  PROVE  FlattenSeq(<<a, b, c>>) = a \o b \o c
<1>1. PICK T : T = Seq(Nat)
  OBVIOUS
<1>2. a \in T /\ b \in T /\ <<a, b>> \in Seq(T)
  BY <1>1
<1>3. FlattenSeq(Append(<<a, b>>, c)) = FlattenSeq(<<a, b>>) \o c
  BY <1>1, <1>2, FlattenAppend, Zenon
<1>4. FlattenSeq(<<a, b>>) = a \o b
  BY FlatTwo
<1>5. Append(<<a, b>>, c) = <<a, b, c>>
  BY AppendToTwo, Zenon
<1>6. QED
  BY <1>3, <1>4, <1>5, Zenon

\* Bytes joined to bytes are bytes.
LEMMA Joined ==
  ASSUME NEW S, NEW a \in Seq(S), NEW b \in Seq(S)
  PROVE  a \o b \in Seq(S) /\ Len(a \o b) = Len(a) + Len(b)
BY ConcatProperties

LEMMA BytesJoined ==
  ASSUME NEW a \in Seq(Nat), NEW b \in Seq(Nat)
  PROVE  a \o b \in Seq(Nat) /\ Len(a \o b) = Len(a) + Len(b)
BY Joined

\* The bytes of one number, and of two.
LEMMA EncodedOne ==
  ASSUME NEW x \in Fitting
  PROVE  Encoded(<<x>>) = Word(x)
<1>1. PICK a \in Seq(Nat) : a = Word(x)
  BY WordReads
<1>2. [i \in DOMAIN <<x>> |-> Word(<<x>>[i])] = <<a>>
  BY <1>1
<1>3. QED
  BY <1>1, <1>2, FlatOne DEF Encoded

LEMMA EncodedTwo ==
  ASSUME NEW x \in Fitting, NEW y \in Fitting
  PROVE  Encoded(<<x, y>>) = Word(x) \o Word(y)
<1>1. PICK a \in Seq(Nat), b \in Seq(Nat) : a = Word(x) /\ b = Word(y)
  BY WordReads
<1>2. [i \in DOMAIN <<x, y>> |-> Word(<<x, y>>[i])] = <<a, b>>
  <2>1. PICK l : l = <<x, y>>
    OBVIOUS
  <2>2. DOMAIN l = 1 .. 2 /\ l[1] = x /\ l[2] = y
    BY <2>1
  <2>3. PICK g : g = [i \in DOMAIN l |-> Word(l[i])]
    OBVIOUS
  <2>4. DOMAIN g = 1 .. 2 /\ g[1] = a /\ g[2] = b
    BY <1>1, <2>2, <2>3
  <2>5. g = <<a, b>>
    <3>1. g = [i \in 1 .. 2 |-> g[i]] /\ g \in Seq(Seq(Nat)) /\ Len(g) = 2
      <4>1. g = [i \in 1 .. 2 |-> g[i]]
        BY <2>3, <2>4
      <4>2. \A i \in 1 .. 2 : g[i] \in Seq(Nat)
        BY <2>4
      <4>3. QED
        BY <4>1, <4>2
    <3>2. <<a, b>> \in Seq(Seq(Nat)) /\ Len(<<a, b>>) = 2 /\ <<a, b>>[1] = a /\ <<a, b>>[2] = b
      OBVIOUS
    <3>3. \A i \in 1 .. Len(g) : g[i] = <<a, b>>[i]
      BY <2>4, <3>1, <3>2
    <3>4. QED
      BY <3>1, <3>2, <3>3, SeqEqual
  <2>6. QED
    BY <2>1, <2>3, <2>5
<1>3. QED
  BY <1>1, <1>2, FlatTwo DEF Encoded

Short(ns) == (\E x \in Fitting : ns = <<x>>) \/ \E x, y \in Fitting : ns = <<x, y>>

\* A few numbers are encoded where their words are.
LEMMA EncodedAt ==
  ASSUME NEW ns, Short(ns)
  PROVE  /\ Encoded(ns) \in Seq(Nat) /\ Len(ns) \in 1 .. 2 /\ Len(Encoded(ns)) = 2 * Len(ns)
         /\ \A w \in Seq(Nat), q \in Nat \ {0} : At(w, q, Encoded(ns)) => WordsAt(w, q, ns)
<1>1. ASSUME NEW x \in Fitting, ns = <<x>>
      PROVE  /\ Encoded(ns) \in Seq(Nat) /\ Len(ns) \in 1 .. 2 /\ Len(Encoded(ns)) = 2 * Len(ns)
             /\ \A w \in Seq(Nat), q \in Nat \ {0} : At(w, q, Encoded(ns)) => WordsAt(w, q, ns)
  <2>1. Encoded(ns) = Word(x) /\ Len(ns) = 1 /\ ns[1] = x
    BY <1>1, EncodedOne
  <2>2. ASSUME NEW w \in Seq(Nat), NEW q \in Nat \ {0}, At(w, q, Encoded(ns))
        PROVE  WordsAt(w, q, ns)
    <3>1. q + 1 <= Len(w) /\ w[q] + Base * w[q + 1] = x
      BY <2>1, <2>2, WordAt
    <3>2. q + 2 * 1 - 1 = q + 1 /\ q + 2 * 1 - 2 = q
      OBVIOUS
    <3>3. QED
      BY <2>1, <3>1, <3>2 DEF WordsAt
  <2>3. QED
    BY <2>1, <2>2, WordReads
<1>2. ASSUME NEW x \in Fitting, NEW y \in Fitting, ns = <<x, y>>
      PROVE  /\ Encoded(ns) \in Seq(Nat) /\ Len(ns) \in 1 .. 2 /\ Len(Encoded(ns)) = 2 * Len(ns)
             /\ \A w \in Seq(Nat), q \in Nat \ {0} : At(w, q, Encoded(ns)) => WordsAt(w, q, ns)
  <2>1. Encoded(ns) = Word(x) \o Word(y) /\ Len(ns) = 2 /\ ns[1] = x /\ ns[2] = y
    BY <1>2, EncodedTwo
  <2>2. PICK a \in Seq(Nat), b \in Seq(Nat) : a = Word(x) /\ b = Word(y) /\ Len(a) = 2 /\ Len(b) = 2
    BY WordReads
  <2>3. a \o b \in Seq(Nat) /\ Len(a \o b) = 4
    <3>1. a \o b \in Seq(Nat) /\ Len(a \o b) = Len(a) + Len(b)
      BY Joined
    <3>2. QED
      BY <2>2, <3>1
  <2>4. ASSUME NEW w \in Seq(Nat), NEW q \in Nat \ {0}, At(w, q, Encoded(ns))
        PROVE  WordsAt(w, q, ns)
    <3>1. At(w, q, a) /\ At(w, q + 2, b)
      <4>1. At(w, q, a \o b)
        BY <2>1, <2>2, <2>4
      <4>2. At(w, q, a) /\ At(w, q + Len(a), b)
        BY <4>1, AtConcat
      <4>3. QED
        BY <2>2, <4>2
    <3>2. q + 1 <= Len(w) /\ w[q] + Base * w[q + 1] = x
      BY <2>2, <3>1, WordAt
    <3>3. q + 2 \in Nat \ {0}
      OBVIOUS
    <3>4. (q + 2) + 1 <= Len(w) /\ w[q + 2] + Base * w[(q + 2) + 1] = y
      BY <2>2, <3>1, <3>3, WordAt
    <3>5. /\ q + 2 * 1 - 1 = q + 1 /\ q + 2 * 1 - 2 = q
          /\ q + 2 * 2 - 1 = (q + 2) + 1 /\ q + 2 * 2 - 2 = q + 2
      OBVIOUS
    <3>6. ASSUME NEW i \in 1 .. 2
          PROVE  q + 2 * i - 1 <= Len(w) /\ w[q + 2 * i - 2] + Base * w[q + 2 * i - 1] = ns[i]
      <4>1. CASE i = 1
        BY <2>1, <3>2, <3>5, <4>1
      <4>2. CASE i = 2
        BY <2>1, <3>4, <3>5, <4>2
      <4>3. QED
        BY <4>1, <4>2
    <3>7. QED
      BY <2>1, <3>6 DEF WordsAt
  <2>5. QED
    BY <2>1, <2>2, <2>3, <2>4
<1>3. QED
  BY <1>1, <1>2 DEF Short

\* The number of elements of a shape of one dimension, and of two.
LEMMA ProductOne ==
  ASSUME NEW a \in Int
  PROVE  Product(<<a>>) = a
<1> DEFINE s == <<a>>
           f == [i \in 0 .. Len(s) |-> IF i = 0 THEN 1 ELSE a]
           h == CHOOSE h : h = [i \in 0 .. Len(s) |-> IF i = 0 THEN 1 ELSE h[i - 1] * s[i]]
<1>1. Len(s) = 1 /\ s[1] = a
  OBVIOUS
<1> HIDE DEF s
<1>2. f = [i \in 0 .. Len(s) |-> IF i = 0 THEN 1 ELSE f[i - 1] * s[i]]
  <2>1. \A i \in 0 .. Len(s) : f[i] = IF i = 0 THEN 1 ELSE f[i - 1] * s[i]
    BY <1>1
  <2>2. QED
    BY <2>1
<1>3. h = [i \in 0 .. Len(s) |-> IF i = 0 THEN 1 ELSE h[i - 1] * s[i]]
  <2> HIDE DEF f
  <2>1. QED
    BY <1>2
<1>4. Product(s) = h[Len(s)]
  BY DEF Product
<1> HIDE DEF h
<1>5. h[0] = 1 /\ h[1] = h[0] * s[1]
  BY <1>1, <1>3
<1>6. QED
  BY <1>1, <1>4, <1>5 DEF s

LEMMA ProductTwo ==
  ASSUME NEW a \in Int, NEW b \in Int
  PROVE  Product(<<a, b>>) = a * b
<1> DEFINE s == <<a, b>>
           f == [i \in 0 .. Len(s) |-> IF i = 0 THEN 1 ELSE IF i = 1 THEN a ELSE a * b]
           h == CHOOSE h : h = [i \in 0 .. Len(s) |-> IF i = 0 THEN 1 ELSE h[i - 1] * s[i]]
<1>1. Len(s) = 2 /\ s[1] = a /\ s[2] = b
  OBVIOUS
<1> HIDE DEF s
<1>2. f = [i \in 0 .. Len(s) |-> IF i = 0 THEN 1 ELSE f[i - 1] * s[i]]
  <2>1. f[0] = 1 /\ f[1] = a /\ f[2] = a * b
    BY <1>1
  <2>2. \A i \in 0 .. Len(s) : f[i] = IF i = 0 THEN 1 ELSE f[i - 1] * s[i]
    <3>1. SUFFICES ASSUME NEW i \in 0 .. Len(s), i # 0 PROVE f[i] = f[i - 1] * s[i]
      BY <2>1
    <3>2. i = 1 \/ i = 2
      BY <1>1, <3>1
    <3>3. f[1] = f[0] * s[1] /\ f[2] = f[1] * s[2]
      BY <1>1, <2>1
    <3> HIDE DEF f
    <3>4. QED
      BY <3>2, <3>3
  <2>3. QED
    BY <2>2
<1>3. h = [i \in 0 .. Len(s) |-> IF i = 0 THEN 1 ELSE h[i - 1] * s[i]]
  <2> HIDE DEF f
  <2>1. QED
    BY <1>2
<1>4. Product(s) = h[Len(s)]
  BY DEF Product
<1> HIDE DEF h
<1>5. h[0] = 1 /\ h[1] = h[0] * s[1] /\ h[2] = h[1] * s[2]
  BY <1>1, <1>3
<1>6. h[2] = a * b
  BY <1>1, <1>5
<1>7. QED
  BY <1>1, <1>4, <1>6 DEF s

\* The tensors a state is saved as.
Sound(t) ==
  /\ t = [shape |-> t.shape, data |-> t.data]
  /\ Short(t.shape) /\ Short(t.data) /\ Product(t.shape) = Len(t.data)

\* A tensor's bytes, one field after the other.
Fields(w, q, t) ==
  /\ q <= Len(w) /\ w[q] = Len(t.shape)
  /\ WordsAt(w, q + 1, t.shape)
  /\ WordsAt(w, q + 1 + 2 * Len(t.shape), <<Len(t.data)>>)
  /\ WordsAt(w, q + 3 + 2 * Len(t.shape), t.data)

\* Where the words of a tensor stand.
LEMMA TensorAt ==
  ASSUME NEW t, Sound(t)
  PROVE  /\ Tensor(t) \in Seq(Nat) /\ Len(Tensor(t)) = 3 + 2 * Len(t.shape) + 2 * Len(t.data)
         /\ \A w \in Seq(Nat), q \in Nat \ {0} : At(w, q, Tensor(t)) => Fields(w, q, t)
<1>s. PICK shape, data : /\ shape = t.shape /\ data = t.data /\ t = [shape |-> shape, data |-> data]
                         /\ Short(shape) /\ Short(data)
  BY DEF Sound
<1>1. PICK r \in 1 .. 2, n \in 1 .. 2 : r = Len(shape) /\ n = Len(data)
  BY <1>s, EncodedAt
<1>2. r % Base = r /\ n \in Fitting
  <2>1. PICK B \in Nat : B = Base /\ B > 2
    BY TrainingAssumption
  <2>2. r % B = r
    BY <2>1
  <2>3. QED
    BY <2>1, <2>2, SmallFits
<1>3. PICK a \in Seq(Nat), b \in Seq(Nat), c \in Seq(Nat), d \in Seq(Nat) :
        /\ a = <<r>> /\ b = Encoded(shape) /\ c = Word(n) /\ d = Encoded(data)
        /\ Len(a) = 1 /\ Len(b) = 2 * r /\ Len(c) = 2 /\ Len(d) = 2 * n
  <2>1. <<r>> \in Seq(Nat) /\ Len(<<r>>) = 1
    OBVIOUS
  <2>2. Encoded(shape) \in Seq(Nat) /\ Len(Encoded(shape)) = 2 * r
    BY <1>s, <1>1, EncodedAt
  <2>3. Encoded(data) \in Seq(Nat) /\ Len(Encoded(data)) = 2 * n
    BY <1>s, <1>1, EncodedAt
  <2>4. Word(n) \in Seq(Nat) /\ Len(Word(n)) = 2
    BY <1>2, WordReads
  <2>5. QED
    BY <2>1, <2>2, <2>3, <2>4, Zenon
<1>4. Tensor(t) = a \o b \o c \o d
  BY <1>s, <1>1, <1>2, <1>3 DEF Tensor, Encoded
<1>5. PICK ab \in Seq(Nat) : ab = a \o b /\ Len(ab) = 1 + 2 * r
  <2>1. a \o b \in Seq(Nat) /\ Len(a \o b) = Len(a) + Len(b)
    BY Joined
  <2>2. QED
    BY <1>3, <2>1
<1>6. PICK abc \in Seq(Nat) : abc = ab \o c /\ Len(abc) = 1 + 2 * r + 2
  <2>1. ab \o c \in Seq(Nat) /\ Len(ab \o c) = Len(ab) + Len(c)
    BY Joined
  <2>2. QED
    BY <1>3, <1>5, <2>1
<1>7. PICK u \in Seq(Nat) : u = abc \o d /\ Len(u) = 1 + 2 * r + 2 + 2 * n
  <2>1. abc \o d \in Seq(Nat) /\ Len(abc \o d) = Len(abc) + Len(d)
    BY Joined
  <2>2. QED
    BY <1>3, <1>6, <2>1
<1>8. ASSUME NEW w \in Seq(Nat), NEW q \in Nat \ {0}, At(w, q, u)
      PROVE  /\ q <= Len(w) /\ w[q] = r
             /\ WordsAt(w, q + 1, shape)
             /\ WordsAt(w, q + 1 + 2 * r, <<n>>)
             /\ WordsAt(w, q + 3 + 2 * r, data)
  <2>1. At(w, q, abc) /\ At(w, q + Len(abc), d)
    BY <1>7, <1>8, AtConcat
  <2>2. At(w, q, ab) /\ At(w, q + Len(ab), c)
    BY <1>6, <2>1, AtConcat
  <2>3. At(w, q, a) /\ At(w, q + Len(a), b)
    BY <1>5, <2>2, AtConcat
  <2>4. /\ q + Len(a) = q + 1 /\ q + Len(ab) = q + 1 + 2 * r /\ q + Len(abc) = q + 3 + 2 * r
        /\ q + 1 \in Nat \ {0} /\ q + 1 + 2 * r \in Nat \ {0} /\ q + 3 + 2 * r \in Nat \ {0}
    <3>1. Len(a) = 1 /\ Len(ab) = 1 + 2 * r /\ Len(abc) = 1 + 2 * r + 2
      BY <1>3, <1>5, <1>6, Zenon
    <3>2. PICK x, y, z : x = Len(a) /\ y = Len(ab) /\ z = Len(abc)
      OBVIOUS
    <3>3. x = 1 /\ y = 1 + 2 * r /\ z = 1 + 2 * r + 2
      BY <3>1, <3>2
    <3>4. q + x = q + 1 /\ q + y = q + 1 + 2 * r /\ q + z = q + 3 + 2 * r
      BY <3>3
    <3>5. q + 1 \in Nat \ {0} /\ q + 1 + 2 * r \in Nat \ {0} /\ q + 3 + 2 * r \in Nat \ {0}
      OBVIOUS
    <3>6. QED
      BY <3>2, <3>4, <3>5, Zenon
  <2>5. q <= Len(w) /\ w[q] = r
    <3>1. q + Len(a) - 1 <= Len(w) /\ \A i \in 1 .. Len(a) : w[q + i - 1] = a[i]
      BY <2>3, Zenon DEF At
    <3>2. Len(a) = 1 /\ a[1] = r /\ 1 \in 1 .. 1
      BY <1>3
    <3>3. q + 1 - 1 <= Len(w) /\ w[q + 1 - 1] = a[1]
      BY <3>1, <3>2, Zenon
    <3>4. q + 1 - 1 = q
      OBVIOUS
    <3>5. QED
      BY <3>2, <3>3, <3>4, Zenon
  <2>6. WordsAt(w, q + 1, shape)
    BY <1>s, <1>3, <2>3, <2>4, EncodedAt
  <2>7. WordsAt(w, q + 1 + 2 * r, <<n>>)
    <3>1. Short(<<n>>) /\ Encoded(<<n>>) = c
      BY <1>2, <1>3, EncodedOne DEF Short
    <3>2. QED
      BY <2>2, <2>4, <3>1, EncodedAt
  <2>8. WordsAt(w, q + 3 + 2 * r, data)
    BY <1>s, <1>3, <2>1, <2>4, EncodedAt
  <2>9. QED
    BY <2>5, <2>6, <2>7, <2>8
<1>9. Tensor(t) = u /\ Len(u) = 3 + 2 * r + 2 * n
  <2>1. Tensor(t) = u
    BY <1>4, <1>5, <1>6, <1>7, Zenon
  <2>2. Len(u) = 3 + 2 * r + 2 * n
    BY <1>7
  <2>3. QED
    BY <2>1, <2>2
<1>10. ASSUME NEW w \in Seq(Nat), NEW q \in Nat \ {0}, At(w, q, Tensor(t)) PROVE Fields(w, q, t)
  <2>1. At(w, q, u)
    BY <1>9, <1>10
  <2>2. QED
    BY <1>s, <1>1, <1>8, <2>1, Zenon DEF Fields
<1>11. QED
  BY <1>s, <1>1, <1>7, <1>9, <1>10

\* What a crash leaves of w.
Begins(f, w) == Len(f) <= Len(w) /\ \A i \in 1 .. Len(f) : f[i] = w[i]

\* A short list is a sequence of numbers that fit.
LEMMA ShortIs ==
  ASSUME NEW ns, Short(ns)
  PROVE  ns \in Seq(Fitting) /\ Len(ns) \in 1 .. 2 /\ ns = [i \in 1 .. Len(ns) |-> ns[i]]
<1>1. CASE \E x \in Fitting : ns = <<x>>
  <2>1. PICK x \in Fitting : ns = <<x>>
    BY <1>1
  <2>2. ns \in Seq(Fitting) /\ Len(ns) = 1
    BY <2>1
  <2>3. QED
    BY <2>2
<1>2. CASE \E x, y \in Fitting : ns = <<x, y>>
  <2>1. PICK x \in Fitting, y \in Fitting : ns = <<x, y>>
    BY <1>2
  <2>2. ns \in Seq(Fitting) /\ Len(ns) = 2
    BY <2>1
  <2>3. QED
    BY <2>2
<1>3. QED
  BY <1>1, <1>2 DEF Short

\* The words that are there before the cut are read back; a list that is cut is not read.
LEMMA WordsRead ==
  ASSUME NEW f \in Seq(Nat), NEW w \in Seq(Nat), Begins(f, w), NEW ns, Short(ns),
         NEW q \in Nat \ {0}, WordsAt(w, q, ns), q + 2 * Len(ns) - 1 <= Len(f)
  PROVE  Words(f, q, Len(ns)) = ns
<1>1. PICK n \in 1 .. 2 : n = Len(ns) /\ ns = [i \in 1 .. n |-> ns[i]]
  BY ShortIs
<1>2. ASSUME NEW i \in 1 .. n
      PROVE  f[q + 2 * i - 2] + Base * f[q + 2 * i - 1] = ns[i]
  <2>1. w[q + 2 * i - 2] + Base * w[q + 2 * i - 1] = ns[i]
    BY <1>1 DEF WordsAt
  <2>2. PICK j \in Nat, k \in Nat : j = q + 2 * i - 2 /\ k = q + 2 * i - 1
    OBVIOUS
  <2>3. j \in 1 .. Len(f) /\ k \in 1 .. Len(f)
    <3>1. PICK l \in Nat : l = Len(f)
      BY LenProperties
    <3>2. q + 2 * n - 1 <= l
      BY <1>1, <3>1
    <3>3. QED
      BY <2>2, <3>1, <3>2
  <2>4. f[j] = w[j] /\ f[k] = w[k]
    BY <2>3 DEF Begins
  <2>5. QED
    BY <2>1, <2>2, <2>4
<1>3. Words(f, q, n) = [i \in 1 .. n |-> ns[i]]
  BY <1>2 DEF Words
<1>4. QED
  BY <1>1, <1>3

\* Once reading has stopped it stays so.
LEMMA NothingRead ==
  ASSUME NEW f, NEW ts
  PROVE  ReadTensor(f, [pos |-> 0, tensors |-> ts]) = [pos |-> 0, tensors |-> ts]
BY DEF ReadTensor, NoHeader

NextTensor(q, t) == q + 3 + 2 * Len(t.shape) + 2 * Len(t.data)
\* The tensor t is read at q when all its bytes are there, and else none is.
Reading(f, q, next, t, ts) ==
  IF next - 1 <= Len(f)
  THEN ReadTensor(f, [pos |-> q, tensors |-> ts]) = [pos |-> next, tensors |-> Append(ts, t)]
  ELSE ReadTensor(f, [pos |-> q, tensors |-> ts]) = [pos |-> 0, tensors |-> ts]

\* What reading a tensor comes to, at the place its bytes should be.
LEMMA Reads ==
  ASSUME NEW f \in Seq(Nat), NEW w \in Seq(Nat), Begins(f, w), NEW q \in Nat \ {0},
         NEW t, Sound(t), At(w, q, Tensor(t)), NEW ts
  PROVE  Reading(f, q, NextTensor(q, t), t, ts)
<1>s. PICK shape, data, next :
        /\ shape = t.shape /\ data = t.data /\ t = [shape |-> shape, data |-> data]
        /\ next = NextTensor(q, t) /\ next = q + 3 + 2 * Len(shape) + 2 * Len(data)
  BY DEF Sound, NextTensor
<1>t. Short(shape) /\ Short(data) /\ Product(shape) = Len(data)
  BY <1>s DEF Sound
<1> DEFINE at == [pos |-> q, tensors |-> ts]
<1>1. PICK r \in 1 .. 2, n \in 1 .. 2, l \in Nat : r = Len(shape) /\ n = Len(data) /\ l = Len(f)
  BY <1>t, ShortIs, LenProperties
<1>n. next = q + 3 + 2 * r + 2 * n
  BY <1>s, <1>1
<1>2. /\ q <= Len(w) /\ w[q] = r
      /\ WordsAt(w, q + 1, shape) /\ WordsAt(w, q + 1 + 2 * r, <<n>>) /\ WordsAt(w, q + 3 + 2 * r, data)
  <2>1. Fields(w, q, t)
    BY TensorAt
  <2>2. QED
    BY <1>s, <1>1, <2>1, Zenon DEF Fields
<1>3. at.pos = q /\ at.tensors = ts /\ NoHeader(at) = [pos |-> 0, tensors |-> ts]
  BY DEF NoHeader
<1> HIDE DEF at
<1>e. ASSUME next - 1 <= l, ReadTensor(f, at) = [pos |-> next, tensors |-> Append(ts, t)]
      PROVE  Reading(f, q, NextTensor(q, t), t, ts)
  <2>1. next - 1 <= Len(f)
    BY <1>1, <1>e, Zenon
  <2>2. QED
    BY <1>s, <1>e, <2>1, Zenon DEF Reading, at
<1>m. ASSUME ~(next - 1 <= l), ReadTensor(f, at) = NoHeader(at)
      PROVE  Reading(f, q, NextTensor(q, t), t, ts)
  <2>1. ~(next - 1 <= Len(f))
    BY <1>1, <1>m, Zenon
  <2>2. QED
    BY <1>s, <1>3, <1>m, <2>1, Zenon DEF Reading, at
<1>4. CASE l < q
  <2>1. ReadTensor(f, at) = NoHeader(at)
    BY <1>1, <1>3, <1>4 DEF ReadTensor, Ended
  <2>2. ~(next - 1 <= l)
    BY <1>n, <1>4
  <2>3. QED
    BY <1>m, <2>1, <2>2, Zenon
<1>5. CASE ~(l < q)
  <2>1. f[q] = r
    <3>1. q \in 1 .. Len(f)
      BY <1>1, <1>5
    <3>2. QED
      BY <1>2, <3>1 DEF Begins
  <2> DEFINE m == Words(f, q + 1 + 2 * r, 1)[1]
             end == q + 1 + 2 * r + 2 + 2 * m
  <2>2. ReadTensor(f, at) =
          IF q + 1 + 2 * r + 1 > l THEN NoHeader(at)
          ELSE IF Product(Words(f, q + 1, r)) # m \/ end - 1 > l THEN NoHeader(at)
          ELSE [pos |-> end,
                tensors |-> Append(ts, [shape |-> Words(f, q + 1, r),
                                        data |-> Words(f, q + 1 + 2 * r + 2, m)])]
    <3>1. ~(at.pos = 0 \/ Ended(f, at.pos))
      BY <1>1, <1>3, <1>5 DEF Ended
    <3>2. \A i : Ended(f, i) <=> i > l
      BY <1>1 DEF Ended
    <3>3. ReadTensor(f, at) =
            IF Ended(f, q + 1 + 2 * r + 1) THEN NoHeader(at)
            ELSE IF Product(Words(f, q + 1, r)) # m \/ Ended(f, end - 1) THEN NoHeader(at)
            ELSE [pos |-> end,
                  tensors |-> Append(ts, [shape |-> Words(f, q + 1, r),
                                          data |-> Words(f, q + 1 + 2 * r + 2, m)])]
      BY <1>3, <2>1, <3>1, Zenon DEF ReadTensor
    <3>4. QED
      BY <3>2, <3>3, Zenon
  <2>3. CASE l < q + 1 + 2 * r + 1
    <3>1. ~(next - 1 <= l)
      BY <1>n, <2>3
    <3>2. q + 1 + 2 * r + 1 > l
      BY <2>3
    <3>3. ReadTensor(f, at) = NoHeader(at)
      BY <2>2, <3>2, Zenon
    <3>4. QED
      BY <1>m, <3>1, <3>3, Zenon
  <2>4. CASE ~(l < q + 1 + 2 * r + 1)
    <3>1. Words(f, q + 1, r) = shape
      <4>1. PICK k \in Nat \ {0} : k = q + 1
        OBVIOUS
      <4>2. k + 2 * Len(shape) - 1 <= Len(f)
        BY <1>1, <2>4, <4>1
      <4>3. WordsAt(w, k, shape)
        BY <1>2, <4>1, Zenon
      <4>4. Words(f, k, Len(shape)) = shape
        BY <1>t, <4>2, <4>3, WordsRead, Zenon
      <4>5. QED
        BY <1>1, <4>1, <4>4, Zenon
    <3>2. Words(f, q + 1 + 2 * r, 1)[1] = n
      <4>1. n \in Fitting
        BY SmallFits
      <4>2. Short(<<n>>) /\ Len(<<n>>) = 1 /\ <<n>>[1] = n
        BY <4>1 DEF Short
      <4>3. q + 1 + 2 * r \in Nat \ {0} /\ q + 1 + 2 * r + 2 * 1 - 1 <= Len(f)
        BY <1>1, <2>4
      <4>4. PICK k \in Nat \ {0} : k = q + 1 + 2 * r
        BY <4>3
      <4>5. k + 2 * Len(<<n>>) - 1 <= Len(f) /\ WordsAt(w, k, <<n>>)
        BY <1>2, <4>2, <4>3, <4>4
      <4>6. Words(f, k, Len(<<n>>)) = <<n>>
        BY <4>2, <4>5, WordsRead
      <4>7. QED
        BY <4>2, <4>4, <4>6
    <3>3. q + 1 + 2 * r + 2 + 2 * n = q + 3 + 2 * r + 2 * n /\ q + 1 + 2 * r + 2 = q + 3 + 2 * r
      OBVIOUS
    <3>4. Product(shape) = n
      BY <1>t, <1>1
    <3>5. CASE l < q + 3 + 2 * r + 2 * n - 1
      <4>1. ReadTensor(f, at) = NoHeader(at)
        BY <2>2, <2>4, <3>2, <3>3, <3>5
      <4>2. ~(next - 1 <= l)
        BY <1>n, <3>5
      <4>3. QED
        BY <1>m, <4>1, <4>2, Zenon
    <3>6. CASE ~(l < q + 3 + 2 * r + 2 * n - 1)
      <4>1. Words(f, q + 3 + 2 * r, n) = data
        <5>1. q + 3 + 2 * r \in Nat \ {0} /\ q + 3 + 2 * r + 2 * n - 1 <= Len(f)
          BY <1>1, <3>6
        <5>2. PICK k \in Nat \ {0} : k = q + 3 + 2 * r
          BY <5>1
        <5>3. k + 2 * Len(data) - 1 <= Len(f) /\ WordsAt(w, k, data)
          BY <1>1, <1>2, <5>1, <5>2
        <5>4. Words(f, k, Len(data)) = data
          BY <1>t, <5>3, WordsRead
        <5>5. QED
          BY <1>1, <5>2, <5>4
      <4>2. ReadTensor(f, at) = [pos |-> q + 3 + 2 * r + 2 * n,
                                 tensors |-> Append(ts, [shape |-> shape, data |-> data])]
        <5>1. m = n /\ end = q + 3 + 2 * r + 2 * n
          BY <3>2, <3>3
        <5>2. ~(q + 1 + 2 * r + 1 > l) /\ ~(end - 1 > l)
          BY <2>4, <3>6, <5>1
        <5>3. Words(f, q + 1 + 2 * r + 2, m) = data
          BY <3>3, <4>1, <5>1
        <5> HIDE DEF m, end
        <5>4. Product(Words(f, q + 1, r)) = m
          BY <3>1, <3>4, <5>1
        <5>5. ReadTensor(f, at) =
                [pos |-> end,
                 tensors |-> Append(ts, [shape |-> Words(f, q + 1, r),
                                         data |-> Words(f, q + 1 + 2 * r + 2, m)])]
          BY <2>2, <5>2, <5>4, Zenon
        <5>6. QED
          BY <3>1, <5>1, <5>3, <5>5
      <4>3. next - 1 <= l
        BY <1>n, <3>6
      <4>4. ReadTensor(f, at) = [pos |-> next, tensors |-> Append(ts, t)]
        BY <1>s, <1>n, <4>2, Zenon
      <4>5. QED
        BY <1>e, <4>3, <4>4, Zenon
    <3>7. QED
      BY <3>5, <3>6
  <2>5. QED
    BY <2>3, <2>4
<1>6. QED
  BY <1>4, <1>5

\* The words a state's file holds.
LEMMA StatesFit ==
  ASSUME NEW s \in States
  PROVE  /\ s.p \in Fitting /\ s.m \in Fitting /\ s.v \in Fitting /\ s.step \in Fitting
         /\ 1 \in Fitting /\ 2 \in Fitting /\ 3 \in Fitting
<1>1. PICK B \in Nat : B = Base /\ B > 2
  BY TrainingAssumption
<1>2. PICK S \in Nat : S = B * B
  BY <1>1
<1>3. S > 3
  BY <1>1, <1>2
<1>4. Modulus \in Nat /\ MaxSteps \in Nat /\ Modulus <= S /\ MaxSteps < S
  BY <1>1, <1>2, TrainingAssumption
<1>5. Fitting = 0 .. S - 1
  BY <1>1, <1>2 DEF Fitting
<1>6. s.p \in 0 .. Modulus - 1 /\ s.m \in 0 .. Modulus - 1 /\ s.v \in 0 .. Modulus - 1 /\ s.step \in 0 .. MaxSteps
  BY DEF States, Numbers
<1>7. QED
  BY <1>2, <1>3, <1>4, <1>5, <1>6

\* The three tensors of a state can be read back.
LEMMA SavedIs ==
  ASSUME NEW s \in States
  PROVE  \E x, y, z :
           /\ Saved(s) = <<x, y, z>>
           /\ Sound(x) /\ Len(x.shape) = 1 /\ Len(x.data) = 1
           /\ Sound(y) /\ Len(y.shape) = 1 /\ Len(y.data) = 2
           /\ Sound(z) /\ Len(z.shape) = 2 /\ Len(z.data) = 1
<1>1. PICK x, y, z :
        /\ x = [shape |-> <<1>>, data |-> <<s.p>>]
        /\ y = [shape |-> <<2>>, data |-> <<s.m, s.v>>]
        /\ z = [shape |-> <<1, 1>>, data |-> <<s.step>>]
  OBVIOUS
<1>2. Saved(s) = <<x, y, z>>
  BY <1>1 DEF Saved
<1>3. /\ x.shape = <<1>> /\ x.data = <<s.p>>
      /\ y.shape = <<2>> /\ y.data = <<s.m, s.v>>
      /\ z.shape = <<1, 1>> /\ z.data = <<s.step>>
      /\ x = [shape |-> x.shape, data |-> x.data]
      /\ y = [shape |-> y.shape, data |-> y.data]
      /\ z = [shape |-> z.shape, data |-> z.data]
  BY <1>1
<1>4. /\ Len(<<1>>) = 1 /\ Len(<<2>>) = 1 /\ Len(<<1, 1>>) = 2
      /\ Len(<<s.p>>) = 1 /\ Len(<<s.m, s.v>>) = 2 /\ Len(<<s.step>>) = 1
  OBVIOUS
<1>5. Short(<<1>>) /\ Short(<<2>>) /\ Short(<<1, 1>>) /\ Short(<<s.p>>) /\ Short(<<s.m, s.v>>) /\ Short(<<s.step>>)
  BY StatesFit, SmallFits, Zenon DEF Short
<1>6. Product(<<1>>) = 1 /\ Product(<<2>>) = 2 /\ Product(<<1, 1>>) = 1
  <2>1. Product(<<1>>) = 1
    BY ProductOne
  <2>2. Product(<<2>>) = 2
    BY ProductOne
  <2>3. Product(<<1, 1>>) = 1 * 1
    BY ProductTwo
  <2>4. 1 * 1 = 1
    OBVIOUS
  <2>5. QED
    BY <2>1, <2>2, <2>3, <2>4, Zenon
<1>7. Sound(x) /\ Sound(y) /\ Sound(z)
  BY <1>3, <1>4, <1>5, <1>6, Zenon DEF Sound
<1>8. QED
  BY <1>2, <1>3, <1>4, <1>7, Zenon

\* Three bodies after the header.
LaysOut(w, a, b, c, d) ==
  /\ w \in Seq(Nat) /\ Len(w) = Len(a) + Len(b) + Len(c) + Len(d)
  /\ At(w, 1, a) /\ At(w, 1 + Len(a), b) /\ At(w, 1 + Len(a) + Len(b), c)
  /\ At(w, 1 + Len(a) + Len(b) + Len(c), d)

\* A header and three bodies, one after the other, are where they are looked for.
LEMMA LaidOut ==
  ASSUME NEW a \in Seq(Nat), NEW b \in Seq(Nat), NEW c \in Seq(Nat), NEW d \in Seq(Nat)
  PROVE  LaysOut(a \o (b \o c \o d), a, b, c, d)
<1> DEFINE w == a \o (b \o c \o d)
<1>1. PICK i \in Nat, j \in Nat, k \in Nat, l \in Nat : i = Len(a) /\ j = Len(b) /\ k = Len(c) /\ l = Len(d)
  BY LenProperties
<1>2. PICK bc \in Seq(Nat) : bc = b \o c /\ Len(bc) = j + k
  BY <1>1, Joined
<1>3. PICK bcd \in Seq(Nat) : bcd = bc \o d /\ Len(bcd) = j + k + l
  <2>1. bc \o d \in Seq(Nat) /\ Len(bc \o d) = Len(bc) + Len(d)
    BY Joined
  <2>2. QED
    BY <1>1, <1>2, <2>1
<1>4. w = a \o bcd
  BY <1>2, <1>3, Zenon
<1> HIDE DEF w
<1>5. w \in Seq(Nat) /\ Len(w) = i + j + k + l
  <2>1. a \o bcd \in Seq(Nat) /\ Len(a \o bcd) = Len(a) + Len(bcd)
    BY Joined
  <2>2. QED
    BY <1>1, <1>3, <1>4, <2>1
<1>6. At(w, 1, w)
  BY <1>5 DEF At
<1>7. At(w, 1, a) /\ At(w, 1 + i, bcd)
  <2>1. At(w, 1, a \o bcd)
    BY <1>4, <1>6
  <2>2. PICK q \in Nat \ {0} : q = 1
    OBVIOUS
  <2>3. At(w, q, a) /\ At(w, q + Len(a), bcd)
    BY <1>5, <2>1, <2>2, AtConcat
  <2>4. QED
    BY <1>1, <2>2, <2>3
<1>8. At(w, 1 + i, bc) /\ At(w, 1 + i + (j + k), d)
  <2>1. PICK q \in Nat \ {0} : q = 1 + i
    OBVIOUS
  <2>2. At(w, q, bc \o d)
    BY <1>3, <1>7, <2>1
  <2>3. At(w, q, bc) /\ At(w, q + Len(bc), d)
    BY <1>5, <2>2, AtConcat
  <2>4. QED
    BY <1>2, <2>1, <2>3
<1>9. At(w, 1 + i, b) /\ At(w, 1 + i + j, c)
  <2>1. PICK q \in Nat \ {0} : q = 1 + i
    OBVIOUS
  <2>2. At(w, q, b \o c)
    BY <1>2, <1>8, <2>1
  <2>3. At(w, q, b) /\ At(w, q + Len(b), c)
    BY <1>5, <2>2, AtConcat
  <2>4. QED
    BY <1>1, <2>1, <2>3
<1>10. 1 + i + (j + k) = 1 + i + j + k
  OBVIOUS
<1>11. LaysOut(w, a, b, c, d)
  BY <1>1, <1>5, <1>7, <1>8, <1>9, <1>10 DEF LaysOut
<1>12. QED
  BY <1>11 DEF w

\* Where a state's file has its parts.
Holds(w, x, y, z) ==
  /\ Sound(x) /\ At(w, 8, Tensor(x)) /\ NextTensor(8, x) = 15
  /\ Sound(y) /\ At(w, 15, Tensor(y)) /\ NextTensor(15, y) = 24
  /\ Sound(z) /\ At(w, 24, Tensor(z)) /\ NextTensor(24, z) = 33

\* A save lays its file out so.
LEMMA FileIs ==
  ASSUME NEW s \in States
  PROVE  \E w, x, y, z :
           /\ w \in Seq(Nat) /\ w = WriteWeights(Saved(s)) /\ Saved(s) = <<x, y, z>> /\ Len(w) = 32
           /\ w[1] = 1 /\ w[2] = 2 /\ w[3] = 1 /\ w[4] = 0 /\ w[5] = 1
           /\ WordsAt(w, 6, <<3>>)
           /\ Holds(w, x, y, z)
<1>1. PICK x1, x2, x3 :
        /\ Saved(s) = <<x1, x2, x3>>
        /\ Sound(x1) /\ Len(x1.shape) = 1 /\ Len(x1.data) = 1
        /\ Sound(x2) /\ Len(x2.shape) = 1 /\ Len(x2.data) = 2
        /\ Sound(x3) /\ Len(x3.shape) = 2 /\ Len(x3.data) = 1
  BY SavedIs
<1>2. PICK ts : ts = Saved(s) /\ ts = <<x1, x2, x3>>
  BY <1>1
<1>3. Len(ts) = 3 /\ DOMAIN ts = 1 .. 3 /\ ts[1] = x1 /\ ts[2] = x2 /\ ts[3] = x3
  BY <1>2
<1>4. NextTensor(8, x1) = 15 /\ NextTensor(15, x2) = 24 /\ NextTensor(24, x3) = 33
  BY <1>1 DEF NextTensor
<1>5. Tensor(x1) \in Seq(Nat) /\ Len(Tensor(x1)) = 7
  <2>1. Tensor(x1) \in Seq(Nat) /\ Len(Tensor(x1)) = 3 + 2 * Len(x1.shape) + 2 * Len(x1.data)
    BY <1>1, TensorAt, Zenon
  <2>2. QED
    BY <1>1, <2>1
<1>6. Tensor(x2) \in Seq(Nat) /\ Len(Tensor(x2)) = 9
  <2>1. Tensor(x2) \in Seq(Nat) /\ Len(Tensor(x2)) = 3 + 2 * Len(x2.shape) + 2 * Len(x2.data)
    BY <1>1, TensorAt, Zenon
  <2>2. QED
    BY <1>1, <2>1
<1>7. Tensor(x3) \in Seq(Nat) /\ Len(Tensor(x3)) = 9
  <2>1. Tensor(x3) \in Seq(Nat) /\ Len(Tensor(x3)) = 3 + 2 * Len(x3.shape) + 2 * Len(x3.data)
    BY <1>1, TensorAt, Zenon
  <2>2. QED
    BY <1>1, <2>1
<1>8. PICK b \in Seq(Nat), c \in Seq(Nat), d \in Seq(Nat) :
        /\ b = Tensor(x1) /\ Len(b) = 7 /\ c = Tensor(x2) /\ Len(c) = 9 /\ d = Tensor(x3) /\ Len(d) = 9
  BY <1>5, <1>6, <1>7, Zenon
<1>9. [i \in DOMAIN ts |-> Tensor(ts[i])] = <<b, c, d>>
  <2>1. PICK g : g = [i \in DOMAIN ts |-> Tensor(ts[i])]
    OBVIOUS
  <2>2. g = [i \in 1 .. 3 |-> g[i]] /\ g[1] = b /\ g[2] = c /\ g[3] = d
    BY <1>3, <1>8, <2>1
  <2>3. g \in Seq(Seq(Nat)) /\ Len(g) = 3
    <3>1. \A i \in 1 .. 3 : g[i] \in Seq(Nat)
      BY <2>2
    <3>2. QED
      BY <2>2, <3>1
  <2>4. PICK h : h = <<b, c, d>>
    OBVIOUS
  <2>5. h \in Seq(Seq(Nat)) /\ Len(h) = 3 /\ h[1] = b /\ h[2] = c /\ h[3] = d
    BY <2>4
  <2>6. \A i \in 1 .. Len(g) : g[i] = h[i]
    BY <2>2, <2>3, <2>5
  <2>7. g = h
    <3>1. Len(g) = Len(h)
      BY <2>3, <2>5
    <3>2. PICK T : T = Seq(Nat)
      OBVIOUS
    <3>3. g \in Seq(T) /\ h \in Seq(T)
      BY <2>3, <2>5, <3>2
    <3>4. QED
      BY <2>6, <3>1, <3>3, SeqEqual, Zenon
  <2>8. QED
    BY <2>1, <2>4, <2>7
<1>10. PICK a0 \in Seq(Nat), a1 \in Seq(Nat) : a0 = Magic /\ Len(a0) = 4 /\ a1 = <<1>> /\ Len(a1) = 1
                       /\ a0[1] = 1 /\ a0[2] = 2 /\ a0[3] = 1 /\ a0[4] = 0 /\ a1[1] = 1
  <2>1. <<1>> \in Seq(Nat) /\ Len(<<1>>) = 1 /\ <<1>>[1] = 1
    OBVIOUS
  <2>2. /\ Magic \in Seq(Nat) /\ Len(Magic) = 4
        /\ Magic[1] = 1 /\ Magic[2] = 2 /\ Magic[3] = 1 /\ Magic[4] = 0
    BY DEF Magic
  <2>3. QED
    BY <2>1, <2>2, Zenon
<1>11. PICK a2 \in Seq(Nat) : a2 = Word(3) /\ Len(a2) = 2
  BY SmallFits, WordReads
<1>a. PICK a01 : a01 = a0 \o a1
  OBVIOUS
<1>12. a01 \in Seq(Nat) /\ Len(a01) = 5
  <2>1. a01 \in Seq(Nat) /\ Len(a01) = Len(a0) + Len(a1)
    BY <1>a, BytesJoined, Zenon
  <2>2. Len(a0) = 4 /\ Len(a1) = 1
    BY <1>10
  <2>3. QED
    BY <2>1, <2>2
<1>b. PICK a : a = a01 \o a2
  OBVIOUS
<1>13. a \in Seq(Nat) /\ Len(a) = 7
  <2>1. a \in Seq(Nat) /\ Len(a) = Len(a01) + Len(a2)
    BY <1>12, <1>b, BytesJoined, Zenon
  <2>2. QED
    BY <1>11, <1>12, <2>1
<1>14. PICK w : w = WriteWeights(ts)
  OBVIOUS
<1>15. w = a \o (b \o c \o d)
  <2>1. WriteWeights(ts) = Magic \o <<1>> \o Word(3) \o FlattenSeq(<<b, c, d>>)
    BY <1>3, <1>9 DEF WriteWeights
  <2>2. FlattenSeq(<<b, c, d>>) = b \o c \o d
    BY FlatThree, Zenon
  <2>3. Magic \o <<1>> \o Word(3) = a
    BY <1>10, <1>11, <1>a, <1>b, Zenon
  <2>4. QED
    BY <1>14, <2>1, <2>2, <2>3, Zenon
<1>16. /\ w \in Seq(Nat) /\ Len(w) = Len(a) + Len(b) + Len(c) + Len(d)
       /\ At(w, 1, a) /\ At(w, 1 + Len(a), b) /\ At(w, 1 + Len(a) + Len(b), c)
       /\ At(w, 1 + Len(a) + Len(b) + Len(c), d)
  <2>1. LaysOut(w, a, b, c, d)
    BY <1>13, <1>15, LaidOut, Zenon
  <2>2. QED
    BY <2>1 DEF LaysOut
<1>17. Len(w) = 32 /\ At(w, 8, b) /\ At(w, 15, c) /\ At(w, 24, d)
  <2>1. /\ Len(a) + Len(b) + Len(c) + Len(d) = 32
        /\ 1 + Len(a) = 8 /\ 1 + Len(a) + Len(b) = 15 /\ 1 + Len(a) + Len(b) + Len(c) = 24
    BY <1>8, <1>13
  <2>2. QED
    BY <1>16, <2>1
<1>18. At(w, 1, a01) /\ At(w, 6, a2)
  <2>1. PICK q \in Nat \ {0} : q = 1
    OBVIOUS
  <2>2. At(w, q, a01 \o a2)
    BY <1>b, <1>16, <2>1
  <2>3. At(w, q, a01) /\ At(w, q + Len(a01), a2)
    BY <1>12, <1>16, <2>2, AtConcat
  <2>4. q + Len(a01) = 6
    BY <1>12, <2>1
  <2>5. QED
    BY <2>1, <2>3, <2>4
<1>19. At(w, 1, a0) /\ At(w, 5, a1)
  <2>1. PICK q \in Nat \ {0} : q = 1
    OBVIOUS
  <2>2. At(w, q, a0 \o a1)
    BY <1>a, <1>18, <2>1
  <2>3. At(w, q, a0) /\ At(w, q + Len(a0), a1)
    BY <1>16, <2>2, AtConcat
  <2>4. q + Len(a0) = 5
    BY <1>10, <2>1
  <2>5. QED
    BY <2>1, <2>3, <2>4
<1>20. w[1] = 1 /\ w[2] = 2 /\ w[3] = 1 /\ w[4] = 0 /\ w[5] = 1
  <2>1. \A i \in 1 .. 4 : w[1 + i - 1] = a0[i]
    BY <1>10, <1>19 DEF At
  <2>2. \A i \in 1 .. 1 : w[5 + i - 1] = a1[i]
    BY <1>10, <1>19 DEF At
  <2>3. w[1 + 1 - 1] = 1 /\ w[1 + 2 - 1] = 2 /\ w[1 + 3 - 1] = 1 /\ w[1 + 4 - 1] = 0 /\ w[5 + 1 - 1] = 1
    BY <1>10, <2>1, <2>2
  <2>4. 1 + 1 - 1 = 1 /\ 1 + 2 - 1 = 2 /\ 1 + 3 - 1 = 3 /\ 1 + 4 - 1 = 4 /\ 5 + 1 - 1 = 5
    OBVIOUS
  <2>5. QED
    BY <2>3, <2>4
<1>21. WordsAt(w, 6, <<3>>)
  <2>1. PICK ns : ns = <<3>>
    OBVIOUS
  <2>2. Short(ns) /\ Encoded(ns) = a2
    BY <1>11, <2>1, SmallFits, EncodedOne DEF Short
  <2>3. PICK q \in Nat \ {0} : q = 6
    OBVIOUS
  <2>4. At(w, q, Encoded(ns))
    BY <1>18, <2>2, <2>3
  <2>5. WordsAt(w, q, ns)
    BY <1>16, <2>2, <2>4, EncodedAt
  <2>6. QED
    BY <2>1, <2>3, <2>5
<1>22. At(w, 8, Tensor(x1)) /\ At(w, 15, Tensor(x2)) /\ At(w, 24, Tensor(x3))
  BY <1>8, <1>17, Zenon
<1>23. w = WriteWeights(Saved(s)) /\ Saved(s) = <<x1, x2, x3>> /\ Len(w) = 32 /\ w \in Seq(Nat)
  BY <1>1, <1>2, <1>14, <1>16, <1>17, Zenon
<1>24. QED
  <2>1. Holds(w, x1, x2, x3)
    BY <1>1, <1>4, <1>22, Zenon DEF Holds
  <2>2. QED
    BY <1>20, <1>21, <1>23, <2>1, Zenon

\* Every tensor of the file is read when it is whole, and else reading stops.
Turns(f, x, y, z) ==
  \E one, two, three :
    /\ one = ReadTensor(f, [pos |-> 8, tensors |-> <<>>])
    /\ two = ReadTensor(f, one) /\ three = ReadTensor(f, two)
    /\ Len(f) >= 32 => three = [pos |-> 33, tensors |-> <<x, y, z>>]
    /\ Len(f) < 32 => three.pos = 0

\* The three turns of the loop of loadWeights, on the prefix of a save.
LEMMA TurnsAre ==
  ASSUME NEW f \in Seq(Nat), NEW w \in Seq(Nat), Begins(f, w), NEW x, NEW y, NEW z, Holds(w, x, y, z)
  PROVE  Turns(f, x, y, z)
<1>1. PICK l \in Nat : l = Len(f)
  BY LenProperties
<1>2. /\ 8 \in Nat \ {0} /\ 15 \in Nat \ {0} /\ 24 \in Nat \ {0}
      /\ 15 - 1 = 14 /\ 24 - 1 = 23 /\ 33 - 1 = 32
  OBVIOUS
<1>3. /\ \A ts : Reading(f, 8, 15, x, ts)
      /\ \A ts : Reading(f, 15, 24, y, ts)
      /\ \A ts : Reading(f, 24, 33, z, ts)
  <2>1. ASSUME NEW ts PROVE Reading(f, 8, 15, x, ts)
    <3>1. Reading(f, 8, NextTensor(8, x), x, ts)
      BY <1>2, Reads, Zenon DEF Holds
    <3>2. QED
      BY <3>1, Zenon DEF Holds
  <2>2. ASSUME NEW ts PROVE Reading(f, 15, 24, y, ts)
    <3>1. Reading(f, 15, NextTensor(15, y), y, ts)
      BY <1>2, Reads, Zenon DEF Holds
    <3>2. QED
      BY <3>1, Zenon DEF Holds
  <2>3. ASSUME NEW ts PROVE Reading(f, 24, 33, z, ts)
    <3>1. Reading(f, 24, NextTensor(24, z), z, ts)
      BY <1>2, Reads, Zenon DEF Holds
    <3>2. QED
      BY <3>1, Zenon DEF Holds
  <2>4. QED
    BY <2>1, <2>2, <2>3
<1> DEFINE a == 14 <= l
           b == 23 <= l
           c == 32 <= l
<1>5. (c => b) /\ (b => a) /\ (l >= 32 => c) /\ (l < 32 => ~c)
  OBVIOUS
<1>6. ASSUME NEW ts
      PROVE  ReadTensor(f, [pos |-> 8, tensors |-> ts]) =
               IF a THEN [pos |-> 15, tensors |-> Append(ts, x)] ELSE [pos |-> 0, tensors |-> ts]
  BY <1>1, <1>2, <1>3, Zenon DEF Reading
<1>7. ASSUME NEW ts
      PROVE  ReadTensor(f, [pos |-> 15, tensors |-> ts]) =
               IF b THEN [pos |-> 24, tensors |-> Append(ts, y)] ELSE [pos |-> 0, tensors |-> ts]
  BY <1>1, <1>2, <1>3, Zenon DEF Reading
<1>8. ASSUME NEW ts
      PROVE  ReadTensor(f, [pos |-> 24, tensors |-> ts]) =
               IF c THEN [pos |-> 33, tensors |-> Append(ts, z)] ELSE [pos |-> 0, tensors |-> ts]
  BY <1>1, <1>2, <1>3, Zenon DEF Reading
<1> HIDE DEF a, b, c
<1>9. ASSUME NEW ts PROVE ReadTensor(f, [pos |-> 0, tensors |-> ts]) = [pos |-> 0, tensors |-> ts]
  BY NothingRead
<1>10. PICK t0, t1, t2, t3 : t0 = <<>> /\ t1 = Append(t0, x) /\ t2 = Append(t1, y) /\ t3 = Append(t2, z)
  OBVIOUS
<1>11. t3 = <<x, y, z>>
  <2>1. t1 = <<x>>
    BY <1>10
  <2>2. t2 = <<x, y>>
    BY <1>10, <2>1, AppendToOne, Zenon
  <2>3. QED
    BY <1>10, <2>2, AppendToTwo, Zenon
<1>12. PICK one, two, three :
         /\ one = ReadTensor(f, [pos |-> 8, tensors |-> t0])
         /\ two = ReadTensor(f, one) /\ three = ReadTensor(f, two)
  OBVIOUS
<1>13. ASSUME c PROVE three = [pos |-> 33, tensors |-> t3]
  <2>1. one = [pos |-> 15, tensors |-> t1]
    BY <1>5, <1>6, <1>10, <1>12, <1>13, Zenon
  <2>2. two = [pos |-> 24, tensors |-> t2]
    BY <1>5, <1>7, <1>10, <1>12, <1>13, <2>1, Zenon
  <2>3. QED
    BY <1>8, <1>10, <1>12, <1>13, <2>2, Zenon
<1>14. ASSUME ~c PROVE \E ts : three = [pos |-> 0, tensors |-> ts]
  <2>1. CASE ~a
    <3>1. one = [pos |-> 0, tensors |-> t0]
      BY <1>6, <1>12, <2>1, Zenon
    <3>2. QED
      BY <1>9, <1>12, <3>1, Zenon
  <2>2. CASE a /\ ~b
    <3>1. one = [pos |-> 15, tensors |-> t1]
      BY <1>6, <1>10, <1>12, <2>2, Zenon
    <3>2. two = [pos |-> 0, tensors |-> t1]
      BY <1>7, <1>12, <2>2, <3>1, Zenon
    <3>3. QED
      BY <1>9, <1>12, <3>2, Zenon
  <2>3. CASE b
    <3>1. one = [pos |-> 15, tensors |-> t1]
      BY <1>5, <1>6, <1>10, <1>12, <2>3, Zenon
    <3>2. two = [pos |-> 24, tensors |-> t2]
      BY <1>7, <1>10, <1>12, <2>3, <3>1, Zenon
    <3>3. QED
      BY <1>8, <1>12, <1>14, <3>2, Zenon
  <2>4. QED
    BY <1>5, <2>1, <2>2, <2>3
<1>15. Len(f) >= 32 => three = [pos |-> 33, tensors |-> t3]
  BY <1>1, <1>5, <1>13, Zenon
<1>16. Len(f) < 32 => three.pos = 0
  <2>1. (\E ts : three = [pos |-> 0, tensors |-> ts]) => three.pos = 0
    OBVIOUS
  <2>2. QED
    BY <1>1, <1>5, <1>14, <2>1, Zenon
<1>17. QED
  BY <1>10, <1>11, <1>12, <1>15, <1>16, Zenon DEF Turns

\* What a load makes of what a crash left of a state's file: all of it or none.
LEMMA ParsedIs ==
  ASSUME NEW s \in States, NEW f \in Seq(Nat), Begins(f, WriteWeights(Saved(s)))
  PROVE  /\ Len(f) <= 32
         /\ Len(f) < 32 => ~Accepted(f)
         /\ Len(f) = 32 => Accepted(f) /\ Parsed(f).tensors = Saved(s)
<1>1. PICK w, x, y, z :
        /\ w \in Seq(Nat) /\ w = WriteWeights(Saved(s)) /\ Saved(s) = <<x, y, z>> /\ Len(w) = 32
        /\ w[1] = 1 /\ w[2] = 2 /\ w[3] = 1 /\ w[4] = 0 /\ w[5] = 1
        /\ WordsAt(w, 6, <<3>>)
        /\ Holds(w, x, y, z)
  BY FileIs
<1>2. Begins(f, w)
  BY <1>1, Zenon
<1>3. PICK l \in Nat : l = Len(f)
  BY LenProperties
<1>4. l <= 32
  BY <1>1, <1>2, <1>3 DEF Begins
<1>5. ASSUME NEW i \in Nat, 1 <= i, i <= l PROVE f[i] = w[i]
  <2>1. i \in 1 .. Len(f)
    BY <1>3, <1>5
  <2>2. QED
    BY <1>2, <2>1 DEF Begins
<1>6. CASE l < 7
  <2>1. Len(f) < 7
    BY <1>3, <1>6, Zenon
  <2>2. Parsed(f).pos = 0
    BY <2>1 DEF Parsed
  <2>3. l + 1 # 0 /\ l # 32
    BY <1>6
  <2>4. ~Accepted(f)
    BY <1>3, <2>2, <2>3, Zenon DEF Accepted
  <2>5. QED
    BY <1>3, <1>4, <2>3, <2>4, Zenon
<1>7. CASE ~(l < 7)
  <2>1. f[1] = 1 /\ f[2] = 2 /\ f[3] = 1 /\ f[4] = 0 /\ f[5] = 1
    <3>1. 1 <= l /\ 2 <= l /\ 3 <= l /\ 4 <= l /\ 5 <= l
      BY <1>7
    <3>2. f[1] = w[1] /\ f[2] = w[2] /\ f[3] = w[3] /\ f[4] = w[4] /\ f[5] = w[5]
      BY <1>5, <3>1
    <3>3. QED
      BY <1>1, <3>2, Zenon
  <2>2. SubSeq(f, 1, 4) = Magic
    <3>1. PICK u : u = SubSeq(f, 1, 4)
      OBVIOUS
    <3>2. u \in Seq(Nat) /\ Len(u) = 4 /\ u[1] = 1 /\ u[2] = 2 /\ u[3] = 1 /\ u[4] = 0
      BY <1>3, <1>7, <2>1, <3>1
    <3>3. PICK v : v = <<1, 2, 1, 0>>
      OBVIOUS
    <3>4. v \in Seq(Nat) /\ Len(v) = 4 /\ v[1] = 1 /\ v[2] = 2 /\ v[3] = 1 /\ v[4] = 0
      BY <3>3
    <3>5. \A i \in 1 .. Len(u) : u[i] = v[i]
      BY <3>2, <3>4
    <3>6. Len(u) = Len(v)
      BY <3>2, <3>4
    <3>7. u = v
      BY <3>2, <3>4, <3>5, <3>6, SeqEqual, Zenon
    <3>8. QED
      BY <3>1, <3>3, <3>7, Zenon DEF Magic
  <2>3. Words(f, 6, 1)[1] = 3
    <3>1. PICK ns : ns = <<3>>
      OBVIOUS
    <3>2. Short(ns) /\ Len(ns) = 1 /\ ns[1] = 3
      BY <3>1, SmallFits DEF Short
    <3>3. WordsAt(w, 6, ns)
      BY <1>1, <3>1, Zenon
    <3>4. 6 \in Nat \ {0} /\ 6 + 2 * Len(ns) - 1 <= Len(f)
      BY <1>3, <1>7, <3>2
    <3>5. Words(f, 6, Len(ns)) = ns
      BY <1>1, <1>2, <3>2, <3>3, <3>4, WordsRead, Zenon
    <3>6. QED
      BY <3>2, <3>5, Zenon
  <2>4. PICK start : start = [pos |-> 8, tensors |-> <<>>]
    OBVIOUS
  <2>5. PICK one, two, three :
          /\ one = ReadTensor(f, start)
          /\ two = ReadTensor(f, one) /\ three = ReadTensor(f, two)
          /\ Len(f) >= 32 => three = [pos |-> 33, tensors |-> <<x, y, z>>]
          /\ Len(f) < 32 => three.pos = 0
    <3>1. Turns(f, x, y, z)
      BY <1>1, <1>2, TurnsAre, Zenon
    <3>2. QED
      BY <2>4, <3>1, Zenon DEF Turns
  <2> DEFINE h == CHOOSE h : h = [i \in 0 .. 3 |-> IF i = 0 THEN start ELSE ReadTensor(f, h[i - 1])]
             g == [i \in 0 .. 3 |-> IF i = 0 THEN start ELSE IF i = 1 THEN one ELSE IF i = 2 THEN two ELSE three]
  <2>6. g = [i \in 0 .. 3 |-> IF i = 0 THEN start ELSE ReadTensor(f, g[i - 1])]
    <3>1. g[0] = start /\ g[1] = one /\ g[2] = two /\ g[3] = three
      OBVIOUS
    <3>2. \A i \in 0 .. 3 : g[i] = IF i = 0 THEN start ELSE ReadTensor(f, g[i - 1])
      <4>1. SUFFICES ASSUME NEW i \in 0 .. 3, i # 0 PROVE g[i] = ReadTensor(f, g[i - 1])
        BY <3>1
      <4>2. i = 1 \/ i = 2 \/ i = 3
        BY <4>1
      <4>3. g[1] = ReadTensor(f, g[0]) /\ g[2] = ReadTensor(f, g[1]) /\ g[3] = ReadTensor(f, g[2])
        BY <2>5, <3>1, Zenon
      <4> HIDE DEF g
      <4>4. QED
        BY <4>2, <4>3
    <3>3. QED
      BY <3>2
  <2>7. h = [i \in 0 .. 3 |-> IF i = 0 THEN start ELSE ReadTensor(f, h[i - 1])]
    <3> HIDE DEF g
    <3>1. QED
      BY <2>6
  <2>8. Parsed(f) = h[3]
    <3>1. ~(Len(f) < 7 \/ SubSeq(f, 1, 4) # Magic \/ f[5] # 1)
      BY <1>3, <1>7, <2>1, <2>2, Zenon
    <3>2. QED
      BY <2>3, <2>4, <3>1 DEF Parsed
  <2> HIDE DEF h, g
  <2>9. h[0] = start /\ h[1] = ReadTensor(f, h[0]) /\ h[2] = ReadTensor(f, h[1]) /\ h[3] = ReadTensor(f, h[2])
    BY <2>7
  <2>10. Parsed(f) = three
    BY <2>5, <2>8, <2>9, Zenon
  <2>11. CASE l < 32
    <3>1. Parsed(f).pos = 0 /\ l + 1 # 0 /\ l # 32
      BY <1>3, <2>5, <2>10, <2>11
    <3>2. ~Accepted(f)
      BY <1>3, <3>1, Zenon DEF Accepted
    <3>3. QED
      BY <1>3, <1>4, <3>1, <3>2, Zenon
  <2>12. CASE ~(l < 32)
    <3>1. l = 32 /\ l >= 32 /\ l + 1 = 33
      BY <1>4, <2>12
    <3>2. three = [pos |-> 33, tensors |-> <<x, y, z>>]
      BY <1>3, <2>5, <3>1, Zenon
    <3>3. three.pos = 33 /\ three.tensors = <<x, y, z>>
      BY <3>2
    <3>4. Accepted(f) /\ Parsed(f).tensors = Saved(s)
      BY <1>1, <1>3, <2>10, <3>1, <3>3, Zenon DEF Accepted
    <3>5. QED
      BY <1>3, <1>4, <2>12, <3>4, Zenon
  <2>13. QED
    BY <2>11, <2>12
<1>8. QED
  BY <1>6, <1>7

\* What a load makes of the tensors of a state is that state.
LEMMA RestoredIs ==
  ASSUME NEW s \in States
  PROVE  Len(Saved(s)) = 3 /\ Saved(s) # <<>> /\ Restored(Saved(s)) = s
<1>0. PICK p, m, v, n : p = s.p /\ m = s.m /\ v = s.v /\ n = s.step
  OBVIOUS
<1>1. PICK x, y, z :
        /\ Saved(s) = <<x, y, z>> /\ x.data = <<p>> /\ y.data = <<m, v>> /\ z.data = <<n>>
  <2>1. PICK x, y, z :
          /\ x = [shape |-> <<1>>, data |-> <<p>>]
          /\ y = [shape |-> <<2>>, data |-> <<m, v>>]
          /\ z = [shape |-> <<1, 1>>, data |-> <<n>>]
    OBVIOUS
  <2>2. Saved(s) = <<x, y, z>>
    BY <1>0, <2>1, Zenon DEF Saved
  <2>3. x.data = <<p>> /\ y.data = <<m, v>> /\ z.data = <<n>>
    BY <2>1
  <2>4. QED
    BY <2>2, <2>3
<1>2. PICK t : t = Saved(s) /\ t = <<x, y, z>>
  BY <1>1
<1>3. t[1].data[1] = p /\ t[2].data[1] = m /\ t[2].data[2] = v /\ t[3].data[1] = n
  BY <1>1, <1>2
<1>4. Len(t) = 3 /\ t # <<>>
  BY <1>2
<1>5. Restored(t) = [p |-> p, m |-> m, v |-> v, step |-> n]
  BY <1>3 DEF Restored
<1>6. s = [p |-> s.p, m |-> s.m, v |-> s.v, step |-> s.step]
  BY DEF States
<1>7. QED
  BY <1>0, <1>1, <1>2, <1>4, <1>5, <1>6, Zenon

\* The file is what the last save wrote, as far as it came; the rest of it is
\* still pending unless the program has crashed since.
FileIsPrefix ==
  \/ file = <<>> /\ pending = <<>>
  \/ \E s \in begun :
       /\ Begins(file, WriteWeights(Saved(s)))
       /\ pending # <<>> => pending = SubSeq(WriteWeights(Saved(s)), Len(file) + 1, 32)

TrainingInv ==
  /\ grad \in Int /\ method \in Optimisers /\ up \in BOOLEAN
  /\ state \in States /\ MomentsOf(state)
  /\ begun \subseteq States /\ \A s \in begun : MomentsOf(s)
  /\ file \in Seq(Nat) /\ FileIsPrefix
  /\ LoadsWhatWasSaved

\* A byte more of a save.
LEMMA ByteWritten ==
  ASSUME NEW w \in Seq(Nat), Len(w) = 32, NEW f \in Seq(Nat), Begins(f, w),
         NEW rest, rest # <<>>, rest = SubSeq(w, Len(f) + 1, 32)
  PROVE  /\ Append(f, Head(rest)) \in Seq(Nat) /\ Begins(Append(f, Head(rest)), w)
         /\ Tail(rest) = SubSeq(w, Len(Append(f, Head(rest))) + 1, 32)
<1>1. PICK l \in Nat : l = Len(f)
  BY LenProperties
<1>2. l <= 32
  BY <1>1 DEF Begins
<1>3. l < 32
  <2>1. ASSUME l = 32 PROVE FALSE
    <3>1. rest = SubSeq(w, 33, 32)
      BY <1>1, <2>1
    <3>2. SubSeq(w, 33, 32) = <<>>
      OBVIOUS
    <3>3. QED
      BY <3>1, <3>2
  <2>2. QED
    BY <1>2, <2>1
<1>4. PICK n \in Nat : n = l + 1 /\ n \in 1 .. 32
  BY <1>3
<1>5. Head(rest) = w[n] /\ Tail(rest) = SubSeq(w, n + 1, 32)
  <2>1. rest = SubSeq(w, n, 32)
    BY <1>1, <1>4
  <2>2. PICK m : m = 32
    OBVIOUS
  <2>3. n \in 1 .. Len(w) /\ m \in n .. Len(w)
    BY <1>4, <2>2
  <2>4. Head(SubSeq(w, n, m)) = w[n] /\ Tail(SubSeq(w, n, m)) = SubSeq(w, n + 1, m)
    BY <2>3, HeadTailOfSubSeq
  <2>5. QED
    BY <2>1, <2>2, <2>4, Zenon
<1>6. PICK b \in Nat : b = Head(rest) /\ b = w[n]
  <2>1. w[n] \in Nat
    <3>1. n \in 1 .. Len(w)
      BY <1>4
    <3>2. QED
      BY <3>1, ElementOfSeq
  <2>2. QED
    BY <1>5, <2>1, Zenon
<1>7. PICK g \in Seq(Nat) : g = Append(f, b) /\ Len(g) = n /\ g[n] = b /\ \A i \in 1 .. l : g[i] = f[i]
  <2>1. /\ Append(f, b) \in Seq(Nat) /\ Len(Append(f, b)) = Len(f) + 1 /\ Append(f, b)[Len(f) + 1] = b
        /\ \A i \in 1 .. Len(f) : Append(f, b)[i] = f[i]
    BY AppendProperties
  <2>2. QED
    BY <1>1, <1>4, <2>1
<1>8. Begins(g, w)
  <2>1. ASSUME NEW i \in 1 .. n PROVE g[i] = w[i]
    <3>1. CASE i = n
      BY <1>6, <1>7, <3>1
    <3>2. CASE i # n
      <4>1. i \in 1 .. l /\ i \in 1 .. Len(f)
        BY <1>1, <1>4, <3>2
      <4>2. g[i] = f[i] /\ f[i] = w[i]
        BY <1>7, <4>1 DEF Begins
      <4>3. QED
        BY <4>2
    <3>3. QED
      BY <3>1, <3>2
  <2>2. n <= Len(w)
    BY <1>4
  <2>3. QED
    BY <1>7, <2>1, <2>2 DEF Begins
<1>9. QED
  BY <1>5, <1>6, <1>7, <1>8, Zenon

\* A fresh start has the invariant.
LEMMA TrainingBegins == TrainingInit => TrainingInv
<1>1. SUFFICES ASSUME TrainingInit PROVE TrainingInv
  OBVIOUS
<1>2. grad \in Int
  BY <1>1, TrainingAssumption DEF TrainingInit
<1>3. state \in States /\ MomentsOf(state)
  BY <1>1, <1>2, FreshIs DEF TrainingInit
<1>4. begun = {} /\ file = <<>> /\ pending = <<>> /\ resumed = <<>> /\ up = TRUE /\ method \in Optimisers
  BY <1>1 DEF TrainingInit
<1>5. FileIsPrefix /\ LoadsWhatWasSaved
  BY <1>4 DEF FileIsPrefix, LoadsWhatWasSaved
<1>6. file \in Seq(Nat)
  BY <1>4
<1>7. QED
  BY <1>2, <1>3, <1>4, <1>5, <1>6 DEF TrainingInv

\* Training only adds a step, and the moments of one step.
LEMMA TrainKeeps == TrainingInv /\ Train => TrainingInv'
<1>1. SUFFICES ASSUME TrainingInv, Train PROVE TrainingInv'
  OBVIOUS
<1> USE DEF TrainingInv
<1>2. /\ method' = method /\ grad' = grad /\ up' = up /\ file' = file /\ pending' = pending
      /\ begun' = begun /\ resumed' = resumed /\ state' = Stepped(state) /\ state.step < MaxSteps
  BY <1>1 DEF Train
<1>3. Stepped(state) \in States /\ MomentsOf(Stepped(state))
  BY <1>1, <1>2, Steps
<1>4. MomentsOf(state')
  BY <1>2, <1>3
<1>5. MomentsOf(state)'
  BY <1>2, <1>4 DEF MomentsOf
<1>6. (\A s \in begun : MomentsOf(s))'
  BY <1>1, <1>2 DEF MomentsOf
<1>7. FileIsPrefix' /\ LoadsWhatWasSaved'
  BY <1>1, <1>2 DEF FileIsPrefix, LoadsWhatWasSaved
<1>8. QED
  BY <1>1, <1>2, <1>3, <1>5, <1>6, <1>7

\* A save begins a new file, of the state it is about.
LEMMA SaveKeeps == TrainingInv /\ SaveWeights => TrainingInv'
<1>1. SUFFICES ASSUME TrainingInv, SaveWeights PROVE TrainingInv'
  OBVIOUS
<1> USE DEF TrainingInv
<1>2. /\ method' = method /\ grad' = grad /\ up' = up /\ state' = state /\ resumed' = resumed
      /\ file' = <<>> /\ pending' = WriteWeights(Saved(state)) /\ begun' = begun \cup {state}
  BY <1>1 DEF SaveWeights
<1>3. MomentsOf(state)'
  BY <1>1, <1>2 DEF MomentsOf
<1>4. (\A s \in begun : MomentsOf(s))' /\ begun' \subseteq States
  <2>1. \A s \in begun \cup {state} : MomentsOf(s)
    BY <1>1
  <2>2. QED
    BY <1>1, <1>2, <2>1 DEF MomentsOf
<1>5. FileIsPrefix'
  <2>1. PICK w : w = WriteWeights(Saved(state)) /\ w \in Seq(Nat) /\ Len(w) = 32
    BY <1>1, FileIs
  <2>2. PICK f : f = <<>> /\ f \in Seq(Nat) /\ Len(f) = 0
    <3>1. <<>> \in Seq(Nat) /\ Len(<<>>) = 0
      OBVIOUS
    <3>2. QED
      BY <3>1, Zenon
  <2>3. SubSeq(w, Len(f) + 1, 32) = w
    <3>1. SubSeq(w, 1, Len(w)) = w
      BY <2>1
    <3>2. Len(f) + 1 = 1
      BY <2>2
    <3>3. QED
      BY <2>1, <3>1, <3>2, Zenon
  <2>4. Begins(f, w)
    BY <2>1, <2>2 DEF Begins
  <2>5. state \in begun' /\ file' = f /\ pending' = w
    BY <1>2, <2>1, <2>2
  <2>6. \E s \in begun' :
          /\ Begins(file', WriteWeights(Saved(s)))
          /\ pending' # <<>> => pending' = SubSeq(WriteWeights(Saved(s)), Len(file') + 1, 32)
    BY <2>1, <2>3, <2>4, <2>5, Zenon
  <2>7. QED
    BY <2>6 DEF FileIsPrefix, Begins
<1>6. LoadsWhatWasSaved'
  BY <1>1, <1>2 DEF LoadsWhatWasSaved
<1>7. file' \in Seq(Nat)
  BY <1>2
<1>8. QED
  BY <1>1, <1>2, <1>3, <1>4, <1>5, <1>6, <1>7

\* A byte that is written makes the prefix longer.
LEMMA WriteKeeps == TrainingInv /\ WriteByte => TrainingInv'
<1>1. SUFFICES ASSUME TrainingInv, WriteByte PROVE TrainingInv'
  OBVIOUS
<1> USE DEF TrainingInv
<1>2. /\ method' = method /\ grad' = grad /\ up' = up /\ state' = state /\ resumed' = resumed /\ begun' = begun
      /\ pending # <<>> /\ file' = Append(file, Head(pending)) /\ pending' = Tail(pending)
  BY <1>1 DEF WriteByte
<1>3. MomentsOf(state)' /\ (\A s \in begun : MomentsOf(s))'
  BY <1>1, <1>2 DEF MomentsOf
<1>4. LoadsWhatWasSaved'
  BY <1>1, <1>2 DEF LoadsWhatWasSaved
<1>5. PICK s \in begun : /\ Begins(file, WriteWeights(Saved(s)))
                        /\ pending = SubSeq(WriteWeights(Saved(s)), Len(file) + 1, 32)
  BY <1>1, <1>2 DEF FileIsPrefix
<1>6. PICK w : w = WriteWeights(Saved(s)) /\ w \in Seq(Nat) /\ Len(w) = 32
  BY <1>1, FileIs
<1>7. /\ file' \in Seq(Nat) /\ Begins(file', w) /\ pending' = SubSeq(w, Len(file') + 1, 32)
  <2>1. Begins(file, w) /\ pending = SubSeq(w, Len(file) + 1, 32) /\ file \in Seq(Nat)
    BY <1>1, <1>5, <1>6
  <2>2. /\ Append(file, Head(pending)) \in Seq(Nat) /\ Begins(Append(file, Head(pending)), w)
        /\ Tail(pending) = SubSeq(w, Len(Append(file, Head(pending))) + 1, 32)
    BY <1>2, <1>6, <2>1, ByteWritten
  <2>3. QED
    BY <1>2, <2>2
<1>8. FileIsPrefix'
  <2>1. \E t \in begun' :
          /\ Begins(file', WriteWeights(Saved(t)))
          /\ pending' # <<>> => pending' = SubSeq(WriteWeights(Saved(t)), Len(file') + 1, 32)
    BY <1>2, <1>6, <1>7, Zenon
  <2>2. QED
    BY <2>1 DEF FileIsPrefix, Begins
<1>9. QED
  BY <1>1, <1>2, <1>3, <1>4, <1>7, <1>8

\* A crash leaves the prefix and drops the rest.
LEMMA CrashKeeps == TrainingInv /\ Crash => TrainingInv'
<1>1. SUFFICES ASSUME TrainingInv, Crash PROVE TrainingInv'
  OBVIOUS
<1> USE DEF TrainingInv
<1>2. /\ method' = method /\ grad' = grad /\ up' = FALSE /\ state' = Fresh /\ resumed' = <<>> /\ begun' = begun
      /\ file' = file /\ pending' = <<>>
  BY <1>1 DEF Crash
<1>3. state' \in States /\ MomentsOf(Fresh)
  BY <1>1, <1>2, FreshIs
<1>4. MomentsOf(state)' /\ (\A s \in begun : MomentsOf(s))'
  BY <1>1, <1>2, <1>3 DEF MomentsOf
<1>5. LoadsWhatWasSaved'
  BY <1>2 DEF LoadsWhatWasSaved
<1>6. FileIsPrefix'
  <2>1. CASE file = <<>> /\ pending = <<>>
    BY <1>2, <2>1 DEF FileIsPrefix
  <2>2. CASE \E s \in begun : Begins(file, WriteWeights(Saved(s)))
    BY <1>2, <2>2 DEF FileIsPrefix, Begins
  <2>3. QED
    BY <1>1, <2>1, <2>2 DEF FileIsPrefix
<1>7. QED
  BY <1>1, <1>2, <1>3, <1>4, <1>5, <1>6

\* A load restores the whole save or leaves everything as it was.
LEMMA LoadKeeps == TrainingInv /\ LoadWeights => TrainingInv'
<1>1. SUFFICES ASSUME TrainingInv, LoadWeights PROVE TrainingInv'
  OBVIOUS
<1> USE DEF TrainingInv
<1>2. /\ method' = method /\ grad' = grad /\ up' = TRUE /\ begun' = begun /\ file' = file /\ pending' = pending
      /\ IF Accepted(file)
         THEN /\ resumed' = Parsed(file).tensors
              /\ state' = IF Len(resumed') = 3 THEN Restored(resumed') ELSE Fresh
         ELSE resumed' = <<>> /\ state' = Fresh
  BY <1>1 DEF LoadWeights
<1>3. FileIsPrefix' /\ (\A s \in begun : MomentsOf(s))'
  BY <1>1, <1>2 DEF FileIsPrefix, Begins, MomentsOf
<1>4. CASE ~Accepted(file)
  <2>1. resumed' = <<>> /\ state' = Fresh
    BY <1>2, <1>4
  <2>2. state' \in States /\ MomentsOf(Fresh)
    BY <1>1, <2>1, FreshIs
  <2>3. MomentsOf(state)' /\ LoadsWhatWasSaved'
    BY <1>2, <2>1, <2>2 DEF MomentsOf, LoadsWhatWasSaved
  <2>4. QED
    BY <1>1, <1>2, <1>3, <2>2, <2>3
<1>5. CASE Accepted(file)
  <2>1. PICK s \in begun : Begins(file, WriteWeights(Saved(s)))
    <3>1. file # <<>>
      <4>1. ASSUME file = <<>> PROVE FALSE
        <5>1. Len(file) = 0
          BY <4>1
        <5>2. Parsed(file).pos = 0
          BY <5>1 DEF Parsed
        <5>3. QED
          BY <1>5, <5>1, <5>2 DEF Accepted
      <4>2. QED
        BY <4>1
    <3>2. QED
      BY <1>1, <3>1 DEF FileIsPrefix
  <2>2. s \in States /\ MomentsOf(s)
    BY <1>1
  <2>3. /\ Len(file) <= 32 /\ (Len(file) < 32 => ~Accepted(file))
        /\ Len(file) = 32 => Accepted(file) /\ Parsed(file).tensors = Saved(s)
    BY <1>1, <2>1, <2>2, ParsedIs
  <2>4. Parsed(file).tensors = Saved(s)
    <3>1. Len(file) \in Nat
      BY <1>1, LenProperties
    <3>2. Len(file) = 32
      <4>1. ~(Len(file) < 32)
        BY <1>5, <2>3, Zenon
      <4>2. PICK l \in Nat : l = Len(file)
        BY <3>1, Zenon
      <4>3. l <= 32 /\ ~(l < 32)
        BY <2>3, <4>1, <4>2, Zenon
      <4>4. l = 32
        BY <4>3
      <4>5. QED
        BY <4>2, <4>4
    <3>3. QED
      BY <2>3, <3>2
  <2>5. resumed' = Saved(s) /\ state' = s
    BY <1>2, <1>5, <2>2, <2>4, RestoredIs
  <2>6. MomentsOf(state)'
    BY <1>2, <2>2, <2>5 DEF MomentsOf
  <2>7. LoadsWhatWasSaved'
    <3>1. resumed' \in {Saved(t) : t \in begun'}
      BY <1>2, <2>5
    <3>2. QED
      BY <3>1 DEF LoadsWhatWasSaved, Saved
  <2>8. QED
    BY <1>1, <1>2, <1>3, <2>2, <2>5, <2>6, <2>7
<1>6. QED
  BY <1>4, <1>5

\* saveWeights, loadWeights and the optimisers (namespaces_autodiff.rs:2105, 2867, 2933),
\* for every modulus, base, gradient and number of steps: a load gives one whole
\* save and never a torn one, and the moments are those of the step number.
THEOREM TrainingSurvivesCrashes == TrainingSpec => []TrainingResumes
<1>1. TrainingInit => TrainingInv
  BY TrainingBegins
<1>2. TrainingInv /\ [TrainingNext]_trainingVars => TrainingInv'
  <2>1. ASSUME TrainingInv, UNCHANGED trainingVars PROVE TrainingInv'
    BY <2>1 DEF trainingVars, TrainingInv, FileIsPrefix, Begins, MomentsOf, LoadsWhatWasSaved
  <2>2. QED
    BY <2>1, TrainKeeps, SaveKeeps, WriteKeeps, CrashKeeps, LoadKeeps DEF TrainingNext
<1>3. TrainingInv => TrainingResumes
  BY MomentsMatch DEF TrainingInv, TrainingResumes
<1>4. QED
  BY <1>1, <1>2, <1>3, PTL DEF TrainingSpec
=============================================================================
