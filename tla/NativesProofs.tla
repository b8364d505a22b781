--------------------------- MODULE NativesProofs ---------------------------
(***************************************************************************)
(* What the tables of the native namespaces promise, for any number of     *)
(* handles, bytes, layouts and callbacks, and that a socket's bytes and a  *)
(* WebSocket's frames keep their order; then that what these namespaces    *)
(* tell a program is so: the reports of OS.tick, a captured output, the    *)
(* closing of windows, the answers of file dialogs and the keys that were  *)
(* typed into a window.  A step uses one namespace and leaves the others   *)
(* alone (Rest), so each is reasoned about by itself.                      *)
(***************************************************************************)
EXTENDS Natives, DataLemmas, SequenceTheorems, FiniteSetTheorems, TLAPS

LEMMA ZerosAreSeq ==
  ASSUME NEW n \in Nat
  PROVE  [i \in 1 .. n |-> 0] \in Seq(Int)
  BY SeqDef

-----------------------------------------------------------------------------
(* Memory. *)

MemoryInv ==
  /\ nextBuffer \in Nat \ {0} /\ DOMAIN buffers \subseteq 1 .. nextBuffer - 1
  /\ \A h \in DOMAIN buffers : buffers[h] \in Seq(Int)

MemoryStep == M!Next \/ UNCHANGED memoryVars

LEMMA OnlyMemory == Next => MemoryStep
  BY DEF Next, MemoryStep, Rest

\* Division with remainder has one answer.
LEMMA OneRemainder ==
  ASSUME NEW b \in Nat \ {0}, NEW q \in Int, NEW t \in 0 .. b - 1
  PROVE  (q * b + t) % b = t /\ (q * b + t) \div b = q
<1> DEFINE v == q * b + t
           m == v % b
           p == v \div b
<1>1. v \in Int /\ m \in 0 .. b - 1 /\ p \in Int
  OBVIOUS
<1>2. v = p * b + m
  OBVIOUS
<1>3. (q - p) * b = m - t
  BY <1>1, <1>2
<1>4. PICK d \in Int : d = q - p
  BY <1>1
<1>5. d * b = m - t
  BY <1>3, <1>4
<1> HIDE DEF m, p
<1>6. ~(d >= 1)
  BY <1>1, <1>5
<1>7. ~(d <= -1)
  BY <1>1, <1>5
<1>8. d = 0
  BY <1>6, <1>7
<1>9. QED
  BY <1>1, <1>4, <1>5, <1>8 DEF m, p

LEMMA ValuesAre == \A v \in M!Values : v \in Int
  BY MemoryAssumption DEF M!Values, M!Word

\* The bytes a value is written as.
LEMMA EncodeIs ==
  ASSUME NEW v \in Int, NEW layout
  PROVE  /\ M!Encode(v, layout) \in Seq(Int)
         /\ Len(M!Encode(v, layout)) = IF M!SizeOf(layout) = 1 THEN 1 ELSE 2
         /\ M!Encode(v, layout)[1] = v % ByteSize
         /\ M!SizeOf(layout) # 1 => M!Encode(v, layout)[2] = (v % M!Word) \div ByteSize
<1>1. ByteSize \in Nat \ {0} /\ M!Word \in Nat \ {0}
  BY MemoryAssumption DEF M!Word
<1>2. v % ByteSize \in Int /\ (v % M!Word) \div ByteSize \in Int
  BY <1>1
<1>3. QED
  BY <1>2 DEF M!Encode

\* What overwriting leaves of a buffer.
LEMMA OverwriteIs ==
  ASSUME NEW buf \in Seq(Int), NEW offset \in Nat, NEW bytes \in Seq(Int)
  PROVE  /\ M!Overwrite(buf, offset, bytes) \in Seq(Int)
         /\ DOMAIN M!Overwrite(buf, offset, bytes) = DOMAIN buf
         /\ \A i \in DOMAIN buf :
              M!Overwrite(buf, offset, bytes)[i] =
                IF i > offset /\ i <= offset + Len(bytes) THEN bytes[i - offset] ELSE buf[i]
<1>1. Len(buf) \in Nat /\ DOMAIN buf = 1 .. Len(buf) /\ Len(bytes) \in Nat
  BY LenProperties
<1>2. ASSUME NEW i \in 1 .. Len(buf)
      PROVE  (IF i > offset /\ i <= offset + Len(bytes) THEN bytes[i - offset] ELSE buf[i]) \in Int
  <2>1. CASE i > offset /\ i <= offset + Len(bytes)
    <3>1. i - offset \in 1 .. Len(bytes)
      BY <1>1, <2>1
    <3>2. QED
      BY <2>1, <3>1, ElementOfSeq
  <2>2. CASE ~(i > offset /\ i <= offset + Len(bytes))
    BY <2>2, ElementOfSeq
  <2>3. QED
    BY <2>1, <2>2
<1>3. M!Overwrite(buf, offset, bytes) \in [1 .. Len(buf) -> Int]
  BY <1>1, <1>2 DEF M!Overwrite
<1>4. QED
  BY <1>1, <1>3, SeqDef DEF M!Overwrite


LEMMA MemoryStays ==
  ASSUME MemoryInv, MemoryStep
  PROVE  MemoryInv'
<1> USE DEF MemoryInv
<1>0. \A n \in Sizes : n \in Nat
  BY MemoryAssumption
<1>1. CASE UNCHANGED memoryVars
  BY <1>1 DEF memoryVars
<1>2. ASSUME M!Fail PROVE MemoryInv'
  BY <1>2 DEF M!Fail
<1>3. ASSUME NEW n \in Sizes \cup {0}, M!Alloc(n) PROVE MemoryInv'
  <2>1. CASE M!Fail
    BY <1>2, <2>1
  <2>2. CASE /\ buffers' = [h \in DOMAIN buffers \cup {nextBuffer} |->
                              IF h = nextBuffer THEN [i \in 1 .. n |-> 0] ELSE buffers[h]]
             /\ nextBuffer' = nextBuffer + 1
    <3>1. n \in Nat
      BY <1>0
    <3>2. [i \in 1 .. n |-> 0] \in Seq(Int)
      BY <3>1, ZerosAreSeq
    <3>3. DOMAIN buffers' = DOMAIN buffers \cup {nextBuffer}
          /\ \A h \in DOMAIN buffers' : buffers'[h] =
               IF h = nextBuffer THEN [i \in 1 .. n |-> 0] ELSE buffers[h]
      BY <2>2
    <3>4. \A h \in DOMAIN buffers' : buffers'[h] \in Seq(Int)
      BY <3>2, <3>3
    <3>5. DOMAIN buffers' \subseteq 1 .. nextBuffer' - 1
      BY <2>2, <3>3
    <3>6. nextBuffer' \in Nat \ {0}
      BY <2>2
    <3>7. QED
      BY <3>4, <3>5, <3>6
  <2>3. QED
    BY <1>3, <2>1, <2>2 DEF M!Alloc, M!Issue
<1>4. ASSUME NEW h, M!Free(h) \/ M!Size(h) PROVE MemoryInv'
  BY <1>2, <1>4 DEF M!Free, M!Size
<1>5. ASSUME NEW h, NEW b \in Seq(Int), h \in DOMAIN buffers, buffers' = [buffers EXCEPT ![h] = b],
             UNCHANGED nextBuffer
      PROVE  MemoryInv'
  BY <1>5
<1>6. ASSUME NEW h, NEW o, NEW l, M!Read(h, o, l) PROVE MemoryInv'
  BY <1>2, <1>6 DEF M!Read
<1>7. ASSUME NEW h, NEW o \in M!Offsets, NEW l, NEW v \in M!Values, M!Write(h, o, l, v)
      PROVE  MemoryInv'
  <2>1. CASE M!Fail
    BY <1>2, <2>1
  <2>2. CASE /\ h \in DOMAIN buffers /\ UNCHANGED nextBuffer
             /\ buffers' = [buffers EXCEPT ![h] = M!Overwrite(@, o, M!Encode(v, l))]
    <3>1. M!Encode(v, l) \in Seq(Int) /\ o \in Nat
      BY EncodeIs, ValuesAre DEF M!Offsets
    <3>2. M!Overwrite(buffers[h], o, M!Encode(v, l)) \in Seq(Int)
      BY <2>2, <3>1, OverwriteIs
    <3>3. QED
      BY <1>5, <2>2, <3>2
  <2>3. QED
    BY <1>7, <2>1, <2>2 DEF M!Write, M!Accessible
<1>8. ASSUME NEW s, NEW d, NEW n \in Sizes, M!Copy(s, d, n) PROVE MemoryInv'
  <2>1. CASE M!Fail
    BY <1>2, <2>1
  <2>2. CASE /\ s \in DOMAIN buffers /\ d \in DOMAIN buffers /\ n <= Len(buffers[s])
             /\ UNCHANGED nextBuffer
             /\ buffers' = [buffers EXCEPT ![d] = M!Overwrite(@, 0, SubSeq(buffers[s], 1, n))]
    <3>1. SubSeq(buffers[s], 1, n) \in Seq(Int)
      <4>1. \A i \in 1 .. n : buffers[s][i] \in Int
        BY <1>0, <2>2, ElementOfSeq, LenProperties
      <4>2. QED
        BY <1>0, <2>2, <4>1, SubSeqProperties
    <3>2. M!Overwrite(buffers[d], 0, SubSeq(buffers[s], 1, n)) \in Seq(Int)
      BY <2>2, <3>1, OverwriteIs
    <3>3. QED
      BY <1>5, <2>2, <3>2
  <2>3. QED
    BY <1>8, <2>1, <2>2 DEF M!Copy
<1>9. ASSUME NEW h, NEW b \in {1, ByteSize}, M!Fill(h, b) PROVE MemoryInv'
  <2>1. CASE M!Fail
    BY <1>2, <2>1
  <2>2. CASE /\ h \in DOMAIN buffers /\ b \in 0 .. ByteSize - 1 /\ UNCHANGED nextBuffer
             /\ buffers' = [buffers EXCEPT ![h] = [i \in DOMAIN @ |-> b]]
    <3>1. b \in Int /\ ByteSize \in Int
      BY MemoryAssumption
    <3>2. [i \in DOMAIN buffers[h] |-> b] \in Seq(Int)
      BY <2>2, <3>1, LenProperties, SeqDef
    <3>3. QED
      BY <1>5, <2>2, <3>2
  <2>3. QED
    BY <1>9, <2>1, <2>2 DEF M!Fill
<1>10. QED
  <2>1. CASE M!Next
    BY <2>1, <1>3, <1>4, <1>6, <1>7, <1>8, <1>9 DEF M!Next
  <2>2. QED
    BY <1>1, <2>1 DEF MemoryStep

-----------------------------------------------------------------------------
\* A handle that is no live buffer and was issued is none after any step.
LEMMA FreedStays ==
  ASSUME MemoryInv, MemoryStep
  PROVE  \A h \in 1 .. nextBuffer - 1 : h \notin DOMAIN buffers => h \notin DOMAIN buffers'
<1> USE DEF MemoryInv
<1>1. CASE UNCHANGED buffers
  BY <1>1
<1>2. ASSUME NEW n \in Sizes \cup {0}, M!Alloc(n), buffers' # buffers
      PROVE  DOMAIN buffers' = DOMAIN buffers \cup {nextBuffer}
  BY <1>2 DEF M!Alloc, M!Issue, M!Fail
<1>3. ASSUME NEW h, M!Free(h), buffers' # buffers PROVE DOMAIN buffers' \subseteq DOMAIN buffers
  BY <1>3 DEF M!Free, M!Fail
<1>4. ASSUME M!Next, buffers' # buffers
      PROVE  \/ DOMAIN buffers' \subseteq DOMAIN buffers
             \/ DOMAIN buffers' = DOMAIN buffers \cup {nextBuffer}
  <2>1. ASSUME NEW h, M!Size(h) PROVE FALSE
    BY <1>4, <2>1 DEF M!Size, M!Fail
  <2>2. ASSUME NEW h, NEW o, NEW l, M!Read(h, o, l) PROVE FALSE
    BY <1>4, <2>2 DEF M!Read, M!Fail
  <2>3. ASSUME NEW h, NEW o, NEW l, NEW v, M!Write(h, o, l, v)
        PROVE  DOMAIN buffers' = DOMAIN buffers
    BY <1>4, <2>3 DEF M!Write, M!Fail
  <2>4. ASSUME NEW s, NEW d, NEW n, M!Copy(s, d, n) PROVE DOMAIN buffers' = DOMAIN buffers
    BY <1>4, <2>4 DEF M!Copy, M!Fail
  <2>5. ASSUME NEW h, NEW b, M!Fill(h, b) PROVE DOMAIN buffers' = DOMAIN buffers
    BY <1>4, <2>5 DEF M!Fill, M!Fail
  <2>6. QED
    BY <1>2, <1>3, <1>4, <2>1, <2>2, <2>3, <2>4, <2>5 DEF M!Next
<1>5. QED
  BY <1>1, <1>4 DEF MemoryStep, memoryVars

\* A call that fails writes nothing.
LEMMA FailedIsQuiet ==
  ASSUME MemoryStep, result' = M!Failed, ~UNCHANGED memoryVars
  PROVE  buffers' = buffers
<1>1. M!Next
  BY DEF MemoryStep
<1>2. ASSUME NEW n, M!Alloc(n) PROVE buffers' = buffers
  BY <1>2 DEF M!Alloc, M!Fail, M!Failed
<1>3. ASSUME NEW h, M!Free(h) \/ M!Size(h) PROVE buffers' = buffers
  BY <1>3 DEF M!Free, M!Size, M!Fail, M!Failed
<1>4. ASSUME NEW h, NEW o, NEW l, M!Read(h, o, l) PROVE buffers' = buffers
  BY <1>4 DEF M!Read, M!Fail
<1>5. ASSUME NEW h, NEW o, NEW l, NEW v, M!Write(h, o, l, v) PROVE buffers' = buffers
  BY <1>5 DEF M!Write, M!Fail, M!Failed
<1>6. ASSUME NEW s, NEW d, NEW n, M!Copy(s, d, n) PROVE buffers' = buffers
  BY <1>6 DEF M!Copy, M!Fail, M!Failed
<1>7. ASSUME NEW h, NEW b, M!Fill(h, b) PROVE buffers' = buffers
  BY <1>7 DEF M!Fill, M!Fail, M!Failed
<1>8. QED
  BY <1>1, <1>2, <1>3, <1>4, <1>5, <1>6, <1>7 DEF M!Next

-----------------------------------------------------------------------------
(* What is written is what is read back. *)

Word == M!Word

\* The low byte of a word's remainder is the low byte.
LEMMA TwoDigits ==
  ASSUME NEW v \in Int
  PROVE  /\ v % Word \in 0 .. Word - 1 /\ (v % Word) \div ByteSize \in 0 .. ByteSize - 1
         /\ (v % ByteSize) + ByteSize * ((v % Word) \div ByteSize) = v % Word
<1> DEFINE b == ByteSize
           r == v % Word
           q == v \div Word
           s == r \div b
           t == r % b
<1>0. b \in Nat \ {0} /\ Word = b * b
  BY MemoryAssumption DEF Word, M!Word
<1>1. Word \in Nat \ {0}
  BY <1>0
<1>2. r \in 0 .. Word - 1 /\ q \in Int /\ v = q * Word + r
  BY <1>1
<1>3. s \in Int /\ t \in 0 .. b - 1 /\ r = s * b + t
  BY <1>0, <1>2
<1> HIDE DEF b, r, q, s, t
<1>4. s >= 0
  <2>1. ~(s <= -1)
    BY <1>0, <1>2, <1>3
  <2>2. QED
    BY <1>3, <2>1
<1>5. s <= b - 1
  <2>1. ASSUME s >= b PROVE FALSE
    <3>1. PICK d \in Nat : s = b + d
      <4>1. s - b \in Nat
        BY <1>0, <1>3, <2>1
      <4>2. s = b + (s - b)
        BY <1>0, <1>3
      <4>3. QED
        BY <4>1, <4>2
    <3>2. s * b = b * b + d * b
      BY <1>0, <3>1
    <3>3. d * b >= 0
      BY <1>0, <3>1
    <3>4. QED
      BY <1>0, <1>2, <1>3, <3>1, <3>2, <3>3
  <2>2. QED
    BY <1>0, <1>3, <2>1
<1>6. v = (q * b + s) * b + t
  BY <1>0, <1>2, <1>3
<1>7. q * b + s \in Int
  BY <1>0, <1>2, <1>3
<1>8. v % b = t
  BY <1>0, <1>3, <1>6, <1>7, OneRemainder
<1>9. s * b = b * s
  BY <1>0, <1>3
<1>10. (v % b) + b * s = r
  <2>1. PICK e \in Int : e = s * b
    BY <1>0, <1>3
  <2>2. r = e + t /\ b * s = e
    BY <1>3, <1>9, <2>1
  <2>3. (v % b) + b * s = t + e
    BY <1>8, <2>2
  <2>4. QED
    BY <1>3, <2>1, <2>2, <2>3
<1>11. QED
  BY <1>2, <1>3, <1>4, <1>5, <1>10, <1>0 DEF b, r, s

\* A remainder whose upper half stands for the negative values.
LEMMA SignRead ==
  ASSUME NEW v \in -(Word \div 2) .. Word \div 2 - 1
  PROVE  v = IF v % Word >= Word \div 2 THEN (v % Word) - Word ELSE v % Word
<1>0. ByteSize \in Nat \ {0} /\ ByteSize % 2 = 0
  BY MemoryAssumption
<1>1. PICK k \in Nat \ {0} : ByteSize = 2 * k
  BY <1>0
<1>2. PICK half \in Nat \ {0} : Word = 2 * half
  <2>1. Word = 2 * (2 * (k * k))
    BY <1>1 DEF Word, M!Word
  <2>2. 2 * (k * k) \in Nat \ {0}
    BY <1>1
  <2>3. QED
    BY <2>1, <2>2
<1>3. Word \div 2 = half
  BY <1>2
<1> HIDE DEF Word
<1>4. v \in Int /\ Word \in Nat \ {0}
  BY <1>2, <1>3
<1>5. CASE v >= 0
  <2>1. v = 0 * Word + v /\ v \in 0 .. Word - 1
    BY <1>2, <1>3, <1>4, <1>5
  <2>2. v % Word = v
    BY <1>4, <2>1, OneRemainder
  <2>3. QED
    BY <1>3, <1>5, <2>2
<1>6. CASE v < 0
  <2>1. v = (-1) * Word + (v + Word) /\ v + Word \in 0 .. Word - 1
    BY <1>2, <1>3, <1>4, <1>6
  <2>2. v % Word = v + Word
    BY <1>4, <2>1, OneRemainder
  <2>3. v + Word >= Word \div 2
    BY <1>2, <1>3, <1>4
  <2>4. QED
    BY <1>4, <2>2, <2>3
<1>7. QED
  BY <1>4, <1>5, <1>6

\* Overwriting with a value's bytes and decoding them gives the value.
LEMMA DecodeEncode ==
  ASSUME NEW buf \in Seq(Int), NEW o \in M!Offsets, NEW l \in Layouts, NEW v \in Int,
         M!Readable(l), M!Fits(buf, o, l), M!Expressible(v, l)
  PROVE  M!Decode(M!Overwrite(buf, o, M!Encode(v, l)), o, l) = v
<1> DEFINE e == M!Encode(v, l)
           after == M!Overwrite(buf, o, e)
<1>0. o \in Nat /\ Len(buf) \in Nat /\ DOMAIN buf = 1 .. Len(buf)
  BY LenProperties DEF M!Offsets
<1>1. l \in {"uint8", "int8", "int16", "uint16"}
  BY LayoutAssumption DEF M!AllLayouts, M!Readable
<1>2. e \in Seq(Int) /\ Len(e) = (IF M!SizeOf(l) = 1 THEN 1 ELSE 2) /\ e[1] = v % ByteSize
      /\ (M!SizeOf(l) # 1 => e[2] = (v % Word) \div ByteSize)
  BY EncodeIs DEF Word
<1> HIDE DEF e
<1>3. \A i \in DOMAIN buf :
        after[i] = IF i > o /\ i <= o + Len(e) THEN e[i - o] ELSE buf[i]
  BY <1>0, <1>2, OverwriteIs
<1> HIDE DEF after
<1>4. \A k \in 1 .. Len(e) : o + k \in DOMAIN buf => after[o + k] = e[k]
  <2>1. ASSUME NEW k \in 1 .. Len(e), o + k \in DOMAIN buf PROVE after[o + k] = e[k]
    <3>1. Len(e) \in Nat
      BY <1>2
    <3>2. o + k > o /\ o + k <= o + Len(e) /\ (o + k) - o = k
      BY <1>0, <3>1
    <3>3. after[o + k] = e[(o + k) - o]
      BY <1>3, <2>1, <3>2
    <3>4. QED
      BY <3>2, <3>3
  <2>2. QED
    BY <2>1
<1>5. CASE M!SizeOf(l) = 1
  <2>1. o + 1 \in DOMAIN buf
    BY <1>0, <1>5 DEF M!Fits
  <2>2. after[o + 1] = e[1]
    BY <1>2, <1>5, <1>4, <2>1
  <2>3. v \in 0 .. ByteSize - 1 /\ ByteSize \in Nat \ {0}
    BY <1>5, MemoryAssumption DEF M!Expressible
  <2>4. v = 0 * ByteSize + v
    BY <2>3
  <2>5. v % ByteSize = v
    BY <2>3, <2>4, OneRemainder
  <2>6. QED
    BY <1>2, <1>5, <2>2, <2>5 DEF M!Decode, after, e
<1>6. CASE M!SizeOf(l) # 1
  <2>1. M!SizeOf(l) = 2
    BY <1>1, <1>6 DEF M!SizeOf
  <2>2. o + 1 \in DOMAIN buf /\ o + 2 \in DOMAIN buf
    BY <1>0, <2>1 DEF M!Fits
  <2>3. after[o + 1] = e[1]
    BY <1>2, <1>6, <1>4, <2>2
  <2>4. after[o + 2] = e[2]
    BY <1>2, <1>6, <1>4, <2>2
  <2>5. after[o + 1] + ByteSize * after[o + 2] = v % Word
    BY <1>2, <1>6, <2>3, <2>4, TwoDigits
  <2>6. v \in -(Word \div 2) .. Word \div 2 - 1
    BY <1>6 DEF M!Expressible, Word
  <2>7. v = IF v % Word >= Word \div 2 THEN (v % Word) - Word ELSE v % Word
    BY <2>6, SignRead
  <2>8. M!Decode(after, o, l) = IF v % Word >= Word \div 2 THEN (v % Word) - Word ELSE v % Word
    BY <1>6, <2>5 DEF M!Decode, Word
  <2>9. QED
    BY <2>7, <2>8 DEF after, e
<1>7. QED
  BY <1>5, <1>6

LEMMA WriteLands ==
  ASSUME MemoryInv, NEW h, NEW o \in M!Offsets, NEW l \in Layouts, NEW v \in M!Values,
         M!Write(h, o, l, v), result' # M!Failed
  PROVE  M!Written(call')
<1>1. /\ M!Accessible(h, o, l)
      /\ buffers' = [buffers EXCEPT ![h] = M!Overwrite(@, o, M!Encode(v, l))]
  BY DEF M!Write, M!Fail
<1>2. h \in DOMAIN buffers /\ M!Readable(l) /\ M!Fits(buffers[h], o, l)
  BY <1>1 DEF M!Accessible
<1>3. buffers[h] \in Seq(Int) /\ v \in Int /\ o \in Nat
  BY <1>2, ValuesAre DEF MemoryInv, M!Offsets
<1>4. buffers'[h] = M!Overwrite(buffers[h], o, M!Encode(v, l))
  BY <1>1, <1>2
<1>5. M!Expressible(v, l) => M!Decode(buffers'[h], o, l) = v
  BY <1>2, <1>3, <1>4, DecodeEncode
<1>6. \A g \in DOMAIN buffers \ {h} : buffers'[g] = buffers[g]
  BY <1>1
<1>7. ASSUME NEW i \in DOMAIN buffers[h] \ (o + 1 .. o + M!SizeOf(l))
      PROVE  buffers'[h][i] = buffers[h][i]
  <2>1. l \in {"uint8", "int8", "int16", "uint16"}
    BY <1>2, LayoutAssumption DEF M!AllLayouts, M!Readable
  <2>2. M!SizeOf(l) \in {1, 2}
    BY <2>1 DEF M!SizeOf
  <2>3. M!Encode(v, l) \in Seq(Int) /\ Len(M!Encode(v, l)) = M!SizeOf(l)
    BY <1>3, <2>2, EncodeIs
  <2>4. i \in Nat
    BY <1>3, LenProperties
  <2>5. ~(i > o /\ i <= o + Len(M!Encode(v, l)))
    BY <1>3, <1>7, <2>2, <2>3, <2>4
  <2>6. M!Overwrite(buffers[h], o, M!Encode(v, l))[i] =
          IF i > o /\ i <= o + Len(M!Encode(v, l)) THEN M!Encode(v, l)[i - o] ELSE buffers[h][i]
    BY <1>3, <2>3, OverwriteIs
  <2>7. QED
    BY <1>4, <2>5, <2>6
<1>8. /\ call'.h = h /\ call'.offset = o /\ call'.layout = l /\ call'.v = v
  BY DEF M!Write
<1>9. DOMAIN buffers' = DOMAIN buffers
  BY <1>1
<1>10. DOMAIN buffers'[h] = DOMAIN buffers[h]
  BY <1>4 DEF M!Overwrite
<1>11. M!OnlyThere(h, o + 1 .. o + M!SizeOf(l))
  BY <1>6, <1>7, <1>9, <1>10 DEF M!OnlyThere
<1>12. QED
  BY <1>5, <1>8, <1>11 DEF M!Written

\* The first n bytes of the one are what those of the other were.
LEMMA CopyLands ==
  ASSUME MemoryInv, NEW src, NEW dst, NEW n \in Sizes, M!Copy(src, dst, n), result' # M!Failed
  PROVE  M!Copied(call')
<1>1. /\ src \in DOMAIN buffers /\ dst \in DOMAIN buffers
      /\ n <= Len(buffers[src]) /\ n <= Len(buffers[dst])
      /\ buffers' = [buffers EXCEPT ![dst] = M!Overwrite(@, 0, SubSeq(buffers[src], 1, n))]
  BY DEF M!Copy, M!Fail
<1>2. PICK a : a = buffers[src]
  OBVIOUS
<1>3. PICK b : b = buffers[dst]
  OBVIOUS
<1>4. PICK p : p = SubSeq(a, 1, n)
  OBVIOUS
<1>5. a \in Seq(Int) /\ b \in Seq(Int) /\ n \in Nat
  BY <1>1, <1>2, <1>3, MemoryAssumption DEF MemoryInv
<1>6. /\ Len(a) \in Nat /\ Len(b) \in Nat
      /\ DOMAIN a = 1 .. Len(a) /\ DOMAIN b = 1 .. Len(b)
      /\ n <= Len(a) /\ n <= Len(b)
  BY <1>1, <1>2, <1>3, <1>5, LenProperties
<1>7. \A i \in 1 .. n : a[i] \in Int
  BY <1>5, <1>6, ElementOfSeq
<1>8. p \in Seq(Int) /\ Len(p) = n /\ \A i \in 1 .. n : p[i] = a[i]
  BY <1>4, <1>5, <1>6, <1>7, SubSeqProperties
<1>9. PICK q : q = M!Overwrite(b, 0, p)
  OBVIOUS
<1>10. q = [i \in DOMAIN b |-> IF i > 0 /\ i <= 0 + Len(p) THEN p[i - 0] ELSE b[i]]
  BY <1>9 DEF M!Overwrite
<1>11. \A i \in 1 .. n : q[i] = a[i]
  <2>1. SUFFICES ASSUME NEW i \in 1 .. n PROVE q[i] = a[i]
    OBVIOUS
  <2>2. i \in DOMAIN b /\ i > 0 /\ i <= 0 + Len(p) /\ i - 0 = i
    BY <1>5, <1>6, <1>8
  <2>3. q[i] = p[i]
    BY <1>10, <2>2
  <2>4. QED
    BY <1>8, <2>3
<1>12. \A i \in DOMAIN b \ (1 .. n) : q[i] = b[i]
  <2>1. SUFFICES ASSUME NEW i \in DOMAIN b \ (1 .. n) PROVE q[i] = b[i]
    OBVIOUS
  <2>2. ~(i > 0 /\ i <= 0 + Len(p))
    BY <1>5, <1>6, <1>8
  <2>3. QED
    BY <1>10, <2>2
<1>13. buffers' = [buffers EXCEPT ![dst] = q]
  BY <1>1, <1>2, <1>3, <1>4, <1>9
<1>14. /\ DOMAIN buffers' = DOMAIN buffers /\ buffers'[dst] = q
       /\ \A g \in DOMAIN buffers \ {dst} : buffers'[g] = buffers[g]
  BY <1>1, <1>13
<1>15. call'.src = src /\ call'.dst = dst /\ call'.n = n
  BY DEF M!Copy
<1>16. M!OnlyThere(dst, 1 .. n)
  BY <1>3, <1>10, <1>12, <1>14 DEF M!OnlyThere
<1>17. \A i \in 1 .. n : buffers'[dst][i] = buffers[src][i]
  BY <1>2, <1>11, <1>14
<1>18. QED
  BY <1>15, <1>16, <1>17 DEF M!Copied

\* A fill is all of one buffer.
LEMMA FillLands ==
  ASSUME MemoryInv, NEW h, NEW b, M!Fill(h, b), result' # M!Failed
  PROVE  M!Filled(call')
<1>1. h \in DOMAIN buffers /\ buffers' = [buffers EXCEPT ![h] = [i \in DOMAIN @ |-> b]]
  BY DEF M!Fill, M!Fail
<1>2. /\ DOMAIN buffers' = DOMAIN buffers
      /\ buffers'[h] = [i \in DOMAIN buffers[h] |-> b]
      /\ \A g \in DOMAIN buffers \ {h} : buffers'[g] = buffers[g]
  BY <1>1
<1>3. call'.h = h /\ call'.b = b
  BY DEF M!Fill
<1>4. M!OnlyThere(h, DOMAIN buffers[h])
  BY <1>2 DEF M!OnlyThere
<1>5. QED
  BY <1>2, <1>3, <1>4 DEF M!Filled

\* What the other calls leave alone: every buffer that stays.
BuffersStand == \A g \in DOMAIN buffers \cap DOMAIN buffers' : buffers'[g] = buffers[g]

LEMMA OthersTouchNothing ==
  ASSUME MemoryInv, NEW n, NEW h, NEW o, NEW l, M!Alloc(n) \/ M!Free(h) \/ M!Size(h) \/ M!Read(h, o, l)
  PROVE  BuffersStand /\ call'.op \in {"alloc", "free", "size", "read"}
<1>1. CASE buffers' = buffers
  BY <1>1 DEF BuffersStand, M!Alloc, M!Free, M!Size, M!Read
<1>2. CASE M!Alloc(n) /\ buffers' # buffers
  <2>1. \A g \in DOMAIN buffers : g # nextBuffer
    BY DEF MemoryInv
  <2>2. buffers' = [g \in DOMAIN buffers \cup {nextBuffer} |->
                      IF g = nextBuffer THEN [i \in 1 .. n |-> 0] ELSE buffers[g]]
    BY <1>2 DEF M!Alloc, M!Fail, M!Issue
  <2>3. QED
    BY <1>2, <2>1, <2>2 DEF BuffersStand, M!Alloc
<1>3. CASE M!Free(h) /\ buffers' # buffers
  BY <1>3 DEF M!Free, M!Fail, BuffersStand
<1>4. QED
  BY <1>1, <1>2, <1>3 DEF M!Size, M!Read, M!Fail

\* Every call that succeeds writes its own bytes.
WritesItsBytes(c) ==
  /\ c.op = "write" => M!Written(c)
  /\ c.op = "copy" => M!Copied(c)
  /\ c.op = "fill" => M!Filled(c)
  /\ c.op \notin {"write", "copy", "fill"} => BuffersStand

LEMMA SuccessWrites ==
  ASSUME MemoryInv, MemoryStep, ~UNCHANGED memoryVars, result' # M!Failed
  PROVE  WritesItsBytes(call')
<1>1. ASSUME NEW n, NEW h, NEW o, NEW l,
             M!Alloc(n) \/ M!Free(h) \/ M!Size(h) \/ M!Read(h, o, l)
      PROVE  WritesItsBytes(call')
  <2>1. BuffersStand /\ call'.op \in {"alloc", "free", "size", "read"}
    BY <1>1, OthersTouchNothing
  <2>2. QED
    BY <2>1 DEF WritesItsBytes
<1>2. ASSUME NEW h, NEW o \in M!Offsets, NEW l \in Layouts, NEW v \in M!Values, M!Write(h, o, l, v)
      PROVE  WritesItsBytes(call')
  <2>1. call'.op = "write"
    BY <1>2 DEF M!Write
  <2>2. QED
    BY <1>2, <2>1, WriteLands DEF WritesItsBytes
<1>3. ASSUME NEW s, NEW d, NEW n \in Sizes, M!Copy(s, d, n) PROVE WritesItsBytes(call')
  <2>1. call'.op = "copy"
    BY <1>3 DEF M!Copy
  <2>2. QED
    BY <1>3, <2>1, CopyLands DEF WritesItsBytes
<1>4. ASSUME NEW h, NEW b, M!Fill(h, b) PROVE WritesItsBytes(call')
  <2>1. call'.op = "fill"
    BY <1>4 DEF M!Fill
  <2>2. QED
    BY <1>4, <2>1, FillLands DEF WritesItsBytes
<1>5. QED
  BY <1>1, <1>2, <1>3, <1>4 DEF MemoryStep, M!Next

-----------------------------------------------------------------------------
(* The buffers of the GPU. *)

MapRec == [id : Int, data : Seq(Int), out : Seq(Int)]
Mapped(m) == Len(m.out) <= Len(m.data) /\ \A j \in 1 .. Len(m.out) : m.out[j] = G!Image(m.data[j])
GpuInv ==
  /\ nextGpu \in Nat \ {0} /\ DOMAIN gpu \subseteq 1 .. nextGpu - 1
  /\ \A i \in DOMAIN gpu : gpu[i] \in Seq(Int)
  /\ maps \in Seq(MapRec)
  /\ \A k \in 1 .. Len(maps) : Mapped(maps[k])

GpuStep == G!Next \/ UNCHANGED gpuVars

LEMMA OnlyGpu == Next => GpuStep
  BY DEF Next, GpuStep, Rest

LEMMA SameEnds == \A s : G!Last(s) = Last(s) /\ G!Front(s) = Front(s)
  BY DEF G!Last, G!Front, Last, Front

\* A map in progress goes back to what it was called within.
LEMMA MapEnds ==
  ASSUME GpuInv, maps # <<>>
  PROVE  /\ Last(maps) \in MapRec /\ Mapped(Last(maps))
         /\ Front(maps) \in Seq(MapRec)
         /\ \A k \in 1 .. Len(Front(maps)) : Mapped(Front(maps)[k])
<1>1. /\ Front(maps) \in Seq(MapRec) /\ Len(Front(maps)) = Len(maps) - 1
      /\ \A k \in 1 .. Len(maps) - 1 : Front(maps)[k] = maps[k]
  BY Popped DEF GpuInv
<1>2. Last(maps) \in MapRec /\ Last(maps) = maps[Len(maps)] /\ Len(maps) \in 1 .. Len(maps)
  BY LastIsIn DEF GpuInv
<1>3. \A k \in 1 .. Len(maps) : Mapped(maps[k])
  BY DEF GpuInv
<1>4. ASSUME NEW k \in 1 .. Len(Front(maps)) PROVE Mapped(Front(maps)[k])
  <2>1. k \in 1 .. Len(maps) /\ Front(maps)[k] = maps[k]
    BY <1>1, <1>2
  <2>2. QED
    BY <1>3, <2>1
<1>5. QED
  BY <1>1, <1>2, <1>3, <1>4

\* A buffer more, under the next handle.
LEMMA Allocated ==
  ASSUME GpuInv, NEW e \in Seq(Int), G!Alloc(e)
  PROVE  /\ DOMAIN gpu' = DOMAIN gpu \cup {nextGpu} /\ nextGpu' = nextGpu + 1
         /\ nextGpu \notin DOMAIN gpu /\ gpu'[nextGpu] = e
         /\ \A i \in DOMAIN gpu : gpu'[i] = gpu[i]
         /\ nextGpu' \in Nat \ {0} /\ DOMAIN gpu' \subseteq 1 .. nextGpu' - 1
         /\ \A i \in DOMAIN gpu' : gpu'[i] \in Seq(Int)
<1>1. gpu' = [i \in DOMAIN gpu \cup {nextGpu} |-> IF i = nextGpu THEN e ELSE gpu[i]]
      /\ nextGpu' = nextGpu + 1
  BY DEF G!Alloc, G!Put
<1>2. nextGpu \in Nat \ {0} /\ DOMAIN gpu \subseteq 1 .. nextGpu - 1
  BY DEF GpuInv
<1>3. nextGpu \notin DOMAIN gpu
  BY <1>2
<1>4. DOMAIN gpu' = DOMAIN gpu \cup {nextGpu} /\ gpu'[nextGpu] = e
      /\ \A i \in DOMAIN gpu : gpu'[i] = gpu[i]
  BY <1>1, <1>3
<1>5. nextGpu' \in Nat \ {0} /\ DOMAIN gpu' \subseteq 1 .. nextGpu' - 1
  BY <1>1, <1>2, <1>4
<1>6. \A i \in DOMAIN gpu' : gpu'[i] \in Seq(Int)
  BY <1>4 DEF GpuInv
<1>7. QED
  BY <1>1, <1>3, <1>4, <1>5, <1>6

LEMMA GpuStays ==
  ASSUME GpuInv, GpuStep
  PROVE  GpuInv'
<1>1. CASE UNCHANGED gpuVars
  BY <1>1 DEF gpuVars, GpuInv, Mapped
<1>2. ASSUME NEW n \in 1 .. MaxLength, G!CreateBuffer(n) PROVE GpuInv'
  <2>1. [i \in 1 .. n |-> 0] \in Seq(Int)
    <3>1. n \in Nat
      BY BoundAssumption
    <3>2. QED
      BY <3>1, ZerosAreSeq
  <2>2. G!Alloc([i \in 1 .. n |-> 0]) /\ UNCHANGED maps
    BY <1>2 DEF G!CreateBuffer
  <2>3. /\ nextGpu' \in Nat \ {0} /\ DOMAIN gpu' \subseteq 1 .. nextGpu' - 1
        /\ \A i \in DOMAIN gpu' : gpu'[i] \in Seq(Int)
    BY <2>1, <2>2, Allocated
  <2>4. QED
    BY <2>2, <2>3 DEF GpuInv, Mapped
<1>3. ASSUME NEW h, G!Fill(h, 1) PROVE GpuInv'
  <2>1. /\ gpu' = [gpu EXCEPT ![h] = [i \in DOMAIN @ |-> 1]] /\ h \in DOMAIN gpu
        /\ UNCHANGED <<nextGpu, maps>>
    BY <1>3 DEF G!Fill
  <2>2. [i \in DOMAIN gpu[h] |-> 1] \in Seq(Int)
    BY <2>1, LenProperties, SeqDef DEF GpuInv
  <2>3. DOMAIN gpu' = DOMAIN gpu /\ \A i \in DOMAIN gpu' : gpu'[i] \in Seq(Int)
    BY <2>1, <2>2 DEF GpuInv
  <2>4. QED
    BY <2>1, <2>3 DEF GpuInv, Mapped
<1>4. ASSUME NEW h, G!FreeBuffer(h) PROVE GpuInv'
  <2>1. gpu' = [i \in DOMAIN gpu \ {h} |-> gpu[i]] /\ UNCHANGED <<nextGpu, maps>>
    BY <1>4 DEF G!FreeBuffer
  <2>2. DOMAIN gpu' \subseteq DOMAIN gpu /\ \A i \in DOMAIN gpu' : gpu'[i] \in Seq(Int)
    BY <2>1 DEF GpuInv
  <2>3. QED
    BY <2>1, <2>2 DEF GpuInv, Mapped
<1>5. ASSUME NEW h \in 0 .. MaxBuffers, G!StartMap(h) PROVE GpuInv'
  <2>1. /\ h \in DOMAIN gpu /\ UNCHANGED <<gpu, nextGpu>>
        /\ maps' = Append(maps, [id |-> h, data |-> gpu[h], out |-> <<>>])
    BY <1>5 DEF G!StartMap
  <2>2. PICK m \in MapRec : m = [id |-> h, data |-> gpu[h], out |-> <<>>]
    <3>1. gpu[h] \in Seq(Int) /\ <<>> \in Seq(Int) /\ h \in Int
      BY <2>1, EmptySeq, BoundAssumption DEF GpuInv
    <3>2. [id |-> h, data |-> gpu[h], out |-> <<>>] \in MapRec
      BY <3>1 DEF MapRec
    <3>3. QED
      BY <3>2
  <2>3. Len(m.out) = 0 /\ Len(m.data) \in Nat
    BY <2>2, LenProperties, EmptySeq DEF MapRec
  <2>4. Mapped(m)
    BY <2>3 DEF Mapped
  <2>5. maps' \in Seq(MapRec) /\ Len(maps') = Len(maps) + 1 /\ maps'[Len(maps) + 1] = m
        /\ \A k \in 1 .. Len(maps) : maps'[k] = maps[k]
    BY <2>1, <2>2, AppendProperties DEF GpuInv
  <2>6. Len(maps) \in Nat
    BY LenProperties DEF GpuInv
  <2>7. ASSUME NEW k \in 1 .. Len(maps') PROVE Mapped(maps'[k])
    <3>1. k = Len(maps) + 1 \/ k \in 1 .. Len(maps)
      BY <2>5, <2>6
    <3>2. QED
      BY <2>4, <2>5, <3>1 DEF GpuInv
  <2>8. QED
    <3>1. \A k \in 1 .. Len(maps') : Mapped(maps'[k])
      BY <2>7
    <3>2. QED
      BY <2>1, <2>5, <3>1 DEF GpuInv, Mapped
<1>6. ASSUME G!CallbackReturns PROVE GpuInv'
  <2>1. PICK m \in MapRec : m = Last(maps)
    BY <1>6, MapEnds DEF G!CallbackReturns
  <2>2. Mapped(m) /\ m = maps[Len(maps)] /\ maps # <<>> /\ Len(maps) \in 1 .. Len(maps)
    BY <1>6, <2>1, MapEnds, LastIsIn DEF G!CallbackReturns, GpuInv
  <2>3. Len(m.out) < Len(m.data) /\ UNCHANGED <<gpu, nextGpu>>
    BY <1>6, <2>1, SameEnds DEF G!CallbackReturns
  <2>4. m.data \in Seq(Int) /\ m.out \in Seq(Int) /\ Len(m.out) \in Nat /\ Len(m.data) \in Nat
    BY <2>1, LenProperties DEF MapRec
  <2>5. PICK v \in Int : v = G!Image(m.data[Len(m.out) + 1])
    <3>1. m.data[Len(m.out) + 1] \in Int
      BY <2>3, <2>4, ElementOfSeq
    <3>2. QED
      BY <3>1 DEF G!Image
  <2>6. maps' = [maps EXCEPT ![Len(maps)].out = Append(@, v)]
    <3>1. v = G!Image(G!Last(maps).data[Len(G!Last(maps).out) + 1])
      BY <2>1, <2>5, SameEnds
    <3>2. QED
      BY <1>6, <3>1 DEF G!CallbackReturns, G!Element
  <2>7. PICK o \in Seq(Int) : o = Append(m.out, v)
    BY <2>4, <2>5, AppendProperties
  <2>8. Len(o) = Len(m.out) + 1 /\ o[Len(m.out) + 1] = v /\ \A j \in 1 .. Len(m.out) : o[j] = m.out[j]
    BY <2>4, <2>5, <2>7, AppendProperties
  <2>9. PICK e \in MapRec : e = [m EXCEPT !.out = o]
    BY <2>1, <2>7 DEF MapRec
  <2>10. e.out = o /\ e.data = m.data
    BY <2>1, <2>9 DEF MapRec
  <2>11. Mapped(e)
    <3>1. ASSUME NEW j \in 1 .. Len(o) PROVE o[j] = G!Image(m.data[j])
      <4>1. j = Len(m.out) + 1 \/ j \in 1 .. Len(m.out)
        BY <2>4, <2>8
      <4>2. QED
        BY <2>2, <2>5, <2>8, <4>1 DEF Mapped
    <3>2. Len(o) <= Len(m.data)
      BY <2>3, <2>4, <2>8
    <3>3. QED
      BY <2>10, <3>1, <3>2 DEF Mapped
  <2>12. maps' = [maps EXCEPT ![Len(maps)] = e]
    <3>1. maps' = [maps EXCEPT ![Len(maps)] = [maps[Len(maps)] EXCEPT !.out = Append(maps[Len(maps)].out, v)]]
      BY <2>6, Zenon
    <3>2. [maps[Len(maps)] EXCEPT !.out = Append(maps[Len(maps)].out, v)] = [m EXCEPT !.out = Append(m.out, v)]
      BY <2>2
    <3>3. QED
      BY <3>1, <3>2, <2>7, <2>9
  <2>13. /\ maps' \in Seq(MapRec) /\ Len(maps') = Len(maps) /\ maps'[Len(maps)] = e
         /\ \A k \in 1 .. Len(maps) - 1 : maps'[k] = maps[k]
    BY <2>2, <2>12, Replaced DEF GpuInv
  <2>14. ASSUME NEW k \in 1 .. Len(maps') PROVE Mapped(maps'[k])
    <3>1. k = Len(maps) \/ k \in 1 .. Len(maps) - 1
      BY <2>2, <2>13
    <3>2. CASE k = Len(maps)
      BY <2>11, <2>13, <3>2
    <3>3. CASE k \in 1 .. Len(maps) - 1
      <4>1. k \in 1 .. Len(maps) /\ maps'[k] = maps[k]
        BY <2>2, <2>13, <3>3
      <4>2. QED
        BY <4>1 DEF GpuInv
    <3>4. QED
      BY <3>1, <3>2, <3>3
  <2>15. \A k \in 1 .. Len(maps') : Mapped(maps'[k])
    BY <2>14
  <2>16. QED
    BY <2>3, <2>13, <2>15 DEF GpuInv, Mapped
<1>7. ASSUME G!CallbackFails PROVE GpuInv'
  <2>1. maps # <<>> /\ maps' = Front(maps) /\ UNCHANGED <<gpu, nextGpu>>
    BY <1>7, SameEnds DEF G!CallbackFails
  <2>2. maps' \in Seq(MapRec) /\ \A k \in 1 .. Len(maps') : Mapped(maps'[k])
    BY <2>1, MapEnds
  <2>3. QED
    BY <2>1, <2>2 DEF GpuInv, Mapped
<1>8. ASSUME G!FinishMap PROVE GpuInv'
  <2>1. maps # <<>> /\ maps' = Front(maps) /\ G!Alloc(Last(maps).out)
    BY <1>8, SameEnds DEF G!FinishMap
  <2>2. maps' \in Seq(MapRec) /\ \A k \in 1 .. Len(maps') : Mapped(maps'[k])
    BY <2>1, MapEnds
  <2>3. Last(maps).out \in Seq(Int)
    BY <2>1, MapEnds DEF MapRec
  <2>4. /\ nextGpu' \in Nat \ {0} /\ DOMAIN gpu' \subseteq 1 .. nextGpu' - 1
        /\ \A i \in DOMAIN gpu' : gpu'[i] \in Seq(Int)
    BY <2>1, <2>3, Allocated
  <2>5. QED
    BY <2>2, <2>4 DEF GpuInv, Mapped
<1>9. QED
  BY <1>1, <1>2, <1>3, <1>4, <1>5, <1>6, <1>7, <1>8 DEF GpuStep, G!Next

\* The buffer a map makes holds the images of what it was given.
LEMMA MapGives ==
  ASSUME GpuInv, GpuStep, ~UNCHANGED gpuVars, made' # <<>>
  PROVE  gpu'[made'.id] = [i \in DOMAIN made'.from |-> G!Image(made'.from[i])]
<1>1. ASSUME NEW n, G!CreateBuffer(n) PROVE FALSE
  BY <1>1 DEF G!CreateBuffer
<1>2. ASSUME NEW h, G!Fill(h, 1) \/ G!FreeBuffer(h) \/ G!StartMap(h) PROVE FALSE
  BY <1>2 DEF G!Fill, G!FreeBuffer, G!StartMap
<1>3. ~G!CallbackReturns /\ ~G!CallbackFails
  BY DEF G!CallbackReturns, G!CallbackFails
<1>4. G!FinishMap
  BY <1>1, <1>2, <1>3 DEF GpuStep, G!Next
<1>5. PICK m \in MapRec : m = Last(maps)
  BY <1>4, MapEnds DEF G!FinishMap
<1>6. Mapped(m)
  BY <1>4, <1>5, MapEnds DEF G!FinishMap
<1>7. Len(m.out) = Len(m.data) /\ G!Alloc(m.out) /\ made' = [id |-> nextGpu, from |-> m.data]
  BY <1>4, <1>5, SameEnds DEF G!FinishMap
<1>8. m.data \in Seq(Int) /\ m.out \in Seq(Int)
  BY <1>5 DEF MapRec
<1>9. gpu'[nextGpu] = m.out
  BY <1>7, <1>8, Allocated
<1>10. DOMAIN m.data = 1 .. Len(m.out) /\ m.out = [i \in 1 .. Len(m.out) |-> m.out[i]]
  BY <1>7, <1>8, LenProperties
<1>11. m.out = [i \in DOMAIN m.data |-> G!Image(m.data[i])]
  BY <1>6, <1>10 DEF Mapped
<1>12. made'.id = nextGpu /\ made'.from = m.data
  BY <1>7
<1>13. QED
  BY <1>9, <1>11, <1>12

\* Only a fill changes a buffer that stays, and only its own.
LEMMA OthersStay ==
  ASSUME GpuInv, GpuStep, NEW i \in DOMAIN gpu \cap DOMAIN gpu',
         NEW j \in DOMAIN gpu \cap DOMAIN gpu', gpu[i] # gpu'[i], gpu[j] # gpu'[j]
  PROVE  i = j /\ nextGpu' = nextGpu
<1>1. ~UNCHANGED gpu
  OBVIOUS
<1>2. ASSUME NEW n \in 1 .. MaxLength, G!CreateBuffer(n) PROVE FALSE
  <2>1. [k \in 1 .. n |-> 0] \in Seq(Int)
    <3>1. n \in Nat
      BY BoundAssumption
    <3>2. QED
      BY <3>1, ZerosAreSeq
  <2>2. QED
    BY <1>2, <2>1, Allocated DEF G!CreateBuffer
<1>3. ASSUME NEW h, G!FreeBuffer(h) PROVE FALSE
  BY <1>3 DEF G!FreeBuffer
<1>4. ASSUME NEW h, G!StartMap(h) PROVE FALSE
  BY <1>1, <1>4 DEF G!StartMap
<1>5. ~G!CallbackReturns /\ ~G!CallbackFails
  BY <1>1 DEF G!CallbackReturns, G!CallbackFails
<1>6. ~G!FinishMap
  <2>1. SUFFICES ASSUME G!FinishMap PROVE FALSE
    OBVIOUS
  <2>2. Last(maps).out \in Seq(Int) /\ G!Alloc(Last(maps).out)
    BY <2>1, MapEnds, SameEnds DEF G!FinishMap, MapRec
  <2>3. QED
    BY <2>2, Allocated
<1>7. PICK h \in 0 .. MaxBuffers : G!Fill(h, 1)
  BY <1>1, <1>2, <1>3, <1>4, <1>5, <1>6 DEF GpuStep, G!Next, gpuVars
<1>8. QED
  BY <1>7 DEF G!Fill

\* An id that was issued and is freed names no buffer after any step.
LEMMA FreedBuffersStay ==
  ASSUME GpuInv, GpuStep
  PROVE  \A id \in 1 .. nextGpu - 1 : id \notin DOMAIN gpu => id \notin DOMAIN gpu'
<1>1. nextGpu \in Nat \ {0}
  BY DEF GpuInv
<1>2. ASSUME NEW e, G!Alloc(e) PROVE DOMAIN gpu' = DOMAIN gpu \cup {nextGpu}
  BY <1>2 DEF G!Alloc, G!Put
<1>3. \/ DOMAIN gpu' \subseteq DOMAIN gpu
      \/ DOMAIN gpu' = DOMAIN gpu \cup {nextGpu}
  <2>1. CASE UNCHANGED gpu
    BY <2>1
  <2>2. ASSUME NEW n, G!CreateBuffer(n) PROVE DOMAIN gpu' = DOMAIN gpu \cup {nextGpu}
    BY <1>2, <2>2 DEF G!CreateBuffer
  <2>3. ASSUME NEW h, G!Fill(h, 1) PROVE DOMAIN gpu' = DOMAIN gpu
    BY <2>3 DEF G!Fill
  <2>4. ASSUME NEW h, G!FreeBuffer(h) PROVE DOMAIN gpu' \subseteq DOMAIN gpu
    BY <2>4 DEF G!FreeBuffer
  <2>5. ASSUME G!FinishMap PROVE DOMAIN gpu' = DOMAIN gpu \cup {nextGpu}
    BY <1>2, <2>5 DEF G!FinishMap
  <2>6. ASSUME NEW h, G!StartMap(h) PROVE UNCHANGED gpu
    BY <2>6 DEF G!StartMap
  <2>7. G!CallbackReturns \/ G!CallbackFails => UNCHANGED gpu
    BY DEF G!CallbackReturns, G!CallbackFails
  <2>8. CASE UNCHANGED gpuVars
    BY <2>1, <2>8 DEF gpuVars
  <2>9. CASE G!Next
    BY <2>1, <2>2, <2>3, <2>4, <2>5, <2>6, <2>7, <2>9 DEF G!Next
  <2>10. QED
    BY <2>8, <2>9 DEF GpuStep
<1>4. QED
  BY <1>1, <1>3

-----------------------------------------------------------------------------
(* Sockets. *)

IsClosed(id) == id \notin DOMAIN connections \cup DOMAIN listeners
SocketInv ==
  /\ nextSocket \in Nat \ {0} /\ DOMAIN issued \subseteq 1 .. nextSocket - 1
  /\ DOMAIN listeners \cup DOMAIN connections \subseteq DOMAIN issued
  /\ \A id \in DOMAIN listeners : issued[id] = "listener"
  /\ \A id \in DOMAIN connections : issued[id] = "connection"
  /\ answer # S!Failed /\ answer[1] = "closed" => IsClosed(answer[2])

SocketStep == S!Next \/ UNCHANGED socketVars

LEMMA OnlySockets == Next => SocketStep
  BY DEF Next, SocketStep, Rest

LEMMA SocketsStay ==
  ASSUME SocketInv, SocketStep
  PROVE  SocketInv'
<1> USE DEF SocketInv, IsClosed
<1>1. CASE UNCHANGED socketVars
  BY <1>1 DEF socketVars, S!Failed
<1>2. ASSUME S!Fail PROVE SocketInv'
  BY <1>2 DEF S!Fail, S!Failed
<1>3. ASSUME NEW p, S!Listen(p) PROVE SocketInv'
  <2>1. CASE ~S!Fail
    <3>1. /\ DOMAIN listeners' = DOMAIN listeners \cup {nextSocket}
          /\ DOMAIN issued' = DOMAIN issued \cup {nextSocket}
          /\ issued'[nextSocket] = "listener"
          /\ \A id \in DOMAIN issued : id # nextSocket => issued'[id] = issued[id]
          /\ UNCHANGED connections /\ nextSocket' = nextSocket + 1
          /\ answer' = <<"id", nextSocket>>
      BY <1>3, <2>1 DEF S!Listen, S!Add, S!IssueListener
    <3>2. nextSocket \notin DOMAIN issued
      OBVIOUS
    <3>3. nextSocket' \in Nat \ {0} /\ DOMAIN issued' \subseteq 1 .. nextSocket' - 1
      BY <3>1
    <3>4. answer'[1] # "closed"
      BY <3>1
    <3>5. QED
      BY <3>1, <3>2, <3>3, <3>4
  <2>2. QED
    BY <1>2, <2>1
<1>4. ASSUME S!AddConnection PROVE SocketInv'
  <2>1. /\ DOMAIN connections' = DOMAIN connections \cup {nextSocket}
        /\ DOMAIN issued' = DOMAIN issued \cup {nextSocket}
        /\ issued'[nextSocket] = "connection"
        /\ \A id \in DOMAIN issued : id # nextSocket => issued'[id] = issued[id]
        /\ UNCHANGED listeners /\ nextSocket' = nextSocket + 1
        /\ answer' = <<"id", nextSocket>>
    BY <1>4 DEF S!AddConnection, S!Add, S!IssueConnection
  <2>2. nextSocket \notin DOMAIN issued
    OBVIOUS
  <2>3. nextSocket' \in Nat \ {0} /\ DOMAIN issued' \subseteq 1 .. nextSocket' - 1
    BY <2>1
  <2>4. answer'[1] # "closed"
    BY <2>1
  <2>5. QED
    BY <2>1, <2>2, <2>3, <2>4
<1>5. S!Connect => SocketInv'
  BY <1>2, <1>4 DEF S!Connect
<1>6. ASSUME NEW id, S!Accept(id) PROVE SocketInv'
  BY <1>2, <1>4, <1>6 DEF S!Accept
<1>7. ASSUME NEW id, NEW max, S!Recv(id, max) PROVE SocketInv'
  <2>1. CASE ~S!Fail
    <3>1. /\ DOMAIN connections' = DOMAIN connections
          /\ UNCHANGED <<listeners, nextSocket, issued>> /\ answer'[1] = "text"
      <4>1. UNCHANGED <<listeners, nextSocket, issued>>
        BY <1>7, <2>1 DEF S!Recv
      <4>2. PICK text : answer' = <<"text", text>>
        BY <1>7, <2>1 DEF S!Recv
      <4>3. DOMAIN connections' = DOMAIN connections
        <5>1. \A n : DOMAIN connections =
                DOMAIN [connections EXCEPT
                  ![id].queue = S!Rest(connections[id].queue, n),
                  ![id].read = connections[id].read
                                 \o S!Decoded(SubSeq(connections[id].queue, 1, n)),
                  ![id].cuts = IF n > 0 /\ connections[id].queue[n] = "c1"
                               THEN @ \cup {Len(connections[id].read) + n} ELSE @]
          OBVIOUS
        <5>2. QED
          BY <1>7, <2>1, <5>1 DEF S!Recv
      <4>4. QED
        BY <4>1, <4>2, <4>3
    <3>2. QED
      BY <3>1
  <2>2. QED
    BY <1>2, <2>1
<1>8. ASSUME NEW id, S!Send(id) PROVE SocketInv'
  <2>1. CASE ~S!Fail
    <3>1. UNCHANGED <<connections, listeners, nextSocket, issued>> /\ answer'[1] = "sent"
      BY <1>8, <2>1 DEF S!Send
    <3>2. QED
      BY <3>1
  <2>2. QED
    BY <1>2, <2>1
<1>9. ASSUME NEW id, S!Close(id) PROVE SocketInv'
  <2>1. /\ DOMAIN connections' = DOMAIN connections \ {id}
        /\ DOMAIN listeners' = DOMAIN listeners \ {id}
        /\ UNCHANGED <<nextSocket, issued>> /\ answer' = <<"closed", id>>
    BY <1>9 DEF S!Close, S!CloseEither, S!Drop
  <2>2. answer'[2] = id
    BY <2>1
  <2>3. QED
    BY <2>1, <2>2
<1>10. ASSUME NEW p, S!PeerConnects(p) PROVE SocketInv'
  BY <1>10 DEF S!PeerConnects, S!Failed
<1>11. ASSUME NEW id, NEW t, S!PeerWrites(id, t) \/ S!PeerCloses(id) PROVE SocketInv'
  <2>1. DOMAIN connections' = DOMAIN connections /\ UNCHANGED <<listeners, nextSocket, issued, answer>>
    BY <1>11 DEF S!PeerWrites, S!PeerCloses
  <2>2. QED
    BY <2>1 DEF S!Failed
<1>12. QED
  BY <1>1, <1>3, <1>5, <1>6, <1>7, <1>8, <1>9, <1>10, <1>11 DEF SocketStep, S!Next

\* A step brings at most the next id to life, and closes what it says it closed.
LEMMA ClosedStays ==
  ASSUME SocketInv, SocketStep
  PROVE  /\ \A id \in 1 .. nextSocket - 1 : id \notin DOMAIN connections \cup DOMAIN listeners
                                => id \notin DOMAIN connections' \cup DOMAIN listeners'
         /\ answer' # S!Failed /\ answer'[1] = "closed" =>
              answer'[2] \notin DOMAIN connections' \cup DOMAIN listeners'
<1>1. SocketInv'
  BY SocketsStay
<1>2. answer' # S!Failed /\ answer'[1] = "closed" =>
        answer'[2] \notin DOMAIN connections' \cup DOMAIN listeners'
  BY <1>1 DEF SocketInv, IsClosed, S!Failed
<1>3. DOMAIN connections' \cup DOMAIN listeners'
        \subseteq DOMAIN connections \cup DOMAIN listeners \cup {nextSocket}
  <2>1. CASE UNCHANGED socketVars \/ S!Fail
    BY <2>1 DEF socketVars, S!Fail
  <2>2. ASSUME ~S!Fail, NEW p, S!Listen(p)
        PROVE  DOMAIN listeners' = DOMAIN listeners \cup {nextSocket} /\ UNCHANGED connections
    BY <2>2 DEF S!Listen, S!Add, S!IssueListener
  <2>3. ASSUME S!AddConnection
        PROVE  DOMAIN connections' = DOMAIN connections \cup {nextSocket} /\ UNCHANGED listeners
    BY <2>3 DEF S!AddConnection, S!Add, S!IssueConnection
  <2>4. ASSUME ~S!Fail, NEW id, S!Accept(id) PROVE S!AddConnection
    BY <2>4 DEF S!Accept
  <2>5. ASSUME ~S!Fail, NEW id, NEW max, S!Recv(id, max)
        PROVE  DOMAIN connections' = DOMAIN connections /\ UNCHANGED listeners
    BY <2>5 DEF S!Recv
  <2>6. ASSUME ~S!Fail, NEW id, S!Send(id) PROVE UNCHANGED <<connections, listeners>>
    BY <2>6 DEF S!Send
  <2>7. ASSUME NEW id, S!Close(id)
        PROVE  DOMAIN connections' \subseteq DOMAIN connections /\ DOMAIN listeners' \subseteq DOMAIN listeners
    BY <2>7 DEF S!Close, S!CloseEither, S!Drop
  <2>8. ASSUME NEW p, S!PeerConnects(p) PROVE UNCHANGED <<connections, listeners>>
    BY <2>8 DEF S!PeerConnects
  <2>9. ASSUME NEW id, NEW t, S!PeerWrites(id, t) \/ S!PeerCloses(id)
        PROVE  DOMAIN connections' = DOMAIN connections /\ UNCHANGED listeners
    BY <2>9 DEF S!PeerWrites, S!PeerCloses
  <2>10. CASE S!Next /\ ~S!Fail
    <3>1. S!Connect => S!AddConnection
      BY <2>10 DEF S!Connect
    <3>2. QED
      BY <2>10, <3>1, <2>2, <2>3, <2>4, <2>5, <2>6, <2>7, <2>8, <2>9 DEF S!Next
  <2>11. QED
    BY <2>1, <2>10 DEF SocketStep
<1>4. QED
  BY <1>2, <1>3 DEF SocketInv

LEMMA Unmixed == SocketInv => S!KindsNeverMix
  BY DEF SocketInv, S!KindsNeverMix

-----------------------------------------------------------------------------
TablesInv == MemoryInv /\ GpuInv /\ SocketInv

LEMMA TablesStart == Init => TablesInv
<1> SUFFICES ASSUME Init PROVE TablesInv
  OBVIOUS
<1>1. MemoryInv
  BY DEF Init, M!Init, MemoryInv
<1>2. GpuInv
  <2>1. maps = <<>> /\ gpu = <<>> /\ nextGpu = 1
    BY DEF Init, G!Init
  <2>2. Len(maps) = 0 /\ maps \in Seq(MapRec)
    BY <2>1, EmptySeq
  <2>3. QED
    BY <2>1, <2>2 DEF GpuInv
<1>3. SocketInv
  BY DEF Init, S!Init, SocketInv, S!Failed
<1>4. QED
  BY <1>1, <1>2, <1>3 DEF TablesInv

LEMMA TablesStay == TablesInv /\ [Next]_vars => TablesInv'
<1> SUFFICES ASSUME TablesInv, [Next]_vars PROVE TablesInv'
  OBVIOUS
<1>1. MemoryStep /\ GpuStep /\ SocketStep
  BY OnlyMemory, OnlyGpu, OnlySockets DEF vars, MemoryStep, GpuStep, SocketStep
<1>2. QED
  BY <1>1, MemoryStays, GpuStays, SocketsStay DEF TablesInv

LEMMA EachSteps == [Next]_vars => MemoryStep /\ GpuStep /\ SocketStep
  BY OnlyMemory, OnlyGpu, OnlySockets DEF vars, MemoryStep, GpuStep, SocketStep

\* In every run the id of a freed memory or GPU buffer, or of a closed listener
\* or connection, names nothing ever after; an id keeps the kind it was issued
\* as; and a GPU handle keeps naming its buffer while callbacks run
\* (handles.rs: HandleAllocator::issue, SocketTable, alloc_gpu_buffer).
THEOREM HandlesKeepTheirMeaning == Spec => HandlesAreNeverReused
<1>1. TablesInv /\ [Next]_vars =>
        [\A h \in 1 .. nextBuffer - 1 : h \notin DOMAIN buffers => h \notin DOMAIN buffers']_memoryVars
  BY EachSteps, FreedStays DEF TablesInv
<1>2. TablesInv /\ [Next]_vars =>
        [/\ \A id \in 1 .. nextSocket - 1 : id \notin DOMAIN connections \cup DOMAIN listeners
                                => id \notin DOMAIN connections' \cup DOMAIN listeners'
         /\ answer' # S!Failed /\ answer'[1] = "closed" =>
              answer'[2] \notin DOMAIN connections' \cup DOMAIN listeners']_socketVars
  BY EachSteps, ClosedStays DEF TablesInv
<1>3. TablesInv /\ [Next]_vars =>
        [\A i, j \in DOMAIN gpu \cap DOMAIN gpu' :
           gpu[i] # gpu'[i] /\ gpu[j] # gpu'[j] => i = j /\ nextGpu' = nextGpu]_gpuVars
  BY EachSteps, OthersStay DEF TablesInv
<1>4. TablesInv => S!KindsNeverMix
  BY Unmixed DEF TablesInv
<1>5. TablesInv /\ [Next]_vars =>
        [\A id \in 1 .. nextGpu - 1 : id \notin DOMAIN gpu => id \notin DOMAIN gpu']_gpuVars
  BY EachSteps, FreedBuffersStay DEF TablesInv
<1>6. QED
  BY <1>1, <1>2, <1>3, <1>4, <1>5, TablesStart, TablesStay, PTL
     DEF Spec, HandlesAreNeverReused, M!FreedStaysFreed, G!FreedStaysFreed, S!ClosedStaysClosed, G!OthersKeepTheirBuffers,
         M!memoryVars, memoryVars, S!socketVars, socketVars, G!gpuVars, gpuVars

\* In every run a Memory call that fails changes no byte of any buffer; a write
\* that succeeds changes the bytes of its layout only, and they read back as
\* the value if the layout can express it; a copy changes the first n bytes of
\* its destination only, to what those of its source were; a fill changes one
\* buffer only, all of it; any other call changes no byte; and a GPU map sees
\* the buffer it was called with (namespaces_memory.rs, GPU.map).
THEOREM BytesAreAsWritten == Spec => BuffersHoldWhatWasWritten
<1>1. TablesInv /\ [Next]_vars => [result' = M!Failed => buffers' = buffers]_memoryVars
  BY EachSteps, FailedIsQuiet
<1>2. TablesInv /\ [Next]_vars => [result' # M!Failed => WritesItsBytes(call')]_memoryVars
  BY EachSteps, SuccessWrites DEF TablesInv
<1>3. TablesInv /\ [Next]_vars =>
        [made' # <<>> =>
           gpu'[made'.id] = [i \in DOMAIN made'.from |-> G!Image(made'.from[i])]]_gpuVars
  BY EachSteps, MapGives DEF TablesInv
<1>4. QED
  BY <1>1, <1>2, <1>3, TablesStart, TablesStay, PTL
     DEF Spec, BuffersHoldWhatWasWritten, M!FailureWritesNothing, M!SuccessWritesItsBytes,
         G!MapSeesWhatItWasGiven, WritesItsBytes, BuffersStand, M!memoryVars, memoryVars,
         G!gpuVars, gpuVars

-----------------------------------------------------------------------------
(* Frames. *)

Tells == {W!Null} \cup {<<told, Tail(f)>> : told \in {"pong", "message"}, f \in W!Frames}

LEMMA TellsHold ==
  ASSUME NEW f \in W!Frames
  PROVE  <<"pong", Tail(f)>> \in Tells /\ <<"message", Tail(f)>> \in Tells /\ W!Null \in Tells
<1>1. PICK t : t = Tail(f)
  OBVIOUS
<1>2. \E g \in W!Frames : t = Tail(g)
  BY <1>1
<1>3. <<"pong", t>> \in Tells
  BY <1>2, SMTT(30) DEF Tells
<1>4. <<"message", t>> \in Tells
  BY <1>2, SMTT(30) DEF Tells
<1>5. W!Null \in Tells
  BY SMTT(30) DEF Tells
<1>6. QED
  BY <1>1, <1>3, <1>4, <1>5

Owing(frames) == [i \in DOMAIN frames |-> W!Owed(frames[i])]

\* One answer for each that is owed; a pong that cannot be sent is told as null.
Answered(m, p, ended) ==
  /\ Len(m) = Len(p)
  /\ \A i \in 1 .. Len(p) : m[i] = p[i] \/ (ended /\ p[i][1] = "pong" /\ m[i] = W!Null)

\* The receiver is past the first k frames and owes nothing for them, having
\* answered m; c is what the peer sent of a frame it did not end, n what was
\* answered after the end.
Accounted(k, c, n, m) ==
  /\ FlattenSeq(SubSeq(sent, 1, k)) \o wire = FlattenSeq(sent) \o c
  /\ log = m \o n /\ Answered(m, FlattenSeq(SubSeq(Owing(sent), 1, k)), ~peerOpen)
  /\ n # <<>> => k = Len(sent) /\ ~peerOpen
  /\ peerOpen => c = <<>>
  /\ Len(c) <= 1 /\ \A i \in 1 .. Len(c) : c[i].len = 1
NoneRefused == \A f \in ToSet(sent) : f[1].op # "refused"
FramesInv ==
  /\ wire \in Seq(W!Heads) /\ sent \in Seq(W!Frames)
  /\ NoneRefused =>
       \E k \in 0 .. Len(sent), c \in Seq(W!Heads), n \in Seq({W!Null}), m \in Seq(Tells) :
         Accounted(k, c, n, m)

FramesStep == W!Next \/ UNCHANGED wsVars

\* Two sequences side by side.
Side(s, t) ==
  /\ Len(s \o t) = Len(s) + Len(t)
  /\ \A i \in 1 .. Len(s) : (s \o t)[i] = s[i]
  /\ \A j \in 1 .. Len(t) : (s \o t)[Len(s) + j] = t[j]
LEMMA SideBySide ==
  ASSUME NEW U, NEW s \in Seq(U), NEW t \in Seq(U)
  PROVE  s \o t \in Seq(U) /\ Side(s, t)
<1>1. PICK a \in Nat, b \in Nat : a = Len(s) /\ b = Len(t)
  BY LenProperties
<1>2. PICK v : v = s \o t
  OBVIOUS
<1>3. /\ v \in Seq(U) /\ Len(v) = Len(s) + Len(t)
      /\ \A i \in 1 .. Len(s) + Len(t) : v[i] = IF i <= Len(s) THEN s[i] ELSE t[i - Len(s)]
  BY <1>2, ConcatProperties, Zenon
<1>4. \A i \in 1 .. a : v[i] = s[i]
  BY <1>1, <1>3
<1>5. \A j \in 1 .. b : v[a + j] = t[j]
  <2>1. SUFFICES ASSUME NEW j \in 1 .. b PROVE v[a + j] = t[j]
    OBVIOUS
  <2>2. a + j \in 1 .. a + b /\ ~(a + j <= a) /\ (a + j) - a = j
    OBVIOUS
  <2>3. QED
    BY <1>1, <1>3, <2>2
<1>6. QED
  BY <1>1, <1>2, <1>3, <1>4, <1>5 DEF Side

LEMMA AnsweredItself ==
  ASSUME NEW p \in Seq(Tells), NEW ended PROVE Answered(p, p, ended)
  BY DEF Answered
LEMMA AnsweredLater ==
  ASSUME NEW m, NEW p, NEW ended, Answered(m, p, FALSE) PROVE Answered(m, p, ended)
  BY DEF Answered
LEMMA AnsweredOn ==
  ASSUME NEW m \in Seq(Tells), NEW p \in Seq(Tells), NEW a \in Seq(Tells), NEW b \in Seq(Tells),
         NEW ended, Answered(m, p, ended), Answered(a, b, ended)
  PROVE  Answered(m \o a, p \o b, ended)
<1>1. PICK x \in Nat, y \in Nat : x = Len(p) /\ y = Len(b)
  BY LenProperties
<1>2. PICK u : u = m \o a
  OBVIOUS
<1>3. PICK v : v = p \o b
  OBVIOUS
<1>4. Len(m) = x /\ Len(a) = y
  BY <1>1 DEF Answered
<1>5. /\ Len(u) = x + y /\ \A i \in 1 .. x : u[i] = m[i]
      /\ \A j \in 1 .. y : u[x + j] = a[j]
  <2>1. Side(m, a)
    BY SideBySide
  <2>2. QED
    BY <1>2, <1>4, <2>1 DEF Side
<1>6. /\ Len(v) = x + y /\ \A i \in 1 .. x : v[i] = p[i]
      /\ \A j \in 1 .. y : v[x + j] = b[j]
  <2>1. Side(p, b)
    BY SideBySide
  <2>2. QED
    BY <1>1, <1>3, <2>1 DEF Side
<1>7. ASSUME NEW i \in 1 .. x + y
      PROVE  u[i] = v[i] \/ (ended /\ v[i][1] = "pong" /\ u[i] = W!Null)
  <2>1. CASE i <= x
    <3>1. i \in 1 .. x
      BY <2>1
    <3>2. u[i] = m[i] /\ v[i] = p[i]
      BY <1>5, <1>6, <3>1
    <3>3. QED
      BY <1>1, <3>1, <3>2 DEF Answered
  <2>2. CASE ~(i <= x)
    <3>1. PICK j \in 1 .. y : i = x + j
      <4>1. i - x \in 1 .. y /\ i = x + (i - x)
        BY <2>2
      <4>2. QED
        BY <4>1
    <3>2. u[i] = a[j] /\ v[i] = b[j]
      BY <1>5, <1>6, <3>1
    <3>3. QED
      BY <1>1, <3>2 DEF Answered
  <2>3. QED
    BY <2>1, <2>2
<1>8. QED
  BY <1>2, <1>3, <1>5, <1>6, <1>7 DEF Answered

LEMMA FrameIs ==
  ASSUME NEW f \in W!Frames
  PROVE  /\ f \in Seq(W!Heads) /\ f # <<>> /\ f[1] \in W!Heads /\ f[1].len \in {0, 1}
         /\ Len(f) = 1 + f[1].len /\ W!Owed(f) \in Seq(Tells)
<1>1. /\ f \in Seq(W!Heads) /\ f # <<>> /\ f[1] \in W!Heads /\ f[1].len \in {0, 1}
      /\ Len(f) = 1 + f[1].len
  <2>1. W!Payloads \subseteq W!Heads
    BY DEF W!Payloads, W!Heads
  <2>2. ASSUME NEW h \in W!Heads, h.len = 0, f = <<h>> PROVE <1>1!:
    BY <2>2
  <2>3. ASSUME NEW h \in W!Heads, h.len = 1, NEW p \in W!Heads, f = <<h, p>> PROVE <1>1!:
    BY <2>3
  <2>4. QED
    BY <2>1, <2>2, <2>3 DEF W!Frames
<1>2. W!Owed(f) \in Seq(Tells)
  <2>1. <<"pong", Tail(f)>> \in Tells /\ <<"message", Tail(f)>> \in Tells /\ W!Null \in Tells
    BY DEF Tells
  <2>2. W!Owed(f) \in {<<>>, <<<<"pong", Tail(f)>>>>, <<<<"message", Tail(f)>>>>, <<W!Null>>}
    BY DEF W!Owed
  <2>3. \A x \in Tells : <<x>> \in Seq(Tells)
    OBVIOUS
  <2>4. <<>> \in Seq(Tells)
    OBVIOUS
  <2>5. QED
    BY <2>1, <2>2, <2>3, <2>4, Zenon
<1>3. QED
  BY <1>1, <1>2

LEMMA HeadIs ==
  ASSUME NEW h \in W!Heads, h.op # "refused"
  PROVE  /\ h.ok \in BOOLEAN /\ (~h.ok => h.op = "text")
         /\ h.op \in {"text", "binary", "ping", "pong", "close"}
<1>1. \/ \E l : h = W!Header("text", l, TRUE)
      \/ h = W!Header("text", 1, FALSE)
      \/ \E op \in {"binary", "ping", "pong", "close"} : h = W!Header(op, 1, TRUE)
  <2>1. W!Header("refused", 1, FALSE).op = "refused"
    BY DEF W!Header
  <2>2. QED
    BY <2>1 DEF W!Heads
<1>2. ASSUME NEW l, h = W!Header("text", l, TRUE) PROVE h.op = "text" /\ h.ok = TRUE
  BY <1>2 DEF W!Header
<1>3. ASSUME h = W!Header("text", 1, FALSE) PROVE h.op = "text" /\ h.ok = FALSE
  BY <1>3 DEF W!Header
<1>4. ASSUME NEW op \in {"binary", "ping", "pong", "close"}, h = W!Header(op, 1, TRUE)
      PROVE  h.op = op /\ h.ok = TRUE
  BY <1>4 DEF W!Header
<1>5. QED
  BY <1>1, <1>2, <1>3, <1>4, Zenon

LEMMA RestOfConcat ==
  ASSUME NEW Units, NEW f \in Seq(Units), NEW r \in Seq(Units), Len(r) \in Nat \ {0}
  PROVE  SubSeq(f \o r, Len(f) + 1, Len(f) + Len(r)) = SubSeq(r, 1, Len(r))
<1>1. PICK a \in Nat : a = Len(f)
  BY LenProperties
<1>2. PICK b \in Nat \ {0} : b = Len(r)
  OBVIOUS
<1>3. a + 1 \in a + 1 .. a + b /\ a + b \in a + 1 .. a + b /\ a + 1 - a = 1 /\ a + b - a = b
  OBVIOUS
<1>4. PICK m \in a + 1 .. a + b : m = a + 1
  BY <1>3
<1>5. PICK n \in a + 1 .. a + b : n = a + b
  BY <1>3
<1>6. SubSeq(f \o r, m, n) = SubSeq(r, m - a, n - a)
  BY <1>1, <1>2, SubSeqOfConcat2
<1>7. QED
  BY <1>1, <1>2, <1>3, <1>4, <1>5, <1>6

Regroups(x, y, z) == (x \o y) \o z = x \o (y \o z)
LEMMA Regrouped ==
  ASSUME NEW Units, NEW x \in Seq(Units), NEW y \in Seq(Units), NEW z \in Seq(Units)
  PROVE  Regroups(x, y, z)
  BY ConcatAssociative DEF Regroups

Cancels(a, d, r, c, w) == a \o w = ((a \o d) \o r) \o c => w = d \o (r \o c)
LEMMA Cancelled ==
  ASSUME NEW Units, NEW a \in Seq(Units), NEW d \in Seq(Units), NEW r \in Seq(Units),
         NEW c \in Seq(Units), NEW w \in Seq(Units)
  PROVE  Cancels(a, d, r, c, w)
<1>1. PICK x \in Seq(Units) : x = r \o c
  BY ConcatProperties
<1>2. PICK y \in Seq(Units) : y = d \o x
  BY ConcatProperties
<1>3. PICK e \in Seq(Units) : e = a \o d
  BY ConcatProperties
<1>4. (e \o r) \o c = e \o (r \o c)
  <2>1. Regroups(e, r, c)
    BY Regrouped
  <2>2. QED
    BY <2>1 DEF Regroups
<1>5. (a \o d) \o x = a \o (d \o x)
  <2>1. Regroups(a, d, x)
    BY Regrouped
  <2>2. QED
    BY <2>1 DEF Regroups
<1>6. a \o w = a \o y => w = y
  BY ConcatSimplifications
<1>7. QED
  BY <1>1, <1>2, <1>3, <1>4, <1>5, <1>6, Zenon DEF Cancels

\* While not all is read, the next frame is at the head of what is left.
NextIsFirst(Units, s, k, w, c) ==
  FlattenSeq(SubSeq(s, 1, k)) \o w = FlattenSeq(s) \o c =>
    \E r \in Seq(Units) : /\ w = s[k + 1] \o r
                         /\ FlattenSeq(SubSeq(s, 1, k + 1)) \o r = FlattenSeq(s) \o c
LEMMA NextComesFirst ==
  ASSUME NEW Units, NEW s \in Seq(Seq(Units)), NEW k \in 0 .. Len(s) - 1,
         NEW w \in Seq(Units), NEW c \in Seq(Units)
  PROVE  NextIsFirst(Units, s, k, w, c)
<1>1. k \in Nat /\ k + 1 \in 1 .. Len(s) /\ k + 1 \in 0 .. Len(s)
  BY LenProperties
<1>2. /\ SubSeq(s, 1, k) \in Seq(Seq(Units)) /\ SubSeq(s, 1, k + 1) \in Seq(Seq(Units))
      /\ FlattenSeq(SubSeq(s, 1, k + 1)) = FlattenSeq(SubSeq(s, 1, k)) \o s[k + 1]
  BY FlattenNext
<1>3. PICK a \in Seq(Units) : a = FlattenSeq(SubSeq(s, 1, k))
  BY <1>2, FlattenIsSeq
<1>4. PICK e \in Seq(Units) : e = FlattenSeq(SubSeq(s, 1, k + 1))
  BY <1>2, FlattenIsSeq
<1>5. PICK d \in Seq(Units) : d = s[k + 1]
  BY <1>1, ElementOfSeq
<1>6. PICK r \in Seq(Units) : FlattenSeq(s) = e \o r
  BY <1>1, <1>4, FlattenPrefix
<1>7. e = a \o d
  BY <1>2, <1>3, <1>4, <1>5
<1>8. (e \o r) \o c = e \o (r \o c) /\ r \o c \in Seq(Units)
  <2>1. Regroups(e, r, c)
    BY Regrouped
  <2>2. r \o c \in Seq(Units)
    BY ConcatProperties
  <2>3. QED
    BY <2>1, <2>2 DEF Regroups
<1>9. Cancels(a, d, r, c, w)
  BY Cancelled
<1>10. ASSUME FlattenSeq(SubSeq(s, 1, k)) \o w = FlattenSeq(s) \o c
       PROVE  /\ w = s[k + 1] \o (r \o c)
              /\ FlattenSeq(SubSeq(s, 1, k + 1)) \o (r \o c) = FlattenSeq(s) \o c
  BY <1>3, <1>4, <1>5, <1>6, <1>7, <1>8, <1>9, <1>10, Zenon DEF Cancels
<1>11. QED
  BY <1>8, <1>10, Zenon DEF NextIsFirst

\* A turn takes a whole frame that is at the head, and does what it owes for it.
LEMMA TurnTakes ==
  ASSUME NEW f \in W!Frames, f[1].op # "refused", NEW r \in Seq(W!Heads), wire = f \o r,
         log \in Seq(Tells), W!Turn
  PROVE  /\ wire' = r /\ UNCHANGED <<sent, peerOpen>>
         /\ \E a \in Seq(Tells) : log' = log \o a /\ Answered(a, W!Owed(f), ~peerOpen)
<1> DEFINE h == f[1]
<1>1. /\ f \in Seq(W!Heads) /\ f # <<>> /\ h \in W!Heads /\ h.len \in {0, 1}
      /\ Len(f) = 1 + h.len /\ W!Owed(f) \in Seq(Tells)
  BY FrameIs
<1>2. /\ wire \in Seq(W!Heads) /\ Len(wire) = Len(f) + Len(r) /\ wire[1] = h
      /\ Len(f) \in Nat \ {0} /\ Len(r) \in Nat
  BY <1>1, ConcatProperties, LenProperties
<1>3. wire # <<>> /\ Len(wire) >= 1 + h.len
  BY <1>1, <1>2, EmptySeq
<1>4. SubSeq(wire, 2, 1 + h.len) = Tail(f)
  <2>1. Tail(f) = SubSeq(f, 2, Len(f))
    BY <1>1, TailIsSubSeq
  <2>2. CASE h.len = 0
    <3>1. SubSeq(wire, 2, 1) = <<>> /\ SubSeq(f, 2, 1) = <<>>
      BY SubSeqEmpty
    <3>2. QED
      BY <1>1, <2>1, <2>2, <3>1
  <2>3. CASE h.len = 1
    <3>1. 2 \in 1 .. Len(f) /\ Len(f) = 2
      BY <1>1, <2>3
    <3>2. SubSeq(f \o r, 2, 2) = SubSeq(f, 2, 2)
      BY <1>1, <3>1, SubSeqOfConcat1
    <3>3. QED
      BY <2>1, <2>3, <3>1, <3>2
  <2>4. QED
    BY <1>1, <2>2, <2>3
<1>5. SubSeq(wire, 1 + h.len + 1, Len(wire)) = r
  <2>1. CASE r = <<>>
    <3>1. Len(r) = 0
      BY <2>1, EmptySeq
    <3>2. Len(wire) \in Int /\ 1 + h.len + 1 \in Int /\ Len(wire) < 1 + h.len + 1
      BY <1>1, <1>2, <3>1
    <3>3. QED
      BY <2>1, <3>2, SubSeqEmpty
  <2>2. CASE r # <<>>
    <3>1. Len(r) \in Nat \ {0}
      BY <1>2, <2>2, EmptySeq
    <3>2. SubSeq(f \o r, Len(f) + 1, Len(f) + Len(r)) = SubSeq(r, 1, Len(r))
      BY <1>1, <1>2, <3>1, RestOfConcat
    <3>4. Len(f) + 1 = 1 + h.len + 1
      BY <1>1
    <3>5. SubSeq(r, 1, Len(r)) = r
      BY SubSeqFull
    <3>6. QED
      BY <1>2, <3>2, <3>4, <3>5
  <2>3. QED
    BY <2>1, <2>2
<1> HIDE DEF h
<1>6. /\ wire' = r
      /\ \/ h.op \in {"ping", "pong"} /\ log' = W!Replies(h, Tail(f))
         \/ h.op = "ping" /\ ~peerOpen /\ log' = Append(log, W!Null)
         \/ (h.op = "close" \/ ~h.ok) /\ log' = Append(log, W!Null)
         \/ h.op \in {"text", "binary"} /\ h.ok /\ log' = Append(log, <<"message", Tail(f)>>)
      /\ UNCHANGED <<sent, peerOpen>>
  <2>1. ~(Len(wire) < 1 + h.len)
    BY <1>1, <1>2, <1>3
  <2>2. h.op # "refused"
    BY DEF h
  <2>3. QED
    BY <1>2, <1>3, <1>4, <1>5, <2>1, <2>2 DEF W!Turn, W!Returns, W!Consumed
<1>7. \/ log' = log \o W!Owed(f)
      \/ ~peerOpen /\ W!Owed(f) = <<<<"pong", Tail(f)>>>> /\ log' = log \o <<W!Null>>
  <2>2. h.ok \in BOOLEAN /\ (~h.ok => h.op = "text") /\ h.op \in {"text", "binary", "ping", "pong", "close"}
    <3>1. h.op # "refused"
      BY DEF h
    <3>2. QED
      BY <1>1, <3>1, HeadIs
  <2>3. W!Owed(f) = CASE h.op = "ping" -> <<<<"pong", Tail(f)>>>>
                      [] h.op = "pong" -> <<>>
                      [] h.op \in {"text", "binary"} /\ h.ok -> <<<<"message", Tail(f)>>>>
                      [] OTHER -> <<W!Null>>
    BY DEF W!Owed, h
  <2>4. /\ \A x \in Tells : Append(log, x) = log \o <<x>>
        /\ log \o <<>> = log
    <3>1. \A x \in Tells : Append(log, x) = log \o <<x>>
      BY AppendIsConcat, Zenon
    <3>2. log \o <<>> = log
      BY ConcatEmptySeq, Zenon
    <3>3. QED
      BY <3>1, <3>2
  <2>5. <<"pong", Tail(f)>> \in Tells /\ <<"message", Tail(f)>> \in Tells /\ W!Null \in Tells
    BY TellsHold
  <2>6. CASE h.op = "ping"
    <3>1. /\ W!Owed(f) = <<<<"pong", Tail(f)>>>>
          /\ \/ log' = Append(log, <<"pong", Tail(f)>>)
             \/ ~peerOpen /\ log' = Append(log, W!Null)
      BY <1>6, <2>2, <2>3, <2>6 DEF W!Replies
    <3>2. QED
      BY <2>4, <2>5, <3>1
  <2>7. CASE h.op = "pong"
    <3>1. W!Owed(f) = <<>> /\ log' = log
      BY <1>6, <2>2, <2>3, <2>7 DEF W!Replies
    <3>2. QED
      BY <2>4, <3>1
  <2>8. CASE h.op \in {"text", "binary"} /\ h.ok
    <3>1. W!Owed(f) = <<<<"message", Tail(f)>>>> /\ log' = Append(log, <<"message", Tail(f)>>)
      BY <1>6, <2>2, <2>3, <2>8
    <3>2. QED
      BY <2>4, <2>5, <3>1
  <2>9. CASE h.op = "close" \/ ~h.ok
    <3>1. W!Owed(f) = <<W!Null>> /\ log' = Append(log, W!Null)
      BY <1>6, <2>2, <2>3, <2>9
    <3>2. QED
      BY <2>4, <2>5, <3>1
  <2>10. QED
    BY <2>2, <2>6, <2>7, <2>8, <2>9
<1>8. CASE log' = log \o W!Owed(f)
  BY <1>1, <1>6, <1>8, AnsweredItself
<1>9. CASE ~peerOpen /\ W!Owed(f) = <<<<"pong", Tail(f)>>>> /\ log' = log \o <<W!Null>>
  <2>1. PICK e \in Tells : e = W!Null
    BY TellsHold, Zenon
  <2>2. <<e>> \in Seq(Tells)
    OBVIOUS
  <2>3. Answered(<<e>>, <<<<"pong", Tail(f)>>>>, ~peerOpen)
    BY <1>9, <2>1 DEF Answered
  <2>4. QED
    BY <1>6, <1>9, <2>1, <2>2, <2>3
<1>10. QED
  BY <1>7, <1>8, <1>9
LEMMA FramesStart == Init => FramesInv
<1> SUFFICES ASSUME Init PROVE FramesInv
  OBVIOUS
<1>1. wire = <<>> /\ sent = <<>> /\ log = <<>> /\ peerOpen = TRUE
  BY DEF Init, W!Init
<1>2. Len(sent) = 0 /\ 0 \in 0 .. Len(sent) /\ wire \in Seq(W!Heads) /\ sent \in Seq(W!Frames)
  BY <1>1
<1>3. SubSeq(sent, 1, 0) = <<>> /\ SubSeq(Owing(sent), 1, 0) = <<>>
  BY SubSeqEmpty
<1>4. <<>> \o <<>> = <<>>
  OBVIOUS
<1>5. <<>> \in Seq(W!Heads) /\ <<>> \in Seq({W!Null}) /\ Len(<<>>) = 0
      /\ Len(<<>>) <= 1 /\ \A i \in 1 .. Len(<<>>) : <<>>[i].len = 1
  OBVIOUS
<1>6. <<>> \in Seq(Tells) /\ Answered(<<>>, <<>>, ~peerOpen)
  <2>1. <<>> \in Seq(Tells)
    OBVIOUS
  <2>2. QED
    BY <2>1, AnsweredItself, Zenon
<1>7. Accounted(0, <<>>, <<>>, <<>>)
  BY <1>1, <1>3, <1>4, <1>5, <1>6, FlattenNil, Zenon DEF Accounted
<1>8. QED
  BY <1>2, <1>5, <1>6, <1>7, Zenon DEF FramesInv

\* What is owed for the frames, one by one.
LEMMA OwingIs ==
  ASSUME NEW frames \in Seq(W!Frames)
  PROVE  /\ Owing(frames) \in Seq(Seq(Tells)) /\ Len(Owing(frames)) = Len(frames)
         /\ frames \in Seq(Seq(W!Heads))
         /\ \A i \in 1 .. Len(frames) :
              /\ Owing(frames)[i] = W!Owed(frames[i]) /\ Owing(frames)[i] \in Seq(Tells)
              /\ frames[i] \in W!Frames /\ frames[i] \in Seq(W!Heads)
<1>1. DOMAIN frames = 1 .. Len(frames) /\ Len(frames) \in Nat
  BY LenProperties
<1>2. \A i \in 1 .. Len(frames) :
        /\ frames[i] \in W!Frames /\ frames[i] \in Seq(W!Heads)
        /\ Owing(frames)[i] = W!Owed(frames[i]) /\ Owing(frames)[i] \in Seq(Tells)
  <2> SUFFICES ASSUME NEW i \in 1 .. Len(frames)
               PROVE  /\ frames[i] \in W!Frames /\ frames[i] \in Seq(W!Heads)
                      /\ Owing(frames)[i] = W!Owed(frames[i]) /\ Owing(frames)[i] \in Seq(Tells)
    OBVIOUS
  <2>1. frames[i] \in W!Frames
    BY ElementOfSeq
  <2>2. Owing(frames)[i] = W!Owed(frames[i])
    BY <1>1 DEF Owing
  <2>3. QED
    BY <2>1, <2>2, FrameIs
<1>3. Owing(frames) \in [1 .. Len(frames) -> Seq(Tells)]
  BY <1>1, <1>2 DEF Owing
<1>4. Owing(frames) \in Seq(Seq(Tells)) /\ Len(Owing(frames)) = Len(frames)
  <2>1. PICK n \in Nat : n = Len(frames)
    BY <1>1
  <2>2. PICK o \in [1 .. n -> Seq(Tells)] : o = Owing(frames)
    BY <1>3, <2>1
  <2>3. o \in Seq(Seq(Tells)) /\ Len(o) = n
    BY SeqDef, LenProperties
  <2>4. QED
    BY <2>1, <2>2, <2>3
<1>5. frames \in [1 .. Len(frames) -> Seq(W!Heads)]
  BY <1>1, <1>2, SeqDef
<1>6. frames \in Seq(Seq(W!Heads))
  BY <1>1, <1>5, SeqDef
<1>7. QED
  BY <1>2, <1>4, <1>6

LEMMA PrefixOfAppend ==
  ASSUME NEW Elts, NEW s \in Seq(Elts), NEW e \in Elts, NEW k \in 0 .. Len(s)
  PROVE  SubSeq(Append(s, e), 1, k) = SubSeq(s, 1, k)
<1>1. CASE k = 0
  BY <1>1, SubSeqEmpty
<1>2. CASE k # 0
  <2>1. Append(s, e) = s \o <<e>> /\ <<e>> \in Seq(Elts)
    BY AppendIsConcat
  <2>2. k \in 1 .. Len(s) /\ 1 \in 1 .. Len(s)
    BY <1>2, LenProperties
  <2>3. SubSeq(s \o <<e>>, 1, k) = SubSeq(s, 1, k)
    BY <2>1, <2>2, SubSeqOfConcat1
  <2>4. QED
    BY <2>1, <2>3
<1>3. QED
  BY <1>1, <1>2

\* The two sides of Accounted are sequences.
LEMMA Sides ==
  ASSUME sent \in Seq(W!Frames), NEW k \in 0 .. Len(sent)
  PROVE  /\ FlattenSeq(SubSeq(sent, 1, k)) \in Seq(W!Heads) /\ FlattenSeq(sent) \in Seq(W!Heads)
         /\ FlattenSeq(SubSeq(Owing(sent), 1, k)) \in Seq(Tells)
         /\ FlattenSeq(Owing(sent)) \in Seq(Tells)
<1>1. /\ Owing(sent) \in Seq(Seq(Tells)) /\ Len(Owing(sent)) = Len(sent)
      /\ sent \in Seq(Seq(W!Heads)) /\ Len(sent) \in Nat
      /\ \A i \in 1 .. Len(sent) : Owing(sent)[i] \in Seq(Tells) /\ sent[i] \in Seq(W!Heads)
  BY OwingIs, LenProperties
<1>2. \A i \in 1 .. k : i \in 1 .. Len(sent)
  BY <1>1
<1>3. SubSeq(sent, 1, k) \in Seq(Seq(W!Heads)) /\ SubSeq(Owing(sent), 1, k) \in Seq(Seq(Tells))
  BY <1>1, <1>2, SubSeqProperties
<1>4. QED
  BY <1>1, <1>3, FlattenIsSeq

JoinsOn(a, w, b, x) == a \o w = b \o <<>> => a \o (w \o x) = b \o x
LEMMA Joins ==
  ASSUME NEW Units, NEW a \in Seq(Units), NEW w \in Seq(Units), NEW b \in Seq(Units),
         NEW x \in Seq(Units)
  PROVE  JoinsOn(a, w, b, x)
<1>1. Regroups(a, w, x)
  BY Regrouped
<1>2. b \o <<>> = b
  BY ConcatEmptySeq
<1>3. QED
  BY <1>1, <1>2, Zenon DEF Regroups, JoinsOn

LEMMA SendsStay ==
  ASSUME FramesInv, NEW f \in W!Frames, W!PeerSends(f)
  PROVE  FramesInv'
<1>1. /\ wire \in Seq(W!Heads) /\ sent \in Seq(W!Frames) /\ peerOpen /\ UNCHANGED <<peerOpen, log>>
      /\ sent' = Append(sent, f) /\ wire' = wire \o f /\ f \in Seq(W!Heads)
      /\ W!Owed(f) \in Seq(Tells)
  BY FrameIs DEF FramesInv, W!PeerSends
<1>2. wire' \in Seq(W!Heads) /\ sent' \in Seq(W!Frames)
  BY <1>1, ConcatProperties, AppendProperties
<1>3. /\ Len(sent') = Len(sent) + 1 /\ Len(sent) \in Nat /\ sent'[Len(sent) + 1] = f
      /\ \A i \in 1 .. Len(sent) : sent'[i] = sent[i]
  BY <1>1, AppendProperties, LenProperties
<1>4. /\ Owing(sent) \in Seq(Seq(Tells)) /\ Len(Owing(sent)) = Len(sent)
      /\ sent \in Seq(Seq(W!Heads))
      /\ \A i \in 1 .. Len(sent) : Owing(sent)[i] = W!Owed(sent[i])
  BY <1>1, OwingIs
<1>5. /\ Owing(sent') \in Seq(Seq(Tells)) /\ Len(Owing(sent')) = Len(sent')
      /\ \A i \in 1 .. Len(sent') : Owing(sent')[i] = W!Owed(sent'[i])
  BY <1>2, OwingIs
<1>6. Owing(sent') = Append(Owing(sent), W!Owed(f))
  <2>1. PICK o \in Seq(Seq(Tells)) : o = Append(Owing(sent), W!Owed(f))
    BY <1>1, <1>4, AppendProperties
  <2>2. /\ Len(o) = Len(sent) + 1 /\ o[Len(sent) + 1] = W!Owed(f)
        /\ \A i \in 1 .. Len(sent) : o[i] = Owing(sent)[i]
    BY <1>1, <1>4, <2>1, AppendProperties
  <2>3. PICK q \in Seq(Seq(Tells)) : q = Owing(sent')
    BY <1>5
  <2>4. Len(q) = Len(o) /\ \A i \in 1 .. Len(q) : q[i] = o[i]
    <3> SUFFICES ASSUME NEW i \in 1 .. Len(sent) + 1 PROVE q[i] = o[i]
      BY <1>3, <1>5, <2>2, <2>3
    <3>1. CASE i = Len(sent) + 1
      BY <1>3, <1>5, <2>2, <2>3, <3>1
    <3>2. CASE i # Len(sent) + 1
      <4>1. i \in 1 .. Len(sent)
        BY <1>3, <3>2
      <4>2. QED
        BY <1>3, <1>4, <1>5, <2>2, <2>3, <4>1
    <3>3. QED
      BY <3>1, <3>2
  <2>5. q = o
    BY <2>4, SeqEqual
  <2>6. QED
    BY <2>1, <2>3, <2>5
<1>7. FlattenSeq(sent') = FlattenSeq(sent) \o f
  BY <1>1, <1>4, FlattenAppend
<1>8. ASSUME NoneRefused' PROVE NoneRefused
  <2>1. ASSUME NEW i \in DOMAIN sent PROVE sent[i][1].op # "refused"
    <3>1. i \in 1 .. Len(sent) /\ i \in DOMAIN sent' /\ sent'[i] = sent[i]
      BY <1>1, <1>2, <1>3, LenProperties
    <3>2. QED
      BY <1>8, <3>1 DEF NoneRefused, ToSet
  <2>2. QED
    BY <2>1 DEF NoneRefused, ToSet
<1>9. ASSUME NEW k \in 0 .. Len(sent), NEW c \in Seq(W!Heads), NEW n \in Seq({W!Null}),
             NEW m \in Seq(Tells), Accounted(k, c, n, m)
      PROVE  k \in 0 .. Len(sent') /\ Accounted(k, c, n, m)'
  <2>1. c = <<>> /\ n = <<>>
    BY <1>1, <1>9 DEF Accounted
  <2>2. SubSeq(sent', 1, k) = SubSeq(sent, 1, k)
    BY <1>1, PrefixOfAppend
  <2>3. SubSeq(Owing(sent'), 1, k) = SubSeq(Owing(sent), 1, k)
    <3>1. k \in 0 .. Len(Owing(sent))
      BY <1>4
    <3>2. QED
      BY <1>1, <1>4, <1>6, <3>1, PrefixOfAppend
  <2>4. FlattenSeq(SubSeq(sent', 1, k)) \o wire' = FlattenSeq(sent') \o c
    <3>1. PICK a \in Seq(W!Heads) : a = FlattenSeq(SubSeq(sent, 1, k))
      BY <1>1, Sides
    <3>2. PICK b \in Seq(W!Heads) : b = FlattenSeq(sent)
      BY <1>1, Sides
    <3>3. a \o wire = b \o <<>>
      BY <1>9, <2>1, <3>1, <3>2 DEF Accounted
    <3>4. JoinsOn(a, wire, b, f)
      BY <1>1, Joins
    <3>5. (b \o f) \o <<>> = b \o f
      <4>1. b \o f \in Seq(W!Heads)
        BY <1>1, ConcatProperties
      <4>2. QED
        BY <4>1, ConcatEmptySeq
    <3>6. QED
      BY <1>1, <1>7, <2>1, <2>2, <3>1, <3>2, <3>3, <3>4, <3>5, Zenon DEF JoinsOn
  <2>5. /\ log' = m \o n /\ ~(n # <<>>)
        /\ Answered(m, FlattenSeq(SubSeq(Owing(sent'), 1, k)), ~peerOpen')
    BY <1>1, <1>9, <2>1, <2>3, Zenon DEF Accounted
  <2>6. Accounted(k, c, n, m)'
    BY <1>9, <2>1, <2>4, <2>5, Zenon DEF Accounted
  <2>7. QED
    BY <1>3, <2>6
<1>10. QED
  BY <1>2, <1>8, <1>9 DEF FramesInv

LEMMA NoUnits ==
  /\ <<>> \in Seq(W!Heads) /\ <<>> \in Seq({W!Null})
  /\ Len(<<>>) <= 1 /\ \A i \in 1 .. Len(<<>>) : <<>>[i].len = 1
  OBVIOUS

LEMMA ClosesStay ==
  ASSUME FramesInv, NEW f \in W!Frames, W!PeerCloses(f)
  PROVE  FramesInv'
<1> DEFINE x == SubSeq(f, 1, Len(f) - 1)
<1>1. /\ wire \in Seq(W!Heads) /\ sent \in Seq(W!Frames) /\ peerOpen /\ UNCHANGED <<sent, log>>
      /\ peerOpen' = FALSE /\ wire' = wire \o x
  BY DEF FramesInv, W!PeerCloses
<1>2. x \in Seq(W!Heads) /\ Len(x) <= 1 /\ \A i \in 1 .. Len(x) : x[i].len = 1
  <2>1. f \in Seq(W!Heads) /\ f[1] \in W!Heads /\ f[1].len \in {0, 1} /\ Len(f) = 1 + f[1].len
    BY FrameIs
  <2>2. CASE f[1].len = 0
    <3>1. x = <<>>
      BY <2>1, <2>2, SubSeqEmpty
    <3>2. QED
      BY <3>1, NoUnits, Zenon
  <2>3. CASE f[1].len = 1
    <3>1. x = SubSeq(f, 1, 1) /\ \A i \in 1 .. 1 : f[i] \in W!Heads
      BY <2>1, <2>3
    <3>2. x \in Seq(W!Heads) /\ Len(x) = 1 /\ x[1] = f[1]
      BY <3>1
    <3>3. 1 <= 1 /\ \A i \in 1 .. 1 : x[i].len = 1
      BY <2>3, <3>2
    <3>4. QED
      BY <3>2, <3>3, Zenon
  <2>4. QED
    BY <2>1, <2>2, <2>3
<1> HIDE DEF x
<1>3. wire' \in Seq(W!Heads)
  BY <1>1, <1>2, ConcatProperties
<1>4. ASSUME NEW k \in 0 .. Len(sent), NEW c \in Seq(W!Heads), NEW n \in Seq({W!Null}),
             NEW m \in Seq(Tells), Accounted(k, c, n, m)
      PROVE  Accounted(k, x, n, m)'
  <2>1. c = <<>> /\ n = <<>>
    BY <1>1, <1>4 DEF Accounted
  <2>2. FlattenSeq(SubSeq(sent, 1, k)) \o wire' = FlattenSeq(sent) \o x
    <3>1. PICK a \in Seq(W!Heads) : a = FlattenSeq(SubSeq(sent, 1, k))
      BY <1>1, Sides
    <3>2. PICK b \in Seq(W!Heads) : b = FlattenSeq(sent)
      BY <1>1, Sides
    <3>3. a \o wire = b \o <<>>
      BY <1>4, <2>1, <3>1, <3>2 DEF Accounted
    <3>4. JoinsOn(a, wire, b, x)
      BY <1>1, <1>2, Joins
    <3>5. QED
      BY <1>1, <3>1, <3>2, <3>3, <3>4, Zenon DEF JoinsOn
  <2>3. Answered(m, FlattenSeq(SubSeq(Owing(sent'), 1, k)), ~peerOpen')
    <3>1. PICK p : p = FlattenSeq(SubSeq(Owing(sent), 1, k))
      OBVIOUS
    <3>2. Answered(m, p, FALSE)
      BY <1>1, <1>4, <3>1 DEF Accounted
    <3>3. Answered(m, p, ~peerOpen')
      BY <3>2, AnsweredLater
    <3>4. QED
      BY <1>1, <3>1, <3>3
  <2>4. log' = m \o n
    BY <1>1, <1>4 DEF Accounted
  <2>5. QED
    BY <1>1, <1>2, <2>1, <2>2, <2>3, <2>4 DEF Accounted
<1>5. NoneRefused' => NoneRefused
  BY <1>1 DEF NoneRefused
<1>6. QED
  BY <1>1, <1>2, <1>3, <1>4, <1>5 DEF FramesInv

LEMMA TurnStays ==
  ASSUME FramesInv, W!Turn
  PROVE  FramesInv'
<1>1. wire \in Seq(W!Heads) /\ sent \in Seq(W!Frames) /\ UNCHANGED <<sent, peerOpen>>
  BY DEF FramesInv, W!Turn
<1>2. wire' \in Seq(W!Heads)
  <2>1. \A h : \A i \in W!Consumed(h) + 1 .. Len(wire) : i \in 1 .. Len(wire) => wire[i] \in W!Heads
    BY <1>1
  <2>2. CASE wire # <<>> /\ wire' = Tail(wire)
    BY <1>1, <2>2, HeadTailProperties
  <2>3. CASE wire' = wire \/ wire' = <<>>
    BY <1>1, <2>3, NoUnits, Zenon
  <2>4. CASE wire # <<>> /\ Len(wire) >= 1 + wire[1].len
             /\ wire' = SubSeq(wire, W!Consumed(wire[1]) + 1, Len(wire))
    <3>1. wire[1] \in W!Heads
      BY <1>1, <2>4, EmptySeq, LenProperties
    <3>2. wire[1].len \in {0, 1}
      BY <3>1 DEF W!Heads, W!Header
    <3>3. PICK m \in Nat : m = W!Consumed(wire[1]) + 1 /\ m >= 1
      BY <3>2 DEF W!Consumed
    <3>4. \A i \in m .. Len(wire) : wire[i] \in W!Heads
      BY <1>1, <3>3, LenProperties
    <3>5. Len(wire) \in Int
      BY <1>1, LenProperties
    <3>6. SubSeq(wire, m, Len(wire)) \in Seq(W!Heads)
      BY <3>4, <3>5, SubSeqProperties
    <3>7. QED
      BY <2>4, <3>3, <3>6
  <2>5. QED
    BY <2>2, <2>3, <2>4, Zenon DEF W!Turn
<1>3. ASSUME NoneRefused, NEW k \in 0 .. Len(sent), NEW c \in Seq(W!Heads),
             NEW n \in Seq({W!Null}), NEW m \in Seq(Tells), Accounted(k, c, n, m), k < Len(sent)
      PROVE  k + 1 \in 0 .. Len(sent) /\ \E x \in Seq(Tells) : Accounted(k + 1, c, <<>>, x)'
  <2>1. /\ k \in 0 .. Len(sent) - 1 /\ k + 1 \in 1 .. Len(sent) /\ k + 1 \in 0 .. Len(sent)
        /\ n = <<>>
    BY <1>1, <1>3, LenProperties DEF Accounted
  <2>2. /\ Owing(sent) \in Seq(Seq(Tells)) /\ Len(Owing(sent)) = Len(sent)
        /\ sent \in Seq(Seq(W!Heads))
        /\ Owing(sent)[k + 1] = W!Owed(sent[k + 1]) /\ sent[k + 1] \in W!Frames
    BY <1>1, <2>1, OwingIs
  <2>3. sent[k + 1][1].op # "refused"
    <3>1. k + 1 \in DOMAIN sent
      BY <1>1, <2>1, LenProperties
    <3>2. QED
      BY <1>3, <3>1 DEF NoneRefused, ToSet
  <2>4. FlattenSeq(SubSeq(sent, 1, k)) \o wire = FlattenSeq(sent) \o c
    BY <1>3 DEF Accounted
  <2>5. PICK r \in Seq(W!Heads) : /\ wire = sent[k + 1] \o r
                                  /\ FlattenSeq(SubSeq(sent, 1, k + 1)) \o r = FlattenSeq(sent) \o c
    <3>1. NextIsFirst(W!Heads, sent, k, wire, c)
      BY <1>1, <2>1, <2>2, NextComesFirst
    <3>2. QED
      BY <2>4, <3>1, Zenon DEF NextIsFirst
  <2>6. PICK p \in Seq(Tells) : p = FlattenSeq(SubSeq(Owing(sent), 1, k))
    BY <1>1, Sides
  <2>7. log = m /\ Answered(m, p, ~peerOpen)
    <3>1. log = m \o n /\ m \o <<>> = m /\ Answered(m, p, ~peerOpen)
      BY <1>3, <2>6, ConcatEmptySeq DEF Accounted
    <3>2. QED
      BY <2>1, <3>1
  <2>8. PICK a \in Seq(Tells) :
          /\ wire' = r /\ log' = log \o a /\ Answered(a, W!Owed(sent[k + 1]), ~peerOpen)
    BY <2>2, <2>3, <2>5, <2>7, TurnTakes
  <2>9. FlattenSeq(SubSeq(Owing(sent), 1, k + 1)) = p \o W!Owed(sent[k + 1])
    <3>1. k \in 0 .. Len(Owing(sent)) - 1
      BY <2>1, <2>2
    <3>2. QED
      BY <2>2, <2>6, <3>1, FlattenNext
  <2>10. PICK x \in Seq(Tells) : x = m \o a
    BY ConcatProperties
  <2>11. log' = x \o <<>>
    BY <2>7, <2>8, <2>10, ConcatEmptySeq
  <2>12. Answered(x, FlattenSeq(SubSeq(Owing(sent'), 1, k + 1)), ~peerOpen')
    <3>1. PICK o \in Seq(Tells) : o = W!Owed(sent[k + 1])
      BY <2>2, FrameIs
    <3>2. Answered(x, p \o o, ~peerOpen)
      BY <2>7, <2>8, <2>10, <3>1, AnsweredOn
    <3>3. QED
      BY <1>1, <2>9, <3>1, <3>2
  <2>13. FlattenSeq(SubSeq(sent', 1, k + 1)) \o wire' = FlattenSeq(sent') \o c
    BY <1>1, <2>5, <2>8, Zenon
  <2>14. (peerOpen' => c = <<>>) /\ Len(c) <= 1 /\ \A i \in 1 .. Len(c) : c[i].len = 1
    BY <1>1, <1>3, Zenon DEF Accounted
  <2>15. Accounted(k + 1, c, <<>>, x)'
    BY <2>11, <2>12, <2>13, <2>14, Zenon DEF Accounted
  <2>16. QED
    BY <2>1, <2>15
<1>4. ASSUME NEW k \in 0 .. Len(sent), NEW c \in Seq(W!Heads),
             NEW n \in Seq({W!Null}), NEW m \in Seq(Tells), Accounted(k, c, n, m), k = Len(sent)
      PROVE  Append(n, W!Null) \in Seq({W!Null}) /\ Accounted(k, <<>>, Append(n, W!Null), m)'
  <2>1. SubSeq(sent, 1, k) = sent
    BY <1>1, <1>4, SubSeqFull
  <2>2. PICK b \in Seq(W!Heads) : b = FlattenSeq(sent)
    BY <1>1, Sides
  <2>3. wire = c
    <3>1. b \o wire = b \o c
      BY <1>4, <2>1, <2>2 DEF Accounted
    <3>2. b \o wire = b \o c => wire = c
      BY <1>1, ConcatSimplifications
    <3>3. QED
      BY <3>1, <3>2
  <2>4. Len(wire) <= 1 /\ (wire # <<>> => Len(wire) = 1 /\ wire[1].len = 1) /\ (peerOpen => wire = <<>>)
    <3>1. wire # <<>> => Len(wire) \in Nat \ {0}
      BY <1>1, EmptySeq, LenProperties
    <3>2. /\ Len(wire) <= 1 /\ \A i \in 1 .. Len(wire) : wire[i].len = 1
          /\ peerOpen => wire = <<>>
      BY <1>4, <2>3 DEF Accounted
    <3>3. wire # <<>> => Len(wire) = 1
      <4>1. PICK l : l = Len(wire)
        OBVIOUS
      <4>2. l \in Nat \ {0} /\ l <= 1 => l = 1
        OBVIOUS
      <4>3. QED
        BY <3>1, <3>2, <4>1, <4>2, Zenon
    <3>4. 1 \in 1 .. 1
      OBVIOUS
    <3>5. QED
      BY <3>2, <3>3, <3>4, Zenon
  <2>5. ~peerOpen /\ wire' = <<>> /\ log' = Append(log, W!Null)
    <3>1. CASE wire = <<>>
      BY <3>1 DEF W!Turn, W!Returns
    <3>2. CASE wire # <<>>
      <4>1. Len(wire) = 1 /\ wire[1].len = 1 /\ ~peerOpen /\ ~(Len(wire) >= 1 + wire[1].len)
        BY <2>4, <3>2
      <4>2. Tail(wire) = <<>>
        <5>1. Tail(wire) \in Seq(W!Heads) /\ Len(Tail(wire)) = Len(wire) - 1
          BY <1>1, <3>2, HeadTailProperties
        <5>2. Len(Tail(wire)) = 0
          BY <4>1, <5>1
        <5>3. QED
          BY <5>1, <5>2, EmptySeq
      <4>3. QED
        BY <3>2, <4>1, <4>2 DEF W!Turn, W!Returns
    <3>3. QED
      BY <3>1, <3>2
  <2>6. Append(n, W!Null) \in Seq({W!Null}) /\ Append(n, W!Null) = n \o <<W!Null>>
    BY AppendProperties, AppendIsConcat
  <2>7. log' = m \o Append(n, W!Null)
    <3>2. n \in Seq(Tells) /\ <<W!Null>> \in Seq(Tells) /\ W!Null \in Tells
      BY DEF Tells
    <3>3. log = m \o n /\ log \in Seq(Tells)
      BY <1>4, <3>2, ConcatProperties DEF Accounted
    <3>4. log' = log \o <<W!Null>>
      BY <2>5, <3>2, <3>3, AppendIsConcat
    <3>5. Regroups(m, n, <<W!Null>>)
      BY <3>2, Regrouped
    <3>6. QED
      BY <2>6, <3>3, <3>4, <3>5, Zenon DEF Regroups
  <2>8. FlattenSeq(SubSeq(sent', 1, k)) \o wire' = FlattenSeq(sent') \o <<>>
    BY <1>1, <2>1, <2>5, Zenon
  <2>9. Len(<<>>) <= 1 /\ \A i \in 1 .. Len(<<>>) : <<>>[i].len = 1
    OBVIOUS
  <2>10. /\ k = Len(sent') /\ ~peerOpen' /\ log' = m \o Append(n, W!Null)
         /\ Answered(m, FlattenSeq(SubSeq(Owing(sent'), 1, k)), ~peerOpen')
    BY <1>1, <1>4, <2>5, <2>7, Zenon DEF Accounted
  <2>11. Accounted(k, <<>>, Append(n, W!Null), m)'
    BY <2>8, <2>9, <2>10, Zenon DEF Accounted
  <2>12. QED
    BY <2>6, <2>11
<1>5. NoneRefused' => NoneRefused
  BY <1>1 DEF NoneRefused
<1>6. ASSUME NoneRefused
      PROVE  (\E k \in 0 .. Len(sent), c \in Seq(W!Heads), n \in Seq({W!Null}), m \in Seq(Tells) :
                 Accounted(k, c, n, m))'
  <2>1. PICK k \in 0 .. Len(sent), c \in Seq(W!Heads), n \in Seq({W!Null}), m \in Seq(Tells) :
          Accounted(k, c, n, m)
    BY <1>6 DEF FramesInv
  <2>2. Len(sent') = Len(sent) /\ <<>> \in Seq(W!Heads) /\ <<>> \in Seq({W!Null})
    BY <1>1
  <2>3. CASE k < Len(sent)
    <3>1. k + 1 \in 0 .. Len(sent) /\ \E x \in Seq(Tells) : Accounted(k + 1, c, <<>>, x)'
      BY <1>3, <1>6, <2>1, <2>3
    <3>2. QED
      BY <2>2, <3>1
  <2>4. CASE k = Len(sent)
    <3>1. Append(n, W!Null) \in Seq({W!Null}) /\ Accounted(k, <<>>, Append(n, W!Null), m)'
      BY <1>4, <2>1, <2>4
    <3>2. QED
      BY <2>2, <3>1
  <2>5. k < Len(sent) \/ k = Len(sent)
    BY <1>1, LenProperties
  <2>6. QED
    BY <2>3, <2>4, <2>5
<1>7. QED
  BY <1>1, <1>2, <1>5, <1>6 DEF FramesInv

LEMMA FramesStay ==
  ASSUME FramesInv, FramesStep
  PROVE  FramesInv'
<1>1. CASE \E f \in W!Frames : W!PeerSends(f) \/ W!PeerCloses(f)
  BY <1>1, SendsStay, ClosesStay
<1>2. CASE W!Turn
  BY <1>2, TurnStays
<1>3. CASE W!Call \/ UNCHANGED wsVars
  <2>1. UNCHANGED <<wire, sent, peerOpen, log>>
    BY <1>3 DEF W!Call, wsVars
  <2>2. Owing(sent') = Owing(sent)
    BY <2>1
  <2>3. \A k, c, n, m : Accounted(k, c, n, m) => Accounted(k, c, n, m)'
    BY <2>1, <2>2, Zenon DEF Accounted
  <2>4. NoneRefused' => NoneRefused
    BY <2>1 DEF NoneRefused
  <2>5. QED
    BY <2>1, <2>3, <2>4, Zenon DEF FramesInv
<1>4. QED
  BY <1>1, <1>2, <1>3 DEF FramesStep, W!Next

LEMMA FramesFollow == FramesInv => W!FramesComeInOrder
<1> SUFFICES ASSUME FramesInv PROVE W!FramesComeInOrder
  OBVIOUS
<1> DEFINE owed == FlattenSeq(Owing(sent))
<1>1. ASSUME NoneRefused
      PROVE  \A i \in DOMAIN log :
               \/ i <= Len(owed) /\ log[i] = owed[i]
               \/ (i <= Len(owed) => owed[i][1] = "pong") /\ log[i] = W!Null /\ ~peerOpen
  <2>1. PICK k \in 0 .. Len(sent), c \in Seq(W!Heads), n \in Seq({W!Null}), m \in Seq(Tells) :
          Accounted(k, c, n, m)
    BY <1>1 DEF FramesInv
  <2>2. sent \in Seq(W!Frames)
    BY DEF FramesInv
  <2>3. PICK o \in Seq(Tells) : o = owed
    BY <2>2, Sides
  <2>4. PICK p \in Seq(Tells) : p = FlattenSeq(SubSeq(Owing(sent), 1, k))
    BY <2>2, Sides
  <2>5. PICK q \in Seq(Tells) : o = p \o q
    <3>1. Owing(sent) \in Seq(Seq(Tells)) /\ Len(Owing(sent)) = Len(sent)
      BY <2>2, OwingIs
    <3>2. k \in 0 .. Len(Owing(sent))
      BY <3>1
    <3>3. QED
      BY <2>3, <2>4, <3>1, <3>2, FlattenPrefix
  <2>6. log = m \o n /\ Answered(m, p, ~peerOpen) /\ (n # <<>> => k = Len(sent) /\ ~peerOpen)
    BY <2>1, <2>4 DEF Accounted
  <2>7. k = Len(sent) => p = o
    <3>1. Owing(sent) \in Seq(Seq(Tells)) /\ Len(Owing(sent)) = Len(sent)
      BY <2>2, OwingIs
    <3>2. SubSeq(Owing(sent), 1, Len(sent)) = Owing(sent)
      BY <3>1, SubSeqFull
    <3>3. QED
      BY <2>3, <2>4, <3>2
  <2>8. n \in Seq(Tells)
    BY DEF Tells
  <2>9. /\ Len(log) = Len(p) + Len(n) /\ log \in Seq(Tells) /\ Len(p) \in Nat /\ Len(n) \in Nat
        /\ \A i \in 1 .. Len(p) + Len(n) : log[i] = IF i <= Len(p) THEN m[i] ELSE n[i - Len(p)]
    <3>1. Len(m) = Len(p) /\ Len(p) \in Nat /\ Len(n) \in Nat
      BY <2>6, LenProperties DEF Answered
    <3>2. PICK l : l = m \o n
      OBVIOUS
    <3>3. /\ l \in Seq(Tells) /\ Len(l) = Len(m) + Len(n)
          /\ \A i \in 1 .. Len(m) + Len(n) : l[i] = IF i <= Len(m) THEN m[i] ELSE n[i - Len(m)]
      BY <2>8, <3>2, ConcatProperties, Zenon
    <3>4. log = l
      BY <2>6, <3>2
    <3>5. QED
      BY <3>1, <3>3, <3>4
  <2>10. /\ Len(o) = Len(p) + Len(q) /\ Len(q) \in Nat
         /\ \A i \in 1 .. Len(p) + Len(q) : o[i] = IF i <= Len(p) THEN p[i] ELSE q[i - Len(p)]
    BY <2>5, ConcatProperties, LenProperties
  <2> HIDE DEF owed
  <2>11. ASSUME NEW i \in DOMAIN log
         PROVE  \/ i <= Len(o) /\ log[i] = o[i]
                \/ (i <= Len(o) => o[i][1] = "pong") /\ log[i] = W!Null /\ ~peerOpen
    <3>1. i \in 1 .. Len(p) + Len(n)
      BY <2>9, LenProperties
    <3>2. CASE i <= Len(p)
      <4>1. i <= Len(o) /\ i \in 1 .. Len(p) + Len(q)
        BY <2>9, <2>10, <3>1, <3>2
      <4>2. log[i] = m[i] /\ o[i] = p[i]
        BY <2>9, <2>10, <3>1, <3>2, <4>1
      <4>3. i \in 1 .. Len(p)
        BY <2>9, <3>1, <3>2
      <4>4. m[i] = p[i] \/ (~peerOpen /\ p[i][1] = "pong" /\ m[i] = W!Null)
        BY <2>6, <4>3 DEF Answered
      <4>5. QED
        BY <4>1, <4>2, <4>4
    <3>3. CASE ~(i <= Len(p))
      <4>1. i - Len(p) \in 1 .. Len(n) /\ Len(n) # 0
        BY <2>9, <3>1, <3>3
      <4>2. n # <<>>
        BY <4>1
      <4>3. Len(o) = Len(p) /\ ~peerOpen
        BY <2>6, <2>7, <4>2
      <4>4. n[i - Len(p)] = W!Null
        BY <4>1, ElementOfSeq
      <4>5. log[i] = W!Null
        BY <2>9, <3>1, <3>3, <4>4
      <4>6. QED
        BY <3>3, <4>3, <4>5
    <3>4. QED
      BY <3>2, <3>3
  <2>12. QED
    BY <2>3, <2>11
<1>2. W!FlattenSeq([i \in DOMAIN sent |-> W!Owed(sent[i])]) = owed
  BY DEF Owing, W!FlattenSeq, FlattenSeq
<1>3. W!ToSet(sent) = ToSet(sent)
  BY DEF W!ToSet, ToSet
<1> HIDE DEF owed
<1>4. QED
  BY <1>1, <1>2, <1>3, Zenon DEF W!FramesComeInOrder, NoneRefused

-----------------------------------------------------------------------------
(* Bytes.  What recv returned is all the peer wrote up to some place, except *)
(* that a character which a recv ended within is replaced in both halves:   *)
(* the cuts are where that happened, and an end within a character is one.  *)

Bytes == {"a", "c1", "c2"}
Marks == Bytes \cup {S!Replaced}
Conn == [queue : Seq(Bytes), open : BOOLEAN, wrote : Seq(Bytes), read : Seq(Marks),
         cuts : SUBSET Nat]

\* Only whole characters were written.
Characters(w) ==
  /\ \A i \in 1 .. Len(w) : w[i] = "c1" => i + 1 \in 1 .. Len(w) /\ w[i + 1] = "c2"
  /\ \A i \in 1 .. Len(w) : w[i] = "c2" => i - 1 \in 1 .. Len(w) /\ w[i - 1] = "c1"
Comes(w, d, cuts) ==
  \A i \in 1 .. Len(d) : d[i] = IF {i - 1, i} \cap cuts # {} THEN S!Replaced ELSE w[i]
CutsAre(w, k, cuts) ==
  /\ \A p \in cuts : p \in 1 .. k /\ w[p] = "c1"
  /\ k > 0 /\ w[k] = "c1" => k \in cuts
Whole(c) ==
  /\ c \in Conn
  /\ Len(c.read) <= Len(c.wrote)
  /\ c.queue = S!Rest(c.wrote, Len(c.read))
  /\ Characters(c.wrote) /\ Comes(c.wrote, c.read, c.cuts)
  /\ CutsAre(c.wrote, Len(c.read), c.cuts)
BytesInv == \A id \in DOMAIN connections : Whole(connections[id])

IsRest(w, k, q) ==
  q \in Seq(Bytes) /\ Len(q) = Len(w) - k /\ \A j \in 1 .. Len(q) : q[j] = w[k + j]
LEMMA RestIs ==
  ASSUME NEW w \in Seq(Bytes), NEW k \in 0 .. Len(w)
  PROVE  IsRest(w, k, S!Rest(w, k))
<1>1. Len(w) \in Nat /\ k \in Nat
  BY LenProperties
<1>2. \A i \in k + 1 .. Len(w) : w[i] \in Bytes
  BY <1>1, ElementOfSeq
<1>3. PICK q : q = SubSeq(w, k + 1, Len(w))
  OBVIOUS
<1>4. q \in Seq(Bytes) /\ Len(q) = Len(w) - k /\ \A j \in 1 .. Len(w) - k : q[j] = w[k + j]
  BY <1>1, <1>2, <1>3, SubSeqProperties
<1>5. QED
  BY <1>3, <1>4 DEF IsRest, S!Rest

LEMMA RestOnly ==
  ASSUME NEW w \in Seq(Bytes), NEW k \in 0 .. Len(w), NEW q, IsRest(w, k, q)
  PROVE  q = S!Rest(w, k)
<1>1. PICK r : r = S!Rest(w, k)
  OBVIOUS
<1>2. IsRest(w, k, r)
  BY <1>1, RestIs
<1>3. r \in Seq(Bytes) /\ q \in Seq(Bytes) /\ Len(q) = Len(r) /\ \A j \in 1 .. Len(q) : q[j] = r[j]
  BY <1>2 DEF IsRest
<1>4. q = r
  BY <1>3, SeqEqual
<1>5. QED
  BY <1>1, <1>4

\* A piece of characters, decoded by itself: only its ends can be halves.
IsPiece(w, k, t) ==
  /\ t \in Seq(Bytes) /\ Len(t) \in 1 .. Len(w) - k
  /\ \A j \in 1 .. Len(t) : t[j] = w[k + j]
CutBy(w, k, cuts) == IF w[k] = "c1" THEN cuts \cup {k} ELSE cuts
Decodes(t, k, cuts) ==
  \A j \in 1 .. Len(t) : S!Alone(t, j) <=> {k + j - 1, k + j} \cap cuts # {}
LEMMA PieceDecodes ==
  ASSUME NEW w \in Seq(Bytes), Characters(w), NEW k \in 0 .. Len(w), NEW cuts, CutsAre(w, k, cuts),
         NEW t, IsPiece(w, k, t)
  PROVE  Decodes(t, k, CutBy(w, k + Len(t), cuts))
<1> DEFINE n == Len(t)
           more == CutBy(w, k + n, cuts)
<1>1. /\ Len(w) \in Nat /\ k \in Nat /\ n \in Nat /\ n \in 1 .. Len(w) - k
      /\ \A j \in 1 .. n : t[j] = w[k + j]
  <2>1. Len(w) \in Nat /\ k \in Nat
    BY LenProperties
  <2>2. t \in Seq(Bytes) /\ n \in 1 .. Len(w) - k
    BY DEF IsPiece
  <2>3. n \in Nat
    BY <2>2, LenProperties
  <2>4. \A j \in 1 .. n : t[j] = w[k + j]
    BY DEF IsPiece
  <2>5. QED
    BY <2>1, <2>2, <2>3, <2>4
<1>2. more = IF w[k + n] = "c1" THEN cuts \cup {k + n} ELSE cuts
  BY DEF CutBy
<1> HIDE DEF more
<1>3. SUFFICES ASSUME NEW j \in 1 .. n
               PROVE  S!Alone(t, j) <=> {k + j - 1, k + j} \cap more # {}
  BY DEF Decodes, more
<1>4. k + j \in 1 .. Len(w) /\ t[j] = w[k + j]
  BY <1>1
<1>5. \A p \in cuts : p \in 1 .. k
  BY DEF CutsAre
<1>6. k + j \in more <=> j = n /\ w[k + n] = "c1"
  <2>1. k + j \notin cuts
    BY <1>1, <1>5
  <2>2. k + j = k + n <=> j = n
    BY <1>1
  <2>3. k + j \in more <=> w[k + n] = "c1" /\ k + j = k + n
    BY <1>2, <2>1
  <2>4. QED
    BY <2>2, <2>3
<1>7. k + j - 1 \in more <=> j = 1 /\ k \in cuts
  <2>1. k + j - 1 # k + n
    BY <1>1
  <2>2. k + j - 1 \in more <=> k + j - 1 \in cuts
    BY <1>2, <2>1
  <2>3. CASE j = 1
    <3>1. k + j - 1 = k
      BY <1>1, <2>3
    <3>2. QED
      BY <2>2, <2>3, <3>1
  <2>4. CASE j # 1
    <3>1. k + j - 1 \notin 1 .. k
      BY <1>1, <2>4
    <3>2. QED
      BY <1>5, <2>2, <2>4, <3>1
  <2>5. QED
    BY <2>3, <2>4
<1>8. t[j] = "c1" /\ (j = Len(t) \/ t[j + 1] # "c2") <=> j = n /\ w[k + n] = "c1"
  <2>1. CASE j = n
    BY <1>4, <2>1
  <2>2. CASE j # n
    <3>1. j + 1 \in 1 .. n /\ k + (j + 1) = (k + j) + 1
      BY <1>1, <2>2
    <3>2. t[j + 1] = w[(k + j) + 1]
      BY <1>1, <3>1
    <3>3. w[k + j] = "c1" => w[(k + j) + 1] = "c2"
      BY <1>4 DEF Characters
    <3>4. QED
      BY <1>4, <2>2, <3>2, <3>3
  <2>3. QED
    BY <2>1, <2>2
<1>9. t[j] = "c2" /\ (j = 1 \/ t[j - 1] # "c1") <=> j = 1 /\ k \in cuts
  <2>1. CASE j = 1
    <3>1. k + j = k + 1 /\ (k + 1) - 1 = k
      BY <1>1, <2>1
    <3>2. w[k + 1] = "c2" => k \in 1 .. Len(w) /\ w[k] = "c1"
      BY <1>4, <3>1 DEF Characters
    <3>3. k \in 1 .. Len(w) /\ w[k] = "c1" => w[k + 1] = "c2"
      BY DEF Characters
    <3>4. k \in cuts => k \in 1 .. Len(w) /\ w[k] = "c1"
      BY <1>1, <1>5 DEF CutsAre
    <3>5. k \in 1 .. Len(w) /\ w[k] = "c1" => k \in cuts
      BY <1>1 DEF CutsAre
    <3>6. QED
      BY <1>4, <2>1, <3>1, <3>2, <3>3, <3>4, <3>5
  <2>2. CASE j # 1
    <3>1. j - 1 \in 1 .. n /\ k + (j - 1) = (k + j) - 1
      BY <1>1, <2>2
    <3>2. t[j - 1] = w[(k + j) - 1]
      BY <1>1, <3>1
    <3>3. w[k + j] = "c2" => w[(k + j) - 1] = "c1"
      BY <1>4 DEF Characters
    <3>4. QED
      BY <1>4, <2>2, <3>2, <3>3
  <2>3. QED
    BY <2>1, <2>2
<1>10. {k + j - 1, k + j} \cap more # {} <=> k + j - 1 \in more \/ k + j \in more
  OBVIOUS
<1>11. QED
  BY <1>6, <1>7, <1>8, <1>9, <1>10 DEF S!Alone

\* What one recv gives.
Received(c, n) ==
  [c EXCEPT !.queue = S!Rest(c.queue, n),
            !.read = c.read \o S!Decoded(SubSeq(c.queue, 1, n)),
            !.cuts = IF n > 0 /\ c.queue[n] = "c1" THEN c.cuts \cup {Len(c.read) + n} ELSE c.cuts]

LEMMA ReceivedIs ==
  ASSUME NEW c, Whole(c), NEW n \in 0 .. Len(c.queue)
  PROVE  Whole(Received(c, n))
<1>1. PICK w \in Seq(Bytes), q \in Seq(Bytes), d \in Seq(Marks), cuts \in SUBSET Nat :
        w = c.wrote /\ q = c.queue /\ d = c.read /\ cuts = c.cuts
  BY DEF Whole, Conn
<1>2. PICK k \in Nat : k = Len(d)
  BY LenProperties
<1>3. PICK l \in Nat : l = Len(w)
  BY LenProperties
<1>4. /\ k \in 0 .. l /\ q = S!Rest(w, k)
      /\ Characters(w) /\ Comes(w, d, cuts) /\ CutsAre(w, k, cuts)
  BY <1>1, <1>2, <1>3 DEF Whole
<1>5. Len(q) = l - k /\ \A j \in 1 .. Len(q) : q[j] = w[k + j]
  BY <1>3, <1>4, RestIs DEF IsRest
<1>6. n \in 0 .. l - k
  BY <1>1, <1>5
<1>7. PICK t : t = SubSeq(q, 1, n)
  OBVIOUS
<1>8. t \in Seq(Bytes) /\ Len(t) = n /\ \A j \in 1 .. n : t[j] = w[k + j]
  <2>1. \A j \in 1 .. n : q[j] \in Bytes /\ q[j] = w[k + j]
    BY <1>5, <1>6, ElementOfSeq
  <2>2. t \in Seq(Bytes) /\ Len(t) = n /\ \A j \in 1 .. n : t[j] = q[j]
    BY <1>6, <1>7, <2>1, SubSeqProperties
  <2>3. QED
    BY <2>1, <2>2
<1>9. PICK text : text = S!Decoded(t)
  OBVIOUS
<1>10. /\ text \in Seq(Marks) /\ Len(text) = n
       /\ \A j \in 1 .. n : text[j] = IF S!Alone(t, j) THEN S!Replaced ELSE t[j]
  <2>1. DOMAIN t = 1 .. n
    BY <1>6, <1>8, LenProperties
  <2>2. text = [j \in 1 .. n |-> IF S!Alone(t, j) THEN S!Replaced ELSE t[j]]
    BY <1>9, <2>1 DEF S!Decoded
  <2>3. \A j \in 1 .. n : (IF S!Alone(t, j) THEN S!Replaced ELSE t[j]) \in Marks
    BY <1>8, ElementOfSeq DEF Marks
  <2>4. text \in [1 .. n -> Marks]
    BY <2>2, <2>3
  <2>5. text \in Seq(Marks) /\ Len(text) = n
    BY <1>6, <2>4, SeqDef
  <2>6. QED
    BY <2>2, <2>5
<1>11. PICK more : more = IF n > 0 /\ q[n] = "c1" THEN cuts \cup {k + n} ELSE cuts
  OBVIOUS
<1>12. more \in SUBSET Nat /\ \A p \in cuts : p \in 1 .. k
  <2>1. \A p \in cuts : p \in 1 .. k
    BY <1>4 DEF CutsAre
  <2>2. k + n \in Nat
    BY <1>2, <1>6
  <2>3. QED
    BY <1>11, <2>1, <2>2
<1>13. \A j \in 1 .. n : S!Alone(t, j) <=> {k + j - 1, k + j} \cap more # {}
  <2>1. CASE n = 0
    BY <2>1
  <2>2. CASE n # 0
    <3>1. n \in 1 .. l - k /\ q[n] = w[k + n]
      BY <1>5, <1>6, <2>2
    <3>2. PICK g \in 0 .. Len(w) : g = k
      BY <1>3, <1>4
    <3>3. w \in Seq(Bytes) /\ Characters(w) /\ CutsAre(w, g, cuts)
      BY <1>1, <1>4, <3>2
    <3>4. IsPiece(w, g, t)
      BY <1>3, <1>8, <3>1, <3>2 DEF IsPiece
    <3>5. Decodes(t, g, CutBy(w, g + Len(t), cuts))
      BY <3>3, <3>4, PieceDecodes
    <3>6. more = CutBy(w, g + Len(t), cuts)
      BY <1>8, <1>11, <3>1, <3>2 DEF CutBy
    <3>7. QED
      BY <1>8, <3>2, <3>5, <3>6 DEF Decodes
  <2>3. QED
    BY <2>1, <2>2
<1>14. PICK e : e = d \o text
  OBVIOUS
<1>15. /\ e \in Seq(Marks) /\ Len(e) = k + n
       /\ \A i \in 1 .. k + n : e[i] = IF i <= k THEN d[i] ELSE text[i - k]
  BY <1>2, <1>10, <1>14, ConcatProperties
<1>16. Comes(w, e, more)
  <2>1. SUFFICES ASSUME NEW i \in 1 .. k + n
                 PROVE  e[i] = IF {i - 1, i} \cap more # {} THEN S!Replaced ELSE w[i]
    BY <1>15 DEF Comes
  <2>2. CASE i <= k
    <3>1. {i - 1, i} \cap more = {i - 1, i} \cap cuts
      BY <1>6, <1>11, <2>2
    <3>2. e[i] = d[i] /\ i \in 1 .. k
      BY <1>15, <2>2
    <3>3. QED
      BY <1>2, <1>4, <3>1, <3>2 DEF Comes
  <2>3. CASE ~(i <= k)
    <3>1. PICK j \in 1 .. n : i = k + j
      <4>1. i - k \in 1 .. n /\ i = k + (i - k)
        BY <1>6, <2>3
      <4>2. QED
        BY <4>1
    <3>2. e[i] = text[j]
      BY <1>6, <1>15, <2>3, <3>1
    <3>3. i - 1 = k + j - 1
      BY <3>1
    <3>4. QED
      BY <1>8, <1>10, <1>13, <3>1, <3>2, <3>3
  <2>4. QED
    BY <2>2, <2>3
<1>17. CutsAre(w, k + n, more)
  <2>1. \A p \in cuts : p \in 1 .. k + n /\ w[p] = "c1"
    BY <1>4, <1>6 DEF CutsAre
  <2>2. CASE n = 0
    BY <1>4, <1>11, <2>2 DEF CutsAre
  <2>3. CASE n # 0
    <3>1. q[n] = w[k + n] /\ k + n \in 1 .. k + n
      BY <1>5, <1>6, <2>3
    <3>2. more = IF w[k + n] = "c1" THEN cuts \cup {k + n} ELSE cuts
      BY <1>6, <1>11, <2>3, <3>1
    <3>3. \A p \in more : p \in 1 .. k + n /\ w[p] = "c1"
      BY <2>1, <3>1, <3>2
    <3>4. w[k + n] = "c1" => k + n \in more
      BY <3>2
    <3>5. QED
      BY <3>3, <3>4 DEF CutsAre
  <2>4. QED
    BY <2>2, <2>3
<1>18. PICK rest : rest = S!Rest(q, n)
  OBVIOUS
<1>19. rest \in Seq(Bytes) /\ rest = S!Rest(w, k + n)
  <2>1. IsRest(q, n, rest)
    BY <1>5, <1>6, <1>18, RestIs
  <2>2. Len(q) \in Nat /\ Len(rest) = (l - k) - n
    BY <1>5, <2>1 DEF IsRest
  <2>3. \A j \in 1 .. Len(rest) : rest[j] = w[(k + n) + j]
    <3>1. SUFFICES ASSUME NEW j \in 1 .. Len(rest) PROVE rest[j] = w[(k + n) + j]
      OBVIOUS
    <3>2. n + j \in 1 .. Len(q) /\ k + (n + j) = (k + n) + j
      BY <1>5, <1>6, <2>2
    <3>3. rest[j] = q[n + j]
      BY <2>1 DEF IsRest
    <3>4. QED
      BY <1>5, <3>2, <3>3
  <2>4. IsRest(w, k + n, rest)
    <3>1. Len(rest) = Len(w) - (k + n)
      BY <1>3, <1>4, <1>6, <2>2
    <3>2. rest \in Seq(Bytes)
      BY <2>1 DEF IsRest
    <3>3. QED
      BY <2>3, <3>1, <3>2, Zenon DEF IsRest
  <2>5. PICK m \in 0 .. Len(w) : m = k + n
    BY <1>3, <1>4, <1>6
  <2>6. QED
    BY <2>1, <2>4, <2>5, RestOnly DEF IsRest
<1>20. PICK f : f = [c EXCEPT !.queue = rest, !.read = e, !.cuts = more]
  OBVIOUS
<1>21. f = Received(c, n)
  BY <1>1, <1>2, <1>7, <1>9, <1>11, <1>14, <1>18, <1>20 DEF Received
<1>22. /\ f \in Conn /\ f.queue = rest /\ f.read = e /\ f.cuts = more /\ f.wrote = w
  BY <1>1, <1>12, <1>15, <1>19, <1>20 DEF Whole, Conn
<1>23. k + n <= l
  BY <1>6
<1>24. Whole(f)
  BY <1>3, <1>4, <1>15, <1>16, <1>17, <1>19, <1>22, <1>23 DEF Whole
<1>25. QED
  BY <1>21, <1>24

LEMMA CharactersJoin ==
  ASSUME NEW w \in Seq(Bytes), Characters(w), NEW x \in S!Texts
  PROVE  x \in Seq(Bytes) /\ w \o x \in Seq(Bytes) /\ Characters(w \o x)
<1>1. PICK l \in Nat : l = Len(w)
  BY LenProperties
<1>2. CASE x = <<"a">>
  <2>1. x \in Seq(Bytes) /\ Len(x) = 1 /\ x[1] = "a"
    BY <1>2 DEF Bytes
  <2>2. PICK v : v = w \o x
    OBVIOUS
  <2>3. /\ v \in Seq(Bytes) /\ Len(v) = l + 1 /\ v[l + 1] = "a"
        /\ \A i \in 1 .. l : v[i] = w[i]
    <3>1. v \in Seq(Bytes) /\ Side(w, x)
      BY <2>1, <2>2, SideBySide
    <3>2. 1 \in 1 .. Len(x)
      BY <2>1
    <3>3. QED
      BY <1>1, <2>1, <2>2, <3>1, <3>2 DEF Side
  <2>4. Characters(v)
    BY <1>1, <2>3 DEF Characters
  <2>5. QED
    BY <2>1, <2>2, <2>3, <2>4
<1>3. CASE x = <<"c1", "c2">>
  <2>1. x \in Seq(Bytes) /\ Len(x) = 2 /\ x[1] = "c1" /\ x[2] = "c2"
    BY <1>3 DEF Bytes
  <2>2. PICK v : v = w \o x
    OBVIOUS
  <2>3. /\ v \in Seq(Bytes) /\ Len(v) = l + 2 /\ v[l + 1] = "c1" /\ v[l + 2] = "c2"
        /\ \A i \in 1 .. l : v[i] = w[i]
    <3>1. v \in Seq(Bytes) /\ Side(w, x)
      BY <2>1, <2>2, SideBySide
    <3>2. 1 \in 1 .. Len(x) /\ 2 \in 1 .. Len(x)
      BY <2>1
    <3>3. QED
      BY <1>1, <2>1, <2>2, <3>1, <3>2 DEF Side
  <2>4. Characters(v)
    BY <1>1, <2>3 DEF Characters
  <2>5. QED
    BY <2>1, <2>2, <2>3, <2>4
<1>4. QED
  BY <1>2, <1>3 DEF S!Texts

\* What the peer writes comes after what it wrote.
LEMMA WrittenIs ==
  ASSUME NEW c, Whole(c), NEW x \in S!Texts
  PROVE  Whole([c EXCEPT !.queue = c.queue \o x, !.wrote = c.wrote \o x])
<1>1. PICK w \in Seq(Bytes), q \in Seq(Bytes), d \in Seq(Marks), cuts \in SUBSET Nat :
        w = c.wrote /\ q = c.queue /\ d = c.read /\ cuts = c.cuts
  BY DEF Whole, Conn
<1>2. PICK k \in Nat : k = Len(d)
  BY LenProperties
<1>3. PICK l \in Nat : l = Len(w)
  BY LenProperties
<1>4. /\ k \in 0 .. l /\ q = S!Rest(w, k)
      /\ Characters(w) /\ Comes(w, d, cuts) /\ CutsAre(w, k, cuts)
  BY <1>1, <1>2, <1>3 DEF Whole
<1>5. Len(q) = l - k /\ \A j \in 1 .. Len(q) : q[j] = w[k + j]
  BY <1>3, <1>4, RestIs DEF IsRest
<1>6. x \in Seq(Bytes)
  BY <1>4, CharactersJoin
<1>7. PICK v : v = w \o x
  OBVIOUS
<1>8. v \in Seq(Bytes) /\ Characters(v)
  BY <1>4, <1>7, CharactersJoin
<1>9. PICK a \in Nat : a = Len(x)
  BY <1>6, LenProperties
<1>10. /\ Len(v) = l + a /\ \A i \in 1 .. l : v[i] = w[i]
       /\ \A j \in 1 .. a : v[l + j] = x[j]
  BY <1>3, <1>6, <1>7, <1>9, SideBySide DEF Side
<1>11. PICK u : u = q \o x
  OBVIOUS
<1>12. PICK b \in Nat : b = Len(q) /\ b = l - k
  BY <1>4, <1>5
<1>13. IsRest(v, k, u)
  <2>1. /\ u \in Seq(Bytes) /\ Len(u) = b + a /\ \A j \in 1 .. b : u[j] = q[j]
        /\ \A j \in 1 .. a : u[b + j] = x[j]
    <3>1. u \in Seq(Bytes) /\ Side(q, x)
      BY <1>6, <1>11, SideBySide
    <3>2. QED
      BY <1>9, <1>11, <1>12, <3>1 DEF Side
  <2>2. ASSUME NEW j \in 1 .. Len(u) PROVE u[j] = v[k + j]
    <3>1. CASE j <= b
      <4>1. j \in 1 .. b /\ k + j \in 1 .. l
        BY <1>4, <1>12, <3>1
      <4>2. u[j] = w[k + j]
        BY <1>5, <1>12, <2>1, <4>1
      <4>3. QED
        BY <1>10, <4>1, <4>2
    <3>2. CASE ~(j <= b)
      <4>1. PICK i \in 1 .. a : j = b + i
        <5>1. j - b \in 1 .. a /\ j = b + (j - b)
          BY <2>1, <3>2
        <5>2. QED
          BY <5>1
      <4>2. k + j = l + i
        BY <1>4, <1>12, <4>1
      <4>3. QED
        BY <1>10, <2>1, <4>1, <4>2
    <3>3. QED
      BY <3>1, <3>2
  <2>3. Len(u) = Len(v) - k
    BY <1>4, <1>10, <1>12, <2>1
  <2>4. QED
    BY <2>1, <2>2, <2>3 DEF IsRest
<1>14. k \in 0 .. Len(v)
  BY <1>4, <1>10
<1>15. u = S!Rest(v, k)
  BY <1>8, <1>13, <1>14, RestOnly
<1>16. \A i \in 1 .. l : v[i] = w[i]
  BY <1>10
<1>17. Comes(v, d, cuts) /\ CutsAre(v, k, cuts)
  <2>1. \A i \in 1 .. k : v[i] = w[i] /\ i \in 1 .. l
    BY <1>4, <1>16
  <2>2. k > 0 => v[k] = w[k]
    BY <2>1
  <2>3. QED
    BY <1>2, <1>4, <2>1, <2>2 DEF Comes, CutsAre
<1>18. PICK f : f = [c EXCEPT !.queue = u, !.wrote = v]
  OBVIOUS
<1>19. f \in Conn /\ f.queue = u /\ f.wrote = v /\ f.read = d /\ f.cuts = cuts
  BY <1>1, <1>8, <1>13, <1>18 DEF Whole, Conn, IsRest
<1>20. Whole(f)
  BY <1>2, <1>8, <1>14, <1>15, <1>17, <1>19 DEF Whole
<1>21. QED
  BY <1>1, <1>7, <1>11, <1>18, <1>20

LEMMA FreshIsWhole == Whole(S!Fresh)
<1>1. <<>> \in Seq(Bytes) /\ <<>> \in Seq(Marks) /\ Len(<<>>) = 0
  OBVIOUS
<1>2. S!Fresh = [queue |-> <<>>, open |-> TRUE, wrote |-> <<>>, read |-> <<>>, cuts |-> {}]
  BY DEF S!Fresh
<1>3. S!Fresh \in Conn
  BY <1>1, <1>2, Zenon DEF Conn
<1>4. S!Rest(<<>>, 0) = <<>>
  <2>1. 0 \in 0 .. Len(<<>>) /\ IsRest(<<>>, 0, <<>>)
    BY <1>1 DEF IsRest
  <2>2. QED
    BY <1>1, <2>1, RestOnly
<1>5. Characters(<<>>) /\ Comes(<<>>, <<>>, {}) /\ CutsAre(<<>>, 0, {})
  BY <1>1 DEF Characters, Comes, CutsAre
<1>6. QED
  BY <1>1, <1>2, <1>3, <1>4, <1>5 DEF Whole

LEMMA BytesStay ==
  ASSUME BytesInv, SocketStep
  PROVE  BytesInv'
<1>1. CASE UNCHANGED connections
  BY <1>1 DEF BytesInv
<1>2. CASE S!AddConnection
  BY <1>2, FreshIsWhole DEF BytesInv, S!AddConnection, S!Add
<1>3. ASSUME NEW id, NEW c, Whole(c), id \in DOMAIN connections,
             connections' = [connections EXCEPT ![id] = c]
      PROVE  BytesInv'
  BY <1>3 DEF BytesInv
<1>4. ASSUME NEW id, NEW max \in 0 .. 2, S!Recv(id, max), connections' # connections PROVE BytesInv'
  <2>1. id \in DOMAIN connections /\ Whole(connections[id])
    BY <1>4 DEF S!Recv, S!Fail, BytesInv
  <2>2. PICK n \in S!ReadSizes(connections[id], max) :
          connections' = [connections EXCEPT
             ![id].queue = S!Rest(connections[id].queue, n),
             ![id].read = connections[id].read \o S!Decoded(SubSeq(connections[id].queue, 1, n)),
             ![id].cuts = IF n > 0 /\ connections[id].queue[n] = "c1"
                          THEN @ \cup {Len(connections[id].read) + n} ELSE @]
    BY <1>4 DEF S!Recv, S!Fail
  <2>3. n \in 0 .. Len(connections[id].queue)
    <3>1. Len(connections[id].queue) \in Nat
      BY <2>1, LenProperties DEF Whole, Conn
    <3>2. QED
      BY <3>1, <2>2 DEF S!ReadSizes, S!Smaller
  <2>4. DOMAIN connections[id] = {"queue", "open", "wrote", "read", "cuts"}
    BY <2>1 DEF Whole, Conn
  <2>5. connections' = [connections EXCEPT ![id] = Received(connections[id], n)]
    BY <2>1, <2>2, <2>4 DEF Received
  <2>6. QED
    BY <1>3, <2>1, <2>3, <2>5, ReceivedIs
<1>5. ASSUME NEW id, NEW text \in S!Texts, S!PeerWrites(id, text) PROVE BytesInv'
  <2>1. /\ id \in DOMAIN connections /\ Whole(connections[id])
        /\ connections' = [connections EXCEPT ![id].queue = @ \o text, ![id].wrote = @ \o text]
    BY <1>5 DEF S!PeerWrites, BytesInv
  <2>2. DOMAIN connections[id] = {"queue", "open", "wrote", "read", "cuts"}
    BY <2>1 DEF Whole, Conn
  <2>3. connections' = [connections EXCEPT ![id] =
           [connections[id] EXCEPT !.queue = connections[id].queue \o text,
                                   !.wrote = connections[id].wrote \o text]]
    BY <2>1, <2>2
  <2>4. QED
    BY <1>3, <2>1, <2>3, WrittenIs
<1>6. ASSUME NEW id, S!PeerCloses(id) PROVE BytesInv'
  <2>1. /\ id \in DOMAIN connections /\ Whole(connections[id])
        /\ connections' = [connections EXCEPT ![id].open = FALSE]
    BY <1>6 DEF S!PeerCloses, BytesInv
  <2>2. PICK f : f = [connections[id] EXCEPT !.open = FALSE]
    OBVIOUS
  <2>3. /\ f \in Conn /\ f.queue = connections[id].queue /\ f.read = connections[id].read
        /\ f.wrote = connections[id].wrote /\ f.cuts = connections[id].cuts
    BY <2>1, <2>2 DEF Whole, Conn
  <2>4. Whole(f)
    BY <2>1, <2>3 DEF Whole
  <2>5. QED
    BY <1>3, <2>1, <2>2, <2>4
<1>7. ASSUME NEW id, S!Close(id) PROVE BytesInv'
  BY <1>7 DEF S!Close, S!CloseEither, S!Drop, BytesInv
<1>8. ASSUME S!Fail PROVE UNCHANGED connections
  BY <1>8 DEF S!Fail
<1>9. ASSUME NEW port, S!Listen(port) \/ S!PeerConnects(port) PROVE UNCHANGED connections
  BY <1>8, <1>9 DEF S!Listen, S!PeerConnects
<1>10. ASSUME S!Connect PROVE UNCHANGED connections \/ S!AddConnection
  BY <1>8, <1>10 DEF S!Connect
<1>11. ASSUME NEW id, S!Accept(id) \/ S!Send(id) PROVE UNCHANGED connections \/ S!AddConnection
  BY <1>8, <1>11 DEF S!Accept, S!Send
<1>12. CASE UNCHANGED socketVars
  BY <1>1, <1>12 DEF socketVars
<1>13. QED
  BY <1>1, <1>2, <1>4, <1>5, <1>6, <1>7, <1>9, <1>10, <1>11, <1>12 DEF SocketStep, S!Next

LEMMA BytesStart == Init => BytesInv
  BY DEF Init, S!Init, BytesInv

LEMMA BytesFollow == BytesInv => S!TextComesInOrder
<1>1. SUFFICES ASSUME BytesInv, NEW id \in DOMAIN connections
               PROVE  LET c == connections[id] IN
                      /\ Len(c.read) <= Len(c.wrote)
                      /\ c.queue = S!Rest(c.wrote, Len(c.read))
                      /\ \A i \in DOMAIN c.read :
                           c.read[i] = IF S!CutAt(c, i) THEN S!Replaced ELSE c.wrote[i]
  BY DEF S!TextComesInOrder
<1>2. Whole(connections[id])
  BY <1>1 DEF BytesInv
<1>3. DOMAIN connections[id].read = 1 .. Len(connections[id].read)
  BY <1>2, LenProperties DEF Whole, Conn
<1>4. QED
  BY <1>2, <1>3 DEF Whole, Comes, S!CutAt


-----------------------------------------------------------------------------
(* Windows.  The invariant says which commands may be on their way at what *)
(* point of the program, and what an ending session leaves of the windows. *)

Op == script.call.op
ScriptFields == {"call", "has", "opened", "known", "next", "calls"}
HostFields == {"pc", "session", "opening", "pending", "loop", "show", "back"}
WindowFields == {"present", "done", "ready", "open", "closing", "failed", "input"}
DialogRec == [seq : Nat, done : Nat, result : Nat]
GuiTypes ==
  /\ DOMAIN script = ScriptFields /\ script.known \subseteq H!Extras /\ script.opened \in Nat
  /\ DOMAIN host = HostFields /\ host.opening \subseteq H!Extras /\ host.show \in Nat
  /\ 0 \in DOMAIN shared /\ \A w \in DOMAIN shared : DOMAIN shared[w] = WindowFields
  /\ dialog \in DialogRec

Ready(w) == w \in DOMAIN shared /\ shared[w].ready /\ ~shared[w].failed
Opening == Op = "open" /\ Ready(0)
Waiting(w) ==
  /\ Op = "openWindow" /\ script.call.win = w
  /\ w \in DOMAIN shared /\ ~shared[w].ready /\ ~shared[w].failed

CmdInv ==
  /\ over => script.call = H!NoCall
  /\ H!Opens # {} => Op = "open"
  /\ Op = "open" /\ (shared[0].ready \/ shared[0].failed) => H!Opens = {}
  /\ Op = "openWindow" => script.has /\ script.call.win \in H!Extras \cap DOMAIN shared
ExtraInv ==
  /\ H!Sent("OpenExtra") \cup H!Sent("CloseExtra") \subseteq H!Extras
  /\ \A w \in host.opening \cup H!Sent("OpenExtra") : Waiting(w)
  /\ host.opening \cap (H!Sent("OpenExtra") \cup H!Sent("CloseExtra")) = {}
  /\ H!Sent("CloseExtra") \cap live \subseteq wanted
AskedInv == asked \subseteq live /\ asked \subseteq wanted
SessionInv ==
  host.pc \in {"pump", "pumped", "dialog", "check"} /\ ~host.session
    => live \subseteq {0} /\ host.opening = {}
CloseInv ==
  /\ H!Sent("Close") \subseteq {0}
  /\ H!Sent("Close") # {} => ~script.has /\ (Op = "open" => ~shared[0].ready /\ 0 \in live)
KnownInv ==
  /\ script.next \in Nat /\ \A w \in script.known : w < script.next
  /\ Op = "openWindow" => script.call.win = script.next
FirstInv == ~over /\ 0 \notin wanted /\ (script.has \/ Opening) => H!IsOpen(0)
ReopenInv ==
  Op = "open" => /\ ~(shared[0].ready /\ shared[0].failed)
                 /\ script.has /\ ~shared[0].ready => 0 \in wanted
ExtraOpenInv ==
  \A w \in H!Extras :
    /\ ~over /\ {0, w} \cap wanted = {}
    /\ \/ script.has /\ Op # "open" /\ w \in script.known
       \/ Op = "openWindow" /\ script.call.win = w /\ Ready(w)
    => H!IsOpen(w)
\* What a behaviour without Gui.close, without a second Gui.open, or with both
\* and neither a closing user nor a redraw within a pump has besides.
HabitInv ==
  /\ habit \in Habits
  /\ "close" \notin habit => H!Sent("Close") = {}
  /\ "reopen" \notin habit => /\ script.has \/ H!Sent("Close") # {} => script.opened > 0
                              /\ Op = "open" => script.opened = 0
SteadyInv ==
  habit \cap {"userCloses", "redraw"} = {} =>
       /\ host.pc \in {"pump", "pumped"} => host.session
       /\ host.pc = "dialog" => host.back = "check"
       /\ 0 \in live => host.session
       /\ 0 \notin asked
       /\ ~over /\ (H!Sent("Close") # {} \/ script.has \/ Opening) => 0 \in live
DialogInv ==
  /\ dialog.done <= dialog.seq /\ host.show <= dialog.seq
  /\ Op = "dialog" => script.call.want = dialog.seq
  /\ Op = "dialog" /\ dialog.done >= script.call.want => dialog.result = script.call.want

GuiInv ==
  /\ GuiTypes /\ CmdInv /\ ExtraInv /\ AskedInv /\ SessionInv /\ CloseInv
  /\ KnownInv /\ FirstInv /\ ReopenInv /\ ExtraOpenInv /\ HabitInv /\ SteadyInv /\ DialogInv

NoStaleClose ==
  \A b \in Habits : {"close", "reopen"} \subseteq b => b \cap {"userCloses", "redraw"} = {}

\* The steps of the program that send a command put it with the others.
LEMMA CommandAdded ==
  ASSUME NEW name, NEW w \in H!Windows, cmds' = cmds \cup {H!Command(name, w)}
  PROVE  /\ H!Sent(name)' = H!Sent(name) \cup {w}
         /\ \A other : other # name => H!Sent(other)' = H!Sent(other)
         /\ name # "Open" => H!Opens' = H!Opens
  BY DEF H!Sent, H!Command, H!Opens

LEMMA OpenStays ==
  ASSUME GuiInv, H!Open, NoStaleClose
  PROVE  GuiInv'
<1>1. /\ script.call = H!NoCall /\ ~over
      /\ script' = [script EXCEPT !.call = [op |-> "open"], !.calls = @ + 0]
      /\ shared' = [shared EXCEPT ![0].failed = FALSE, ![0].ready = FALSE, ![0].closing = FALSE]
      /\ cmds' = cmds \cup {H!Command("Open", 0)}
      /\ ~script.has \/ ~H!IsOpen(0)
      /\ script.opened > 0 => "reopen" \in habit
  BY DEF H!Open, H!Calls
<1>2. UNCHANGED <<habit, dialog, over, host, live, asked, wanted>>
  BY DEF H!Open, H!threadVars, H!ghostVars
<1>3. /\ DOMAIN script' = ScriptFields /\ Op' = "open" /\ Op = "none" /\ script'.has = script.has
      /\ script'.known = script.known /\ script'.opened = script.opened /\ script'.next = script.next
  BY <1>1 DEF GuiInv, GuiTypes, ScriptFields, Op, H!NoCall
<1>4. /\ DOMAIN shared' = DOMAIN shared /\ ~shared'[0].failed /\ ~shared'[0].ready
      /\ ~shared'[0].closing /\ shared'[0].open = shared[0].open
      /\ DOMAIN shared'[0] = WindowFields
      /\ \A w \in DOMAIN shared : w # 0 => shared'[w] = shared[w]
  BY <1>1 DEF GuiInv, GuiTypes, WindowFields
<1>5. \A other : other # "Open" => H!Sent(other)' = H!Sent(other)
  BY <1>1, CommandAdded, BoundAssumption DEF H!Windows
<1>6. GuiTypes'
  BY <1>2, <1>3, <1>4 DEF GuiInv, GuiTypes
<1>7. CmdInv'
  BY <1>1, <1>2, <1>3, <1>4 DEF CmdInv
<1>8. ExtraInv'
  BY <1>2, <1>3, <1>5 DEF GuiInv, ExtraInv, Waiting
<1>9. AskedInv' /\ SessionInv' /\ KnownInv'
  BY <1>2, <1>3 DEF GuiInv, AskedInv, SessionInv, KnownInv
<1>10. CloseInv'
  BY <1>1, <1>2, <1>3, <1>4, <1>5 DEF GuiInv, CloseInv, HabitInv, SteadyInv, NoStaleClose
<1>11. FirstInv'
  BY <1>2, <1>3, <1>4 DEF GuiInv, GuiTypes, FirstInv, Ready, Opening, H!IsOpen
<1>12. ExtraOpenInv'
  BY <1>3 DEF ExtraOpenInv
<1>17. ReopenInv'
  BY <1>1, <1>2, <1>3, <1>4 DEF GuiInv, FirstInv, ReopenInv
<1>13. HabitInv'
  BY <1>1, <1>2, <1>3, <1>4, <1>5 DEF GuiInv, HabitInv, GuiTypes
<1>16. SteadyInv'
  BY <1>1, <1>2, <1>3, <1>4, <1>5 DEF GuiInv, SteadyInv, Opening, Ready
<1>14. DialogInv'
  BY <1>2, <1>3 DEF GuiInv, DialogInv
<1>15. QED
  BY <1>6, <1>7, <1>8, <1>9, <1>10, <1>11, <1>12, <1>13, <1>14, <1>16, <1>17 DEF GuiInv

\* A call that waits for no window begins or ends.
LEMMA PlainCalls ==
  ASSUME GuiInv, DOMAIN script' = ScriptFields, script'.has = script.has,
         script'.known = script.known, script'.opened = script.opened, script'.next = script.next,
         UNCHANGED <<habit, over, host, live, asked, wanted>>,
         DOMAIN shared' = DOMAIN shared,
         \A w \in DOMAIN shared :
           /\ DOMAIN shared'[w] = WindowFields
           /\ shared'[w].ready = shared[w].ready /\ shared'[w].failed = shared[w].failed
           /\ shared'[w].open = shared[w].open /\ shared'[w].closing = shared[w].closing,
         H!Opens' = H!Opens,
         \A other : other # "FileDialog" => H!Sent(other)' = H!Sent(other),
         Op \notin {"open", "openWindow"}, Op' \notin {"open", "openWindow"},
         over => script'.call = H!NoCall, dialog' \in DialogRec, DialogInv'
  PROVE  GuiInv'
<1>1. GuiTypes' /\ CmdInv'
  BY DEF GuiInv, GuiTypes, CmdInv
<1>2. ExtraInv'
  BY DEF GuiInv, ExtraInv, Waiting
<1>3. AskedInv' /\ SessionInv' /\ KnownInv'
  BY DEF GuiInv, AskedInv, SessionInv, KnownInv
<1>4. CloseInv'
  BY DEF GuiInv, CloseInv
<1>5. \A w : H!IsOpen(w) => H!IsOpen(w)'
  BY DEF H!IsOpen
<1>6. FirstInv'
  BY <1>5 DEF GuiInv, FirstInv, Opening
<1>7. ExtraOpenInv' /\ ReopenInv'
  BY <1>5 DEF GuiInv, ExtraOpenInv, ReopenInv
<1>8. HabitInv'
  BY DEF GuiInv, HabitInv
<1>9. SteadyInv'
  BY DEF GuiInv, SteadyInv, Opening
<1>10. QED
  BY <1>1, <1>2, <1>3, <1>4, <1>6, <1>7, <1>8, <1>9 DEF GuiInv

LEMMA SameCommands ==
  ASSUME UNCHANGED cmds
  PROVE  H!Opens' = H!Opens /\ \A other : H!Sent(other)' = H!Sent(other)
  BY DEF H!Opens, H!Sent

\* What a step leaves alone of the windows.
LEMMA SameWindows ==
  ASSUME GuiInv, UNCHANGED shared
  PROVE  /\ DOMAIN shared' = DOMAIN shared
         /\ \A w \in DOMAIN shared :
              /\ DOMAIN shared'[w] = WindowFields
              /\ shared'[w].ready = shared[w].ready /\ shared'[w].failed = shared[w].failed
              /\ shared'[w].open = shared[w].open /\ shared'[w].closing = shared[w].closing
  BY DEF GuiInv, GuiTypes

LEMMA PresentStays ==
  ASSUME GuiInv, NEW w, H!Present(w)
  PROVE  GuiInv'
<1>1. /\ script.call = H!NoCall /\ ~over /\ w \in DOMAIN shared
      /\ script' = [script EXCEPT
           !.call = [op |-> "present", win |-> w, want |-> shared[w].present + 1], !.calls = @ + 1]
      /\ shared' = [shared EXCEPT ![w].present = @ + 1]
  BY DEF H!Present, H!Calls
<1>2. UNCHANGED <<habit, over, host, live, asked, wanted, cmds, dialog>>
  BY DEF H!Present, H!threadVars, H!ghostVars
<1>3. /\ DOMAIN script' = ScriptFields /\ Op' = "present" /\ Op = "none"
      /\ script'.has = script.has /\ script'.known = script.known /\ script'.opened = script.opened
      /\ script'.next = script.next
  BY <1>1 DEF GuiInv, GuiTypes, ScriptFields, Op, H!NoCall
<1>4. /\ DOMAIN shared' = DOMAIN shared
      /\ \A v \in DOMAIN shared :
           /\ DOMAIN shared'[v] = WindowFields
           /\ shared'[v].ready = shared[v].ready /\ shared'[v].failed = shared[v].failed
           /\ shared'[v].open = shared[v].open /\ shared'[v].closing = shared[v].closing
  BY <1>1 DEF GuiInv, GuiTypes, WindowFields
<1>5. dialog' \in DialogRec /\ DialogInv'
  BY <1>2, <1>3 DEF GuiInv, GuiTypes, DialogInv
<1>6. Op \notin {"open", "openWindow"} /\ Op' \notin {"open", "openWindow"}
  BY <1>3
<1>7. over => script'.call = H!NoCall
  BY <1>1
<1>8. QED
  BY <1>2, <1>3, <1>4, <1>5, <1>6, <1>7, SameCommands, PlainCalls

LEMMA IdleStays ==
  ASSUME GuiInv, H!IdleWait
  PROVE  GuiInv'
<1>1. /\ script.call = H!NoCall /\ ~over
      /\ script' = [script EXCEPT !.call = [op |-> "idle", base |-> epoch], !.calls = @ + 1]
  BY DEF H!IdleWait, H!Calls
<1>2. UNCHANGED <<habit, over, host, live, asked, wanted, cmds, dialog, shared>>
  BY DEF H!IdleWait, H!threadVars, H!ghostVars
<1>3. /\ DOMAIN script' = ScriptFields /\ Op' = "idle" /\ Op = "none"
      /\ script'.has = script.has /\ script'.known = script.known /\ script'.opened = script.opened
      /\ script'.next = script.next
  BY <1>1 DEF GuiInv, GuiTypes, ScriptFields, Op, H!NoCall
<1>4. dialog' \in DialogRec /\ DialogInv'
  BY <1>2, <1>3 DEF GuiInv, GuiTypes, DialogInv
<1>5. Op \notin {"open", "openWindow"} /\ Op' \notin {"open", "openWindow"}
  BY <1>3
<1>6. over => script'.call = H!NoCall
  BY <1>1
<1>7. QED
  BY <1>2, <1>3, <1>4, <1>5, <1>6, SameCommands, SameWindows, PlainCalls

LEMMA ReturnStays ==
  ASSUME GuiInv, H!PresentReturns \/ H!IdleReturns \/ H!IdleTimesOut \/ H!FileReturns
  PROVE  GuiInv'
<1>1. /\ Op \in {"present", "idle", "dialog"}
      /\ script' = [script EXCEPT !.call = H!NoCall]
      /\ dialog' = dialog \/ dialog' = [dialog EXCEPT !.result = 0]
  BY DEF H!PresentReturns, H!IdleReturns, H!IdleTimesOut, H!FileReturns, H!Returns, Op
<1>2. UNCHANGED <<habit, over, host, live, asked, wanted, cmds, shared>>
  BY DEF H!PresentReturns, H!IdleReturns, H!IdleTimesOut, H!FileReturns, H!threadVars, H!ghostVars
<1>3. /\ DOMAIN script' = ScriptFields /\ Op' = "none" /\ script'.call = H!NoCall
      /\ script'.has = script.has /\ script'.known = script.known /\ script'.opened = script.opened
      /\ script'.next = script.next
  BY <1>1 DEF GuiInv, GuiTypes, ScriptFields, Op, H!NoCall
<1>4. dialog' \in DialogRec /\ dialog'.done = dialog.done /\ dialog'.seq = dialog.seq
  BY <1>1 DEF GuiInv, GuiTypes, DialogRec
<1>5. DialogInv'
  BY <1>2, <1>3, <1>4 DEF GuiInv, DialogInv
<1>6. Op \notin {"open", "openWindow"} /\ Op' \notin {"open", "openWindow"}
  BY <1>1, <1>3
<1>7. QED
  BY <1>2, <1>3, <1>4, <1>5, <1>6, SameCommands, SameWindows, PlainCalls

LEMMA AskFileStays ==
  ASSUME GuiInv, H!AskFile
  PROVE  GuiInv'
<1>1. /\ script.call = H!NoCall /\ ~over
      /\ script' = [script EXCEPT !.call = [op |-> "dialog", want |-> dialog.seq + 1], !.calls = @ + 1]
      /\ dialog' = [dialog EXCEPT !.seq = @ + 1, !.result = 0]
      /\ cmds' = cmds \cup {H!Command("FileDialog", 0)}
  BY DEF H!AskFile, H!Calls
<1>2. UNCHANGED <<habit, over, host, live, asked, wanted, shared>>
  BY DEF H!AskFile, H!threadVars, H!ghostVars
<1>3. /\ DOMAIN script' = ScriptFields /\ Op' = "dialog" /\ Op = "none"
      /\ script'.call.want = dialog.seq + 1
      /\ script'.has = script.has /\ script'.known = script.known /\ script'.opened = script.opened
      /\ script'.next = script.next
  BY <1>1 DEF GuiInv, GuiTypes, ScriptFields, Op, H!NoCall
<1>4. /\ dialog' \in DialogRec /\ dialog'.seq = dialog.seq + 1 /\ dialog'.done = dialog.done
      /\ dialog.seq \in Nat /\ dialog.done \in Nat /\ host.show \in Nat
  <2>1. dialog \in DialogRec /\ dialog.seq \in Nat /\ dialog.done \in Nat /\ host.show \in Nat
    BY DEF GuiInv, GuiTypes, DialogRec
  <2>2. PICK n \in Nat : n = dialog.seq + 1
    BY <2>1
  <2>3. dialog' = [dialog EXCEPT !.seq = n, !.result = 0]
    BY <1>1, <2>2
  <2>4. dialog' \in DialogRec /\ dialog'.seq = n /\ dialog'.done = dialog.done
    BY <2>1, <2>3 DEF DialogRec
  <2>5. QED
    BY <2>1, <2>2, <2>4
<1>5. DialogInv'
  BY <1>2, <1>3, <1>4 DEF GuiInv, DialogInv
<1>6. H!Opens' = H!Opens /\ \A other : other # "FileDialog" => H!Sent(other)' = H!Sent(other)
  BY <1>1, CommandAdded, BoundAssumption DEF H!Windows
<1>7. Op \notin {"open", "openWindow"} /\ Op' \notin {"open", "openWindow"}
  BY <1>3
<1>8. over => script'.call = H!NoCall
  BY <1>1
<1>9. QED
  BY <1>2, <1>3, <1>4, <1>5, <1>6, <1>7, <1>8, SameWindows, PlainCalls

\* Gui.open returns: with a window, or with an error.
LEMMA OpenReturnsStays ==
  ASSUME GuiInv, H!OpenReturns
  PROVE  GuiInv'
<1>1. /\ Op = "open"
      /\ \/ shared[0].failed /\ script' = [script EXCEPT !.call = H!NoCall]
         \/ /\ ~shared[0].failed /\ shared[0].ready
            /\ script' = [[script EXCEPT !.has = TRUE, !.opened = @ + 1, !.known = {}, !.next = 1]
                            EXCEPT !.call = H!NoCall]
  BY DEF H!OpenReturns, H!Returns, Op
<1>2. UNCHANGED <<habit, over, host, live, asked, wanted, cmds, shared, dialog>>
  BY DEF H!OpenReturns, H!threadVars, H!ghostVars
<1>3. /\ DOMAIN script' = ScriptFields /\ Op' = "none" /\ script'.call = H!NoCall
      /\ \/ /\ shared[0].failed /\ script'.has = script.has /\ script'.known = script.known
            /\ script'.opened = script.opened /\ script'.next = script.next
         \/ /\ ~shared[0].failed /\ shared[0].ready /\ script'.has /\ script'.known = {}
            /\ script'.opened = script.opened + 1 /\ script'.next = 1
  <2>1. DOMAIN script = ScriptFields
    BY DEF GuiInv, GuiTypes
  <2>2. CASE shared[0].failed /\ script' = [script EXCEPT !.call = H!NoCall]
    BY <1>1, <2>1, <2>2 DEF ScriptFields, Op, H!NoCall
  <2>3. CASE /\ ~shared[0].failed /\ shared[0].ready
             /\ script' = [[script EXCEPT !.has = TRUE, !.opened = @ + 1, !.known = {}, !.next = 1]
                             EXCEPT !.call = H!NoCall]
    <3>1. PICK n : n = script.opened + 1
      OBVIOUS
    <3>2. PICK s : s = [script EXCEPT !.has = TRUE, !.opened = n, !.known = {}, !.next = 1]
      OBVIOUS
    <3>3. script' = [s EXCEPT !.call = H!NoCall]
      BY <2>3, <3>1, <3>2
    <3>4. DOMAIN s = ScriptFields /\ s.has /\ s.known = {} /\ s.opened = n /\ s.next = 1
      BY <2>1, <3>2 DEF ScriptFields
    <3>5. /\ DOMAIN script' = ScriptFields /\ Op' = "none" /\ script'.call = H!NoCall
          /\ script'.has /\ script'.known = {} /\ script'.opened = n /\ script'.next = 1
      BY <3>3, <3>4 DEF ScriptFields, Op, H!NoCall
    <3>6. QED
      BY <2>3, <3>1, <3>5
  <2>4. QED
    BY <1>1, <2>2, <2>3
<1>4. H!Opens' = H!Opens /\ \A other : H!Sent(other)' = H!Sent(other)
  BY <1>2, SameCommands
<1>5. GuiTypes'
  BY <1>2, <1>3 DEF GuiInv, GuiTypes
<1>6. CmdInv'
  BY <1>1, <1>2, <1>3, <1>4 DEF GuiInv, CmdInv
<1>7. ExtraInv'
  BY <1>1, <1>2, <1>3, <1>4 DEF GuiInv, ExtraInv, Waiting
<1>8. AskedInv' /\ SessionInv' /\ KnownInv'
  BY <1>2, <1>3 DEF GuiInv, AskedInv, SessionInv, KnownInv
<1>9. CloseInv'
  BY <1>1, <1>2, <1>3, <1>4 DEF GuiInv, CloseInv
<1>10. 0 \in DOMAIN shared
  BY DEF GuiInv, GuiTypes
<1>11. FirstInv'
  BY <1>1, <1>2, <1>3, <1>10 DEF GuiInv, FirstInv, Opening, Ready, H!IsOpen
<1>12. script'.has /\ script'.known # {} => 0 \in wanted
  BY <1>1, <1>3 DEF GuiInv, ReopenInv
<1>13. ExtraOpenInv' /\ ReopenInv'
  BY <1>2, <1>3, <1>12 DEF ExtraOpenInv, ReopenInv
<1>14. HabitInv'
  BY <1>1, <1>2, <1>3, <1>4 DEF GuiInv, HabitInv, GuiTypes
<1>15. SteadyInv'
  BY <1>1, <1>2, <1>3, <1>4, <1>10 DEF GuiInv, SteadyInv, Opening, Ready
<1>16. DialogInv'
  BY <1>2, <1>3 DEF GuiInv, DialogInv
<1>17. QED
  BY <1>5, <1>6, <1>7, <1>8, <1>9, <1>11, <1>13, <1>14, <1>15, <1>16 DEF GuiInv

LEMMA OpenWindowStays ==
  ASSUME GuiInv, H!OpenWindow
  PROVE  GuiInv'
<1>0. PICK new : new = script.next
  OBVIOUS
<1>1. /\ script.call = H!NoCall /\ ~over /\ script.has /\ new \in H!Extras
      /\ script' = [script EXCEPT !.call = [op |-> "openWindow", win |-> new], !.calls = @ + 0]
      /\ shared' = [w \in DOMAIN shared \cup {new} |-> IF w = new THEN H!Window ELSE shared[w]]
      /\ cmds' = cmds \cup {H!Command("OpenExtra", new)}
  BY <1>0 DEF H!OpenWindow, H!Calls
<1>2. UNCHANGED <<habit, dialog, over, host, live, asked, wanted>>
  BY DEF H!OpenWindow, H!threadVars, H!ghostVars
<1>3. /\ DOMAIN script' = ScriptFields /\ Op' = "openWindow" /\ script'.call.win = new /\ Op = "none"
      /\ script'.has = script.has /\ script'.known = script.known /\ script'.opened = script.opened
      /\ script'.next = script.next
  <2>1. PICK c : c = [op |-> "openWindow", win |-> new]
    OBVIOUS
  <2>2. c.op = "openWindow" /\ c.win = new
    BY <2>1
  <2>3. script' = [script EXCEPT !.call = c, !.calls = @ + 0] /\ DOMAIN script = ScriptFields
    BY <1>1, <2>1 DEF GuiInv, GuiTypes
  <2>4. /\ DOMAIN script' = ScriptFields /\ script'.call = c
        /\ script'.has = script.has /\ script'.known = script.known
        /\ script'.opened = script.opened /\ script'.next = script.next
    BY <2>3 DEF ScriptFields
  <2>5. Op = "none"
    BY <1>1 DEF Op, H!NoCall
  <2>6. Op' = "openWindow" /\ script'.call.win = new
    BY <2>2, <2>4 DEF Op
  <2>7. QED
    BY <2>4, <2>5, <2>6
<1>4. 0 # new /\ 0 \in DOMAIN shared
  BY <1>1 DEF GuiInv, GuiTypes, H!Extras
<1>5. /\ DOMAIN shared' = DOMAIN shared \cup {new}
      /\ shared'[new] = H!Window
      /\ \A w \in DOMAIN shared : w # new => shared'[w] = shared[w]
  BY <1>1
<1>6. DOMAIN H!Window = WindowFields /\ ~H!Window.ready /\ ~H!Window.failed
  BY DEF H!Window, WindowFields
<1>7. /\ H!Sent("OpenExtra")' = H!Sent("OpenExtra") \cup {new}
      /\ \A other : other # "OpenExtra" => H!Sent(other)' = H!Sent(other)
      /\ H!Opens' = H!Opens
  BY <1>1, CommandAdded DEF H!Extras
<1>8. host.opening = {} /\ H!Sent("OpenExtra") = {}
  BY <1>3 DEF GuiInv, ExtraInv, Waiting
<1>9. GuiTypes'
  BY <1>2, <1>3, <1>4, <1>5, <1>6 DEF GuiInv, GuiTypes
<1>10. CmdInv'
  BY <1>1, <1>2, <1>3, <1>5, <1>7 DEF GuiInv, CmdInv
<1>11. ExtraInv'
  BY <1>1, <1>2, <1>3, <1>5, <1>6, <1>7, <1>8 DEF GuiInv, ExtraInv, Waiting
<1>12. AskedInv' /\ SessionInv' /\ KnownInv'
  BY <1>0, <1>2, <1>3 DEF GuiInv, AskedInv, SessionInv, KnownInv
<1>13. CloseInv'
  BY <1>3, <1>2, <1>7 DEF GuiInv, CloseInv
<1>14. FirstInv' /\ ReopenInv'
  BY <1>1, <1>2, <1>3, <1>4, <1>5 DEF GuiInv, FirstInv, ReopenInv, Opening, H!IsOpen
<1>15. ExtraOpenInv'
  <2>1. SUFFICES ASSUME NEW w \in H!Extras, ~over', ({0, w} \cap wanted = {})',
                        (\/ script.has /\ Op # "open" /\ w \in script.known
                         \/ Op = "openWindow" /\ script.call.win = w /\ Ready(w))'
                 PROVE  H!IsOpen(w)'
    BY DEF ExtraOpenInv
  <2>2. CASE w = new
    <3>1. new \notin script.known /\ new \in Nat
      BY <1>0 DEF GuiInv, KnownInv
    <3>2. ~Ready(new)'
      BY <1>5, <1>6 DEF Ready
    <3>3. QED
      BY <1>3, <2>1, <2>2, <3>1, <3>2
  <2>3. CASE w # new
    BY <1>1, <1>2, <1>3, <1>5, <2>1, <2>3 DEF GuiInv, ExtraOpenInv, H!IsOpen
  <2>4. QED
    BY <2>2, <2>3
<1>16. HabitInv'
  BY <1>2, <1>3, <1>7 DEF GuiInv, HabitInv
<1>17. SteadyInv'
  BY <1>1, <1>2, <1>3, <1>7 DEF GuiInv, SteadyInv, Opening
<1>18. DialogInv'
  BY <1>2, <1>3 DEF GuiInv, DialogInv
<1>19. QED
  BY <1>9, <1>10, <1>11, <1>12, <1>13, <1>14, <1>15, <1>16, <1>17, <1>18 DEF GuiInv

\* Gui.openWindow returns: with a window, or its entry dropped.
LEMMA OpenWindowReturnsStays ==
  ASSUME GuiInv, H!OpenWindowReturns
  PROVE  GuiInv'
<1>0. PICK w : w = script.call.win
  OBVIOUS
<1>1. /\ Op = "openWindow"
      /\ \/ /\ shared[w].failed
            /\ shared' = [v \in DOMAIN shared \ {w} |-> shared[v]]
            /\ script' = [[script EXCEPT !.next = w + 1] EXCEPT !.call = H!NoCall]
         \/ /\ ~shared[w].failed /\ shared[w].ready /\ shared' = shared
            /\ script' = [[script EXCEPT !.next = w + 1, !.known = @ \cup {w}] EXCEPT !.call = H!NoCall]
  BY <1>0 DEF H!OpenWindowReturns, H!Returns, Op
<1>2. UNCHANGED <<habit, over, host, live, asked, wanted, cmds, dialog>>
  BY DEF H!OpenWindowReturns, H!threadVars, H!ghostVars
<1>3. w \in H!Extras /\ w \in DOMAIN shared /\ w = script.next /\ script.has /\ DOMAIN script = ScriptFields
      /\ w \in Nat /\ w # 0 /\ 0 \in DOMAIN shared
  BY <1>0, <1>1 DEF GuiInv, CmdInv, KnownInv, GuiTypes, H!Extras
<1>4. /\ DOMAIN script' = ScriptFields /\ Op' = "none" /\ script'.call = H!NoCall
      /\ script'.has = script.has /\ script'.opened = script.opened /\ script'.next = w + 1
      /\ \/ /\ shared[w].failed /\ script'.known = script.known
            /\ shared' = [v \in DOMAIN shared \ {w} |-> shared[v]]
         \/ /\ ~shared[w].failed /\ shared[w].ready /\ script'.known = script.known \cup {w}
            /\ shared' = shared
  <2>1. PICK n : n = w + 1
    OBVIOUS
  <2>2. CASE /\ shared[w].failed
             /\ shared' = [v \in DOMAIN shared \ {w} |-> shared[v]]
             /\ script' = [[script EXCEPT !.next = w + 1] EXCEPT !.call = H!NoCall]
    <3>1. PICK s : s = [script EXCEPT !.next = n]
      OBVIOUS
    <3>2. /\ DOMAIN s = ScriptFields /\ s.next = n /\ s.has = script.has /\ s.opened = script.opened
          /\ s.known = script.known
      BY <1>3, <3>1 DEF ScriptFields
    <3>3. script' = [s EXCEPT !.call = H!NoCall]
      BY <2>1, <2>2, <3>1
    <3>4. /\ DOMAIN script' = ScriptFields /\ Op' = "none" /\ script'.call = H!NoCall
          /\ script'.next = n /\ script'.has = script.has /\ script'.opened = script.opened
          /\ script'.known = script.known
      BY <3>2, <3>3 DEF ScriptFields, Op, H!NoCall
    <3>5. QED
      BY <2>1, <2>2, <3>4
  <2>3. CASE /\ ~shared[w].failed /\ shared[w].ready /\ shared' = shared
             /\ script' = [[script EXCEPT !.next = w + 1, !.known = @ \cup {w}] EXCEPT !.call = H!NoCall]
    <3>1. PICK s : s = [script EXCEPT !.next = n, !.known = @ \cup {w}]
      OBVIOUS
    <3>2. /\ DOMAIN s = ScriptFields /\ s.next = n /\ s.has = script.has /\ s.opened = script.opened
          /\ s.known = script.known \cup {w}
      BY <1>3, <3>1 DEF ScriptFields
    <3>3. script' = [s EXCEPT !.call = H!NoCall]
      BY <2>1, <2>3, <3>1
    <3>4. /\ DOMAIN script' = ScriptFields /\ Op' = "none" /\ script'.call = H!NoCall
          /\ script'.next = n /\ script'.has = script.has /\ script'.opened = script.opened
          /\ script'.known = script.known \cup {w}
      BY <3>2, <3>3 DEF ScriptFields, Op, H!NoCall
    <3>5. QED
      BY <2>1, <2>3, <3>4
  <2>4. QED
    BY <1>1, <2>2, <2>3
<1>5. /\ DOMAIN shared' \subseteq DOMAIN shared /\ 0 \in DOMAIN shared'
      /\ \A v \in DOMAIN shared' : shared'[v] = shared[v]
      /\ \A v \in DOMAIN shared : v # w => v \in DOMAIN shared'
  BY <1>3, <1>4
<1>6. H!Opens' = H!Opens /\ \A other : H!Sent(other)' = H!Sent(other)
  BY <1>2, SameCommands
<1>7. script'.known \subseteq script.known \cup {w}
      /\ (w \in script'.known => shared' = shared /\ shared[w].ready /\ ~shared[w].failed)
  BY <1>3, <1>4 DEF GuiInv, KnownInv
<1>9. host.opening = {} /\ H!Sent("OpenExtra") = {}
  BY <1>0, <1>4 DEF GuiInv, ExtraInv, Waiting
<1>10. GuiTypes'
  BY <1>2, <1>3, <1>4, <1>5, <1>7 DEF GuiInv, GuiTypes
<1>11. CmdInv'
  BY <1>1, <1>2, <1>4, <1>6 DEF GuiInv, CmdInv
<1>12. ExtraInv'
  BY <1>2, <1>6, <1>9 DEF GuiInv, ExtraInv
<1>13. AskedInv' /\ SessionInv'
  BY <1>2 DEF GuiInv, AskedInv, SessionInv
<1>14. CloseInv'
  BY <1>2, <1>4, <1>6 DEF GuiInv, CloseInv
<1>15. KnownInv'
  <2>1. w + 1 \in Nat /\ \A v \in script.known \cup {w} : v < w + 1
    BY <1>3 DEF GuiInv, KnownInv, GuiTypes, H!Extras, H!Windows
  <2>2. QED
    BY <1>4, <1>7, <2>1 DEF KnownInv
<1>16. FirstInv' /\ ReopenInv'
  BY <1>1, <1>2, <1>3, <1>4, <1>5 DEF GuiInv, FirstInv, ReopenInv, Opening, H!IsOpen
<1>17. ExtraOpenInv'
  <2>1. SUFFICES ASSUME NEW v \in H!Extras, ~over, {0, v} \cap wanted = {}, v \in script'.known
                 PROVE  H!IsOpen(v)'
    BY <1>2, <1>4 DEF ExtraOpenInv
  <2>2. CASE v = w
    <3>1. shared' = shared /\ Ready(w)
      BY <1>3, <1>7, <2>1, <2>2 DEF Ready
    <3>2. H!IsOpen(w)
      BY <1>0, <1>1, <1>3, <2>1, <2>2, <3>1 DEF GuiInv, ExtraOpenInv
    <3>3. QED
      BY <2>2, <3>1, <3>2 DEF H!IsOpen
  <2>3. CASE v # w
    <3>1. H!IsOpen(v)
      BY <1>1, <1>3, <1>7, <2>1, <2>3 DEF GuiInv, ExtraOpenInv
    <3>2. QED
      BY <1>5, <2>3, <3>1 DEF H!IsOpen
  <2>4. QED
    BY <2>2, <2>3
<1>18. HabitInv'
  BY <1>2, <1>4, <1>6 DEF GuiInv, HabitInv
<1>19. SteadyInv'
  BY <1>1, <1>2, <1>3, <1>4, <1>6 DEF GuiInv, SteadyInv, Opening
<1>a. DialogInv'
  BY <1>2, <1>4 DEF GuiInv, DialogInv
<1>21. QED
  BY <1>10, <1>11, <1>12, <1>13, <1>14, <1>15, <1>16, <1>17, <1>18, <1>19, <1>a DEF GuiInv

\* Closing: the command, and for a window of Gui.openWindow its flag.
LEMMA CloseStays ==
  ASSUME GuiInv, H!Close
  PROVE  GuiInv'
<1>1. /\ "close" \in habit /\ script.has /\ script.call = H!NoCall /\ ~over
      /\ script' = [script EXCEPT !.has = FALSE, !.known = {}]
      /\ cmds' = cmds \cup {H!Command("Close", 0)}
      /\ wanted' = wanted \cup {0}
  BY DEF H!Close
<1>2. UNCHANGED <<habit, shared, dialog, over, host, live, asked>>
  BY DEF H!Close, H!threadVars
<1>3. /\ DOMAIN script' = ScriptFields /\ Op' = "none" /\ Op = "none" /\ script'.call = H!NoCall
      /\ ~script'.has /\ script'.known = {} /\ script'.opened = script.opened
      /\ script'.next = script.next
  BY <1>1 DEF GuiInv, GuiTypes, ScriptFields, Op, H!NoCall
<1>4. /\ H!Sent("Close")' = H!Sent("Close") \cup {0}
      /\ \A other : other # "Close" => H!Sent(other)' = H!Sent(other)
      /\ H!Opens' = H!Opens
  BY <1>1, CommandAdded, BoundAssumption DEF H!Windows
<1>5. GuiTypes' /\ CmdInv'
  BY <1>2, <1>3, <1>4 DEF GuiInv, GuiTypes, CmdInv
<1>6. ExtraInv' /\ AskedInv'
  BY <1>1, <1>2, <1>3, <1>4 DEF GuiInv, ExtraInv, AskedInv, Waiting
<1>7. SessionInv' /\ KnownInv'
  BY <1>2, <1>3 DEF GuiInv, SessionInv, KnownInv
<1>8. CloseInv' /\ FirstInv' /\ ReopenInv' /\ ExtraOpenInv'
  BY <1>1, <1>3, <1>4 DEF GuiInv, CloseInv, FirstInv, Opening, ReopenInv, ExtraOpenInv
<1>9. HabitInv'
  BY <1>1, <1>2, <1>3, <1>4 DEF GuiInv, HabitInv
<1>10. SteadyInv'
  BY <1>1, <1>2, <1>3 DEF GuiInv, SteadyInv
<1>11. DialogInv'
  BY <1>2, <1>3 DEF GuiInv, DialogInv
<1>12. QED
  BY <1>5, <1>6, <1>7, <1>8, <1>9, <1>10, <1>11 DEF GuiInv

LEMMA CloseWindowStays ==
  ASSUME GuiInv, NEW w \in H!Extras, H!CloseWindow(w)
  PROVE  GuiInv'
<1>1. /\ w \in script.known /\ script.call = H!NoCall /\ ~over
      /\ script' = [script EXCEPT !.known = @ \ {w}]
      /\ shared' = [v \in DOMAIN shared |->
                      IF v = w THEN [shared[v] EXCEPT !.closing = TRUE] ELSE shared[v]]
      /\ cmds' = cmds \cup {H!Command("CloseExtra", w)}
      /\ wanted' = wanted \cup {w}
  BY DEF H!CloseWindow
<1>2. UNCHANGED <<habit, dialog, over, host, live, asked>>
  BY DEF H!CloseWindow, H!threadVars
<1>3. /\ DOMAIN script' = ScriptFields /\ Op' = "none" /\ Op = "none" /\ script'.call = H!NoCall
      /\ script'.has = script.has /\ script'.known = script.known \ {w}
      /\ script'.opened = script.opened /\ script'.next = script.next
  BY <1>1 DEF GuiInv, GuiTypes, ScriptFields, Op, H!NoCall
<1>4. w # 0 /\ w \in H!Windows
  BY DEF H!Extras
<1>5. /\ DOMAIN shared' = DOMAIN shared
      /\ \A v \in DOMAIN shared : DOMAIN shared'[v] = WindowFields
      /\ \A v \in DOMAIN shared : v # w => shared'[v] = shared[v]
  BY <1>1 DEF GuiInv, GuiTypes, WindowFields
<1>6. /\ H!Sent("CloseExtra")' = H!Sent("CloseExtra") \cup {w}
      /\ \A other : other # "CloseExtra" => H!Sent(other)' = H!Sent(other)
      /\ H!Opens' = H!Opens
  BY <1>1, <1>4, CommandAdded
<1>7. host.opening = {} /\ H!Sent("OpenExtra") = {}
  BY <1>3 DEF GuiInv, ExtraInv, Waiting
<1>8. GuiTypes' /\ CmdInv'
  BY <1>2, <1>3, <1>5, <1>6 DEF GuiInv, GuiTypes, CmdInv
<1>9. ExtraInv' /\ AskedInv'
  BY <1>1, <1>2, <1>6, <1>7 DEF GuiInv, ExtraInv, AskedInv
<1>10. SessionInv' /\ KnownInv'
  BY <1>2, <1>3 DEF GuiInv, SessionInv, KnownInv
<1>11. CloseInv' /\ ReopenInv'
  BY <1>3, <1>2, <1>6 DEF GuiInv, CloseInv, ReopenInv
<1>12. FirstInv' /\ ExtraOpenInv'
  BY <1>1, <1>2, <1>3, <1>4, <1>5 DEF GuiInv, FirstInv, Opening, ExtraOpenInv, H!IsOpen
<1>13. HabitInv' /\ SteadyInv'
  BY <1>2, <1>3, <1>6 DEF GuiInv, HabitInv, SteadyInv, Opening
<1>14. DialogInv'
  BY <1>2, <1>3 DEF GuiInv, DialogInv
<1>15. QED
  BY <1>8, <1>9, <1>10, <1>11, <1>12, <1>13, <1>14 DEF GuiInv

\* The program ends: nothing is asked of its windows any more.
LEMMA EndsStays ==
  ASSUME GuiInv, H!Ends
  PROVE  GuiInv'
<1>1. script.call = H!NoCall /\ ~over /\ over'
      /\ UNCHANGED <<habit, shared, cmds, dialog, script, host, live, asked, wanted>>
  BY DEF H!Ends, H!threadVars, H!ghostVars
<1>2. H!Opens' = H!Opens /\ \A other : H!Sent(other)' = H!Sent(other)
  BY <1>1, SameCommands
<1>a. Op' = Op /\ script'.call = script.call
  BY <1>1 DEF Op
<1>3. GuiTypes' /\ CmdInv'
  BY <1>1, <1>2, <1>a DEF GuiInv, GuiTypes, CmdInv
<1>4. ExtraInv' /\ AskedInv'
  BY <1>1, <1>2, <1>a DEF GuiInv, ExtraInv, AskedInv, Waiting
<1>5. SessionInv' /\ CloseInv' /\ KnownInv' /\ ReopenInv'
  BY <1>1, <1>2, <1>a DEF GuiInv, SessionInv, CloseInv, KnownInv, ReopenInv
<1>6. FirstInv' /\ ExtraOpenInv'
  BY <1>1 DEF FirstInv, ExtraOpenInv
<1>7. HabitInv' /\ SteadyInv'
  BY <1>1, <1>2, <1>a DEF GuiInv, HabitInv, SteadyInv
<1>8. DialogInv'
  BY <1>1, <1>a DEF GuiInv, DialogInv
<1>9. QED
  BY <1>3, <1>4, <1>5, <1>6, <1>7, <1>8 DEF GuiInv

\* The window thread leaves, or notes what the user did to a window.
LEMMA NotedStays ==
  ASSUME GuiInv, NEW w \in H!Windows,
         UNCHANGED <<habit, shared, cmds, dialog, script, live, over>>,
         DOMAIN host' = HostFields, host'.session = host.session,
         host'.opening = host.opening, host'.show = host.show, host'.back = host.back,
         host'.pc = host.pc \/ host'.pc = "ended",
         \/ asked' = asked /\ wanted' = wanted
         \/ /\ w \in live /\ asked' = asked \cup {w} /\ wanted' = wanted \cup {w}
            /\ w = 0 => "userCloses" \in habit
  PROVE  GuiInv'
<1>1. H!Opens' = H!Opens /\ \A other : H!Sent(other)' = H!Sent(other)
  BY SameCommands
<1>a. Op' = Op /\ script'.call = script.call
  BY DEF Op
<1>2. GuiTypes' /\ CmdInv'
  BY <1>1, <1>a DEF GuiInv, GuiTypes, CmdInv
<1>3. ExtraInv' /\ AskedInv'
  BY <1>1, <1>a DEF GuiInv, ExtraInv, AskedInv, Waiting
<1>4. SessionInv' /\ CloseInv' /\ KnownInv' /\ ReopenInv'
  BY <1>1, <1>a DEF GuiInv, SessionInv, CloseInv, KnownInv, ReopenInv
<1>5. FirstInv' /\ ExtraOpenInv'
  BY <1>a DEF GuiInv, FirstInv, Opening, Ready, ExtraOpenInv, H!IsOpen
<1>6. HabitInv'
  BY <1>1, <1>a DEF GuiInv, HabitInv
<1>7. SteadyInv'
  BY <1>1, <1>a DEF GuiInv, SteadyInv, Opening, Ready
<1>8. DialogInv'
  BY <1>a DEF GuiInv, DialogInv
<1>9. QED
  BY <1>2, <1>3, <1>4, <1>5, <1>6, <1>7, <1>8 DEF GuiInv

LEMMA LeaveStays ==
  ASSUME GuiInv, H!Leave
  PROVE  GuiInv'
<1>1. /\ UNCHANGED <<habit, shared, cmds, dialog, script, live, over, asked, wanted>>
      /\ host' = [host EXCEPT !.pc = "ended"]
  BY DEF H!Leave, H!threadVars, H!ghostVars
<1>2. /\ DOMAIN host' = HostFields /\ host'.session = host.session /\ host'.opening = host.opening
      /\ host'.show = host.show /\ host'.back = host.back /\ host'.pc = "ended"
  BY <1>1 DEF GuiInv, GuiTypes, HostFields
<1>3. 0 \in H!Windows
  BY BoundAssumption DEF H!Windows
<1>4. QED
  BY <1>1, <1>2, <1>3, NotedStays

LEMMA UserStays ==
  ASSUME GuiInv, NEW w \in H!Windows, H!UserTypes(w) \/ H!UserCloses(w)
  PROVE  GuiInv'
<1>1. /\ UNCHANGED <<habit, shared, cmds, dialog, script, live, over>>
      /\ \E b : host' = [host EXCEPT !.pending = b]
      /\ \/ asked' = asked /\ wanted' = wanted
         \/ /\ w \in live /\ asked' = asked \cup {w} /\ wanted' = wanted \cup {w}
            /\ w = 0 => "userCloses" \in habit
  <2>1. CASE H!UserTypes(w)
    BY <2>1 DEF H!UserTypes
  <2>2. CASE H!UserCloses(w)
    BY <2>2 DEF H!UserCloses
  <2>3. QED
    BY <2>1, <2>2
<1>2. PICK b : host' = [host EXCEPT !.pending = b]
  BY <1>1
<1>3. /\ DOMAIN host' = HostFields /\ host'.session = host.session /\ host'.opening = host.opening
      /\ host'.show = host.show /\ host'.back = host.back /\ host'.pc = host.pc
  BY <1>2 DEF GuiInv, GuiTypes, HostFields
<1>4. QED
  BY <1>1, <1>3, NotedStays

LEMMA StartSessionStays ==
  ASSUME GuiInv, H!StartSession
  PROVE  GuiInv'
<1>1. H!Opens # {} /\ ~over /\ UNCHANGED <<habit, dialog, over, script, live, wanted>>
  BY DEF H!StartSession, H!ghostVars
<1>2. Op = "open" /\ ~shared[0].ready /\ ~shared[0].failed
  BY <1>1 DEF GuiInv, CmdInv
<1>3. Op' = Op /\ script'.call = script.call /\ host.opening = {} /\ H!Sent("OpenExtra") = {}
  BY <1>1, <1>2 DEF GuiInv, ExtraInv, Waiting, Op
<1>4. DOMAIN shared[0] = WindowFields /\ 0 \in DOMAIN shared
  BY DEF GuiInv, GuiTypes
<1>5. CASE /\ host' = [host EXCEPT !.pc = "pump", !.session = TRUE, !.loop = TRUE]
           /\ asked' = asked \ {0}
           /\ shared' = [shared EXCEPT ![0].ready = FALSE, ![0].done = 0, ![0].present = 0]
           /\ UNCHANGED cmds
  <2>1. H!Opens' = H!Opens /\ \A other : H!Sent(other)' = H!Sent(other)
    BY <1>5, SameCommands
  <2>2. /\ DOMAIN shared' = DOMAIN shared /\ DOMAIN shared'[0] = WindowFields
        /\ ~shared'[0].ready /\ shared'[0].failed = shared[0].failed
        /\ shared'[0].open = shared[0].open /\ shared'[0].closing = shared[0].closing
        /\ \A w \in DOMAIN shared : w # 0 => shared'[w] = shared[w]
    BY <1>4, <1>5 DEF WindowFields
  <2>3. /\ DOMAIN host' = HostFields /\ host'.session /\ host'.pc = "pump"
        /\ host'.opening = host.opening /\ host'.show = host.show /\ host'.back = host.back
    BY <1>5 DEF GuiInv, GuiTypes, HostFields
  <2>4. GuiTypes'
    BY <1>1, <2>2, <2>3 DEF GuiInv, GuiTypes
  <2>5. CmdInv' /\ ExtraInv'
    BY <1>1, <1>2, <1>3, <2>1, <2>2, <2>3 DEF GuiInv, CmdInv, ExtraInv
  <2>6. AskedInv' /\ SessionInv' /\ KnownInv'
    BY <1>1, <1>3, <1>5, <2>3 DEF GuiInv, AskedInv, SessionInv, KnownInv
  <2>7. CloseInv' /\ ReopenInv'
    BY <1>1, <1>2, <1>3, <2>1, <2>2 DEF GuiInv, CloseInv, ReopenInv
  <2>8. FirstInv' /\ ExtraOpenInv'
    BY <1>1, <1>2, <1>3, <1>4, <2>2 DEF GuiInv, FirstInv, Opening, Ready, ExtraOpenInv, H!IsOpen
  <2>9. HabitInv'
    BY <1>1, <1>3, <2>1 DEF GuiInv, HabitInv
  <2>10. SteadyInv'
    BY <1>1, <1>3, <1>5, <2>1, <2>2, <2>3 DEF GuiInv, SteadyInv, Opening, Ready
  <2>11. DialogInv'
    BY <1>1, <1>3, <2>3 DEF GuiInv, DialogInv
  <2>12. QED
    BY <2>4, <2>5, <2>6, <2>7, <2>8, <2>9, <2>10, <2>11 DEF GuiInv
<1>6. CASE /\ shared' = [shared EXCEPT ![0].failed = TRUE] /\ cmds' = {}
           /\ UNCHANGED <<host, asked, last>>
  <2>1. H!Opens' = {} /\ \A other : H!Sent(other)' = {}
    BY <1>6 DEF H!Opens, H!Sent
  <2>2. /\ DOMAIN shared' = DOMAIN shared /\ DOMAIN shared'[0] = WindowFields
        /\ shared'[0].ready = shared[0].ready /\ shared'[0].failed
        /\ shared'[0].open = shared[0].open /\ shared'[0].closing = shared[0].closing
        /\ \A w \in DOMAIN shared : w # 0 => shared'[w] = shared[w]
    BY <1>4, <1>6 DEF WindowFields
  <2>3. GuiTypes'
    BY <1>1, <1>6, <2>2 DEF GuiInv, GuiTypes
  <2>4. CmdInv' /\ ExtraInv'
    BY <1>1, <1>2, <1>3, <1>6, <2>1, <2>2 DEF GuiInv, CmdInv, ExtraInv
  <2>5. AskedInv' /\ SessionInv' /\ KnownInv'
    BY <1>1, <1>3, <1>6 DEF GuiInv, AskedInv, SessionInv, KnownInv
  <2>6. CloseInv' /\ ReopenInv'
    BY <1>1, <1>2, <1>3, <2>1, <2>2 DEF GuiInv, CloseInv, ReopenInv
  <2>7. FirstInv' /\ ExtraOpenInv'
    BY <1>1, <1>2, <1>3, <1>4, <2>2 DEF GuiInv, FirstInv, Opening, Ready, ExtraOpenInv, H!IsOpen
  <2>8. HabitInv'
    BY <1>1, <1>3, <2>1 DEF GuiInv, HabitInv
  <2>9. SteadyInv'
    BY <1>1, <1>2, <1>3, <1>6, <2>1, <2>2 DEF GuiInv, SteadyInv, Opening, Ready
  <2>10. DialogInv'
    BY <1>1, <1>3, <1>6 DEF GuiInv, DialogInv
  <2>11. QED
    BY <2>3, <2>4, <2>5, <2>6, <2>7, <2>8, <2>9, <2>10 DEF GuiInv
<1>7. QED
  BY <1>5, <1>6 DEF H!StartSession

LEMMA DiscardStays ==
  ASSUME GuiInv, H!Discard
  PROVE  GuiInv'
<1>1. /\ cmds' = {}
      /\ UNCHANGED <<habit, shared, dialog, over, script, host, live, asked, wanted>>
  BY DEF H!Discard, H!threadVars, H!ghostVars
<1>2. H!Opens' = {} /\ \A other : H!Sent(other)' = {}
  BY <1>1 DEF H!Opens, H!Sent
<1>3. Op' = Op /\ script'.call = script.call
  BY <1>1 DEF Op
<1>4. GuiTypes' /\ CmdInv'
  BY <1>1, <1>2, <1>3 DEF GuiInv, GuiTypes, CmdInv
<1>5. ExtraInv' /\ AskedInv'
  BY <1>1, <1>2, <1>3 DEF GuiInv, ExtraInv, AskedInv, Waiting
<1>6. SessionInv' /\ CloseInv' /\ KnownInv' /\ ReopenInv'
  BY <1>1, <1>2, <1>3 DEF GuiInv, SessionInv, CloseInv, KnownInv, ReopenInv
<1>7. FirstInv' /\ ExtraOpenInv'
  BY <1>1, <1>3 DEF GuiInv, FirstInv, Opening, Ready, ExtraOpenInv, H!IsOpen
<1>8. HabitInv'
  BY <1>1, <1>2, <1>3 DEF GuiInv, HabitInv
<1>9. SteadyInv'
  BY <1>1, <1>2, <1>3 DEF GuiInv, SteadyInv, Opening, Ready
<1>10. DialogInv'
  BY <1>1, <1>3 DEF GuiInv, DialogInv
<1>11. QED
  BY <1>4, <1>5, <1>6, <1>7, <1>8, <1>9, <1>10 DEF GuiInv

\* The user answers the dialog, and a session is checked after its pump.
LEMMA AnsweredStays ==
  ASSUME GuiInv, UNCHANGED <<habit, shared, cmds, over, script, live, asked, wanted>>,
         DOMAIN host' = HostFields, host'.opening = host.opening, host'.back = host.back,
         host'.show \in Nat, dialog' \in DialogRec, DialogInv',
         host.pc \in {"pump", "pumped", "dialog", "check"},
         \/ host'.pc = host.back /\ (host'.session <=> host.session) /\ host.pc = "dialog"
         \/ host'.pc = "pump" /\ host'.session /\ host.session
         \/ host'.pc = "idle" /\ (0 \in live => (host'.session <=> host.session))
  PROVE  GuiInv'
<1>1. H!Opens' = H!Opens /\ \A other : H!Sent(other)' = H!Sent(other)
  BY SameCommands
<1>2. Op' = Op /\ script'.call = script.call
  BY DEF Op
<1>3. GuiTypes' /\ CmdInv'
  BY <1>1, <1>2 DEF GuiInv, GuiTypes, CmdInv
<1>4. ExtraInv' /\ AskedInv'
  BY <1>1, <1>2 DEF GuiInv, ExtraInv, AskedInv, Waiting
<1>5. SessionInv'
  BY DEF GuiInv, SessionInv
<1>6. CloseInv' /\ KnownInv' /\ ReopenInv'
  BY <1>1, <1>2 DEF GuiInv, CloseInv, KnownInv, ReopenInv
<1>7. FirstInv' /\ ExtraOpenInv'
  BY <1>2 DEF GuiInv, FirstInv, Opening, Ready, ExtraOpenInv, H!IsOpen
<1>8. HabitInv'
  BY <1>1, <1>2 DEF GuiInv, HabitInv
<1>9. SteadyInv'
  BY <1>1, <1>2 DEF GuiInv, SteadyInv, Opening, Ready
<1>10. QED
  BY <1>3, <1>4, <1>5, <1>6, <1>7, <1>8, <1>9 DEF GuiInv

LEMMA UserAnswersStays ==
  ASSUME GuiInv, H!UserAnswers
  PROVE  GuiInv'
<1>1. /\ host.pc = "dialog" /\ dialog' = [dialog EXCEPT !.done = host.show, !.result = host.show]
      /\ host' = [host EXCEPT !.pc = host.back, !.show = 0]
      /\ UNCHANGED <<habit, shared, cmds, over, script, live, asked, wanted>>
  BY DEF H!UserAnswers, H!threadVars, H!ghostVars
<1>2. /\ DOMAIN host' = HostFields /\ host'.session = host.session /\ host'.opening = host.opening
      /\ host'.show = 0 /\ host'.back = host.back /\ host'.pc = host.back
  BY <1>1 DEF GuiInv, GuiTypes, HostFields
<1>3. /\ dialog' \in DialogRec /\ dialog'.seq = dialog.seq /\ dialog'.done = host.show
      /\ dialog'.result = host.show /\ dialog.seq \in Nat /\ host.show \in Nat
  BY <1>1 DEF GuiInv, GuiTypes, DialogRec
<1>4. DialogInv'
  BY <1>1, <1>2, <1>3 DEF GuiInv, DialogInv, Op
<1>5. host'.show \in Nat
  BY <1>2
<1>6. host'.pc = host.back /\ (host'.session <=> host.session) /\ host.pc = "dialog"
  BY <1>1, <1>2
<1>7. QED
  BY <1>1, <1>2, <1>3, <1>4, <1>5, <1>6, AnsweredStays

LEMMA CheckStays ==
  ASSUME GuiInv, H!Check
  PROVE  GuiInv'
<1>0. PICK s : s = (host.session /\ ~(0 \notin live /\ shared[0].failed))
  OBVIOUS
<1>1. /\ host.pc = "check"
      /\ host' = [host EXCEPT !.session = s, !.pc = IF s THEN "pump" ELSE "idle"]
      /\ UNCHANGED <<habit, shared, cmds, over, script, live, asked, wanted, dialog>>
  BY <1>0 DEF H!Check, H!threadVars, H!ghostVars
<1>2. /\ DOMAIN host' = HostFields /\ host'.session = s /\ host'.opening = host.opening
      /\ host'.show = host.show /\ host'.back = host.back
      /\ host'.pc = IF s THEN "pump" ELSE "idle"
  BY <1>1 DEF GuiInv, GuiTypes, HostFields
<1>3. dialog' \in DialogRec /\ host'.show \in Nat /\ DialogInv'
  BY <1>1, <1>2 DEF GuiInv, GuiTypes, DialogInv, Op
<1>4. \/ host'.pc = "pump" /\ host'.session /\ host.session
      \/ host'.pc = "idle" /\ (0 \in live => (host'.session <=> host.session))
  BY <1>0, <1>2
<1>5. QED
  BY <1>1, <1>2, <1>3, <1>4, AnsweredStays

\* A service: the commands, the frames, the closing.  A window that nobody
\* wanted closed is not ended by it, for a session that is over has no other
\* windows than the first.
LEMMA ServiceStays ==
  ASSUME GuiInv, NEW pc, H!Service(pc), host.pc \in {"pump", "pumped"},
         pc = "check" \/ (pc = host.pc /\ "redraw" \in habit)
  PROVE  GuiInv'
<1> DEFINE closing == asked \cup H!Sent("Close") \cup (H!Sent("CloseExtra") \cap live)
           session == host.session /\ 0 \notin closing /\ ~over
           ended == {w \in live \ {0} : \/ w \in closing \/ ~session
                                        \/ w \in DOMAIN shared /\ shared[w].closing}
           kept == {w \in live \ {0} : w \in DOMAIN shared} \ ended
           framed == {w \in kept \cup {0} : shared[w].present > last[w]}
           after(w) == IF w \in framed THEN H!Serve(shared[w], w) ELSE shared[w]
<1>1. /\ cmds' = H!Opens
      /\ shared' = [w \in DOMAIN shared |->
                      IF w \in ended THEN H!ShutExtra(shared[w])
                      ELSE IF w = 0 /\ (0 \in closing \/ over) THEN H!Shut(after(0))
                      ELSE after(w)]
      /\ live' = IF session THEN kept \cup (live \cap {0}) ELSE {}
      /\ asked' = closing \cap live'
      /\ \E pending, show, next : 
           /\ host' = [host EXCEPT
                !.session = session, !.pending = pending,
                !.opening = IF session THEN @ \cup H!Sent("OpenExtra") ELSE {},
                !.show = show, !.back = pc, !.pc = next]
           /\ show \in {0, dialog.seq} /\ next \in {"dialog", pc}
      /\ UNCHANGED <<habit, dialog, over, script, wanted>>
  <2>1. PICK show : show = IF H!Sent("FileDialog") # {} THEN dialog.seq ELSE 0
    OBVIOUS
  <2>2. PICK next : next = IF H!Sent("FileDialog") # {} THEN "dialog" ELSE pc
    OBVIOUS
  <2>3. host' = [host EXCEPT
                !.session = session, !.pending = FALSE,
                !.opening = IF session THEN @ \cup H!Sent("OpenExtra") ELSE {},
                !.show = show, !.back = pc, !.pc = next]
    BY <2>1, <2>2 DEF H!Service
  <2>4. show \in {0, dialog.seq} /\ next \in {"dialog", pc}
    BY <2>1, <2>2
  <2>5. QED
    BY <2>3, <2>4 DEF H!Service, H!ghostVars
<1>2. /\ DOMAIN host' = HostFields /\ host'.session = session /\ host'.back = pc
      /\ host'.opening = IF session THEN host.opening \cup H!Sent("OpenExtra") ELSE {}
      /\ host'.show \in {0, dialog.seq} /\ host'.pc \in {"dialog", pc}
  <2>1. PICK pending, show, next :
           /\ host' = [host EXCEPT
                !.session = session, !.pending = pending,
                !.opening = IF session THEN @ \cup H!Sent("OpenExtra") ELSE {},
                !.show = show, !.back = pc, !.pc = next]
           /\ show \in {0, dialog.seq} /\ next \in {"dialog", pc}
    BY <1>1
  <2>2. DOMAIN host = HostFields
    BY DEF GuiInv, GuiTypes
  <2> HIDE DEF session
  <2>3. QED
    BY <2>1, <2>2 DEF HostFields
<1>3. /\ DOMAIN shared' = DOMAIN shared
      /\ \A w \in DOMAIN shared :
           /\ DOMAIN shared'[w] = WindowFields
           /\ shared'[w].ready = shared[w].ready /\ shared'[w].failed = shared[w].failed
           /\ w \notin ended /\ (w = 0 => 0 \notin closing /\ ~over)
                => shared'[w].open = shared[w].open /\ shared'[w].closing = shared[w].closing
  <2>1. DOMAIN shared' = DOMAIN shared
    BY <1>1
  <2>2. ASSUME NEW w \in DOMAIN shared
        PROVE  /\ DOMAIN shared'[w] = WindowFields
               /\ shared'[w].ready = shared[w].ready /\ shared'[w].failed = shared[w].failed
               /\ w \notin ended /\ (w = 0 => 0 \notin closing /\ ~over)
                    => shared'[w].open = shared[w].open /\ shared'[w].closing = shared[w].closing
    <3>1. DOMAIN shared[w] = WindowFields
      BY DEF GuiInv, GuiTypes
    <3>2. PICK a : a = after(w)
      OBVIOUS
    <3>3. /\ DOMAIN a = WindowFields /\ a.ready = shared[w].ready /\ a.failed = shared[w].failed
          /\ a.open = shared[w].open /\ a.closing = shared[w].closing
      <4>1. a = shared[w] \/ a = H!Serve(shared[w], w)
        BY <3>2
      <4>2. QED
        BY <3>1, <4>1 DEF H!Serve, WindowFields
    <3>4. shared'[w] = IF w \in ended THEN H!ShutExtra(shared[w])
                       ELSE IF w = 0 /\ (0 \in closing \/ over) THEN H!Shut(a) ELSE a
      BY <1>1, <3>2
    <3>5. /\ DOMAIN H!Shut(a) = WindowFields
          /\ H!Shut(a).ready = a.ready /\ H!Shut(a).failed = a.failed
      BY <3>3 DEF H!Shut, WindowFields
    <3>6. /\ DOMAIN H!ShutExtra(shared[w]) = WindowFields
          /\ H!ShutExtra(shared[w]).ready = shared[w].ready
          /\ H!ShutExtra(shared[w]).failed = shared[w].failed
      <4>1. PICK s : s = H!Shut(shared[w])
        OBVIOUS
      <4>2. DOMAIN s = WindowFields /\ s.ready = shared[w].ready /\ s.failed = shared[w].failed
        BY <3>1, <4>1 DEF H!Shut, WindowFields
      <4>3. H!ShutExtra(shared[w]) = [s EXCEPT !.done = shared[w].present]
        BY <4>1 DEF H!ShutExtra
      <4>4. QED
        BY <4>2, <4>3 DEF WindowFields
    <3> HIDE DEF ended, closing, after
    <3>7. QED
      BY <3>3, <3>4, <3>5, <3>6
  <2>3. QED
    BY <2>1, <2>2
<1>4. H!Opens' = H!Opens /\ \A other : other # "Open" => H!Sent(other)' = {}
  BY <1>1 DEF H!Opens, H!Sent, H!Command
<1>5. /\ live' \subseteq live
      /\ live' # {} => session
      /\ session => (0 \in live => 0 \in live')
  BY <1>1
<1>6. Op' = Op /\ script'.call = script.call
  BY <1>1 DEF Op
\* What closes was wanted closed, and closes no window the program waits for.
<1>7. /\ 0 \in asked => 0 \in wanted
      /\ 0 \in closing => 0 \in wanted \/ H!Sent("Close") # {}
      /\ \A w \in closing : w # 0 => w \in wanted
  BY DEF GuiInv, AskedInv, ExtraInv, CloseInv
<1>8. ~over /\ 0 \notin asked /\ (script.has \/ Opening) => 0 \notin closing
  BY DEF GuiInv, CloseInv, ExtraInv, H!Extras, Opening, Ready
<1>9. ASSUME NEW w \in live, w \in ended, ~over, 0 \notin asked, script.has, w \notin wanted
      PROVE  ~H!IsOpen(w)
  <2>1. w # 0 /\ 0 \notin closing /\ w \notin closing
    BY <1>7, <1>8, <1>9
  <2>2. host.session
    BY <1>9, <2>1 DEF GuiInv, SessionInv
  <2>3. QED
    BY <1>9, <2>1, <2>2 DEF H!IsOpen
<1>10. ended \subseteq live \ {0}
  OBVIOUS
<1>11. asked' \subseteq live' /\ asked' \subseteq wanted /\ 0 \notin asked'
  BY <1>1, <1>5, <1>7
<1>12. session => host.session
  OBVIOUS
<1>13. ~over /\ 0 \notin closing /\ host.session => session
  OBVIOUS
<1> HIDE DEF closing, session, ended, kept, framed, after
<1>14. GuiTypes'
  BY <1>1, <1>2, <1>3 DEF GuiInv, GuiTypes, ExtraInv, DialogRec
<1>15. CmdInv'
  BY <1>1, <1>3, <1>4, <1>6 DEF GuiInv, CmdInv, GuiTypes
<1>16. ExtraInv'
  BY <1>1, <1>2, <1>3, <1>4, <1>6 DEF GuiInv, ExtraInv, Waiting
<1>17. AskedInv' /\ SessionInv'
  BY <1>1, <1>2, <1>5, <1>11 DEF AskedInv, SessionInv
<1>18. CloseInv' /\ KnownInv' /\ ReopenInv'
  BY <1>1, <1>3, <1>4, <1>6 DEF GuiInv, CloseInv, KnownInv, ReopenInv, GuiTypes
<1>19. FirstInv'
  <2>1. SUFFICES ASSUME ~over, 0 \notin wanted, script.has \/ Opening
                 PROVE  H!IsOpen(0)'
    BY <1>1, <1>3, <1>6 DEF FirstInv, Opening, Ready
  <2>2. H!IsOpen(0) /\ 0 \notin closing
    BY <1>7, <1>8, <2>1 DEF GuiInv, FirstInv
  <2>3. QED
    BY <1>3, <1>10, <2>1, <2>2 DEF H!IsOpen
<1>20. ExtraOpenInv'
  <2>1. SUFFICES ASSUME NEW w \in H!Extras, ~over, {0, w} \cap wanted = {},
                        \/ script.has /\ Op # "open" /\ w \in script.known
                        \/ Op = "openWindow" /\ script.call.win = w /\ Ready(w)
                 PROVE  H!IsOpen(w)'
    BY <1>1, <1>3, <1>6 DEF ExtraOpenInv, Ready
  <2>2. H!IsOpen(w) /\ script.has
    BY <2>1 DEF GuiInv, ExtraOpenInv, CmdInv
  <2>3. w # 0 /\ 0 \notin wanted /\ w \notin wanted /\ 0 \notin asked
    BY <1>7, <2>1 DEF H!Extras
  <2>5. w \notin ended
    BY <1>9, <1>10, <2>1, <2>2, <2>3
  <2>4. QED
    BY <1>3, <2>2, <2>3, <2>5 DEF H!IsOpen
<1>21. HabitInv'
  BY <1>1, <1>4, <1>6 DEF GuiInv, HabitInv
<1>22. SteadyInv'
  <2>1. SUFFICES ASSUME habit \cap {"userCloses", "redraw"} = {}
                 PROVE  SteadyInv'
    BY <1>1 DEF SteadyInv
  <2>2. pc = "check" /\ host'.pc \in {"dialog", "check"}
    BY <1>2, <2>1
  <2>3. ~over /\ (script.has \/ Opening) => 0 \in live'
    BY <1>5, <1>8, <1>13, <2>1 DEF GuiInv, SteadyInv
  <2>4. Opening' <=> Opening
    BY <1>3, <1>6 DEF Opening, Ready
  <2>5. QED
    BY <1>1, <1>2, <1>4, <1>5, <1>11, <2>2, <2>3, <2>4 DEF SteadyInv
<1>23. DialogInv'
  BY <1>1, <1>2, <1>6 DEF GuiInv, GuiTypes, DialogInv, DialogRec
<1>24. QED
  BY <1>14, <1>15, <1>16, <1>17, <1>18, <1>19, <1>20, <1>21, <1>22, <1>23 DEF GuiInv

\* Before the thread waits for events: the windows that were asked for are
\* made, all of them or, when that fails, none.
LEMMA AboutToWaitStays ==
  ASSUME GuiInv, H!AboutToWait
  PROVE  GuiInv'
<1> DEFINE first == {w \in {0} : 0 \notin live /\ H!Opens # {}}
           born == first \cup host.opening
           new(broken) == IF broken THEN {} ELSE born
<1>1. PICK broken \in BOOLEAN :
        /\ shared' = [w \in DOMAIN shared |-> IF w \in born THEN H!Born(w, broken) ELSE shared[w]]
        /\ cmds' = IF 0 \in born THEN cmds \ H!Opens ELSE cmds
        /\ live' = live \cup new(broken)
        /\ asked' = asked \ (new(broken) \ {0})
        /\ wanted' = wanted \ new(broken)
  BY DEF H!AboutToWait
<1>2. /\ host.pc = "pump" /\ host' = [host EXCEPT !.pc = "pumped", !.opening = {}]
      /\ UNCHANGED <<habit, dialog, over, script>>
  BY DEF H!AboutToWait
<1>3. /\ DOMAIN host' = HostFields /\ host'.session = host.session /\ host'.opening = {}
      /\ host'.show = host.show /\ host'.back = host.back /\ host'.pc = "pumped"
  BY <1>2 DEF GuiInv, GuiTypes, HostFields
<1>4. Op' = Op /\ script'.call = script.call
  BY <1>2 DEF Op
<1>5. PICK n : n = new(broken)
  OBVIOUS
<1>6. /\ n \subseteq born /\ (broken => n = {}) /\ (~broken => n = born)
      /\ live' = live \cup n /\ asked' = asked \ (n \ {0}) /\ wanted' = wanted \ n
  BY <1>1, <1>5
<1>7. /\ 0 \in born <=> 0 \notin live /\ H!Opens # {}
      /\ \A w \in born : w # 0 => w \in host.opening
      /\ \A w \in host.opening : w \in H!Extras /\ w # 0 /\ w \in born
  BY DEF GuiInv, GuiTypes, H!Extras
<1>8. /\ DOMAIN shared' = DOMAIN shared
      /\ \A w \in DOMAIN shared :
           /\ DOMAIN shared'[w] = WindowFields
           /\ w \notin born => shared'[w] = shared[w]
           /\ w \in born /\ broken => shared'[w].failed /\ shared'[w].ready = shared[w].ready
           /\ w \in born /\ ~broken => /\ shared'[w].failed = shared[w].failed
                                       /\ shared'[w].ready /\ shared'[w].open
                                       /\ ~shared'[w].closing
  <2>1. DOMAIN shared' = DOMAIN shared
    BY <1>1
  <2>2. ASSUME NEW w \in DOMAIN shared
        PROVE  /\ DOMAIN shared'[w] = WindowFields
               /\ w \notin born => shared'[w] = shared[w]
               /\ w \in born /\ broken => shared'[w].failed /\ shared'[w].ready = shared[w].ready
               /\ w \in born /\ ~broken => /\ shared'[w].failed = shared[w].failed
                                           /\ shared'[w].ready /\ shared'[w].open
                                           /\ ~shared'[w].closing
    <3>1. DOMAIN shared[w] = WindowFields
      BY DEF GuiInv, GuiTypes
    <3>2. shared'[w] = IF w \in born THEN H!Born(w, broken) ELSE shared[w]
      BY <1>1
    <3> HIDE DEF born
    <3>3. QED
      BY <3>1, <3>2 DEF H!Born, WindowFields
  <2>3. QED
    BY <2>1, <2>2
<1>9. \A other : other # "Open" => H!Sent(other)' = H!Sent(other)
  <2>1. ASSUME NEW other, other # "Open"
        PROVE  H!Sent(other)' = H!Sent(other)
    <3>1. \A w : H!Command(other, w) \notin H!Opens
      BY <2>1 DEF H!Opens, H!Command
    <3>2. \A w : H!Command(other, w) \in cmds' <=> H!Command(other, w) \in cmds
      BY <1>1, <3>1
    <3>3. QED
      BY <3>2 DEF H!Sent
  <2>2. QED
    BY <2>1
<1>10. H!Opens' = IF 0 \in born THEN {} ELSE H!Opens
  BY <1>1 DEF H!Opens
<1> HIDE DEF first, born, new
\* The first window is made for a Gui.open that waits, another one for a
\* Gui.openWindow that waits.
<1>11. 0 \in born => /\ Op = "open" /\ ~shared[0].ready /\ ~shared[0].failed /\ 0 \notin live
                     /\ host.opening = {} /\ H!Sent("Close") = {}
  BY <1>7 DEF GuiInv, CmdInv, ExtraInv, Waiting, CloseInv
<1>12. \A w \in born : w # 0 => /\ Op = "openWindow" /\ script.call.win = w /\ ~shared[w].failed
                                /\ w \notin script.known /\ w \notin H!Sent("OpenExtra")
                                /\ w \notin H!Sent("CloseExtra")
  <2>1. \A w \in host.opening : /\ w \in Nat /\ Waiting(w) /\ w \notin H!Sent("OpenExtra")
                                /\ w \notin H!Sent("CloseExtra")
    BY DEF GuiInv, GuiTypes, H!Extras, H!Windows, ExtraInv
  <2>2. \A w \in Nat : Waiting(w) => w \notin script.known
    BY DEF GuiInv, KnownInv, Waiting
  <2>3. QED
    BY <1>7, <2>1, <2>2 DEF Waiting
<1>13. 0 \in DOMAIN shared
  BY DEF GuiInv, GuiTypes
<1>14. GuiTypes'
  BY <1>2, <1>3, <1>8 DEF GuiInv, GuiTypes
<1>15. CmdInv'
  BY <1>2, <1>4, <1>8, <1>10, <1>13 DEF GuiInv, CmdInv
<1>16. ExtraInv'
  <2>1. \A w \in H!Sent("OpenExtra") : Waiting(w)'
    <3>1. \A w \in H!Sent("OpenExtra") : w \notin born /\ Waiting(w)
      BY <1>12 DEF GuiInv, ExtraInv, H!Extras
    <3>2. QED
      BY <1>4, <1>8, <3>1 DEF Waiting
  <2>2. H!Sent("CloseExtra") \cap live' \subseteq wanted'
    BY <1>6, <1>12 DEF GuiInv, ExtraInv, H!Extras
  <2>3. QED
    BY <1>3, <1>9, <2>1, <2>2 DEF GuiInv, ExtraInv
<1>17. AskedInv'
  BY <1>6, <1>11 DEF GuiInv, AskedInv
<1>18. SessionInv'
  BY <1>2, <1>3, <1>6, <1>7 DEF GuiInv, SessionInv
<1>19. CloseInv'
  BY <1>2, <1>4, <1>6, <1>8, <1>9, <1>11, <1>13 DEF GuiInv, CloseInv
<1>20. KnownInv'
  BY <1>2, <1>4 DEF GuiInv, KnownInv
<1>21. Opening' /\ ~Opening => 0 \in born /\ ~broken /\ 0 \in n
  BY <1>4, <1>6, <1>8, <1>13 DEF Opening, Ready
<1>22. FirstInv'
  <2>1. CASE 0 \in born /\ broken
    BY <1>2, <1>4, <1>6, <1>8, <1>11, <1>13, <2>1 DEF GuiInv, ReopenInv, FirstInv, Opening, Ready
  <2>2. CASE 0 \in born /\ ~broken
    BY <1>8, <1>13, <2>2 DEF FirstInv, H!IsOpen
  <2>3. CASE 0 \notin born
    BY <1>2, <1>6, <1>8, <1>13, <1>21, <2>3 DEF GuiInv, FirstInv, H!IsOpen
  <2>4. QED
    BY <2>1, <2>2, <2>3
<1>23. ReopenInv'
  BY <1>2, <1>4, <1>6, <1>8, <1>11, <1>13 DEF GuiInv, ReopenInv
<1>24. ExtraOpenInv'
  <2>1. SUFFICES ASSUME NEW w \in H!Extras, ~over, ({0, w} \cap wanted = {})',
                        (\/ script.has /\ Op # "open" /\ w \in script.known
                         \/ Op = "openWindow" /\ script.call.win = w /\ Ready(w))'
                 PROVE  H!IsOpen(w)'
    BY <1>2 DEF ExtraOpenInv
  <2>2. w # 0 /\ 0 \notin born /\ 0 \notin wanted
    BY <1>4, <1>6, <1>11, <2>1 DEF H!Extras
  <2>3. CASE w \in born /\ broken
    BY <1>2, <1>4, <1>8, <1>12, <2>1, <2>2, <2>3 DEF Ready
  <2>4. CASE w \in born /\ ~broken
    BY <1>2, <1>4, <1>8, <1>12, <2>1, <2>2, <2>4 DEF Ready, H!IsOpen
  <2>5. CASE w \notin born
    <3>1. w \notin wanted
      BY <1>6, <2>1, <2>5
    <3>2. \/ script.has /\ Op # "open" /\ w \in script.known
          \/ Op = "openWindow" /\ script.call.win = w /\ Ready(w)
      BY <1>2, <1>4, <1>8, <2>1, <2>5 DEF Ready
    <3>3. H!IsOpen(w)
      BY <2>1, <2>2, <3>1, <3>2 DEF GuiInv, ExtraOpenInv
    <3>4. QED
      BY <1>8, <2>5, <3>3 DEF H!IsOpen
  <2>6. QED
    BY <2>3, <2>4, <2>5
<1>25. HabitInv'
  BY <1>2, <1>4, <1>9 DEF GuiInv, HabitInv
<1>26. SteadyInv'
  BY <1>2, <1>3, <1>6, <1>9, <1>21 DEF GuiInv, SteadyInv
<1>27. DialogInv'
  BY <1>2, <1>3, <1>4 DEF GuiInv, DialogInv
<1>28. QED
  BY <1>14, <1>15, <1>16, <1>17, <1>18, <1>19, <1>20, <1>22, <1>23, <1>24, <1>25, <1>26, <1>27
     DEF GuiInv

LEMMA GuiStart == Init => GuiInv
<1> SUFFICES ASSUME Init PROVE GuiInv
  OBVIOUS
<1>1. H!Init
  BY DEF Init
<1>2. /\ DOMAIN shared = {0} /\ shared[0] = H!Window /\ cmds = {} /\ over = FALSE
      /\ live = {} /\ asked = {} /\ wanted = {} /\ habit \in Habits
  BY <1>1 DEF H!Init
<1>3. DOMAIN H!Window = WindowFields /\ ~H!Window.ready /\ ~H!Window.failed
  BY DEF H!Window, WindowFields
<1>4. /\ DOMAIN script = ScriptFields /\ script.call = H!NoCall /\ script.has = FALSE
      /\ script.opened = 0 /\ script.known = {} /\ script.next = 1 /\ Op = "none"
  BY <1>1 DEF H!Init, ScriptFields, Op, H!NoCall
<1>5. /\ DOMAIN host = HostFields /\ host.pc = "idle" /\ host.opening = {} /\ host.show = 0
      /\ host.session = FALSE
  BY <1>1 DEF H!Init, HostFields
<1>6. dialog \in DialogRec /\ dialog.seq = 0 /\ dialog.done = 0
  BY <1>1 DEF H!Init, DialogRec
<1>7. H!Opens = {} /\ \A other : H!Sent(other) = {}
  BY <1>2 DEF H!Opens, H!Sent
<1>8. GuiTypes /\ CmdInv
  BY <1>2, <1>3, <1>4, <1>5, <1>6, <1>7 DEF GuiTypes, CmdInv
<1>9. ExtraInv /\ AskedInv /\ SessionInv /\ CloseInv
  BY <1>2, <1>5, <1>7 DEF ExtraInv, AskedInv, SessionInv, CloseInv
<1>10. KnownInv /\ FirstInv /\ ReopenInv /\ ExtraOpenInv
  BY <1>4 DEF KnownInv, FirstInv, ReopenInv, ExtraOpenInv, Opening
<1>11. HabitInv /\ SteadyInv
  BY <1>2, <1>4, <1>5, <1>7 DEF HabitInv, SteadyInv, Opening
<1>12. DialogInv
  BY <1>4, <1>5, <1>6 DEF DialogInv
<1>13. QED
  BY <1>8, <1>9, <1>10, <1>11, <1>12 DEF GuiInv

GuiStep == H!Next \/ UNCHANGED guiVars

LEMMA GuiStays ==
  ASSUME GuiInv, GuiStep, NoStaleClose
  PROVE  GuiInv'
<1>1. CASE H!Open
  BY <1>1, OpenStays
<1>2. CASE H!OpenReturns
  BY <1>2, OpenReturnsStays
<1>3. CASE H!OpenWindow
  BY <1>3, OpenWindowStays
<1>4. CASE H!OpenWindowReturns
  BY <1>4, OpenWindowReturnsStays
<1>5. CASE \E w \in H!Windows : H!Present(w)
  BY <1>5, PresentStays
<1>6. CASE H!IdleWait
  BY <1>6, IdleStays
<1>7. CASE H!PresentReturns \/ H!IdleReturns \/ H!IdleTimesOut \/ H!FileReturns
  BY <1>7, ReturnStays
<1>8. CASE H!AskFile
  BY <1>8, AskFileStays
<1>9. CASE H!Close
  BY <1>9, CloseStays
<1>10. CASE \E w \in H!Extras : H!CloseWindow(w)
  BY <1>10, CloseWindowStays
<1>11. CASE H!Ends
  BY <1>11, EndsStays
<1>12. CASE H!Leave
  BY <1>12, LeaveStays
<1>13. CASE H!StartSession
  BY <1>13, StartSessionStays
<1>14. CASE H!Discard
  BY <1>14, DiscardStays
<1>15. CASE \E w \in H!Windows : H!UserTypes(w) \/ H!UserCloses(w)
  BY <1>15, UserStays
<1>16. CASE H!AboutToWait
  BY <1>16, AboutToWaitStays
<1>17. CASE H!Redraw
  <2>1. PICK pc : pc = host.pc
    OBVIOUS
  <2>2. H!Service(pc) /\ host.pc \in {"pump", "pumped"} /\ "redraw" \in habit
    BY <1>17, <2>1 DEF H!Redraw, H!Pumping
  <2>3. QED
    BY <2>1, <2>2, ServiceStays
<1>18. CASE H!PumpReturns
  <2>1. PICK pc : pc = "check"
    OBVIOUS
  <2>2. H!Service(pc) /\ host.pc \in {"pump", "pumped"}
    BY <1>18, <2>1 DEF H!PumpReturns
  <2>3. pc = "check" \/ (pc = host.pc /\ "redraw" \in habit)
    BY <2>1
  <2>4. QED
    BY <2>2, <2>3, ServiceStays
<1>19. CASE H!UserAnswers
  BY <1>19, UserAnswersStays
<1>20. CASE H!Check
  BY <1>20, CheckStays
<1>21. CASE UNCHANGED guiVars
  <2>1. UNCHANGED <<habit, shared, cmds, over, script, host, live, asked, wanted, dialog>>
    BY <1>21 DEF guiVars
  <2>2. host'.session = host.session /\ DOMAIN host' = HostFields
    BY <2>1 DEF GuiInv, GuiTypes
  <2>3. 0 \in H!Windows
    BY BoundAssumption DEF H!Windows
  <2>4. QED
    BY <2>1, <2>2, <2>3, NotedStays
<1>22. QED
  BY <1>1, <1>2, <1>3, <1>4, <1>5, <1>6, <1>7, <1>8, <1>9, <1>10, <1>11, <1>12, <1>13, <1>14,
     <1>15, <1>16, <1>17, <1>18, <1>19, <1>20, <1>21
     DEF GuiStep, H!Next, H!Return, H!HostStep

LEMMA HeldWindowsAreOpen == GuiInv => H!ClosedByRequest
<1> SUFFICES ASSUME GuiInv, NEW w \in script.known \cup {0}, script.has, Op # "open", ~over,
                    {0, w} \cap wanted = {}
             PROVE  H!IsOpen(w)
  BY DEF H!ClosedByRequest, Op
<1>1. CASE w = 0
  BY <1>1 DEF GuiInv, FirstInv
<1>2. CASE w # 0
  BY <1>2 DEF GuiInv, GuiTypes, ExtraOpenInv
<1>3. QED
  BY <1>1, <1>2

LEMMA AnswersFit ==
  ASSUME GuiInv, H!FileReturns, H!IsOpen(0)
  PROVE  dialog.result = script.call.want
  BY DEF GuiInv, DialogInv, H!FileReturns, Op

-----------------------------------------------------------------------------
(* A captured output.  What a stream was going to carry is still to be      *)
(* written, in the pipe or read; a stream is done when it is past the       *)
(* ceiling, or at its end after the child's.                                *)

OutputTypes ==
  /\ plan \in [O!Streams -> Nat] /\ pipe \in [O!Streams -> Nat] /\ got \in [O!Streams -> Nat]
  /\ total \in [O!Streams -> Nat] /\ open \in [O!Streams -> BOOLEAN] /\ exited \in BOOLEAN
AmountInv == \A s \in O!Streams : plan[s] + pipe[s] + got[s] = total[s]
EndInv ==
  /\ open["out"] /\ (~open["err"] <=> drain = "ended")
  /\ drain = "ended" => O!ReadDone("err")
  /\ caller # "reading" => O!ReadDone("out")
  /\ caller \in {"waiting", "returned"} => drain = "ended"
  /\ caller = "returned" => exited
  /\ exited => (\A s \in O!Streams : plan[s] = 0) \/ (drain = "ended" /\ got["err"] > Ceiling)
OutcomeInv ==
  outcome # "none" =>
    /\ caller = "returned"
    /\ outcome = IF \E s \in O!Streams : got[s] > Ceiling THEN O!Refused ELSE "captured"
OutputInv == OutputTypes /\ AmountInv /\ EndInv /\ OutcomeInv

OutputStep == O!Next \/ UNCHANGED outputVars

\* A unit goes from the plan to the pipe, or from the pipe to the reader.
LEMMA UnitMoves ==
  ASSUME OutputTypes, AmountInv, NEW s \in O!Streams, UNCHANGED total,
         \/ /\ plan[s] > 0 /\ UNCHANGED got
            /\ plan' = [plan EXCEPT ![s] = @ - 1] /\ pipe' = [pipe EXCEPT ![s] = @ + 1]
         \/ /\ pipe[s] > 0 /\ UNCHANGED plan
            /\ pipe' = [pipe EXCEPT ![s] = @ - 1] /\ got' = [got EXCEPT ![s] = @ + 1]
  PROVE  /\ plan' \in [O!Streams -> Nat] /\ pipe' \in [O!Streams -> Nat]
         /\ got' \in [O!Streams -> Nat] /\ AmountInv'
<1>1. /\ plan' \in [O!Streams -> Nat] /\ pipe' \in [O!Streams -> Nat] /\ got' \in [O!Streams -> Nat]
      /\ plan'[s] + pipe'[s] + got'[s] = plan[s] + pipe[s] + got[s]
      /\ \A r \in O!Streams : r # s => plan'[r] = plan[r] /\ pipe'[r] = pipe[r] /\ got'[r] = got[r]
  BY DEF OutputTypes
<1>2. QED
  BY <1>1 DEF AmountInv

LEMMA OutputStays ==
  ASSUME OutputInv, OutputStep
  PROVE  OutputInv'
<1>1. ASSUME NEW s \in O!Streams, O!ChildWrites(s)
      PROVE  OutputInv'
  <2>1. /\ ~exited /\ plan[s] > 0 /\ open[s]
        /\ plan' = [plan EXCEPT ![s] = @ - 1] /\ pipe' = [pipe EXCEPT ![s] = @ + 1]
        /\ UNCHANGED <<total, exited, open, got, drain, caller, outcome>>
    BY <1>1 DEF O!ChildWrites
  <2>2. OutputTypes' /\ AmountInv'
    BY <2>1, UnitMoves DEF OutputInv, OutputTypes
  <2>3. EndInv' /\ OutcomeInv'
    BY <2>1 DEF OutputInv, EndInv, OutcomeInv, O!ReadDone
  <2>4. QED
    BY <2>2, <2>3 DEF OutputInv
<1>2. ASSUME NEW s \in O!Streams, O!ChildBreaks(s) \/ O!ChildExits
      PROVE  OutputInv'
  <2>1. /\ ~exited /\ exited' = TRUE
        /\ ~open[s] \/ \A r \in O!Streams : plan[r] = 0
        /\ UNCHANGED <<plan, total, pipe, open, got, drain, caller, outcome>>
    BY <1>2 DEF O!ChildBreaks, O!ChildExits
  <2>2. OutputTypes' /\ AmountInv' /\ OutcomeInv'
    BY <2>1 DEF OutputInv, OutputTypes, AmountInv, OutcomeInv
  <2>3. EndInv'
    BY <2>1 DEF OutputInv, EndInv, O!ReadDone, O!Streams
  <2>4. QED
    BY <2>2, <2>3 DEF OutputInv
<1>3. ASSUME NEW s \in O!Streams, O!ReadOne(s),
             (s = "err" /\ drain = "reading") \/ (s = "out" /\ caller = "reading"),
             UNCHANGED <<plan, total, exited, open, drain, caller, outcome>>
      PROVE  OutputInv'
  <2>1. /\ pipe[s] > 0 /\ pipe' = [pipe EXCEPT ![s] = @ - 1] /\ got' = [got EXCEPT ![s] = @ + 1]
    BY <1>3 DEF O!ReadOne
  <2>2. OutputTypes' /\ AmountInv'
    BY <1>3, <2>1, UnitMoves DEF OutputInv, OutputTypes
  <2>3. /\ \A r \in O!Streams : r # s => pipe'[r] = pipe[r] /\ got'[r] = got[r]
    BY <2>1 DEF OutputInv, OutputTypes
  <2>4. EndInv' /\ OutcomeInv'
    BY <1>3, <2>3 DEF OutputInv, EndInv, OutcomeInv, O!ReadDone, O!Streams
  <2>5. QED
    BY <2>2, <2>4 DEF OutputInv
<1>4. ASSUME O!ReadDone("err"), drain = "reading", drain' = "ended",
             open' = [open EXCEPT !["err"] = FALSE],
             UNCHANGED <<plan, total, exited, pipe, got, caller, outcome>>
      PROVE  OutputInv'
  BY <1>4 DEF OutputInv, OutputTypes, AmountInv, EndInv, OutcomeInv, O!ReadDone, O!Streams
<1>5. CASE O!DrainReads
  <2>1. CASE /\ O!ReadOne("err")
             /\ UNCHANGED <<plan, total, exited, open, drain, caller, outcome>>
    BY <1>3, <1>5, <2>1 DEF O!DrainReads, O!Streams
  <2>2. QED
    BY <1>4, <1>5, <2>1 DEF O!DrainReads
<1>6. CASE O!CallerReads
  <2>1. CASE /\ O!ReadDone("out") /\ caller' = "joining" /\ caller = "reading"
             /\ UNCHANGED <<plan, total, exited, pipe, got, open, drain, outcome>>
    BY <2>1 DEF OutputInv, OutputTypes, AmountInv, EndInv, OutcomeInv, O!ReadDone
  <2>2. QED
    BY <1>3, <1>6, <2>1 DEF O!CallerReads, O!Streams
<1>7. CASE O!CallerJoins
  BY <1>7 DEF O!CallerJoins, O!DrainJoined, OutputInv, OutputTypes, AmountInv, EndInv, OutcomeInv,
     O!ReadDone
<1>8. CASE O!CallerWaits
  BY <1>8 DEF O!CallerWaits, OutputInv, OutputTypes, AmountInv, EndInv, OutcomeInv, O!ReadDone
<1>9. CASE UNCHANGED outputVars
  BY <1>9 DEF outputVars, OutputInv, OutputTypes, AmountInv, EndInv, OutcomeInv, O!ReadDone
<1>10. QED
  BY <1>1, <1>2, <1>5, <1>6, <1>7, <1>8, <1>9 DEF OutputStep, O!Next, O!Streams

LEMMA OutputStart == Init => OutputInv
<1> SUFFICES ASSUME Init PROVE OutputInv
  OBVIOUS
<1>1. O!Init /\ 0 .. MaxOutput \subseteq Nat
  BY DEF Init
<1>2. /\ plan \in [O!Streams -> 0 .. MaxOutput] /\ total = plan /\ exited = FALSE
      /\ pipe = [s \in O!Streams |-> 0] /\ got = [s \in O!Streams |-> 0]
      /\ open = [s \in O!Streams |-> TRUE]
      /\ drain = "reading" /\ caller = "reading" /\ outcome = "none"
  BY <1>1 DEF O!Init
<1>3. OutputTypes /\ AmountInv
  <2>1. plan \in [O!Streams -> Nat]
    BY <1>1, <1>2
  <2>2. OutputTypes
    BY <1>2, <2>1 DEF OutputTypes
  <2>3. AmountInv
    BY <1>2, <2>1 DEF AmountInv
  <2>4. QED
    BY <2>2, <2>3
<1>4. EndInv /\ OutcomeInv
  BY <1>2 DEF EndInv, OutcomeInv, O!Streams
<1>5. QED
  BY <1>3, <1>4 DEF OutputInv

LEMMA CapturesAreComplete == OutputInv => O!CaptureIsComplete
<1> SUFFICES ASSUME OutputInv PROVE O!CaptureIsComplete
  OBVIOUS
<1>1. ASSUME outcome = "captured"
      PROVE  got = total
  <2>1. /\ caller = "returned" /\ exited /\ drain = "ended"
        /\ \A s \in O!Streams : ~(got[s] > Ceiling)
    BY <1>1 DEF OutputInv, OutcomeInv, EndInv, O!Refused
  <2>2. \A s \in O!Streams : plan[s] = 0 /\ pipe[s] = 0
    BY <2>1 DEF OutputInv, EndInv, O!ReadDone, O!Streams
  <2>3. \A s \in O!Streams : got[s] = total[s]
    BY <2>2 DEF OutputInv, OutputTypes, AmountInv
  <2>4. QED
    BY <2>3 DEF OutputInv, OutputTypes
<1>2. ASSUME outcome = O!Refused
      PROVE  \E s \in O!Streams : total[s] > Ceiling
  <2>1. PICK s \in O!Streams : got[s] > Ceiling
    BY <1>2 DEF OutputInv, OutcomeInv, O!Refused
  <2>2. total[s] >= got[s] /\ total[s] \in Nat /\ got[s] \in Nat
    BY DEF OutputInv, OutputTypes, AmountInv
  <2>3. QED
    BY <2>1, <2>2, PipeAssumption
<1>3. QED
  BY <1>1, <1>2 DEF O!CaptureIsComplete

-----------------------------------------------------------------------------
(* Children.  What a child wrote is in its pipe or with its reader; a       *)
(* message is stored once, past the ceiling or after the child's end.  A    *)
(* child that was told of is dead, is told of once and is off the list, and *)
(* a tick has passed no child that was dead when it began.                  *)

Child == [state : {"none", "running", "dead"}, left : Nat, wrote : Nat, pipe : Nat, code : Int]
Reader == [state : {"none", "reading", "ended"}, got : Nat, sink : Int]
Report == [pid : Pids, code : Int, text : Int]
TickFields == {"active", "i", "finished", "due"}
Told == reported \o tick.finished

ProcessTypes ==
  /\ child \in [Pids -> Child] /\ reader \in [Pids -> Reader] /\ spawned \in Seq(Pids)
  /\ DOMAIN tick = TickFields /\ tick.i \in Nat \ {0} /\ tick.finished \in Seq(Report)
  /\ reported \in Seq(Report) /\ tick.due \subseteq Pids
UnitsInv ==
  \A p \in Pids : /\ reader[p].got + child[p].pipe = child[p].wrote
                  /\ \/ reader[p].sink \in {0, P!Over}
                     \/ P!Dead(p) /\ reader[p].sink = child[p].wrote
                  /\ child[p].state = "none" => reader[p].state = "none"
Fits(r) == /\ P!Dead(r.pid) /\ r.code = child[r.pid].code
           /\ r.text \in {0, child[r.pid].wrote}
ToldInv ==
  /\ \A i, j \in 1 .. Len(Told) : Told[i].pid = Told[j].pid => i = j
  /\ \A i \in 1 .. Len(Told) : Fits(Told[i])
SpawnedInv ==
  /\ \A i, j \in 1 .. Len(spawned) : spawned[i] = spawned[j] => i = j
  /\ \A i \in 1 .. Len(spawned) : /\ child[spawned[i]].state # "none"
                                  /\ \A k \in 1 .. Len(Told) : Told[k].pid # spawned[i]
TickInv ==
  tick.active => /\ \A p \in tick.due : P!Dead(p)
                 /\ \A i \in 1 .. Len(spawned) : i < tick.i => spawned[i] \notin tick.due
ProcessInv == ProcessTypes /\ UnitsInv /\ ToldInv /\ SpawnedInv /\ TickInv

ProcessStep == P!Next \/ UNCHANGED processVars

\* A child or its reader goes on: what is told of a dead one stays true.
LEMMA ChildStep ==
  ASSUME ProcessInv, NEW p \in Pids, UNCHANGED <<spawned, tick, reported>>,
         child' \in [Pids -> Child], reader' \in [Pids -> Reader],
         \A q \in Pids : q # p => child'[q] = child[q] /\ reader'[q] = reader[q],
         child'[p].state # "none",
         P!Dead(p) => /\ child'[p].state = "dead" /\ child'[p].code = child[p].code
                      /\ child'[p].wrote = child[p].wrote,
         reader'[p].got + child'[p].pipe = child'[p].wrote,
         \/ reader'[p].sink \in {0, P!Over}
         \/ child'[p].state = "dead" /\ reader'[p].sink = child'[p].wrote
  PROVE  ProcessInv'
<1>1. \A q \in Pids : P!Dead(q) => P!Dead(q)'
  BY DEF P!Dead
<1>2. ProcessTypes' /\ Told' = Told
  BY DEF ProcessInv, ProcessTypes, Told
<1>3. UnitsInv'
  BY DEF ProcessInv, UnitsInv, P!Dead, P!Over
<1>4. Told \in Seq(Report) /\ \A i \in 1 .. Len(Told) : Told[i] \in Report
  BY ConcatProperties, ElementOfSeq DEF ProcessInv, ProcessTypes, Told
<1>5. \A i \in 1 .. Len(Told) : Fits(Told[i])'
  <2>1. ASSUME NEW r \in Report, Fits(r)
        PROVE  Fits(r)'
    <3>1. r.pid \in Pids
      BY DEF Report
    <3>2. QED
      BY <2>1, <3>1 DEF Fits, P!Dead
  <2>2. QED
    BY <1>2, <1>4, <2>1 DEF ProcessInv, ToldInv
<1>6. ToldInv'
  BY <1>2, <1>5 DEF ProcessInv, ToldInv
<1>7. SpawnedInv'
  <2>1. \A i \in 1 .. Len(spawned) : child'[spawned[i]].state # "none"
    BY ElementOfSeq DEF ProcessInv, ProcessTypes, SpawnedInv
  <2>2. QED
    BY <1>2, <2>1 DEF ProcessInv, SpawnedInv
<1>8. TickInv'
  BY <1>1 DEF ProcessInv, ProcessTypes, TickInv
<1>9. QED
  BY <1>2, <1>3, <1>6, <1>7, <1>8 DEF ProcessInv

LEMMA ChildrenStay ==
  ASSUME ProcessInv, NEW p \in Pids,
         \/ P!Kill(p) \/ P!ChildWrites(p) \/ P!ChildBreaks(p) \/ P!ChildExits(p)
         \/ P!ReaderReads(p) \/ P!ReaderStores(p)
  PROVE  ProcessInv'
<1>1. /\ child \in [Pids -> Child] /\ reader \in [Pids -> Reader]
      /\ child[p] \in Child /\ reader[p] \in Reader
      /\ reader[p].got + child[p].pipe = child[p].wrote
      /\ \/ reader[p].sink \in {0, P!Over}
         \/ P!Dead(p) /\ reader[p].sink = child[p].wrote
      /\ child[p].state = "none" => reader[p].state = "none"
  BY DEF ProcessInv, ProcessTypes, UnitsInv
<1>2. CASE P!ChildBreaks(p) \/ P!ChildExits(p)
  <2>1. /\ child[p].state = "running" /\ UNCHANGED <<reader, spawned, tick, reported>>
        /\ \E code \in Int : child' = [child EXCEPT ![p].state = "dead", ![p].code = code]
    BY <1>1, <1>2 DEF P!ChildBreaks, P!ChildExits, P!Running, P!Killed, Child
  <2>2. PICK code \in Int : child' = [child EXCEPT ![p].state = "dead", ![p].code = code]
    BY <2>1
  <2>3. /\ child' \in [Pids -> Child] /\ \A q \in Pids : q # p => child'[q] = child[q]
        /\ child'[p].state = "dead" /\ child'[p].wrote = child[p].wrote
        /\ child'[p].pipe = child[p].pipe
    BY <1>1, <2>2 DEF Child
  <2>4. QED
    BY <1>1, <2>1, <2>3, ChildStep DEF P!Dead
<1>3. CASE P!ChildWrites(p)
  <2>1. /\ child[p].state = "running" /\ child[p].left > 0 /\ reader[p].state = "reading"
        /\ child' = [child EXCEPT ![p].left = @ - 1, ![p].wrote = @ + 1, ![p].pipe = @ + 1]
        /\ UNCHANGED <<reader, spawned, tick, reported>>
    BY <1>3 DEF P!ChildWrites, P!Running
  <2>2. /\ child' \in [Pids -> Child] /\ \A q \in Pids : q # p => child'[q] = child[q]
        /\ child'[p].state = "running" /\ child'[p].wrote = child[p].wrote + 1
        /\ child'[p].pipe = child[p].pipe + 1
    BY <1>1, <2>1 DEF Child
  <2>3. reader'[p].got + child'[p].pipe = child'[p].wrote
    BY <1>1, <2>1, <2>2 DEF Child, Reader
  <2>4. reader'[p].sink \in {0, P!Over}
    BY <1>1, <2>1 DEF P!Dead
  <2>5. QED
    BY <1>1, <2>1, <2>2, <2>3, <2>4, ChildStep DEF P!Dead
<1>4. CASE P!ReaderReads(p)
  <2>1. /\ reader[p].state = "reading" /\ child[p].pipe > 0
        /\ child' = [child EXCEPT ![p].pipe = @ - 1] /\ reader' = [reader EXCEPT ![p].got = @ + 1]
        /\ UNCHANGED <<spawned, tick, reported>>
    BY <1>4 DEF P!ReaderReads, P!MayRead, P!ReadInto
  <2>2. /\ child' \in [Pids -> Child] /\ \A q \in Pids : q # p => child'[q] = child[q]
        /\ child'[p].state = child[p].state /\ child'[p].wrote = child[p].wrote
        /\ child'[p].code = child[p].code /\ child'[p].pipe = child[p].pipe - 1
    BY <1>1, <2>1 DEF Child
  <2>3. /\ reader' \in [Pids -> Reader] /\ \A q \in Pids : q # p => reader'[q] = reader[q]
        /\ reader'[p].got = reader[p].got + 1 /\ reader'[p].sink = reader[p].sink
    BY <1>1, <2>1 DEF Reader
  <2>4. reader'[p].got + child'[p].pipe = child'[p].wrote
    BY <1>1, <2>2, <2>3 DEF Child, Reader
  <2>5. child[p].state # "none"
    BY <1>1, <2>1
  <2>6. QED
    BY <1>1, <2>1, <2>2, <2>3, <2>4, <2>5, ChildStep DEF P!Dead
<1>5. CASE P!ReaderStores(p)
  <2>1. PICK sink : sink = IF reader[p].got > Ceiling THEN P!Over ELSE reader[p].got
    OBVIOUS
  <2>2. /\ reader[p].state = "reading"
        /\ reader[p].got > Ceiling \/ (P!Dead(p) /\ child[p].pipe = 0)
        /\ reader' = [reader EXCEPT ![p].state = "ended", ![p].sink = sink]
        /\ UNCHANGED <<child, spawned, tick, reported>>
    BY <1>5, <2>1 DEF P!ReaderStores, P!MayRead
  <2>3. sink \in Int /\ (sink = P!Over \/ (P!Dead(p) /\ sink = child[p].wrote))
    BY <1>1, <2>1, <2>2, PipeAssumption DEF Child, Reader, P!Over
  <2>4. /\ reader' \in [Pids -> Reader] /\ \A q \in Pids : q # p => reader'[q] = reader[q]
        /\ reader'[p].got = reader[p].got /\ reader'[p].sink = sink
    BY <1>1, <2>2, <2>3 DEF Reader
  <2>5. QED
    BY <1>1, <2>2, <2>3, <2>4, ChildStep DEF P!Dead
<1>6. CASE P!Kill(p)
  <2>1. /\ child[p].state = "running" /\ UNCHANGED <<reader, spawned, tick, reported>>
        /\ child[p].left \in Nat
    BY <1>1, <1>6 DEF P!Kill, P!Running, Child
  <2>2. PICK left \in 0 .. child[p].left, code \in P!Codes \cup {P!Killed} :
          child' = [child EXCEPT ![p].left = left, ![p].code = code]
    BY <1>6 DEF P!Kill
  <2>3. left \in Nat /\ code \in Int
    BY <2>1 DEF P!Codes, P!Killed
  <2>4. /\ child' \in [Pids -> Child] /\ \A q \in Pids : q # p => child'[q] = child[q]
        /\ child'[p].state = "running" /\ child'[p].wrote = child[p].wrote
        /\ child'[p].pipe = child[p].pipe
    BY <1>1, <2>1, <2>2, <2>3 DEF Child
  <2>5. QED
    BY <1>1, <2>1, <2>4, ChildStep DEF P!Dead
<1>7. QED
  BY <1>2, <1>3, <1>4, <1>5, <1>6

LEMMA SpawnStays ==
  ASSUME ProcessInv, NEW p \in Pids, NEW writes \in Nat, NEW code \in Int, P!Spawn(p, writes, code)
  PROVE  ProcessInv'
<1>1. /\ ~tick.active /\ child[p].state = "none"
      /\ child' = [child EXCEPT ![p].state = "running", ![p].left = writes, ![p].code = code]
      /\ reader' = [reader EXCEPT ![p].state = "reading"]
      /\ spawned' = Append(spawned, p)
      /\ UNCHANGED <<tick, reported>>
  BY DEF P!Spawn, P!Idle
<1>2. /\ child \in [Pids -> Child] /\ reader \in [Pids -> Reader] /\ spawned \in Seq(Pids)
      /\ child[p] \in Child /\ reader[p] \in Reader
  BY DEF ProcessInv, ProcessTypes
<1>3. /\ child' \in [Pids -> Child] /\ \A q \in Pids : q # p => child'[q] = child[q]
      /\ child'[p].state = "running" /\ child'[p].wrote = child[p].wrote
      /\ child'[p].pipe = child[p].pipe
  BY <1>1, <1>2 DEF Child
<1>4. /\ reader' \in [Pids -> Reader] /\ \A q \in Pids : q # p => reader'[q] = reader[q]
      /\ reader'[p].got = reader[p].got /\ reader'[p].sink = reader[p].sink
  BY <1>1, <1>2 DEF Reader
<1>5. /\ spawned' \in Seq(Pids) /\ Len(spawned') = Len(spawned) + 1
      /\ \A i \in 1 .. Len(spawned) : spawned'[i] = spawned[i]
      /\ spawned'[Len(spawned) + 1] = p /\ Len(spawned) \in Nat
  BY <1>1, <1>2, AppendProperties, LenProperties
<1>6. ProcessTypes' /\ Told' = Told
  BY <1>1, <1>3, <1>4, <1>5 DEF ProcessInv, ProcessTypes, Told
<1>7. UnitsInv'
  BY <1>1, <1>2, <1>3, <1>4 DEF ProcessInv, UnitsInv, P!Dead, P!Over
<1>8. Told \in Seq(Report) /\ \A i \in 1 .. Len(Told) : Told[i] \in Report
  BY ConcatProperties, ElementOfSeq DEF ProcessInv, ProcessTypes, Told
<1>9. \A i \in 1 .. Len(Told) : Told[i].pid # p /\ Fits(Told[i])'
  <2>1. ASSUME NEW r \in Report, Fits(r)
        PROVE  r.pid # p /\ Fits(r)'
    <3>1. r.pid \in Pids
      BY DEF Report
    <3>2. QED
      BY <1>1, <1>3, <2>1, <3>1 DEF Fits, P!Dead
  <2>2. QED
    BY <1>6, <1>8, <2>1 DEF ProcessInv, ToldInv
<1>10. ToldInv'
  BY <1>6, <1>9 DEF ProcessInv, ToldInv
<1>11. SpawnedInv'
  <2>1. \A i \in 1 .. Len(spawned) : spawned[i] # p /\ spawned[i] \in Pids
    BY <1>1, <1>2, ElementOfSeq DEF ProcessInv, SpawnedInv
  <2>2. \A i \in 1 .. Len(spawned) + 1 : i \in 1 .. Len(spawned) \/ i = Len(spawned) + 1
    BY <1>5
  <2>3. \A i, j \in 1 .. Len(spawned) + 1 : spawned'[i] = spawned'[j] => i = j
    BY <1>5, <2>1, <2>2 DEF ProcessInv, SpawnedInv
  <2>4. \A i \in 1 .. Len(spawned) + 1 : child'[spawned'[i]].state # "none"
    BY <1>3, <1>5, <2>1, <2>2 DEF ProcessInv, SpawnedInv
  <2>5. \A i \in 1 .. Len(spawned) + 1 : \A k \in 1 .. Len(Told) : Told[k].pid # spawned'[i]
    BY <1>5, <1>9, <2>2 DEF ProcessInv, SpawnedInv
  <2>6. QED
    BY <1>5, <1>6, <2>3, <2>4, <2>5 DEF SpawnedInv
<1>12. TickInv'
  BY <1>1 DEF TickInv
<1>13. QED
  BY <1>6, <1>7, <1>10, <1>11, <1>12 DEF ProcessInv

\* What is left of a sequence without its i-th element.
LEMMA Removed ==
  ASSUME NEW Elements, NEW s \in Seq(Elements), NEW i \in 1 .. Len(s)
  PROVE  /\ P!RemoveAt(s, i) \in Seq(Elements) /\ Len(P!RemoveAt(s, i)) = Len(s) - 1
         /\ \A k \in 1 .. Len(s) - 1 : P!RemoveAt(s, i)[k] = IF k < i THEN s[k] ELSE s[k + 1]
<1>1. Len(s) \in Nat /\ \A k \in 1 .. Len(s) : s[k] \in Elements
  BY LenProperties, ElementOfSeq
<1>2. PICK a : a = SubSeq(s, 1, i - 1)
  OBVIOUS
<1>3. PICK b : b = SubSeq(s, i + 1, Len(s))
  OBVIOUS
<1>4. a \in Seq(Elements) /\ Len(a) = i - 1 /\ \A k \in 1 .. i - 1 : a[k] = s[k]
  <2>1. \A k \in 1 .. i - 1 : s[k] \in Elements
    BY <1>1
  <2>2. a \in Seq(Elements)
    BY <1>1, <1>2, <2>1, SubSeqProperties
  <2>3. Len(a) = i - 1 /\ \A k \in 1 .. i - 1 : a[k] = s[k]
    BY <1>1, <1>2
  <2>4. QED
    BY <2>2, <2>3
<1>5. b \in Seq(Elements) /\ Len(b) = Len(s) - i /\ \A k \in 1 .. Len(s) - i : b[k] = s[i + k]
  <2>1. \A k \in i + 1 .. Len(s) : s[k] \in Elements
    BY <1>1
  <2>2. b \in Seq(Elements)
    BY <1>1, <1>3, <2>1, SubSeqProperties
  <2>3. Len(b) = Len(s) - i /\ \A k \in 1 .. Len(s) - i : b[k] = s[i + k]
    BY <1>1, <1>3
  <2>4. QED
    BY <2>2, <2>3
<1>6. P!RemoveAt(s, i) = a \o b
  BY <1>2, <1>3 DEF P!RemoveAt
<1>7. a \o b \in Seq(Elements) /\ Len(a \o b) = Len(s) - 1
  <2>1. (i - 1) + (Len(s) - i) = Len(s) - 1
    BY <1>1
  <2>2. a \o b \in Seq(Elements) /\ Len(a \o b) = Len(a) + Len(b)
    BY <1>4, <1>5, ConcatProperties
  <2>3. QED
    BY <1>4, <1>5, <2>1, <2>2
<1>8. ASSUME NEW k \in 1 .. Len(s) - 1
      PROVE  (a \o b)[k] = IF k < i THEN s[k] ELSE s[k + 1]
  <2>1. CASE k < i
    BY <1>1, <1>4, <1>5, <2>1, ConcatProperties
  <2>2. CASE ~(k < i)
    <3>1. k - (i - 1) \in 1 .. Len(s) - i /\ i + (k - (i - 1)) = k + 1
      BY <1>1, <2>2
    <3>2. (a \o b)[k] = b[k - (i - 1)]
      BY <1>1, <1>4, <1>5, <2>2, ConcatProperties
    <3>3. QED
      BY <1>5, <2>2, <3>1, <3>2
  <2>3. QED
    BY <2>1, <2>2
<1>9. QED
  BY <1>6, <1>7, <1>8

\* What is on the list when a job is taken off it.
LEMMA ListShrinks ==
  ASSUME ProcessInv, NEW i \in 1 .. Len(spawned), spawned' = P!RemoveAt(spawned, i)
  PROVE  /\ spawned' \in Seq(Pids) /\ Len(spawned') = Len(spawned) - 1 /\ Len(spawned) \in Nat
         /\ \A k \in 1 .. Len(spawned') :
              spawned'[k] = IF k < i THEN spawned[k] ELSE spawned[k + 1]
         /\ \A k, l \in 1 .. Len(spawned') : spawned'[k] = spawned'[l] => k = l
         /\ \A k \in 1 .. Len(spawned') : /\ spawned'[k] # spawned[i]
                                          /\ child[spawned'[k]].state # "none"
                                          /\ \A l \in 1 .. Len(Told) : Told[l].pid # spawned'[k]
<1>1. spawned \in Seq(Pids) /\ Len(spawned) \in Nat
  BY LenProperties DEF ProcessInv, ProcessTypes
<1>2. /\ spawned' \in Seq(Pids) /\ Len(spawned') = Len(spawned) - 1
      /\ \A k \in 1 .. Len(spawned') :
           spawned'[k] = IF k < i THEN spawned[k] ELSE spawned[k + 1]
  BY <1>1, Removed
<1>3. \A k \in 1 .. Len(spawned') : \E m \in 1 .. Len(spawned) :
        spawned'[k] = spawned[m] /\ m # i /\ m = IF k < i THEN k ELSE k + 1
  <2>1. SUFFICES ASSUME NEW k \in 1 .. Len(spawned')
                 PROVE  \E m \in 1 .. Len(spawned) :
                          spawned'[k] = spawned[m] /\ m # i /\ m = IF k < i THEN k ELSE k + 1
    OBVIOUS
  <2>2. PICK n \in Nat : n = Len(spawned) /\ k \in 1 .. n - 1 /\ i \in 1 .. n
    BY <1>1, <1>2
  <2>3. PICK m \in 1 .. n : m # i /\ m = IF k < i THEN k ELSE k + 1
    BY <2>2
  <2>4. spawned'[k] = spawned[m]
    BY <1>2, <2>3
  <2>5. QED
    BY <2>2, <2>3, <2>4
<1>4. \A k, l \in 1 .. Len(spawned') : spawned'[k] = spawned'[l] => k = l
  <2>1. SUFFICES ASSUME NEW k \in 1 .. Len(spawned'), NEW l \in 1 .. Len(spawned'),
                        spawned'[k] = spawned'[l]
                 PROVE  k = l
    OBVIOUS
  <2>2. PICK m \in 1 .. Len(spawned) : spawned'[k] = spawned[m] /\ m = IF k < i THEN k ELSE k + 1
    BY <1>3
  <2>3. PICK n \in 1 .. Len(spawned) : spawned'[l] = spawned[n] /\ n = IF l < i THEN l ELSE l + 1
    BY <1>3
  <2>4. m = n
    BY <2>1, <2>2, <2>3 DEF ProcessInv, SpawnedInv
  <2>5. QED
    BY <1>1, <1>2, <2>2, <2>3, <2>4
<1>5. \A k \in 1 .. Len(spawned') : /\ spawned'[k] # spawned[i]
                                    /\ child[spawned'[k]].state # "none"
                                    /\ \A l \in 1 .. Len(Told) : Told[l].pid # spawned'[k]
  <2>1. SUFFICES ASSUME NEW k \in 1 .. Len(spawned')
                 PROVE  /\ spawned'[k] # spawned[i] /\ child[spawned'[k]].state # "none"
                        /\ \A l \in 1 .. Len(Told) : Told[l].pid # spawned'[k]
    OBVIOUS
  <2>2. PICK m \in 1 .. Len(spawned) : spawned'[k] = spawned[m] /\ m # i
    BY <1>3
  <2>3. QED
    BY <2>2 DEF ProcessInv, SpawnedInv
<1>6. QED
  BY <1>1, <1>2, <1>4, <1>5

\* A tick that tells of no other child than before.
LEMMA NothingTold ==
  ASSUME ProcessInv, UNCHANGED <<child, reader>>,
         \A k \in 1 .. Len(Told') : k \in 1 .. Len(Told) /\ Told'[k] = Told[k],
         \/ spawned' = spawned
         \/ \E i \in 1 .. Len(spawned) : spawned' = P!RemoveAt(spawned, i)
  PROVE  UnitsInv' /\ ToldInv' /\ SpawnedInv' /\ spawned' \in Seq(Pids)
<1>1. UnitsInv'
  BY DEF ProcessInv, UnitsInv, P!Dead
<1>2. ToldInv'
  BY DEF ProcessInv, ToldInv, Fits, P!Dead
<1>3. CASE spawned' = spawned
  BY <1>1, <1>2, <1>3 DEF ProcessInv, ProcessTypes, SpawnedInv
<1>4. CASE \E i \in 1 .. Len(spawned) : spawned' = P!RemoveAt(spawned, i)
  <2>1. PICK i \in 1 .. Len(spawned) : spawned' = P!RemoveAt(spawned, i)
    BY <1>4
  <2>2. /\ spawned' \in Seq(Pids)
        /\ \A k, l \in 1 .. Len(spawned') : spawned'[k] = spawned'[l] => k = l
        /\ \A k \in 1 .. Len(spawned') : /\ child[spawned'[k]].state # "none"
                                         /\ \A l \in 1 .. Len(Told) : Told[l].pid # spawned'[k]
    BY <2>1, ListShrinks
  <2>3. SpawnedInv'
    BY <2>2 DEF SpawnedInv
  <2>4. QED
    BY <1>1, <1>2, <2>2, <2>3
<1>5. QED
  BY <1>3, <1>4

\* The reports of the ticks that ended are the first of all.
LEMMA ReportedFirst ==
  ASSUME ProcessTypes
  PROVE  /\ Told \in Seq(Report) /\ Len(Told) \in Nat /\ Len(reported) \in Nat
         /\ Len(reported) <= Len(Told) /\ reported \o <<>> = reported
         /\ \A k \in 1 .. Len(reported) : Told[k] = reported[k]
<1>1. /\ reported \in Seq(Report) /\ tick.finished \in Seq(Report)
      /\ Len(reported) \in Nat /\ Len(tick.finished) \in Nat
  BY LenProperties DEF ProcessTypes
<1>2. Told \in Seq(Report) /\ Len(Told) = Len(reported) + Len(tick.finished)
  BY <1>1, ConcatProperties DEF Told
<1>3. \A k \in 1 .. Len(reported) : Told[k] = reported[k]
  BY <1>1, ConcatProperties DEF Told
<1>4. reported \o <<>> = reported
  BY <1>1, ConcatEmptySeq
<1>5. QED
  BY <1>1, <1>2, <1>3, <1>4

LEMMA NoTickFields ==
  /\ DOMAIN P!NoTick = TickFields /\ P!NoTick.i = 1 /\ P!NoTick.finished = <<>>
  /\ P!NoTick.due = {} /\ P!NoTick.active = FALSE
  BY DEF P!NoTick, TickFields

LEMMA Joined ==
  ASSUME NEW a \in Seq(Report), NEW b \in Seq(Report), NEW c \in Seq(Report)
  PROVE  (a \o b) \o c = a \o (b \o c)
  BY ConcatAssociative

LEMMA TickStartStays ==
  ASSUME ProcessInv, P!TickStart
  PROVE  ProcessInv'
<1>0. PICK due : due = {p \in P!ToSet(spawned) : P!Dead(p)}
  OBVIOUS
<1>1. /\ tick' = [P!NoTick EXCEPT !.active = TRUE, !.due = due]
      /\ UNCHANGED <<child, reader, spawned, reported>>
  BY <1>0 DEF P!TickStart
<1>2. due \subseteq Pids /\ \A p \in due : P!Dead(p)
  BY <1>0, ElementOfSeq DEF ProcessInv, ProcessTypes, P!ToSet
<1>3. DOMAIN tick' = TickFields /\ tick'.i = 1 /\ tick'.finished = <<>> /\ tick'.due = due
  BY <1>1, NoTickFields DEF TickFields
<1>4. <<>> \in Seq(Report)
  BY EmptySeq
<1>5. ProcessTypes'
  <2>1. /\ child \in [Pids -> Child] /\ reader \in [Pids -> Reader] /\ spawned \in Seq(Pids)
        /\ reported \in Seq(Report)
    BY DEF ProcessInv, ProcessTypes
  <2>2. DOMAIN tick' = TickFields /\ tick'.i \in Nat \ {0} /\ tick'.finished \in Seq(Report)
        /\ tick'.due \subseteq Pids
    BY <1>2, <1>3, <1>4
  <2>3. QED
    BY <1>1, <2>1, <2>2 DEF ProcessTypes
<1>6. Told' = reported
  BY <1>1, <1>3, ReportedFirst DEF ProcessInv, Told
<1>7. UnitsInv' /\ ToldInv' /\ SpawnedInv'
  <2>1. \A k \in 1 .. Len(Told') : k \in 1 .. Len(Told) /\ Told'[k] = Told[k]
    BY <1>6, ReportedFirst DEF ProcessInv
  <2>2. QED
    BY <1>1, <2>1, NothingTold
<1>8. TickInv'
  <2>1. \A p \in tick'.due : P!Dead(p)'
    BY <1>1, <1>2, <1>3 DEF P!Dead
  <2>2. \A i \in 1 .. Len(spawned') : ~(i < tick'.i)
    BY <1>3
  <2>3. QED
    BY <2>1, <2>2 DEF TickInv
<1>9. QED
  BY <1>5, <1>7, <1>8 DEF ProcessInv

\* A tick ends: with its reports, or with a reader's ceiling and none of them.
LEMMA TickEnds ==
  ASSUME ProcessInv, UNCHANGED <<child, reader>>, tick' = P!NoTick,
         \/ spawned' = spawned
         \/ \E i \in 1 .. Len(spawned) : spawned' = P!RemoveAt(spawned, i),
         reported' = reported \/ reported' = Told
  PROVE  ProcessInv'
<1>1. Told' = reported' /\ Told' \in Seq(Report)
  BY NoTickFields, ReportedFirst, ConcatEmptySeq DEF ProcessInv, ProcessTypes, Told
<1>2. \A k \in 1 .. Len(Told') : k \in 1 .. Len(Told) /\ Told'[k] = Told[k]
  BY <1>1, ReportedFirst DEF ProcessInv
<1>3. UnitsInv' /\ ToldInv' /\ SpawnedInv' /\ spawned' \in Seq(Pids)
  BY <1>2, NothingTold
<1>4. ProcessTypes'
  BY <1>1, <1>3, NoTickFields, EmptySeq DEF ProcessInv, ProcessTypes
<1>5. TickInv'
  BY NoTickFields DEF TickInv
<1>6. QED
  BY <1>3, <1>4, <1>5 DEF ProcessInv

LEMMA TickEndStays ==
  ASSUME ProcessInv, P!TickEnd
  PROVE  ProcessInv'
  BY TickEnds DEF P!TickEnd, P!Returned, Told

\* A job of a tick: a child that runs is passed, one that is dead is told of
\* and taken off the list.
LEMMA TickJobStays ==
  ASSUME ProcessInv, P!TickJob
  PROVE  ProcessInv'
<1>0. PICK i \in Nat \ {0} : i = tick.i
  BY DEF ProcessInv, ProcessTypes
<1>1. PICK p : p = spawned[i]
  OBVIOUS
<1>2. PICK text : text = reader[p].sink
  OBVIOUS
<1>3. PICK message : message = IF child[p].code = 0 THEN 0 ELSE text
  OBVIOUS
<1>4. PICK r : r = [pid |-> p, code |-> child[p].code, text |-> message]
  OBVIOUS
<1>5. /\ tick.active /\ i <= Len(spawned) /\ UNCHANGED <<child, reader, reported>>
      /\ \/ /\ ~P!Dead(p) /\ spawned' = spawned /\ tick' = [tick EXCEPT !.i = @ + 1]
         \/ /\ P!Dead(p) /\ text # P!Over
            /\ spawned' = P!RemoveAt(spawned, i)
            /\ tick' = [tick EXCEPT !.i = i, !.finished = Append(@, r)]
         \/ /\ P!Dead(p) /\ text = P!Over
            /\ spawned' = P!RemoveAt(spawned, i) /\ tick' = P!NoTick
  BY <1>0, <1>1, <1>2, <1>3, <1>4 DEF P!TickJob, P!Harvested, P!NextIndex
<1>6. /\ spawned \in Seq(Pids) /\ Len(spawned) \in Nat /\ i \in 1 .. Len(spawned) /\ p \in Pids
      /\ child \in [Pids -> Child] /\ reader \in [Pids -> Reader] /\ reported \in Seq(Report)
      /\ DOMAIN tick = TickFields /\ tick.finished \in Seq(Report) /\ tick.due \subseteq Pids
  BY <1>0, <1>1, <1>5, LenProperties, ElementOfSeq DEF ProcessInv, ProcessTypes
<1>7. ASSUME ~P!Dead(p), spawned' = spawned, tick' = [tick EXCEPT !.i = @ + 1]
      PROVE  ProcessInv'
  <2>1. PICK n \in Nat \ {0} : n = i + 1
    OBVIOUS
  <2>2. tick' = [tick EXCEPT !.i = n]
    BY <1>0, <1>7, <2>1
  <2>3. /\ DOMAIN tick' = TickFields /\ tick'.i = n /\ tick'.finished = tick.finished
        /\ tick'.due = tick.due /\ tick'.active = tick.active
    BY <1>6, <2>2 DEF TickFields
  <2>4. ProcessTypes' /\ Told' = Told
    BY <1>5, <1>6, <1>7, <2>3 DEF ProcessTypes, Told
  <2>5. UnitsInv' /\ ToldInv' /\ SpawnedInv'
    BY <1>5, <1>7, <2>4, NothingTold DEF ProcessInv
  <2>6. TickInv'
    <3>1. \A q \in tick.due : P!Dead(q) /\ P!Dead(q)' /\ q # p
      BY <1>5, <1>7 DEF ProcessInv, TickInv, P!Dead
    <3>2. \A k \in 1 .. Len(spawned) : k < n => k < i \/ k = i
      BY <2>1
    <3>3. QED
      BY <1>0, <1>1, <1>5, <1>7, <2>3, <3>1, <3>2 DEF ProcessInv, TickInv
  <2>7. QED
    BY <2>4, <2>5, <2>6 DEF ProcessInv
<1>8. ASSUME P!Dead(p), text # P!Over, spawned' = P!RemoveAt(spawned, i),
             tick' = [tick EXCEPT !.i = i, !.finished = Append(@, r)]
      PROVE  ProcessInv'
  <2>1. /\ DOMAIN tick' = TickFields /\ tick'.i = i /\ tick'.finished = Append(tick.finished, r)
        /\ tick'.due = tick.due /\ tick'.active = tick.active
    BY <1>6, <1>8 DEF TickFields
  <2>2. /\ text \in {0, child[p].wrote} /\ child[p].code \in Int /\ child[p].wrote \in Nat
    BY <1>2, <1>6, <1>8 DEF ProcessInv, UnitsInv, Child
  <2>3. message \in {0, child[p].wrote} /\ message \in Int
    BY <1>3, <2>2
  <2>4. /\ r \in Report /\ r.pid = p /\ Fits(r)
    BY <1>4, <1>6, <1>8, <2>2, <2>3 DEF Report, Fits
  <2>5. /\ spawned' \in Seq(Pids) /\ Len(spawned') = Len(spawned) - 1
        /\ \A k \in 1 .. Len(spawned') :
             spawned'[k] = IF k < i THEN spawned[k] ELSE spawned[k + 1]
        /\ \A k, l \in 1 .. Len(spawned') : spawned'[k] = spawned'[l] => k = l
        /\ \A k \in 1 .. Len(spawned') : /\ spawned'[k] # p
                                         /\ child[spawned'[k]].state # "none"
                                         /\ \A l \in 1 .. Len(Told) : Told[l].pid # spawned'[k]
    BY <1>1, <1>6, <1>8, ListShrinks
  <2>6. tick'.finished \in Seq(Report)
    BY <1>6, <2>1, <2>4, AppendProperties
  <2>7. ProcessTypes'
    BY <1>0, <1>5, <1>6, <2>1, <2>5, <2>6 DEF ProcessTypes
  <2>8. /\ Told' = Append(Told, r) /\ Told \in Seq(Report)
        /\ \A k \in 1 .. Len(Told) : Told[k].pid # p
    <3>1. Told \in Seq(Report) /\ Told' = reported \o Append(tick.finished, r)
      BY <1>5, <2>1, ReportedFirst DEF ProcessInv, Told
    <3>2. <<r>> \in Seq(Report) /\ Append(tick.finished, r) = tick.finished \o <<r>>
          /\ Append(Told, r) = Told \o <<r>>
      BY <1>6, <2>4, <3>1, AppendIsConcat
    <3>3. Told' = Told \o <<r>>
      <4>1. PICK one \in Seq(Report) : one = <<r>>
        BY <3>2
      <4>2. (reported \o tick.finished) \o one = reported \o (tick.finished \o one)
        BY <1>6, <4>1, Joined
      <4>3. QED
        BY <3>1, <3>2, <4>1, <4>2 DEF Told
    <3>4. \A k \in 1 .. Len(Told) : Told[k].pid # p
      BY <1>1, <1>6 DEF ProcessInv, SpawnedInv
    <3>5. QED
      BY <3>1, <3>2, <3>3, <3>4
  <2>9. /\ Len(Told) \in Nat /\ Len(Told') = Len(Told) + 1 /\ Told'[Len(Told) + 1] = r
        /\ \A k \in 1 .. Len(Told) : Told'[k] = Told[k]
    BY <2>4, <2>8, AppendProperties, LenProperties
  <2>10. \A k \in 1 .. Len(Told') : k \in 1 .. Len(Told) \/ k = Len(Told) + 1
    BY <2>9
  <2>11. UnitsInv' /\ \A x : Fits(x) => Fits(x)'
    BY <1>5 DEF ProcessInv, UnitsInv, P!Dead, Fits
  <2>12. ToldInv'
    <3>1. \A k, l \in 1 .. Len(Told') : Told'[k].pid = Told'[l].pid => k = l
      BY <2>4, <2>8, <2>9, <2>10 DEF ProcessInv, ToldInv
    <3>2. \A k \in 1 .. Len(Told') : Fits(Told'[k])
      BY <2>4, <2>9, <2>10 DEF ProcessInv, ToldInv
    <3>3. \A k \in 1 .. Len(Told') : Fits(Told[k])'
      BY <1>5, <3>2 DEF Fits, P!Dead
    <3>4. QED
      BY <3>1, <3>3 DEF ToldInv
  <2>13. SpawnedInv'
    BY <1>5, <2>4, <2>5, <2>9, <2>10 DEF SpawnedInv
  <2>14. TickInv'
    <3>1. \A k \in 1 .. Len(spawned') : k < i => k \in 1 .. Len(spawned) /\ spawned'[k] = spawned[k]
      BY <1>6, <2>5
    <3>2. \A q \in tick.due : P!Dead(q) /\ P!Dead(q)'
      BY <1>5 DEF ProcessInv, TickInv, P!Dead
    <3>3. QED
      BY <1>0, <1>5, <2>1, <3>1, <3>2 DEF ProcessInv, TickInv
  <2>15. QED
    BY <2>7, <2>11, <2>12, <2>13, <2>14 DEF ProcessInv
<1>9. ASSUME spawned' = P!RemoveAt(spawned, i), tick' = P!NoTick
      PROVE  ProcessInv'
  BY <1>5, <1>6, <1>9, TickEnds
<1>10. QED
  BY <1>5, <1>7, <1>8, <1>9

LEMMA ProcessesStay ==
  ASSUME ProcessInv, ProcessStep
  PROVE  ProcessInv'
<1>1. ASSUME NEW p \in Pids, NEW writes \in 0 .. MaxWrites, NEW code \in P!Codes,
             P!Spawn(p, writes, code)
      PROVE  ProcessInv'
  <2>1. writes \in Nat /\ code \in Int
    BY <1>1 DEF P!Codes
  <2>2. QED
    BY <1>1, <2>1, SpawnStays
<1>2. ASSUME NEW p \in Pids,
             \/ P!Kill(p) \/ P!ChildWrites(p) \/ P!ChildBreaks(p) \/ P!ChildExits(p)
             \/ P!ReaderReads(p) \/ P!ReaderStores(p)
      PROVE  ProcessInv'
  BY <1>2, ChildrenStay
<1>3. CASE P!Tick
  BY <1>3, TickStartStays, TickJobStays, TickEndStays DEF P!Tick
<1>4. CASE UNCHANGED processVars
  BY <1>4 DEF processVars, ProcessInv, ProcessTypes, UnitsInv, ToldInv, SpawnedInv, TickInv, Told,
     Fits, P!Dead
<1>5. QED
  BY <1>1, <1>2, <1>3, <1>4 DEF ProcessStep, P!Next

LEMMA ProcessStart == Init => ProcessInv
<1> SUFFICES ASSUME Init PROVE ProcessInv
  OBVIOUS
<1>1. P!Init
  BY DEF Init
<1>2. spawned = <<>> /\ reported = <<>> /\ tick = P!NoTick
  BY <1>1 DEF P!Init
<1>3. /\ child \in [Pids -> Child] /\ reader \in [Pids -> Reader]
      /\ \A p \in Pids : /\ child[p].state = "none" /\ reader[p].state = "none"
                         /\ child[p].pipe = 0 /\ child[p].wrote = 0 /\ reader[p].got = 0
                         /\ reader[p].sink = 0
  BY <1>1 DEF P!Init, Child, Reader
<1>4. ProcessTypes
  BY <1>2, <1>3, NoTickFields, EmptySeq DEF ProcessTypes
<1>5. Len(Told) = 0 /\ Len(spawned) = 0
  <2>1. Told = <<>>
    BY <1>2, <1>4, NoTickFields, ReportedFirst DEF Told
  <2>2. QED
    BY <1>2, <2>1
<1>6. UnitsInv /\ ToldInv /\ SpawnedInv
  BY <1>3, <1>5 DEF UnitsInv, ToldInv, SpawnedInv
<1>7. TickInv
  BY <1>2, NoTickFields DEF TickInv
<1>8. QED
  BY <1>4, <1>6, <1>7 DEF ProcessInv

LEMMA ReportsFit == ProcessInv => P!ReportedOnce /\ P!MessagesAreWhole
<1> SUFFICES ASSUME ProcessInv PROVE P!ReportedOnce /\ P!MessagesAreWhole
  OBVIOUS
<1>1. /\ DOMAIN Told = 1 .. Len(Told) /\ DOMAIN reported = 1 .. Len(reported)
      /\ \A k \in 1 .. Len(reported) : k \in 1 .. Len(Told) /\ Told[k] = reported[k]
  BY ReportedFirst, LenProperties DEF ProcessInv, ProcessTypes
<1>2. P!ReportedOnce
  BY <1>1 DEF ProcessInv, ToldInv, Fits, P!ReportedOnce, Told
<1>3. P!MessagesAreWhole
  BY <1>1 DEF ProcessInv, ToldInv, Fits, P!MessagesAreWhole
<1>4. QED
  BY <1>2, <1>3

LEMMA HarvestIsComplete ==
  ASSUME ProcessInv, P!TickEnd
  PROVE  tick.due \cap P!ToSet(spawned) = {}
<1>1. /\ tick.active /\ tick.i > Len(spawned) /\ tick.i \in Nat
      /\ DOMAIN spawned = 1 .. Len(spawned) /\ Len(spawned) \in Nat
  BY LenProperties DEF P!TickEnd, ProcessInv, ProcessTypes
<1>2. \A i \in 1 .. Len(spawned) : spawned[i] \notin tick.due
  BY <1>1 DEF ProcessInv, TickInv
<1>3. QED
  BY <1>1, <1>2 DEF P!ToSet

-----------------------------------------------------------------------------
LEMMA EachReportStep == [Next]_vars => ProcessStep /\ OutputStep /\ GuiStep
<1>1. Next => (P!Next \/ UNCHANGED processVars)
  BY DEF Next, Rest
<1>2. Next => (O!Next \/ UNCHANGED outputVars)
  BY DEF Next, Rest
<1>3. Next => (H!Next \/ UNCHANGED guiVars)
  BY DEF Next, Rest
<1>4. QED
  BY <1>1, <1>2, <1>3 DEF vars, ProcessStep, OutputStep, GuiStep

\* In every run: a child is reported once, as it ended and with all it wrote or
\* nothing; a tick leaves no child that had finished when it began; a capture
\* is complete; a window the program holds is closed only at somebody's wish,
\* and a file dialog answers its own call (namespaces_os.rs: OS.tick;
\* evaluator/mod.rs: run_child_bounded; namespaces_gui.rs: the window thread).
THEOREM ReportsHold ==
  ASSUME NoStaleClose
  PROVE  Spec => ReportsAreTrue
<1> DEFINE ReportInv == ProcessInv /\ OutputInv /\ GuiInv
<1>1. Init => ReportInv
  BY ProcessStart, OutputStart, GuiStart
<1>2. ReportInv /\ [Next]_vars => ReportInv'
  BY EachReportStep, ProcessesStay, OutputStays, GuiStays
<1>3. ReportInv => /\ P!ReportedOnce /\ P!MessagesAreWhole /\ O!CaptureIsComplete
                   /\ H!ClosedByRequest
  BY ReportsFit, CapturesAreComplete, HeldWindowsAreOpen
<1>4. ReportInv /\ [Next]_vars =>
        [P!TickEnd => tick.due \cap P!ToSet(spawned) = {}]_processVars
  BY HarvestIsComplete
<1>5. ReportInv /\ [Next]_vars =>
        [H!FileReturns /\ H!IsOpen(0) => dialog.result = script.call.want]_guiVars
  BY AnswersFit
<1> HIDE DEF ReportInv
<1>6. QED
  BY <1>1, <1>2, <1>3, <1>4, <1>5, PTL
     DEF Spec, ReportsAreTrue, P!TickHarvestsAllDue, H!DialogAnswersItsCall, P!processVars, processVars,
         H!guiVars, guiVars

-----------------------------------------------------------------------------
(* Keys.  What was typed into an open window is what the program was given, *)
(* what its answered present has for it and what waits; a present that asks *)
(* for a frame finds nothing answered, and a window is born without keys.   *)

KeyTypes ==
  /\ typed \in [H!Windows -> Seq(Nat)] /\ given \in [H!Windows -> Seq(Nat)]
  /\ keys \in [H!Windows -> Seq(Nat)] /\ last \in [H!Windows -> Nat]
  /\ DOMAIN shared \subseteq H!Windows
  /\ \A w \in DOMAIN shared :
       shared[w].present \in Nat /\ shared[w].done \in Nat /\ shared[w].input \in Seq(Nat)
WishInv ==
  /\ habit \cap {"close", "userCloses"} = {} => 0 \notin wanted
  /\ "close" \notin habit /\ script.opened > 0 => script.has
  /\ script.has => script.opened > 0
  /\ "types" \in habit /\ Op = "open" => script.opened = 0
Unborn == script.opened = 0 /\ ~(Op = "open" /\ shared[0].ready)
Blank(w) == shared[w].present = 0 /\ shared[w].done = 0 /\ ~shared[w].open
BirthInv ==
  /\ "types" \in habit /\ Unborn => 0 \notin live /\ keys[0] = <<>> /\ Blank(0)
  /\ Op = "openWindow" /\ ~shared[script.call.win].ready => Blank(script.call.win)
Asks(w) == Op = "present" /\ script.call.win = w
AskInv ==
  Op = "present" => /\ script.call.win \in DOMAIN shared
                    /\ script.call.want = shared[script.call.win].present
Joined3(a, b, c, d) == d = (a \o b) \o c
Orderly(w) ==
  /\ Joined3(given[w], H!Unread(w), keys[w], typed[w])
  /\ shared[w].done <= shared[w].present
  /\ shared[w].present > last[w] => Asks(w) /\ shared[w].done < shared[w].present
OrderInv == "types" \in habit => \A w \in DOMAIN shared : H!IsOpen(w) => Orderly(w)
QuietInv ==
  "types" \notin habit =>
    /\ \A w \in H!Windows : typed[w] = <<>> /\ given[w] = <<>> /\ keys[w] = <<>>
    /\ \A w \in DOMAIN shared : shared[w].input = <<>>
KeyInv == KeyTypes /\ WishInv /\ BirthInv /\ AskInv /\ OrderInv /\ QuietInv

NoLeftoverKeys ==
  \A b \in Habits : {"reopen", "types"} \subseteq b => b \cap {"close", "userCloses"} = {}

SameWindow(w) ==
  /\ w \in DOMAIN shared /\ w \in DOMAIN shared' /\ (H!IsOpen(w)' => H!IsOpen(w))
  /\ shared'[w].present = shared[w].present /\ shared'[w].done = shared[w].done
  /\ shared'[w].input = shared[w].input
  /\ typed'[w] = typed[w] /\ given'[w] = given[w] /\ keys'[w] = keys[w] /\ last'[w] = last[w]

LEMMA UnreadIs ==
  ASSUME NEW w
  PROVE  /\ Asks(w) /\ shared[w].done >= script.call.want => H!Unread(w) = shared[w].input
         /\ ~(Asks(w) /\ shared[w].done >= script.call.want) => H!Unread(w) = <<>>
  BY DEF H!Unread, H!Shown, Asks, Op

\* A step that leaves a window and the program's call to it alone.
LEMMA OrderlyStays ==
  ASSUME NEW w, SameWindow(w), H!IsOpen(w) => Orderly(w),
         script'.call = script.call \/ (~Asks(w) /\ ~Asks(w)')
  PROVE  H!IsOpen(w)' => Orderly(w)'
<1>1. Asks(w)' <=> Asks(w)
  BY DEF Asks, Op
<1>2. H!Unread(w)' = H!Unread(w)
  <2>1. CASE script'.call = script.call
    BY <2>1 DEF H!Unread, H!Shown, SameWindow
  <2>2. CASE ~Asks(w) /\ ~Asks(w)'
    BY <2>2 DEF H!Unread, Asks, Op
  <2>3. QED
    BY <2>1, <2>2
<1>3. QED
  BY <1>1, <1>2, Zenon DEF Orderly, SameWindow

Elsewhere == {"none", "idle", "dialog"}

\* A step that touches neither the windows nor their keys.
Untouched ==
  /\ habit' = habit /\ shared' = shared /\ live' = live /\ last' = last
  /\ keys' = keys /\ typed' = typed /\ given' = given
  /\ script'.opened = script.opened /\ (script'.has => script.has)
  /\ "close" \notin habit => script'.has = script.has
  /\ 0 \in wanted' => 0 \in wanted \/ habit \cap {"close", "userCloses"} # {}
  /\ script'.call = script.call \/ (Op \in Elsewhere /\ Op' \in Elsewhere)

LEMMA KeysUntouched ==
  ASSUME KeyInv, Untouched
  PROVE  KeyInv'
<1> USE DEF Untouched
<1>1. KeyTypes' /\ QuietInv'
  BY DEF KeyInv, KeyTypes, QuietInv, H!Windows
<1>2. WishInv'
  BY DEF KeyInv, WishInv, Op, Elsewhere
<1>3. BirthInv'
  BY DEF KeyInv, BirthInv, Unborn, Blank, Op, Elsewhere
<1>4. AskInv'
  BY DEF KeyInv, AskInv, Op, Elsewhere
<1>5. OrderInv'
  <2>1. SUFFICES ASSUME "types" \in habit, NEW w \in DOMAIN shared
                 PROVE  H!IsOpen(w)' => Orderly(w)'
    BY DEF OrderInv
  <2>2. SameWindow(w)
    BY <2>1 DEF SameWindow, H!IsOpen
  <2>3. script'.call = script.call \/ (~Asks(w) /\ ~Asks(w)')
    BY DEF Asks, Elsewhere
  <2>4. H!IsOpen(w) => Orderly(w)
    BY <2>1 DEF KeyInv, OrderInv
  <2>5. QED
    BY <2>2, <2>3, <2>4, OrderlyStays
<1>6. QED
  BY <1>1, <1>2, <1>3, <1>4, <1>5 DEF KeyInv

LEMMA KeysNoted ==
  ASSUME KeyInv, GuiInv,
         \/ H!IdleWait \/ H!AskFile \/ H!IdleReturns \/ H!IdleTimesOut \/ H!FileReturns
         \/ H!Close \/ H!Ends \/ H!Leave \/ H!Discard \/ H!UserAnswers \/ H!Check
         \/ (\E w \in H!Windows : H!UserCloses(w)) \/ UNCHANGED guiVars
  PROVE  KeyInv'
<1>1. GuiTypes
  BY DEF GuiInv
<1>2. CASE H!IdleWait \/ H!AskFile
  <2>1. UNCHANGED <<habit, shared, live, last, keys, typed, given, wanted>>
    BY <1>2 DEF H!IdleWait, H!AskFile, H!threadVars, H!ghostVars
  <2>2. CASE H!IdleWait
    <3>1. /\ script.call = H!NoCall
          /\ script' = [script EXCEPT !.call = [op |-> "idle", base |-> epoch], !.calls = @ + 1]
      BY <2>2 DEF H!IdleWait, H!Calls
    <3>2. /\ Op = "none" /\ Op' = "idle"
          /\ script'.opened = script.opened /\ script'.has = script.has
      BY <1>1, <3>1 DEF GuiTypes, ScriptFields, Op, H!NoCall
    <3>3. QED
      BY <2>1, <3>2, KeysUntouched DEF Untouched, Elsewhere
  <2>3. CASE H!AskFile
    <3>1. /\ script.call = H!NoCall
          /\ script' = [script EXCEPT !.call = [op |-> "dialog", want |-> dialog.seq + 1],
                                      !.calls = @ + 1]
      BY <2>3 DEF H!AskFile, H!Calls
    <3>2. /\ Op = "none" /\ Op' = "dialog"
          /\ script'.opened = script.opened /\ script'.has = script.has
      BY <1>1, <3>1 DEF GuiTypes, ScriptFields, Op, H!NoCall
    <3>3. QED
      BY <2>1, <3>2, KeysUntouched DEF Untouched, Elsewhere
  <2>4. QED
    BY <1>2, <2>2, <2>3
<1>3. CASE H!IdleReturns \/ H!IdleTimesOut \/ H!FileReturns
  <2>1. UNCHANGED <<habit, shared, live, last, keys, typed, given, wanted>>
    BY <1>3 DEF H!IdleReturns, H!IdleTimesOut, H!FileReturns, H!threadVars, H!ghostVars
  <2>2. Op \in {"idle", "dialog"} /\ script' = [script EXCEPT !.call = H!NoCall]
    BY <1>3 DEF H!IdleReturns, H!IdleTimesOut, H!FileReturns, H!Returns, Op
  <2>3. Op' = "none" /\ script'.opened = script.opened /\ script'.has = script.has
    BY <1>1, <2>2 DEF GuiTypes, ScriptFields, Op, H!NoCall
  <2>4. Untouched
    BY <2>1, <2>2, <2>3 DEF Untouched, Elsewhere
  <2>5. QED
    BY <2>4, KeysUntouched
<1>4. CASE H!Close
  <2>1. /\ UNCHANGED <<habit, shared, live, last, keys, typed, given>> /\ "close" \in habit
        /\ script' = [script EXCEPT !.has = FALSE, !.known = {}]
    BY <1>4 DEF H!Close, H!threadVars
  <2>2. script'.call = script.call /\ script'.opened = script.opened /\ ~script'.has
    BY <1>1, <2>1 DEF GuiTypes, ScriptFields
  <2>3. habit \cap {"close", "userCloses"} # {}
    BY <2>1
  <2>4. Untouched
    BY <2>1, <2>2, <2>3 DEF Untouched
  <2>5. QED
    BY <2>4, KeysUntouched
<1>5. CASE \/ H!Ends \/ H!Leave \/ H!Discard \/ H!UserAnswers \/ H!Check \/ UNCHANGED guiVars
  <2>1. UNCHANGED <<habit, shared, script, live, last, keys, typed, given, wanted>>
    BY <1>5 DEF H!Ends, H!Leave, H!Discard, H!UserAnswers, H!Check, H!threadVars, H!ghostVars, guiVars
  <2>2. Untouched
    BY <2>1 DEF Untouched
  <2>3. QED
    BY <2>2, KeysUntouched
<1>6. CASE \E w \in H!Windows : H!UserCloses(w)
  <2>1. PICK w \in H!Windows : H!UserCloses(w)
    BY <1>6
  <2>2. UNCHANGED <<habit, shared, script, live, last, keys, typed, given>> /\ wanted' = wanted \cup {w}
    BY <2>1 DEF H!UserCloses
  <2>3. 0 \in wanted' => 0 \in wanted \/ habit \cap {"close", "userCloses"} # {}
    <3>1. w = 0 => "userCloses" \in habit
      BY <2>1 DEF H!UserCloses
    <3>2. QED
      BY <2>2, <3>1
  <2>4. Untouched
    BY <2>2, <2>3 DEF Untouched
  <2>5. QED
    BY <2>4, KeysUntouched
<1>7. QED
  BY <1>2, <1>3, <1>4, <1>5, <1>6

\* The program opens its first window only while it has none that lives.
LEMMA KeysOpen ==
  ASSUME KeyInv, GuiInv, H!Open, NoLeftoverKeys
  PROVE  KeyInv'
<1>1. /\ script.call = H!NoCall /\ ~over
      /\ script' = [script EXCEPT !.call = [op |-> "open"], !.calls = @ + 0]
      /\ shared' = [shared EXCEPT ![0].failed = FALSE, ![0].ready = FALSE, ![0].closing = FALSE]
      /\ ~script.has \/ ~H!IsOpen(0)
      /\ script.opened > 0 => "reopen" \in habit
      /\ UNCHANGED <<habit, live, last, keys, typed, given, wanted>>
  BY DEF H!Open, H!Calls, H!threadVars, H!ghostVars
<1>2. /\ Op = "none" /\ Op' = "open" /\ script'.opened = script.opened
      /\ script'.has = script.has
  BY <1>1 DEF GuiInv, GuiTypes, ScriptFields, Op, H!NoCall
<1>3. /\ DOMAIN shared' = DOMAIN shared
      /\ shared'[0].present = shared[0].present /\ shared'[0].done = shared[0].done
      /\ shared'[0].input = shared[0].input /\ shared'[0].open = shared[0].open
      /\ \A w \in DOMAIN shared : w # 0 => shared'[w] = shared[w]
  BY <1>1 DEF GuiInv, GuiTypes, WindowFields
<1>4. "types" \in habit => script.opened = 0
  <2>1. SUFFICES ASSUME "types" \in habit, script.opened # 0 PROVE FALSE
    OBVIOUS
  <2>2. script.opened > 0
    BY <2>1 DEF GuiInv, GuiTypes
  <2>3. habit \cap {"close", "userCloses"} = {}
    <3>1. "reopen" \in habit /\ habit \in Habits
      BY <1>1, <2>2 DEF GuiInv, HabitInv
    <3>2. QED
      BY <2>1, <3>1 DEF NoLeftoverKeys
  <2>4. 0 \notin wanted /\ script.has
    BY <2>2, <2>3 DEF KeyInv, WishInv
  <2>5. H!IsOpen(0)
    BY <1>1, <2>4 DEF GuiInv, FirstInv
  <2>6. QED
    BY <1>1, <2>4, <2>5
<1>5. "types" \in habit => 0 \notin live /\ keys[0] = <<>> /\ Blank(0)
  BY <1>2, <1>4 DEF KeyInv, BirthInv, Unborn
<1>6. 0 \in DOMAIN shared
  BY DEF GuiInv, GuiTypes
<1>7. KeyTypes' /\ QuietInv'
  <2>1. \A w \in DOMAIN shared : /\ shared'[w].present = shared[w].present
                                 /\ shared'[w].done = shared[w].done
                                 /\ shared'[w].input = shared[w].input
    BY <1>3
  <2>2. KeyTypes'
    BY <1>1, <1>3, <2>1 DEF KeyInv, KeyTypes, H!Windows
  <2>3. QuietInv'
    BY <1>1, <1>3, <2>1 DEF KeyInv, QuietInv, H!Windows
  <2>4. QED
    BY <2>2, <2>3
<1>8. WishInv'
  BY <1>1, <1>2, <1>4 DEF KeyInv, WishInv
<1>9. BirthInv'
  BY <1>1, <1>2, <1>3, <1>5 DEF BirthInv, Blank
<1>10. AskInv'
  BY <1>2 DEF AskInv
<1>11. OrderInv'
  <2>1. SUFFICES ASSUME "types" \in habit, NEW w \in DOMAIN shared, H!IsOpen(w)'
                 PROVE  Orderly(w)'
    BY <1>1, <1>3 DEF OrderInv
  <2>2. w # 0
    BY <1>3, <1>5, <2>1 DEF H!IsOpen, Blank
  <2>3. SameWindow(w)
    BY <1>1, <1>3, <2>1, <2>2 DEF SameWindow, H!IsOpen
  <2>4. H!IsOpen(w) => Orderly(w)
    BY <2>1 DEF KeyInv, OrderInv
  <2>5. ~Asks(w) /\ ~Asks(w)'
    BY <1>2 DEF Asks
  <2>6. QED
    BY <2>1, <2>3, <2>4, <2>5, OrderlyStays
<1>12. QED
  BY <1>7, <1>8, <1>9, <1>10, <1>11 DEF KeyInv

LEMMA KeysOpenReturns ==
  ASSUME KeyInv, GuiInv, H!OpenReturns
  PROVE  KeyInv'
<1>1. Op = "open" /\ UNCHANGED <<habit, shared, live, last, keys, typed, given, wanted>>
  BY DEF H!OpenReturns, H!threadVars, H!ghostVars, Op
<1>2. \/ /\ shared[0].failed /\ script' = [script EXCEPT !.call = H!NoCall]
      \/ /\ shared[0].ready
         /\ script' = [script EXCEPT !.has = TRUE, !.opened = @ + 1, !.known = {}, !.next = 1,
                                     !.call = H!NoCall]
  BY DEF H!OpenReturns, H!Returns
<1>3. DOMAIN script = ScriptFields /\ script.opened \in Nat
  BY DEF GuiInv, GuiTypes
<1>4. /\ Op' = "none"
      /\ \/ shared[0].failed /\ script'.has = script.has /\ script'.opened = script.opened
         \/ script'.has /\ script'.opened = script.opened + 1
  <2>1. CASE shared[0].failed /\ script' = [script EXCEPT !.call = H!NoCall]
    BY <1>3, <2>1 DEF ScriptFields, Op, H!NoCall
  <2>2. CASE script' = [script EXCEPT !.has = TRUE, !.opened = @ + 1, !.known = {}, !.next = 1,
                                      !.call = H!NoCall]
    <3>1. script'.call = H!NoCall /\ script'.has = TRUE /\ script'.opened = script.opened + 1
      BY <1>3, <2>2 DEF ScriptFields
    <3>2. QED
      BY <3>1 DEF Op, H!NoCall
  <2>3. QED
    BY <1>2, <2>1, <2>2
<1>5. shared[0].failed => ~shared[0].ready
  BY <1>1 DEF GuiInv, ReopenInv
<1>6. KeyTypes' /\ QuietInv'
  BY <1>1 DEF KeyInv, KeyTypes, QuietInv, H!Windows
<1>7. WishInv'
  BY <1>1, <1>3, <1>4 DEF KeyInv, WishInv
<1>8. BirthInv'
  <2>1. Unborn' => Unborn
    BY <1>1, <1>3, <1>4, <1>5 DEF Unborn
  <2>2. QED
    BY <1>1, <1>4, <2>1 DEF KeyInv, BirthInv, Blank
<1>9. AskInv'
  BY <1>4 DEF AskInv
<1>10. OrderInv'
  <2>1. SUFFICES ASSUME "types" \in habit, NEW w \in DOMAIN shared
                 PROVE  H!IsOpen(w)' => Orderly(w)'
    BY <1>1 DEF OrderInv
  <2>2. SameWindow(w)
    BY <1>1, <2>1 DEF SameWindow, H!IsOpen
  <2>3. H!IsOpen(w) => Orderly(w)
    BY <2>1 DEF KeyInv, OrderInv
  <2>4. ~Asks(w) /\ ~Asks(w)'
    BY <1>1, <1>4 DEF Asks
  <2>5. QED
    BY <2>2, <2>3, <2>4, OrderlyStays
<1>11. QED
  BY <1>6, <1>7, <1>8, <1>9, <1>10 DEF KeyInv

\* A further window is blank until it is born.
LEMMA KeysOpenWindow ==
  ASSUME KeyInv, GuiInv, H!OpenWindow
  PROVE  KeyInv'
<1> DEFINE v == script.next
<1>1. /\ v \in H!Extras /\ script.call = H!NoCall
      /\ script' = [script EXCEPT !.call = [op |-> "openWindow", win |-> v], !.calls = @ + 0]
      /\ shared' = [w \in DOMAIN shared \cup {v} |-> IF w = v THEN H!Window ELSE shared[w]]
      /\ UNCHANGED <<habit, live, last, keys, typed, given, wanted>>
  BY DEF H!OpenWindow, H!Calls, H!threadVars, H!ghostVars
<1>2. /\ Op = "none" /\ Op' = "openWindow" /\ script'.call.win = v
      /\ script'.opened = script.opened /\ script'.has = script.has
  BY <1>1 DEF GuiInv, GuiTypes, ScriptFields, Op, H!NoCall
<1>3. PICK new : new = H!Window
  OBVIOUS
<1>4. new.present = 0 /\ new.done = 0 /\ new.open = FALSE /\ new.input = <<>>
  BY <1>3 DEF H!Window
<1>5. /\ DOMAIN shared' = DOMAIN shared \cup {v} /\ shared'[v] = new
      /\ \A w \in DOMAIN shared : w # v => shared'[w] = shared[w]
  BY <1>1, <1>3
<1>6. v \in H!Windows /\ v # 0 /\ 0 \in DOMAIN shared
  BY <1>1 DEF GuiInv, GuiTypes, H!Extras
<1> HIDE DEF v
<1>7. KeyTypes'
  <2>1. \A w \in DOMAIN shared' :
          shared'[w].present \in Nat /\ shared'[w].done \in Nat /\ shared'[w].input \in Seq(Nat)
    <3>1. <<>> \in Seq(Nat)
      OBVIOUS
    <3>2. SUFFICES ASSUME NEW w \in DOMAIN shared'
                   PROVE  /\ shared'[w].present \in Nat /\ shared'[w].done \in Nat
                          /\ shared'[w].input \in Seq(Nat)
      OBVIOUS
    <3>3. CASE w = v
      <4>1. new.present \in Nat /\ new.done \in Nat /\ new.input \in Seq(Nat)
        BY <1>4, <3>1
      <4>2. QED
        BY <1>5, <3>3, <4>1, Zenon
    <3>4. CASE w # v
      BY <1>5, <3>4 DEF KeyInv, KeyTypes
    <3>5. QED
      BY <3>3, <3>4
  <2>2. DOMAIN shared' \subseteq H!Windows
    BY <1>5, <1>6 DEF KeyInv, KeyTypes
  <2>3. QED
    BY <1>1, <2>1, <2>2 DEF KeyInv, KeyTypes, H!Windows
<1>8. QuietInv'
  BY <1>1, <1>4, <1>5 DEF KeyInv, QuietInv, H!Windows
<1>9. WishInv'
  BY <1>1, <1>2 DEF KeyInv, WishInv
<1>10. BirthInv'
  <2>1. Unborn' => Unborn
    BY <1>2, <1>5, <1>6 DEF Unborn
  <2>2. Blank(0) => Blank(0)'
    BY <1>5, <1>6 DEF Blank
  <2>3. Blank(script.call.win)'
    BY <1>2, <1>4, <1>5 DEF Blank
  <2>4. QED
    BY <1>1, <2>1, <2>2, <2>3 DEF KeyInv, BirthInv
<1>11. AskInv'
  BY <1>2 DEF AskInv
<1>12. OrderInv'
  <2>1. SUFFICES ASSUME "types" \in habit, NEW w \in DOMAIN shared', H!IsOpen(w)'
                 PROVE  Orderly(w)'
    BY <1>1 DEF OrderInv
  <2>2. w # v /\ w \in DOMAIN shared
    BY <1>4, <1>5, <2>1 DEF H!IsOpen
  <2>3. SameWindow(w)
    BY <1>1, <1>5, <2>1, <2>2 DEF SameWindow, H!IsOpen
  <2>4. H!IsOpen(w) => Orderly(w)
    BY <2>1, <2>2 DEF KeyInv, OrderInv
  <2>5. ~Asks(w) /\ ~Asks(w)'
    BY <1>2 DEF Asks
  <2>6. QED
    BY <2>1, <2>3, <2>4, <2>5, OrderlyStays
<1>13. QED
  BY <1>7, <1>8, <1>9, <1>10, <1>11, <1>12 DEF KeyInv

LEMMA KeysOpenWindowReturns ==
  ASSUME KeyInv, GuiInv, H!OpenWindowReturns
  PROVE  KeyInv'
<1> DEFINE v == script.call.win
<1>1. /\ Op = "openWindow"
      /\ \/ /\ shared' = [w \in DOMAIN shared \ {v} |-> shared[w]]
            /\ script' = [[script EXCEPT !.next = v + 1] EXCEPT !.call = H!NoCall]
         \/ /\ shared' = shared
            /\ script' = [[script EXCEPT !.next = v + 1, !.known = @ \cup {v}] EXCEPT !.call = H!NoCall]
      /\ UNCHANGED <<habit, live, last, keys, typed, given, wanted>>
  BY DEF H!OpenWindowReturns, H!Returns, H!threadVars, H!ghostVars, Op
<1>2. v # 0 /\ 0 \in DOMAIN shared
  BY <1>1 DEF GuiInv, GuiTypes, CmdInv, H!Extras
<1>3. Op' = "none" /\ script'.opened = script.opened /\ script'.has = script.has
  <2>1. PICK old : /\ DOMAIN old = ScriptFields /\ script' = [old EXCEPT !.call = H!NoCall]
                   /\ old.opened = script.opened /\ old.has = script.has
    <3>1. DOMAIN script = ScriptFields
      BY DEF GuiInv, GuiTypes
    <3>2. PICK k : k = v + 1
      OBVIOUS
    <3>3. PICK m : m = script.known \cup {v}
      OBVIOUS
    <3>4. \/ script' = [[script EXCEPT !.next = k] EXCEPT !.call = H!NoCall]
          \/ script' = [[script EXCEPT !.next = k, !.known = m] EXCEPT !.call = H!NoCall]
      BY <1>1, <3>2, <3>3
    <3>5. PICK a : a = [script EXCEPT !.next = k]
      OBVIOUS
    <3>6. PICK b : b = [script EXCEPT !.next = k, !.known = m]
      OBVIOUS
    <3>7. DOMAIN a = ScriptFields /\ a.opened = script.opened /\ a.has = script.has
      BY <3>1, <3>5 DEF ScriptFields
    <3>8. DOMAIN b = ScriptFields /\ b.opened = script.opened /\ b.has = script.has
      BY <3>1, <3>6 DEF ScriptFields
    <3>9. QED
      BY <3>4, <3>5, <3>6, <3>7, <3>8, Zenon
  <2>2. QED
    BY <2>1 DEF ScriptFields, Op, H!NoCall
<1>4. /\ DOMAIN shared' \subseteq DOMAIN shared /\ 0 \in DOMAIN shared'
      /\ \A w \in DOMAIN shared' : shared'[w] = shared[w]
  BY <1>1, <1>2
<1> HIDE DEF v
<1>5. KeyTypes' /\ QuietInv'
  BY <1>1, <1>4 DEF KeyInv, KeyTypes, QuietInv, H!Windows
<1>6. WishInv'
  BY <1>1, <1>3 DEF KeyInv, WishInv
<1>7. BirthInv'
  <2>1. Unborn' => Unborn
    BY <1>1, <1>3 DEF Unborn
  <2>2. Blank(0) => Blank(0)'
    BY <1>4 DEF Blank
  <2>3. QED
    BY <1>1, <1>3, <2>1, <2>2 DEF KeyInv, BirthInv
<1>8. AskInv'
  BY <1>3 DEF AskInv
<1>9. OrderInv'
  <2>1. SUFFICES ASSUME "types" \in habit, NEW w \in DOMAIN shared'
                 PROVE  H!IsOpen(w)' => Orderly(w)'
    BY <1>1 DEF OrderInv
  <2>2. SameWindow(w)
    BY <1>1, <1>4, <2>1 DEF SameWindow, H!IsOpen
  <2>3. H!IsOpen(w) => Orderly(w)
    BY <1>4, <2>1 DEF KeyInv, OrderInv
  <2>4. ~Asks(w) /\ ~Asks(w)'
    BY <1>1, <1>3 DEF Asks
  <2>5. QED
    BY <2>2, <2>3, <2>4, OrderlyStays
<1>10. QED
  BY <1>5, <1>6, <1>7, <1>8, <1>9 DEF KeyInv

\* A present asks for a frame that was not shown: it finds nothing answered.
LEMMA KeysPresent ==
  ASSUME KeyInv, GuiInv, NEW v \in H!Windows, H!Present(v)
  PROVE  KeyInv'
<1>1. /\ script.has /\ v \in DOMAIN shared /\ script.call = H!NoCall
      /\ script' = [script EXCEPT !.call = [op |-> "present", win |-> v,
                                            want |-> shared[v].present + 1], !.calls = @ + 1]
      /\ shared' = [shared EXCEPT ![v].present = @ + 1]
      /\ UNCHANGED <<habit, live, last, keys, typed, given, wanted>>
  BY DEF H!Present, H!Calls, H!threadVars, H!ghostVars
<1>2. PICK n \in Nat, m \in Nat : n = shared[v].present /\ m = n + 1
  BY <1>1 DEF KeyInv, KeyTypes
<1>3. /\ Op = "none" /\ Op' = "present" /\ script'.call.win = v /\ script'.call.want = m
      /\ script'.opened = script.opened /\ script'.has = script.has
  <2>1. PICK c : c = [op |-> "present", win |-> v, want |-> m]
    OBVIOUS
  <2>2. c.op = "present" /\ c.win = v /\ c.want = m
    BY <2>1
  <2>3. PICK i : i = script.calls + 1
    OBVIOUS
  <2>4. script' = [script EXCEPT !.call = c, !.calls = i]
    BY <1>1, <1>2, <2>1, <2>3
  <2>5. /\ script'.call = c /\ script'.opened = script.opened /\ script'.has = script.has
    BY <2>4 DEF GuiInv, GuiTypes, ScriptFields
  <2>6. Op = "none"
    BY <1>1 DEF Op, H!NoCall
  <2>7. Op' = "present" /\ script'.call.win = v /\ script'.call.want = m
    BY <2>2, <2>5, Zenon DEF Op
  <2>8. QED
    BY <2>5, <2>6, <2>7
<1>4. /\ DOMAIN shared' = DOMAIN shared
      /\ shared'[v].present = m /\ shared'[v].done = shared[v].done
      /\ shared'[v].input = shared[v].input
      /\ shared'[v].open = shared[v].open /\ shared'[v].closing = shared[v].closing
      /\ \A w \in DOMAIN shared : w # v => shared'[w] = shared[w]
  <2>1. shared' = [shared EXCEPT ![v].present = m]
    BY <1>1, <1>2
  <2>2. QED
    BY <1>1, <2>1 DEF GuiInv, GuiTypes, WindowFields
<1>5. KeyTypes' /\ QuietInv'
  <2>1. \A w \in DOMAIN shared' : /\ shared'[w].present \in Nat
                                  /\ shared'[w].done = shared[w].done
                                  /\ shared'[w].input = shared[w].input
    BY <1>2, <1>4 DEF KeyInv, KeyTypes
  <2>2. QED
    BY <1>1, <1>4, <2>1 DEF KeyInv, KeyTypes, QuietInv, H!Windows
<1>6. WishInv'
  BY <1>1, <1>3 DEF KeyInv, WishInv
<1>7. BirthInv'
  BY <1>1, <1>3 DEF KeyInv, BirthInv, WishInv, Unborn
<1>8. AskInv'
  BY <1>1, <1>3, <1>4 DEF AskInv
<1>9. OrderInv'
  <2>1. SUFFICES ASSUME "types" \in habit, NEW w \in DOMAIN shared, H!IsOpen(w)'
                 PROVE  Orderly(w)'
    BY <1>1, <1>4 DEF OrderInv
  <2>2. H!IsOpen(w) => Orderly(w)
    BY <2>1 DEF KeyInv, OrderInv
  <2>3. CASE w # v
    <3>1. SameWindow(w)
      BY <1>1, <1>4, <2>1, <2>3 DEF SameWindow, H!IsOpen
    <3>2. ~Asks(w) /\ ~Asks(w)'
      BY <1>3, <2>3 DEF Asks
    <3>3. QED
      BY <2>1, <2>2, <3>1, <3>2, OrderlyStays
  <2>4. CASE w = v
    <3>1. Orderly(v)
      BY <1>4, <2>1, <2>2, <2>4 DEF H!IsOpen
    <3>2. PICK d \in Nat : d = shared[v].done
      BY <1>1 DEF KeyInv, KeyTypes
    <3>3. d <= n
      BY <1>2, <3>1, <3>2 DEF Orderly
    <3>4. H!Unread(v) = <<>>
      BY <1>3, UnreadIs DEF Asks
    <3>5. H!Unread(v)' = <<>>
      <4>1. ~(shared'[v].done >= script'.call.want)
        BY <1>2, <1>3, <1>4, <3>2, <3>3
      <4>2. QED
        BY <1>3, <4>1 DEF H!Unread, H!Shown
    <3>6. Joined3(given[v], H!Unread(v), keys[v], typed[v])'
      BY <1>1, <3>1, <3>4, <3>5 DEF Orderly, Joined3
    <3>7. shared'[v].done <= shared'[v].present /\ shared'[v].done < shared'[v].present
      BY <1>2, <1>4, <3>2, <3>3
    <3>8. Asks(v)'
      BY <1>3 DEF Asks
    <3>9. QED
      BY <2>4, <3>6, <3>7, <3>8 DEF Orderly
  <2>5. QED
    BY <2>3, <2>4
<1>10. QED
  BY <1>5, <1>6, <1>7, <1>8, <1>9 DEF KeyInv

\* What a present hands over is what was answered, and it is handed over once.
LEMMA KeysPresentReturns ==
  ASSUME KeyInv, GuiInv, H!PresentReturns
  PROVE  KeyInv'
<1>0. PICK v : v = script.call.win
  OBVIOUS
<1>1. /\ Op = "present" /\ H!PresentOver(script.call)
      /\ given' = IF H!IsOpen(v) THEN [given EXCEPT ![v] = @ \o shared[v].input] ELSE given
      /\ script' = [script EXCEPT !.call = H!NoCall]
      /\ UNCHANGED <<habit, shared, live, last, keys, typed, wanted>>
  BY <1>0 DEF H!PresentReturns, H!Returns, H!threadVars, Op
<1>2. Op' = "none" /\ script'.opened = script.opened /\ script'.has = script.has
  BY <1>1 DEF GuiInv, GuiTypes, ScriptFields, Op, H!NoCall
<1>3. v \in DOMAIN shared /\ v \in H!Windows /\ script.call.want = shared[v].present
  BY <1>0, <1>1 DEF KeyInv, KeyTypes, AskInv
<1>4. PICK g \in Seq(Nat), i \in Seq(Nat) : g = given[v] /\ i = shared[v].input
  BY <1>3 DEF KeyInv, KeyTypes
<1>5. PICK h \in Seq(Nat) : h = g \o i
  BY ConcatProperties
<1>6. /\ given' \in [H!Windows -> Seq(Nat)]
      /\ H!IsOpen(v) => given'[v] = h
      /\ ~H!IsOpen(v) => given'[v] = given[v]
      /\ \A w \in H!Windows : w # v => given'[w] = given[w]
  <2>1. given' = IF H!IsOpen(v) THEN [given EXCEPT ![v] = h] ELSE given
    BY <1>1, <1>4, <1>5
  <2>2. given \in [H!Windows -> Seq(Nat)]
    BY DEF KeyInv, KeyTypes
  <2>3. QED
    BY <1>3, <2>1, <2>2
<1>7. /\ Asks(v) /\ (\A w : w # v => ~Asks(w)) /\ (\A w : ~Asks(w)')
      /\ H!IsOpen(v) => shared[v].done >= script.call.want
  BY <1>0, <1>1, <1>2 DEF Asks, H!PresentOver, H!Shown
<1>8. H!IsOpen(v) => H!Unread(v) = i
  BY <1>4, <1>7, UnreadIs
<1>9. KeyTypes'
  BY <1>1, <1>6 DEF KeyInv, KeyTypes, H!Windows
<1>10. QuietInv'
  <2>1. SUFFICES ASSUME "types" \notin habit PROVE QuietInv'
    BY <1>1 DEF QuietInv
  <2>2. g = <<>> /\ i = <<>>
    BY <1>3, <1>4, <2>1 DEF KeyInv, QuietInv
  <2>3. \A w \in H!Windows : given'[w] = <<>>
    <3>1. h = <<>>
      BY <1>5, <2>2, ConcatEmptySeq
    <3>2. QED
      BY <1>3, <1>4, <1>6, <2>1, <2>2, <3>1, Zenon DEF KeyInv, QuietInv
  <2>4. QED
    BY <1>1, <2>1, <2>3 DEF KeyInv, QuietInv, H!Windows
<1>11. WishInv'
  BY <1>1, <1>2 DEF KeyInv, WishInv
<1>12. BirthInv'
  BY <1>1, <1>2 DEF KeyInv, BirthInv, Unborn, Blank
<1>13. AskInv'
  BY <1>2 DEF AskInv
<1>14. OrderInv'
  <2>1. SUFFICES ASSUME "types" \in habit, NEW w \in DOMAIN shared, H!IsOpen(w)'
                 PROVE  Orderly(w)'
    BY <1>1 DEF OrderInv
  <2>2. H!IsOpen(w) /\ Orderly(w) /\ w \in H!Windows
    BY <1>1, <2>1 DEF KeyInv, KeyTypes, OrderInv, H!IsOpen
  <2>3. CASE w # v
    <3>1. SameWindow(w)
      BY <1>1, <1>6, <2>1, <2>2, <2>3 DEF SameWindow
    <3>2. ~Asks(w) /\ ~Asks(w)'
      BY <1>7, <2>3
    <3>3. QED
      BY <2>1, <2>2, <3>1, <3>2, OrderlyStays
  <2>4. CASE w = v
    <3>1. PICK k \in Seq(Nat), t \in Seq(Nat) : k = keys[v] /\ t = typed[v]
      BY <1>3 DEF KeyInv, KeyTypes
    <3>2. t = h \o k
      BY <1>4, <1>5, <1>8, <2>2, <2>4, <3>1 DEF Orderly, Joined3
    <3>3. h \o <<>> = h
      BY ConcatEmptySeq
    <3>4. H!Unread(v)' = <<>>
      BY <1>2 DEF H!Unread, Op
    <3>5. given'[v] = h /\ keys'[v] = k /\ typed'[v] = t
      BY <1>1, <1>6, <2>2, <2>4, <3>1
    <3>6. Joined3(given[v], H!Unread(v), keys[v], typed[v])'
      BY <3>2, <3>3, <3>4, <3>5, Zenon DEF Joined3
    <3>7. ~(shared[v].present > last[v])
      <4>1. PICK d \in Nat, p \in Nat : d = shared[v].done /\ p = shared[v].present
        BY <1>3 DEF KeyInv, KeyTypes
      <4>2. d >= p
        BY <1>3, <1>7, <2>2, <2>4, <4>1
      <4>3. QED
        BY <2>2, <2>4, <4>1, <4>2 DEF Orderly
    <3>8. QED
      BY <1>1, <2>2, <2>4, <3>6, <3>7 DEF Orderly
  <2>5. QED
    BY <2>3, <2>4
<1>15. QED
  BY <1>9, <1>10, <1>11, <1>12, <1>13, <1>14 DEF KeyInv

LEMMA KeysCloseWindow ==
  ASSUME KeyInv, GuiInv, NEW v \in H!Extras, H!CloseWindow(v)
  PROVE  KeyInv'
<1>1. /\ script.call = H!NoCall /\ script' = [script EXCEPT !.known = @ \ {v}]
      /\ shared' = [w \in DOMAIN shared |->
                      IF w = v THEN [shared[w] EXCEPT !.closing = TRUE] ELSE shared[w]]
      /\ wanted' = wanted \cup {v}
      /\ UNCHANGED <<habit, live, last, keys, typed, given>>
  BY DEF H!CloseWindow, H!threadVars
<1>2. /\ Op = "none" /\ Op' = "none" /\ script'.call = script.call
      /\ script'.opened = script.opened /\ script'.has = script.has
  BY <1>1 DEF GuiInv, GuiTypes, ScriptFields, Op, H!NoCall
<1>3. v # 0 /\ 0 \in DOMAIN shared
  BY DEF GuiInv, GuiTypes, H!Extras
<1>4. /\ DOMAIN shared' = DOMAIN shared
      /\ \A w \in DOMAIN shared : w # v => shared'[w] = shared[w]
      /\ \A w \in DOMAIN shared :
           /\ shared'[w].present = shared[w].present /\ shared'[w].done = shared[w].done
           /\ shared'[w].input = shared[w].input
           /\ H!IsOpen(w)' => H!IsOpen(w)
  <2>1. ASSUME NEW w \in DOMAIN shared
        PROVE  /\ w # v => shared'[w] = shared[w]
               /\ shared'[w].present = shared[w].present /\ shared'[w].done = shared[w].done
               /\ shared'[w].input = shared[w].input
               /\ shared'[w].open = shared[w].open
               /\ shared'[w].closing => TRUE
               /\ ~shared'[w].closing => ~shared[w].closing
    <3>1. DOMAIN shared[w] = WindowFields
      BY DEF GuiInv, GuiTypes
    <3>2. CASE w = v
      <4>1. shared'[w] = [shared[w] EXCEPT !.closing = TRUE]
        BY <1>1, <3>2
      <4>2. QED
        BY <3>1, <3>2, <4>1 DEF WindowFields
    <3>3. CASE w # v
      BY <1>1, <3>3
    <3>4. QED
      BY <3>2, <3>3
  <2>2. DOMAIN shared' = DOMAIN shared
    BY <1>1
  <2>3. QED
    BY <2>1, <2>2 DEF H!IsOpen
<1>5. KeyTypes' /\ QuietInv'
  BY <1>1, <1>4 DEF KeyInv, KeyTypes, QuietInv, H!Windows
<1>6. WishInv'
  BY <1>1, <1>2, <1>3 DEF KeyInv, WishInv
<1>7. BirthInv'
  BY <1>1, <1>2, <1>3, <1>4 DEF KeyInv, BirthInv, Unborn, Blank
<1>8. AskInv'
  BY <1>2 DEF AskInv
<1>9. OrderInv'
  <2>1. SUFFICES ASSUME "types" \in habit, NEW w \in DOMAIN shared
                 PROVE  H!IsOpen(w)' => Orderly(w)'
    BY <1>1, <1>4 DEF OrderInv
  <2>2. SameWindow(w)
    BY <1>1, <1>4, <2>1 DEF SameWindow
  <2>3. H!IsOpen(w) => Orderly(w)
    BY <2>1 DEF KeyInv, OrderInv
  <2>4. QED
    BY <1>2, <2>2, <2>3, OrderlyStays
<1>10. QED
  BY <1>5, <1>6, <1>7, <1>8, <1>9 DEF KeyInv

LEMMA KeysUserTypes ==
  ASSUME KeyInv, GuiInv, NEW v \in H!Windows, H!UserTypes(v)
  PROVE  KeyInv'
<1> DEFINE n == Len(typed[v]) + 1
<1>1. /\ "types" \in habit /\ v \in live
      /\ keys' = [keys EXCEPT ![v] = Append(@, n)]
      /\ typed' = [typed EXCEPT ![v] = Append(@, n)]
      /\ UNCHANGED <<habit, shared, script, live, last, given, wanted>>
  BY DEF H!UserTypes
<1>2. PICK t \in Seq(Nat), k \in Seq(Nat), g \in Seq(Nat) :
        t = typed[v] /\ k = keys[v] /\ g = given[v]
  BY DEF KeyInv, KeyTypes
<1>3. n \in Nat
  BY <1>2, LenProperties
<1> HIDE DEF n
<1>4. PICK one \in Seq(Nat) : one = <<n>>
  <2>1. \A m \in Nat : <<m>> \in Seq(Nat)
    OBVIOUS
  <2>2. QED
    BY <1>3, <2>1, Zenon
<1>5. PICK tt \in Seq(Nat), kk \in Seq(Nat) : tt = t \o one /\ kk = k \o one
  BY ConcatProperties
<1>6. /\ keys' \in [H!Windows -> Seq(Nat)] /\ keys'[v] = kk
      /\ typed' \in [H!Windows -> Seq(Nat)] /\ typed'[v] = tt
      /\ \A w \in H!Windows : w # v => keys'[w] = keys[w] /\ typed'[w] = typed[w]
  <2>1. keys' = [keys EXCEPT ![v] = kk] /\ typed' = [typed EXCEPT ![v] = tt]
    <3>1. Append(t, n) = tt /\ Append(k, n) = kk
      BY <1>3, <1>4, <1>5, AppendIsConcat
    <3>2. QED
      BY <1>1, <1>2, <3>1
  <2>2. keys \in [H!Windows -> Seq(Nat)] /\ typed \in [H!Windows -> Seq(Nat)]
    BY DEF KeyInv, KeyTypes
  <2>3. QED
    BY <2>1, <2>2
<1>7. KeyTypes' /\ QuietInv'
  BY <1>1, <1>6 DEF KeyInv, KeyTypes, QuietInv, H!Windows
<1>8. WishInv' /\ AskInv'
  BY <1>1 DEF KeyInv, WishInv, AskInv, Op
<1>9. BirthInv'
  <2>1. 0 \in H!Windows
    BY BoundAssumption DEF H!Windows
  <2>2. v = 0 => ~Unborn
    BY <1>1 DEF KeyInv, BirthInv
  <2>3. v # 0 => keys'[0] = keys[0]
    BY <1>6, <2>1
  <2>4. /\ Unborn' <=> Unborn
        /\ Blank(0)' <=> Blank(0)
        /\ Blank(script.call.win)' <=> Blank(script.call.win)
    BY <1>1 DEF Unborn, Blank, Op
  <2>5. QED
    BY <1>1, <2>2, <2>3, <2>4 DEF KeyInv, BirthInv, Op
<1>10. OrderInv'
  <2>1. SUFFICES ASSUME NEW w \in DOMAIN shared, H!IsOpen(w)'
                 PROVE  Orderly(w)'
    BY <1>1 DEF OrderInv
  <2>2. H!IsOpen(w) /\ Orderly(w) /\ w \in H!Windows
    BY <1>1, <2>1 DEF KeyInv, KeyTypes, OrderInv, H!IsOpen
  <2>3. CASE w # v
    <3>1. SameWindow(w)
      BY <1>1, <1>6, <2>1, <2>2, <2>3 DEF SameWindow
    <3>2. script'.call = script.call
      BY <1>1
    <3>3. QED
      BY <2>1, <2>2, <3>1, <3>2, OrderlyStays
  <2>4. CASE w = v
    <3>1. PICK u \in Seq(Nat) : u = H!Unread(v)
      <4>1. shared[v].input \in Seq(Nat) /\ <<>> \in Seq(Nat)
        BY <2>1, <2>4 DEF KeyInv, KeyTypes
      <4>2. QED
        BY <4>1, UnreadIs
    <3>2. H!Unread(v)' = u
      BY <1>1, <3>1 DEF H!Unread, H!Shown
    <3>3. t = (g \o u) \o k
      BY <1>2, <2>2, <2>4, <3>1, Zenon DEF Orderly, Joined3
    <3>4. PICK x \in Seq(Nat) : x = g \o u
      BY ConcatProperties
    <3>5. tt = x \o kk
      <4>1. Regroups(x, k, one)
        BY Regrouped
      <4>2. QED
        BY <1>5, <3>3, <3>4, <4>1, Zenon DEF Regroups
    <3>6. given'[v] = g
      BY <1>1, <1>2
    <3>7. Joined3(given[v], H!Unread(v), keys[v], typed[v])'
      BY <1>6, <3>2, <3>4, <3>5, <3>6, Zenon DEF Joined3
    <3>8. Asks(v)' <=> Asks(v)
      BY <1>1 DEF Asks, Op
    <3>9. QED
      BY <1>1, <2>2, <2>4, <3>7, <3>8 DEF Orderly
  <2>5. QED
    BY <2>3, <2>4
<1>11. QED
  BY <1>7, <1>8, <1>9, <1>10 DEF KeyInv

\* A session starts for a Gui.open that waits for a window that is not born.
LEMMA KeysStartSession ==
  ASSUME KeyInv, GuiInv, H!StartSession
  PROVE  KeyInv'
<1>1. /\ H!Opens # {} /\ UNCHANGED <<habit, script, live, keys, typed, given, wanted>>
      /\ \/ /\ last' = [last EXCEPT ![0] = 0]
            /\ shared' = [shared EXCEPT ![0].ready = FALSE, ![0].done = 0, ![0].present = 0]
         \/ /\ last' = last
            /\ shared' = [shared EXCEPT ![0].failed = TRUE]
  BY DEF H!StartSession, H!ghostVars
<1>2. 0 \in DOMAIN shared /\ DOMAIN shared[0] = WindowFields /\ 0 \in H!Windows
  BY BoundAssumption DEF GuiInv, GuiTypes, H!Windows
<1>3. Op = "open" /\ ~shared[0].ready
  BY <1>1 DEF GuiInv, CmdInv
<1>4. /\ DOMAIN shared' = DOMAIN shared
      /\ shared'[0].input = shared[0].input /\ shared'[0].open = shared[0].open
      /\ ~shared'[0].ready
      /\ shared'[0].present \in {0, shared[0].present} /\ shared'[0].done \in {0, shared[0].done}
      /\ \A w \in DOMAIN shared : w # 0 => shared'[w] = shared[w]
  <2>1. CASE shared' = [shared EXCEPT ![0].ready = FALSE, ![0].done = 0, ![0].present = 0]
    BY <1>2, <2>1 DEF WindowFields
  <2>2. CASE shared' = [shared EXCEPT ![0].failed = TRUE]
    <3>1. shared'[0].ready = shared[0].ready
      BY <1>2, <2>2 DEF WindowFields
    <3>2. QED
      BY <1>2, <1>3, <2>2, <3>1 DEF WindowFields
  <2>3. QED
    BY <1>1, <2>1, <2>2
<1>5. last' \in [H!Windows -> Nat] /\ \A w \in H!Windows : w # 0 => last'[w] = last[w]
  <2>1. last \in [H!Windows -> Nat]
    BY DEF KeyInv, KeyTypes
  <2>2. last' = last \/ last' = [last EXCEPT ![0] = 0]
    BY <1>1
  <2>3. QED
    BY <1>2, <2>1, <2>2
<1>6. "types" \in habit => 0 \notin live /\ keys[0] = <<>> /\ Blank(0)
  BY <1>3 DEF KeyInv, WishInv, BirthInv, Unborn
<1>7. KeyTypes' /\ QuietInv'
  <2>1. \A w \in DOMAIN shared : /\ shared'[w].present \in {0, shared[w].present}
                                 /\ shared'[w].done \in {0, shared[w].done}
                                 /\ shared'[w].input = shared[w].input
    BY <1>4
  <2>2. KeyTypes'
    <3>1. ASSUME NEW w \in DOMAIN shared
          PROVE  /\ shared'[w].present \in Nat /\ shared'[w].done \in Nat
                 /\ shared'[w].input \in Seq(Nat)
      <4>1. PICK p \in Nat, d \in Nat : p = shared[w].present /\ d = shared[w].done
        BY DEF KeyInv, KeyTypes
      <4>2. shared'[w].present \in {0, p} /\ shared'[w].done \in {0, d}
        BY <2>1, <4>1
      <4>3. shared'[w].input \in Seq(Nat)
        BY <2>1 DEF KeyInv, KeyTypes
      <4>4. QED
        BY <4>2, <4>3
    <3>2. QED
      BY <1>1, <1>4, <1>5, <3>1 DEF KeyInv, KeyTypes, H!Windows
  <2>3. QuietInv'
    BY <1>1, <1>4, <2>1 DEF KeyInv, QuietInv, H!Windows
  <2>4. QED
    BY <2>2, <2>3
<1>8. WishInv' /\ AskInv'
  BY <1>1, <1>3 DEF KeyInv, WishInv, AskInv, Op
<1>9. BirthInv'
  BY <1>1, <1>3, <1>4, <1>6 DEF BirthInv, Blank, Op
<1>10. OrderInv'
  <2>1. SUFFICES ASSUME "types" \in habit, NEW w \in DOMAIN shared, H!IsOpen(w)'
                 PROVE  Orderly(w)'
    BY <1>1, <1>4 DEF OrderInv
  <2>2. w # 0 /\ w \in H!Windows
    BY <1>4, <1>6, <2>1 DEF KeyInv, KeyTypes, Blank, H!IsOpen
  <2>3. SameWindow(w)
    BY <1>1, <1>4, <1>5, <2>1, <2>2 DEF SameWindow, H!IsOpen
  <2>4. H!IsOpen(w) => Orderly(w)
    BY <2>1 DEF KeyInv, OrderInv
  <2>5. script'.call = script.call
    BY <1>1
  <2>6. QED
    BY <2>1, <2>3, <2>4, <2>5, OrderlyStays
<1>11. QED
  BY <1>7, <1>8, <1>9, <1>10 DEF KeyInv

\* A frame that is shown hands over the keys that waited.
LEMMA KeysService ==
  ASSUME KeyInv, GuiInv, NEW pc, H!Service(pc)
  PROVE  KeyInv'
<1> DEFINE closing == asked \cup H!Sent("Close") \cup (H!Sent("CloseExtra") \cap live)
           session == host.session /\ 0 \notin closing /\ ~over
           ended == {w \in live \ {0} : \/ w \in closing \/ ~session
                                        \/ w \in DOMAIN shared /\ shared[w].closing}
           kept == {w \in live \ {0} : w \in DOMAIN shared} \ ended
           framed == {w \in kept \cup {0} : shared[w].present > last[w]}
           after(w) == IF w \in framed THEN H!Serve(shared[w], w) ELSE shared[w]
<1>1. /\ shared' = [w \in DOMAIN shared |->
                      IF w \in ended THEN H!ShutExtra(shared[w])
                      ELSE IF w = 0 /\ (0 \in closing \/ over) THEN H!Shut(after(0))
                      ELSE after(w)]
      /\ last' = [w \in H!Windows |-> IF w \in framed THEN shared[w].present ELSE last[w]]
      /\ keys' = [w \in H!Windows |-> IF w \in framed THEN <<>> ELSE keys[w]]
      /\ live' \subseteq live
      /\ UNCHANGED <<habit, script, typed, given, wanted>>
  BY DEF H!Service, H!ghostVars
<1>2. \A w \in framed : w \in DOMAIN shared /\ shared[w].present > last[w]
  BY DEF GuiInv, GuiTypes
<1>3. \A w \in framed : w \notin ended
  OBVIOUS
<1>4. 0 \in DOMAIN shared /\ 0 \in H!Windows /\ DOMAIN shared \subseteq H!Windows
  BY BoundAssumption DEF GuiInv, GuiTypes, KeyInv, KeyTypes, H!Windows
<1>5. DOMAIN shared' = DOMAIN shared
  BY <1>1
<1> HIDE DEF closing, session, ended, kept, framed
<1>6. ASSUME NEW w \in DOMAIN shared
      PROVE  /\ shared'[w].present = shared[w].present /\ shared'[w].ready = shared[w].ready
             /\ shared'[w].open => shared[w].open
             /\ shared'[w].done \in {shared[w].done, shared[w].present}
             /\ shared'[w].input \in {shared[w].input, keys[w]}
             /\ H!IsOpen(w)' => H!IsOpen(w)
             /\ w \notin framed /\ H!IsOpen(w)' => shared'[w] = shared[w]
             /\ w \in framed => /\ shared'[w].input = keys[w]
                                /\ shared'[w].done = shared[w].present
  <2>1. DOMAIN shared[w] = WindowFields
    BY DEF GuiInv, GuiTypes
  <2>2. PICK a : a = after(w)
    OBVIOUS
  <2>3. /\ DOMAIN a = WindowFields /\ a.ready = shared[w].ready /\ a.present = shared[w].present
        /\ a.open = shared[w].open /\ a.closing = shared[w].closing
        /\ w \notin framed => a = shared[w]
        /\ w \in framed => a.input = keys[w] /\ a.done = shared[w].present
    BY <2>1, <2>2 DEF H!Serve, WindowFields
  <2>4. /\ a.done \in {shared[w].done, shared[w].present}
        /\ a.input \in {shared[w].input, keys[w]}
    BY <2>3
  <2>5. shared'[w] = IF w \in ended THEN H!ShutExtra(shared[w])
                     ELSE IF w = 0 /\ (0 \in closing \/ over) THEN H!Shut(a) ELSE a
    BY <1>1, <2>2
  <2> HIDE DEF after
  <2>6. CASE w \in ended
    <3>1. PICK s : s = H!Shut(shared[w])
      OBVIOUS
    <3>2. /\ DOMAIN s = WindowFields /\ s.ready = shared[w].ready /\ s.present = shared[w].present
          /\ ~s.open /\ s.input = shared[w].input
      BY <2>1, <3>1 DEF H!Shut, WindowFields
    <3>3. shared'[w] = [s EXCEPT !.done = shared[w].present]
      BY <2>5, <2>6, <3>1 DEF H!ShutExtra
    <3>4. /\ shared'[w].present = shared[w].present /\ shared'[w].ready = shared[w].ready
          /\ ~shared'[w].open /\ shared'[w].done = shared[w].present
          /\ shared'[w].input = shared[w].input
      BY <3>2, <3>3 DEF WindowFields
    <3>5. w \notin framed
      BY <1>3, <2>6
    <3>6. QED
      BY <3>4, <3>5 DEF H!IsOpen
  <2>7. CASE w \notin ended /\ w = 0 /\ (0 \in closing \/ over)
    <3>1. shared'[w] = H!Shut(a)
      BY <2>5, <2>7
    <3>2. /\ shared'[w].present = a.present /\ shared'[w].ready = a.ready /\ ~shared'[w].open
          /\ shared'[w].done = a.done /\ shared'[w].input = a.input
      BY <2>3, <3>1 DEF H!Shut, WindowFields
    <3>3. QED
      BY <2>3, <2>4, <3>2 DEF H!IsOpen
  <2>8. CASE w \notin ended /\ ~(w = 0 /\ (0 \in closing \/ over))
    <3>1. shared'[w] = a
      BY <2>5, <2>8
    <3>2. QED
      BY <1>5, <2>3, <2>4, <3>1 DEF H!IsOpen
  <2>9. QED
    BY <2>6, <2>7, <2>8
<1> HIDE DEF after
<1>7. \A w \in H!Windows :
        /\ w \in framed => keys'[w] = <<>> /\ last'[w] = shared[w].present
        /\ w \notin framed => keys'[w] = keys[w] /\ last'[w] = last[w]
  BY <1>1
<1>8. KeyTypes'
  <2>1. last' \in [H!Windows -> Nat]
    BY <1>1, <1>2 DEF KeyInv, KeyTypes
  <2>2. keys' \in [H!Windows -> Seq(Nat)]
    <3>1. <<>> \in Seq(Nat)
      OBVIOUS
    <3>2. \A w \in H!Windows : keys[w] \in Seq(Nat)
      BY DEF KeyInv, KeyTypes
    <3>3. \A w \in H!Windows : (IF w \in framed THEN <<>> ELSE keys[w]) \in Seq(Nat)
      BY <3>1, <3>2, Zenon
    <3>4. QED
      BY <1>1, <3>3, Zenon
  <2>3. ASSUME NEW w \in DOMAIN shared
        PROVE  shared'[w].present \in Nat /\ shared'[w].done \in Nat /\ shared'[w].input \in Seq(Nat)
    <3>1. shared[w].present \in Nat /\ shared[w].done \in Nat /\ shared[w].input \in Seq(Nat)
      BY Zenon DEF KeyInv, KeyTypes
    <3>2. keys[w] \in Seq(Nat)
      BY <1>4 DEF KeyInv, KeyTypes
    <3>3. /\ shared'[w].present = shared[w].present
          /\ shared'[w].done \in {shared[w].done, shared[w].present}
          /\ shared'[w].input \in {shared[w].input, keys[w]}
      BY <1>6, Zenon
    <3>4. QED
      BY <3>1, <3>2, <3>3, Zenon
  <2>4. QED
    BY <1>1, <1>5, <2>1, <2>2, <2>3 DEF KeyInv, KeyTypes, H!Windows
<1>9. QuietInv'
  <2>1. SUFFICES ASSUME "types" \notin habit PROVE QuietInv'
    BY <1>1 DEF QuietInv
  <2>2. \A w \in H!Windows : keys'[w] = <<>>
    BY <1>7, <2>1 DEF KeyInv, QuietInv
  <2>3. \A w \in DOMAIN shared : shared'[w].input = <<>>
    BY <1>4, <1>6, <2>1 DEF KeyInv, QuietInv
  <2>4. QED
    BY <1>1, <1>5, <2>1, <2>2, <2>3 DEF KeyInv, QuietInv, H!Windows
<1>10. WishInv'
  BY <1>1 DEF KeyInv, WishInv, Op
<1>11. ASSUME NEW w \in DOMAIN shared, Blank(w) PROVE Blank(w)'
  BY <1>6, <1>11 DEF Blank
<1>12. BirthInv'
  <2>1. Unborn' <=> Unborn
    BY <1>1, <1>4, <1>6 DEF Unborn, Op
  <2>2. keys[0] = <<>> => keys'[0] = <<>>
    BY <1>4, <1>7
  <2>3. Op = "openWindow" => script.call.win \in DOMAIN shared
    BY DEF GuiInv, CmdInv
  <2>4. "types" \in habit /\ Unborn' => 0 \notin live' /\ keys'[0] = <<>> /\ Blank(0)'
    BY <1>1, <1>4, <1>11, <2>1, <2>2 DEF KeyInv, BirthInv
  <2>5. ASSUME NEW v, v = script.call.win, Op = "openWindow", ~shared'[v].ready
        PROVE  Blank(v)'
    <3>1. v \in DOMAIN shared /\ ~shared[v].ready
      BY <1>6, <2>3, <2>5
    <3>2. Blank(v)
      BY <2>5, <3>1 DEF KeyInv, BirthInv
    <3>3. QED
      BY <1>11, <3>1, <3>2
  <2>6. PICK v : v = script.call.win
    OBVIOUS
  <2>7. script'.call.win = v /\ Op' = Op
    BY <1>1, <2>6 DEF Op
  <2>8. QED
    BY <1>1, <2>4, <2>5, <2>6, <2>7 DEF BirthInv, Blank
<1>13. AskInv'
  BY <1>1, <1>5, <1>6 DEF KeyInv, AskInv, Op
<1>14. OrderInv'
  <2>1. SUFFICES ASSUME "types" \in habit, NEW w \in DOMAIN shared, H!IsOpen(w)'
                 PROVE  Orderly(w)'
    BY <1>1, <1>5 DEF OrderInv
  <2>2. H!IsOpen(w) /\ Orderly(w) /\ w \in H!Windows
    BY <1>4, <1>6, <2>1 DEF KeyInv, OrderInv
  <2>3. CASE w \notin framed
    <3>1. SameWindow(w)
      BY <1>1, <1>5, <1>6, <1>7, <2>1, <2>2, <2>3 DEF SameWindow
    <3>2. script'.call = script.call
      BY <1>1
    <3>3. QED
      BY <2>1, <2>2, <3>1, <3>2, OrderlyStays
  <2>4. CASE w \in framed
    <3>1. PICK d \in Nat, p \in Nat : d = shared[w].done /\ p = shared[w].present
      BY <2>1 DEF KeyInv, KeyTypes
    <3>2. Asks(w) /\ d < p
      BY <1>2, <2>2, <2>4, <3>1 DEF Orderly
    <3>3. script.call.want = p
      BY <3>1, <3>2 DEF KeyInv, AskInv, Asks
    <3>4. H!Unread(w) = <<>>
      <4>1. ~(shared[w].done >= script.call.want)
        BY <3>1, <3>2, <3>3
      <4>2. QED
        BY <4>1, UnreadIs
    <3>5. PICK k \in Seq(Nat), g \in Seq(Nat), t \in Seq(Nat) :
            k = keys[w] /\ g = given[w] /\ t = typed[w]
      BY <2>2 DEF KeyInv, KeyTypes
    <3>6. t = (g \o <<>>) \o k
      BY <2>2, <3>4, <3>5, Zenon DEF Orderly, Joined3
    <3>7. H!Unread(w)' = k
      <4>1. shared'[w].done = p /\ shared'[w].input = k /\ p >= p
        BY <1>6, <2>4, <3>1, <3>5
      <4>2. QED
        BY <1>1, <3>2, <3>3, <4>1 DEF H!Unread, H!Shown, Asks, Op
    <3>8. t = (g \o k) \o <<>>
      <4>1. g \o <<>> = g /\ (g \o k) \o <<>> = g \o k
        <5>1. g \o k \in Seq(Nat)
          BY ConcatProperties
        <5>2. QED
          BY <5>1, ConcatEmptySeq
      <4>2. QED
        BY <3>6, <4>1
    <3>9. keys'[w] = <<>> /\ given'[w] = g /\ typed'[w] = t
      BY <1>1, <1>7, <2>2, <2>4, <3>5
    <3>10. Joined3(given[w], H!Unread(w), keys[w], typed[w])'
      BY <3>7, <3>8, <3>9, Zenon DEF Joined3
    <3>11. shared'[w].done = p /\ shared'[w].present = p /\ last'[w] = p
      BY <1>6, <1>7, <2>2, <2>4, <3>1
    <3>12. QED
      BY <3>1, <3>10, <3>11 DEF Orderly
  <2>5. QED
    BY <2>3, <2>4
<1>15. QED
  BY <1>8, <1>9, <1>10, <1>12, <1>13, <1>14 DEF KeyInv

\* A window that is born has no keys, and nothing of it was shown.
LEMMA KeysAboutToWait ==
  ASSUME KeyInv, GuiInv, H!AboutToWait
  PROVE  KeyInv'
<1> DEFINE first == {w \in {0} : 0 \notin live /\ H!Opens # {}}
           born == first \cup host.opening
           new(broken) == IF broken THEN {} ELSE born
<1>1. PICK broken \in BOOLEAN :
        /\ shared' = [w \in DOMAIN shared |-> IF w \in born THEN H!Born(w, broken) ELSE shared[w]]
        /\ live' = live \cup new(broken)
        /\ last' = [w \in H!Windows |-> IF w \in new(broken) \ {0} THEN 0 ELSE last[w]]
        /\ keys' = [w \in H!Windows |-> IF w \in new(broken) \ {0} THEN <<>> ELSE keys[w]]
        /\ typed' = [w \in H!Windows |-> IF w \in new(broken) THEN <<>> ELSE typed[w]]
        /\ given' = [w \in H!Windows |-> IF w \in new(broken) THEN <<>> ELSE given[w]]
        /\ wanted' = wanted \ new(broken)
  BY DEF H!AboutToWait
<1>2. UNCHANGED <<habit, script>>
  BY DEF H!AboutToWait
<1>3. PICK n : n = new(broken)
  OBVIOUS
<1>4. n \subseteq born /\ (broken => n = {}) /\ (~broken => n = born)
  BY <1>3
<1>5. /\ 0 \in born => H!Opens # {}
      /\ \A w \in born : w # 0 => w \in host.opening
  BY DEF GuiInv, GuiTypes, H!Extras
<1>6. /\ live' = live \cup n /\ wanted' = wanted \ n
      /\ last' = [w \in H!Windows |-> IF w \in n \ {0} THEN 0 ELSE last[w]]
      /\ keys' = [w \in H!Windows |-> IF w \in n \ {0} THEN <<>> ELSE keys[w]]
      /\ typed' = [w \in H!Windows |-> IF w \in n THEN <<>> ELSE typed[w]]
      /\ given' = [w \in H!Windows |-> IF w \in n THEN <<>> ELSE given[w]]
  BY <1>1, <1>3, Zenon
<1> HIDE DEF first, born, new
<1>7. /\ DOMAIN shared' = DOMAIN shared
      /\ \A w \in DOMAIN shared :
           /\ shared'[w].present = shared[w].present /\ shared'[w].done = shared[w].done
           /\ shared'[w].input = shared[w].input
           /\ w \notin n => /\ H!IsOpen(w)' => H!IsOpen(w)
                            /\ shared'[w].ready = shared[w].ready /\ shared'[w].open = shared[w].open
           /\ w \in n => shared'[w].ready
  <2>1. DOMAIN shared' = DOMAIN shared
    BY <1>1
  <2>2. ASSUME NEW w \in DOMAIN shared
        PROVE  /\ shared'[w].present = shared[w].present /\ shared'[w].done = shared[w].done
               /\ shared'[w].input = shared[w].input
               /\ w \notin n => /\ shared'[w].closing = shared[w].closing
                                /\ shared'[w].ready = shared[w].ready
                                /\ shared'[w].open = shared[w].open
               /\ w \in n => shared'[w].ready
    <3>1. DOMAIN shared[w] = WindowFields
      BY DEF GuiInv, GuiTypes
    <3>2. shared'[w] = IF w \in born THEN H!Born(w, broken) ELSE shared[w]
      BY <1>1
    <3>3. QED
      BY <1>4, <3>1, <3>2 DEF H!Born, WindowFields
  <2>3. QED
    BY <2>1, <2>2 DEF H!IsOpen
\* Who is born, a Gui.open or a Gui.openWindow waits for, and it is blank.
<1>8. 0 \in n => Op = "open" /\ ~shared[0].ready
  BY <1>4, <1>5 DEF GuiInv, CmdInv
<1>9. \A w \in n : w # 0 => /\ Op = "openWindow" /\ script.call.win = w /\ w \in DOMAIN shared
                            /\ ~shared[w].ready
  BY <1>4, <1>5 DEF GuiInv, ExtraInv, Waiting
<1>10. /\ 0 \in DOMAIN shared /\ 0 \in H!Windows /\ DOMAIN shared \subseteq H!Windows
       /\ n \subseteq DOMAIN shared
  BY <1>9, BoundAssumption DEF GuiInv, GuiTypes, KeyInv, KeyTypes, H!Windows
<1>11. "types" \in habit => \A w \in n : Blank(w) /\ (w = 0 => keys[0] = <<>>)
  BY <1>8, <1>9 DEF KeyInv, WishInv, BirthInv, Unborn
<1>12. \A w \in n : ~Asks(w) /\ Op # "present"
  BY <1>8, <1>9 DEF Asks
<1>13. \A w \in H!Windows :
         /\ w \in n => typed'[w] = <<>> /\ given'[w] = <<>> /\ keys'[w] = IF w = 0 THEN keys[w] ELSE <<>>
         /\ w \notin n => /\ typed'[w] = typed[w] /\ given'[w] = given[w] /\ keys'[w] = keys[w]
                          /\ last'[w] = last[w]
  BY <1>6
<1>14. KeyTypes'
  <2>1. <<>> \in Seq(Nat)
    OBVIOUS
  <2>2. /\ last' \in [H!Windows -> Nat] /\ keys' \in [H!Windows -> Seq(Nat)]
        /\ typed' \in [H!Windows -> Seq(Nat)] /\ given' \in [H!Windows -> Seq(Nat)]
    BY <1>6, <2>1 DEF KeyInv, KeyTypes
  <2>3. QED
    BY <1>7, <1>10, <2>2 DEF KeyInv, KeyTypes, H!Windows
<1>15. QuietInv'
  BY <1>2, <1>7, <1>13 DEF KeyInv, QuietInv, H!Windows
<1>16. WishInv'
  BY <1>2, <1>6 DEF KeyInv, WishInv, Op
<1>17. AskInv'
  BY <1>2, <1>7 DEF KeyInv, AskInv, Op
<1>18. BirthInv'
  <2>1. Unborn' => Unborn /\ 0 \notin n
    BY <1>2, <1>7, <1>8, <1>10 DEF Unborn, Op
  <2>2. 0 \notin n /\ Blank(0) => Blank(0)'
    BY <1>7, <1>10 DEF Blank
  <2>3. "types" \in habit /\ Unborn' => 0 \notin live' /\ keys'[0] = <<>> /\ Blank(0)'
    BY <1>6, <1>10, <1>13, <2>1, <2>2 DEF KeyInv, BirthInv
  <2>4. PICK v : v = script.call.win
    OBVIOUS
  <2>5. script'.call.win = v /\ Op' = Op
    BY <1>2, <2>4 DEF Op
  <2>6. ASSUME Op = "openWindow", ~shared'[v].ready
        PROVE  Blank(v)'
    <3>1. v \in DOMAIN shared
      BY <2>4, <2>6 DEF GuiInv, CmdInv
    <3>2. v \notin n /\ ~shared[v].ready
      BY <1>7, <2>6, <3>1
    <3>3. QED
      BY <1>7, <2>4, <2>6, <3>1, <3>2 DEF KeyInv, BirthInv, Blank
  <2>7. QED
    BY <1>2, <2>3, <2>5, <2>6 DEF BirthInv, Blank
<1>19. OrderInv'
  <2>1. SUFFICES ASSUME "types" \in habit, NEW w \in DOMAIN shared, H!IsOpen(w)'
                 PROVE  Orderly(w)'
    BY <1>2, <1>7 DEF OrderInv
  <2>2. script'.call = script.call
    BY <1>2
  <2>3. CASE w \notin n
    <3>1. SameWindow(w)
      BY <1>7, <1>10, <1>13, <2>1, <2>3 DEF SameWindow
    <3>2. H!IsOpen(w) => Orderly(w)
      BY <2>1 DEF KeyInv, OrderInv
    <3>3. QED
      BY <2>1, <2>2, <3>1, <3>2, OrderlyStays
  <2>4. CASE w \in n
    <3>1. typed'[w] = <<>> /\ given'[w] = <<>> /\ keys'[w] = <<>>
      BY <1>10, <1>11, <1>13, <2>1, <2>4
    <3>2. H!Unread(w)' = <<>>
      BY <1>12, <2>2, <2>4 DEF H!Unread, Op
    <3>3. (<<>> \o <<>>) \o <<>> = <<>>
      OBVIOUS
    <3>4. Joined3(given[w], H!Unread(w), keys[w], typed[w])'
      BY <3>1, <3>2, <3>3, Zenon DEF Joined3
    <3>5. shared'[w].present = 0 /\ shared'[w].done = 0
      BY <1>7, <1>11, <2>1, <2>4 DEF Blank
    <3>6. last'[w] \in Nat
      BY <1>10, <1>14, <2>1 DEF KeyTypes
    <3>7. QED
      BY <3>4, <3>5, <3>6 DEF Orderly
  <2>5. QED
    BY <2>3, <2>4
<1>20. QED
  BY <1>14, <1>15, <1>16, <1>17, <1>18, <1>19 DEF KeyInv

LEMMA KeysStart == Init => KeyInv
<1> SUFFICES ASSUME Init PROVE KeyInv
  OBVIOUS
<1>1. H!Init
  BY DEF Init
<1>2. PICK new : new = H!Window
  OBVIOUS
<1>3. new.present = 0 /\ new.done = 0 /\ new.open = FALSE /\ new.input = <<>>
  BY <1>2 DEF H!Window
<1>4. /\ DOMAIN shared = {0} /\ shared[0] = new /\ live = {} /\ wanted = {}
      /\ last = [w \in H!Windows |-> 0] /\ keys = [w \in H!Windows |-> <<>>]
      /\ typed = keys /\ given = keys
  BY <1>1, <1>2 DEF H!Init
<1>5. script.call = H!NoCall /\ script.has = FALSE /\ script.opened = 0 /\ Op = "none"
  BY <1>1 DEF H!Init, Op, H!NoCall
<1>6. 0 \in H!Windows
  BY BoundAssumption DEF H!Windows
<1>7. KeyTypes
  <2>1. <<>> \in Seq(Nat)
    OBVIOUS
  <2>2. keys \in [H!Windows -> Seq(Nat)] /\ last \in [H!Windows -> Nat]
    BY <1>4, <2>1
  <2>3. new.present \in Nat /\ new.done \in Nat /\ new.input \in Seq(Nat)
    BY <1>3, <2>1
  <2>4. QED
    BY <1>4, <1>6, <2>2, <2>3 DEF KeyTypes
<1>8. WishInv /\ AskInv
  BY <1>4, <1>5 DEF WishInv, AskInv
<1>9. BirthInv
  BY <1>3, <1>4, <1>5, <1>6 DEF BirthInv, Blank
<1>10. OrderInv
  BY <1>3, <1>4 DEF OrderInv, H!IsOpen
<1>11. QuietInv
  BY <1>3, <1>4 DEF QuietInv
<1>12. QED
  BY <1>7, <1>8, <1>9, <1>10, <1>11 DEF KeyInv

LEMMA KeysStay ==
  ASSUME KeyInv, GuiInv, GuiStep, NoLeftoverKeys
  PROVE  KeyInv'
<1>1. CASE H!Open
  BY <1>1, KeysOpen
<1>2. CASE H!OpenReturns
  BY <1>2, KeysOpenReturns
<1>3. CASE H!OpenWindow
  BY <1>3, KeysOpenWindow
<1>4. CASE H!OpenWindowReturns
  BY <1>4, KeysOpenWindowReturns
<1>5. CASE \E w \in H!Windows : H!Present(w)
  BY <1>5, KeysPresent
<1>6. CASE H!PresentReturns
  BY <1>6, KeysPresentReturns
<1>7. CASE \E w \in H!Extras : H!CloseWindow(w)
  BY <1>7, KeysCloseWindow
<1>8. CASE H!StartSession
  BY <1>8, KeysStartSession
<1>9. CASE \E w \in H!Windows : H!UserTypes(w)
  BY <1>9, KeysUserTypes
<1>10. CASE H!AboutToWait
  BY <1>10, KeysAboutToWait
<1>11. CASE H!Redraw \/ H!PumpReturns
  <2>1. PICK pc : H!Service(pc)
    BY <1>11 DEF H!Redraw, H!PumpReturns
  <2>2. QED
    BY <2>1, KeysService
<1>12. CASE \/ H!IdleWait \/ H!AskFile \/ H!IdleReturns \/ H!IdleTimesOut \/ H!FileReturns
            \/ H!Close \/ H!Ends \/ H!Leave \/ H!Discard \/ H!UserAnswers \/ H!Check
            \/ (\E w \in H!Windows : H!UserCloses(w)) \/ UNCHANGED guiVars
  BY <1>12, KeysNoted
<1>13. QED
  BY <1>1, <1>2, <1>3, <1>4, <1>5, <1>6, <1>7, <1>8, <1>9, <1>10, <1>11, <1>12
     DEF GuiStep, H!Next, H!Return, H!HostStep

LEMMA KeysFollow == KeyInv /\ GuiInv => H!InputComesOnce
<1> SUFFICES ASSUME KeyInv, GuiInv, NEW w \in script.known \cup {0}, H!IsOpen(w)
             PROVE  typed[w] = (given[w] \o H!Unread(w)) \o keys[w]
  BY DEF H!InputComesOnce
<1>1. w \in DOMAIN shared /\ w \in H!Windows
  BY DEF H!IsOpen, KeyInv, KeyTypes
<1>2. CASE "types" \in habit
  BY <1>1, <1>2, Zenon DEF KeyInv, OrderInv, Orderly, Joined3
<1>3. CASE "types" \notin habit
  <2>1. typed[w] = <<>> /\ given[w] = <<>> /\ keys[w] = <<>> /\ shared[w].input = <<>>
    BY <1>1, <1>3 DEF KeyInv, QuietInv
  <2>2. H!Unread(w) = <<>>
    BY <2>1, UnreadIs
  <2>3. (<<>> \o <<>>) \o <<>> = <<>>
    OBVIOUS
  <2>4. QED
    BY <2>1, <2>2, <2>3, Zenon
<1>4. QED
  BY <1>2, <1>3

-----------------------------------------------------------------------------
\* In every run: recv hands over the peer's text in order and loses of it only
\* what it replaces, both halves of a character that a recv ended within; the
\* answers of recvFrame are those the peer's frames are owed, with null for a
\* ping that can no longer be answered; and present hands over what was typed
\* into its window, once and in order.
THEOREM StreamsKeepTheirOrder ==
  ASSUME NoStaleClose, NoLeftoverKeys
  PROVE  Spec => []StreamsStayInOrder
<1> DEFINE StreamInv == BytesInv /\ FramesInv /\ GuiInv /\ KeyInv
<1>1. Init => StreamInv
  BY BytesStart, FramesStart, GuiStart, KeysStart
<1>2. StreamInv /\ [Next]_vars => StreamInv'
  <2>1. [Next]_vars => SocketStep /\ FramesStep
    <3>1. Next => (S!Next \/ UNCHANGED socketVars)
      BY DEF Next, Rest
    <3>2. Next => (W!Next \/ UNCHANGED wsVars)
      BY DEF Next, Rest
    <3>3. QED
      BY <3>1, <3>2 DEF vars, SocketStep, FramesStep
  <2>2. QED
    BY <2>1, EachReportStep, BytesStay, FramesStay, GuiStays, KeysStay
<1>3. StreamInv => StreamsStayInOrder
  BY BytesFollow, FramesFollow, KeysFollow DEF StreamsStayInOrder
<1> HIDE DEF StreamInv
<1>4. QED
  BY <1>1, <1>2, <1>3, PTL DEF Spec

=============================================================================
