----------------------------- MODULE RawMemory -----------------------------
(***************************************************************************)
(* The Memory namespace: byte buffers behind integer handles               *)
(* (handles.rs, namespaces_memory.rs).  A step is one call, with arguments *)
(* a program may well get wrong: handles freed or never issued, offsets    *)
(* past the end, layouts Memory does not read.  Bytes are numbers below    *)
(* ByteSize and layouts are at most two bytes wide; floating point, the    *)
(* evaluation of arguments and the 256 MiB ceiling (a fatal failure, after *)
(* which nothing runs) are left out.                                       *)
(***************************************************************************)
EXTENDS Integers, Sequences, FiniteSets

CONSTANTS ByteSize,     \* the number of values of a byte, even
          Sizes,        \* the sizes a program asks for
          Layouts,      \* the layouts it names: a subset of AllLayouts
          MaxHandle     \* bound: handles issued in a run

AllLayouts == {"uint8", "int8", "int16", "uint16", "ptr"}
Failed == <<>>       \* a catchable MemoryError, TypeError or RangeError

VARIABLES buffers,      \* handle |-> bytes, of the live allocations
          next,         \* HandleAllocator.next
          call,         \* what was called, with which arguments
          result        \* what it returned: <<value>>, or Failed
memoryVars == <<buffers, next, call, result>>

Handles == 1 .. MaxHandle
Offsets == 0 .. 1
Word == ByteSize * ByteSize
Values == {-(Word \div 2), 1}

\* Memory.sizeof
SizeOf(layout) == CASE layout \in {"uint8", "int8"} -> 1
                    [] layout \in {"int16", "uint16"} -> 2
                    [] layout = "ptr" -> 8

\* The layouts read and write know.
Readable(layout) == layout # "ptr"

Fits(buf, offset, layout) == offset + SizeOf(layout) <= Len(buf)

\* What the bytes at an offset mean: little-endian; two bytes are signed,
\* one is not, whatever the layout's name.
Decode(buf, offset, layout) ==
  IF SizeOf(layout) = 1 THEN buf[offset + 1]
  ELSE LET w == buf[offset + 1] + ByteSize * buf[offset + 2]
       IN IF w >= Word \div 2 THEN w - Word ELSE w

\* `as u8`, `as i16`, to_le_bytes.
Encode(v, layout) ==
  IF SizeOf(layout) = 1 THEN <<v % ByteSize>>
  ELSE <<v % ByteSize, (v % Word) \div ByteSize>>

Overwrite(buf, offset, bytes) ==
  [i \in DOMAIN buf |-> IF i > offset /\ i <= offset + Len(bytes)
                        THEN bytes[i - offset] ELSE buf[i]]

\* mutant: the smallest free handle is issued
IssueSmallest == CHOOSE h \in 1 .. MaxHandle :
  /\ h \notin DOMAIN buffers
  /\ \A i \in 1 .. h - 1 : i \in DOMAIN buffers
\* HandleAllocator::issue
Issue == next

Init == /\ buffers = <<>>
        /\ next = 1
        /\ call = [op |-> "none"]
        /\ result = <<0>>

Fail == result' = Failed /\ UNCHANGED <<buffers, next>>

Alloc(n) ==
  /\ call' = [op |-> "alloc", n |-> n]
  /\ \/ n = 0 /\ Fail
     \/ /\ n > 0 /\ next <= MaxHandle
        /\ buffers' = [h \in DOMAIN buffers \cup {Issue} |->
                         IF h = Issue THEN [i \in 1 .. n |-> 0] ELSE buffers[h]]
        /\ next' = next + 1
        /\ result' = <<Issue>>

Free(h) ==
  /\ call' = [op |-> "free", h |-> h]
  /\ \/ h \notin DOMAIN buffers /\ Fail
     \/ /\ h \in DOMAIN buffers
        /\ buffers' = [g \in DOMAIN buffers \ {h} |-> buffers[g]]
        /\ result' = <<0>>
        /\ UNCHANGED next

Size(h) ==
  /\ call' = [op |-> "size", h |-> h]
  /\ \/ h \notin DOMAIN buffers /\ Fail
     \/ /\ h \in DOMAIN buffers
        /\ result' = <<Len(buffers[h])>>
        /\ UNCHANGED <<buffers, next>>

Accessible(h, offset, layout) ==
  h \in DOMAIN buffers /\ Readable(layout) /\ Fits(buffers[h], offset, layout)

Read(h, offset, layout) ==
  /\ call' = [op |-> "read", h |-> h, offset |-> offset, layout |-> layout]
  /\ \/ ~Accessible(h, offset, layout) /\ Fail
     \/ /\ Accessible(h, offset, layout)
        /\ result' = <<Decode(buffers[h], offset, layout)>>
        /\ UNCHANGED <<buffers, next>>

Write(h, offset, layout, v) ==
  /\ call' = [op |-> "write", h |-> h, offset |-> offset, layout |-> layout, v |-> v]
  /\ \/ ~Accessible(h, offset, layout) /\ Fail
     \/ /\ Accessible(h, offset, layout)
        /\ buffers' = [buffers EXCEPT ![h] = Overwrite(@, offset, Encode(v, layout))]
        /\ result' = <<0>>
        /\ UNCHANGED next

\* mutant: the bytes are copied before the size of the destination is known
CopyEagerly(src, dst, n) ==
  /\ call' = [op |-> "copy", src |-> src, dst |-> dst, n |-> n]
  /\ IF {src, dst} \subseteq DOMAIN buffers /\ n <= Len(buffers[src])
     THEN /\ buffers' = [buffers EXCEPT ![dst] =
               [i \in DOMAIN @ |-> IF i <= n THEN buffers[src][i] ELSE @[i]]]
          /\ result' = IF n <= Len(buffers[dst]) THEN <<0>> ELSE Failed
          /\ UNCHANGED next
     ELSE Fail
Copy(src, dst, n) ==
  LET fits == /\ {src, dst} \subseteq DOMAIN buffers
              /\ n <= Len(buffers[src])
              /\ n <= Len(buffers[dst])
  IN /\ call' = [op |-> "copy", src |-> src, dst |-> dst, n |-> n]
     /\ \/ ~fits /\ Fail
        \/ /\ fits
           /\ buffers' = [buffers EXCEPT ![dst] =
                            Overwrite(@, 0, SubSeq(buffers[src], 1, n))]
           /\ result' = <<0>>
           /\ UNCHANGED next

Fill(h, b) ==
  /\ call' = [op |-> "fill", h |-> h, b |-> b]
  /\ \/ (b \notin 0 .. ByteSize - 1 \/ h \notin DOMAIN buffers) /\ Fail
     \/ /\ b \in 0 .. ByteSize - 1 /\ h \in DOMAIN buffers
        /\ buffers' = [buffers EXCEPT ![h] = [i \in DOMAIN @ |-> b]]
        /\ result' = <<0>>
        /\ UNCHANGED next

Next ==
  \/ \E n \in Sizes \cup {0} : Alloc(n)
  \/ \E h \in Handles : Free(h) \/ Size(h)
  \/ \E h \in Handles, o \in Offsets, l \in Layouts : Read(h, o, l)
  \/ \E h \in Handles, o \in Offsets, l \in Layouts, v \in Values : Write(h, o, l, v)
  \/ \E s, d \in Handles, n \in Sizes : Copy(s, d, n)
  \/ \E h \in Handles, b \in {1, ByteSize} : Fill(h, b)

Spec == Init /\ [][Next]_memoryVars

-----------------------------------------------------------------------------
TypeOK ==
  /\ next \in 1 .. MaxHandle + 1
  /\ DOMAIN buffers \subseteq 1 .. next - 1
  /\ \A h \in DOMAIN buffers : \A i \in DOMAIN buffers[h] : buffers[h][i] \in 0 .. ByteSize - 1

\* MEM-002, MEM-003: a handle that was freed names nothing ever again, so a
\* stale handle is an error and never another buffer.
FreedStaysFreed ==
  [][\A h \in 1 .. next - 1 : h \notin DOMAIN buffers => h \notin DOMAIN buffers']_memoryVars

\* MEM-012, MEM-013: a call that fails has changed no byte of any buffer.
FailureWritesNothing ==
  [][result' = Failed => buffers' = buffers]_memoryVars

\* A call that succeeds changes its own bytes of its own buffer and no other:
\* a write those of its layout, which read back as the value with the same
\* layout if the reading side can express it (one byte is read without a sign,
\* two with one); a copy the first n of dst, which become what those of src
\* were; a fill all of one buffer.  The other calls leave what stays alone.
Expressible(v, layout) ==
  IF SizeOf(layout) = 1 THEN v \in 0 .. ByteSize - 1
  ELSE v \in -(Word \div 2) .. Word \div 2 - 1
OnlyThere(h, places) ==
  /\ DOMAIN buffers' = DOMAIN buffers
  /\ \A g \in DOMAIN buffers \ {h} : buffers'[g] = buffers[g]
  /\ DOMAIN buffers'[h] = DOMAIN buffers[h]
  /\ \A i \in DOMAIN buffers[h] \ places : buffers'[h][i] = buffers[h][i]
Written(c) ==
  /\ OnlyThere(c.h, c.offset + 1 .. c.offset + SizeOf(c.layout))
  /\ Expressible(c.v, c.layout) => Decode(buffers'[c.h], c.offset, c.layout) = c.v
Copied(c) ==
  /\ OnlyThere(c.dst, 1 .. c.n)
  /\ \A i \in 1 .. c.n : buffers'[c.dst][i] = buffers[c.src][i]
Filled(c) ==
  /\ OnlyThere(c.h, DOMAIN buffers[c.h])
  /\ \A i \in DOMAIN buffers[c.h] : buffers'[c.h][i] = c.b
SuccessWritesItsBytes ==
  [][result' # Failed =>
       /\ call'.op = "write" => Written(call')
       /\ call'.op = "copy" => Copied(call')
       /\ call'.op = "fill" => Filled(call')
       /\ call'.op \notin {"write", "copy", "fill"} =>
            \A g \in DOMAIN buffers \cap DOMAIN buffers' : buffers'[g] = buffers[g]]_memoryVars
=============================================================================
