------------------------------ MODULE Autodiff ------------------------------
(***************************************************************************)
(* Tensors and the reverse-mode tape of evaluator/namespaces_autodiff.rs.  *)
(* Every tensor has a tid; while the tape records, an operation looks the  *)
(* tids of its operands up in tensor_ids, issues node ids for the new ones *)
(* and pushes an entry with what its backward rule needs.  backward walks  *)
(* the entries from the last and accumulates gradients per node.           *)
(*                                                                         *)
(* Numbers are the integers modulo a prime: sums, products and divisions   *)
(* are exact there, so a gradient can be compared with the derivative.     *)
(* The derivative itself is kept in forward mode, beside each tensor.      *)
(***************************************************************************)
EXTENDS Integers, Sequences, FiniteSets, SequencesExt

CONSTANTS Modulus,    \* a prime: the numbers are 0 .. Modulus - 1
          Inputs,     \* the tensors the program starts with: shape and data
          MaxTensors, \* bound: tensors, inputs included
          MaxSets     \* bound: calls of set, which takes the tid away

VARIABLES tensors,    \* the tensors the program holds, inputs first
          nextTid,    \* tensor_id_counter
          recording, tape, grads, ids, nextNode,   \* AutodiffTape
          passes,     \* calls of backward since the tape began
          loss,       \* the tensor of the last one, as it was
          sets        \* calls of set

tapeVars == <<recording, tape, grads, ids, nextNode>>
vars == <<tensors, nextTid, recording, tape, grads, ids, nextNode, passes, loss, sets>>

Num == 0..(Modulus - 1)
Half == (Modulus - 1) \div 2
Recip(n) == CHOOSE x \in Num : (x * n) % Modulus = 1
Neg(x) == (Modulus - x) % Modulus
Total(s) == FoldLeft(LAMBDA a, b : a + b, 0, s) % Modulus
Size(shape) == FoldLeft(LAMBDA a, b : a * b, 1, shape)

AddV(a, b) == [i \in DOMAIN a |-> (a[i] + b[i]) % Modulus]
MulV(a, b) == [i \in DOMAIN a |-> (a[i] * b[i]) % Modulus]
ScaleV(a, s) == [i \in DOMAIN a |-> (a[i] * s) % Modulus]
NegV(a) == [i \in DOMAIN a |-> Neg(a[i])]
Fill(n, v) == [i \in 1..n |-> v]
ReluV(a, at) == [i \in DOMAIN a |-> IF at[i] \in 1..Half THEN a[i] ELSE 0]

\* The product of an m by k and a k by n matrix, both stored by rows.
MatMulV(a, b, m, k, n) ==
  [i \in 1..m * n |->
     LET r == (i - 1) \div n
         c == (i - 1) % n
     IN  Total([l \in 1..k |-> a[r * k + l] * b[(l - 1) * n + c + 1]])]

\* A rows by cols matrix, stored by rows, turned over.
TurnV(a, rows, cols) ==
  [i \in 1..rows * cols |-> a[((i - 1) % rows) * cols + (i - 1) \div rows + 1]]
ColumnSums(a, rows, cols) ==
  [c \in 1..cols |-> Total([r \in 1..rows |-> a[(r - 1) * cols + c]])]
\* A row repeated under itself.
Repeat(v, rows) == [i \in 1..rows * Len(v) |-> v[((i - 1) % Len(v)) + 1]]

-----------------------------------------------------------------------------
(* Windows over [N, H, W, C] tensors: conv2d lays every window out as a row,  *)
(* max_pool2d takes the largest of each.                                      *)
Steps(extent, kernel, stride) == (extent - kernel) \div stride + 1
OutShape(s, k, st, c) == <<s[1], Steps(s[2], k, st), Steps(s[3], k, st), c>>

\* Where element (kh, kw, ci) of window row lies in the input.
InWindow(s, k, st, row, kh, kw, ci) ==
  LET ow == Steps(s[3], k, st)
      per == Steps(s[2], k, st) * ow
      ih == ((row % per) \div ow) * st + kh
      iw == (row % ow) * st + kw
  IN  (((row \div per) * s[2] + ih) * s[3] + iw) * s[4] + ci + 1

ColRows(s, k, st) == s[1] * Steps(s[2], k, st) * Steps(s[3], k, st)
ColCols(s, k) == k * k * s[4]
ColAt(s, k, st, i) ==
  LET cc == ColCols(s, k)
      col == (i - 1) % cc
  IN  InWindow(s, k, st, (i - 1) \div cc, col \div (k * s[4]), (col \div s[4]) % k, col % s[4])
ColMat(a, s, k, st) == [i \in 1..ColRows(s, k, st) * ColCols(s, k) |-> a[ColAt(s, k, st, i)]]

ConvV(a, s, w, bias, k, st) ==
  LET rows == ColRows(s, k, st)
  IN  AddV(MatMulV(ColMat(a, s, k, st), w, rows, ColCols(s, k), Len(bias)), Repeat(bias, rows))

\* The place of the first largest element of each window.
MaxIndices(a, s, k, st) ==
  [i \in 1..ColRows(s, k, st) * s[4] |->
     LET row == (i - 1) \div s[4]
         window == {InWindow(s, k, st, row, kh, kw, (i - 1) % s[4]) : kh \in 0..k-1, kw \in 0..k-1}
     IN  CHOOSE p \in window : \A q \in window : a[q] < a[p] \/ (a[q] = a[p] /\ p <= q)]

-----------------------------------------------------------------------------
(* An operation is named by its method; a, b and c are its operands as they   *)
(* are when it is called.                                                     *)
Is2D(t) == Len(t.shape) = 2
Unary == {"transpose", "neg", "scale", "relu", "sum", "mean", "max_pool2d", "flatten"}
Binary == {"add", "sub", "mul", "matmul", "broadcastAdd", "broadcastMul", "mseLoss"}
Recorded(m) == m # "flatten"

\* What the method checks before it computes anything.
Fits(m, a, b) ==
  CASE m = "transpose" -> Is2D(a)
    [] m \in {"add", "sub", "mul"} -> a.shape = b.shape
    [] m = "mseLoss" -> Len(a.data) = Len(b.data)
    [] m = "matmul" -> Is2D(a) /\ Is2D(b) /\ a.shape[2] = b.shape[1]
    [] m \in {"broadcastAdd", "broadcastMul"} -> Is2D(a) /\ b.shape = <<a.shape[2]>>
    [] m = "max_pool2d" -> Len(a.shape) = 4 /\ a.shape[2] >= 2 /\ a.shape[3] >= 2
    [] OTHER -> TRUE

ShapeOf(m, a, b) ==
  CASE m = "transpose" -> <<a.shape[2], a.shape[1]>>
    [] m = "matmul" -> <<a.shape[1], b.shape[2]>>
    [] m \in {"sum", "mean", "mseLoss"} -> <<1>>
    [] m = "flatten" -> <<Len(a.data)>>
    [] m = "max_pool2d" -> OutShape(a.shape, 2, 1, a.shape[4])
    [] OTHER -> a.shape

Scale(a) == ScaleV(a.data, 2)
Sum(a) == <<Total(a.data)>>
Mean(a) == <<Total(a.data) * Recip(Len(a.data)) % Modulus>>
MaxPool(a) == LET at == MaxIndices(a.data, a.shape, 2, 1) IN [i \in DOMAIN at |-> a.data[at[i]]]
Mul(a, b) == MulV(a.data, b.data)
Sub(a, b) == AddV(a.data, NegV(b.data))
MatMul(a, b) == MatMulV(a.data, b.data, a.shape[1], a.shape[2], b.shape[2])
BroadcastAdd(a, b) == AddV(a.data, Repeat(b.data, a.shape[1]))
BroadcastMul(a, b) == MulV(a.data, Repeat(b.data, a.shape[1]))
MseLoss(a, b) == <<Total(MulV(Sub(a, b), Sub(a, b))) * Recip(Len(a.data)) % Modulus>>

Value(m, a, b) ==
  CASE m = "transpose" -> TurnV(a.data, a.shape[1], a.shape[2])
    [] m = "neg" -> NegV(a.data)
    [] m = "scale" -> Scale(a)
    [] m = "relu" -> ReluV(a.data, a.data)
    [] m = "sum" -> Sum(a)
    [] m = "mean" -> Mean(a)
    [] m = "flatten" -> a.data
    [] m = "max_pool2d" -> MaxPool(a)
    [] m = "add" -> AddV(a.data, b.data)
    [] m = "sub" -> Sub(a, b)
    [] m = "mul" -> Mul(a, b)
    [] m = "matmul" -> MatMul(a, b)
    [] m = "broadcastAdd" -> BroadcastAdd(a, b)
    [] m = "broadcastMul" -> BroadcastMul(a, b)
    [] m = "mseLoss" -> MseLoss(a, b)

-----------------------------------------------------------------------------
(* The tape.                                                                  *)

\* ad_tensor_id: the node of a tid, a new one if it has none.
WithNode(state, tid) ==
  IF tid \in DOMAIN state.ids THEN state
  ELSE [ids |-> [x \in DOMAIN state.ids \cup {tid} |-> IF x = tid THEN state.next ELSE state.ids[x]],
        next |-> state.next + 1]

\* ad_push, after the ids of the operands: the output's node and the entry.
Push(entry, operands, out) ==
  LET named == FoldLeft(WithNode, [ids |-> ids, next |-> nextNode], Append(operands, out))
  IN  /\ ids' = named.ids
      /\ nextNode' = named.next
      /\ tape' = Append(tape, [entry EXCEPT !.ins = [i \in DOMAIN operands |-> named.ids[operands[i]]],
                                            !.out = named.ids[out]])

\* accum_grad: a gradient of another length is dropped.
Overwritten(g, id, delta) ==
  [x \in DOMAIN g \cup {id} |-> IF x = id THEN delta ELSE g[x]]
Accumulated(g, id, delta) ==
  [x \in DOMAIN g \cup {id} |->
     IF x # id THEN g[x]
     ELSE IF id \notin DOMAIN g THEN delta
     ELSE IF Len(g[id]) = Len(delta) THEN AddV(g[id], delta) ELSE g[id]]

\* What an entry hands to its operands, in the order they are accumulated.
TransposeBack(e, g) == << TurnV(g, e.a.shape[2], e.a.shape[1]) >>
NegBack(e, g) == << NegV(g) >>
ScaleBack(e, g) == << ScaleV(g, 2) >>
ReluBack(e, g) == << ReluV(g, e.a.data) >>
SumBack(e, g) == << Fill(Len(e.a.data), Total(g)) >>
MeanBack(e, g) == << Fill(Len(e.a.data), Total(g) * Recip(Len(e.a.data)) % Modulus) >>
MaxPoolBack(e, g) ==
  LET at == MaxIndices(e.a.data, e.a.shape, 2, 1)
  IN  << [p \in DOMAIN e.a.data |-> Total([i \in DOMAIN at |-> IF at[i] = p THEN g[i] ELSE 0])] >>
AddBack(e, g) == << g, g >>
SubBack(e, g) == << g, NegV(g) >>
MulBack(e, g) == << MulV(g, e.b.data), MulV(g, e.a.data) >>
MatMulBack(e, g) ==
  LET m == e.a.shape[1]
      k == e.a.shape[2]
      n == e.b.shape[2]
  IN  << MatMulV(g, TurnV(e.b.data, k, n), m, n, k), MatMulV(TurnV(e.a.data, m, k), g, k, m, n) >>
BroadcastAddBack(e, g) == << g, ColumnSums(g, e.a.shape[1], e.a.shape[2]) >>
BroadcastMulBack(e, g) ==
  << MulV(g, Repeat(e.b.data, e.a.shape[1])), ColumnSums(MulV(g, e.a.data), e.a.shape[1], e.a.shape[2]) >>
MseLossBack(e, g) == << ScaleV(Sub(e.a, e.b), 2 * Total(g) * Recip(Len(e.a.data))) >>
Conv2dBack(e, g) ==
  LET rows == ColRows(e.a.shape, e.k, 1)
      cols == ColCols(e.a.shape, e.k)
      co == e.b.shape[2]
      dcol == MatMulV(g, TurnV(e.b.data, cols, co), rows, co, cols)
  IN  << [p \in DOMAIN e.a.data |->
            Total([i \in DOMAIN dcol |-> IF ColAt(e.a.shape, e.k, 1, i) = p THEN dcol[i] ELSE 0])],
         MatMulV(TurnV(ColMat(e.a.data, e.a.shape, e.k, 1), rows, cols), g, cols, rows, co),
         ColumnSums(g, rows, co) >>
EmbeddingBack(e, g) ==
  LET ed == e.a.shape[2]
  IN  << [p \in DOMAIN e.a.data |->
            Total([i \in DOMAIN g |->
                     IF e.rows[(i - 1) \div ed + 1] = (p - 1) \div ed /\ (i - 1) % ed = (p - 1) % ed
                     THEN g[i] ELSE 0])] >>

Deltas(e, g) ==
  CASE e.op = "transpose" -> TransposeBack(e, g)
    [] e.op = "neg" -> NegBack(e, g)
    [] e.op = "scale" -> ScaleBack(e, g)
    [] e.op = "relu" -> ReluBack(e, g)
    [] e.op = "sum" -> SumBack(e, g)
    [] e.op = "mean" -> MeanBack(e, g)
    [] e.op = "max_pool2d" -> MaxPoolBack(e, g)
    [] e.op = "add" -> AddBack(e, g)
    [] e.op = "sub" -> SubBack(e, g)
    [] e.op = "mul" -> MulBack(e, g)
    [] e.op = "matmul" -> MatMulBack(e, g)
    [] e.op = "broadcastAdd" -> BroadcastAddBack(e, g)
    [] e.op = "broadcastMul" -> BroadcastMulBack(e, g)
    [] e.op = "mseLoss" -> MseLossBack(e, g)
    [] e.op = "conv2d" -> Conv2dBack(e, g)
    [] e.op = "embedding" -> EmbeddingBack(e, g)

\* One turn of the loop of backward, over an entry reached or not.
Swept(g, e) ==
  IF e.out \notin DOMAIN g THEN g
  ELSE LET given == Deltas(e, g[e.out])
       IN  FoldLeft(LAMBDA acc, i : Accumulated(acc, e.ins[i], given[i]), g, [i \in DOMAIN e.ins |-> i])

Sweep(g, entries) == FoldLeft(Swept, g, Reverse(entries))

-----------------------------------------------------------------------------
(* Derivatives, kept in forward mode beside each tensor: tan[<<tid, e>>] is   *)
(* the derivative of its elements by element e of the tensor with that tid.   *)
(* A tensor no recorded operation produced varies with itself alone.          *)
Leaf(tid, shape, data) ==
  [tid |-> tid, shape |-> shape, data |-> data,
   tan |-> [x \in {tid} \X DOMAIN data |-> [i \in DOMAIN data |-> IF i = x[2] THEN 1 ELSE 0]]]
IsLeaf(t) == DOMAIN t.tan = {t.tid} \X DOMAIN t.data
By(t, x) == IF x \in DOMAIN t.tan THEN t.tan[x] ELSE Fill(Len(t.data), 0)

\* Sum and product rules over the forward computation itself; the target of
\* mseLoss is a constant to the tape.
Derivative(m, a, b, x) ==
  LET da == [a EXCEPT !.data = By(a, x)]
      db == [b EXCEPT !.data = By(b, x)]
  IN  CASE m \in {"transpose", "neg", "scale", "sum", "mean"} -> Value(m, da, b)
        [] m = "relu" -> ReluV(da.data, a.data)
        [] m = "max_pool2d" -> LET at == MaxIndices(a.data, a.shape, 2, 1) IN [i \in DOMAIN at |-> da.data[at[i]]]
        [] m \in {"add", "sub", "broadcastAdd"} -> Value(m, da, db)
        [] m \in {"mul", "matmul", "broadcastMul"} -> AddV(Value(m, da, b), Value(m, a, db))
        [] m = "mseLoss" ->
             << 2 * Total(MulV(AddV(a.data, NegV(b.data)), da.data)) * Recip(Len(a.data)) % Modulus >>

-----------------------------------------------------------------------------
Init ==
  /\ \E in \in Inputs : tensors = [i \in DOMAIN in |-> Leaf(i, in[i].shape, in[i].data)]
  /\ nextTid = Len(tensors) + 1
  /\ recording = FALSE /\ tape = <<>> /\ nextNode = 1
  /\ grads = [x \in {} |-> <<>>] /\ ids = [x \in {} |-> 0]
  /\ passes = 0 /\ loss = <<>> /\ sets = 0

\* alloc, and the entry when the tape records the operation.
Produce(records, entry, operands, shape, data, tan) ==
  /\ Len(tensors) < MaxTensors
  /\ tensors' = Append(tensors, IF recording /\ records
                                THEN [tid |-> nextTid, shape |-> shape, data |-> data, tan |-> tan]
                                ELSE Leaf(nextTid, shape, data))
  /\ nextTid' = nextTid + 1
  /\ IF recording /\ records THEN Push(entry, operands, nextTid) ELSE UNCHANGED <<ids, nextNode, tape>>
  /\ UNCHANGED <<recording, grads, passes, loss, sets>>

Bare(t) == [shape |-> t.shape, data |-> t.data]
Entry(m, a, b, k, rows) ==
  [op |-> m, a |-> Bare(a), b |-> Bare(b), k |-> k, rows |-> rows, ins |-> <<>>, out |-> 0]

\* Methods of one and of two tensors.
Apply(m, i, j) ==
  LET a == tensors[i]
      b == tensors[j]
      both == m \in Binary /\ m # "mseLoss"
  IN  /\ m \in Unary => i = j
      /\ Fits(m, a, b)
      /\ Produce(Recorded(m), Entry(m, a, b, 0, <<>>), IF both THEN <<a.tid, b.tid>> ELSE <<a.tid>>,
                 ShapeOf(m, a, b), Value(m, a, b),
                 [x \in DOMAIN a.tan \cup (IF both THEN DOMAIN b.tan ELSE {}) |-> Derivative(m, a, b, x)])

\* conv2d with stride 1; the bias has one element per output channel.
Conv2d(i, w, c, k) ==
  LET a == tensors[i]
      b == tensors[w]
      bias == tensors[c]
      zero == Fill(Len(bias.data), 0)
  IN  /\ Len(a.shape) = 4 /\ Is2D(b)
      /\ b.shape[1] = ColCols(a.shape, k) /\ b.shape[2] = Len(bias.data)
      /\ a.shape[2] >= k /\ a.shape[3] >= k
      /\ Produce(TRUE, Entry("conv2d", a, b, k, <<>>), <<a.tid, b.tid, bias.tid>>,
                 OutShape(a.shape, k, 1, b.shape[2]), ConvV(a.data, a.shape, b.data, bias.data, k, 1),
                 [x \in DOMAIN a.tan \cup DOMAIN b.tan \cup DOMAIN bias.tan |->
                    AddV(ConvV(By(a, x), a.shape, b.data, zero, k, 1),
                         ConvV(a.data, a.shape, By(b, x), By(bias, x), k, 1))])

\* embedding of indices that are all in the vocabulary.
Embedding(i, rows) ==
  LET w == tensors[i]
      Rows(data) == [p \in 1..Len(rows) * w.shape[2] |->
                       data[rows[(p - 1) \div w.shape[2] + 1] * w.shape[2] + ((p - 1) % w.shape[2]) + 1]]
  IN  /\ Is2D(w) /\ \A r \in Range(rows) : r < w.shape[1]
      /\ Produce(TRUE, Entry("embedding", w, w, 0, rows), <<w.tid>>, <<Len(rows), w.shape[2]>>,
                 Rows(w.data), [x \in DOMAIN w.tan |-> Rows(w.tan[x])])

\* t.set(index, v): the tensor is replaced where it is, without its tid.
SetElement(i, e) ==
  /\ sets < MaxSets
  /\ e \in DOMAIN tensors[i].data
  /\ tensors' = [tensors EXCEPT ![i] = Leaf(0, @.shape, [@.data EXCEPT ![e] = 1])]
  /\ sets' = sets + 1
  /\ UNCHANGED <<nextTid, tapeVars, passes, loss>>

\* Autodiff.tape and Autodiff.clear: every tensor is an input of what follows.
Restart(on) ==
  /\ recording' = on /\ tape' = <<>> /\ nextNode' = 1
  /\ grads' = [x \in {} |-> <<>>] /\ ids' = [x \in {} |-> 0]
  /\ tensors' = [i \in DOMAIN tensors |-> Leaf(tensors[i].tid, tensors[i].shape, tensors[i].data)]
  /\ passes' = 0 /\ loss' = <<>>
  /\ UNCHANGED <<nextTid, sets>>
BeginTape == Restart(TRUE)
ClearTape == Restart(FALSE)

\* Autodiff.backward(loss): the seed replaces the gradient of the loss, the
\* others accumulate on what an earlier pass left; recording stops.
Backward(i) ==
  /\ tensors[i].tid \in DOMAIN ids
  /\ passes < 2
  /\ LET seed == ids[tensors[i].tid]
     IN  grads' = Sweep(Overwritten(grads, seed, Fill(Len(tensors[i].data), 1)), tape)
  /\ recording' = FALSE /\ passes' = passes + 1 /\ loss' = <<tensors[i]>>
  /\ UNCHANGED <<tensors, nextTid, tape, ids, nextNode, sets>>

\* Autodiff.gradient(t), of a tensor the tape knows.
Gradient(t) == IF ids[t.tid] \in DOMAIN grads THEN grads[ids[t.tid]] ELSE Fill(Len(t.data), 0)

Next == \/ \E i, j \in DOMAIN tensors, m \in Unary \cup Binary : Apply(m, i, j)
        \/ \E i, w, c \in DOMAIN tensors, k \in {1, 2} : Conv2d(i, w, c, k)
        \/ \E i \in DOMAIN tensors, rows \in {<<1, 0>>, <<1, 1, 0>>} : Embedding(i, rows)
        \/ \E i \in DOMAIN tensors : SetElement(i, 1)
        \/ \E i \in DOMAIN tensors : Backward(i)
        \/ BeginTape \/ ClearTape

Spec == Init /\ [][Next]_vars

-----------------------------------------------------------------------------
\* After backward the gradient of every tensor the recorded computation started
\* from is the derivative of the loss, summed over its elements: through
\* tensors used twice, tapes begun anew, tensors kept from an earlier tape, and
\* inputs overwritten by set after they were used (namespaces_autodiff.rs:474).
GradientIsDerivative ==
  passes = 1 =>
    \A i \in DOMAIN tensors :
      LET t == tensors[i]
      IN  IsLeaf(t) /\ t.tid \in DOMAIN ids =>
            Gradient(t) = [e \in DOMAIN t.data |-> Total(By(loss[1], <<t.tid, e>>))]

\* Every tensor has as many elements as its shape says.
TensorsAreWhole == \A i \in DOMAIN tensors : Len(tensors[i].data) = Size(tensors[i].shape)
=============================================================================
