---------------------------- MODULE TensorShapes ----------------------------
(***************************************************************************)
(* The methods of evaluator/methods_tensor.rs that move elements: a tensor *)
(* is a shape and a flat sequence stored by rows, and every method works   *)
(* on flat positions and strides.  The meaning of each is stated once more *)
(* with index tuples.  An element is a set of labels, a sum their union, a *)
(* product the pairs, so an element that goes astray shows.                *)
(***************************************************************************)
EXTENDS Integers, Sequences, FiniteSets, SequencesExt

CONSTANTS Shapes       \* the shapes tensors start with

VARIABLES t,           \* the tensor a method is called on, then its result
          other,       \* the other operand
          done         \* <<>>, or the method, its argument and the operand it had

shapeVars == <<t, other, done>>

Product(s) == FoldLeft(LAMBDA a, b : a * b, 1, s)
\* Elements labelled from `first`.
Labelled(shape, first) == [shape |-> shape, data |-> [i \in 1..Product(shape) |-> {first + i}]]
Init == /\ \E s \in Shapes : t = Labelled(s, 0)
        /\ \E s \in Shapes : other = Labelled(s, 100)
        /\ done = <<>>

\* Distance between neighbours along each dimension.
Strides(shape) == [i \in DOMAIN shape |-> Product(SubSeq(shape, i + 1, Len(shape)))]
\* Coordinate i (from 0) of a flat position, by divisions and remainders.
Coordinate(flat, strides, i) ==
  (FoldLeft(LAMBDA rem, j : rem % strides[j], flat, [j \in 1..(i - 1) |-> j])) \div strides[i]

\* tensor_flat_index: the stride is divided by each dimension in turn.
FlatIndex(shape, idx) ==
  FoldLeft(LAMBDA acc, i : [flat |-> acc.flat + idx[i] * (acc.stride \div shape[i]),
                            stride |-> acc.stride \div shape[i]],
           [flat |-> 0, stride |-> Product(shape)], [i \in DOMAIN shape |-> i]).flat

\* A negative dimension counts from the end.
Resolved(dim, ndim) == IF dim < 0 THEN ndim + dim ELSE dim

Finish(method, arg, shape, data) ==
  /\ done = <<>>
  /\ done' = <<[method |-> method, arg |-> arg, was |-> t]>>
  /\ t' = [shape |-> shape, data |-> data]
  /\ UNCHANGED other

Reshape(shape) ==
  /\ Product(shape) = Len(t.data)
  /\ Finish("reshape", shape, shape, t.data)
Flatten == Finish("flatten", <<>>, <<Len(t.data)>>, t.data)

Unsqueeze(dim) ==
  LET d == Resolved(dim, Len(t.shape) + 1)
  IN  /\ d \in 0..Len(t.shape)
      /\ Finish("unsqueeze", <<dim>>, InsertAt(t.shape, d + 1, 1), t.data)

\* Without an argument every dimension of size 1 goes; what is left of none is [1].
Squeeze(dims) ==
  LET d == Resolved(Head(dims), Len(t.shape)) + 1
      left == IF dims = <<>> THEN SelectSeq(t.shape, LAMBDA n : n # 1)
              ELSE IF d \in DOMAIN t.shape /\ t.shape[d] = 1 THEN RemoveAt(t.shape, d)
              ELSE t.shape
  IN  Finish("squeeze", dims, IF left = <<>> THEN <<1>> ELSE left, t.data)

Permute(axes) ==
  /\ Len(axes) = Len(t.shape)
  /\ LET shape == [i \in DOMAIN axes |-> t.shape[axes[i] + 1]]
         old == Strides(t.shape)
         new == Strides(shape)
         Source(flat) == FoldLeft(LAMBDA acc, i : acc + Coordinate(flat, new, i) * old[axes[i] + 1], 0,
                                  [i \in DOMAIN axes |-> i])
     IN  Finish("permute", axes, shape, [p \in 1..Product(shape) |-> t.data[Source(p - 1) + 1]])

-----------------------------------------------------------------------------
\* Shapes are aligned at their last dimension; a missing one counts as 1.
Padded(shape, ndim) == [i \in 1..ndim |-> IF i <= ndim - Len(shape) THEN 1 ELSE shape[i - (ndim - Len(shape))]]
BroadcastShape(a, b) ==
  LET n == IF Len(a) > Len(b) THEN Len(a) ELSE Len(b)
  IN  [i \in 1..n |-> IF Padded(a, n)[i] = 1 THEN Padded(b, n)[i] ELSE Padded(a, n)[i]]
Broadcastable(a, b) ==
  LET n == IF Len(a) > Len(b) THEN Len(a) ELSE Len(b)
  IN  \A i \in 1..n : Padded(a, n)[i] = Padded(b, n)[i] \/ 1 \in {Padded(a, n)[i], Padded(b, n)[i]}

\* broadcast_data: a dimension of size 1 has stride 0.
Expands(from, to) ==
  Len(from) <= Len(to) /\ \A i \in DOMAIN to : Padded(from, Len(to))[i] \in {1, to[i]}
BroadcastStrides(padded) == [i \in DOMAIN padded |-> IF padded[i] = 1 THEN 0 ELSE Strides(padded)[i]]
BroadcastData(data, from, to) ==
  LET strides == BroadcastStrides(Padded(from, Len(to)))
      Source(flat) == FoldLeft(LAMBDA acc, i : acc + Coordinate(flat, Strides(to), i) * strides[i], 0,
                               [i \in DOMAIN to |-> i])
  IN  [p \in 1..Product(to) |-> data[Source(p - 1) + 1]]

BroadcastTo(shape) ==
  /\ Expands(t.shape, shape)
  /\ Finish("broadcastTo", shape, shape, BroadcastData(t.data, t.shape, shape))

BroadcastAddNd ==
  /\ Broadcastable(t.shape, other.shape)
  /\ LET shape == BroadcastShape(t.shape, other.shape)
         a == BroadcastData(t.data, t.shape, shape)
         b == BroadcastData(other.data, other.shape, shape)
     IN  Finish("broadcastAddNd", <<>>, shape, [i \in DOMAIN a |-> a[i] \cup b[i]])
BroadcastMulNd ==
  /\ Broadcastable(t.shape, other.shape)
  /\ LET shape == BroadcastShape(t.shape, other.shape)
         a == BroadcastData(t.data, t.shape, shape)
         b == BroadcastData(other.data, other.shape, shape)
     IN  Finish("broadcastMulNd", <<>>, shape, [i \in DOMAIN a |-> a[i] \X b[i]])

\* reduce_along_axis: every input element is added to the output position its
\* other coordinates give.
KeptIndexUnshifted(i, axis) == i
KeptIndex(i, axis) == IF i < axis THEN i ELSE i - 1
ReduceData(data, shape, axis) ==
  LET kept == Strides(RemoveAt(shape, axis))
      Target(flat) == FoldLeft(LAMBDA acc, i :
                         IF i = axis \/ KeptIndex(i, axis) > Len(kept) THEN acc
                         ELSE acc + Coordinate(flat, Strides(shape), i) * kept[KeptIndex(i, axis)],
                         0, [i \in DOMAIN shape |-> i])
  IN  [p \in 1..Product(RemoveAt(shape, axis)) |->
         UNION {data[f] : f \in {g \in DOMAIN data : Target(g - 1) = p - 1}}]
ReduceShape(shape, axis, keepdim) ==
  LET left == IF keepdim THEN [shape EXCEPT ![axis] = 1] ELSE RemoveAt(shape, axis)
  IN  IF left = <<>> THEN <<1>> ELSE left
Reduce(axis, keepdim) ==
  LET a == Resolved(axis, Len(t.shape))
  IN  /\ a \in 0..(Len(t.shape) - 1)
      /\ Finish("reduce", <<axis, keepdim>>, ReduceShape(t.shape, a + 1, keepdim), ReduceData(t.data, t.shape, a + 1))

-----------------------------------------------------------------------------
SumAxis(axis) ==
  /\ Len(t.shape) = 2
  /\ LET rows == t.shape[1]
         cols == t.shape[2]
     IN  Finish("sumAxis", <<axis>>, <<IF axis = 0 THEN cols ELSE rows>>,
           IF axis = 0 THEN [c \in 1..cols |-> UNION {t.data[(r - 1) * cols + c] : r \in 1..rows}]
           ELSE [r \in 1..rows |-> UNION {t.data[(r - 1) * cols + c] : c \in 1..cols}])

Concat(axis) ==
  /\ Len(t.shape) = 2 /\ Len(other.shape) = 2
  /\ LET rows == t.shape[1]
         cols == t.shape[2]
         more == other.shape[2]
     IN  IF axis = 0
         THEN /\ other.shape[2] = cols
              /\ Finish("concat", <<axis>>, <<rows + other.shape[1], cols>>, t.data \o other.data)
         ELSE /\ other.shape[1] = rows
              /\ Finish("concat", <<axis>>, <<rows, cols + more>>,
                   FlattenSeq([r \in 1..rows |->
                      SubSeq(t.data, (r - 1) * cols + 1, r * cols) \o SubSeq(other.data, (r - 1) * more + 1, r * more)]))

\* A range of flat positions.
Slice(from, to) ==
  /\ 0 <= from /\ from <= to /\ to <= Len(t.data)
  /\ Finish("slice", <<from, to>>, <<to - from>>, SubSeq(t.data, from + 1, to))

\* [B, N, M] by [B, M, K], one product per batch.
Bmm ==
  /\ Len(t.shape) = 3 /\ Len(other.shape) = 3
  /\ other.shape[1] = t.shape[1] /\ other.shape[2] = t.shape[3]
  /\ LET n == t.shape[2]
         m == t.shape[3]
         k == other.shape[3]
         Cell(b, i, j) == UNION {t.data[b * n * m + i * m + l + 1] \X other.data[b * m * k + l * k + j + 1] : l \in 0..m-1}
     IN  Finish("bmm", <<>>, <<t.shape[1], n, k>>,
           [p \in 1..t.shape[1] * n * k |-> Cell((p - 1) \div (n * k), ((p - 1) \div k) % n, (p - 1) % k)])

Outer ==
  /\ Len(t.shape) = 1 /\ Len(other.shape) = 1
  /\ LET n == other.shape[1]
     IN  Finish("outer", <<>>, <<t.shape[1], n>>,
           [p \in 1..t.shape[1] * n |-> t.data[(p - 1) \div n + 1] \X other.data[((p - 1) % n) + 1]])

\* maximum and minimum pair the elements as long as both have some; called
\* with tensors of one size.
Maximum ==
  /\ Len(other.data) = Len(t.data)
  /\ Finish("maximum", <<>>, t.shape, [i \in DOMAIN t.data |-> t.data[i] \cup other.data[i]])

\* Every other element-wise method.
Elementwise ==
  /\ t.shape = other.shape
  /\ Finish("elementwise", <<>>, t.shape, [i \in DOMAIN t.data |-> t.data[i] \cup other.data[i]])

Cumsum == Finish("cumsum", <<>>, <<Len(t.data)>>, [i \in DOMAIN t.data |-> UNION {t.data[j] : j \in 1..i}])

Next ==
  \/ \E s \in Shapes : Reshape(s) \/ BroadcastTo(s)
  \/ Flatten \/ BroadcastAddNd \/ BroadcastMulNd \/ Bmm \/ Outer \/ Maximum \/ Elementwise \/ Cumsum
  \/ \E d \in -3..2 : Unsqueeze(d) \/ Squeeze(<<d>>)
  \/ Squeeze(<<>>)
  \/ \E axes \in {<<0>>, <<1, 0>>, <<0, 1>>, <<1, 2, 0>>, <<0, 2, 1>>, <<2, 0, 1>>} : Permute(axes)
  \/ \E axis \in -3..2, keepdim \in BOOLEAN : Reduce(axis, keepdim)
  \/ \E axis \in {0, 1} : SumAxis(axis) \/ Concat(axis)
  \/ \E from \in 0..2, to \in 1..3 : Slice(from, to)

Spec == Init /\ [][Next]_shapeVars

-----------------------------------------------------------------------------
\* The element a tensor has at a tuple of indices.
At(x, idx) == x.data[FlatIndex(x.shape, idx) + 1]
Box(shape) == {f \in [DOMAIN shape -> 0..3] : \A i \in DOMAIN shape : f[i] < shape[i]}
\* The coordinates of idx that shape has, where it is not 1.
Within(shape, idx) ==
  [i \in DOMAIN shape |-> IF shape[i] = 1 THEN 0 ELSE idx[i + Len(idx) - Len(shape)]]

\* What each method means, element by element.
Meaning(m, arg, x, y, out, idx) ==
  CASE m = "permute" -> At(x, [a \in DOMAIN idx |-> idx[CHOOSE i \in DOMAIN arg : arg[i] = a - 1]])
    [] m = "broadcastTo" -> At(x, Within(x.shape, idx))
    [] m = "broadcastAddNd" -> At(x, Within(x.shape, idx)) \cup At(y, Within(y.shape, idx))
    [] m = "broadcastMulNd" -> At(x, Within(x.shape, idx)) \X At(y, Within(y.shape, idx))
    [] m = "reduce" ->
         LET axis == Resolved(arg[1], Len(x.shape)) + 1
             rest == IF arg[2] \/ Len(x.shape) = 1 THEN RemoveAt(idx, IF Len(x.shape) = 1 THEN 1 ELSE axis) ELSE idx
         IN  UNION {At(x, InsertAt(rest, axis, k)) : k \in 0..(x.shape[axis] - 1)}
    [] m = "sumAxis" -> UNION {At(x, IF arg[1] = 0 THEN <<k, idx[1]>> ELSE <<idx[1], k>>) : k \in 0..(x.shape[arg[1] + 1] - 1)}
    [] m = "concat" ->
         LET here == idx[arg[1] + 1] < x.shape[arg[1] + 1]
         IN  IF here THEN At(x, idx) ELSE At(y, [idx EXCEPT ![arg[1] + 1] = @ - x.shape[arg[1] + 1]])
    [] m = "bmm" -> UNION {At(x, <<idx[1], idx[2], l>>) \X At(y, <<idx[1], l, idx[3]>>) : l \in 0..(x.shape[3] - 1)}
    [] m = "outer" -> At(x, <<idx[1]>>) \X At(y, <<idx[2]>>)
    [] m = "elementwise" -> At(x, idx) \cup At(y, idx)
    [] OTHER -> At(out, idx)

\* Every method puts at every index what it means there; the ones that only
\* change the shape keep the elements in order.
AgreesWithIndexing ==
  done # <<>> =>
    LET d == done[1]
    IN  /\ Len(t.data) = Product(t.shape)
        /\ d.method \in {"reshape", "flatten", "unsqueeze", "squeeze"} => t.data = d.was.data
        /\ \A idx \in Box(t.shape) : At(t, idx) = Meaning(d.method, d.arg, d.was, other, t, idx)
=============================================================================
