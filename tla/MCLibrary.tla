------------------------------ MODULE MCLibrary -----------------------------
(* Instances of Library: its parts together, and one part by itself for each *)
(* instance in which the code does not keep a part's property.               *)
EXTENDS Library
MCInputs ==
  {<< [shape |-> <<2, 2>>, data |-> <<1, 5, 3, 2>>], [shape |-> <<2>>, data |-> <<4, 6>>] >>,
   << [shape |-> <<1, 3, 2, 1>>, data |-> <<3, 1, 2, 5, 4, 2>>],
      [shape |-> <<4, 1>>, data |-> <<2, 1, 6, 3>>], [shape |-> <<1>>, data |-> <<5>>] >>}
MCShapes == {<<1>>, <<2>>, <<3>>, <<1, 3>>, <<2, 1>>, <<2, 3>>, <<3, 2>>, <<6>>, <<1, 2, 3>>, <<2, 3, 1>>,
             <<2, 2, 3>>, <<2, 3, 2>>}

\* An integer or a string key keeps its spelling, a decimal's older one is "".
Key(canon, legacy) == [canon |-> canon, legacy |-> legacy]
MCKeys == {Key("a", "a"), Key("b", "b"), Key("c", "c"), Key("1.5", ""), Key("", "")}
MCElements == {[key |-> 1, name |-> "a"], [key |-> 1, name |-> "b"], [key |-> 2, name |-> "c"]}

Holder(kindOf, at) == [kind |-> kindOf, n |-> 0, at |-> at]
Items(n) == [kind |-> "list", n |-> n, at |-> <<>>]
Pair(v) == Holder("array", [x \in {"0", "1"} |-> v])
MCRoots ==
  {Holder("object", [f |-> Items(0), g |-> Holder("object", [f |-> Items(1), h |-> Pair(Items(2))])]),
   Pair(Holder("object", [f |-> Items(0), h |-> Holder("array", [y \in {"0"} |-> Items(3)])])),
   Holder("dict", [e |-> Items(0), k |-> Pair(Items(1))]), Items(0), Pair(Items(2))}
Dot(k) == [via |-> "dot", key |-> k]
At(k) == [via |-> "at", key |-> k]
MCReceivers ==
  {<<>>, <<Dot("f")>>, <<Dot("g")>>, <<Dot("g"), Dot("f")>>, <<Dot("g"), Dot("h")>>,
   <<Dot("g"), Dot("h"), At("0")>>, <<At("0")>>, <<At("1")>>, <<At("0"), Dot("f")>>, <<At("0"), Dot("h")>>,
   <<At("0"), Dot("h"), At("0")>>, <<At("e")>>, <<Dot("e")>>, <<Dot("k")>>, <<At("k")>>, <<At("k"), At("0")>>,
   <<Dot("k"), At("0")>>}
\* A collection reached through two dots or more, or a dict's dot, is not written back.
MCMutated == {p \in MCReceivers : (Len(p) > 0 /\ p[Len(p)].via = "dot" => Len(p) = 1)
                                    /\ p \notin {<<Dot("e")>>, <<Dot("k")>>}}
MCTouches == {[place |-> p, what |-> w] : p \in MCReceivers, w \in {"bump", "drop"}}

Tree(op, c, kids) == [op |-> op, c |-> c, kids |-> kids, min |-> 0, max |-> 0, greedy |-> TRUE, cap |-> 0]
Seq2(x, y) == Tree("concat", "", <<x, y>>)
Or(x, y) == Tree("alt", "", <<x, y>>)
Repeat(x, min, max, greedy) == [Tree("repeat", "", <<x>>) EXCEPT !.min = min, !.max = max, !.greedy = greedy]
Quantified(x) == {Repeat(x, 0, -1, TRUE), Repeat(x, 0, -1, FALSE), Repeat(x, 1, -1, TRUE),
                  Repeat(x, 0, 1, FALSE), Repeat(x, 1, 2, TRUE)}
a == Tree("char", "a", <<>>)
b == Tree("char", "b", <<>>)
Atoms == {a, Tree("any", "", <<>>), Tree("class", "W", <<>>)} \cup Quantified(a)
OrEnd == Or(b, Tree("end", "", <<>>))
Groups(inner) == {[Tree("group", "", <<x>>) EXCEPT !.cap = c] : c \in {0, 1}, x \in inner}
Closed == {a, Seq2(a, b), Or(a, Seq2(a, b)), Seq2(Repeat(a, 0, 1, TRUE), b)}
Grouped == Groups(Closed \cup {OrEnd}) \cup UNION {Quantified(g) : g \in Groups(Closed)}
MCTrees == {Tree("empty", "", <<>>)} \cup Atoms \cup Grouped \cup {Seq2(x, y) : x \in Grouped, y \in Atoms}
             \cup {Or(x, b) : x \in Grouped} \cup {Seq2(Tree("start", "", <<>>), x) : x \in Grouped}
MCTexts == UNION {[1..n -> {"a", "b"}] : n \in 0..3} \cup {<<"\n", "a">>}

MCRadix == <<2, 2, 2, 2>>
Fields(y, m, d) == [year |-> y, month |-> m, day |-> d, hour |-> 1, minute |-> 0, second |-> 1, ms |-> 0]
MCStarts == {Fields(y, md[1], md[2]) : y \in {1899, 1900, 1904},
                                       md \in {<<1, 31>>, <<2, 28>>, <<2, 29>>, <<12, 31>>, <<0, 1>>, <<11, 0>>}}
Token(c, n) == [kind |-> "token", letter |-> c, n |-> n, text |-> <<>>]
Quoted(s) == [kind |-> "text", letter |-> "x", n |-> 0, text |-> s]
MCPatterns ==
  {<<Token("Y", 4), Quoted(<<"-">>), Token("M", 2), Token("D", 1)>>,
   <<Quoted(<<"D", "[">>), Token("h", 1), Quoted(<<>>), Token("h", 2), Token("A", 1), Token("m", 1), Token("s", 2)>>,
   <<Token("Y", 2), Token("S", 3), Token("H", 2), Quoted(<<"x">>)>>}
\* The last is the first instant after LastYear: six years, one of them leap, of 16 each.
MCStamps == {-1, 5, (6 * 365 + 1) * 16}

Letter(k) == <<"char", k>>
MCSamples ==
  {Value("int", 2 * n, <<>>, {}) : n \in {-8, -3, -1, 0, 1, 2, 5, 7}}
    \cup {Value("decimal", n, <<>>, {}) : n \in {0, 2, 3, 8, 10, -2}}
    \cup {Value("dec", n, <<>>, {}) : n \in {0, 2, 4, -2, 10}} \cup {Value("bool", x, <<>>, {}) : x \in {0, 2}} \cup {Value("null", 0, <<>>, {})}
    \cup {Value("string", 0, s, {}) : s \in {<<>>, <<Letter(1)>>, <<Letter(1), Letter(2)>>, <<Letter(2)>>}}
    \cup {Value(k, 0, <<>>, {}) : k \in {"array", "function", "Tensor", "instance", "variant"}}
    \cup {Value(k, 2, <<>>, {}) : k \in {"dict", "Set", "DateTime", "DateField", "variant"}}
    \cup {Value("DateTime", 4, <<>>, {}), Value("instance", 0, <<>>, {"op_eq", "op_add"}),
          Value("instance", 0, <<>>, {"op_str", "op_not", "op_neg"})}

\* The recorded layers: tables that can stand for the elementary functions, and
\* calls for which no divisor on the way is 0.
\* Powers of 9 for exp: exp(-x) is 1 / exp(x), and 1 + exp(x) is never 0 modulo 31.
P == 31
FieldPower == LET e[n \in 0..15] == IF n = 0 THEN 1 ELSE (e[n - 1] * 9) % P IN e
MCExp == [x \in 0..P - 1 |-> IF 2 * x < P THEN FieldPower[x] ELSE FieldPower[15 - (P - x)]]
Over(n, m) == (n * CHOOSE r \in 1..P - 1 : (r * m) % P = 1) % P
MCTanh == [x \in 0..P - 1 |-> Over(MCExp[x] - Over(1, MCExp[x]), MCExp[x] + Over(1, MCExp[x]))]
MCLn == [x \in 0..P - 1 |-> (x * x + 5 * x + 3) % P]
MCRoot == [x \in 0..P - 1 |-> IF \E r \in 0..15 : (r * r) % P = x THEN CHOOSE r \in 0..15 : (r * r) % P = x ELSE 0]

Made(n, k) == [i \in 0..n - 1 |-> (k * i * i + 3 * i + 2 * k + 1) % P]
Call(m, size, num, args) == [m |-> m, size |-> size, num |-> num, args |-> args]
Norm(m, rows, cols, eps, k) ==
  Call(m, <<rows, cols>>, <<eps>>, <<Made(rows * cols, k), Made(cols, 3), Made(cols, 4)>>)

MCCalls ==
  {Call(m, <<>>, <<4>>, <<[i \in 0..P - 2 |-> i + 1]>>) :
     m \in {"sigmoid", "tanh", "leaky_relu", "elu", "swish", "gelu", "mish"}}
  \cup {Call("softmax", s, <<>>, <<Made(s[1] * s[2], k)>>) : s \in {<<2, 3>>, <<1, 4>>}, k \in {1, 2}}
  \cup {Call("dropout", <<>>, <<3>>, <<Made(3, 1), mask>>) : mask \in [0..2 -> {0, 1}]}
  \cup {Call("avg_pool2d", s, <<>>, <<Made(s[3] * s[4] * s[5] * s[6], 2)>>) :
          s \in {<<2, 1, 1, 2, 3, 2>>, <<2, 2, 2, 4, 3, 1>>}}
  \cup {Norm("layer_norm", 1, 3, 26, 2), Norm("layer_norm", 1, 3, 22, 1)}
  \cup {Norm("batchNorm", 3, 2, eps, 1) : eps \in {1, 4}} \cup {Norm("batchNorm", 2, 2, 7, 2)}
  \cup {Call("mha", s, <<>>, [q \in 1..5 |-> IF q = 1 THEN Made(s[1] * s[2], 1) ELSE Made(s[2] * s[2], q)]) :
          s \in {<<2, 2, 1>>, <<2, 2, 2>>, <<3, 2, 2>>}}
  \cup {Call("lstm", <<sl, is, hs>>, <<>>,
             <<Made(sl * is, 1), Made(is * 4 * hs, 2), Made(hs * 4 * hs, 3), Made(4 * hs, 4), Made(hs, 5), Made(hs, 6)>>) :
          sl \in {1, 3}, is \in {1}, hs \in 1..2}
  \cup {Call("gru", <<sl, is, hs>>, <<>>,
             <<Made(sl * is, 1), Made(is * 3 * hs, 2), Made(hs * 3 * hs, 3), Made(3 * hs, 4), Made(hs, 5)>>) :
          sl \in {1, 3}, is \in {2}, hs \in 1..2}
  \cup {Call("maeLoss", <<3>>, <<>>, <<Made(3, 1), w>>) : w \in {Made(3, 2), Made(3, 5)}}
  \cup {Call("bceLoss", <<3>>, <<>>, <<Made(3, 1), Made(3, 2)>>)}
  \cup {Call("crossEntropyLoss", <<2, 3>>, <<>>, <<Made(6, k), w>>) : k \in 1..2, w \in [0..1 -> 0..2]}
\* Rows whose deviation is 2 and 3.
MCRows == {Norm("layer_norm", 1, 3, eps, 2) : eps \in {29, 3}}

DictSpec == used = "index" /\ Init /\ [][Next]_vars
PlacesSpec == used = "places" /\ Init /\ [][Next]_vars
LayersSpec == used = "layers" /\ Init /\ [][Next]_vars
\* String keys only: both spellings are the string.
MCStringKeys == {Key(k, k) : k \in {"a", "b", "c", "d", "z"}}
\* An object with a list, and an object in it with a list of its own.
MCNested == {Holder("object", [f |-> Items(0), g |-> Holder("object", [f |-> Items(1)])])}
MCDots == {<<>>, <<Dot("f")>>, <<Dot("g")>>, <<Dot("g"), Dot("f")>>}
=============================================================================
