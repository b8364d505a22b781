------------------------------- MODULE Layers -------------------------------
(***************************************************************************)
(* The recorded layers of the evaluator: activations, softmax, pooling,    *)
(* dropout, the two normalisations, attention, LSTM, GRU and three losses. *)
(* A method computes its output and pushes a tape entry with what its      *)
(* backward rule will need; backward later gives the entry the gradient of *)
(* the output and reads everything else from the entry.                    *)
(*                                                                         *)
(* Numbers are the integers modulo a prime, the upper half standing for    *)
(* the negative ones, and carry a tangent: [v, d] is a value and its rate  *)
(* of change.  All a rule can use of exp, tanh, ln or the root is its own  *)
(* derivative, so tables stand for them.  Vectors start at 0, as in the    *)
(* source; matrices are vectors of rows.                                   *)
(***************************************************************************)
EXTENDS Integers, Sequences, FiniteSets

CONSTANTS Field,                 \* a prime
          Exp, Tanh, Ln, SquareRoot,   \* the elementary functions
          Calls,                 \* calls a program makes: method, sizes, numbers and tensors
          Seeds                  \* what makes the gradients of an output

VARIABLES call,   \* the call
          node,   \* the tape entry it pushed, the output included
          seed,   \* the gradient backward brings to the output
          deltas  \* what backward accumulates, one vector for each tensor recorded
vars == <<call, node, seed, deltas>>

Const(n) == [v |-> n % Field, d |-> 0]
Zero == Const(0)
One == Const(1)
a \oplus b == [v |-> (a.v + b.v) % Field, d |-> (a.d + b.d) % Field]
a \ominus b == [v |-> (a.v - b.v) % Field, d |-> (a.d - b.d) % Field]
a \otimes b == [v |-> (a.v * b.v) % Field, d |-> (a.v * b.d + a.d * b.v) % Field]
Recip(n) == CHOOSE x \in 1..Field - 1 : (x * n) % Field = 1
a \oslash b == LET r == Recip(b.v)
                   q == (a.v * r) % Field
               IN  [v |-> q, d |-> ((a.d - q * b.d) * r) % Field]

\* A table at a, given its slope there.
At(table, a, slope) == [v |-> table[a.v], d |-> (slope * a.d) % Field]
ExpOf(a) == At(Exp, a, Exp[a.v])
TanhOf(a) == At(Tanh, a, 1 - Tanh[a.v] * Tanh[a.v])
LnOf(a) == At(Ln, a, Recip(a.v))
RootOf(a) == At(SquareRoot, a, Recip(2 * SquareRoot[a.v]))
Sigmoid(x) == One \oslash (One \oplus ExpOf(Zero \ominus x))

Signed(n) == IF 2 * n < Field THEN n ELSE n - Field
Above(a, b) == Signed(a.v) > Signed(b.v)

Sigma(n, f) == LET s[i \in 0..n] == IF i = 0 THEN Zero ELSE s[i - 1] \oplus f[i - 1] IN s[n]
Dot(n, f, g) == Sigma(n, [i \in 0..n - 1 |-> f[i] \otimes g[i]])
Zeros(n) == [i \in 0..n - 1 |-> Zero]
Sum(f, g) == [i \in DOMAIN f |-> f[i] \oplus g[i]]
Pairwise(f, g) == [i \in DOMAIN f |-> f[i] \otimes g[i]]
\* d[i] s (1 - s) and d[i] (1 - t t): the way back through a sigmoid or a tanh.
ThroughSigmoid(f, s) == [i \in DOMAIN f |-> f[i] \otimes s[i] \otimes (One \ominus s[i])]
ThroughTanh(f, t) == [i \in DOMAIN f |-> f[i] \otimes (One \ominus t[i] \otimes t[i])]

Row(a, cols, r) == [c \in 0..cols - 1 |-> a[r * cols + c]]
Column(a, rows, cols, c) == [r \in 0..rows - 1 |-> a[r * cols + c]]
MatMul(a, rows, inner, b, cols) ==
  [i \in 0..rows * cols - 1 |-> Dot(inner, Row(a, inner, i \div cols), Column(b, inner, cols, i % cols))]
Turned(a, rows, cols) == [i \in 0..rows * cols - 1 |-> a[(i % rows) * cols + i \div rows]]
Outer(f, g, n, m) == [i \in 0..n * m - 1 |-> f[i \div m] \otimes g[i % m]]

-----------------------------------------------------------------------------
(* Activations, forward and, given the gradient g of the output, back.        *)
LeakyRelu(x, alpha) == IF Above(Zero, x) THEN alpha \otimes x ELSE x
LeakyReluBack(g, x, alpha) == IF Above(x, Zero) THEN g ELSE g \otimes alpha
Elu(x, alpha) == IF Above(x, Zero) THEN x ELSE alpha \otimes (ExpOf(x) \ominus One)
EluBack(g, x, alpha) == IF Above(x, Zero) THEN g ELSE g \otimes alpha \otimes ExpOf(x)
Swish(x) == x \otimes Sigmoid(x)
SwishBack(g, x) == LET s == Sigmoid(x) IN g \otimes s \otimes (One \oplus x \otimes (One \ominus s))
Mish(x) == x \otimes TanhOf(LnOf(One \oplus ExpOf(x)))
MishBack(g, x) ==
  LET ts == TanhOf(LnOf(One \oplus ExpOf(x)))
  IN  g \otimes (ts \oplus x \otimes (One \ominus ts \otimes ts) \otimes Sigmoid(x))

\* 0.5, sqrt(2 / PI) and 0.044715 are numbers of no importance to the rule.
Mid == Const(Recip(2))
GeluC == Const(5)
GeluK == Const(7)
GeluTanh(x) == TanhOf(GeluC \otimes (x \oplus GeluK \otimes x \otimes x \otimes x))
Gelu(x) == Mid \otimes x \otimes (One \oplus GeluTanh(x))
GeluBack(g, x) ==
  LET t == GeluTanh(x)
  IN  g \otimes (Mid \otimes (One \oplus t)
                   \oplus Mid \otimes x \otimes (One \ominus t \otimes t) \otimes GeluC
                            \otimes (One \oplus Const(3) \otimes GeluK \otimes x \otimes x))

\* dropout keeps what the generator's draw, the mask, keeps.
Dropout(x, mask, keep) == [i \in DOMAIN x |-> (x[i] \otimes mask[i]) \oslash keep]

-----------------------------------------------------------------------------
(* Softmax, pooling and the normalisations.                                   *)
SoftmaxRow(row) ==
  LET n == Cardinality(DOMAIN row)
      mx == CHOOSE m \in {row[i] : i \in DOMAIN row} : \A i \in DOMAIN row : ~Above(row[i], m)
      e == [i \in DOMAIN row |-> ExpOf(row[i] \ominus mx)]
      s == Sigma(n, e)
  IN  [i \in DOMAIN row |-> e[i] \oslash s]

SoftmaxBack(g, s) ==
  LET dot == Dot(Cardinality(DOMAIN s), g, s) IN [i \in DOMAIN s |-> s[i] \otimes (g[i] \ominus dot)]

\* Element i of the input lies in the window of out when it is one of its pixels.
Pixels(k, st, h, w, c, out) ==
  LET oh == (h - k) \div st + 1
      ow == (w - k) \div st + 1
      nb == out \div (oh * ow * c)
      y == (out % (oh * ow * c)) \div (ow * c)
      x == (out % (ow * c)) \div c
  IN  {((nb * h + y * st + kh) * w + x * st + kw) * c + (out % c) : kh \in 0..k - 1, kw \in 0..k - 1}
Outs(k, st, n, h, w, c) == n * ((h - k) \div st + 1) * ((w - k) \div st + 1) * c
AvgPool(x, k, st, n, h, w, c) ==
  [o \in 0..Outs(k, st, n, h, w, c) - 1 |->
     LET in == Pixels(k, st, h, w, c, o)
     IN  Sigma(n * h * w * c, [i \in DOMAIN x |-> IF i \in in THEN x[i] ELSE Zero]) \oslash Const(k * k)]
AvgPoolBack(g, k, st, n, h, w, c) ==
  [i \in 0..n * h * w * c - 1 |->
     Sigma(Outs(k, st, n, h, w, c),
           [o \in DOMAIN g |-> IF i \in Pixels(k, st, h, w, c, o) THEN g[o] \oslash Const(k * k) ELSE Zero])]

\* What layer_norm does to a row and batchNorm to a column.
Normalised(x, eps) ==
  LET n == Cardinality(DOMAIN x)
      mu == Sigma(n, x) \oslash Const(n)
      xm == [i \in DOMAIN x |-> x[i] \ominus mu]
      std == RootOf((Dot(n, xm, xm) \oslash Const(n)) \oplus eps)
  IN  [xm |-> xm, xn |-> [i \in DOMAIN x |-> xm[i] \oslash std], std |-> std]
LayerNorm(x, gamma, beta, eps, rows, cols) ==
  LET by == [r \in 0..rows - 1 |-> Normalised(Row(x, cols, r), eps)]
  IN  [out |-> [i \in DOMAIN x |-> gamma[i % cols] \otimes by[i \div cols].xn[i % cols] \oplus beta[i % cols]],
       by |-> by, gamma |-> gamma]
BatchNorm(x, gamma, beta, eps, rows, cols) ==
  LET by == [c \in 0..cols - 1 |-> Normalised(Column(x, rows, cols, c), eps)]
  IN  [out |-> [i \in DOMAIN x |-> by[i % cols].xn[i \div cols] \otimes gamma[i % cols] \oplus beta[i % cols]],
       by |-> by, gamma |-> gamma]

\* The input's gradient, given that of the normalised values.
Unnormalised(f, part, n) ==
  LET sum == Sigma(n, f) \oslash Const(n)
      dot == Dot(n, f, part.xn) \oslash Const(n)
  IN  [i \in DOMAIN f |-> (f[i] \ominus sum \ominus part.xn[i] \otimes dot) \oslash part.std]
\* layer_norm's form of it: x_mu over the squared deviation, where x_norm is meant.
UnnormalisedRow(f, part, n) ==
  LET sum == Sigma(n, f) \oslash Const(n)
      dot == Dot(n, f, part.xn) \oslash Const(n)
  IN  [i \in DOMAIN f |->
         (f[i] \ominus sum \ominus (part.xm[i] \oslash (part.std \otimes part.std)) \otimes dot) \oslash part.std]

LayerNormBack(e, g, rows, cols) ==
  LET dx == [r \in 0..rows - 1 |-> UnnormalisedRow(Pairwise(Row(g, cols, r), e.gamma), e.by[r], cols)]
  IN  << [i \in DOMAIN g |-> dx[i \div cols][i % cols]],
         [c \in 0..cols - 1 |-> Sigma(rows, [r \in 0..rows - 1 |-> g[r * cols + c] \otimes e.by[r].xn[c]])],
         [c \in 0..cols - 1 |-> Sigma(rows, Column(g, rows, cols, c))] >>
BatchNormBack(e, g, rows, cols) ==
  LET dx == [c \in 0..cols - 1 |->
               Unnormalised([r \in 0..rows - 1 |-> g[r * cols + c] \otimes e.gamma[c]], e.by[c], rows)]
  IN  << [i \in DOMAIN g |-> dx[i % cols][i \div cols]],
         [c \in 0..cols - 1 |-> Dot(rows, Column(g, rows, cols, c), e.by[c].xn)],
         [c \in 0..cols - 1 |-> Sigma(rows, Column(g, rows, cols, c))] >>

-----------------------------------------------------------------------------
(* mha: sl rows of dm numbers, nh heads of d numbers.                         *)
HeadOf(a, sl, dm, d, h) == [i \in 0..sl * d - 1 |-> a[(i \div d) * dm + h * d + (i % d)]]
Joined(heads, sl, dm, d) ==
  [i \in 0..sl * dm - 1 |-> heads[(i % dm) \div d][(i \div dm) * d + (i % d)]]

Mha(x, wq, wk, wv, wo, sl, dm, nh) ==
  LET d == dm \div nh
      proj(w) == MatMul(x, sl, dm, w, dm)
      q == proj(wq)
      k == proj(wk)
      v == proj(wv)
      scale == One \oslash RootOf(Const(d))
      attn == [h \in 0..nh - 1 |->
                 LET s == MatMul(HeadOf(q, sl, dm, d, h), sl, d, Turned(HeadOf(k, sl, dm, d, h), sl, d), sl)
                     rows == [r \in 0..sl - 1 |-> SoftmaxRow([c \in 0..sl - 1 |-> s[r * sl + c] \otimes scale])]
                 IN  [i \in DOMAIN s |-> rows[i \div sl][i % sl]]]
      concat == Joined([h \in 0..nh - 1 |-> MatMul(attn[h], sl, sl, HeadOf(v, sl, dm, d, h), d)], sl, dm, d)
  IN  [out |-> MatMul(concat, sl, dm, wo, dm), x |-> x, w |-> <<wq, wk, wv, wo>>,
       q |-> q, k |-> k, v |-> v, attn |-> attn, concat |-> concat]

\* What head h brings back to its columns of q, k and v.
HeadBack(e, dconcat, sl, dm, d, h) ==
  LET s == e.attn[h]
      dhead == HeadOf(dconcat, sl, dm, d, h)
      dattn == MatMul(dhead, sl, d, Turned(HeadOf(e.v, sl, dm, d, h), sl, d), sl)
      rows == [r \in 0..sl - 1 |-> SoftmaxBack(Row(dattn, sl, r), Row(s, sl, r))]
      dscores == [i \in DOMAIN s |-> rows[i \div sl][i % sl] \otimes (One \oslash RootOf(Const(d)))]
  IN  << MatMul(dscores, sl, sl, HeadOf(e.k, sl, dm, d, h), d),
         MatMul(Turned(dscores, sl, sl), sl, sl, HeadOf(e.q, sl, dm, d, h), d),
         MatMul(Turned(s, sl, sl), sl, sl, dhead, d) >>
MhaBack(e, g, sl, dm, nh) ==
  LET d == dm \div nh
      dconcat == MatMul(g, sl, dm, Turned(e.w[4], dm, dm), dm)
      back == [h \in 0..nh - 1 |-> HeadBack(e, dconcat, sl, dm, d, h)]
      dproj == [p \in 1..3 |-> Joined([h \in 0..nh - 1 |-> back[h][p]], sl, dm, d)]
      dx == [p \in 1..3 |-> MatMul(dproj[p], sl, dm, Turned(e.w[p], dm, dm), dm)]
      dw == [p \in 1..3 |-> MatMul(Turned(e.x, sl, dm), dm, sl, dproj[p], dm)]
  IN  << Sum(Sum(dx[1], dx[2]), dx[3]), dw[1], dw[2], dw[3],
         MatMul(Turned(e.concat, sl, dm), dm, sl, g, dm) >>

-----------------------------------------------------------------------------
(* lstm and gru: sl steps of is numbers, hs hidden ones.  Gate g of a step    *)
(* reads columns g hs to (g + 1) hs - 1 of the weights.                       *)
Padded(f, n) == [j \in 0..n - 1 |-> IF j \in DOMAIN f THEN f[j] ELSE Zero]
Part(z, g, hs) == [j \in 0..hs - 1 |-> z[g * hs + j]]
PreActivation(x, h, wx, wh, b, is, hs, width) ==
  [j \in 0..width - 1 |-> b[j] \oplus Dot(is, x, Column(wx, is, width, j))
                               \oplus Dot(hs, h, Column(wh, hs, width, j))]

Lstm(x, wx, wh, b, h0, c0, sl, is, hs) ==
  LET step(h, c, t) ==
        LET z == PreActivation(Row(x, is, t), h, wx, wh, b, is, hs, 4 * hs)
            gate(g) == [j \in 0..hs - 1 |-> Sigmoid(z[g * hs + j])]
            i == gate(0)
            f == gate(1)
            o == gate(3)
            g == [j \in 0..hs - 1 |-> TanhOf(z[2 * hs + j])]
            ct == Sum(Pairwise(f, c), Pairwise(i, g))
        IN  [i |-> i, f |-> f, g |-> g, o |-> o, c |-> ct,
             h |-> [j \in 0..hs - 1 |-> o[j] \otimes TanhOf(ct[j])]]
      start == [i |-> Zeros(hs), f |-> Zeros(hs), g |-> Zeros(hs), o |-> Zeros(hs),
                c |-> Padded(c0, hs), h |-> Padded(h0, hs)]
      all[t \in 0..sl] == IF t = 0 THEN start ELSE LET p == all[t - 1] IN step(p.h, p.c, t - 1)
  IN  [out |-> all[sl].h, all |-> all, x |-> x, wx |-> wx, wh |-> wh]

\* From the last step to the first: dh and dc are what the next step left for this one.
LstmBack(e, grad, sl, is, hs) ==
  LET step(next, t) ==
        LET now == e.all[t + 1]
            prev == e.all[t]
            dh == IF t = sl - 1 THEN Sum(next.dh, grad) ELSE next.dh
            tc == [j \in 0..hs - 1 |-> TanhOf(now.c[j])]
            dc == Sum(ThroughTanh(Pairwise(dh, now.o), tc), next.dc)
            di == ThroughSigmoid(Pairwise(dc, now.g), now.i)
            df == ThroughSigmoid(Pairwise(dc, prev.c), now.f)
            dg == ThroughTanh(Pairwise(dc, now.i), now.g)
            do == ThroughSigmoid(Pairwise(dh, tc), now.o)
            dz == [j \in 0..4 * hs - 1 |-> <<di, df, dg, do>>[1 + (j \div hs)][j % hs]]
            dxt == MatMul(dz, 1, 4 * hs, Turned(e.wx, is, 4 * hs), is)
        IN  [dx |-> [i \in DOMAIN next.dx |-> IF i \div is = t THEN dxt[i % is] ELSE next.dx[i]],
             dwx |-> Sum(next.dwx, Outer(Row(e.x, is, t), dz, is, 4 * hs)),
             dwh |-> Sum(next.dwh, Outer(prev.h, dz, hs, 4 * hs)), db |-> Sum(next.db, dz),
             dh |-> MatMul(dz, 1, 4 * hs, Turned(e.wh, hs, 4 * hs), hs), dc |-> Pairwise(dc, now.f)]
      last == [dx |-> Zeros(sl * is), dwx |-> Zeros(is * 4 * hs), dwh |-> Zeros(hs * 4 * hs),
               db |-> Zeros(4 * hs), dh |-> Zeros(hs), dc |-> Zeros(hs)]
      back[t \in 0..sl] == IF t = sl THEN last ELSE step(back[t + 1], t)
      b == back[0]
  IN  <<b.dx, b.dwx, b.dwh, b.db, b.dh, b.dc>>

Gru(x, wx, wh, b, h0, sl, is, hs) ==
  LET step(h, t) ==
        LET pre(state) == PreActivation(Row(x, is, t), state, wx, wh, b, is, hs, 3 * hs)
            r == [j \in 0..hs - 1 |-> Sigmoid(pre(h)[j])]
            z == [j \in 0..hs - 1 |-> Sigmoid(pre(h)[hs + j])]
            n == [j \in 0..hs - 1 |-> TanhOf(pre(Pairwise(r, h))[2 * hs + j])]
        IN  [r |-> r, z |-> z, n |-> n,
             h |-> [j \in 0..hs - 1 |-> (One \ominus z[j]) \otimes h[j] \oplus z[j] \otimes n[j]]]
      start == [r |-> Zeros(hs), z |-> Zeros(hs), n |-> Zeros(hs), h |-> Padded(h0, hs)]
      all[t \in 0..sl] == IF t = 0 THEN start ELSE step(all[t - 1].h, t - 1)
  IN  [out |-> all[sl].h, all |-> all, x |-> x, wx |-> wx, wh |-> wh]

GruBack(e, grad, sl, is, hs) ==
  LET \* The gates from lo to hi take a gradient back to the state they read.
      through(dz, lo, hi) ==
        [k \in 0..hs - 1 |-> Sigma(3 * hs, [j \in 0..3 * hs - 1 |->
           IF j \in lo * hs..hi * hs - 1 THEN dz[j] \otimes e.wh[k * 3 * hs + j] ELSE Zero])]
      step(next, t) ==
        LET now == e.all[t + 1]
            h == e.all[t].h
            dh == IF t = sl - 1 THEN Sum(next.dh, grad) ELSE next.dh
            dn == ThroughTanh(Pairwise(dh, now.z), now.n)
            drh == through([j \in 0..3 * hs - 1 |-> dn[j % hs]], 2, 3)
            dr == ThroughSigmoid(Pairwise(drh, h), now.r)
            dzg == ThroughSigmoid([j \in DOMAIN dh |-> dh[j] \otimes (now.n[j] \ominus h[j])], now.z)
            dz == [j \in 0..3 * hs - 1 |-> <<dr, dzg, dn>>[1 + (j \div hs)][j % hs]]
            direct == [j \in DOMAIN dh |-> dh[j] \otimes (One \ominus now.z[j]) \oplus drh[j] \otimes now.r[j]]
            dxt == MatMul(dz, 1, 3 * hs, Turned(e.wx, is, 3 * hs), is)
            dwh == [i \in 0..hs * 3 * hs - 1 |->
                      LET k == i \div (3 * hs)
                          j == i % (3 * hs)
                      IN  IF j < 2 * hs THEN h[k] \otimes dz[j] ELSE now.r[k] \otimes h[k] \otimes dz[j]]
        IN  [dx |-> [i \in DOMAIN next.dx |-> IF i \div is = t THEN dxt[i % is] ELSE next.dx[i]],
             dwx |-> Sum(next.dwx, Outer(Row(e.x, is, t), dz, is, 3 * hs)),
             dwh |-> Sum(next.dwh, dwh), db |-> Sum(next.db, dz), dh |-> Sum(direct, through(dz, 0, 2))]
      last == [dx |-> Zeros(sl * is), dwx |-> Zeros(is * 3 * hs), dwh |-> Zeros(hs * 3 * hs),
               db |-> Zeros(3 * hs), dh |-> Zeros(hs)]
      back[t \in 0..sl] == IF t = sl THEN last ELSE step(back[t + 1], t)
      b == back[0]
  IN  <<b.dx, b.dwx, b.dwh, b.db, b.dh>>

-----------------------------------------------------------------------------
(* Losses: one number, whose gradient scales what the rule gives.             *)
MaeLoss(p, t, n) ==
  LET above == [i \in DOMAIN p |-> Above(p[i], t[i])]
      abs == [i \in DOMAIN p |-> IF above[i] THEN p[i] \ominus t[i] ELSE t[i] \ominus p[i]]
  IN  [out |-> [o \in {0} |-> Sigma(n, abs) \oslash Const(n)],
       signs |-> [i \in DOMAIN p |-> IF above[i] THEN One ELSE IF Above(t[i], p[i]) THEN Const(-1) ELSE Zero]]
MaeBack(e, g, n) == [i \in DOMAIN e.signs |-> e.signs[i] \otimes (g[0] \oslash Const(n))]

BceLoss(p, t, n) ==
  [out |-> [o \in {0} |->
     Sigma(n, [i \in DOMAIN p |-> Zero \ominus (t[i] \otimes LnOf(p[i]) \oplus (One \ominus t[i]) \otimes LnOf(One \ominus p[i]))])
       \oslash Const(n)], p |-> p, t |-> t]
BceBack(e, g, n) ==
  [i \in DOMAIN e.p |-> (((One \ominus e.t[i]) \oslash (One \ominus e.p[i])) \ominus (e.t[i] \oslash e.p[i]))
                          \otimes (g[0] \oslash Const(n))]

\* A target is the index of its row's class.
CrossEntropyLoss(logits, targets, batch, classes) ==
  LET probs == [b \in 0..batch - 1 |-> SoftmaxRow(Row(logits, classes, b))]
      least(n) == IF n < classes THEN n ELSE classes - 1
  IN  [out |-> [o \in {0} |->
         Sigma(batch, [b \in 0..batch - 1 |-> Zero \ominus LnOf(probs[b][least(targets[b].v)])]) \oslash Const(batch)],
       probs |-> probs, targets |-> targets]
CrossEntropyBack(e, g, batch, classes) ==
  [i \in 0..batch * classes - 1 |->
     LET b == i \div classes
         c == i % classes
     IN  (e.probs[b][c] \ominus (IF c = e.targets[b].v THEN One ELSE Zero)) \otimes (g[0] \oslash Const(batch))]

-----------------------------------------------------------------------------
(* A call [m, size, num, args]: the method, the sizes and numbers it is given, *)
(* and its tensors, the receiver first.                                        *)
Pointwise == {"sigmoid", "tanh", "leaky_relu", "elu", "swish", "gelu", "mish"}
Apply(m, alpha, x) ==
  CASE m = "sigmoid" -> Sigmoid(x)
    [] m = "tanh" -> TanhOf(x)
    [] m = "leaky_relu" -> LeakyRelu(x, alpha)
    [] m = "elu" -> Elu(x, alpha)
    [] m = "swish" -> Swish(x)
    [] m = "gelu" -> Gelu(x)
    [] m = "mish" -> Mish(x)
\* The entries of sigmoid and tanh hold the output, y, the others the input, x.
ApplyBack(m, alpha, g, x, y) ==
  CASE m = "sigmoid" -> g \otimes y \otimes (One \ominus y)
    [] m = "tanh" -> g \otimes (One \ominus y \otimes y)
    [] m = "leaky_relu" -> LeakyReluBack(g, x, alpha)
    [] m = "elu" -> EluBack(g, x, alpha)
    [] m = "swish" -> SwishBack(g, x)
    [] m = "gelu" -> GeluBack(g, x)
    [] m = "mish" -> MishBack(g, x)

\* The entry a method pushes, its output included.
Entry(m, s, n, a) ==
  CASE m \in Pointwise -> [out |-> [i \in DOMAIN a[1] |-> Apply(m, n[1], a[1][i])], x |-> a[1]]
    [] m = "softmax" ->
         LET rows == [r \in 0..s[1] - 1 |-> SoftmaxRow(Row(a[1], s[2], r))]
         IN  [out |-> [i \in DOMAIN a[1] |-> rows[i \div s[2]][i % s[2]]]]
    [] m = "dropout" -> [out |-> Dropout(a[1], a[2], n[1]), mask |-> a[2]]
    [] m = "avg_pool2d" -> [out |-> AvgPool(a[1], s[1], s[2], s[3], s[4], s[5], s[6])]
    [] m = "layer_norm" -> LayerNorm(a[1], a[2], a[3], n[1], s[1], s[2])
    [] m = "batchNorm" -> BatchNorm(a[1], a[2], a[3], n[1], s[1], s[2])
    [] m = "mha" -> Mha(a[1], a[2], a[3], a[4], a[5], s[1], s[2], s[3])
    [] m = "lstm" -> Lstm(a[1], a[2], a[3], a[4], a[5], a[6], s[1], s[2], s[3])
    [] m = "gru" -> Gru(a[1], a[2], a[3], a[4], a[5], s[1], s[2], s[3])
    [] m = "maeLoss" -> MaeLoss(a[1], a[2], s[1])
    [] m = "bceLoss" -> BceLoss(a[1], a[2], s[1])
    [] m = "crossEntropyLoss" -> CrossEntropyLoss(a[1], a[2], s[1], s[2])

\* What backward accumulates for the tensors of an entry, in the call's order.
\* A target, like a mask, is no tensor of the tape.
Back(m, s, n, e, g) ==
  CASE m \in Pointwise -> << [i \in DOMAIN g |-> ApplyBack(m, n[1], g[i], e.x[i], e.out[i])] >>
    [] m = "softmax" ->
         LET rows == [r \in 0..s[1] - 1 |-> SoftmaxBack(Row(g, s[2], r), Row(e.out, s[2], r))]
         IN  << [i \in DOMAIN g |-> rows[i \div s[2]][i % s[2]]] >>
    [] m = "dropout" -> << Dropout(g, e.mask, n[1]) >>
    [] m = "avg_pool2d" -> << AvgPoolBack(g, s[1], s[2], s[3], s[4], s[5], s[6]) >>
    [] m = "layer_norm" -> LayerNormBack(e, g, s[1], s[2])
    [] m = "batchNorm" -> BatchNormBack(e, g, s[1], s[2])
    [] m = "mha" -> MhaBack(e, g, s[1], s[2], s[3])
    [] m = "lstm" -> LstmBack(e, g, s[1], s[2], s[3])
    [] m = "gru" -> GruBack(e, g, s[1], s[2], s[3])
    [] m = "maeLoss" -> << MaeBack(e, g, s[1]) >>
    [] m = "bceLoss" -> << BceBack(e, g, s[1]) >>
    [] m = "crossEntropyLoss" -> << CrossEntropyBack(e, g, s[1], s[2]) >>

Consts(f) == [i \in DOMAIN f |-> Const(f[i])]
Numbers(c) == Consts(c.num)
Tensors(c) == [q \in DOMAIN c.args |-> Consts(c.args[q])]

Init == call \in Calls /\ node = <<>> /\ seed = <<>> /\ deltas = <<>>

\* The method: output and entry.
Record == /\ node = <<>>
          /\ node' = <<Entry(call.m, call.size, Numbers(call), Tensors(call))>>
          /\ UNCHANGED <<call, seed, deltas>>

\* Autodiff.backward reaches the entry, with any gradient for its output.
Backward(k) == /\ node # <<>> /\ deltas = <<>>
               /\ seed' = [o \in DOMAIN node[1].out |-> (k * (o + 1) * (o + 1) + o) % Field]
               /\ deltas' = Back(call.m, call.size, Numbers(call), node[1], Consts(seed'))
               /\ UNCHANGED <<call, node>>

Next == Record \/ \E k \in Seeds : Backward(k)
Spec == Init /\ [][Next]_vars

-----------------------------------------------------------------------------
\* The arguments with one number of tensor q moving.
Moving(c, q, i) == [Tensors(c) EXCEPT ![q][i].d = 1]
Output(c, a) == Entry(c.m, c.size, Numbers(c), a).out

\* Every rule of backward (namespaces_autodiff.rs) is the derivative of what its
\* method computes: the gradient left for a number is the rate at which moving
\* that number alone moves the output, weighed by the output's gradient.
RuleIsDerivative ==
  \A q \in DOMAIN deltas : \A i \in DOMAIN deltas[q] :
    LET moved == Output(call, Moving(call, q, i))
    IN  deltas[q][i].v = Sigma(Cardinality(DOMAIN moved),
                               [o \in DOMAIN moved |-> [v |-> seed[o] * moved[o].d, d |-> 0]]).v
=============================================================================
