------------------------------- MODULE Values -------------------------------
(***************************************************************************)
(* The operators of evaluator/ops.rs on every kind of value, the two other *)
(* equalities of the evaluator (switch and match, indexOf and includes),   *)
(* truthiness, and the two ways a program asks for a type.  Numbers are    *)
(* counted in halves; an int is a word of WordBits, and a decimal holds    *)
(* whole numbers exactly up to 2 ^ Precision, as an f64 does to 2 ^ 53.    *)
(* The value of decimal arithmetic is left out, its errors are not; a text *)
(* is the sequence of what was concatenated.                               *)
(***************************************************************************)
EXTENDS Integers, Sequences, FiniteSets, SequencesExt

CONSTANTS WordBits,     \* 64 in the code
          Precision,    \* 53 in the code
          DecLimit,     \* the largest dec, in halves
          Repeats,      \* 10,000,000 in the code: the longest repetition
          Samples       \* the operands of a run

VARIABLES leftValue, rightValue,    \* two values of the program
          outcome                   \* what an operator, switch, includes or is answered
valuesVars == <<leftValue, rightValue, outcome>>

\* The powers of two of a word.
TwoTo[k \in 0..WordBits] == IF k = 0 THEN 1 ELSE 2 * TwoTo[k - 1]
WordLow == -TwoTo[WordBits - 1]
WordHigh == TwoTo[WordBits - 1] - 1
Fits(n) == n \in WordLow..WordHigh
Magnitude(n) == IF n < 0 THEN -n ELSE n

\* A value: its type, its number in halves, its text, and the methods its class has.
Value(t, n, s, ops) == [t |-> t, n |-> n, s |-> s, ops |-> ops]
Null == Value("null", 0, <<>>, {})
Integer(n) == Value("int", 2 * n, <<>>, {})
Bool(b) == Value("bool", IF b THEN 2 ELSE 0, <<>>, {})
Str(s) == Value("string", 0, s, {})
Atom(v) == <<v.t, v.n>>
Shown(v) == IF v.t = "string" THEN v.s ELSE <<Atom(v)>>
Answer(v) == [kind |-> "value", value |-> v]
Failure(kind) == [kind |-> kind, value |-> Null]
Called(method) == [kind |-> method, value |-> Null]
Truth(b) == Answer(Bool(b))

\* `as f64`: beyond the precision only even multiples remain.
AsDecimal(halves) ==
  LET step(n) == IF Magnitude(n) <= 2 ^ Precision THEN 1 ELSE 2
      n == halves \div 2
  IN  IF halves % 2 = 1 THEN halves
      ELSE IF n % step(n) = 0 THEN halves
      \* half to even
      ELSE 2 * (IF (n \div 2) % 2 = 0 THEN n - 1 ELSE n + 1)

\* The order and equality operators on numbers already of one type.
Compared(op, l, r) ==
  Truth(CASE op = "<" -> l < r [] op = ">" -> l > r [] op = "<=" -> l <= r
          [] op = ">=" -> l >= r [] op = "==" -> l = r [] op = "!=" -> l # r)
Comparisons == {"<", ">", "<=", ">=", "==", "!="}

-----------------------------------------------------------------------------
Checked(n) == IF Fits(n) THEN Answer(Integer(n)) ELSE Failure("Overflow")

\* checked_div and checked_rem truncate towards zero.
Quotient(l, r) == IF (l < 0) = (r < 0) THEN Magnitude(l) \div Magnitude(r) ELSE -(Magnitude(l) \div Magnitude(r))
Remainder(l, r) == IF l < 0 THEN -(Magnitude(l) % Magnitude(r)) ELSE Magnitude(l) % Magnitude(r)
\* checked_pow: by squaring in the code; a product that leaves the word is None.
Power(l, r) ==
  LET product[k \in 0..r] ==
        IF k = 0 THEN 1 ELSE IF ~Fits(product[k - 1]) THEN product[k - 1] ELSE product[k - 1] * l
  IN  product[r]
Bit(n, i) == (n \div TwoTo[i]) % 2
Bits == 0..(WordBits - 1)
FromBits(b) ==
  LET sum[i \in 0..WordBits] ==
        IF i = 0 THEN 0
        ELSE sum[i - 1] + (IF i = WordBits THEN -1 ELSE 1) * b[i - 1] * TwoTo[i - 1]
  IN  sum[WordBits]
Wrapped(n) == FromBits([i \in Bits |-> Bit(n, i)])

IntegerOp(op, l, r) ==
  CASE op = "+" -> Checked(l + r)
    [] op = "-" -> Checked(l - r)
    [] op = "*" -> Checked(l * r)
    [] op = "/" -> IF r = 0 THEN Failure("DivisionByZero") ELSE Checked(Quotient(l, r))
    [] op = "%" -> IF r = 0 THEN Failure("DivisionByZero")
                   ELSE IF l = WordLow /\ r = -1 THEN Failure("Overflow") ELSE Answer(Integer(Remainder(l, r)))
    [] op = "**" -> IF r < 0 THEN Answer(Value("decimal", 0, <<>>, {})) ELSE Checked(Power(l, r))
    [] op = "&" -> Answer(Integer(FromBits([i \in Bits |-> Bit(l, i) * Bit(r, i)])))
    [] op = "|" -> Answer(Integer(FromBits([i \in Bits |-> IF Bit(l, i) + Bit(r, i) = 0 THEN 0 ELSE 1])))
    [] op = "^" -> Answer(Integer(FromBits([i \in Bits |-> (Bit(l, i) + Bit(r, i)) % 2])))
    [] op = "<<" -> IF r \notin Bits THEN Failure("TypeError") ELSE Answer(Integer(Wrapped(l * TwoTo[r])))
    [] op = ">>" -> IF r \notin Bits THEN Failure("TypeError") ELSE Answer(Integer(l \div TwoTo[r]))
Arithmetic == {"+", "-", "*", "/", "%", "**"}
Bitwise == {"&", "|", "^", "<<", ">>"}

\* dec_binop: exact numbers, checked at DecLimit; what / % and ** give is left out.
Dec(n) == Value("dec", n, <<>>, {})
DecPower(l, r) ==
  LET product[k \in 0..r] ==
        IF k = 0 THEN 2 ELSE IF Magnitude(product[k - 1]) > DecLimit THEN product[k - 1]
        ELSE (product[k - 1] * l) \div 2
  IN  product[r]
DecBinop(op, l, r) ==
  LET checked(n) == IF Magnitude(n) <= DecLimit THEN Answer(Dec(n)) ELSE Failure("Overflow")
  IN  CASE op \in Comparisons -> Compared(op, l, r)
        [] op = "+" -> checked(l + r)
        [] op = "-" -> checked(l - r)
        [] op = "*" -> IF Magnitude(l * r) <= 2 * DecLimit THEN Answer(Dec((l * r) \div 2)) ELSE Failure("Overflow")
        [] op \in {"/", "%"} -> IF r = 0 THEN Failure("DivisionByZero") ELSE Answer(Dec(0))
        [] op = "**" -> IF r < 0 \/ r % 2 = 1 THEN Failure("TypeError")
                        ELSE IF Magnitude(DecPower(l, r \div 2)) > DecLimit THEN Failure("Overflow") ELSE Answer(Dec(0))
        [] OTHER -> Failure("TypeError")

\* decimal with decimal, and with an int taken `as f64`.
DecimalOp(op, l, r) ==
  CASE op \in Comparisons -> Compared(op, l, r)
    [] op \in Arithmetic -> IF op \in {"/", "%"} /\ r = 0 THEN Failure("DivisionByZero")
                            ELSE Answer(Value("decimal", 0, <<>>, {}))
    [] OTHER -> Failure("TypeError")

\* Texts in the order of their first difference.
Before(a, b) ==
  \E k \in 1..Len(b) : /\ \A i \in 1..(k - 1) : i \in DOMAIN a /\ a[i] = b[i]
                       /\ k \in DOMAIN a => a[k][2] < b[k][2]
TextOrder(op, a, b) ==
  Truth(CASE op = "<" -> Before(a, b) [] op = ">" -> Before(b, a)
          [] op = "<=" -> ~Before(b, a) [] op = ">=" -> ~Before(a, b))

\* A text and another scalar, either way round: equal types are two texts.
TextOp(op, l, r) ==
  CASE op \in {"==", "!="} -> Truth((l.t = r.t /\ l.s = r.s) = (op = "=="))
    [] op \in Comparisons \ {"==", "!="} ->
         IF l.t = r.t THEN TextOrder(op, l.s, r.s) ELSE Failure("TypeError")
    [] op = "+" -> Answer(Str(Shown(l) \o Shown(r)))
    [] op = "*" /\ l.t = "string" /\ r.t = "int" ->
         IF r.n < 0 THEN Failure("TypeError") ELSE IF r.n > 2 * Repeats THEN Failure("fatal")
         ELSE Answer(Str(FlattenSeq([k \in 1..(r.n \div 2) |-> l.s])))
    [] OTHER -> Failure("TypeError")

NullOp(op, l, r) ==
  CASE op \in {"==", "!="} -> Truth((l.t = r.t) = (op = "=="))
    [] op = "+" /\ "string" \in {l.t, r.t} -> Answer(Str(Shown(l) \o Shown(r)))
    [] OTHER -> Failure("TypeError")

\* operator_to_method_name; the last arm of eval_infix: what the class defines goes
\* before every rule of the language.
MethodName == [o \in {"+", "-", "*", "/", "%", "==", "!=", "<", "<=", ">", ">="} |->
  CASE o = "+" -> "op_add" [] o = "-" -> "op_sub" [] o = "*" -> "op_mul" [] o = "/" -> "op_div"
    [] o = "%" -> "op_mod" [] o = "==" -> "op_eq" [] o = "!=" -> "op_ne" [] o = "<" -> "op_lt"
    [] o = "<=" -> "op_le" [] o = ">" -> "op_gt" [] o = ">=" -> "op_ge"]
Overloaded(op, l, r) ==
  IF op = "+" /\ ((l.t = "string" /\ "op_str" \in r.ops) \/ (r.t = "string" /\ "op_str" \in l.ops)) THEN Called("op_str")
  ELSE IF op \in DOMAIN MethodName /\ MethodName[op] \in l.ops THEN Called(MethodName[op])
  ELSE IF op = "+" /\ {l.t, r.t} = {"string", "instance"} THEN Answer(Str(Shown(l) \o Shown(r)))
  ELSE CASE op = "==" -> Truth(FALSE)
         [] op = "!=" -> Truth(TRUE)
         [] OTHER -> Failure("TypeError")

\* eval_infix: a DateField is its number, then the first pair of types that fits.
Plain(v) == IF v.t = "DateField" THEN Value("int", v.n, <<>>, {}) ELSE v

\* The samples are values the program can hold: every int fits its word.
ASSUME ValuesAssumption ==
  /\ WordBits \in Nat \ {0} /\ {Precision, DecLimit, Repeats} \subseteq Nat
  /\ \A v \in Samples : Plain(v).t = "int" => Plain(v).n \in Int /\ Plain(v).n % 2 = 0 /\ Fits(Plain(v).n \div 2)

Scalars == {"int", "decimal", "dec", "bool"}
EvalInfix(op, a, b) ==
  LET l == Plain(a)
      r == Plain(b)
      types == {l.t, r.t}
  IN  CASE types = {"DateTime"} -> IF op \in Comparisons THEN Compared(op, l.n, r.n) ELSE Failure("TypeError")
        [] "null" \in types -> NullOp(op, l, r)
        [] types = {"int"} -> IF op \in Comparisons THEN Compared(op, l.n, r.n)
                              ELSE IntegerOp(op, l.n \div 2, r.n \div 2)
        [] types \in {{"dec"}, {"dec", "int"}} -> DecBinop(op, l.n, r.n)
        [] types = {"dec", "decimal"} -> Failure("TypeError")
        [] types \in {{"decimal"}, {"decimal", "int"}} -> DecimalOp(op, AsDecimal(l.n), AsDecimal(r.n))
        [] "string" \in types /\ types \subseteq Scalars \cup {"string", "DateTime"} -> TextOp(op, l, r)
        [] types = {"bool"} -> IF op \in {"==", "!="} THEN Compared(op, l.n, r.n) ELSE Failure("TypeError")
        [] types = {"variant"} -> IF op \in {"==", "!="} THEN Compared(op, l.n, r.n) ELSE Failure("TypeError")
        [] OTHER -> Overloaded(op, l, r)

\* is_truthy: what && || ! ?: and guards go by; a container's number is its length.
IsTruthy(v) ==
  CASE v.t \in {"bool", "int", "decimal", "array", "dict", "Set"} -> v.n # 0
    [] v.t = "string" -> v.s # <<>>
    [] OTHER -> v.t # "null"

EvalPrefix(op, v) ==
  CASE op = "-" /\ v.t = "int" -> Checked(-(v.n \div 2))
    [] op = "-" /\ v.t \in {"decimal", "dec"} -> Answer([v EXCEPT !.n = -v.n])
    [] op = "-" /\ v.t \notin {"int", "decimal", "dec"} /\ "op_neg" \in v.ops -> Called("op_neg")
    [] op = "!" -> IF "op_not" \in v.ops THEN Called("op_not") ELSE Truth(~IsTruthy(v))
    [] op = "~" /\ v.t = "int" -> Answer(Integer(-(v.n \div 2) - 1))
    [] OTHER -> Failure("TypeError")

\* values_equal: the equality of switch and of a match's literals.
ValuesEqualOneType(a, b) == Plain(a).t = Plain(b).t /\ Plain(a).n = Plain(b).n /\ Plain(a).s = Plain(b).s
ValuesEqual(a, b) ==
  LET l == Plain(a)
      r == Plain(b)
      types == {l.t, r.t}
  IN  CASE types \in {{"int"}, {"DateTime"}, {"dec"}, {"dec", "int"}, {"bool"}, {"variant"}} -> l.n = r.n
        [] types \in {{"decimal"}, {"decimal", "int"}} -> AsDecimal(l.n) = AsDecimal(r.n)
        [] types = {"string"} -> l.s = r.s
        [] OTHER -> types = {"null"}

\* obj_data_eq: the equality of indexOf, includes and of sets.  An array's
\* elements reach it through owned_to_obj_data, where a variant is null.
ObjDataEq(a, b) ==
  a.t = b.t /\ a.t \in {"int", "decimal", "dec", "bool", "string", "null"} /\ a.n = b.n /\ a.s = b.s
OwnedToObjData(v) == IF v.t \in {"function", "variant", "ptr"} THEN Null ELSE v

\* type_name and type_of; type_matches for `is`, parameters, fields and elements.
TypeName(v) == IF v.t = "DateField" THEN "int" ELSE IF v.t = "instance" THEN "C" ELSE IF v.t = "variant" THEN "P" ELSE v.t
TypeMatches(name, v) ==
  CASE name = "any" -> TRUE
    [] name \in {"int", "decimal", "dec", "string", "bool", "null", "dict", "array", "function", "DateTime"} ->
         v.t = name \/ (name = "int" /\ v.t = "DateField")
    [] name = "void" -> v.t = "null"
    [] OTHER -> v.t \in {"instance", "variant"} /\ name = TypeName(v)
\* `T?` and `[T]`.
ParameterAccepts(type, v) ==
  \/ type.nullable /\ v.t = "null"
  \/ IF type.list THEN v.t = "array" ELSE TypeMatches(type.name, v)

-----------------------------------------------------------------------------
Idle == [of |-> "nothing", op |-> "none", answer |-> Failure("nothing")]
ValuesInit == leftValue \in Samples /\ rightValue \in Samples /\ outcome = Idle
Say(of, op, answer) ==
  /\ outcome = Idle /\ outcome' = [of |-> of, op |-> op, answer |-> answer]
  /\ UNCHANGED <<leftValue, rightValue>>

Infix == \E op \in Comparisons \cup Arithmetic \cup Bitwise : Say("infix", op, EvalInfix(op, leftValue, rightValue))
Prefix == \E op \in {"-", "!", "~"} : Say("prefix", op, EvalPrefix(op, leftValue))
\* The short circuits give one of their operands.
ShortCircuit == \E op \in {"&&", "||", "??"} :
  Say("logic", op, Answer(CASE op = "&&" -> IF IsTruthy(leftValue) THEN rightValue ELSE leftValue
                            [] op = "||" -> IF IsTruthy(leftValue) THEN leftValue ELSE rightValue
                            [] op = "??" -> IF leftValue.t = "null" THEN rightValue ELSE leftValue))
Switch == Say("switch", "==", Truth(ValuesEqual(leftValue, rightValue)))
\* match with an or-pattern before a binding: the first that fits is taken.
Match == \E literals \in {<<rightValue>>, <<Null, rightValue>>} :
  Say("match", "==", Truth(\E k \in DOMAIN literals : ValuesEqual(leftValue, literals[k])))
\* [left].includes(right)
Includes == Say("includes", "==", Truth(ObjDataEq(OwnedToObjData(leftValue), rightValue)))
Is == \E name \in {TypeName(v) : v \in Samples} \cup {"any", "void"} : Say("is", name, Truth(TypeMatches(name, leftValue)))
Pass == \E name \in {TypeName(v) : v \in Samples}, nullable, list \in BOOLEAN :
  Say("pass", name, Truth(ParameterAccepts([name |-> name, nullable |-> nullable, list |-> list], leftValue)))

ValuesNext == Infix \/ Prefix \/ ShortCircuit \/ Switch \/ Match \/ Includes \/ Is \/ Pass
ValuesSpec == ValuesInit /\ [][ValuesNext]_valuesVars

-----------------------------------------------------------------------------
Equal(a, b) == EvalInfix("==", a, b)
Yes(answer) == answer = Truth(TRUE)
Mixes(a, b) == {Plain(a).t, Plain(b).t} = {"dec", "decimal"}

\* == is one relation: symmetric, the negation of !=, what switch and match go by,
\* and never less than what includes finds, unless a class defines its own; a dec
\* with a decimal is the one pair it refuses (control.rs:133 `same coercion that ==
\* uses in infix expressions`).
OneEquality(a, b, said) ==
  a.ops = {} /\ b.ops = {} /\ ~Mixes(a, b) =>
    /\ said.of = "infix" /\ said.op = "==" => said.answer = Equal(b, a)
    /\ said.of = "infix" /\ said.op = "!=" => (Yes(said.answer) <=> ~Yes(Equal(a, b)))
    /\ said.of = "switch" => (Yes(said.answer) <=> Yes(Equal(a, b)))
    /\ said.of = "match" => (Yes(Equal(a, b)) => Yes(said.answer))
    /\ said.of = "includes" /\ a.t \notin {"function", "variant", "ptr"} => (Yes(said.answer) => Yes(Equal(a, b)))
EqualityIsOne == OneEquality(leftValue, rightValue, outcome)

\* An int operation is exact or an error, never the low bits of something else, and
\* division takes back what multiplication made; of two ints exactly one order holds
\* (operators.md:64 `Integer overflow is detected, not wrapped`).
Exact(l, r, op, said) ==
  LET got == said.value.n \div 2
      exact == CASE op = "+" -> l + r [] op = "-" -> l - r [] op = "*" -> l * r
  IN  /\ op \in {"+", "-", "*"} => IF Fits(exact) THEN got = exact ELSE said.kind = "Overflow"
      /\ op = "%" /\ said.kind = "value" =>
           Magnitude(got) < Magnitude(r) /\ (l - got) % Magnitude(r) = 0 /\ got * l >= 0
      /\ op = "/" /\ said.kind = "value" => Magnitude(l - got * r) < Magnitude(r)
      /\ op = ">>" /\ said.kind = "value" => got * TwoTo[r] <= l /\ l < (got + 1) * TwoTo[r]
      /\ op = "^" => said = IntegerOp("-", IntegerOp("|", l, r).value.n \div 2, IntegerOp("&", l, r).value.n \div 2)
      /\ said.kind = "value" /\ said.value.t = "int" => Fits(got)
IntegersNeverWrap ==
  Plain(leftValue).t = "int" /\ Plain(rightValue).t = "int" /\ outcome.of = "infix" =>
    Exact(Plain(leftValue).n \div 2, Plain(rightValue).n \div 2, outcome.op, outcome.answer)

\* ==, switch, match, includes and the two operators agree on equality, and
\* integer arithmetic is exact or fails: it never wraps.
OperatorsAgree == EqualityIsOne /\ IntegersNeverWrap

\* types.md:181 `type_of(x) returns a string; x is T returns a boolean. They agree.`
TypesAgree ==
  outcome.of = "is" /\ outcome.op = TypeName(leftValue) => Yes(outcome.answer)
=============================================================================
