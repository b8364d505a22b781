------------------------------- MODULE Parser -------------------------------
(***************************************************************************)
(* Reading a program: somebody writes one, wrapping a form of the language *)
(* in another, perhaps with a token wrong, and the parser walks the        *)
(* grammar over its tokens, one top-level statement at a time.             *)
(***************************************************************************)
EXTENDS Grammar, FiniteSets

CONSTANTS MaxWraps,          \* forms wrapped around an atom
          MaxTokens,         \* of a form that is wrapped in another
          MaxSlipped,        \* forms wrapped around an atom in a statement with a wrong token
          MaxParseDepth      \* the ceiling on the depth of the tree

VARIABLES form,             \* [cat, level, text, tree, wraps]: the statement being written
          slip,              \* the position of the wrong token, 0 when none is
          input, cursor,     \* the tokens and the current one
          program, reported  \* the statements read and the errors reported
vars == <<form, slip, input, cursor, program, reported>>

-----------------------------------------------------------------------------
\* The parser: what it is at, and what the function under way has pushed.

Start(toks, pos) == [toks |-> toks, at |-> pos, ok |-> TRUE, turn |-> "on", deep |-> 0, said |-> 0, out |-> <<>>]
TokenAt(toks, i) == IF i <= Len(toks) THEN toks[i] ELSE Eof
Current(s) == TokenAt(s.toks, s.at)
Peek(s) == TokenAt(s.toks, s.at + 1)
next_token(s) == [s EXCEPT !.at = @ + 1]
parser_error(s) == [s EXCEPT !.ok = FALSE, !.said = @ + 1]
Silent(s) == [s EXCEPT !.ok = FALSE]
Push(s, trees) == [s EXCEPT !.out = @ \o trees]
Fresh(s) == [s EXCEPT !.out = <<>>]
TooDeep(s) == s.deep + 1 > MaxParseDepth
charge_depth(s) == [s EXCEPT !.deep = @ + 1]

Node(tag, kids) == <<tag>> \o kids
Binary(op, left, right) == <<"infix", <<op>>, left, right>>
\* A field written to loses its question mark and its empty parentheses.
Target(t) == IF Kind(t) = "field" THEN <<"dot", <<".">>, t[3], t[4]>> ELSE t
Stepping(p, op) == <<"assign", Target(p), Binary(IF op = "++" THEN "+" ELSE "-", Target(p), <<"1">>)>>
Made(how, out) ==
  CASE how = "assign" -> <<<<"assign", Target(out[1]), out[2]>>>>
    [] how = "compound" -> <<<<"assign", Target(out[1]), Binary(compound_op(out[2][1]), Target(out[1]), out[3])>>>>
    [] how = "step" -> <<Stepping(out[1], out[2][1])>>
    [] how = "prestep" -> <<Stepping(out[2], out[1][1])>>
    [] how = "lambda" -> <<<<"lambda", <<"params", out[1]>>, out[2]>>>>
    [] how = "infix" -> <<Binary(out[2][1], out[1], out[3])>>
    [] how = "is" -> <<Binary("is", out[1], out[2])>>
    [] how = "pipe" -> <<<<"call", out[2], <<"args", out[1]>>>>>>
    [] how = "dot" -> IF out[1] \in {<<".">>, <<"?.">>} THEN <<>>
                      ELSE <<Node("dot", <<out[2], out[1]>> \o SubSeq(out, 3, Len(out)))>>
    [] OTHER -> <<Node(how, out)>>          \* run, call, index, ternary

HasDefault(param) == param[Len(param)][1] = "default"
IsConstructor(member, class) ==
  \E i \in 2..Len(member) : /\ member[i] = <<"named", class>>
                            /\ \A j \in 2..(i - 1) : member[j] \notin {<<"get">>, <<"set">>}
Holds(what, out) ==
  CASE what = "array" -> out[Len(out)][1] = "array"
    [] what = "handled" -> Len(out) > 1
    [] what = "defaults" -> LET last == out[Len(out)]
                            IN HasDefault(last) \/ Kind(last) = "rest" \/ ~\E i \in DOMAIN out : HasDefault(out[i])
    [] what = "constructor" -> Cardinality({i \in DOMAIN out : out[i][1] = "member" /\ IsConstructor(out[i], out[3])}) <= 1
ArmOf(table, kind) == IF kind \in DOMAIN table THEN table[kind] ELSE table.other

\* What a function hands back to its caller, which gets its depth back.
HandedBack(s, r, trees) == [r EXCEPT !.out = IF r.ok THEN s.out \o trees ELSE s.out, !.deep = s.deep]
Gathered(tag, s, r) == HandedBack(s, r, IF tag = "" THEN r.out ELSE <<Node(tag, r.out)>>)
Expressed(s, r) == HandedBack(s, [r EXCEPT !.ok = @ /\ r.out /= <<>>], r.out)
Recovered(s, r, otherwise) == [r EXCEPT !.ok = TRUE, !.out = s.out \o (IF r.ok THEN r.out ELSE otherwise)]
Embedded(s, r) == IF r.ok THEN Push(s, <<Node("text", r.out)>>) ELSE parser_error(s)
Source(string) == CASE string = "'{a}'" -> <<"a">> [] string = "'{a + b}'" -> <<"a", "+", "b">> [] OTHER -> <<"+">>

RECURSIVE Run(_, _), Do(_, _), Looped(_, _), Links(_, _), Linked(_, _)
Run(steps, s) == IF steps = <<>> \/ ~s.ok THEN s ELSE Run(Tail(steps), Do(Head(steps), s))
Looped(steps, r) == IF r.ok /\ r.turn = "again" THEN Looped(steps, Run(steps, [r EXCEPT !.turn = "on"])) ELSE r
\* Every operator of a chain takes a level, kept until the chain ends.
Links(level, s) ==
  IF ~s.ok \/ level >= token_precedence(Peek(s)) THEN s
  ELSE IF TooDeep(s) THEN parser_error(s)
  ELSE Linked(level, Run(parse_infix_chain(Peek(s)), charge_depth(next_token(s))))
Linked(level, r) == IF r.turn = "stop" THEN [r EXCEPT !.turn = "on"] ELSE Links(level, r)
Do(step, s) ==
  LET kind == step[1]
      choice == CASE kind = "peeked" -> IF Peek(s) \in step[2] THEN step[3] ELSE step[4]
                  [] kind = "here" -> IF Current(s) \in step[2] THEN step[3] ELSE step[4]
                  [] kind = "hasleft" -> IF s.out /= <<>> THEN step[2] ELSE step[3]
                  [] kind = "marked" -> IF s.out /= <<>> /\ s.out[1] = step[2] THEN step[3] ELSE step[4]
                  [] kind = "bykind" -> ArmOf(step[2], Kind(s.out[Len(s.out)]))
                  [] kind = "elseif" -> <<parse_if_expression>>
                  [] OTHER -> <<>>
  IN CASE kind = "next" -> next_token(s)
       [] kind = "want" -> IF Peek(s) \in step[2] THEN next_token(s) ELSE parser_error(s)
       [] kind = "need" -> IF Peek(s) \in step[2] THEN next_token(s) ELSE Silent(s)
       [] kind = "at" -> IF Current(s) \in step[2] THEN s ELSE parser_error(s)
       [] kind = "is" -> IF Current(s) \in step[2] THEN s ELSE Silent(s)
       [] kind = "check" -> IF Holds(step[2], s.out) THEN s ELSE parser_error(s)
       [] kind = "keep" -> Push(s, <<<<Current(s)>>>>)
       [] kind = "put" -> Push(s, <<step[2]>>)
       [] kind = "make" -> [s EXCEPT !.out = Made(step[2], @)]
       [] kind = "turn" -> [s EXCEPT !.turn = step[2], !.said = IF step[2] = "stop" THEN @ + 1 ELSE @]
       [] kind = "loop" -> Looped(step[2], Run(step[2], s))
       [] kind = "group" -> Gathered(step[2], s, Run(step[3], Fresh(s)))
       [] kind = "try" -> Recovered(s, Run(step[2], Fresh(s)), step[3])
       [] kind \in {"expr", "stmt"} /\ TooDeep(s) -> parser_error(s)
       [] kind = "expr" -> Expressed(s, Links(step[2], Run(PrefixOf(Current(s), Peek(s)), charge_depth(Fresh(s)))))
       [] kind = "stmt" -> Gathered("", s, Run(parse_statement(Current(s), Peek(s)), charge_depth(Fresh(s))))
       [] kind = "chain" -> Expressed(Fresh(s), Links(Lowest, s))
       [] kind = "pieces" ->
            CASE Current(s) = "'s'" -> Push(s, <<<<"'s'">>>>)
              [] Current(s) = "'{'" -> parser_error(s)
              [] OTHER -> Embedded(s, Run(<<Value>>, Start(Source(Current(s)), 1)))
       [] OTHER -> Run(choice, s)

\* mutant: the end of a statement is no landmark
LandmarksStarting == {"let", "return", "out", "fn", "while", "for", "class", "try", "do", Eof}

\* After an error: where a statement can start or has just ended.
Landmarks == {";", "}", "let", "return", "out", "fn", "while", "for", "class", "interface", "public", "private", "break",
              "continue", "switch", "try", "throw", "const", "enum", "abstract", "sealed", "do", Eof}
synchronize(toks, pos) ==
  CHOOSE i \in pos..(pos + Len(toks) + 1) : /\ TokenAt(toks, i) \in Landmarks
                                            /\ \A j \in pos..(i - 1) : TokenAt(toks, j) \notin Landmarks

-----------------------------------------------------------------------------
\* The language, as its reference manual has it: what is written for a tree.

\* The operators from the loosest; the members of a level group from the left.
Levels == <<{"|>"}, {"?"}, {"??"}, {"||"}, {"&&"}, {"|"}, {"^"}, {"&"}, {"==", "!="}, {"<", ">", "<=", ">=", "is"},
            {"<<", ">>"}, {"+", "-"}, {"*", "/", "%"}, {"**"}, {"!"}, {"."}, {"["}, {"a"}>>
LevelOf(op) == CHOOSE i \in DOMAIN Levels : op \in Levels[i]
BinaryOps == UNION {Levels[i] : i \in 3..14} \ {"is"}
Atomic == 18

Written(cat, level, text, tree) == [cat |-> cat, level |-> level, text |-> text, tree |-> tree, wraps |-> 0, refused |-> "no"]
Form(text, tree) == Written("expression", Atomic, text, tree)
Open(text, tree) == Written("expression", 0, text, tree)          \* ends with an operand as loose as can be
Statement(text, tree) == Written("statement", 0, text, tree)
In(x, level) == IF x.level < level THEN <<"(">> \o x.text \o <<")">> ELSE x.text
A == <<"a">>
B == <<"b">>
Refused(x, how) == [x EXCEPT !.refused = how]                     \* "yes", "maybe" or "no"
Ending(x) == x.text[Len(x.text)]
One == <<"1">>
Blk(trees) == <<"block">> \o trees
Let(tree) == <<"let", <<"let">>, A, tree>>
Param(name) == <<"params", <<"param", name>>>>

Atoms ==
  {Form(A, A), Form(One, One), Form(<<"'{a + b}'">>, <<"text", Binary("+", A, B)>>),
   Form(<<"null">>, <<"null">>), Form(<<"[", "]">>, <<"array">>), Form(<<"sizeof", "(", "int", ")">>, <<"sizeof", <<"int">>>>),
   Form(<<"new", "T", "(", ")">>, <<"new", <<"T">>, <<"args">>>>),
   Form(<<"fn", "int", "(", "[", "int", "]", "a", ")", "{", "}">>,
        <<"fn", <<"int">>, <<"params", <<"param", <<"arrayType", <<"type", <<"int">>>>>>, A>>>>, Blk(<<>>)>>),
   Form(<<"int", "?", "(", "T", "?", "a", ",", "...", "b", ")", "=>", "{", "}">>,
        <<"fn", <<"type", <<"int">>, <<"?">>>>,
          <<"params", <<"param", <<"type", <<"T">>, <<"?">>>>, A>>, <<"param", <<"...">>, B>>>>, Blk(<<>>)>>),
   Statement(<<"return", ";">>, <<"return">>), Statement(<<"break", "a", ";">>, <<"break", A>>),
   Statement(<<"continue", ";">>, <<"continue">>), Statement(<<"import", "'s'", ";">>, <<"import", <<"'s'">>>>),
   Statement(<<"a", "++", ";">>, <<"assign", A, Binary("+", A, One)>>),
   Statement(<<"--", "a", ";">>, <<"assign", A, Binary("-", A, One)>>),
   Statement(<<"use", "permissions", "{", "a", ".", "b", ",", "T", "}", ";">>,
             <<"use", <<"permission", A, B>>, <<"permission", <<"T">>>>>>),
   Statement(<<"enum", "T", "{", "a", ",", "b", ",", "}">>, <<"enum", <<"T">>, A, B>>),
   Statement(<<"private", "interface", "T", "{", "a", ":", "int", "?", ";", "b", ":", "[", "T", "]", "}">>,
             <<"interface", <<"private">>, <<"T">>, A, <<"type", <<"int">>, <<"?">>>>, B, <<"arrayType", <<"T">>>>>>),
   Statement(<<"native", "fn", "int", "a", "(", "b", ")", ";">>,
             <<"native", <<"type", <<"int">>>>, A, Param(B)>>),
   Statement(<<"sealed", "class", "T", ":", "a", "{", "}">>,
             <<"class", <<"public">>, <<"sealed">>, <<"T">>, <<"parent", A>>>>)}

BinaryForms(x) ==
  UNION {LET level == LevelOf(op)
             right == op = "**"
         IN {Written("expression", level, In(x, IF right THEN level + 1 ELSE level) \o <<op, "b">>, Binary(op, x.tree, B)),
             Written("expression", level, <<"b", op>> \o In(x, IF right THEN level ELSE level + 1), Binary(op, B, x.tree))}
         : op \in BinaryOps}
Piped(x) == LET level == LevelOf("|>")
            IN {Written("expression", level, In(x, level) \o <<"|>", "b">>, <<"call", B, <<"args", x.tree>>>>),
                Written("expression", level, <<"b", "|>">> \o In(x, level + 1), <<"call", x.tree, <<"args", B>>>>)}
Suffixed(x) ==
  LET call == In(x, LevelOf("."))
      method == x.tree[1] = "dot" /\ Len(x.tree) = 4 /\ call = x.text
  IN {Written("expression", LevelOf("."), call \o <<"(", "1", ")">>,
              IF method THEN Append(x.tree, <<"args", One>>) ELSE <<"call", x.tree, <<"args", One>>>>),
      Written("expression", LevelOf("."), call \o <<".", "out">>, <<"dot", <<".">>, x.tree, <<"out">>>>),
      Written("expression", LevelOf("."), call \o <<"?.", "b", "(", "...", "a", ")">>,
              <<"dot", <<"?.">>, x.tree, B, <<"args", <<"spread", A>>>>>>),
      Written("expression", LevelOf("."), call \o <<"[", "0", "]">>, <<"index", x.tree, <<"0">>>>),
      Written("expression", LevelOf("<"), In(x, LevelOf("<")) \o <<"is", "int">>, Binary("is", x.tree, <<"int">>))}
Unary(x) == {Written("expression", LevelOf("!"), <<p[1]>> \o In(x, LevelOf("!")), p[2]) :
                 p \in {<<"!", <<"prefix", <<"!">>, x.tree>>>>, <<"-", <<"prefix", <<"-">>, x.tree>>>>,
                        <<"&", <<"addressof", x.tree>>>>, <<"*", <<"deref", x.tree>>>>}}
Enclosing(x) ==
  LET body == IF x.text[1] = "{" THEN <<"(">> \o x.text \o <<")">> ELSE x.text
  IN
  {Form(<<"a", "(">> \o x.text \o <<")">>, <<"call", A, <<"args", x.tree>>>>),
   Form(<<"b", "[">> \o x.text \o <<"]">>, <<"index", B, x.tree>>),
   Form(<<"[", "1", ",">> \o x.text \o <<"]">>, <<"array", One, x.tree>>),
   Form(<<"{", "1", ",">> \o x.text \o <<"}">>, <<"entry", One, x.tree>>),
   Form(<<"{">> \o In(x, 1) \o <<",", "1", "}">>, <<"entry", x.tree, One>>),
   Form(<<"{", "a", ":">> \o x.text \o <<",", "}">>, <<"patch", A, x.tree>>),
   Form(<<"new", "T", "(", "{", "a", ":">> \o x.text \o <<"}", ")">>, <<"new", <<"T">>, <<"fields", A, x.tree>>>>),
   Refused(Form(<<"match", "a", "{", "T", ".", "b", "|", "-", "1", "if">> \o x.text \o <<"=>", "0", ",", "_", "=>", "{", "}", "}">>,
             <<"match", A, <<"arm", <<"pattern", <<"variant", <<"T">>, B>>, <<"minus", One>>>>, <<"guard", x.tree>>, <<"0">>>>,
                           <<"arm", <<"pattern", <<"_">>>>, Blk(<<>>)>>>>),
        IF Ending(x) \in Idents \cup {")"} THEN "maybe" ELSE "no"),   \* a name before `=>' starts a lambda
   Form(<<"match">> \o x.text \o <<"{", "1", "=>", "a", "}">>, <<"match", x.tree, <<"arm", <<"pattern", One>>, A>>>>),
   Open(<<"a", "=>">> \o body, <<"lambda", <<"params", A>>, x.tree>>),
   Open(<<"(", "a", ",", "b", ")", "=>">> \o body, <<"lambda", <<"params", A, B>>, x.tree>>),
   Open(In(x, LevelOf("?") + 1) \o <<"?", "a", ":", "b">>, <<"ternary", x.tree, A, B>>),
   Open(<<"a", "?">> \o x.text \o <<":", "b">>, <<"ternary", A, x.tree, B>>),
   Open(<<"a", "?", "b", ":">> \o x.text, <<"ternary", A, B, x.tree>>)}
ExpressionForms(x) == BinaryForms(x) \cup Piped(x) \cup Suffixed(x) \cup Unary(x) \cup Enclosing(x)

\* Every place with every way to write to it.
Field(object) == <<"dot", <<".">>, object, B>>
Places == {[text |-> A, tree |-> A], [text |-> <<"a", ".", "b">>, tree |-> Field(A)],
           [text |-> <<"a", ".", "T", ".", "b">>, tree |-> Field(<<"dot", <<".">>, A, <<"T">>>>)],
           [text |-> <<"a", "[", "0", "]">>, tree |-> <<"index", A, <<"0">>>>],
           [text |-> <<"a", ".", "b", "[", "0", "]">>, tree |-> <<"index", Field(A), <<"0">>>>],
           [text |-> <<"a", "[", "0", "]", ".", "b">>, tree |-> Field(<<"index", A, <<"0">>>>)]}
\* An indexed element's field takes no compound assignment.
Compoundable == {p \in Places : ~(p.tree[1] = "dot" /\ p.tree[3][1] = "index")}
Assignments(x) ==
  {Statement(p.text \o <<"=">> \o x.text \o <<";">>, <<"assign", p.tree, x.tree>>) : p \in Places}
  \cup {Statement(p.text \o <<"-=">> \o x.text \o <<";">>, <<"assign", p.tree, Binary("-", p.tree, x.tree)>>) : p \in Compoundable}
  \cup {Statement(<<"*">> \o In(x, LevelOf("!")) \o <<"=", "1", ";">>, <<"assign", <<"deref", x.tree>>, One>>),
        Statement(<<"a", "[">> \o x.text \o <<"]", "++", ";">>,
                  <<"assign", <<"index", A, x.tree>>, Binary("+", <<"index", A, x.tree>>, One)>>)}
Declarations(x) ==
  {Statement(<<"let", "a", "=">> \o x.text \o <<";">>, Let(x.tree)),
   Statement(<<"const", "[", "a", ",", "...", "b", "]", "=">> \o x.text \o <<";">>,
             <<"let", <<"const">>, <<"slots", A, <<"rest", B>>>>, x.tree>>),
   Statement(<<"let", "{", "a", ":", "b", "}", "=">> \o x.text \o <<";">>, <<"let", <<"let">>, <<"keys", <<"key", A, B>>>>, x.tree>>),
   Statement(<<"let", "a", "[", "int", "]", "=", "[">> \o x.text \o <<"]", ";">>,
             <<"let", <<"let">>, A, <<"arrayType", <<"type", <<"int">>>>>>, <<"array", x.tree>>>>),
   Statement(<<"let", "a", "<", "int", ",", "any", ">", "=", "(", "{", "0", ",">> \o x.text \o <<"}", ")", ";">>,
             <<"let", <<"let">>, A, <<"types", <<"int">>, <<"any">>>>, <<"dict", <<"0">>, x.tree>>>>),
   Statement(<<"fn", "T", "a", "(", "b", "=">> \o x.text \o <<")", "{", "}">>,
             <<"fn", <<"type", <<"T">>>>, A, <<"params", <<"param", B, <<"default", x.tree>>>>>>, Blk(<<>>)>>),
   Statement(<<"class", "T", "{", "a", ":", "int", "=">> \o x.text \o <<";", "}">>,
             <<"class", <<"public">>, <<"plain">>, <<"T">>, <<"member", A, <<"type", <<"int">>>>, x.tree>>>>)}
Uses(x) ==
  {Statement(<<c>> \o x.text \o <<";">>, <<c, x.tree>>) : c \in {"out", "throw", "return", "yield"}}
  \cup {Statement(<<"while", "(">> \o x.text \o <<")", "{", "}">>, <<"while", x.tree, Blk(<<>>)>>),
        Statement(<<"do", "{", "}", "while", "(">> \o x.text \o <<")", ";">>, <<"dowhile", Blk(<<>>), x.tree>>),
        Statement(<<"for", "(", "let", "[", "a", "]", "in">> \o x.text \o <<")", "{", "}">>,
                  <<"for", <<"slots", A>>, x.tree, Blk(<<>>)>>),
        Statement(<<"for", "(", "let", "a", "=", "0", ";">> \o x.text \o <<";", "a", "+=", "1", ")", "{", "}">>,
                  <<"for", A, <<"0">>, x.tree, <<"assign", A, Binary("+", A, One)>>, Blk(<<>>)>>),
        Statement(<<"switch", "(", "a", ")", "{", "case", "1", ",">> \o x.text \o <<":", "{", "}", "default", ":", "{", "}", "}">>,
                  <<"switch", A, <<"case", One, x.tree, Blk(<<>>)>>, <<"default", Blk(<<>>)>>>>)}
  \cup (IF x.text[1] \in {"{", "fn", "unsafe"} THEN {} ELSE {Statement(x.text \o <<";">>, <<"run", x.tree>>)})
StatementForms(y) ==
  LET block == <<"{">> \o y.text \o <<"}">>
      tree == Blk(<<y.tree>>)
      \* A bare return leaves its semicolon to the block, and these take none.
      inner == IF SubSeq(y.text, Len(y.text) - 1, Len(y.text)) = <<"return", ";">> THEN "yes" ELSE "no"
  IN {Statement(block, tree), Statement(<<"unsafe">> \o block, <<"unsafe", y.tree>>),
      Statement(<<"export">> \o y.text, <<"export", y.tree>>),
      Statement(<<"a", ":", "while", "(", "b", ")">> \o block, <<"label", A, <<"while", B, tree>>>>),
      Statement(<<"for", "(", "let", "a", "in", "b", ")">> \o block, <<"for", A, B, tree>>),
      Refused(Statement(<<"try">> \o block \o <<"catch", "(", "a", ")", "{", "}">>, <<"try", tree, <<"catch", A, Blk(<<>>)>>>>), inner),
      Refused(Statement(<<"try", "{", "}", "finally">> \o block, <<"try", Blk(<<>>), <<"finally", tree>>>>), inner),
      Statement(<<"fn", "*", "a", "(", "b", ")">> \o block, <<"fn", <<"*">>, <<"type", A>>, Param(B), tree>>),
      Statement(<<"class", "T", "{", "public", "T", "(", ")">> \o block \o <<"private", "static", "int", "b", "(", ")", "{", "}", "}">>,
                <<"class", <<"public">>, <<"plain">>, <<"T">>,
                  <<"member", <<"public">>, <<"named", <<"T">>>>, <<"params">>, tree>>,
                  <<"member", <<"private">>, <<"static">>, <<"type", <<"int">>>>, <<"named", B>>, <<"params">>, Blk(<<>>)>>>>),
      Form(<<"(", ")", "=>">> \o block, <<"lambda", <<"params">>, tree>>),
      Form(<<"if", "(", "a", ")">> \o block \o <<"else", "if", "(", "b", ")", "{", "}", "else">> \o block,
           <<"if", A, tree, <<"if", B, Blk(<<>>), tree>>>>),
      Form(<<"unsafe">> \o block, <<"unsafe", y.tree>>)}
Around(x) == IF x.cat = "statement" THEN StatementForms(x)
             ELSE ExpressionForms(x) \cup Assignments(x) \cup Declarations(x) \cup Uses(x)

-----------------------------------------------------------------------------
\* Writing and reading.

\* A chain of n operators: with its statement, itself and its last operand it
\* has three levels more.
Longer(x, n) ==
  LET chain[i \in 0..n] ==
        IF i = 0 THEN [text |-> In(x, LevelOf("+")), tree |-> x.tree]
        ELSE [text |-> chain[i - 1].text \o <<"+", "b">>, tree |-> Binary("+", chain[i - 1].tree, B)]
  IN Refused(Written("expression", LevelOf("+"), chain[n].text, chain[n].tree), IF n + 3 > MaxParseDepth THEN "yes" ELSE "no")
Worse(how, other) == IF "yes" \in {how, other} THEN "yes" ELSE IF "maybe" \in {how, other} THEN "maybe" ELSE "no"
Whole(d) == IF d.cat = "statement" THEN d ELSE Statement(<<"out">> \o d.text \o <<";">>, <<"out", d.tree>>)
Before == Statement(<<"let", "b", "=", "0", ";">>, <<"let", <<"let">>, B, <<"0">>>>)
After == Statement(<<"let", "T", "=", "1", ";">>, <<"let", <<"let">>, <<"T">>, One>>)

Init == form \in Atoms /\ slip = 0 /\ input = <<>> /\ cursor = 0 /\ program = <<>> /\ reported = 0

Wrap == /\ cursor = 0 /\ form.wraps < MaxWraps /\ Len(form.text) <= MaxTokens
        /\ \E x \in Around(form) : form' = [x EXCEPT !.wraps = form.wraps + 1, !.refused = Worse(@, form.refused)]
        /\ UNCHANGED <<slip, input, cursor, program, reported>>
Lengthen == /\ cursor = 0 /\ form.wraps = 0 /\ form.cat = "expression"
            /\ \E n \in (MaxParseDepth - 3)..MaxParseDepth :
                 form' = [Longer(form, n) EXCEPT !.wraps = 1]
            /\ UNCHANGED <<slip, input, cursor, program, reported>>

\* The file is saved with its neighbours, as meant or with a token left out or
\* unreadable.
Save(text, missing) == /\ cursor = 0
                       /\ slip' = missing
                       /\ input' = Before.text \o text \o After.text
                       /\ cursor' = 1
                       /\ UNCHANGED <<form, program, reported>>
SaveAsMeant == Save(Whole(form).text, 0)
SaveWithASlip ==
  /\ form.wraps <= MaxSlipped
  /\ \E i \in DOMAIN Whole(form).text, wrong \in {<<>>, <<"illegal">>} :
       LET text == Whole(form).text
       IN Save(SubSeq(text, 1, i - 1) \o wrong \o SubSeq(text, i + 1, Len(text)), i)

AtEnd == TokenAt(input, cursor) = Eof
\* The lexer's own errors are reported when the file is through.
flush_lexer_errors(next) ==
  IF TokenAt(input, next) = Eof THEN Cardinality({i \in DOMAIN input : input[i] = "illegal"}) ELSE 0
\* A statement is read, or an error makes the parser look for the next one.
parse_program ==
  /\ cursor > 0 /\ ~AtEnd
  /\ \E r \in {IF TokenAt(input, cursor) = ";" THEN Start(input, cursor) ELSE Run(<<Stmt>>, Start(input, cursor))} :
       /\ program' = program \o r.out
       /\ cursor' = 1 + IF r.ok THEN r.at ELSE synchronize(input, r.at)
       /\ reported' = reported + r.said + flush_lexer_errors(cursor')
  /\ UNCHANGED <<form, slip, input>>

Next == Wrap \/ Lengthen \/ SaveAsMeant \/ SaveWithASlip \/ parse_program
Spec == Init /\ [][Next]_vars

-----------------------------------------------------------------------------
Finished == cursor > 0 /\ AtEnd
Meant == <<Before.tree, Whole(form).tree, After.tree>>

\* A program is read as the tree it was written for and nothing is reported,
\* or the parser refuses it and says so.  It refuses a chain of operators from
\* the ceiling on, and never misreads one for another tree.
ProgramIsAsWritten ==
  Finished /\ slip = 0 =>
    LET accepted == program = Meant /\ reported = 0
    IN CASE form.refused = "no" -> accepted
         [] form.refused = "yes" -> reported > 0
         [] OTHER -> accepted \/ reported > 0

\* A wrong token costs no other statement, unless it was a brace or what ended
\* the statement.
Torn == slip > 0 /\ (Whole(form).text[slip] \in {"{", "}"} \/ slip = Len(Whole(form).text))
AnErrorIsContained ==
  Finished /\ slip > 0 /\ ~Torn => program[1] = Before.tree /\ program[Len(program)] = After.tree
=============================================================================
