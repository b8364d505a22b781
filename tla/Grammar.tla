------------------------------- MODULE Grammar ------------------------------
(***************************************************************************)
(* The grammar of the language as the recursive-descent parser walks it.   *)
(* Each parse function is a production: the sequence of steps it takes     *)
(* over the current and the peeked token, with its branches, loops and     *)
(* early returns.  Parser.tla executes the steps.  A token is its text; a  *)
(* tree is a tuple of a tag and its children, a leaf the token in a tuple. *)
(***************************************************************************)
EXTENDS Naturals, Sequences

Eof == "eof"
Idents == {"a", "b", "T", "_", "permissions"}
Ints == {"0", "1", "huge"}                        \* "huge" is out of 64 bits
Strings == {"'s'", "'{a}'", "'{a + b}'", "'{'", "'{+}'"}
TypeKeywords == {"void", "int", "any"}            \* is_type_keyword
Compound == {"+=", "-=", "*=", "/=", "%="}        \* is_compound_assign
Increments == {"++", "--"}
Constants == {"true", "false", "null"}

\* What cannot name a member after a dot (the pipe is not in the code's list).
NotNames == Ints \cup Strings \cup Compound \cup Increments \cup {Eof, "illegal"} \cup
  {"=", "+", "-", "!", "*", "/", "%", "<", ">", "<=", ">=", "==", "!=", "&&", "||", "=>", "??", ",", ";",
   "(", ")", "{", "}", "[", "]", ".", "?.", ":", "?", "...", "**", "&", "|", "^", "~", "<<", ">>"}

compound_op(op) == CASE op = "+=" -> "+" [] op = "-=" -> "-" [] op = "*=" -> "*" [] op = "/=" -> "/" [] op = "%=" -> "%"

\* The levels of the operators, from the loosest.
Lowest == 0
PipeLevel == 1
Product == 13
Power == 14
PrefixLevel == 15
token_precedence(t) ==
  CASE t = "|>" -> PipeLevel [] t = "?" -> 2 [] t = "??" -> 3 [] t = "||" -> 4 [] t = "&&" -> 5
    [] t = "|" -> 6 [] t = "^" -> 7 [] t = "&" -> 8 [] t \in {"==", "!="} -> 9
    [] t \in {"<", ">", "<=", ">=", "is"} -> 10
    [] t \in {"<<", ">>"} -> 11 [] t \in {"+", "-"} -> 12 [] t \in {"*", "/", "%"} -> Product [] t = "**" -> Power
    [] t \in {"(", ".", "?."} -> 16 [] t = "[" -> 17
    [] OTHER -> Lowest

-----------------------------------------------------------------------------
\* Steps.  A step that is refused reports an error unless it is silent, and
\* ends the production; what is pushed becomes the children of its tree.

Move == <<"next">>
Want(ts) == <<"want", ts>>                   \* the peeked token is one of ts: move to it
Need(ts) == <<"need", ts>>                   \* the same, silently refused
At(ts) == <<"at", ts>>                       \* the current token is one of ts
Is(ts) == <<"is", ts>>                       \* the same, silently refused
Refuse == At({})
Fail == Is({})
Keep == <<"keep">>                           \* push the current token
Put(tree) == <<"put", tree>>
Make(how) == <<"make", how>>                 \* rebuild what was pushed
Group(tag, steps) == <<"group", tag, steps>> \* push one tree of what the steps push
Expr(level) == <<"expr", level>>             \* parse_expression
Value == Expr(Lowest)
Chain == <<"chain">>                         \* parse_infix_chain, from what was pushed
Stmt == <<"stmt">>                           \* parse_statement
ElseIf == <<"elseif">>                       \* parse_if_expression, uncounted
Pieces == <<"pieces">>                       \* parse_interpolated_string
Try(steps, otherwise) == <<"try", steps, otherwise>>    \* a refusal goes no further
Peeked(ts, a, b) == <<"peeked", ts, a, b>>
Here(ts, a, b) == <<"here", ts, a, b>>
HasLeft(a, b) == <<"hasleft", a, b>>         \* something was pushed
Marked(tree, a, b) == <<"marked", tree, a, b>>          \* the first thing pushed is tree
ByKind(table) == <<"bykind", table>>         \* by the kind of what was pushed last
Check(what) == <<"check", what>>
Loop(steps) == <<"loop", steps>>
Again == <<"turn", "again">>                 \* last step of a turn of a loop
Stop == <<"turn", "stop">>                   \* report an error and leave the chain with what it has

When(ts, steps) == Peeked(ts, steps, <<>>)
If(ts, steps) == Here(ts, steps, <<>>)
Semi == When({";"}, <<Move>>)
Until(ts, steps) == Loop(<<Here(ts, <<>>, Append(steps, Again))>>)
Closing == {"}", Eof}
Others(item) == Loop(<<When({","}, <<Move, Move>> \o item \o <<Again>>)>>)
\* After an entry: a comma, maybe trailing, or the closing brace.
NextEntry == <<Want({",", "}"}), If({","}, <<Peeked({"}"}, <<Move>>, <<Move, Again>>)>>)>>

-----------------------------------------------------------------------------
\* Blocks.

parse_block_statement == <<Move, Until(Closing, <<Here({";"}, <<Move>>, <<Try(<<Stmt>>, <<>>), Move>>)>>)>>
parse_inner_block == <<Move, Until(Closing, <<Try(<<Stmt>>, <<>>), Move>>)>>
Block == Group("block", parse_block_statement)
Inner == Group("block", parse_inner_block)
Body == <<Want({"{"}), Block>>
parse_unsafe_statement == <<Want({"{"}), Group("unsafe", parse_block_statement)>>

-----------------------------------------------------------------------------
\* Types and parameters.

parse_type_string == Group("type", <<Keep, When({"?"}, <<Move, Put(<<"?">>)>>)>>)
parse_dict_type_annotation ==
  <<Move, Move, At(TypeKeywords), Keep, Want({","}), Move, At(TypeKeywords), Keep, Want({">"})>>
ArrayType(element) == <<Move, Group("arrayType", element), Want({"]"})>>
\* A class type is told from a name by the name or the question mark after it.
ClassType == If(Idents, <<When(Idents \cup {"?"}, <<parse_type_string, Move>>)>>)

Annotation == Here({"["}, ArrayType(<<At(TypeKeywords), parse_type_string>>) \o <<Move>>,
                <<Here(TypeKeywords, <<parse_type_string, Move>>, <<ClassType>>)>>)
Parameter ==
  <<Annotation,
    Here({"..."}, <<Move, Put(<<"...">>), Is(Idents), Keep>>,
                  <<Is(Idents), Keep, When({"="}, <<Move, Move, Group("default", <<Value>>)>>)>>)>>
parse_function_parameters ==
  Group("params",
    <<Peeked({")"}, <<>>,
       <<Move, Loop(<<Group("param", Parameter), Check("defaults"),
                      ByKind([rest |-> <<Peeked({")"}, <<>>, <<Refuse>>)>>,
                              other |-> <<When({","}, <<Move, Move, Again>>)>>])>>)>>),
      Need({")"})>>)

-----------------------------------------------------------------------------
\* Literals and calls.

Spread == Group("spread", <<Move, Value>>)
parse_array_literal ==
  Group("array", <<Peeked({"]"}, <<Move>>,
    <<Move, Loop(<<Here({"..."}, <<Spread>>, <<Try(<<Value>>, <<>>)>>),
                   Peeked({"]"}, <<Move>>, <<Want({","}), Move, Again>>)>>)>>)>>)
parse_dict_literal ==
  Group("dict", <<Peeked({")"}, <<Move>>,
    <<Move, Loop(<<At({"{"}), Move, Value, Want({","}), Move, Value, Want({"}"}),
                   Peeked({")"}, <<Move>>, <<Want({","}), Move, Again>>)>>)>>)>>)
EntryValue == <<Want({","}), Move, Value, Want({"}"})>>
parse_entry_literal == Group("entry", <<Move, Value>> \o EntryValue)
parse_entry_literal_from_key == Group("entry", <<Group("", <<Keep, Chain>>)>> \o EntryValue)
Fields == <<At(Idents), Keep, Want({":"}), Move, Value>> \o NextEntry
parse_object_patch_from_ident == Group("patch", <<Loop(Fields)>>)
parse_brace_expression ==
  Peeked(Idents, <<Move, Peeked({":"}, <<parse_object_patch_from_ident>>, <<parse_entry_literal_from_key>>)>>,
                 <<parse_entry_literal>>)

Argument == <<Here({"..."}, <<Spread>>, <<Value>>)>>
parse_call_arguments ==
  Group("args", <<Peeked({")"}, <<Move>>, <<Move>> \o Argument \o <<Others(Argument), Need({")"})>>)>>)
parse_new_expression ==
  Group("new", <<Want(Idents), Keep, Want({"("}),
    Peeked({"{"}, <<Move, Move, Group("fields", <<Loop(<<Here(Closing, <<>>, Fields)>>)>>), Want({")"})>>,
                  <<parse_call_arguments>>)>>)
\* Only a type keyword leaves the cursor on the closing parenthesis.
parse_sizeof_expression ==
  Group("sizeof", <<Want({"("}), Move, Here(TypeKeywords \cup {"null"}, <<Keep, Move>>, <<Value>>), At({")"})>>)

-----------------------------------------------------------------------------
\* Functions.

parse_lambda_body == Peeked({"{"}, <<Move, Block>>, <<Move, Value>>)
parse_arrow_function ==
  Group("fn", <<parse_type_string, Need({"("}), parse_function_parameters, Need({"=>"}), Need({"{"}), Block>>)
Header == <<Need({"("}), parse_function_parameters, Need({"{"}), Block>>
FunctionLiteral == Group("fn", <<When(TypeKeywords, <<Move, Keep>>)>> \o Header)
\* Of two names the first is the return type.
parse_function_statement ==
  Group("fn", <<When({"*"}, <<Move, Put(<<"*">>)>>),
                Peeked(TypeKeywords, <<Move, parse_type_string>>,
                  <<When({"["}, <<Move>> \o ArrayType(<<At(TypeKeywords), parse_type_string>>))>>),
                When(Idents, <<Move, parse_type_string, When(Idents, <<Move, Keep>>)>>)>> \o Header)
parse_native_declaration ==
  Group("native", <<Want({"fn"}), When(TypeKeywords, <<Move, parse_type_string>>),
                    Want(Idents), Keep, When(Idents, <<Move, Keep>>), Want({"("}), parse_function_parameters,
                    Peeked({"{"}, <<Move, Move, Until(Closing, <<Move>>)>>, <<Semi>>)>>)

-----------------------------------------------------------------------------
\* Branches.

parse_if_expression ==
  Group("if", <<Want({"("}), Move, Value, Want({")"})>> \o Body \o
    <<When({"else"}, <<Move, Peeked({"if"}, <<Move, Try(<<ElseIf>>, <<>>)>>, Body)>>)>>)
parse_switch_statement ==
  Group("switch", <<Want({"("}), Move, Value, Want({")"}), Want({"{"}), Move,
    Until(Closing,
      <<Here({"default"}, <<Group("default", <<Want({":"}), Want({"{"}), Inner>>)>>,
         <<At({"case"}),
           Group("case", <<Move, Value, Others(<<Value>>), Want({":"}), Want({"{"}), Inner>>)>>),
        Move>>)>>)

Number == Here({"huge"}, <<Fail>>, <<Keep>>)
parse_single_match_pattern ==
  Here({"_"}, <<Keep>>,
   <<Here(Idents, <<Peeked({"."}, <<Group("variant", <<Keep, Move, Peeked(NotNames, <<Refuse>>, <<Move, Keep>>)>>)>>,
                                  <<Group("bind", <<Keep>>)>>)>>,
   <<Here(Ints, <<Number>>,
   <<Here({"-"}, <<Group("minus", <<Move, At(Ints), Number>>)>>, <<At(Strings \cup Constants), Keep>>)>>)>>)>>)
parse_match_pattern ==
  Group("pattern", <<parse_single_match_pattern,
                     Loop(<<When({"|"}, <<Move, Move, parse_single_match_pattern, Again>>)>>)>>)
Arm == Group("arm", <<parse_match_pattern, When({"if"}, <<Move, Move, Group("guard", <<Value>>)>>),
                      Want({"=>"}), Move, Here({"{"}, <<Inner>>, <<Value>>)>>)
\* Without a comma after a block body the arm's own brace ends the match.
parse_match_expression ==
  Group("match", <<Move, Value, Want({"{"}), Move,
    Loop(<<Here(Closing, <<>>,
             <<Arm, When({","}, <<Move>>), Peeked({"}"}, <<Move>>, <<Here({"}"}, <<>>, <<Move>>), Again>>)>>)>>)>>)
parse_try_statement ==
  Group("try", <<Want({"{"}), Inner,
    When({"catch"}, <<Move, Group("catch",
      <<When({"("}, <<Move, Move, If(Idents, <<Keep, Move>>)>>), Want({"{"}), Inner>>)>>),
    When({"finally"}, <<Move, Group("finally", <<Want({"{"}), Inner>>)>>), Check("handled")>>)

-----------------------------------------------------------------------------
\* Declarations.

parse_array_destructure_pattern ==
  Group("slots", <<Peeked({"]"}, <<Move>>,
    <<Loop(<<Move, Here({"]"}, <<>>,
       <<Here({"..."}, <<Group("rest", <<Want(Idents), Keep>>), Want({"]"})>>,
         <<At(Idents), Keep, Peeked({","}, <<Move, Again>>, <<Want({"]"})>>)>>)>>)>>)>>)>>)
parse_dict_destructure_pattern ==
  Group("keys", <<Peeked({"}"}, <<Move>>,
    <<Loop(<<Move, At(Idents), Group("key", <<Keep, When({":"}, <<Move, Want(Idents), Keep>>)>>),
             Peeked({","}, <<Move, Again>>, <<Want({"}"})>>)>>)>>)>>)
Initialised == <<Want({"="}), Move, Value, Semi>>
TypedArray == ArrayType(<<At(TypeKeywords), parse_type_string>>) \o <<Want({"="}), Move, Value, Check("array"), Semi>>
TypedDict == <<Group("types", parse_dict_type_annotation), Want({"="}), Move, At({"("}), parse_dict_literal, Semi>>
parse_let_statement ==
  Group("let", <<Keep,
    Peeked({"["}, <<Move, parse_array_destructure_pattern>> \o Initialised,
    <<Peeked({"{"}, <<Move, parse_dict_destructure_pattern>> \o Initialised,
    <<Want(Idents), Keep,
      Peeked({"["}, <<Move>> \o TypedArray, <<Peeked({"<"}, TypedDict, Initialised)>>)>>)>>)>>)

Returned == <<Move, Value, Semi>>
parse_return_statement == Group("return", <<Peeked({";", "}", Eof}, <<>>, Returned)>>)
Jump(tag) == Group(tag, <<When(Idents, <<Move, Keep>>), Semi>>)

Dotted == <<Keep, Loop(<<When({"."}, <<Move, Want(Idents), Keep, Again>>)>>)>>
parse_use_permissions ==
  Group("use", <<Want({"permissions"}), Want({"{"}),
    Loop(<<Peeked(Closing, <<Move>>, <<Move, At(Idents), Group("permission", Dotted),
                                       Peeked({","}, <<Move, Again>>, <<Want({"}"})>>)>>)>>), Semi>>)
parse_import_statement == Group("import", <<Want(Strings), Keep, Semi>>)
parse_export_statement == Group("export", <<Move, Stmt>>)

-----------------------------------------------------------------------------
\* Assignments.  What is written to is a tree of its own: a name, a field, an
\* index or what a pointer leads to.

Assigned == <<Move, Move, Value, Semi, Make("assign")>>
Combined == <<Move, Keep, Move, Value, Semi, Make("compound")>>   \* a += v is a = a + v
Stepped == <<Move, Keep, Semi, Make("step")>>                     \* a++ is a = a + 1
Plain == <<Semi, Make("run")>>
parse_assign_statement == <<Keep>> \o Assigned
parse_compound_assign_statement == <<Keep>> \o Combined
Postfixed == <<Keep>> \o Stepped
Prefixed == <<Keep, Move, Keep, Semi, Make("prestep")>>           \* whatever follows is the name

IsName(t) == Len(t) = 1 /\ t[1] \in Idents
NoArguments(t) == Len(t) = 4 \/ t[5] = <<"args">>
RECURSIVE is_writable_chain(_)
is_writable_chain(t) == \/ IsName(t)
                        \/ t[1] = "dot" /\ Len(t) = 4 /\ is_writable_chain(t[3])
                        \/ t[1] = "index" /\ is_writable_chain(t[2])
\* What an assignment can be made to.  A call without arguments on a name passes
\* for a field.
Kind(t) == CASE t[1] = "deref" -> "deref"
             [] t[1] = "index" -> "index"
             [] t[1] = "dot" /\ NoArguments(t) /\ IsName(t[3]) -> "field"
             [] t[1] = "dot" /\ Len(t) = 4 /\ is_writable_chain(t[3]) -> "chain"
             [] t[1] = "param" /\ \E i \in 2..Len(t) : t[i] = <<"...">> -> "rest"
             [] OTHER -> "other"

parse_expression_statement ==
  <<Value,
    Peeked({"="}, <<ByKind([deref |-> Assigned, field |-> Assigned, chain |-> Assigned, index |-> Assigned,
                            other |-> Plain])>>,
    <<Peeked(Compound, <<ByKind([field |-> Combined, chain |-> Combined, index |-> Combined, other |-> Plain])>>,
    <<Peeked(Increments, <<ByKind([field |-> Stepped, index |-> Stepped, other |-> Plain])>>, Plain)>>)>>)>>
\* A statement that starts with a name and a bracket.
try_build_index_compound_assign == ByKind([index |-> Combined, other |-> Plain])
try_build_index_assign == Peeked({"="}, <<ByKind([index |-> Assigned, chain |-> Assigned, other |-> Plain])>>, Plain)
parse_index_assign_or_expr_statement ==
  <<Value,
    Peeked(Compound, <<try_build_index_compound_assign>>,
    <<Peeked(Increments, <<ByKind([index |-> Stepped, other |-> Plain])>>, <<try_build_index_assign>>)>>)>>

-----------------------------------------------------------------------------
\* Loops.

Condition == <<Want({"("}), Move, Value, Want({")"})>>
parse_while_statement_with_label == Group("while", Condition \o Body)
parse_do_while_statement == Group("dowhile", Body \o <<Want({"while"})>> \o Condition \o <<Semi>>)
ForIn == <<Move, Value, Want({")"})>> \o Body
Update == Peeked({"="}, <<Group("", parse_assign_statement)>>,
           <<Peeked(Increments, <<Group("", <<Keep, Move, Keep, Make("step")>>)>>,
             <<Peeked(Compound, <<Group("", parse_compound_assign_statement)>>, <<Refuse>>)>>)>>)
ClassicFor == <<Want({"="}), Move, Value, Peeked({";"}, <<Move>>, <<At({";"})>>), Move, Value, Want({";"}),
                Move, At(Idents), Update, Want({")"})>> \o Body
parse_for_inner ==
  Group("for", <<Want({"("}), Move, At({"let"}),
    Peeked({"["}, <<Move, parse_array_destructure_pattern, Want({"in"})>> \o ForIn,
                  <<Want(Idents), Keep, Peeked({"in"}, <<Move>> \o ForIn, ClassicFor)>>)>>)
parse_labeled_statement ==
  Group("label", <<Keep, Move, Move, Here({"while"}, <<parse_while_statement_with_label>>,
                                      <<At({"for"}), parse_for_inner>>)>>)

-----------------------------------------------------------------------------
\* Classes.  A class pushes its visibility, its kind, its name and its parent.

FieldType == Here(TypeKeywords, <<parse_type_string>>, <<If(Idents, <<Keep>>)>>)
ClassField == <<Keep, Peeked({":"}, <<Move, Move, FieldType, When({"="}, <<Move, Move, Value>>), Semi>>,
                                    <<Want({"="}), Move, Value, Semi>>)>>
ReturnType == Here({"["}, ArrayType(<<Here(TypeKeywords, <<parse_type_string>>, <<Keep>>)>>) \o <<Move>>,
                <<Here(TypeKeywords, <<parse_type_string, Move>>, <<ClassType>>)>>)
ClassMethod ==
  <<Keep, Move, If({"static"}, <<Keep, Move>>),
    Here({"get"}, <<Keep, Move>>, <<If({"set"}, <<Keep, Move>>)>>), ReturnType,
    If(NotNames, <<Refuse>>), Group("named", <<Keep>>), Want({"("}), parse_function_parameters,
    Peeked({";"}, <<Marked(<<"abstract">>, <<Move>>, Body)>>, Body)>>
Member == Group("member", <<If({"abstract"}, <<Keep, Move>>),
                            Here({"public", "private"}, ClassMethod, <<At(Idents)>> \o ClassField)>>)
parse_class_declaration ==
  <<Want(Idents), Keep, When({":"}, <<Move, Want(Idents), Group("parent", <<Keep>>)>>), Want({"{"}), Move,
    Until(Closing, <<Member, Check("constructor"), Move>>)>>
InterfaceType == Here({"["}, ArrayType(<<Here(TypeKeywords, <<parse_type_string>>, <<At(Idents), Keep>>)>>),
                   <<At(TypeKeywords \cup Idents), parse_type_string>>)
parse_interface_declaration ==
  <<Want(Idents), Keep, Want({"{"}), Move,
    Until(Closing, <<At(Idents), Keep, Want({":"}), Move, InterfaceType, When({";", ","}, <<Move>>), Move>>)>>
parse_enum_declaration ==
  Group("enum", <<Want(Idents), Keep, Want({"{"}), Move, Loop(<<Here(Closing, <<>>, <<At(Idents), Keep>> \o NextEntry)>>)>>)
Public == Put(<<"public">>)
PlainClass == <<Put(<<"plain">>)>> \o parse_class_declaration
parse_visibility_statement ==
  Peeked({"interface"}, <<Group("interface", <<Keep, Move>> \o parse_interface_declaration)>>,
    <<Group("class", <<Keep,
        Peeked({"class"}, <<Move>> \o PlainClass,
                          <<Want({"abstract", "sealed"}), Keep, Want({"class"})>> \o parse_class_declaration)>>)>>)
\* Public whatever stands between the modifier and `class`.
parse_abstract_or_sealed_class ==
  Group("class", <<Public, Keep, When({"public", "private"}, <<Move>>), Want({"class"})>> \o parse_class_declaration)

-----------------------------------------------------------------------------
\* What a statement and an expression start with, and what continues one.

parse_statement(c, n) ==
  CASE c \in {"let", "const"} -> <<parse_let_statement>>
    [] c = "return" -> <<parse_return_statement>>
    [] c \in {"out", "throw", "yield"} -> <<Group(c, Returned)>>
    [] c = "{" -> <<Block>>
    [] c = "fn" -> <<parse_function_statement>>
    [] c = "while" -> <<parse_while_statement_with_label>>
    [] c = "do" -> <<parse_do_while_statement>>
    [] c = "for" -> <<parse_for_inner>>
    [] c \in {"break", "continue"} -> <<Jump(c)>>
    [] c = "enum" -> <<parse_enum_declaration>>
    [] c = "class" -> <<Group("class", <<Public>> \o PlainClass)>>
    [] c = "interface" -> <<Group("interface", <<Public>> \o parse_interface_declaration)>>
    [] c \in {"public", "private"} -> <<parse_visibility_statement>>
    [] c \in {"abstract", "sealed"} -> <<parse_abstract_or_sealed_class>>
    [] c = "switch" -> <<parse_switch_statement>>
    [] c = "try" -> <<parse_try_statement>>
    [] c = "unsafe" -> parse_unsafe_statement
    [] c = "native" -> <<parse_native_declaration>>
    [] c = "import" -> <<parse_import_statement>>
    [] c = "export" -> <<parse_export_statement>>
    [] c = "use" -> <<parse_use_permissions>>
    [] c \in Idents /\ n = ":" -> <<parse_labeled_statement>>
    [] c \in Idents /\ n = "=" -> parse_assign_statement
    [] c \in Idents /\ n \in Compound -> parse_compound_assign_statement
    [] c \in Idents /\ n = "[" -> parse_index_assign_or_expr_statement
    [] c \in Idents /\ n \in Increments -> Postfixed
    [] c \in Increments -> Prefixed
    [] OTHER -> parse_expression_statement

Lambda == <<Keep, Move, parse_lambda_body, Make("lambda")>>
Parameters == Group("params", <<Keep, Others(<<At(Idents), Keep>>)>>)
\* An open parenthesis before a name: parameters, a lambda or a grouped operand.
Grouped == Peeked({","}, <<Group("lambda", <<Parameters, Want({")"}), Want({"=>"}), parse_lambda_body>>)>>,
            <<Peeked({")"}, <<Keep, Move, When({"=>"}, <<Move, parse_lambda_body, Make("lambda")>>)>>,
              <<Peeked({"=>"}, Lambda \o <<Want({")"})>>, <<Keep, Chain, Want({")"})>>)>>)>>)
\* What an arm of the code yields as None is tried: the chain goes on without it.
PrefixOf(c, n) ==
  CASE c \in Idents -> IF n = "=>" THEN Lambda ELSE <<Keep>>
    [] c = "huge" -> <<Try(<<Refuse>>, <<>>)>>
    [] c \in Ints \cup Constants -> <<Keep>>
    [] c \in Strings -> <<Try(<<Pieces>>, <<>>)>>
    [] c \in {"!", "-", "~"} -> <<Group("prefix", <<Keep, Move, Expr(PrefixLevel)>>)>>
    [] c = "&" -> <<Group("addressof", <<Move, Expr(PrefixLevel)>>)>>
    [] c = "*" -> <<Group("deref", <<Move, Expr(PrefixLevel)>>)>>
    [] c = "sizeof" -> <<Try(<<parse_sizeof_expression>>, <<>>)>>
    [] c = "(" /\ n = ")" -> <<Move, Peeked({"=>"}, <<Group("lambda", <<Put(<<"params">>), Move, parse_lambda_body>>)>>,
                                                    <<Try(<<Refuse>>, <<>>)>>)>>
    [] c = "(" /\ n \in Idents -> <<Move, Grouped>>
    [] c = "(" -> <<Move, Try(<<Value>>, <<>>), Need({")"})>>
    [] c = "[" -> <<Try(<<parse_array_literal>>, <<>>)>>
    [] c = "{" -> <<Try(<<parse_brace_expression>>, <<>>)>>
    [] c = "if" -> <<Try(<<parse_if_expression>>, <<>>)>>
    [] c = "new" -> <<Try(<<parse_new_expression>>, <<>>)>>
    [] c \in TypeKeywords -> <<Try(<<parse_arrow_function>>, <<>>)>>
    [] c = "fn" -> <<FunctionLiteral>>
    [] c = "match" -> <<Try(<<parse_match_expression>>, <<>>)>>
    [] c = "unsafe" -> <<Move, At({"{"}), Group("unsafe", parse_block_statement)>>
    [] c = "illegal" -> <<Try(<<Fail>>, <<>>)>>
    [] OTHER -> <<Try(<<Refuse>>, <<>>)>>

\* mutant: every operator groups from the right
InfixFromTheRight(level) == <<HasLeft(<<Keep, Move, Expr(level - 1), Make("infix")>>, <<Move, Fail>>)>>

Infix(level) == <<HasLeft(<<Keep, Move, Expr(level), Make("infix")>>, <<Move, Fail>>)>>
\* The operator is the current token and the left operand, if any, was pushed.
parse_infix_chain(c) ==
  CASE c = "(" -> <<HasLeft(<<parse_call_arguments, Make("call")>>, <<>>)>>
    [] c = "[" -> <<HasLeft(<<Move, Value, Want({"]"}), Make("index")>>, <<>>)>>
    [] c = "?" -> <<HasLeft(<<Move, Value, Want({":"}), Move, Value, Make("ternary")>>, <<>>)>>
    [] c = "is" -> <<Move, HasLeft(<<Keep, Make("is")>>, <<>>)>>
    [] c \in {".", "?."} ->
         <<Peeked(NotNames, <<Stop>>,
             <<Keep, Move, Keep, When({"("}, <<Move, Try(<<parse_call_arguments>>, <<<<"args">>>>)>>), Make("dot")>>)>>
    [] c = "|>" -> <<Move, HasLeft(<<Expr(PipeLevel), Make("pipe")>>, <<Fail>>)>>
    [] c = "**" -> Infix(Product)
    [] OTHER -> Infix(token_precedence(c))
=============================================================================
