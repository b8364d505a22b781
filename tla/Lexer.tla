-------------------------------- MODULE Lexer --------------------------------
(***************************************************************************)
(* From characters to tokens, one token a step.  A character is a member   *)
(* of an alphabet, a token its kind and its place; what a string decodes   *)
(* to and what a number is worth are left out.                             *)
(***************************************************************************)
EXTENDS Naturals, FiniteSets, SequencesExt

CONSTANTS Families        \* alphabets to write in, [chars, length]

VARIABLES family, source, \* the text and the alphabet it is written in
          reader,         \* [at, line, column], not started when at is 0
          tokens, faults  \* the tokens read and the codes reported
vars == <<family, source, reader, tokens, faults>>

Nul == "nul"
Newline == "nl"
Quote == "dq"
Blanks == {" ", Newline}
Letters == {"a", "b", "e", "m", "r", "x", "_"}
Digits == {"0", "1"}
HexDigits == Digits \cup {"a", "b", "e"}
is_letter(c) == c \in Letters
is_digit(c) == c \in Digits
WordChar(c) == c \in Letters \cup Digits

\* The characters that make an operator longer, by its first.
Second(c) == CASE c \in {"+", "-"} -> {c, "="} [] c \in {"!", "/", "%"} -> {"="} [] c \in {"=", "|"} -> {c, ">"}
               [] c = "*" -> {"*", "="} [] c \in {"<", ">"} -> {"=", c} [] c = "&" -> {"&"} [] c = "?" -> {"?", "."}
               [] OTHER -> {}
Singles == {"=", "+", "-", "!", "/", "*", "%", "<", ">", "&", "|", "^", "~", ";", ",", "(", ")", "{", "}", "[", "]", "?", ":"}

-----------------------------------------------------------------------------
CharAt(i) == IF i \in DOMAIN source THEN source[i] ELSE Nul
Ch(l) == CharAt(l.at)
peek_char(l) == CharAt(l.at + 1)
\* Past the end only the position moves.
read_char(l) ==
  IF l.at >= Len(source) THEN [l EXCEPT !.at = @ + 1]
  ELSE IF Ch(l) = Newline THEN [at |-> l.at + 1, line |-> l.line + 1, column |-> 1]
  ELSE [l EXCEPT !.at = @ + 1, !.column = @ + 1]
RECURSIVE While(_, _)
While(chars, l) == IF Ch(l) \in chars THEN While(chars, read_char(l)) ELSE l
skip_whitespace(l) == While(Blanks, l)

\* What is reported at l.
lex_error(codes, l) == [i \in DOMAIN codes |-> [code |-> codes[i], line |-> l.line, column |-> l.column]]

\* A comment ends at its mark or at a NUL, which for a block is a fault.
RECURSIVE LineEnd(_), BlockEnd(_)
LineEnd(l) == IF Ch(l) \in {Newline, Nul} THEN l ELSE LineEnd(read_char(l))
BlockEnd(l) == IF Ch(l) = Nul \/ (Ch(l) = "*" /\ peek_char(l) = "/") THEN l ELSE BlockEnd(read_char(l))
skip_line_comment(l) == skip_whitespace(LineEnd(l))
skip_block_comment(l) ==
  LET end == BlockEnd(read_char(read_char(l)))
  IN [open |-> Ch(end) = Nul, to |-> skip_whitespace(IF Ch(end) = Nul THEN end ELSE read_char(read_char(end)))]
RECURSIVE Skipped(_)
\* Where the next token starts, and the comments left open on the way.
Skipped(r) ==
  LET l == skip_whitespace(r.to)
  IN IF Ch(l) = "/" /\ peek_char(l) = "/" THEN Skipped([r EXCEPT !.to = skip_line_comment(l)])
     ELSE IF Ch(l) = "/" /\ peek_char(l) = "*"
       THEN LET block == skip_block_comment(l)
            IN Skipped([to |-> block.to, faults |-> r.faults \o lex_error(IF block.open THEN <<"SZ1003">> ELSE <<>>, l)])
     ELSE [r EXCEPT !.to = l]

-----------------------------------------------------------------------------
\* Each reader ends one past its token.
Read(kind, to) == [kind |-> kind, to |-> to, fault |-> <<>>]
Faulty(code, to) == [kind |-> "illegal", to |-> to, fault |-> <<code>>]

\* Two dots come out as one token of the kind of one.
Operator(l) ==
  LET twice == read_char(l)
  IN Read("operator",
       IF Ch(l) = "." /\ Ch(twice) = "." THEN read_char(IF peek_char(twice) = "." THEN read_char(twice) ELSE twice)
       ELSE read_char(IF peek_char(l) \in Second(Ch(l)) THEN twice ELSE l))

RECURSIVE InnerEnd(_), BodyEnd(_, _)
\* A quote inside braces runs to the next that no backslash precedes.
InnerEnd(l) ==
  LET c == read_char(l)
  IN IF Ch(c) \in {Quote, Nul} THEN c ELSE InnerEnd(IF Ch(c) = "\\" /\ peek_char(c) = Quote THEN read_char(c) ELSE c)
BodyEnd(l, depth) ==
  LET c == read_char(l)
  IN CASE Ch(c) = Nul \/ (Ch(c) = Quote /\ depth = 0) -> c
       [] Ch(c) = "\\" /\ depth = 0 -> BodyEnd(read_char(c), depth)
       [] Ch(c) = "{" -> BodyEnd(c, depth + 1)
       [] Ch(c) = "}" /\ depth > 0 -> BodyEnd(c, depth - 1)
       [] Ch(c) = Quote -> BodyEnd(InnerEnd(c), depth)
       [] OTHER -> BodyEnd(c, depth)

RECURSIVE QuoteEnd(_, _)
QuoteEnd(quote, l) == LET c == read_char(l) IN IF Ch(c) \in {quote, Nul} THEN c ELSE QuoteEnd(quote, c)

Closed(quote, kind, end) == IF Ch(end) = quote THEN Read(kind, read_char(end)) ELSE Faulty("SZ1002", read_char(end))
read_string(l) == Closed(Quote, "string", BodyEnd(l, 0))
read_single_quote_string(l) == Closed("'", "string", QuoteEnd("'", l))
\* An open raw string leaves its NUL to the next token.
read_raw_string(l) ==
  LET end == QuoteEnd(Quote, read_char(l))
  IN IF Ch(end) = Quote THEN Read("raw", read_char(end)) ELSE Faulty("SZ1002", end)

Keywords == {<<"b", "e">>, <<"a", "b", "e">>}     \* stand for the fifty
read_identifier(l) == While(Letters \cup Digits, l)
lookup_ident(l, to) == IF SubSeq(source, l.at, to.at - 1) \in Keywords THEN "keyword" ELSE "name"

Run(l) == While(Digits \cup {"_"}, l)
Based(digits, l) ==
  LET from == read_char(read_char(l))
      stop == While(digits \cup {"_"}, from)
      empty == \A i \in from.at..(stop.at - 1) : source[i] = "_"
  IN IF WordChar(Ch(stop)) THEN [Read("int", While(Letters \cup Digits, stop)) EXCEPT !.fault = <<"SZ1004">>]
     ELSE [Read("int", stop) EXCEPT !.fault = IF empty THEN <<"SZ1004">> ELSE <<>>]
Fraction(l) == IF Ch(l) = "." /\ is_digit(peek_char(l)) THEN Run(read_char(l)) ELSE l
\* mutant: the sign of an exponent is taken before a digit is seen
ExponentAlone(l) ==
  IF Ch(l) = "e" /\ (is_digit(peek_char(l)) \/ peek_char(l) \in {"+", "-"}) THEN Run(read_char(read_char(l))) ELSE l
Exponent(l) ==
  LET signed == peek_char(l) \in {"+", "-"}
  IN IF Ch(l) = "e" /\ is_digit(IF signed THEN CharAt(l.at + 2) ELSE peek_char(l))
       THEN Run(IF signed THEN read_char(read_char(l)) ELSE read_char(l)) ELSE l
\* The suffix counts only where no name could begin with it.
read_number(l) ==
  LET whole == Run(l)
      to == Exponent(Fraction(whole))
  IN IF Ch(l) = "0" /\ peek_char(l) = "b" THEN Based({"0", "1"}, l)
     ELSE IF Ch(l) = "0" /\ peek_char(l) = "x" THEN Based(HexDigits, l)
     ELSE IF Ch(to) = "m" /\ ~WordChar(peek_char(to)) THEN Read("dec", read_char(to))
     ELSE Read(IF to = whole THEN "int" ELSE "decimal", to)

\* Positions are clamped to the end of the text; at it, the end is read again.
Clamp(i) == IF i > Len(source) + 1 THEN Len(source) + 1 ELSE i
next_token_inner(l) ==
  CASE Ch(l) = Nul -> IF l.at <= Len(source) THEN Faulty("SZ1001", read_char(l)) ELSE Read("eof", read_char(l))
    [] Ch(l) = Quote -> read_string(l)
    [] Ch(l) = "'" -> read_single_quote_string(l)
    [] Ch(l) = "r" /\ peek_char(l) = Quote -> read_raw_string(l)
    [] is_letter(Ch(l)) -> Read(lookup_ident(l, read_identifier(l)), read_identifier(l))
    [] is_digit(Ch(l)) -> read_number(l)
    [] Ch(l) \in Singles \cup {"."} -> Operator(l)
    [] OTHER -> Faulty("SZ1001", read_char(l))

-----------------------------------------------------------------------------
Init == /\ family \in Families
        /\ source = <<>>
        /\ reader = [at |-> 0, line |-> 1, column |-> 0]
        /\ tokens = <<>> /\ faults = <<>>

Type == /\ reader.at = 0 /\ Len(source) < family.length
        /\ \E c \in family.chars : source' = Append(source, c)
        /\ UNCHANGED <<family, reader, tokens, faults>>

\* Lexer::new: the cursor goes onto the first character.
new == /\ reader.at = 0
       /\ reader' = [at |-> 1, line |-> 1, column |-> IF source = <<>> THEN 0 ELSE 1]
       /\ UNCHANGED <<family, source, tokens, faults>>

Ended == tokens # <<>> /\ tokens[Len(tokens)].kind = "eof"
next_token ==
  /\ reader.at > 0 /\ ~Ended
  /\ LET skipped == Skipped([to |-> reader, faults |-> <<>>])
         l == skipped.to
         token == next_token_inner(l)
     IN /\ tokens' = Append(tokens, [kind |-> token.kind, start |-> Clamp(l.at), end |-> Clamp(token.to.at),
                                     line |-> l.line, column |-> l.column])
        /\ reader' = token.to
        /\ faults' = faults \o skipped.faults \o lex_error(token.fault, l)
  /\ UNCHANGED <<family, source>>

Next == Type \/ new \/ next_token
Spec == Init /\ [][Next]_vars

-----------------------------------------------------------------------------
(* The manual's forms, as sets of spellings: a token is the longest one     *)
(* that starts where it does.                                               *)

Slice(i, j) == SubSeq(source, i, j - 1)
Each(chars, i, j) == \A k \in i..(j - 1) : source[k] \in chars
Spellings == {<<c>> : c \in Singles \cup {"."}} \cup
  {<<"=", "=">>, <<"!", "=">>, <<"<", "=">>, <<">", "=">>, <<"&", "&">>, <<"|", "|">>, <<"=", ">">>, <<"?", "?">>,
   <<"?", ".">>, <<"|", ">">>, <<"+", "+">>, <<"-", "-">>, <<"+", "=">>, <<"-", "=">>, <<"*", "=">>, <<"/", "=">>,
   <<"%", "=">>, <<"*", "*">>, <<"<", "<">>, <<">", ">">>, <<".", ".", ".">>}
DigitsFirst(i, j) == i < j /\ source[i] \in Digits /\ Each(Digits \cup {"_"}, i, j)
IsFraction(i, j) == i < j /\ source[i] = "." /\ DigitsFirst(i + 1, j)
IsExponent(i, j) == i < j /\ source[i] = "e" /\ (DigitsFirst(i + 1, j) \/ (i + 1 < j /\ source[i + 1] \in {"+", "-"} /\ DigitsFirst(i + 2, j)))
IsDecimal(i, j) == \E k \in i..j : /\ DigitsFirst(i, k)
                                   /\ \/ IsFraction(k, j) \/ IsExponent(k, j)
                                      \/ \E n \in k..j : IsFraction(k, n) /\ IsExponent(n, j)
HasBase(i) == CharAt(i) = "0" /\ CharAt(i + 1) \in {"b", "x"}
IsBased(i, j) == /\ i + 2 < j
                 /\ Each((IF source[i + 1] = "b" THEN {"0", "1"} ELSE HexDigits) \cup {"_"}, i + 2, j)
                 /\ ~Each({"_"}, i + 2, j)

RECURSIVE Body(_, _), Inside(_, _)
IsInner(i, j) == /\ i + 1 < j /\ source[i] = Quote
                 /\ \A k \in (i + 1)..(j - 1) : source[k] = Quote => (k = j - 1) = (k = i + 1 \/ source[k - 1] # "\\")
                 /\ source[j - 1] = Quote
IsBraces(i, j) == i + 1 < j /\ source[i] = "{" /\ source[j - 1] = "}" /\ Inside(i + 1, j - 1)
Inside(i, j) == \/ i = j
                \/ i < j /\ source[i] \notin {Quote, "{", "}", Nul} /\ Inside(i + 1, j)
                \/ \E k \in (i + 1)..j : (IsBraces(i, k) \/ IsInner(i, k)) /\ Inside(k, j)
Body(i, j) == \/ i = j
              \/ i < j /\ source[i] \notin {Quote, "{", "\\", Nul} /\ Body(i + 1, j)
              \/ i + 1 < j /\ source[i] = "\\" /\ Body(i + 2, j)
              \/ \E k \in (i + 1)..j : IsBraces(i, k) /\ Body(k, j)
Plain(quote, i, j) == i + 1 < j /\ source[i] = quote /\ source[j - 1] = quote /\ Each(family.chars \ {quote, Nul}, i + 1, j - 1)

IsToken(kind, i, j) ==
  CASE kind = "operator" -> Slice(i, j) \in Spellings
    [] kind \in {"name", "keyword"} -> i < j /\ is_letter(source[i]) /\ Each(Letters \cup Digits, i, j)
                                       /\ (kind = "keyword") = (Slice(i, j) \in Keywords)
    [] kind = "int" -> IF HasBase(i) THEN IsBased(i, j) ELSE DigitsFirst(i, j)
    [] kind = "decimal" -> ~HasBase(i) /\ IsDecimal(i, j)
    [] kind = "dec" -> /\ ~HasBase(i) /\ i < j /\ source[j - 1] = "m" /\ ~WordChar(CharAt(j))
                       /\ DigitsFirst(i, j - 1) \/ IsDecimal(i, j - 1)
    [] kind = "string" -> Plain("'", i, j) \/ (i + 1 < j /\ source[i] = Quote /\ source[j - 1] = Quote /\ Body(i + 1, j - 1))
    [] kind = "raw" -> i + 1 < j /\ source[i] = "r" /\ Plain(Quote, i + 1, j)
    [] OTHER -> FALSE
Kinds == {"operator", "name", "keyword", "int", "decimal", "dec", "string", "raw"}
Forms(i) == {f \in Kinds \X ((i + 1)..(Len(source) + 1)) : IsToken(f[1], i, f[2])}
Opens(i) == CharAt(i) \in {Quote, "'"} \/ (CharAt(i) = "r" /\ CharAt(i + 1) = Quote)

\* The line and the column of a position.
Line(i) == Cardinality({k \in 1..(i - 1) : source[k] = Newline}) + 1
Column(i) == i - Max({0} \cup {k \in 1..(i - 1) : source[k] = Newline})
At(i) == {f \in Range(faults) : f.line = Line(i) /\ f.column = Column(i)}
Codes(i) == {f.code : f \in At(i)}

\* What may stand between two tokens: a comment that is left open is reported.
RECURSIVE IsGap(_, _)
Opened(i) == Slice(i, i + 2) = <<"/", "*">>
Marks(i, j) == {k \in (i + 2)..(j - 2) : Slice(k, k + 2) = <<"*", "/">>}
IsComment(i, j) ==
  \/ Slice(i, i + 2) = <<"/", "/">> /\ Each(family.chars \ {Newline, Nul}, i, j) /\ CharAt(j) \in {Newline, Nul}
  \/ Opened(i) /\ Each(family.chars \ {Nul}, i, j) /\ Marks(i, j) = {j - 2} /\ Codes(i) = {}
  \/ Opened(i) /\ Each(family.chars \ {Nul}, i, j) /\ Marks(i, j) = {} /\ CharAt(j) = Nul /\ Codes(i) = {"SZ1003"}
IsGap(i, j) ==
  \/ i = j
  \/ i < j /\ source[i] \in Blanks /\ IsGap(i + 1, j)
  \/ \E k \in (i + 2)..j : IsComment(i, k) /\ IsGap(k, j)

\* A token is what the text calls for at its place, and so is what is reported.
IsAsWritten(t) ==
  LET forms == Forms(t.start)
      codes == Codes(t.start)
      word == \A k \in t.start..(t.end - 1) : WordChar(source[k])
  IN CASE t.kind = "eof" -> t.start = Len(source) + 1 /\ t.end = t.start
       [] t.kind = "illegal" /\ Opens(t.start) ->
            /\ codes = {"SZ1002"} /\ (CharAt(t.end) = Nul \/ source[t.end - 1] = Nul)
            /\ \A f \in forms : f[1] \notin {"string", "raw"}
       [] t.kind = "illegal" /\ ~Opens(t.start) -> codes = {"SZ1001"} /\ t.end = t.start + 1 /\ forms = {}
       [] HasBase(t.start) /\ codes # {} ->
            codes = {"SZ1004"} /\ word /\ ~WordChar(CharAt(t.end)) /\ ~IsBased(t.start, t.end)
       [] OTHER -> /\ codes = {}
                   /\ \/ <<t.kind, t.end>> \in forms /\ \A f \in forms : f[2] <= t.end
                      \/ t.kind = "operator" /\ Slice(t.start, t.end) = <<".", ".">>
IsPlaced(t) == t.kind = "eof" \/ (t.line = Line(t.start) /\ t.column = Column(t.start))

\* A text becomes the tokens its spelling calls for, each the longest form that
\* starts where the one before it and the blanks and comments after that end,
\* at its true line and column; what is no form is an illegal token with its
\* own code (two dots in a row come out as one dot; the end of a text that ends
\* in a newline is placed on the line before it).
TokensAreAsWritten ==
  Ended => /\ \A i \in DOMAIN tokens : /\ IsGap(IF i = 1 THEN 1 ELSE tokens[i - 1].end, tokens[i].start)
                                       /\ IsAsWritten(tokens[i]) /\ IsPlaced(tokens[i])
           /\ \A i \in 1..(Len(faults) - 1) :
                \/ faults[i].line < faults[i + 1].line
                \/ faults[i].line = faults[i + 1].line /\ faults[i].column < faults[i + 1].column
           /\ \A f \in Range(faults) : f.code # "SZ1003" => \E t \in Range(tokens) : f.line = t.line /\ f.column = t.column
=============================================================================
