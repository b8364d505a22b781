----------------------------- MODULE RegexEngine -----------------------------
(***************************************************************************)
(* The Regex namespace: a pattern is parsed, compiled to instructions for  *)
(* a backtracking machine with a budget of steps and a bound on its depth, *)
(* and searched for in a text; findAll, split and replace repeat the       *)
(* search.  A program picks a pattern and a text and calls one of them.    *)
(*                                                                         *)
(* A tree is [op, c, kids, min, max, greedy, cap]: c the character or set, *)
(* max = -1 for no upper bound, cap = 0 for a group that captures nothing. *)
(***************************************************************************)
EXTENDS Integers, Sequences, SequencesExt

CONSTANTS Trees,        \* the patterns, as trees the parser can produce
          Texts,        \* the texts, sequences of characters
          StepLimit,    \* STEP_LIMIT
          DepthLimit,   \* DEPTH_LIMIT
          WordChars       \* the characters \w matches

VARIABLES tree, pattern, text, answer
regexVars == <<tree, pattern, text, answer>>

Node(op, c, kids) ==
  [op |-> op, c |-> c, kids |-> kids, min |-> 0, max |-> 0, greedy |-> TRUE, cap |-> 0]
Empty == Node("empty", "", <<>>)
Char(c) == Node("char", c, <<>>)
Repeat(t, min, max, greedy) ==
  [Node("repeat", "", <<t>>) EXCEPT !.min = min, !.max = max, !.greedy = greedy]
Group(cap, t) == [Node("group", "", <<t>>) EXCEPT !.cap = cap]

\* The character or set a one-character node stands for: "." is anything but a
\* newline, "\\w" and "\\W" a word character or not.
Matches(t, ch) == CASE t.op = "char" -> ch = t.c
                    [] t.op = "any" -> ch # "\n"
                    [] t.op = "class" -> (ch \in WordChars) = (t.c = "w")
                    [] OTHER -> FALSE

-----------------------------------------------------------------------------
\* The parser.  A result is [ok, tree, pos, groups].

Res(t, pos, groups) == [ok |-> TRUE, tree |-> t, pos |-> pos, groups |-> groups]
Bad == [ok |-> FALSE, tree |-> Empty, pos |-> 0, groups |-> 0]
PeekIs(s, pos, c) == pos <= Len(s) /\ s[pos] = c
Digits == <<"0", "1", "2", "3">>
IsDigit(s, pos) == pos <= Len(s) /\ s[pos] \in Range(Digits)
Value(s, pos) == (CHOOSE d \in DOMAIN Digits : Digits[d] = s[pos]) - 1

\* try_parse_brace: {n}, {n,} or {n,m} at pos, or not a quantifier at all.
Brace(s, pos) ==
  LET no == [ok |-> FALSE, min |-> 0, max |-> 0, pos |-> pos]
      yes(min, max, end) == [ok |-> TRUE, min |-> min, max |-> max, pos |-> end]
  IN IF ~IsDigit(s, pos + 1) THEN no
     ELSE IF PeekIs(s, pos + 2, "}") THEN yes(Value(s, pos + 1), Value(s, pos + 1), pos + 3)
     ELSE IF ~PeekIs(s, pos + 2, ",") THEN no
     ELSE IF PeekIs(s, pos + 3, "}") THEN yes(Value(s, pos + 1), -1, pos + 4)
     ELSE IF IsDigit(s, pos + 3) /\ PeekIs(s, pos + 4, "}")
          THEN yes(Value(s, pos + 1), Value(s, pos + 3), pos + 5)
     ELSE no

\* The quantifier at pos, if there is one.
Quantifier(s, pos) ==
  LET one(min, max) == [ok |-> TRUE, min |-> min, max |-> max, pos |-> pos + 1]
  IN CASE PeekIs(s, pos, "*") -> one(0, -1)
       [] PeekIs(s, pos, "+") -> one(1, -1)
       [] PeekIs(s, pos, "?") -> one(0, 1)
       [] PeekIs(s, pos, "{") -> Brace(s, pos)
       [] OTHER -> [ok |-> FALSE, min |-> 0, max |-> 0, pos |-> pos]

Joined(items) == CASE Len(items) = 0 -> Empty
                   [] Len(items) = 1 -> items[1]
                   [] OTHER -> Node("concat", "", items)

Escape(s, pos) ==
  IF pos > Len(s) THEN [ok |-> FALSE, tree |-> Empty]
  ELSE [ok |-> TRUE, tree |-> CASE s[pos] \in {"w", "W"} -> Node("class", s[pos], <<>>)
                                [] s[pos] = "n" -> Char("\n")
                                [] OTHER -> Char(s[pos])]

RECURSIVE ParseBranches(_, _, _, _), NextBranch(_, _, _), ParseConcat(_, _, _, _), NextItem(_, _, _),
          ParseRepeat(_, _, _), ParseAtom(_, _, _)

ParseAlt(s, pos, groups) == ParseBranches(s, pos, groups, <<>>)

ParseBranches(s, pos, groups, done) == NextBranch(s, ParseConcat(s, pos, groups, <<>>), done)
NextBranch(s, r, done) ==
  LET all == Append(done, r.tree)
  IN IF ~r.ok THEN Bad
     ELSE IF PeekIs(s, r.pos, "|") THEN ParseBranches(s, r.pos + 1, r.groups, all)
     ELSE Res(IF Len(all) = 1 THEN all[1] ELSE Node("alt", "", all), r.pos, r.groups)

ParseConcat(s, pos, groups, items) ==
  IF pos > Len(s) \/ PeekIs(s, pos, "|") \/ PeekIs(s, pos, ")") THEN Res(Joined(items), pos, groups)
  ELSE NextItem(s, ParseRepeat(s, pos, groups), items)
NextItem(s, r, items) == IF r.ok THEN ParseConcat(s, r.pos, r.groups, Append(items, r.tree)) ELSE Bad

Repeated(s, atom, q) ==
  LET lazy == PeekIs(s, q.pos, "?")
  IN IF ~atom.ok \/ ~q.ok THEN atom
     ELSE Res(Repeat(atom.tree, q.min, q.max, ~lazy), IF lazy THEN q.pos + 1 ELSE q.pos, atom.groups)
QuantifiedAtom(s, atom) == Repeated(s, atom, Quantifier(s, atom.pos))
ParseRepeat(s, pos, groups) == QuantifiedAtom(s, ParseAtom(s, pos, groups))

Closed(s, cap, r) == IF r.ok /\ PeekIs(s, r.pos, ")") THEN Res(Group(cap, r.tree), r.pos + 1, r.groups) ELSE Bad
ParseAtom(s, pos, groups) ==
  CASE PeekIs(s, pos, "(") ->
         LET plain == PeekIs(s, pos + 1, "?") /\ PeekIs(s, pos + 2, ":")
             opened == IF plain THEN groups ELSE groups + 1
         IN Closed(s, IF plain THEN 0 ELSE opened, ParseAlt(s, IF plain THEN pos + 3 ELSE pos + 1, opened))
    [] PeekIs(s, pos, ".") -> Res(Node("any", "", <<>>), pos + 1, groups)
    [] PeekIs(s, pos, "^") -> Res(Node("start", "", <<>>), pos + 1, groups)
    [] PeekIs(s, pos, "$") -> Res(Node("end", "", <<>>), pos + 1, groups)
    [] PeekIs(s, pos, "\\") -> LET e == Escape(s, pos + 1)
                               IN IF e.ok THEN Res(e.tree, pos + 2, groups) ELSE Bad
    [] PeekIs(s, pos, ")") -> Bad
    [] OTHER -> Res(Char(s[pos]), pos + 1, groups)

-----------------------------------------------------------------------------
\* The compiler: instructions [op, c, x, y] after those already emitted.

Inst(op, c, x, y) == [op |-> op, c |-> c, x |-> x, y |-> y]
SplitGreedily(a, b, greedy) == Inst("split", "", a, b)
Split(a, b, greedy) == IF greedy THEN Inst("split", "", a, b) ELSE Inst("split", "", b, a)

RECURSIVE Emit(_, _), EmitAll(_, _), EmitCopies(_, _, _), EmitBranches(_, _), EmitOptional(_, _, _, _)
EmitAll(kids, out) == IF kids = <<>> THEN out ELSE EmitAll(Tail(kids), Emit(Head(kids), out))
EmitCopies(t, n, out) == IF n = 0 THEN out ELSE EmitCopies(t, n - 1, Emit(t, out))

\* Addresses to the end are patched once it is known: 0 until then.
Patched(out, from, end) ==
  [i \in DOMAIN out |-> IF i < from THEN out[i]
                        ELSE [out[i] EXCEPT !.x = IF @ = 0 /\ out[i].op \in {"jump", "split"} THEN end ELSE @,
                                            !.y = IF @ = 0 /\ out[i].op = "split" THEN end ELSE @]]

EmitBranches(kids, out) ==
  IF Len(kids) = 1 THEN Emit(kids[1], out)
  ELSE LET body == Emit(Head(kids), Append(out, Inst("hole", "", 0, 0)))
           jump == Append(body, Inst("jump", "", 0, 0))
           split == [jump EXCEPT ![Len(out) + 1] = Inst("split", "", Len(out) + 2, Len(jump) + 1)]
       IN EmitBranches(Tail(kids), split)

EmitOptional(t, n, greedy, out) ==
  IF n = 0 THEN out
  ELSE LET body == Emit(t, Append(out, Inst("hole", "", 0, 0)))
       IN EmitOptional(t, n - 1, greedy,
                       [body EXCEPT ![Len(out) + 1] = Split(Len(out) + 2, 0, greedy)])

Star(t, greedy, out) ==
  LET body == Append(Emit(t, Append(out, Inst("hole", "", 0, 0))), Inst("jump", "", Len(out) + 1, 0))
  IN [body EXCEPT ![Len(out) + 1] = Split(Len(out) + 2, Len(body) + 1, greedy)]

Emit(t, out) ==
  CASE t.op = "empty" -> out
    [] t.op \in {"char", "any", "class"} -> Append(out, Inst(t.op, t.c, 0, 0))
    [] t.op \in {"start", "end"} -> Append(out, Inst(t.op, "", 0, 0))
    [] t.op = "concat" -> EmitAll(t.kids, out)
    [] t.op = "group" ->
         IF t.cap = 0 THEN Emit(t.kids[1], out)
         ELSE Append(Emit(t.kids[1], Append(out, Inst("save", "", 2 * t.cap + 1, 0))),
                     Inst("save", "", 2 * t.cap + 2, 0))
    [] t.op = "alt" ->
         LET all == EmitBranches(t.kids, out)
         IN Patched(all, Len(out) + 1, Len(all) + 1)
    [] t.op = "repeat" ->
         LET must == EmitCopies(t.kids[1], t.min, out)
         IN IF t.max = -1 THEN Star(t.kids[1], t.greedy, must)
            ELSE LET all == EmitOptional(t.kids[1], IF t.max > t.min THEN t.max - t.min ELSE 0,
                                         t.greedy, must)
                 IN Patched(all, Len(must) + 1, Len(all) + 1)

Compile(t) == Append(Emit(t, <<>>), Inst("match", "", 0, 0))

-----------------------------------------------------------------------------
\* The machine, from instruction pc at position sp (the characters before it).
\* Where a Save or a Split tries something it recurses, one frame deeper.

Fail(steps) == [end |-> -1, saves |-> <<>>, steps |-> steps]

RECURSIVE Run(_, _, _, _, _, _, _)
Run(prog, txt, pc, sp, saves, depth, steps) ==
  LET i == prog[pc]
      now == steps + 1
      on(pc2, sp2) == Run(prog, txt, pc2, sp2, saves, depth, now)
  IN CASE depth > DepthLimit -> Fail(steps)
       [] depth <= DepthLimit /\ now > StepLimit -> Fail(now)
       [] OTHER ->
          CASE i.op \in {"char", "any", "class"} ->
                 IF sp < Len(txt) /\ Matches(i, txt[sp + 1]) THEN on(pc + 1, sp + 1) ELSE Fail(now)
            [] i.op = "start" -> IF sp = 0 THEN on(pc + 1, sp) ELSE Fail(now)
            [] i.op = "end" -> IF sp = Len(txt) THEN on(pc + 1, sp) ELSE Fail(now)
            [] i.op = "jump" -> on(i.x, sp)
            [] i.op = "match" -> [end |-> sp, saves |-> saves, steps |-> now]
            [] i.op = "save" -> Run(prog, txt, pc + 1, sp, [saves EXCEPT ![i.x] = sp], depth + 1, now)
            [] i.op = "split" ->
                 LET r == Run(prog, txt, i.x, sp, saves, depth + 1, now)
                 IN IF r.end # -1 THEN r ELSE Run(prog, txt, i.y, sp, saves, depth, r.steps)

\* The leftmost match at or after `from`, with a fresh budget at every start.
None == [start |-> -1, end |-> -1, saves |-> <<>>]
NoSaves(groups) == [k \in 1 .. 2 * (groups + 1) |-> -1]
RECURSIVE Search(_, _, _, _), Tried(_, _, _, _, _)
Search(prog, groups, txt, from) ==
  Tried(prog, groups, txt, from, Run(prog, txt, 1, from, NoSaves(groups), 0, 0))
Tried(prog, groups, txt, from, r) ==
  IF r.end # -1
  THEN [start |-> from, end |-> r.end, saves |-> [r.saves EXCEPT ![1] = from, ![2] = r.end]]
  ELSE IF from >= Len(txt) THEN None
  ELSE Search(prog, groups, txt, from + 1)

Slice(txt, a, b) == SubSeq(txt, a + 1, b)
Captured(txt, saves, g) ==
  IF saves[2 * g + 1] = -1 \/ saves[2 * g + 2] = -1 THEN <<"null">>
  ELSE Slice(txt, saves[2 * g + 1], saves[2 * g + 2])

\* Where the text not yet copied starts after a match and the character kept.
Resumed(m, kept) == IF kept # <<>> THEN m.start + 1 ELSE m.end

RECURSIVE FindFrom(_, _, _, _), FindAfter(_, _, _, _), SplitFrom(_, _, _, _, _), SplitAfter(_, _, _, _, _, _),
          ReplaceFrom(_, _, _, _, _), ReplaceAfter(_, _, _, _, _)
FindFrom(prog, groups, txt, from) == FindAfter(prog, groups, txt, Search(prog, groups, txt, from))
FindAfter(prog, groups, txt, m) ==
  LET next == IF m.end > m.start THEN m.end ELSE m.end + 1
  IN IF m = None THEN <<>>
     ELSE <<Slice(txt, m.start, m.end)>>
            \o (IF next > Len(txt) THEN <<>> ELSE FindFrom(prog, groups, txt, next))

SplitFrom(prog, groups, txt, last, from) ==
  SplitAfter(prog, groups, txt, last, from, Search(prog, groups, txt, from))
SplitAfter(prog, groups, txt, last, from, m) ==
  LET rest == <<Slice(txt, last, Len(txt))>>
  IN IF m = None THEN rest
     ELSE IF m.end = m.start
          THEN IF from >= Len(txt) THEN rest ELSE SplitFrom(prog, groups, txt, last, from + 1)
     ELSE <<Slice(txt, last, m.start)>> \o SplitFrom(prog, groups, txt, m.end, m.end)

\* The replacement "[$&]": the whole match between brackets.
Expanded(txt, m) == <<"[">> \o Slice(txt, m.start, m.end) \o <<"]">>
ReplaceFrom(prog, groups, txt, last, from) ==
  ReplaceAfter(prog, groups, txt, last, Search(prog, groups, txt, from))
ReplaceAfter(prog, groups, txt, last, m) ==
  LET empty == m.end = m.start
      kept == IF empty /\ m.start < Len(txt) THEN <<txt[m.start + 1]>> ELSE <<>>
      last2 == Resumed(m, kept)
      from2 == IF empty THEN m.start + 1 ELSE m.end
  IN IF m = None THEN Slice(txt, last, Len(txt))
     ELSE Slice(txt, last, m.start) \o Expanded(txt, m) \o kept
            \o (IF from2 > Len(txt) THEN Slice(txt, last2, Len(txt))
                 ELSE ReplaceFrom(prog, groups, txt, last2, from2))

-----------------------------------------------------------------------------
\* The characters a tree is written with.
RECURSIVE Written(_), WrittenAll(_, _)
WrittenAll(kids, between) ==
  IF Len(kids) = 1 THEN Written(kids[1]) ELSE Written(Head(kids)) \o between \o WrittenAll(Tail(kids), between)
Mark(t) == (CASE t.max = -1 /\ t.min = 0 -> <<"*">>
              [] t.max = -1 /\ t.min = 1 -> <<"+">>
              [] t.max = -1 /\ t.min > 1 -> <<"{", Digits[t.min + 1], ",", "}">>
              [] t.max = 1 /\ t.min = 0 -> <<"?">>
              [] t.max = t.min -> <<"{", Digits[t.min + 1], "}">>
              [] OTHER -> <<"{", Digits[t.min + 1], ",", Digits[t.max + 1], "}">>)
           \o (IF t.greedy THEN <<>> ELSE <<"?">>)
Written(t) ==
  CASE t.op = "empty" -> <<>>
    [] t.op = "char" -> IF t.c = "\n" THEN <<"\\", "n">>
                        ELSE IF t.c \in {".", "*", "(", "|", "\\"} THEN <<"\\", t.c>> ELSE <<t.c>>
    [] t.op = "any" -> <<".">>
    [] t.op = "class" -> <<"\\", t.c>>
    [] t.op = "start" -> <<"^">>
    [] t.op = "end" -> <<"$">>
    [] t.op = "concat" -> WrittenAll(t.kids, <<>>)
    [] t.op = "alt" -> WrittenAll(t.kids, <<"|">>)
    [] t.op = "group" -> (IF t.cap = 0 THEN <<"(", "?", ":">> ELSE <<"(">>) \o Written(t.kids[1]) \o <<")">>
    [] t.op = "repeat" -> Written(t.kids[1]) \o Mark(t)

\* What a tree means: the ways it can match from a position, best first, each
\* with the groups it captured.  A repetition that consumes nothing is the last.
Then(ws, F(_)) == FlattenSeq([k \in DOMAIN ws |-> F(ws[k])])
RECURSIVE Ways(_, _, _), AllWays(_, _, _), Times(_, _, _, _, _)
AllWays(kids, txt, w) ==
  IF kids = <<>> THEN <<w>> ELSE Then(Ways(Head(kids), txt, w), LAMBDA x : AllWays(Tail(kids), txt, x))
Times(t, min, max, txt, w) ==
  LET again(x) == IF min = 0 /\ max = -1 /\ x.at = w.at THEN <<x>>
                  ELSE Times(t, IF min = 0 THEN 0 ELSE min - 1, IF max = -1 THEN -1 ELSE max - 1, txt, x)
      more == IF max = 0 THEN <<>> ELSE Then(Ways(t.kids[1], txt, w), again)
  IN IF min > 0 THEN more ELSE IF t.greedy THEN more \o <<w>> ELSE <<w>> \o more
Ways(t, txt, w) ==
  CASE t.op = "empty" -> <<w>>
    [] t.op \in {"char", "any", "class"} ->
         IF w.at < Len(txt) /\ Matches(t, txt[w.at + 1]) THEN <<[w EXCEPT !.at = @ + 1]>> ELSE <<>>
    [] t.op = "start" -> IF w.at = 0 THEN <<w>> ELSE <<>>
    [] t.op = "end" -> IF w.at = Len(txt) THEN <<w>> ELSE <<>>
    [] t.op = "concat" -> AllWays(t.kids, txt, w)
    [] t.op = "alt" -> Then(t.kids, LAMBDA k : Ways(k, txt, w))
    [] t.op = "group" ->
         Then(Ways(t.kids[1], txt, w),
              LAMBDA x : <<IF t.cap = 0 THEN x
                           ELSE [x EXCEPT !.saves = [@ EXCEPT ![2 * t.cap + 1] = w.at, ![2 * t.cap + 2] = x.at]]>>)
    [] t.op = "repeat" ->
         Times(t, t.min, IF t.max = -1 THEN -1 ELSE IF t.max < t.min THEN t.min ELSE t.max, txt, w)

Meaning(t, groups, txt) ==
  LET from(i) == Ways(t, txt, [at |-> i, saves |-> NoSaves(groups)])
      starts == {i \in 0 .. Len(txt) : from(i) # <<>>}
      first == CHOOSE i \in starts : \A j \in starts : i <= j
      w == Head(from(first))
  IN IF starts = {} THEN None
     ELSE [start |-> first, end |-> w.at, saves |-> [w.saves EXCEPT ![1] = first, ![2] = w.at]]

-----------------------------------------------------------------------------
Parsed == LET r == ParseAlt(pattern, 1, 0)
          IN IF r.ok /\ r.pos = Len(pattern) + 1 THEN r ELSE Bad
Groups(r, m) == IF m = None THEN <<>> ELSE [g \in 1 .. r.groups + 1 |-> Captured(text, m.saves, g - 1)]

NoAnswer == [op |-> "none", parts |-> <<>>, groups |-> 0, prog |-> <<>>]

Init == /\ tree \in Trees
        /\ text \in Texts
        /\ pattern = Written(tree)
        /\ answer = NoAnswer

\* Every method parses and compiles the pattern first; a bad one is an error.
Answered(op, Result(_, _), r, prog) ==
  IF r.ok THEN [op |-> op, parts |-> Result(r, prog), groups |-> r.groups, prog |-> prog]
  ELSE [NoAnswer EXCEPT !.op = "error"]
Compiled(op, Result(_, _), r) == Answered(op, Result, r, Compile(r.tree))
Call(op, Result(_, _)) ==
  /\ answer = NoAnswer
  /\ answer' = Compiled(op, Result, Parsed)
  /\ UNCHANGED <<tree, pattern, text>>

Test == Call("test", LAMBDA r, prog : IF Search(prog, r.groups, text, 0) = None THEN <<>> ELSE <<text>>)
Match == Call("match", LAMBDA r, prog : Groups(r, Search(prog, r.groups, text, 0)))
FindAll == Call("findAll", LAMBDA r, prog : FindFrom(prog, r.groups, text, 0))
SplitText == Call("split", LAMBDA r, prog : SplitFrom(prog, r.groups, text, 0, 0))
Replace == Call("replace", LAMBDA r, prog : <<ReplaceFrom(prog, r.groups, text, 0, 0)>>)

Next == Test \/ Match \/ FindAll \/ SplitText \/ Replace
Spec == Init /\ [][Next]_regexVars

-----------------------------------------------------------------------------
\* Through the parser, the compiler and the machine, a pattern matches what
\* the tree it was written from means, and captures the same groups.
AsMeant(m) == /\ answer.op = "match" => answer.parts = Groups(answer, m)
              /\ answer.op = "test" => (answer.parts # <<>>) = (m # None)
MatchIsItsMeaning ==
  /\ answer.op # "error"
  /\ answer.op \in {"match", "test"} => AsMeant(Meaning(tree, answer.groups, text))
\* Taking the brackets a replacement added away gives the text back, what
\* stands between them is what findAll returns, and the pieces of a split and
\* the matches that are not empty make the text.
NotBracket(c) == c \notin {"[", "]"}
Rebuilds(found) ==
  LET whole == SelectSeq(found, LAMBDA p : p # <<>>)
  IN /\ answer.op = "replace" =>
          /\ SelectSeq(answer.parts[1], NotBracket) = text
          /\ Len(SelectSeq(answer.parts[1], LAMBDA c : c = "[")) = Len(found)
     /\ answer.op = "split" =>
          text = FlattenSeq([k \in DOMAIN answer.parts |->
                               answer.parts[k] \o (IF k = Len(answer.parts) THEN <<>> ELSE whole[k])])
PiecesRebuildTheText ==
  answer.op \in {"replace", "split"} => Rebuilds(FindFrom(answer.prog, answer.groups, text, 0))
=============================================================================
