------------------------------ MODULE Outline ------------------------------
(***************************************************************************)
(* What the language server shows of a document's declarations.  A         *)
(* document that parses is read from the tree (semantic.rs); one that does *)
(* not, and every .szx, from its tokens by a scan that counts braces       *)
(* (lsp/analysis.rs).  document_symbols (lsp/server.rs) then nests the     *)
(* symbols by the names of their containers.                               *)
(*                                                                         *)
(* A document is written from its first token to its last, and the scan,   *)
(* which never looks back, follows the writing.                            *)
(***************************************************************************)
EXTENDS Integers, Sequences, SequencesExt, FiniteSets

CONSTANTS
  Names,          \* identifiers
  MaxConstructs,  \* bound on the constructs of a document
  MaxStray        \* bound on closing braces that close nothing

VARIABLES
  doc,    \* constructs in source order, each with the index of the one around it
  open,   \* indexes of the constructs still open, innermost last
  stray,  \* closing braces that closed nothing
  scan    \* the token scan: brace depth, class_stack, callable_stack, symbols

vars == <<doc, open, stray, scan>>

None == "-"

-----------------------------------------------------------------------------
(* Constructs.  A lambda is one bound by a let, a call one whose last       *)
(* argument is a lambda; "bodyless" is `f(int x) => e;` or a native fn.      *)

Callable == {"fn", "method", "ctor"}
Bodies == Callable \cup {"lambda", "call", "block"}
Declaring == Callable \cup {"lambda", "class", "field", "let", "bodyless"}
Openers == Bodies \cup {"class"}

Around == IF open = <<>> THEN 0 ELSE Last(open)
KindAround == IF Around = 0 THEN "block" ELSE doc[Around].kind

\* Members in the order the tree keeps them: fields, methods, constructor.
MemberRank(kind) == CASE kind = "field" -> 1 [] kind = "method" -> 2 [] kind = "ctor" -> 3
Allowed(kind, name) ==
  IF KindAround = "class"
  THEN /\ kind \in {"field", "method", "ctor"}
       /\ \A i \in DOMAIN doc : doc[i].up = Around => /\ MemberRank(doc[i].kind) <= MemberRank(kind)
                                                      /\ doc[i].kind # "ctor"
       /\ (kind = "ctor") = (name = doc[Around].name)
  ELSE kind \in {"fn", "lambda", "call", "block", "class", "let", "bodyless"}

-----------------------------------------------------------------------------
(* scan_symbols. *)

Innermost ==
  LET c == scan.classes f == scan.callables
  IN IF c # <<>> /\ (f = <<>> \/ Last(f).depth < Last(c).depth) THEN Last(c).name
     ELSE IF f # <<>> THEN Last(f).name ELSE None

Found(name, in) == Append(scan.symbols, [name |-> name, in |-> in])
Named(name) == [name |-> name, depth |-> scan.depth + 1]

\* push_callable: a body is expected at the next brace.
Callables(kind, name) ==
  IF kind \in Callable \cup {"bodyless"} THEN Append(scan.callables, Named(name)) ELSE scan.callables

Scanned(kind, name) ==
  [depth |-> scan.depth + (IF kind \in Openers THEN 1 ELSE 0),
   classes |-> IF kind = "class" THEN Append(scan.classes, Named(name)) ELSE scan.classes,
   callables |-> Callables(kind, name),
   symbols |-> CASE kind = "class" -> Found(name, None)
                 [] kind = "field" -> Found(name, Last(scan.classes).name)
                 [] kind \in Declaring \ {"class", "field"} -> Found(name, Innermost)
                 [] OTHER -> scan.symbols]

\* Stack entries whose body a closing brace ends.
LeaveAll(stack, depth) == SelectSeq(stack, LAMBDA c : c.depth <= depth)

RBrace ==
  LET depth == scan.depth - 1
      c == scan.classes
  IN [scan EXCEPT !.depth = depth,
        !.classes = IF c # <<>> /\ depth < Last(c).depth THEN Front(c) ELSE c,
        !.callables = LeaveAll(scan.callables, depth)]

-----------------------------------------------------------------------------
(* Writing a document. *)

Init ==
  /\ doc = <<>> /\ open = <<>> /\ stray = 0
  /\ scan = [depth |-> 0, classes |-> <<>>, callables |-> <<>>, symbols |-> <<>>]

Write(kind, name) ==
  /\ Len(doc) < MaxConstructs /\ Allowed(kind, name)
  /\ doc' = Append(doc, [kind |-> kind, name |-> name, up |-> Around])
  /\ open' = IF kind \in Openers THEN Append(open, Len(doc) + 1) ELSE open
  /\ scan' = Scanned(kind, name)
  /\ UNCHANGED stray

Close ==
  /\ open # <<>>
  /\ open' = Front(open) /\ scan' = RBrace
  /\ UNCHANGED <<doc, stray>>

StrayBrace ==
  /\ open = <<>> /\ stray < MaxStray
  /\ stray' = stray + 1 /\ scan' = RBrace
  /\ UNCHANGED <<doc, open>>

Next ==
  \/ \E kind \in Declaring \cup {"call", "block"}, name \in Names : Write(kind, name)
  \/ Close
  \/ StrayBrace

Spec == Init /\ [][Next]_vars

-----------------------------------------------------------------------------
(* semantic::declarations. *)

\* The container given to what construct i holds, itself in `outer`: a callee
\* only where no declaration is around it.
Context(i, outer) ==
  CASE doc[i].kind = "block" -> outer
    [] doc[i].kind = "call" -> IF outer # None THEN outer ELSE doc[i].name
    [] OTHER -> doc[i].name

ContainerIn ==
  LET in[i \in 0 .. Len(doc)] == IF i = 0 THEN None ELSE Context(i, in[doc[i].up]) IN in

Declarations == SelectSeq([i \in DOMAIN doc |-> [i |-> i, kind |-> doc[i].kind, name |-> doc[i].name,
                                                 in |-> ContainerIn[doc[i].up]]],
                          LAMBDA s : s.kind \in Declaring)

-----------------------------------------------------------------------------
(* document_symbols: the index each symbol is shown under, 0 for the root.  *)

Hidden == -1

RECURSIVE ChildrenOf(_, _, _)
ChildrenOf(symbols, parent, placed) ==
  LET mine == {i \in DOMAIN symbols : /\ i # parent /\ placed[i] = Hidden
                                      /\ symbols[i].in = symbols[parent].name}
      claimed == [i \in DOMAIN placed |-> IF i \in mine THEN parent ELSE placed[i]]
  IN FoldLeft(LAMBDA p, i : IF i \in mine THEN ChildrenOf(symbols, i, p) ELSE p,
              claimed, [i \in DOMAIN symbols |-> i])

\* mutant: a symbol in a container of another file is no root
IsRootStrict(symbols, i) == symbols[i].in = None

IsRoot(symbols, i) ==
  symbols[i].in = None \/ symbols[i].in \notin {symbols[j].name : j \in DOMAIN symbols}

DocumentSymbols(symbols) ==
  FoldLeft(LAMBDA p, i : IF p[i] # Hidden \/ ~IsRoot(symbols, i) THEN p
                         ELSE ChildrenOf(symbols, i, [p EXCEPT ![i] = 0]),
           [i \in DOMAIN symbols |-> Hidden], [i \in DOMAIN symbols |-> i])

-----------------------------------------------------------------------------
(* Properties, of documents as they are written. *)

Parses == open = <<>> /\ stray = 0
DeclaredNames == {doc[i].name : i \in {j \in DOMAIN doc : doc[j].kind \in Declaring}}

\* Callees that serve as a container and name a declaration of this document.
LocalCallees ==
  {i \in DOMAIN doc : /\ doc[i].kind = "call" /\ doc[i].name \in DeclaredNames
                      /\ ContainerIn[doc[i].up] = None}

\* The outline hides nothing the document declares: not what a lambda in a
\* call to an imported function declares, nor what shares its name with
\* something else (server.rs, document_symbols).
NothingIsHidden ==
  Parses /\ LocalCallees = {} =>
    LET shown == DocumentSymbols(Declarations) IN \A i \in DOMAIN shown : shown[i] # Hidden

\* The declaration around another, by the tree.
Enclosing ==
  LET decl[i \in 0 .. Len(doc)] ==
        CASE i = 0 -> 0
          [] doc[i].kind = "ctor" -> doc[i].up
          [] doc[i].kind \in Declaring -> i
          [] OTHER -> decl[doc[i].up]
  IN decl

NamesAreDistinct ==
  \A i, j \in DOMAIN doc :
    i # j /\ {doc[i].kind, doc[j].kind} \subseteq Declaring \ {"ctor"} => doc[i].name # doc[j].name

\* Where names are distinct each declaration is shown in the one around it,
\* what a constructor declares in its class.
NestsLikeTheTree ==
  Parses /\ NamesAreDistinct /\ LocalCallees = {} =>
    LET symbols == Declarations
        shown == DocumentSymbols(symbols)
        at == [i \in DOMAIN symbols |-> IF shown[i] \in {0, Hidden} THEN 0 ELSE symbols[shown[i]].i]
    IN \A i \in DOMAIN symbols : shown[i] # Hidden => at[i] = Enclosing[doc[symbols[i].i].up]

\* In a document of functions, top-level classes and lets the token scan puts
\* every symbol in the container the tree does, braces too many or not, as
\* soon as the text before it has been read.
ScanFollowsTheTree ==
  (\A i \in DOMAIN doc : /\ doc[i].kind \notin {"bodyless", "lambda", "call"}
                         /\ doc[i].kind = "class" => doc[i].up = 0) =>
    LET tree == Declarations
    IN /\ Len(scan.symbols) = Len(tree)
       /\ \A i \in DOMAIN tree : scan.symbols[i] = [name |-> tree[i].name, in |-> tree[i].in]

\* Where the scan has read all of the text it has left everything it entered,
\* a function without a body excepted.
ScanLeavesEverything ==
  Parses /\ (\A i \in DOMAIN doc : doc[i].kind # "bodyless") =>
    scan.depth = 0 /\ scan.classes = <<>> /\ scan.callables = <<>>
=============================================================================
