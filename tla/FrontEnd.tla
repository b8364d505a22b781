------------------------------- MODULE FrontEnd -----------------------------
(***************************************************************************)
(* What reads a program without running it: the lexer, the parser, the     *)
(* compiler's lowering, the outline of a document and the language server. *)
(* A run uses one of them, chosen at its start; the others stay blank.     *)
(* The language server is extended, so that Init, Next, vars and the       *)
(* properties of its module are its own; the others are instances.         *)
(***************************************************************************)
EXTENDS Integers, LanguageServer

CONSTANTS Families,                              \* Lexer
          MaxTokens, MaxWraps, MaxSlipped, MaxParseDepth,        \* Parser
          MaxSize, Features,                     \* Compiler
          Names, MaxConstructs, MaxStray         \* Outline

ASSUME FrontEndAssumption ==
  {MaxTokens, MaxWraps, MaxSlipped, MaxParseDepth, MaxSize, MaxConstructs, MaxStray, Budget, MaxSent, MaxVersion} \subseteq Nat

VARIABLES used,                                  \* the part this run uses
          family, source, reader, tokens, faults,
          form, slip, input, cursor, program, reported,
          draft, phase, blocks, at, mach,
          doc, open, stray, scan

lexerVars == <<family, source, reader, tokens, faults>>
parserVars == <<form, slip, input, cursor, program, reported>>
compilerVars == <<draft, phase, blocks, at, mach>>
outlineVars == <<doc, open, stray, scan>>
frontEndVars == <<used, lexerVars, parserVars, compilerVars, outlineVars, vars>>

L == INSTANCE Lexer
P == INSTANCE Parser
C == INSTANCE Compiler
O == INSTANCE Outline

NoText == family = 0 /\ source = 0 /\ reader = 0 /\ tokens = 0 /\ faults = 0
NoFile == form = 0 /\ slip = 0 /\ input = 0 /\ cursor = 0 /\ program = 0 /\ reported = 0
NoProgram == draft = 0 /\ phase = 0 /\ blocks = 0 /\ at = 0 /\ mach = 0
NoDocument == doc = 0 /\ open = 0 /\ stray = 0 /\ scan = 0

FrontEndInit ==
  /\ used \in {"lexer", "parser", "compiler", "outline", "server"}
  /\ IF used = "lexer" THEN L!Init ELSE NoText
  /\ IF used = "parser" THEN P!Init ELSE NoFile
  /\ IF used = "compiler" THEN C!Init ELSE NoProgram
  /\ IF used = "outline" THEN O!Init ELSE NoDocument
  /\ Init

Rest(name) ==
  /\ IF name = "lexer" THEN TRUE ELSE UNCHANGED lexerVars
  /\ IF name = "parser" THEN TRUE ELSE UNCHANGED parserVars
  /\ IF name = "compiler" THEN TRUE ELSE UNCHANGED compilerVars
  /\ IF name = "outline" THEN TRUE ELSE UNCHANGED outlineVars
  /\ IF name = "server" THEN TRUE ELSE UNCHANGED vars
  /\ UNCHANGED used

FrontEndNext ==
  \/ used = "lexer" /\ L!Next /\ Rest("lexer")
  \/ used = "parser" /\ P!Next /\ Rest("parser")
  \/ used = "compiler" /\ C!Next /\ Rest("compiler")
  \/ used = "outline" /\ O!Next /\ Rest("outline")
  \/ used = "server" /\ Next /\ Rest("server")

\* The server goes on as long as there is something to read or a job under way.
FrontEndSpec ==
  /\ FrontEndInit /\ [][FrontEndNext]_frontEndVars
  /\ WF_frontEndVars(used = "server" /\ Server /\ Rest("server"))

-----------------------------------------------------------------------------
\* Lexing: a token is the longest form that starts where it does, at its true
\* place, and what is no form is an illegal token with its own code.
TokensAreAsWritten == used = "lexer" => L!TokensAreAsWritten
\* Parsing: what is written for a tree is read as that tree, whatever is
\* wrapped in what, or refused with an error; a chain of operators is refused
\* from the ceiling on.
ProgramIsAsWritten == used = "parser" => P!ProgramIsAsWritten
\* A wrong token costs no other statement, unless it was a brace or ended its
\* own.
AnErrorIsContained == used = "parser" => P!AnErrorIsContained
\* What is compiled does what the interpreter does, in the same order, and is
\* at no point ahead of it; every block has a label of its own and every jump
\* one to go to; what has no compiled form is refused as a whole.
SameBehaviour ==
  used = "compiler" => C!BlocksAreClosed /\ C!NeverAhead /\ C!SameBehaviour /\ C!LoweringIsAtomic
\* The outline shows every declaration in the one around it, and the token
\* scan, where it can, shows what the tree does and leaves what it entered.
OutlineIsComplete ==
  used = "outline" => /\ O!NothingIsHidden /\ O!NestsLikeTheTree
                      /\ O!ScanFollowsTheTree /\ O!ScanLeavesEverything
=============================================================================
