---------------------------- MODULE NameBinding ----------------------------
(***************************************************************************)
(* What a name means: the cells it is bound to while a program runs        *)
(* (FlashScopes, extended here) and the names an import brings (Imports).  *)
(* A run is of one of three kinds: bodies inside bodies, without a global; *)
(* a global with closures and instances that outlive the bodies that made  *)
(* them; files that import one another.                                    *)
(***************************************************************************)
EXTENDS FlashScopes

CONSTANTS MaxCalls,                        \* bound on the frames above a global
          Files, EntryFile, Cwd, Packages, Urls, Cache, Specs,
          Declared,                        \* names of top-level declarations
          Kinds, MaxModules, MaxStatements

ASSUME NamesAssumption ==
  This \notin Locals \cup Globals /\ NoName \notin Locals \cup Globals \cup {This}
ASSUME ImportsAssumption ==
  /\ EntryFile \in Files /\ IsFiniteSet(Files)
  /\ Kinds \subseteq {"class", "let", "split"} /\ "not a module" \notin Declared
ASSUME BoundsAssumption ==
  {MaxCells, MaxVids, MaxMentions, MaxFrames, MaxCalls, MaxModules, MaxStatements} \subseteq Nat

VARIABLES program,                         \* the kind of program this run is
          text, broken, failed, stack, bound, loaded, exports, current, fault

modules == <<text, broken, failed, stack, bound, loaded, exports, current, fault>>
nameVars == <<program, vars, modules>>

M == INSTANCE Imports WITH Names <- Declared

OneFile == text = 0 /\ broken = 0 /\ failed = 0 /\ stack = 0 /\ bound = 0
           /\ loaded = 0 /\ exports = 0 /\ current = 0 /\ fault = 0

\* Programs whose globals outlive bodies store no function in a field.
NoFieldFunctions ==
  \A a \in {garena, sarena} : \A i \in DOMAIN a : a[i].val.fn \/ a[i].val = Data

NameInit == /\ Init
            /\ \/ program \in {"bodies", "globals"} /\ OneFile
               \/ program = "files" /\ M!Init
NameNext ==
  /\ \/ program = "bodies" /\ Next /\ UNCHANGED gbinds /\ UNCHANGED modules
     \/ /\ program = "globals" /\ Next /\ UNCHANGED modules
        /\ NoFieldFunctions' /\ Len(frames') <= MaxCalls
     \/ program = "files" /\ M!Next /\ UNCHANGED vars
  /\ UNCHANGED program
NameSpec == NameInit /\ [][NameNext]_nameVars

-----------------------------------------------------------------------------
\* The static walk over the imports promises the names that are there when the
\* program has run, and no name the program can use is unknown to it.
ImportedNamesAreExact == program = "files" => M!PromisedNamesArrive /\ M!NothingUsableIsRejected
\* However an import ends, no file runs twice at a time, the directory and the
\* exports are those of the file that is running again, and what was bound
\* before the module ran is bound after it.
ImportsLeaveTheirImporter ==
  /\ [](program = "files" => M!NoFileIsReentered /\ M!ContextIsTheRunningFile)
  /\ [][program = "files" /\ Len(stack') < Len(stack) => M!Top.before \subseteq bound']_nameVars
=============================================================================
