------------------------------- MODULE Imports -------------------------------
(***************************************************************************)
(* `import` and `export`: src/src/modules.rs, eval_import, eval_import_url *)
(* and eval_export of src/src/evaluator/stmt.rs, and the static account of *)
(* the same thing in src/src/semantic/imports.rs, which decides before the *)
(* program runs which names its imports will bring.                        *)
(*                                                                         *)
(* An import runs a file in the importer's own global scope.  A module     *)
(* that exports nothing leaves all it declared; one that exports anything  *)
(* has its other declarations taken away again when it ends.  What a file  *)
(* says is chosen while it runs and kept in `text`, so that the static     *)
(* walk of the finished program can be compared with what really happened. *)
(***************************************************************************)
EXTENDS Naturals, Sequences, FiniteSets, SequencesExt

CONSTANTS Files,          \* records [dir, name]: the files on disk
          EntryFile,          \* the file that is run
          Cwd, Packages,  \* the directories searched after the importer's own
          Urls,           \* import strings that are URLs
          Cache,          \* the directory their downloads are kept in
          Specs,          \* the other import strings
          Names,          \* names of top-level declarations
          Kinds,          \* the kinds of declaration the files use
          MaxModules,     \* MAX_MODULES: how many files the static walk reads
          MaxStatements   \* bound on the statements of all files together

VARIABLES text,     \* what each file says, as far as it has been run
          broken,   \* the files that turned out not to parse
          failed,   \* the files a failure ended
          stack,    \* the imports in progress, the entry file first
          bound,    \* the names the global scope and the registries hold
          loaded,   \* ModuleContext.loaded
          exports,  \* ModuleContext.exports
          current,  \* ModuleContext.current_dir
          fault     \* what is being unwound, or how the program ended

vars == <<text, broken, failed, stack, bound, loaded, exports, current, fault>>

NoFile == [dir |-> "none", name |-> "none"]
NoExports == {"not a module"}
UrlFiles == [dir : {Cache}, name : Urls]
Modules == Files \cup UrlFiles
Dirs == {f.dir : f \in Modules}

Declare(kind, name, export) == [op |-> kind, name |-> name, flag |-> export]
Import(spec, guarded) == [op |-> "import", name |-> spec, flag |-> guarded]

\* `class` and its like live in registries, `let` and `fn` in the scope; a
\* destructuring let binds names too but has no declaration_name, so it cannot
\* be exported.
Declarations == {Declare(k, n, e) : k \in Kinds, n \in Names, e \in BOOLEAN}
                    \ {Declare("split", n, TRUE) : n \in Names}

(***************************************************************************)
(* Which file an import string means                                       *)
(***************************************************************************)
SearchDirs(dir) == <<dir, Cwd, Packages>>

Resolve(spec, dir) ==
    LET Hit(d) == [dir |-> d, name |-> spec]
        at == SelectInSeq(SearchDirs(dir), LAMBDA d : Hit(d) \in Files)
    IN  IF at = 0 THEN NoFile ELSE Hit(SearchDirs(dir)[at])

(***************************************************************************)
(* Running                                                                 *)
(***************************************************************************)
Top == Last(stack)
Here == Top.file
Depth == Len(stack)
Written == text[Here]
Size == FoldFunction(LAMBDA t, n : Len(t) + n, 0, text)
Running == fault = "none" /\ Size < MaxStatements
Write(s) == text' = [text EXCEPT ![Here] = Append(@, s)]

\* An import inside a `try` runs in the block's frame: what the module binds
\* there by `let` goes with the block.
InBlock == \E i \in 1..Depth : stack[i].guarded

DeclaredIn(t) == {s.name : s \in {r \in Range(t) : r.op \in {"class", "let"} /\ ~r.flag}}
ExportedIn(t) == {s.name : s \in {r \in Range(t) : r.op \in {"class", "let"} /\ r.flag}}
SplitIn(t) == {s.name : s \in {r \in Range(t) : r.op = "split"}}

Init == /\ text = [f \in Modules |-> <<>>]
        /\ broken = {} /\ failed = {}
        /\ stack = <<[file |-> EntryFile, dir |-> EntryFile.dir, exports |-> NoExports,
                      before |-> {}, guarded |-> FALSE]>>
        /\ bound = {}
        /\ loaded = {EntryFile}
        /\ exports = NoExports
        /\ current = EntryFile.dir
        /\ fault = "none"

\* eval_export: only a module has exports to add to.
Registered(s) == IF s.flag /\ exports # NoExports THEN exports \cup {s.name} ELSE exports

\* A top-level declaration, exported or not, of a name the file has not
\* declared yet.
EvalDeclaration ==
    /\ Running
    /\ \E s \in Declarations :
        /\ s.name \notin {r.name : r \in Range(Written)}
        /\ Write(s)
        /\ bound' = IF s.op # "class" /\ InBlock THEN bound ELSE bound \cup {s.name}
        /\ exports' = Registered(s)
    /\ UNCHANGED <<broken, failed, stack, loaded, current, fault>>

\* ModuleNotFound is a thrown string, and only a `try` in the same file
\* catches it: on its way through eval_program it loses its value.
NotFound(guarded) ==
    /\ fault' = IF guarded THEN "none" ELSE "fatal"
    /\ UNCHANGED <<broken, failed, stack, bound, loaded, exports, current>>

\* A module that cannot be read or parsed: the path is already recorded.
Unreadable(f, guarded) ==
    /\ loaded' = loaded \cup {f}
    /\ broken' = broken \cup {f}
    /\ fault' = IF guarded THEN "none" ELSE "error"
    /\ UNCHANGED <<failed, stack, bound, exports, current>>

Enter(f, guarded) ==
    /\ loaded' = loaded \cup {f}
    /\ stack' = Append(stack, [file |-> f, dir |-> current, exports |-> exports,
                               before |-> bound, guarded |-> guarded])
    /\ exports' = {}
    /\ current' = f.dir
    /\ UNCHANGED <<broken, failed, bound, fault>>

\* What follows once the path is known: a module runs once.
Load(f, guarded) ==
    \/ /\ f \in loaded
       /\ UNCHANGED <<broken, failed, stack, bound, loaded, exports, current, fault>>
    \/ f \notin loaded /\ Unreadable(f, guarded)
    \/ f \notin loaded /\ Enter(f, guarded)

EvalImport ==
    /\ Running
    /\ \E spec \in Specs, guarded \in BOOLEAN :
        LET f == Resolve(spec, current)
        IN  /\ Write(Import(spec, guarded))
            /\ IF f = NoFile THEN NotFound(guarded) ELSE Load(f, guarded)

\* eval_import_url: the cached copy, or the download, or neither.
EvalUrl ==
    /\ Running
    /\ \E url \in Urls, guarded \in BOOLEAN :
        /\ Write(Import(url, guarded))
        /\ NotFound(guarded) \/ Load([dir |-> Cache, name |-> url], guarded)

\* A runtime failure in the running file.
EvalFail ==
    /\ Running
    /\ fault' = "error"
    /\ UNCHANGED <<text, broken, failed, stack, bound, loaded, exports, current>>

\* mutant: everything a module added and did not export is dropped, its
\* imports' names included
KeptOwn(frame) == {n \in bound : n \in frame.before \/ n \in exports}

\* mutant: private names are dropped whether or not the importer had them
KeptNew(frame) == {n \in bound : n \in exports \/ n \notin DeclaredIn(text[frame.file])}

\* What a finished module with exports leaves behind.
Kept(frame) == {n \in bound : \/ n \in frame.before \/ n \in exports
                              \/ n \notin DeclaredIn(text[frame.file])}

\* The same of a module from a URL.
KeptUrl(frame) == {n \in bound : n \in frame.before \/ n \in exports}

\* mutant: current_dir is not restored after a module
LeaveDirectory == /\ stack' = Front(stack)
                  /\ exports' = Top.exports
                  /\ UNCHANGED current

Leave == /\ stack' = Front(stack)
         /\ exports' = Top.exports
         /\ current' = Top.dir

EndModule ==
    /\ fault = "none" /\ Depth > 1
    /\ Leave
    /\ bound' = IF exports = {} THEN bound
                 ELSE IF Here \in UrlFiles THEN KeptUrl(Top) ELSE Kept(Top)
    /\ UNCHANGED <<text, broken, failed, loaded, fault>>

\* The module failed: the context is restored, its names are not looked at.
\* A recorded error can be caught by the `try` around the import; a throw
\* that crossed a file boundary no longer can.  The rest of the file is seen
\* by the static walk alone, and an export in it changes what that makes of
\* the file.
Unwind ==
    /\ fault \in {"error", "fatal"} /\ Depth > 1
    /\ Leave
    /\ failed' = failed \cup {Here}
    /\ \E rest \in {<<>>} \cup {<<s>> : s \in {d \in Declarations : d.flag}} :
        text' = [text EXCEPT ![Here] = @ \o rest]
    /\ fault' = IF Top.guarded /\ fault = "error" THEN "none" ELSE fault
    /\ UNCHANGED <<broken, bound, loaded>>

EndProgram ==
    /\ Depth = 1 /\ fault # "done"
    /\ fault' = "done"
    /\ UNCHANGED <<text, broken, failed, stack, bound, loaded, exports, current>>

Next == EvalDeclaration \/ EvalImport \/ EvalUrl \/ EvalFail \/ EndModule \/ Unwind \/ EndProgram

Spec == Init /\ [][Next]_vars

(***************************************************************************)
(* The static account: semantic::imports                                   *)
(***************************************************************************)

Contributed(t) == IF ExportedIn(t) = {} THEN DeclaredIn(t) \cup SplitIn(t)
                  ELSE ExportedIn(t)

\* What a file says, each statement with the directory its imports are resolved
\* from.
Said(f) == [i \in DOMAIN text[f] |-> [stmt |-> text[f][i], dir |-> f.dir]]

\* What is found walking the imports among the statements in `todo`, depth
\* first, when the files in `seen` have been; a file is recorded before it is read.
Statements == [op : Kinds \cup {"import"}, name : Names \cup Specs \cup Urls, flag : BOOLEAN]
Walks == [todo : Seq([stmt : Statements, dir : Dirs]), seen : SUBSET Modules]
Unfollowed(p, seen) == \/ p.stmt.name \in Urls \/ Cardinality(seen) >= MaxModules
                       \/ Resolve(p.stmt.name, p.dir) = NoFile
Found(ns, all) == [names |-> ns, complete |-> all]

Walk[w \in Walks] ==
    IF w.todo = <<>> THEN Found({}, TRUE)
    ELSE LET p == Head(w.todo)
             f == Resolve(p.stmt.name, p.dir)
             After(first, seen) == Walk[[todo |-> first \o Tail(w.todo), seen |-> seen]]
         IN  IF p.stmt.op # "import" THEN After(<<>>, w.seen)
             ELSE IF Unfollowed(p, w.seen) THEN [After(<<>>, w.seen) EXCEPT !.complete = FALSE]
             ELSE IF f \in w.seen THEN After(<<>>, w.seen)
             ELSE IF f \in broken
             THEN [After(<<>>, w.seen \cup {f}) EXCEPT !.complete = FALSE]
             ELSE [After(Said(f), w.seen \cup {f}) EXCEPT !.names = @ \cup Contributed(text[f])]

ImportedNames == Walk[[todo |-> Said(EntryFile), seen |-> {EntryFile}]]

\* seed_globals: what the entry file binds itself.
OwnNames == DeclaredIn(text[EntryFile]) \cup ExportedIn(text[EntryFile]) \cup SplitIn(text[EntryFile])

(***************************************************************************)
(* Properties                                                              *)
(***************************************************************************)
TypeOK ==
    /\ DOMAIN text = Modules
    /\ broken \cup failed \subseteq loaded /\ loaded \subseteq Modules
    /\ Depth \in 1..Cardinality(Modules)
    /\ bound \subseteq Names
    /\ exports \in {NoExports} \cup SUBSET Names
    /\ fault \in {"none", "error", "fatal", "done"}

\* An import cycle ends: no file is ever running twice (LoadedModules::mark
\* records the path before the body runs).
NoFileIsReentered == \A i, j \in 1..Depth : stack[i].file = stack[j].file => i = j

\* Relative imports are resolved from the file that is running and exports go
\* to it, however the imports before it ended (the push and pop of
\* ModuleContext in eval_import, on every early return).
ContextIsTheRunningFile ==
    /\ current = Here.dir
    /\ fault = "none" =>
        exports = IF Depth = 1 THEN NoExports ELSE ExportedIn(Written)

Exporting == {f \in Modules : ExportedIn(text[f]) # {}}

\* Nothing the program can use is reported as undeclared before it runs: what
\* is bound while the entry file runs is its own or one of the ImportedNames,
\* unless the graph was not all read.  Two kinds of name escape the static
\* walk, and no others: what an exporting module destructures, and what a
\* module had declared when it failed and the failure was caught.
NothingUsableIsRejected ==
    Depth = 1 /\ fault = "none" /\ ImportedNames.complete =>
        bound \subseteq OwnNames \cup ImportedNames.names
                          \cup (UNION {SplitIn(text[f]) : f \in Exporting})
                          \cup (UNION {DeclaredIn(text[f]) : f \in failed})

\* The converse: a name the static walk promises is there once the program
\* has run to its end, unless an exporting module declares a name of its own
\* like it, or a `try` held the import.
PromisedNamesArrive ==
    Depth = 1 /\ fault = "none" /\ ImportedNames.complete
    /\ (\A f \in Modules : \A s \in Range(text[f]) : s.op = "import" => ~s.flag) =>
        ImportedNames.names \ UNION {DeclaredIn(text[f]) : f \in Exporting} \subseteq bound

\* An import takes nothing away from the importer: what was bound before the
\* module ran is bound after it, however many modules ran inside it and
\* whatever private declarations shared its names.
ImportTakesNothingAway ==
    [][Depth' < Depth => Top.before \subseteq bound']_vars

\* spec/modules.md on a module that exports: "Everything else it declared at
\* its own top level is removed when it finishes loading."
ExportingModulesHideTheRest ==
    [][\A f \in Exporting : f = Here /\ fault = "none" /\ Depth' < Depth =>
          (DeclaredIn(text[f]) \cup SplitIn(text[f])) \cap bound'
              \subseteq exports \cup Top.before]_vars

==============================================================================
