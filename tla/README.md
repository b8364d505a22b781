# Verification of the Serez interpreter and package manager

Serez is a programming language: a tree-walking interpreter in Rust (`src/src`),
its command `sz`, which is also a package manager, a language server and a set
of native libraries.  This directory holds TLA+ modules for the parts whose
correctness depends on an order of events or on many steps agreeing with each
other: what a crash leaves on disk, which memory cell a closure still points
at, what a `finally` does to a failure that is passing through, what two threads
do to one registry, what a cache says after the data changed, whether a
compiled body does what the interpreted one does.

All line numbers below are lines of `src/src/...` unless another path is given.

## 1. Inventory

The modelled parts are in bold; `PROJECT.json` names the sources and the status
of each row, and lists the hazards at their lines.

| Component | State it keeps | Operations | What is hard | What makes it correct |
|---|---|---|---|---|
| **Package installation** (`package_install.rs`) | `packages/<name>`, staging and parked directories, `serez.lock`, `serez.json`, the journal | stage, verify, plan, the three renames of a swap, recovery, drop of parked trees | a crash between any two writes; one write of several failing; recovery that crashes too | tree, manifest and lockfile change as one; no package is lost; a pinned digest is never replaced |
| **Package commands** (`package_manager.rs`; in part) | the same files, in memory for one command | install, install all, update, uninstall, `-g` forms; publish, login, init | metadata read before the recovery and used after it; a command that stops half way through a list | the lockfile lists what is installed |
| **Scopes, arenas, closure cells** (`scope.rs`, `region.rs`) | frames with watermarks, a scoped arena, a global arena, global bindings, instance fields | push/pop, declare, lookup, assign, promote a captured cell and rebind its names | truncation of an arena while references into it are alive; a promotion that misses one alias | no reference outlives its cell; one variable is one cell |
| **Evaluator core** (`evaluator/mod.rs`, `stmt.rs`, `expr.rs`, `classes.rs`, `lvalue.rs`; in part) | class/interface/enum registries, call depth and stack, yield collector, loaded modules, permissions | declarations, expressions, calls, construction, methods, patches, nested writes | a reference resolved, then arguments evaluated, then the reference used | evaluation order; a write lands at its place |
| **Control flow and failures** (`control.rs`, `stmt.rs`, `mod.rs`, `execution.rs`) | scope frames, `call_depth`, `try_depth`, `last_error`, `error_generation` | loops, blocks, calls, try/catch/finally, jumps, return, throw, failures | every exit of every construct must restore the same counters; a `finally` that itself fails | balance on all exits; jumps stop at their own target; a failure keeps its payload; fatal failures are not caught |
| **Tasks** (`namespaces_task.rs`) | one registry of records shared by all threads of a runtime, under a mutex | `Task.run`, `reply`, `poll`, `isDone`, end of a worker, eviction | the lock is released to spawn a thread; a nested `Task.run`; eviction racing the end of a worker | ceilings; an active worker keeps its record; a task ends once and its result never changes |
| **Lexer and tokens** (`lexer.rs`, `token.rs`; in part) | a cursor, a line and a column, a stack of open interpolations | one token at a time; strings, interpolation, numbers, comments | the longest form; where a form that does not end leaves the cursor | the tokens are those of the text, at their places |
| **Parser** (`parser/`) | cursor and peeked token, depth guard, what a function has pushed | recursive descent, recovery after an error | two tokens of lookahead over an ambiguous grammar; the ceiling; recovery that must advance | the tree is the one written; an error costs one statement |
| Semantic phase, types (`semantic/`, `type_checker*`) | scopes of names | static walks | agreement with the evaluator | rejects what would not resolve |
| **HIR, MIR, LLVM** (`compiler/`; in part) | blocks under construction, targets of `break` and `continue` | lowering of statements and expressions | a jump out of a construct half lowered; evaluation order; a condition evaluated twice | same trace as the interpreter |
| **Values and operators** (`environment.rs`, `ops.rs`; in part) | none | arithmetic, comparison, equality, type tests | overflow; four notions of equality; mixed kinds | the notions agree; an integer never wraps |
| **Collections, regex, dates** (`methods_array.rs`, `region.rs`, `regex_engine.rs`, `namespaces_datetime.rs`; in part) | values in cells; the lazy hash index; the backtracking machine | push, set, sort with a callback; lookups; matching; calendar sums | a callback that mutates what is iterated; a stale index; a machine with two limits; the ends of months | the index agrees with the data; a match is the pattern's meaning |
| **Tensors, autodiff** (`namespaces_autodiff.rs`, `methods_tensor.rs`, layer files; in part) | tensors, the tape with its tables of nodes and gradients, weight files | record, backward, layers, shape methods, optimisers, save/load | a rule that reads what was overwritten; gradients that accumulate once too often; flat indices | gradients are derivatives; elements are where their index says |
| **Memory, GPU, sockets, processes** (`namespaces_{memory,gpu,socket,os}.rs`; in part) | tables of blocks, buffers, listeners, connections, children | calls with handles; frames of a WebSocket; harvest of children | a handle used after its end; callbacks that free what is mapped; a peer that sends anything; threads per child | a closed handle is refused; bytes in order; every child reported once |
| **Handle tables** (`handles.rs`) | id to object | insert, get, remove | reuse, exhaustion | ids are never reused |
| **Graphical interface** (`namespaces_gui.rs`; in part; `namespaces_gui/*` no) | windows shared by two threads under a mutex, a queue of commands, snapshots and input per window | open, present, close, idle wait, file dialog | who closes what while the other waits; a session that ends inside its own pump | every call returns; input is handed over once |
| **Language server** (`lsp/`; in part) | open documents, analyses, an import cache | requests and notifications on stdin | stale versions; a cached import | an answer is for the current text; diagnostics converge |
| **Modules and imports** (`modules.rs`, `stmt.rs`, `semantic/imports.rs`; in part) | loaded and loading modules, current directory, exports | resolve, load once, export, failure half way | cycles; a module that fails; the static account of the same thing | what an import promises arrives; the importer is left as it was |
| Native namespaces without state (`namespaces_*.rs`) | none | hashes, random numbers, binary formats, media | | |
| Errors, diagnostics (`diagnostic.rs`, `render.rs`) | none | records, formatting | | |
| Command line (`main.rs`, `run.rs`) | none | wiring | | |

## 2. How the parts interact

`sz` parses its arguments (`main.rs`) and either runs a program, serves an
editor, compiles, or runs a package command.  A program goes through lexer,
parser and semantic phase, each a function from its input to its output, then to
one `Evaluator`, which owns all the run-time state in the table: the tree is
walked by mutually recursive `eval_` functions, so the Rust call stack is part
of the program's state.  That recursion couples the scopes and the control flow:
each construct pushes a frame (whose watermark will truncate the arena),
evaluates a body that may end in any of the flows of `EvalResult`, and must pop
what it pushed on every one of them.  Natives call back into the evaluator
through the same call path, which is where their own tables are at risk.

More than one thread exists in four places.  A task's worker is a whole
evaluator of its own, sharing nothing but the registry (`Arc<TaskRuntime>`),
whose mutex is never held while a script runs.  The window library wants the
process's first thread, so a program with windows runs on a second one and the
two share one record under a mutex.  `OS.spawn` gives each child a reader
thread.  `run_child_bounded` drains a child's two pipes with two threads.
Package commands share nothing with an evaluator; they interact with earlier
and later `sz` processes through the disk.

The parts therefore have narrow interfaces and one module each.  What one takes
from another is stated as an abstraction at the head of the module (for example,
`ControlFlow` keeps of a payload only the depth of the frame its cell lives in,
which is the fact `FlashScopes` needs to hold).  Parts that live in one process
but share no state are composed side by side, in four modules that INSTANCE
them, or extend those whose properties are also proved:

| Composite | Parts |
|---|---|
| `FrontEnd` | `Lexer`, `Parser` (over `Grammar`), `Compiler`, `Outline`, `LanguageServer` (extended) |
| `Library` | `Autodiff`, `Layers`, `TensorShapes`, `Training` (extended), `HashIndex` (extended), `ArrayMethods` (extended), `Places`, `RegexEngine`, `Calendar`, `Values` (extended) |
| `Natives` | `RawMemory`, `GpuBuffers`, `Sockets`, `WebSocket`, `Processes`, `ChildOutput`, `GuiHost`, `Tasks` (extended) |
| `NameBinding` | `FlashScopes` (extended; bodies without globals, globals), `Imports` |

Since such parts take no step together, a behaviour of all of them is a
behaviour of each and interleaving them would only multiply states: a behaviour
chooses one at its start (`used`, `program`) and the others stay at a blank
initial state.  Each property of a composite says which part it is about.

## 3. The modules and the code

### Packages

**`PackageInstall.tla`** - `package_install.rs` and the commands of
`package_manager.rs` that drive it.  One action is one filesystem step, so a
crash can fall between any two.  `tree`, `parked`, `staging`, `lock`,
`manifest`, `journal` are the disk; `pc` and `run` are the process.  The order of
`pc` is the order of the code: `StartInstall*` (the command), `RecoverPending`
(read or discard the journal), `LoadManifest`, `NextItem`, `Restore` (a parked
tree whose destination is missing goes back), `RemoveStale`, `Stage`, `Verify`
(refuse a tree whose version matches the lock line and whose digest does not),
`CreateJournal`/`FlushJournal`, `Apply`, `SwapOut`, `SwapIn`, `DropParked`,
`WriteLock`, `WriteManifest`, `RemoveJournal`; uninstall is `RemoveTree`,
`RemoveDependency`, `RemoveLine`, `WipeOne`/`WipeDone`.  Faults: `Crash`
anywhere, `CrashTruncating` in the middle of a write that is made in place,
`WriteFails`, `SwapFails`.
**`ProjectState.tla`** - the abstract specification: a project's state changes
by whole installs only.  `PackageInstall` implements it under the mapping
`EffectiveTree`/`EffectiveLock`/`EffectiveManifest`: while a journal waits, the
state is the one the journal will establish.
**`PackageInstallProofs.tla`** - theorems (section 6).
**`MCPackageInstall.tla`** - the releases and versions of the runs.

### Names, memory and control

**`FlashScopes.tla`** - memory: `garena` and `sarena` are the arenas, `frames`
the scope stack with its watermarks, `gbinds` the globals.  A step is one
statement of a program: `Let`, `LetLambda`, `DeclareFn`, `Assign`,
`AssignLambda`, `SetFieldLambda`, `EnterBlock`/`ExitBlock`, `EnterFor`/
`NextIteration`, `Call`, `CallMethod`/`Return`, `StartNew`/`EndNew`, and
`StartOut`/`EndOut` for a top-level `out` statement.  `Capture` is
`capture_env`: it promotes a scoped cell to the global arena and rebinds each
name that referred to it.  Every cell and every reference carries the identity
(`vid`) it was made for, a ghost by which a reference to a freed or reused slot
shows.
**`Imports.tla`** - `eval_import`, `eval_import_url`, `eval_export`, the
resolution of `modules.rs`, and the static account of the same names in
`semantic/imports.rs`.  `stack` holds the files that are running, `bound` the
global names, `text` what each file was found to say.  `Walk` is the static walk
of that text, statement by statement from the entry file; what it finds is
compared with what really happened.
**`NameBinding.tla`**, **`MCNameBinding.tla`** - their composition and its files.
**`NameBindingProofs.tla`** - theorems about the scopes, the imports and the static
walk over them.

**`ControlFlow.tla`** - `stack` stands for the Rust frames of the `eval_`
functions, `flow` for the `EvalResult` being returned.  Any program text may be
met: a step either enters a construct, raises, jumps, or lets the construct on
top handle the flow exactly as its function does.
**`ControlFlowProofs.tla`** - theorems.

### Before a program runs

**`Lexer.tla`** - one action is one `next_token`; an alphabet per family of
forms, every text over it.  A token's kind, its place and its code are kept.
**`Grammar.tla`**, **`Parser.tla`** - the productions, one per parse function,
as sequences of steps over the current and the peeked token, and the machine
that executes them: push, pop, depth charge, error, `synchronize`.  A sentence
is a form of the language with other forms wrapped in its places, printed and,
perhaps, with one token replaced.
**`Compiler.tla`** - `hir_lower.rs`, `mir_lower.rs` and the operations of
`llvm_emit.rs`, beside an interpreter of the same statements.  A body is drafted
statement by statement, lowered, and the machine's trace compared with the
interpreter's: a call counts itself, so an expression evaluated twice, not at
all or in another order shows.
**`Outline.tla`** - `document_symbols`: the tree's symbols, the token scan used
when a document does not parse, and the nesting by container names.
**`LanguageServer.tla`** - the message loop and an editor that does not wait:
open, change, close, request; files that change under the import cache.
**`LanguageServerProofs.tla`** - theorems.
**`FrontEnd.tla`**, **`MCFrontEnd.tla`** - their composition, the alphabets and
the import graph.

### The evaluator's library

**`Autodiff.tla`** - tensors, the tape and `backward`; beside each tensor its
derivative in forward mode, so that the gradients can be compared with it.
Numbers are integers modulo a prime, where arithmetic is exact.
**`Layers.tla`** - each recorded layer by itself: the method's output, what it
puts on the tape, its backward rule, and the derivative.  `exp`, `tanh`, `ln` and
the root are tables: all that a rule can use of them is their own derivative.
**`TensorShapes.tla`** - the methods that move elements, on flat positions and
strides as in the code, against the same stated on index tuples.
**`Training.tla`** - optimiser steps, `saveWeights`, `loadWeights`, a crash.
**`HashIndex.tla`** - the lazy index of dicts and sets beside the entries, and
every method that reads or changes both.
**`ArrayMethods.tla`** - the array methods that evaluate a callback, a
comparator or an argument, while that code may change the same array.
**`Places.tla`** - writes through chains of fields and indices: receiver copied,
arguments evaluated, the copy carried back.
**`RegexEngine.tla`** - parser, compiler and backtracking machine with its two
limits, against the meaning of the tree a pattern was written from.
**`Calendar.tla`** - instants, fields and the clamped day of a month.
**`Values.tla`** - operators, equalities, truthiness, type tests on every kind.
**`LibraryProofs.tla`** - theorems about `HashIndex`, `ArrayMethods`, `Training` and
`Values`, which `Library` extends, so that the properties the run checks are the formulas
the theorems are about.
**`Library.tla`**, **`MCLibrary.tla`** - their composition, programs and inputs;
the specifications of one part (`DictSpec`, `PlacesSpec`, `LayersSpec`) are for
the findings of section 4.

### Threads and handles

**`Tasks.tla`** - the registry.  An action is what one thread does under one
acquisition of the lock: `Task.run` reserves (evicting if needed), releases the
lock to spawn, and takes it again if the spawn fails; a worker may reply and
then ends with a value or a failure.
**`TaskLifecycle.tla`** - what `src/spec/tasks.md` promises of one task.
`Tasks` implements it.  **`TasksProofs.tla`** - theorems; `Natives` extends `Tasks`,
so that its run checks the formulas they are about.

**`RawMemory.tla`** - the allocator and `Memory`: a step is one call, handles
freed or never issued included.
**`GpuBuffers.tla`** - GPU buffers and `map`, whose callback may allocate, free
and map before it returns.
**`Sockets.tla`** - listeners and connections, one counter of ids, a peer and a
kernel queue; a call may meet a broken connection, and a character may be split
between two reads, of which `recv` (`from_utf8_lossy`) then decodes each half to a
replacement character (`Decoded`).
**`WebSocket.tla`** - `recvWsFrame`'s loop over a stream anybody writes: pings,
fragments, closes, frames cut off, a pong that can no longer be written.
**`Processes.tla`** - `OS.spawn`, `tick` and `kill`: the program, each child and
each reader thread run side by side.  What a kill does to its target is the target's
to decide, except on Windows: it may write on, end as it likes or by the signal.
**`ChildOutput.tla`** - `run_child_bounded`: two pipes, two threads, a ceiling.
**`GuiHost.tla`** - the protocol of the program's thread and the window thread;
an action is one critical section.  `shared` and `cmds` are `SharedInner`,
`host` is where `run_gui_host` is (idle, pumping, deciding whether the session
ends), `script` the call the program is in.
**`Natives.tla`** - these seven and `Tasks`.
**`NativesProofs.tla`** - theorems about the tables of handles and their
contents, and about what children, captures and windows report.

**`DataLemmas.tla`** - facts about sets of numbers, about sequences and about
recursion (when a recursive function is what its equation says) that the proofs
of several components use.

Each module defines some operators marked `\* mutant:` just before the
definition they are a broken version of.  They are used by no specification:
each is a plausible bug (a reset left out, an off-by-one, two writes swapped)
for which a run was seen to find a property violated.  A few modules also keep a
property the documents promise and the code does not hold (`LookupIsLexical`,
`JumpsCrossForIn`, `NothingIsInvented`, `TypesAgree`); no run
checks them, and section 8 says what they show.

## 4. The runs

`tlc -workers 2 -config <run>.cfg <module>`; times are for two workers.

| Run (module) | What it shows |
|---|---|
| `PackageCrash` (`MCPackageInstall`), 283 000 states, 1 min | Installs through crashes and failed writes: `NoTreeBesideOldMetadata`, `LineOnlyForInstalled`, `PinHolds`, the refinement `InstallsAreAtomic`, and `DecidedInstallLands` |
| `PackageUninstall` (`MCPackageInstall`), 662 000 states, 1 min | Installs, uninstalls and `uninstall -g`, one fault of any kind: `NeverLost` |
| `NameBinding` (`MCNameBinding`), 716 000 states, 2.5 min | `NoDangling`, `OneCellPerVariable` for scopes and closures; `ImportedNamesAreExact` (the static account promises what arrives and rejects nothing usable) and `ImportsLeaveTheirImporter` (however an import ends, the file that goes on has its own directory, exports and names) |
| `Flow` (`ControlFlow`), 2.8 million states, 2.5 min | `LeavesNothingBehind`, `JumpsLand`, `FailureKeepsItsPayload` |
| `FrontEnd` (`MCFrontEnd`), 2.5 min | `TokensAreAsWritten`; `ProgramIsAsWritten`, `AnErrorIsContained`; `SameBehaviour` of compiled and interpreted bodies; `OutlineIsComplete`; `AnswersAreCurrent`, `DiagnosticsConverge`, `EveryRequestIsAnswered` of the language server |
| `Library` (`MCLibrary`), 4 min | `GradientIsDerivative`, `AgreesWithIndexing`, `TrainingResumes`, `LookupIsFindFirst`, `MethodsMeanWhatTheySay`, `WritesLandAtTheirPlace`, `MatchIsItsMeaning`, `ArithmeticLandsOnItsDate`, `OperatorsAgree`: each part against a second statement of what it means |
| `Natives` (`Natives`), 3.5 min | `HandlesAreNeverReused`, `BuffersHoldWhatWasWritten`, `StreamsStayInOrder`, `ReportsAreTrue`, `ChildrenAreReported`, `GuiCallsReturn`; of the tasks `SlotsAreActive`, `CeilingsHold` and the refinement `FollowsLifecycle` |
| `StaleIndex` (`MCLibrary`) | violation of `LookupIsFindFirst` |
| `LostWrites` (`MCLibrary`) | violation of `WritesLandAtTheirPlace` |
| `LayerNormGradient` (`MCLibrary`) | violation of `GradientIsDerivative` |
| `CaptureHangs` (`ChildOutput`) | violation of `CallReturns` |
| `LostMessages` (`Processes`) | violation of `FailuresSayWhy` |

The last five are the findings of `PROJECT.json`: each checks a sentence of the
repository against what its code does.

- **StaleIndex.**  region.rs:167 says the index "can never produce a wrong
  answer".  Its stamp is the length and the last key; below the minimum size it
  is neither consulted nor dropped (region.rs:170).  Remove entries down to that
  size, add others, end with the same length and last key: lookups go through the
  index of the old entries.  The passing run has `Floor = IndexMin`, so that a
  container never shrinks below the minimum.
- **LostWrites.**  `o.g.f.push(x)` pushes to a copy nobody keeps (expr.rs:44),
  where spec/values.md:87-98 says the built-in mutators write back through any
  chain.
- **LayerNormGradient.**  The input gradient of `layerNorm` divides by the
  deviation once too often (namespaces_autodiff.rs:933).
- **CaptureHangs.**  A child that goes on writing past the ceiling on stdout
  makes `run_child_bounded` wait for ever (mod.rs:146), where mod.rs:105 says
  such a child is refused.  The passing run writes no more than that (`MaxWrites`
  2).
- **LostMessages.**  A child that writes to its stderr and fails is reported with its
  code and no message if the tick comes before its reader thread has stored the text
  (namespaces_os.rs:902): the job goes with the report, and nothing delivers the
  text later.  spec/processes.md:100-101 says it "is captured and delivered later",
  and the comment at namespaces_os.rs:897 speaks of a join that is not there.  One
  child, one unit of text and no kill suffice.  What the passing run checks is that a
  message that is there is the child's own and whole (`ReportsAreTrue`).

### Bounds, and why they are enough

- *Packages.*  One local and one global package, two versions, three releases
  (version "1" is published twice with different contents), three faults out of
  crash and failed write: an install may crash, its recovery crash, and the
  recovery of that one fail on a write.  Two releases of one version are what a
  pin is for; two versions are what an update is for.  `PackageUninstall` has two
  local packages, where a command on one meets the journal of another, a failing
  rename, and one fault.
- *Scopes.*  A dangling reference or a split variable takes a cell, a frame to
  pop and one alias: two cells, two identities, three nested bodies or a global,
  two calls hold that, with room for a reused slot.
- *Imports.*  Four files in two directories, one of them that of the packages,
  and a URL; at most three modules and four statements: a cycle, a diamond, a
  module that imports and then fails, two modules that declare one name.
- *Flow.*  Each handler looks only at the construct on top and at the counters,
  so a fault needs the construct that goes wrong, the one inside it that
  produces the flow, and the one outside that suffers: three in one another, one
  call deep, one label.  Two failures let one replace another.
- *Tasks.*  Two slots and three records make both limits reachable, separately
  (all slots busy with a record to spare; all records kept with a slot free),
  and five tasks let IDs of forgotten tasks stay forgotten.  `MaxId` 6 also
  reaches the exhaustion of IDs.
- *Scopes.*  Two cells, two identities, one local and one global, functions in
  functions: bodies in three frames with functions in fields, or a global with two
  frames over it.
- *Lexer.*  Six alphabets, each the characters one family of forms is made of,
  and every text of three to six of them: the longest form has three characters,
  and one more shows where it ends.
- *Parser.*  Every form of the language, up to two wrapped around it, at most
  three tokens in a list, one token replaced; a ceiling of 12, so that chains go
  past it.  A production decides on two tokens, so what wraps what matters and a
  third level repeats the second.
- *Compiler.*  Bodies of three statements: a loop, a conditional in it and a jump in that,
  or a loop with an update and something after it.
- *Outline and server.*  Three constructs (a class, a method, something in it),
  one stray brace; one document and three modules that import each other in a
  cycle with a budget of two, three messages sent and two versions of each file.
- *Tape.*  Four tensors, numbers modulo 7, one `set`: a tensor used twice, a
  tape begun again, an input overwritten.  *Layers*: values modulo 31, 
  every number of a layer's inputs moved by itself.  *Shapes*: twelve shapes of up
  to three dimensions, with axes of 1, 2 and 3.  *Training*: three steps, a
  crash at any byte.
- *Index.*  `INDEX_MIN` is 3 here; five entries and five keys of both spellings.
  *Arrays*: up to four elements and one touch of the array per callback.
  *Places*: 17 receivers of up to three steps, two calls, two writes by arguments.
  *Regex*: all trees of a catalogue of operators and their pairs, texts up to three
  of two letters.  *Dates*: 1899 to 1904, so that 1900 is no leap year and 1904 is
  one.  *Values*: words of four bits,
  every kind.
- *Natives.*  Two ids (a handle freed and one issued after it), three buffers and
  a callback in a callback, two children with pipes of one unit, three bytes (one
  character cut in two), two frames; one window of `Gui.open` and one extra, each
  opened twice at most, two frames and two keys.  The sets of `Habits` say what
  program and user do in one behaviour; the combinations left out are the ones of
  section 8.

`CHECK_DEADLOCK FALSE` appears where the modelled thing may stop: a program ends
or meets a bound (`Flow`, `NameBinding`, `Library`, `Natives`), a text is read or
an editor has sent all it will (`FrontEnd`).  A package directory can always take
another command, so deadlock is checked there.

## 5. Fairness

- *Packages* (`FairSpec`).  Weak fairness of the steps of a command: a process
  that has been started and is not killed goes on to the end of `main`; nothing in
  the code waits for anyone.  Strong fairness of starting a local install: a
  recovery happens only "on the next run" (`src/spec/packages.md`), so without a
  next run nothing can be claimed.  It is strong because a start is only possible
  between commands.  Crashes get no fairness and are bounded by `MaxFaults`:
  `DecidedInstallLands` therefore says that an install whose journal is complete
  lands unless faults go on for ever.
- *Language server.*  Weak fairness of the server's loop, which blocks only on its
  input.  The editor owes nothing.
- *Processes and captured output.*  The operating system runs every process and
  every thread, hence weak fairness of each child's writes or exit and of each
  reader; the program polls `tick`, as its documentation asks.  That children end
  is an assumption (`MaxWrites`).
- *Windows.*  Weak fairness of `Return` (a blocked call of the program whose
  condition holds wakes up: each change notifies the condition variable) and of
  `HostStep` (the window thread runs; a pump ends after its 200 ms, a file dialog
  by its user).  Neither the program nor its user owes anything else.

`ControlFlow`, `FlashScopes`, `Imports` and `Tasks` claim no liveness: a Serez
program or a worker's script may loop for ever, and the code does not stop it.

## 6. What is proved

TLAPS checks thirty-one theorems, for all values of the constants that satisfy
the modules' assumptions and the hypotheses the table names.  A hypothesis is a
named operator of the proof module; each is satisfied by the instances of the
runs, and section 8 shows what the code does without it.

| Module | Theorem | States | Hypothesis |
|---|---|---|---|
| `PackageInstallProofs` | `TypeCorrect` | `[]TypeOK` | |
| | `TreeMatchesMetadata` | `[]NoTreeBesideOldMetadata` | `Transactional` |
| | `LinesForInstalledOnly` | `LineOnlyForInstalled` | `Transactional` |
| | `PinsHold` | `PinHolds` | `Transactional` |
| | `CopiesAreKept` | `NeverLost` | |
| | `InstallsImplementProjectState` | `InstallsAreAtomic`: `PackageInstall` implements `ProjectState` | `Transactional` |
| `TasksProofs` | `TypeCorrect` | `[]TasksTypeOK` | |
| | `SlotsAlwaysActive` | `[]SlotsAreActive` | |
| | `CeilingsAlwaysHold` | `[]CeilingsHold` | |
| | `TasksFollowLifecycle` | `FollowsLifecycle`: `Tasks` implements `TaskLifecycle` | |
| `ControlFlowProofs` | `TypeCorrect` | `[]TypeOK` | |
| | `NothingLeftBehind` | `[]LeavesNothingBehind` | |
| | `JumpsReachTheirTarget` | the part of `JumpsLand` about jumps and returns | |
| | `PayloadKept` | `[]FailureKeepsItsPayload` | `NoTryInFinally` |
| | `JumpsLandRight` | `JumpsLand` | `NoTryInFinally` |
| `NameBindingProofs` | `TypeCorrect` | `[]TypeOK` | `NamesOfPrograms`, `PlainCalls` |
| | `NothingDangles` | `[]NoDangling` | `NamesOfPrograms`, `PlainCalls` |
| | `OneCellEach` | `[]OneCellPerVariable` | those and `PlainReceivers` |
| | `ImportersGoOn` | `ImportsLeaveTheirImporter` | |
| | `PromisesAreExact` | `[]ImportedNamesAreExact` | |
| `LanguageServerProofs` | `TypeCorrect` | `[]TypeOK` | `Workspace` |
| | `AnswersCurrent` | `[]AnswersAreCurrent` | `Workspace` |
| | `DiagnosticsAgree` | `[]DiagnosticsConverge` | `Workspace` |
| `NativesProofs` | `HandlesKeepTheirMeaning` | `HandlesAreNeverReused` | |
| | `BytesAreAsWritten` | `BuffersHoldWhatWasWritten` | |
| | `ReportsHold` | `ReportsAreTrue` | `NoStaleClose` |
| | `StreamsKeepTheirOrder` | `[]StreamsStayInOrder` | `NoStaleClose`, `NoLeftoverKeys` |
| `LibraryProofs` | `LookupsAgree` | `[]LookupIsFindFirst` | `OneSpelling`, `StaysLarge` |
| | `MethodsAnswerFromTheirCopy` | `[]MethodsMeanWhatTheySay` | |
| | `TrainingSurvivesCrashes` | `[]TrainingResumes` | |
| | `OperatorsMeanOneThing` | `[]OperatorsAgree` | |

Each property is implied by an inductive invariant, found by asking why a step
could break it and preserved action by action: one lemma per action or group of
actions, and lemmas for the steps that leave a part of the state alone.

**Packages.**  `Transactional` says there are no uninstalls and no failing
renames, in any number of packages and with any number of crashes and failed
writes.  `TypeOK` is not inductive by itself: `Target` reads `journal.pkg`,
which is only a package while a journal is there, so `TypeInv` adds `Control`,
which says what each `pc` has established about `run` and `journal` (a recovery
has a journal, a verified tree has a release and its version, no plan is made
from a torn manifest).  `SafeInv` adds `Safe`:

- `Journalled`: a journal changes its own package's lock line only, and the tree
  it decides on is staged or already in place;
- `Agreement`: tree and lock line agree, but for the package a journal is working
  on;
- `Covered`: a package exists only as a parked copy only between the two renames
  of a journalled swap;
- `Pinned`: a journal never moves a pinned line to another tree of its version;
- and, per `pc`, how far the process has come with the journal.

The journal has to be in the invariant because "the tree agrees with its line" is
false in the middle of a commit, and what makes it true again after a crash is
that the journal still names a tree that is on disk.  The refinement of
`ProjectState` follows from the same invariant, step by step: the effective state
changes when the journal becomes whole and at no other step.  `CopiesAreKept`
needs no hypothesis, because uninstalls and failing renames are what it is about:
`KeptInv` says that parked copies are only dropped, and a destination only
renamed away, while the tree that takes their place is there.

**Tasks.**  From `TextsAssumption` and `LimitsAssumption` (in the code
`MAX_CONCURRENT_TASKS` is 32 and `MAX_TASK_RECORDS` is 256; the proof needs only
that the first is no greater than the second).  The inductive invariant is
`IInv == TasksTypeOK /\ SlotsAreActive /\ IdsInOrder /\ RepliesRecorded`.
`IdsInOrder` (no record, thread or spawn has an ID not yet issued) is what makes
a new record a new one; `RepliesRecorded` (a running record holds what its worker
last said) is what makes a task end with its last reply; `SlotsAreActive` is
needed for the ceilings, because a full registry can only make room if not all
its records are running.

**Control flow.**  `NoTryInFinally` says that programs have no try inside a
finally.  `Inv == Typed /\ Balanced /\ Aimed /\ Planted`: the counters are what
the constructs on the stack account for, one by one; a flow on its way out has
its target below it; a value on its way out lives in a frame that is still
there.  `Balanced` speaks of every construct on the stack and not only of the
top one, since the one on top can only restore what the one below it recorded.
`Pending`, under the hypothesis, adds which failure `last_error` belongs to while
a `finally` runs.  The steps fall into five kinds (`StepKinds`: evaluate on, enter
a construct, turn to another part of the innermost one, leave it, end the
program), and what a kind preserves is proved once.

**Scopes.**  `NamesOfPrograms` says what names a program can have; `PlainCalls`
that it has neither bound methods nor a call in a top-level `out`; `PlainReceivers`
that no argument of a method call captures its receiver, and that locals and
globals are named apart.  `NoDangling` fails with either of the first two, and
`OneCellPerVariable` with the third (section 8).  That locals and globals differ
is needed by the proof, which tells a promoted local from a global by its name;
TLC found no violation where they share one, in as much as it could explore.
`Inv == SoundNow /\ OutIsQuiet /\ Counted`: every reference of a frame, of a
global and of what a reachable closure captured finds the cell of its own
identity, and what lies above a frame's watermark is referred to from that frame
and those above it only.  This last part is why a pop is safe, and `Capture`, which
promotes a cell and rebinds its names, is where it takes work: the lemmas about
`Rebound` say that after it no name at all refers to the old cell.  `Whole`
adds `OwnNow`, that the references to one identity are one reference.
`ProgramsHaveScopes` takes all this from `FlashScopes` to the programs of
`NameBinding`, of which the run checks it.

**Imports.**  Without a hypothesis.  `FilesInv` says of the modules being run that
they are different files, all recorded as loaded; that each one holds the
directory and the exports its importer will go on with, which are those of the
importer's own file and text; that what was bound when a module was entered is
still bound, the innermost having the most; and that a file not yet loaded has
said nothing.  The second part speaks of the whole stack, because leaving a module
uncovers only one importer at a time; the third is why a module that exports,
failing or not, can take away what it declared and nothing else.

`PromisesAreExact` compares a walk of the text with a run of it, and needs no
hypothesis either, only `ImportsAssumption`: there are finitely many files, as
there are on a disk.  Its first half is about the walk.  `Walk` is a recursive
function of the statements still to be looked at and the files seen, and import
cycles make it far from obvious that its equation has a solution.  `WalkIs` shows
that it has, because each call either has a file less to enter, or enters none
and has a statement less to look at (`DataLemmas` concludes from such a descent
that the equation has one solution).  `WalkFinds` says what the walk has found
when it could follow every import: there is a smallest set of files that holds
the entry file and what the imports of its members mean, and the names found are
what its members but the entry file contribute.

The second half is about the run: `PromiseInv` adds to `FilesInv` that the entry
file is the outermost (`EntryFirst`); that what is loaded is in every set of
files with the entry file that is closed under imports (`Reached`); that
every bound name was introduced by a loaded file that is still running, or has
ended and left it (`AllSourced`); and, in programs whose imports are neither in a
`try` nor from a URL, that every import of a loaded file is loaded too and that
each name it introduces is bound or hidden by an exporting module (`Arrived`).
`AllSourced` speaks of every file on the stack, and of what was bound when the one
above it was entered: that is what an exporting module gives back when it
ends, and what decides which names of the modules it imported live on.

**Language server.**  `Workspace` says there is a document, the imports of a
module are modules and the texts are numbered.  `Inv` is the conjunction of
`Typed`, `CacheInOrder` (no cached text is older than the time it is found by),
`JobIsHonest` (what the gathering has taken up was so at some moment since it began),
`InStep` (editor, analyses and diagnostics are each at the text their end of the
stream of messages says), `Answered` (the answers are those of the requests read, in
order) and of what was found for a document having been so when it was gathered.

**Tables.**  `TablesInv == MemoryInv /\ GpuInv /\ SocketInv`: no id yet to be
issued is in use, an id has been in one table only, and, for a map in progress,
its input is what it was given and its output has one element per callback that
has returned.  `HandlesKeepTheirMeaning` says of Memory, GPU and Socket alike that a
freed or closed id names nothing again.  `BytesAreAsWritten` says what each Memory
call may change: nothing when it fails, and when it succeeds the bytes of one layout
(a write), the first n of one buffer, to what the source held before (a copy, also
within one buffer), one whole buffer (a fill), nothing that stays (the others).  Its
write rests on the arithmetic of the layouts (`DecodeEncode`: for every admitted
layout and every value of it, what is encoded is decoded), which `LayoutAssumption`
limits to the layouts of the code.

**Reports.**  `NoStaleClose` says that no behaviour combines a program that closes
its window, and opens another, with a user who closes windows or with redraws:
exactly the combinations in which a session leaves a `Close` to the next
(section 8).  `ProcessInv` counts every child's units in its pipe, its reader
and its report, and says which children are told of, waiting or running;
`OutputInv` does so for the two streams of a capture; `GuiInv` has thirteen
parts, each about one way the two threads could misunderstand each other: which
commands may be under way at which point of the program (`CmdInv`, `ExtraInv`,
`CloseInv`), which windows are marked as closing (`AskedInv`), what a session that
ends leaves (`SessionInv`), what the program holds (`KnownInv`, `FirstInv`,
`ExtraOpenInv`), what the second `Gui.open` finds (`ReopenInv`, `HabitInv`,
`SteadyInv`), and whose answer a dialog's is (`DialogInv`).

**Streams.**  Three streams, three invariants.  `BytesInv`: of every connection,
what is still under way is the rest of what the peer wrote behind what `recv` has
handed over, and that is, byte for byte, what the peer wrote, but for both halves of
a character some `recv` ended within; no two characters share a cut, because the
halves of one stand side by side in what the peer writes (`Whole`).  `FramesInv`: the
receiver is past some number of the peer's frames, what it has answered is what those
frames are owed, or null for a ping met after the end of the connection, and at most
that end, and what is under way is the rest, but for a frame the peer did not end.
This needs what `FlattenSeq` makes of a sequence that is extended or cut, which
`DataLemmas` proves from the definition by a least counterexample.  `KeyInv`: of
every open window, the keys the program was given, those its answered `present`
holds for it and those that wait are, joined, those typed into the window, and a
`present` not yet answered is one the program is waiting for (`Orderly`); a window
that is not born yet has nothing to hand over (`BirthInv`).  It is preserved only
together with `GuiInv`, which says whose commands are under way, and so shares its
hypothesis.  `NoLeftoverKeys` says that a program that opens its first window again
is not typed into where the program or the user may close that window: exactly
there the keys of one window reach the next (section 8).

**Dicts and sets.**  The index is trusted while the length and the last key are
those of its build, so everything depends on what a container can have become
since then.  `OneSpelling` says that no two keys share a canonical spelling, and
`StaysLarge` that no container shrinks below the length from which the index is
consulted; without either the lookup goes wrong (section 8).  From
`KeysAssumption`, that a key's older spelling is the canonical one or empty.
`IndexInv` says that below that length there is no index.  Of a dict it says
(`Since`) that, with s the entries as last indexed, the entries are still s; or
are fewer and one has an empty older spelling; or are s without some entries, all
of the empty ones among them (`Part`); or are such a rest, or s itself if it had
none, with one entry of an empty spelling after it.  The last is why `Since` is
needed: an entry with an empty spelling is the one thing that is added without
the index being told.  Of all these only s itself has the length and the last key
of s.  Removing keeps a subsequence, by a recursive function over the positions:
`KeptSoFar` says what that leaves.  Sets add and delete elements without a
fingerprint past the index as well, so that the positions in it may be wrong;
`Covers` says that, if the length is that of the build, every fingerprint among
the elements is in the index.  A position is checked before it is used, and since no
element is there twice, a position that passes is the first one.

**Arrays.**  From `ArrayAssumption`, that the keys sorted by are integers; every
method may be re-entered.  `ArrayInv` says of
the call that is running (`CallOk`) that a walk has called back once for each
element it is past, in order, with the elements of its copy and not those of the
array (`Heard`, `Walked`), and that none of the answers has decided it; for a call
that ended it is the property.  A sort is `Bubbled`: before comparison j of pass i
the last i - 1 elements are in place, none of the others has a greater key, the
greatest key of the first j elements is at j, and the whole is a rearrangement in
which elements of equal keys have kept their order.  The rearrangement is a
permutation that each swap composes with a transposition (`SwapRearranges`); the
swapped neighbours have different keys, so no equal ones are turned around.  What
`filter` keeps is a recursive function over the calls; the lemmas on what a
subsequence keeps, which removing from a dict already rests on, say what it is.

**Training.**  From `TrainingAssumption`: the modulus gives every number an inverse,
two bytes hold any number and any step, and no bias correction divides by zero.
`TrainingInv` says that the file is the beginning of what one begun save was to write and, until a crash, that
the rest of it is pending (`FileIsPrefix`); that what was loaded is what some save
began to write; and that the moments of the state in memory, and of every state begun
to be saved, are those its step number gives (`MomentsOf`).  `ParsedIs` is the argument
about the file: of a proper prefix of a save the parser has not all it needs, wherever
the prefix ends, and of the whole it makes exactly the state that was saved.

**Operators.**  From `ValuesAssumption`, that every int among the samples fits its
word; the words may have any width and the samples be any values.  The four
equalities are written separately, by different case distinctions over pairs of
types; `Same` is what each comes to on values whose classes define nothing
(`EqualAnswers`, `SwitchIs`, `IncludesIs`), and it is symmetric.  On ints, what is
in the word is exact because `Checked` decides by the exact result; what needs a
proof is that the quotient and remainder of magnitudes, given the signs the code
gives them, are those of the division (`QuotientIs`, `RemainderIs`), that a shift
to the right is the quotient by a power of two (`ShiftedIs`), that any bits added
up with their weights, the last one negative, fit a word (`SumsFit`), and that
these sums subtract bit by bit, so that `^` is `|` less `&` (`XorIs`).  Powers of
two and sums of bits are recursive functions over the positions of a word; that
they are defined is `NumbersAreDefined`, and what holds of them is shown by a least
position at which it would not.

## 7. What is only model-checked

- Liveness: `DecidedInstallLands`, `ChildrenAreReported`,
  `GuiCallsReturn`, `EveryRequestIsAnswered`.  Fairness and `ENABLED` are beyond
  the prover.
- `TokensAreAsWritten`, `ProgramIsAsWritten`, `AnErrorIsContained`,
  `SameBehaviour`, `OutlineIsComplete` and the other
  five properties of `Library`.  What a
  recursive definition computes for every input (the parser's trees, a match's
  meaning, a gradient, a lowering) needs induction over data, which the prover does
  not offer.  A recursive *function* can be reasoned about through a least
  counterexample, as the proofs do for `FlattenSeq` and for the walk over the
  imports; most of these are recursive *operators*, of which not even the equation
  is available.

## 8. Known behaviours outside the passing runs

Apart from the five findings, the following were met while modelling and are
excluded from a passing run, have no property of their own, or are part of what
the properties take as given.  Where a configuration is named, it reproduces the
behaviour.

### Packages

- *Uninstall while a journal waits.*  `sz uninstall` does not recover first
  (package_manager.rs:714): the next install replays the journal and records the
  package again, or a parked tree comes back as the package.  `PackageUninstall`
  with `LineOnlyForInstalled` or `NoTreeBesideOldMetadata` shows it; this is why
  the proofs assume `Transactional`.
- *A failed rename keeps the journal.*  `Transaction::commit` returns the error
  and drops the staging directory while `commit_plan` (package_install.rs:500)
  keeps the journal; the next run finds no staging, takes the swap for done and
  records a package that was never installed.  `PackageCrash` with
  `Faults = {"swap"}` violates `LineOnlyForInstalled`.
- *A torn `serez.lock` on uninstall* (package_manager.rs:952) is written in
  place; a crash in the middle loses the lines, and so the pins, of the other
  packages.  `CrashTruncating` models it; `PinHolds` speaks of the line that is
  there.
- *Two `sz` processes* may each move one destination aside and delete the other's
  parked copy (package_install.rs:595-599 documents the race).

### Names, memory, control

- *A bound method keeps a scoped receiver* (classes.rs:918): add `"boundMethod"`
  to `Features` of `NameBinding` and `NoDangling` fails.
- *`out f();` at top level* truncates the global arena afterwards (mod.rs:1968),
  although `f` may have put a closure there that is still in use: `"outCall"`.
- *A method call resolves its receiver, then evaluates its arguments*
  (classes.rs:930): a lambda among them that captures the receiver moves it, and
  `this` is the old copy: `"receiverArg"`, `OneCellPerVariable`.
- *`lookup` walks the callers' frames before the globals*: `LookupIsLexical`.
- *A nested function cannot call itself once returned* (stmt.rs:108): it captures
  before it is declared.
- *`break outer` inside a for-in* is a runtime failure: `JumpsCrossForIn`.
- *A try/catch run inside the `finally` of a failing try* clears `last_error`; the
  failure goes on without its payload: `"tryInFinally"`, `FailureKeepsItsPayload`.
- *A `return` or `throw` in a `finally` replaces a fatal failure* (control.rs:324),
  as `src/spec/control-flow.md` says a `finally` does, although mod.rs:789-794
  says user code cannot turn a fatal failure into control flow.
- *A bare `Err` may be reported, and caught, as an earlier failure* (mod.rs:1993):
  where one was left in `last_error`, a catch binds that one.  `FailureKeepsItsPayload`
  speaks only of failures that recorded an error of their own.
- *A jump or return inside an operand* (stmt.rs:32), and *a `throw` in the update
  clause of a for* (stmt.rs:413), become a bare `Err`.
- *Imports.*  A failed module stays loaded; one that fails half way leaves its
  private names; a URL module drops the names its own imports brought; the URL
  cache is never revalidated; an import inside a function is resolved against the
  caller's directory; a private name like one that a nested import exported takes
  that one away (stmt.rs:1905-1920, where spec/modules.md:65 says private names
  only); a `ModuleNotFound` cannot be caught across a file.

### Lexer and parser

- A bare `return;` directly in a try, catch, finally, switch or arm block is an
  error (branches.rs:438, though mod.rs:110 calls a stray `;` empty).
- A `match` guard that ends in a name (`x if x < limit =>`) is read as a lambda and
  refused (expressions.rs:95; README.md:1269).
- *Dropped without a word:* `out f(1;`, a mistake in a function's header, an arrow
  function written `int ) ...`: the statement is gone and nothing is reported
  (expressions.rs:822-824).
- A block that is not closed at the end of the file is accepted (mod.rs:341).
- `MAX_PARSE_DEPTH` is not the ceiling on the depth of the tree depth.rs:14-39
  calls it: else-if chains and interpolated strings are not charged, and the first
  operand of a chain is given back before the chain is charged.
- `synchronize` stops at a keyword that `parse_program` then skips
  (mod.rs:118-120): after `return` without `;`, `let T = 1;` becomes `T = 1`.
- `objs[1].f += x` is refused (assignment.rs:233); `a.b.c++` leaves `++`;
  `o?.f = 1` drops the `?`; an arm with a block and no comma ends a `match`; labels
  are read only before `while` and `for`; a name on the line after `break` is taken
  for its label; an `if` or `match` statement merges with a next line that starts
  with `*`, `-`, `(` or `[`; spec/operators.md:150 puts `& ^ |` on one level and
  leaves out `is` (README.md:723 has it right).
- `..` is one `.` token (spec/lexical-grammar.md:125); a NUL ends a string or a
  comment; `²` counts as a digit; the end of a text that ends in a newline is placed
  on the line before it.

### Compiler and editor

- `Features` `"doWhileJump"`: a `continue` in a do-while runs ahead of the
  interpreter; `"operands"`: an operand that calls is evaluated in another order
  (both violate `SameBehaviour`).
- `llvm_emit.rs` has further gaps the model leaves out: loads through a pointer's
  type, parameters never stored, `out` dropped without its runtime function, a
  logical `>>`, wrapping integers, `**` returning its left operand, `??` seeing null
  as 0.
- The token scan hides a declaration after `test(() => { let test = 1; })`, and a
  function without a body stays on its stack of callables.

### Library

- *Tape.*  A second `backward` accumulates through intermediate nodes; the target
  of `mseLoss` gets no gradient; several operations (div, broadcastSub, slice, abs
  and others) are not recorded; `set` gives a tensor a new identity (`MaxSets` 2
  shows the loss of a gradient), as does reading one of `loadWeights`'.
- *Layers.*  Binary cross-entropy does not zero the gradient where it clamps;
  cross-entropy clamps a target forward and not backward; dropout with p = 1 divides
  by zero; an `h0` shorter than the hidden size is padded and its gradient dropped.
- *Shapes.*  `unsqueeze(ndim + 1)` and a `permute` axis past the end panic; an empty
  tensor's `get(0)` and a `matmul` with no columns divide by zero.
- *Training.*  An integer where a decimal is meant falls to the default (momentum 0
  becomes 0.9); weights are written in place, so a crash loses the earlier file.
- *Dicts.*  A decimal key in a literal cannot be read by it; `d[1.5] = x` writes the
  key `""`; `Remove(1.5)` drops every decimal and compound key.
- *A key spelled like another.*  With the string `"2.5"` and the decimal 2.5 both
  among the `Keys`, `LookupIsFindFirst` fails even where no container shrinks below
  the threshold (`OneSpelling`): the string is the last key when the index is built,
  another key is removed, and the decimal is added, past the index.  Length and last
  key are those of the index, and `d["2.5"]` reads the decimal's entry.
- *A dict that shrinks and grows back* (`StaysLarge`): run `StaleIndex`.
- *Arrays.*  What is pushed or popped while `sort`, `unshift` or `remove` runs its
  comparator or argument is overwritten by the copy the method worked on
  (`a.unshift(a.pop())` gives the element back); it stays when the call throws.  The
  passing run has both, and `MethodsMeanWhatTheySay` says that the copy is what is
  written.
- *Places.*  Arguments that write the receiver lose that write; index expressions
  are evaluated twice; `dispatch.mutator` outlives a class declared again
  (lvalue.rs:234).
- *Regex.*  Splitting `""` gives `[""]`; a greedy star over more than 8000
  characters stops at the depth limit.
- *Values.*  `is Set` and `is Tensor` are always false (mod.rs:2566-2604;
  spec/types.md:181): `TypesAgree`; `<<` drops high bits silently; `includes` tells
  1 from 1.0 where `==` does not.

### Processes, sockets, windows

- A ceiling met in `tick` drops the reports already harvested.
- After a connection ends inside a frame `recvWsFrame` may return a message nobody
  sent: `NothingIsInvented`.  A ping that cannot be answered is a null, like the end
  of the connection.  A character that `maxBytes` or the network cuts between two
  calls of `recv` is lost: both calls return a replacement character.  That is as much
  as is lost (`StreamsStayInOrder`).
- *A session that ends inside its own pump.*  With `Habits` `{"reopen", "close",
  "redraw"}`: the request to open the next window is taken up by the session that
  is ending, its window dropped without `window_open = false`, and the next
  `present` waits for ever, while `isOpen` stays true.
- *A window asked for while the first one closes.*  `{"windows", "userCloses"}`: the
  request is discarded (`pending_extra_opens.clear()`) and `openWindow` waits for
  ever.
- *What one window leaves to the next.*  `{"reopen", "userCloses", "close"}`: a
  `Close` not yet taken closes the next window (`ReportsAreTrue`); `{"reopen",
  "types"}` with `"close"` or `"userCloses"`: keys typed into the first arrive in
  the second (`StreamsStayInOrder`).
- `Gui.open` while a window is open waits until its user closes it; `idleWait` misses
  input that came before the call; a press and release between two frames is counted
  in an extra window and lost in the first one (namespaces_gui.rs:2048).

## 9. Abstractions, and what is not modelled

*Packages.*  A release is a tree and its digest; a torn `serez.lock` is cut between
lines, not inside one; `Restore` may pick any parked copy, as the order of a
directory listing is not specified; `sz update` of everything goes on after a
failure, so it is a sequence of single installs; one `sz` process runs at a time;
the user does not edit files between commands.  `publish`, `login`, `init` and the
archive code are not modelled.

*Scopes.*  A value is plain data or a function; temporaries without a name and
`match` are left out; nested writes are in `Places`.  The semantic phase is assumed
to do its job: bodies mention only names in lexical scope.

*Control flow.*  Natives with callbacks, methods and constructors are calls;
generators and `match` are left out; a do-while has no label because the parser
gives it none.

*Tasks.*  `poll` and `isDone` only read; sizes of texts and permissions are
refusals that change nothing; the worker's script is any sequence of replies and
nested `Task.run`s; the host's exit, which kills the workers, ends the behaviour.

*Front end.*  What a string decodes to and a number is worth, the translation of
`.szx`, the spans of tree nodes and the wording of errors; types and functions in
the compiler; completion, hover, references and rename, which read the same state
as the request that is modelled.

*Library.*  Floating point is replaced by a field, in which a rule is right or
wrong whatever its rounding.  Random initialisers, statistics, printing, string and
decimal methods, the binary formats and `DateTime.now` are left out, as are the
natural order of `sort`, `oneHot` and the clipping of gradients.

*Natives.*  The commands to the window thread are a set: it takes all at once and
handles each kind together, so neither their order nor a repetition tells.
Left out are floating-point layouts, the 256 MiB ceiling, `dot`, `axpy` and `matmul`
on the GPU; a key press stands for any input of a window, a redraw for a resize; the
window library delivers events in any order and calls `about_to_wait` at least once
per pump; layout, CSS, fonts and drawing are functions from a tree and a size to
pixels.

Not modelled at all, each with its reason in `PROJECT.json`: the semantic phase and
type checker, namespaces without state, diagnostics, the command line.

## 10. Plan

Modelling so far: packages, memory, control flow and tasks, whose faults stay on
disk or in memory; then the library, the front end, imports and the natives.  Still
open, in this order: generators and `match` in `ControlFlow`; interfaces, enums and
object patches; the semantic phase against `FlashScopes`' lookup; `.szx`; `publish`
and `login`.

Proofs: see section 6 for what is done.  Next are the remaining hypotheses, of which
`NoTryInFinally` looks like the easiest to do without.
