---------------------------- MODULE ControlFlow ----------------------------
(***************************************************************************)
(* How `break`, `continue`, `return`, `throw` and runtime failures travel  *)
(* through nested loops, blocks, `try`s and calls, and what each of them   *)
(* leaves behind: scope frames, call and try depth, the payload of a       *)
(* failure.  src/src/evaluator/stmt.rs, control.rs, expr.rs and mod.rs.    *)
(*                                                                         *)
(* The evaluator is driven by every program: while `flow` is Running the   *)
(* text of the innermost construct is being evaluated and may do anything; *)
(* a flow that is not Running is on its way to the construct on top of     *)
(* `stack`, which stands for the Rust frames of the eval_ functions.       *)
(*                                                                         *)
(* Abstractions.  Values are left out; of the payload of a `return` or     *)
(* `throw` only the depth of the frame its cell lives in is kept.  A       *)
(* failure is its number in `raised`.                                      *)
(***************************************************************************)
EXTENDS Integers, Sequences, SequencesExt

CONSTANTS
  Labels,        \* loop labels
  NoLabel,       \* absence of a label
  Features,      \* "tryInFinally": the finally of a failing try may run a try
  MaxCallDepth,  \* MAX_CALL_DEPTH
  MaxNest, MaxRaised   \* bounds on constructs in one another and on failures

ASSUME LabelsAssumption == NoLabel \notin Labels
ASSUME BoundsAssumption == {MaxCallDepth, MaxNest, MaxRaised} \subseteq Nat

VARIABLES
  stack,      \* constructs being evaluated, innermost last
  flow,       \* EvalResult on its way to the innermost one
  scopes,     \* number of scope frames
  callDepth, tryDepth,
  lastError,  \* the pending failure, 0 when there is none
  raised,     \* failures so far: whether each is catchable
  outcome     \* ProgramOutcome, once there is one

vars == <<stack, flow, scopes, callDepth, tryDepth, lastError, raised, outcome>>

-----------------------------------------------------------------------------
(* Flows.  `at` is the frame depth a payload lives at, `cause` the failure *)
(* behind an Err (0: a bare one), `target` the position of the construct a *)
(* jump is written for (ghost; 0 when there is none).                      *)

Flow(kind, label, at, cause, target) ==
  [kind |-> kind, label |-> label, at |-> at, cause |-> cause, target |-> target]

Running == Flow("Running", NoLabel, 0, 0, 0)
Value == Flow("Value", NoLabel, 0, 0, 0)
Failure(cause) == Flow("Err", NoLabel, 0, cause, 0)
Bare == Failure(0)   \* Err(RuntimeFailure) with nothing recorded for it

Jumps == {"Break", "Continue", "BreakLabel", "ContinueLabel"}
IsJump(f) == f.kind \in Jumps

\* extract before the frames go, plant after: the payload moves to `depth`.
Replanted(f, depth) == IF f.kind \in {"Return", "Throw"} THEN [f EXCEPT !.at = depth] ELSE f

-----------------------------------------------------------------------------
(* Constructs. *)

Loops == {"while", "doWhile", "for", "forIn"}

\* `held` is what a `finally` in progress will let through.
Construct(kind, label, phase, catch, finally) ==
  [kind |-> kind, label |-> label, phase |-> phase, catch |-> catch, finally |-> finally,
   held |-> Running,
   entry |-> [scopes |-> scopes, callDepth |-> callDepth, tryDepth |-> tryDepth]]

Top == Last(stack)
AtTop(kinds, phases) == stack # <<>> /\ Top.kind \in kinds /\ Top.phase \in phases

\* Program text is being evaluated: statements in a body, else an expression.
Evaluating == flow = Running /\ (stack # <<>> => Top.phase # "items")
InBody == flow = Running /\ (stack # <<>> => Top.phase \in {"body", "catch", "finally"})

Goto(phase) == [stack EXCEPT ![Len(stack)].phase = phase]

\* A while or do-while at top level is wrapped in an ephemeral frame; a for
\* and a for-in always have a frame of their own.
LoopFrames(c) ==
  IF c.kind \in {"while", "doWhile"} THEN IF c.entry.scopes = 0 THEN 1 ELSE 0 ELSE 1

\* The innermost construct is over with `f`; a value is for the construct
\* around it, which goes on.
Leave(f) ==
  /\ stack' = Front(stack)
  /\ flow' = IF f.kind = "Value" THEN Running ELSE f

Init ==
  /\ stack = <<>> /\ flow = Running
  /\ scopes = 0 /\ callDepth = 0 /\ tryDepth = 0
  /\ lastError = 0 /\ raised = <<>>
  /\ outcome = "none"

-----------------------------------------------------------------------------
(* What the running code does. *)

InnermostOf(S) == IF S = {} THEN 0 ELSE CHOOSE i \in S : \A j \in S : j <= i

Call == InnermostOf({i \in DOMAIN stack : stack[i].kind = "call"})

\* The loop a jump written here is meant for, inside the running function.
LoopFor(label) ==
  InnermostOf({i \in Call + 1 .. Len(stack) :
                 /\ stack[i].kind \in Loops /\ stack[i].phase = "body"
                 /\ label # NoLabel => stack[i].label = label})

Jump(kind, label) ==
  /\ InBody
  /\ flow' = Flow(kind, label, 0, 0, LoopFor(label))
  /\ UNCHANGED <<stack, scopes, callDepth, tryDepth, lastError, raised, outcome>>

\* `return e` and `throw e`: the payload is in the innermost frame's region.
Exit(kind) ==
  /\ InBody
  /\ flow' = Flow(kind, NoLabel, scopes, 0, IF kind = "Return" THEN Call ELSE 0)
  /\ UNCHANGED <<stack, scopes, callDepth, tryDepth, lastError, raised, outcome>>

\* record_runtime_error.
Record(catchable) ==
  /\ Len(raised) < MaxRaised
  /\ raised' = Append(raised, catchable)
  /\ lastError' = Len(raised) + 1

\* rt_err_kind and fatal_err_kind.
Raise(catchable) ==
  /\ Evaluating
  /\ Record(catchable)
  /\ flow' = Failure(Len(raised) + 1)
  /\ UNCHANGED <<stack, scopes, callDepth, tryDepth, outcome>>

\* The body or the expression comes to its end.
Finish ==
  /\ Evaluating /\ stack # <<>>
  /\ flow' = Value
  /\ UNCHANGED <<stack, scopes, callDepth, tryDepth, lastError, raised, outcome>>

Enter(c, frames) ==
  /\ Len(stack) < MaxNest
  /\ stack' = Append(stack, c)
  /\ scopes' = scopes + frames
  /\ UNCHANGED <<flow, lastError, raised, outcome>>

EnterWhile(kind, label) ==
  /\ InBody
  /\ LET wrap == IF scopes = 0 THEN 1 ELSE 0 IN
     IF kind = "while"
     THEN Enter(Construct(kind, label, "cond", FALSE, FALSE), wrap)
     ELSE label = NoLabel /\ Enter(Construct(kind, label, "body", FALSE, FALSE), wrap + 1)
  /\ UNCHANGED <<callDepth, tryDepth>>

EnterFor(label) ==
  /\ InBody
  /\ Enter(Construct("for", label, "init", FALSE, FALSE), 1)
  /\ UNCHANGED <<callDepth, tryDepth>>

EnterForIn(label) ==
  /\ InBody
  /\ Enter(Construct("forIn", label, "iterable", FALSE, FALSE), 0)
  /\ UNCHANGED <<callDepth, tryDepth>>

\* A block, a case, a branch of an `if`, which is an expression.
EnterBlock ==
  /\ Evaluating
  /\ Enter(Construct("block", NoLabel, "body", FALSE, FALSE), 1)
  /\ UNCHANGED <<callDepth, tryDepth>>

\* The operand of a `let`, an assignment, an argument list...
EnterOperand ==
  /\ InBody
  /\ Enter(Construct("operand", NoLabel, "operand", FALSE, FALSE), 0)
  /\ UNCHANGED <<callDepth, tryDepth>>

EnterCall ==
  /\ Evaluating
  /\ callDepth < MaxCallDepth
  /\ Enter(Construct("call", NoLabel, "body", FALSE, FALSE), 1)
  /\ callDepth' = callDepth + 1
  /\ UNCHANGED tryDepth

\* require_call_capacity.
CallTooDeep == callDepth = MaxCallDepth /\ Raise(FALSE)

\* A try with a catch forgets the pending failure as it starts.
EnterTry(catch, finally) ==
  /\ InBody
  /\ catch \/ finally
  /\ "tryInFinally" \in Features \/ \A i \in DOMAIN stack : stack[i].held.kind # "Err"
  /\ Len(stack) < MaxNest
  /\ stack' = Append(stack, Construct("try", NoLabel, "body", catch, finally))
  /\ scopes' = scopes + 1
  /\ tryDepth' = tryDepth + (IF catch THEN 1 ELSE 0)
  /\ lastError' = IF catch THEN 0 ELSE lastError
  /\ UNCHANGED <<flow, callDepth, raised, outcome>>

-----------------------------------------------------------------------------
(* What each construct makes of the flow that reaches it. *)

Stays == UNCHANGED <<callDepth, tryDepth, lastError, raised, outcome>>

\* The loop goes on with another part of itself, in `frames` frames.
Resume(phase, frames) ==
  /\ stack' = Goto(phase)
  /\ flow' = Running
  /\ scopes' = frames
  /\ Stays

\* mutant: a jump to an outer loop leaves this one's frame behind
LeaveLoopEarly(f, frames) ==
  /\ scopes' = IF IsJump(f) THEN frames ELSE frames - LoopFrames(Top)
  /\ Leave(Replanted(f, scopes'))
  /\ Stays

LeaveLoop(f, frames) ==
  /\ scopes' = frames - LoopFrames(Top)
  /\ Leave(Replanted(f, scopes'))
  /\ Stays

\* The condition of a while or do-while.
WhileCondition ==
  /\ AtTop({"while", "doWhile"}, {"cond"})
  /\ \/ flow = Value /\ Resume("body", scopes + 1)
     \/ flow = Value /\ LeaveLoop(Value, scopes)
     \/ flow.kind \in {"Return", "Throw", "Err"} /\ LeaveLoop(flow, scopes)
     \/ IsJump(flow) /\ LeaveLoop(Bare, scopes)

ForInit ==
  /\ AtTop({"for"}, {"init"})
  /\ \/ flow = Value /\ Resume("cond", scopes)
     \/ flow.kind \in {"Return", "Throw", "Err"} /\ LeaveLoop(flow, scopes)
     \/ IsJump(flow) /\ LeaveLoop(Bare, scopes)

ForCondition ==
  /\ AtTop({"for"}, {"cond"})
  /\ \/ flow = Value /\ Resume("body", scopes + 1)
     \/ flow = Value /\ LeaveLoop(Value, scopes)
     \/ flow.kind \in {"Return", "Throw", "Err"} /\ LeaveLoop(flow, scopes)
     \/ IsJump(flow) /\ LeaveLoop(Bare, scopes)

\* Anything but a value is an error, a `throw` too.
ForUpdate ==
  /\ AtTop({"for"}, {"update"})
  /\ \/ flow = Value /\ Resume("cond", scopes)
     \/ flow.kind = "Err" /\ LeaveLoop(flow, scopes)
     \/ flow.kind \in {"Return", "Throw"} \cup Jumps /\ LeaveLoop(Bare, scopes)

\* The items are taken once and the loop's frame is pushed.
ForInIterable ==
  /\ AtTop({"forIn"}, {"iterable"})
  /\ \/ flow = Value /\ Resume("items", scopes + 1)
     \/ flow.kind \in {"Throw", "Err"} /\ Leave(flow) /\ UNCHANGED scopes /\ Stays
     \/ flow.kind \in {"Return"} \cup Jumps /\ Leave(Bare) /\ UNCHANGED scopes /\ Stays

\* There is another item, or none, or it cannot be destructured.
ForInItem ==
  /\ flow = Running /\ AtTop({"forIn"}, {"items"})
  /\ \/ Resume("body", scopes + 1)
     \/ LeaveLoop(Value, scopes)
     \/ /\ Record(TRUE)
        /\ Leave(Failure(lastError'))
        /\ scopes' = scopes - 1
        /\ UNCHANGED <<callDepth, tryDepth, outcome>>

AfterBody == CASE Top.kind = "for" -> "update" [] Top.kind = "forIn" -> "items" [] OTHER -> "cond"

\* mutant: a label is not looked at
LeavesLoopWhateverLabel(f) == f.kind \in {"Break", "BreakLabel"}

LeavesLoop(f) == f.kind = "Break" \/ (f.kind = "BreakLabel" /\ f.label = Top.label)
NextRound(f) ==
  f.kind \in {"Value", "Continue"} \/ (f.kind = "ContinueLabel" /\ f.label = Top.label)

\* eval_block_discard pops the body's frame and the loop judges the result.
\* A for-in turns a jump to another loop into an error.
LoopBody ==
  /\ flow # Running /\ AtTop(Loops, {"body"})
  /\ LET res == Replanted(flow, scopes - 1) IN
     \/ NextRound(res) /\ Resume(AfterBody, scopes - 1)
     \/ LeavesLoop(res) /\ LeaveLoop(Value, scopes - 1)
     \/ /\ ~NextRound(res) /\ ~LeavesLoop(res)
        /\ LeaveLoop(IF Top.kind = "forIn" /\ IsJump(res) THEN Bare ELSE res, scopes - 1)

Block ==
  /\ flow # Running /\ AtTop({"block"}, {"body"})
  /\ Leave(Replanted(flow, scopes - 1))
  /\ scopes' = scopes - 1
  /\ Stays

\* Only values, throws and failures come out of an operand.
Operand ==
  /\ flow # Running /\ AtTop({"operand"}, {"operand"})
  /\ Leave(IF flow.kind \in {"Value", "Throw", "Err"} THEN flow ELSE Bare)
  /\ UNCHANGED scopes
  /\ Stays

\* A jump that reaches the end of a function is a failure of its own.
EndCall ==
  /\ flow # Running /\ AtTop({"call"}, {"body"})
  /\ scopes' = scopes - 1
  /\ callDepth' = callDepth - 1
  /\ IF IsJump(flow)
     THEN Record(TRUE) /\ Leave(Failure(lastError'))
     ELSE /\ Leave(IF flow.kind = "Return" THEN Value ELSE Replanted(flow, scopes'))
          /\ UNCHANGED <<raised, lastError>>
  /\ UNCHANGED <<tryDepth, outcome>>

-----------------------------------------------------------------------------
(* eval_try. *)

\* The result of the try and its catch: a `finally` runs before it goes on.
AfterCatch(f, frames) ==
  IF Top.finally
  THEN /\ stack' = [stack EXCEPT ![Len(stack)].phase = "finally", ![Len(stack)].held = f]
       /\ flow' = Running
       /\ scopes' = frames + 1
  ELSE Leave(f) /\ scopes' = frames

\* A throw, or a failure whose pending error is catchable.
Caught(f) ==
  f.kind = "Throw" \/ (f.kind = "Err" /\ lastError # 0 /\ raised[lastError])

\* mutant: the pending error is taken before it is known to be catchable
TakesAnyError(f) == Top.catch /\ f.kind = "Err"

\* The pending error becomes the value the catch binds.
TakesError(f) == Top.catch /\ f.kind = "Err" /\ Caught(f)

TryBody ==
  /\ flow # Running /\ AtTop({"try"}, {"body"})
  /\ LET frames == scopes - 1
         f == Replanted(flow, frames)
     IN IF Top.catch /\ Caught(f)
        THEN stack' = Goto("catch") /\ flow' = Running /\ scopes' = frames + 1
        ELSE AfterCatch(f, frames)
  /\ tryDepth' = tryDepth - (IF Top.catch THEN 1 ELSE 0)
  /\ lastError' = IF TakesError(flow) THEN 0 ELSE lastError
  /\ UNCHANGED <<callDepth, raised, outcome>>

Catch ==
  /\ flow # Running /\ AtTop({"try"}, {"catch"})
  /\ AfterCatch(Replanted(flow, scopes - 1), scopes - 1)
  /\ Stays

\* What a `finally` throws, returns or fails with replaces what was held.
Finally ==
  /\ flow # Running /\ AtTop({"try"}, {"finally"})
  /\ Leave(IF flow.kind \in {"Throw", "Return", "Err"}
           THEN Replanted(flow, scopes - 1) ELSE Top.held)
  /\ scopes' = scopes - 1
  /\ Stays

-----------------------------------------------------------------------------
(* eval_program_outcome_inner: a statement ended with something but a value. *)

OutcomeOf(f) ==
  CASE f.kind = "Return" \/ IsJump(f) -> "InvalidControlFlow"
    [] f.kind = "Throw" -> "UncaughtException"
    [] f.kind = "Err" -> IF raised # <<>> /\ lastError # 0 THEN "RuntimeError"
                         ELSE "UnstructuredError"

EndProgram ==
  /\ stack = <<>> /\ outcome = "none"
  /\ flow # Running
  /\ outcome' = OutcomeOf(flow)
  /\ UNCHANGED <<stack, flow, scopes, callDepth, tryDepth, lastError, raised>>

EndsWell ==
  /\ stack = <<>> /\ flow = Running /\ outcome = "none"
  /\ outcome' = "Value"
  /\ UNCHANGED <<stack, flow, scopes, callDepth, tryDepth, lastError, raised>>

Runs ==
  \/ \E kind \in {"Break", "Continue"} : Jump(kind, NoLabel)
  \/ \E kind \in {"BreakLabel", "ContinueLabel"}, l \in Labels : Jump(kind, l)
  \/ \E kind \in {"Return", "Throw"} : Exit(kind)
  \/ \E catchable \in BOOLEAN : Raise(catchable)
  \/ Finish
  \/ \E kind \in {"while", "doWhile"}, l \in Labels \cup {NoLabel} : EnterWhile(kind, l)
  \/ \E l \in Labels \cup {NoLabel} : EnterFor(l) \/ EnterForIn(l)
  \/ EnterBlock \/ EnterOperand \/ EnterCall \/ CallTooDeep
  \/ \E catch, finally \in BOOLEAN : EnterTry(catch, finally)

Handles ==
  \/ WhileCondition \/ ForInit \/ ForCondition \/ ForUpdate
  \/ ForInIterable \/ ForInItem \/ LoopBody
  \/ Block \/ Operand \/ EndCall
  \/ TryBody \/ Catch \/ Finally
  \/ EndProgram

Next == outcome = "none" /\ (Runs \/ Handles \/ EndsWell)

Spec == Init /\ [][Next]_vars

-----------------------------------------------------------------------------
(* Properties. *)

Phases == {"init", "cond", "body", "update", "iterable", "items", "operand",
           "catch", "finally"}

IsFlow(f) ==
  /\ f.kind \in {"Running", "Value", "Return", "Throw", "Err"} \cup Jumps
  /\ f.label \in Labels \cup {NoLabel}
  /\ f.at \in Nat /\ f.cause \in 0 .. Len(raised) /\ f.target \in Nat

TypeOK ==
  /\ \A i \in DOMAIN stack :
       /\ stack[i].kind \in Loops \cup {"block", "operand", "call", "try"}
       /\ stack[i].phase \in Phases
       /\ IsFlow(stack[i].held)
  /\ IsFlow(flow)
  /\ scopes \in Nat /\ callDepth \in 0 .. MaxCallDepth /\ tryDepth \in Nat
  /\ lastError \in 0 .. Len(raised)

Counters == [scopes |-> scopes, callDepth |-> callDepth, tryDepth |-> tryDepth]

\* However a construct is left, by whatever flow, the scope frames, the call
\* depth and the try depth are what they were when it was entered.
LeavesNothingBehind == [][Len(stack') < Len(stack) => Counters' = Top.entry]_vars

\* A jump only ends at the loop it is written for, a return only in the
\* function it is written in: no loop further in takes one for its own.  (On
\* its way a `finally` may hold it, and one that leaves a `finally` is dropped.)
\* A fatal failure never runs a catch handler.
JumpsLand ==
  /\ [][(flow.kind \in Jumps \cup {"Return"} /\ flow' = Running /\ Top.kind # "try")
          => flow.target = Len(stack)]_vars
  /\ [][(flow.kind = "Err" /\ flow.cause # 0 /\ ~raised[flow.cause])
          => ~(Len(stack') = Len(stack) /\ stack # <<>> /\ Last(stack').phase = "catch")]_vars

\* The error waiting in `last_error` while a failure that recorded one travels
\* is that failure's own: whatever handlers, finallies and calls it passes, its
\* catch or report does not show another's.  Nothing is said of a bare `Err`
\* that recorded none (cause 0): where an earlier failure was left in
\* `last_error`, its catch shows that one.  The cell a `return` or a `throw`
\* carries lives in a frame that is still there.
FailureKeepsItsPayload ==
  /\ flow.kind = "Err" /\ flow.cause # 0 => lastError = flow.cause
  /\ flow.at <= scopes
  /\ \A i \in DOMAIN stack : stack[i].held.at <= stack[i].entry.scopes

\* In the body of a for-in "`break`, `continue`, labeled variants [...]
\* propagate according to their normal control-flow meaning"
\* (spec/control-flow.md): one with a loop to go to is not an error.
JumpsCrossForIn ==
  [][(AtTop({"forIn"}, {"body"}) /\ IsJump(flow) /\ flow.target # 0)
       => flow'.kind # "Err"]_vars
=============================================================================
