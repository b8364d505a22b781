------------------------- MODULE ControlFlowProofs -------------------------
(***************************************************************************)
(* What ControlFlow promises for programs of any nesting, any number of    *)
(* failures and any MAX_CALL_DEPTH.  Every step of the evaluator is one of *)
(* five kinds (StepKinds): it evaluates on (Speaks), enters a construct,   *)
(* turns to another part of the innermost one, leaves it, or ends the      *)
(* program.  The invariants are proved over those.                         *)
(***************************************************************************)
EXTENDS ControlFlow, DataLemmas, SequenceTheorems, TLAPS

Kinds == Loops \cup {"block", "operand", "call", "try"}

Flows == [kind : {"Running", "Value", "Return", "Throw", "Err"} \cup Jumps,
          label : Labels \cup {NoLabel}, at : Nat, cause : Nat, target : Nat]

Entries == [scopes : Nat, callDepth : 0 .. MaxCallDepth, tryDepth : Nat]

Constructs == [kind : Kinds, label : Labels \cup {NoLabel}, phase : Phases,
               catch : BOOLEAN, finally : BOOLEAN, held : Flows, entry : Entries]

\* What a flow of each kind carries.
WellFormed(f) ==
  /\ f.kind = "Running" => f = Running
  /\ f.kind \notin {"Return", "Throw"} => f.at = 0
  /\ f.kind \in {"Break", "Continue"} => f.label = NoLabel
  /\ f.kind \in {"BreakLabel", "ContinueLabel"} => f.label \in Labels
  /\ f.cause # 0 => f.kind = "Err"

\* Each construct is in a phase of its own; only a `finally` holds a flow.
InShape(c) ==
  /\ c.kind \in {"while", "doWhile"} => c.phase \in {"cond", "body"}
  /\ c.kind = "for" => c.phase \in {"init", "cond", "body", "update"}
  /\ c.kind = "forIn" => c.phase \in {"iterable", "items", "body"}
  /\ c.kind \in {"block", "call"} => c.phase = "body"
  /\ c.kind = "operand" => c.phase = "operand"
  /\ c.kind = "try" => c.phase \in {"body", "catch", "finally"}
  /\ WellFormed(c.held)
  /\ c.phase # "finally" => c.held = Running
  /\ c.phase = "finally" => c.held.kind # "Running"

Typed ==
  /\ stack \in Seq(Constructs) /\ flow \in Flows /\ WellFormed(flow)
  /\ scopes \in Nat /\ callDepth \in 0 .. MaxCallDepth /\ tryDepth \in Nat
  /\ raised \in Seq(BOOLEAN) /\ lastError \in 0 .. Len(raised)
  /\ flow.cause <= Len(raised)
  /\ \A i \in 1 .. Len(stack) :
       InShape(stack[i]) /\ stack[i].held.cause <= Len(raised)

\* The frames construct c has pushed by this phase of it.
Frames(c) ==
  CASE c.kind = "operand" -> 0
    [] c.kind \in {"block", "call", "try"} -> 1
    [] c.kind \in Loops -> IF c.phase = "iterable" THEN 0
                           ELSE IF c.phase = "body" THEN LoopFrames(c) + 1 ELSE LoopFrames(c)

\* The counters while the code of c runs.
After(c) ==
  [scopes |-> c.entry.scopes + Frames(c),
   callDepth |-> c.entry.callDepth + (IF c.kind = "call" THEN 1 ELSE 0),
   tryDepth |-> c.entry.tryDepth +
     (IF c.kind = "try" /\ c.phase = "body" /\ c.catch THEN 1 ELSE 0)]

Balanced ==
  /\ \A i \in 1 .. Len(stack) - 1 : stack[i + 1].entry = After(stack[i])
  /\ stack # <<>> => Counters = After(Top)

\* A loop of stack s that a jump with this label would end at.
Matches(s, i, label) ==
  /\ s[i].kind \in Loops /\ s[i].phase = "body"
  /\ label # NoLabel => s[i].label = label

\* A jump inside construct n is for the construct it names: a matching loop
\* further in is in another function.
AimedJump(s, f, n) ==
  /\ f.target \in 0 .. n
  /\ f.target # 0 => Matches(s, f.target, f.label)
  /\ \A i \in f.target + 1 .. n :
       Matches(s, i, f.label) => \E j \in i + 1 .. n : s[j].kind = "call"

AimedReturn(s, f, n) ==
  /\ f.target \in 0 .. n
  /\ f.target # 0 => s[f.target].kind = "call"
  /\ \A i \in f.target + 1 .. n : s[i].kind # "call"

AimedAt(s, f, n) ==
  /\ IsJump(f) => AimedJump(s, f, n)
  /\ f.kind = "Return" => AimedReturn(s, f, n)

Aimed ==
  /\ AimedAt(stack, flow, Len(stack))
  /\ \A i \in 1 .. Len(stack) : AimedAt(stack, stack[i].held, i)

Planted ==
  /\ flow.at <= scopes
  /\ \A i \in 1 .. Len(stack) : stack[i].held.at <= stack[i].entry.scopes

\* The pending failure is the one in flight or else the one a `finally` holds,
\* and no `try` runs inside that `finally`.
Pending ==
  /\ flow.cause # 0 => lastError = flow.cause
  /\ flow.cause = 0 => \A i \in 1 .. Len(stack) :
       stack[i].held.cause # 0 => lastError = stack[i].held.cause
  /\ \A i \in 1 .. Len(stack) : stack[i].held.kind = "Err" =>
       \A j \in i + 1 .. Len(stack) : stack[j].kind # "try"

Inv == Typed /\ Balanced /\ Aimed /\ Planted

-----------------------------------------------------------------------------
(* The kinds of steps. *)

\* The flow goes on outwards from the innermost construct.
Passed(f) ==
  /\ f.kind = flow.kind /\ f.label = flow.label /\ f.cause = flow.cause
  /\ f.target = flow.target
  /\ f.at <= Top.entry.scopes
  /\ IsJump(flow) => Top.kind # "call" /\ ~Matches(stack, Len(stack), flow.label)
  /\ flow.kind = "Return" => Top.kind # "call"

\* A jump or a return is over only where it is meant to be, or is replaced.
Lands ==
  /\ IsJump(flow) => Matches(stack, Len(stack), flow.label)
  /\ flow.kind = "Return" => Top.kind = "call"

Speaks ==
  /\ flow = Running /\ UNCHANGED <<stack, scopes, callDepth, tryDepth, outcome>>
  /\ flow' \in Flows /\ WellFormed(flow') /\ flow'.kind # "Running"
  /\ flow'.at <= scopes
  /\ AimedAt(stack, flow', Len(stack))
  /\ \/ flow'.kind # "Err" /\ UNCHANGED <<lastError, raised>>
     \/ /\ raised' \in Seq(BOOLEAN) /\ Len(raised') = Len(raised) + 1
        /\ flow'.cause = Len(raised') /\ lastError' = Len(raised')

Enters(c) ==
  /\ flow = Running /\ flow' = Running /\ outcome' = outcome /\ raised' = raised
  /\ c \in Constructs /\ InShape(c) /\ c.held = Running
  /\ stack' = Append(stack, c)
  /\ c.entry = Counters /\ Counters' = After(c) /\ callDepth' <= MaxCallDepth
  /\ \/ c.kind # "try" /\ lastError' = lastError
     \/ /\ c.kind = "try" /\ lastError' \in {0, lastError}
        /\ "tryInFinally" \in Features \/ \A i \in DOMAIN stack : stack[i].held.kind # "Err"

Turns(c) ==
  /\ stack # <<>> /\ flow' = Running /\ outcome' = outcome /\ raised' = raised
  /\ c \in Constructs /\ InShape(c)
  /\ stack' = [stack EXCEPT ![Len(stack)] = c]
  /\ c.kind = Top.kind /\ c.label = Top.label /\ c.entry = Top.entry /\ Counters' = After(c)
  /\ \/ /\ c.held = Running /\ flow.kind # "Err" /\ lastError' = lastError
        /\ Lands
     \/ /\ c.kind = "try" /\ c.held = Running /\ flow.kind = "Err"
        /\ lastError # 0 /\ raised[lastError] /\ lastError' = 0
     \/ /\ c.kind = "try" /\ c.phase = "finally" /\ Passed(c.held) /\ lastError' = lastError

Leaves(f) ==
  /\ stack # <<>> /\ outcome' = outcome
  /\ f \in Flows /\ WellFormed(f) /\ f.kind # "Running"
  /\ stack' = Front(stack) /\ Counters' = Top.entry
  /\ flow' = IF f.kind = "Value" THEN Running ELSE f
  /\ \/ Passed(f) /\ UNCHANGED <<lastError, raised>>
     \/ /\ f.kind \in {"Value", "Err"} /\ f.cause = 0 /\ flow.kind # "Err"
        /\ f.kind = "Value" => Lands
        /\ UNCHANGED <<lastError, raised>>
     \/ /\ f = Top.held /\ Top.kind = "try" /\ flow.kind # "Err"
        /\ UNCHANGED <<lastError, raised>>
     \/ /\ flow.kind # "Err" /\ f.kind = "Err"
        /\ raised' \in Seq(BOOLEAN) /\ Len(raised') = Len(raised) + 1
        /\ f.cause = Len(raised') /\ lastError' = Len(raised')

Ends == stack = <<>> /\ UNCHANGED <<stack, flow, scopes, callDepth, tryDepth, lastError, raised>>

StepKinds ==
  \/ Speaks \/ Ends
  \/ \E c \in Constructs : Enters(c) \/ Turns(c)
  \/ \E f \in Flows : Leaves(f)
-----------------------------------------------------------------------------
(* The stack: what pushing, popping and changing the innermost do to it.    *)

\* What InnermostOf returns: the greatest member, 0 when there is none.
LEMMA InnermostOfIs ==
  ASSUME NEW n \in Nat, NEW S \in SUBSET (1 .. n)
  PROVE  /\ InnermostOf(S) \in 0 .. n
         /\ InnermostOf(S) # 0 => InnermostOf(S) \in S
         /\ \A j \in S : j <= InnermostOf(S)
<1>1. CASE S = {}
  BY <1>1 DEF InnermostOf
<1>2. CASE S # {}
  <2>1. \E i \in S : \A j \in S : j <= i
    BY <1>2, Greatest
  <2>2. InnermostOf(S) \in S /\ \A j \in S : j <= InnermostOf(S)
    BY <1>2, <2>1 DEF InnermostOf
  <2>3. \A i \in S : i \in 1 .. n
    OBVIOUS
  <2>4. InnermostOf(S) \in 1 .. n
    BY <2>2, <2>3
  <2>5. QED
    BY <2>2, <2>4
<1>3. QED
  BY <1>1, <1>2

LEMMA TopFacts ==
  ASSUME Typed, stack # <<>>
  PROVE  /\ Len(stack) \in Nat \ {0} /\ Len(stack) \in 1 .. Len(stack)
         /\ Top = stack[Len(stack)] /\ Top \in Constructs /\ InShape(Top)
         /\ Top.held \in Flows /\ WellFormed(Top.held) /\ Top.held.cause <= Len(raised)
         /\ Top.entry \in Entries
<1>1. Len(stack) \in Nat \ {0} /\ Len(stack) \in 1 .. Len(stack)
  BY EmptySeq DEF Typed
<1>2. Top = stack[Len(stack)]
  BY DEF Top, Last
<1>3. stack[Len(stack)] \in Constructs
  BY <1>1, ElementOfSeq DEF Typed
<1>4. InShape(stack[Len(stack)]) /\ stack[Len(stack)].held.cause <= Len(raised)
  BY <1>1 DEF Typed
<1>5. QED
  BY <1>1, <1>2, <1>3, <1>4 DEF Constructs, InShape

LEMMA Each ==
  ASSUME Typed, NEW i \in 1 .. Len(stack)
  PROVE  /\ stack[i] \in Constructs /\ InShape(stack[i])
         /\ stack[i].held \in Flows /\ WellFormed(stack[i].held)
         /\ stack[i].entry \in Entries /\ stack[i].held.cause <= Len(raised)
<1>1. stack[i] \in Constructs
  BY ElementOfSeq DEF Typed
<1>2. QED
  BY <1>1 DEF Typed, Constructs, InShape

LEMMA Pushed ==
  ASSUME Typed, NEW c \in Constructs, stack' = Append(stack, c)
  PROVE  /\ stack' \in Seq(Constructs) /\ Len(stack) \in Nat /\ Len(stack') = Len(stack) + 1
         /\ \A i \in 1 .. Len(stack) : stack'[i] = stack[i]
         /\ stack'[Len(stack')] = c /\ stack' # <<>> /\ Top' = c
<1>1. /\ stack' \in Seq(Constructs) /\ Len(stack') = Len(stack) + 1 /\ stack' # <<>>
      /\ \A i \in 1 .. Len(stack) : stack'[i] = stack[i]
      /\ stack'[Len(stack) + 1] = c
  BY AppendProperties DEF Typed
<1>2. Len(stack) \in Nat
  BY LenProperties DEF Typed
<1>3. Top' = stack'[Len(stack')]
  BY DEF Top, Last
<1>4. QED
  BY <1>1, <1>2, <1>3

LEMMA PoppedStack ==
  ASSUME Typed, stack # <<>>, stack' = Front(stack)
  PROVE  /\ stack' \in Seq(Constructs) /\ Len(stack') = Len(stack) - 1 /\ Len(stack') \in Nat
         /\ \A i \in 1 .. Len(stack') : stack'[i] = stack[i]
         /\ stack' # <<>> => Len(stack') \in 1 .. Len(stack') /\ Top' = stack[Len(stack')]
<1>1. /\ stack' \in Seq(Constructs) /\ Len(stack') = Len(stack) - 1
      /\ \A i \in 1 .. Len(stack) - 1 : stack'[i] = stack[i]
  BY Popped DEF Typed
<1>2. Len(stack') \in Nat
  BY <1>1, LenProperties
<1>3. stack' # <<>> => Len(stack') \in 1 .. Len(stack')
  BY <1>1, EmptySeq
<1>4. Top' = stack'[Len(stack')]
  BY DEF Top, Last
<1>5. QED
  BY <1>1, <1>2, <1>3, <1>4

LEMMA TurnedStack ==
  ASSUME Typed, stack # <<>>, NEW c \in Constructs, stack' = [stack EXCEPT ![Len(stack)] = c]
  PROVE  /\ stack' \in Seq(Constructs) /\ Len(stack') = Len(stack) /\ stack' # <<>>
         /\ \A i \in 1 .. Len(stack) - 1 : stack'[i] = stack[i]
         /\ stack'[Len(stack)] = c /\ Top' = c
<1>1. /\ stack' \in Seq(Constructs) /\ Len(stack') = Len(stack)
      /\ stack'[Len(stack)] = c
      /\ \A i \in 1 .. Len(stack) - 1 : stack'[i] = stack[i]
  BY Replaced DEF Typed
<1>2. stack' # <<>>
  BY <1>1, TopFacts, EmptySeq
<1>3. Top' = stack'[Len(stack')]
  BY DEF Top, Last
<1>4. QED
  BY <1>1, <1>2, <1>3

\* The two ways the code changes the innermost construct are such updates.
LEMMA Rephased ==
  ASSUME Typed, stack # <<>>, NEW p \in Phases
  PROVE  /\ Goto(p) = [stack EXCEPT ![Len(stack)] = [Top EXCEPT !.phase = p]]
         /\ [Top EXCEPT !.phase = p] \in Constructs
<1>1. Goto(p) = [stack EXCEPT ![Len(stack)] = [stack[Len(stack)] EXCEPT !.phase = p]]
  BY DEF Goto
<1>2. QED
  BY <1>1, TopFacts DEF Constructs

LEMMA Holding ==
  ASSUME Typed, stack # <<>>, NEW f \in Flows
  PROVE  /\ [stack EXCEPT ![Len(stack)].phase = "finally", ![Len(stack)].held = f]
              = [stack EXCEPT ![Len(stack)] = [Top EXCEPT !.phase = "finally", !.held = f]]
         /\ [Top EXCEPT !.phase = "finally", !.held = f] \in Constructs
<1>1. [stack EXCEPT ![Len(stack)].phase = "finally", ![Len(stack)].held = f]
        = [stack EXCEPT ![Len(stack)] = [stack[Len(stack)] EXCEPT !.phase = "finally", !.held = f]]
  OBVIOUS
<1>2. QED
  BY <1>1, TopFacts DEF Constructs, Phases

-----------------------------------------------------------------------------
(* Every step of the evaluator is of one of the kinds.                      *)

LEMMA Constants ==
  /\ Running \in Flows /\ Value \in Flows /\ Bare \in Flows
  /\ WellFormed(Running) /\ WellFormed(Value) /\ WellFormed(Bare)
  /\ Running.kind = "Running" /\ Value.kind = "Value" /\ Bare.kind = "Err"
  /\ Value.cause = 0 /\ Bare.cause = 0 /\ Value.at = 0 /\ Bare.at = 0
  /\ Value # Running /\ Running.cause = 0 /\ Running.at = 0 /\ Value.label = NoLabel
BY LabelsAssumption DEF Running, Value, Bare, Failure, Flow, Flows, WellFormed, Jumps

LEMMA Failures ==
  ASSUME NEW n \in Nat
  PROVE  /\ Failure(n) \in Flows /\ WellFormed(Failure(n)) /\ Failure(n).kind = "Err"
         /\ Failure(n).cause = n /\ Failure(n).at = 0
BY LabelsAssumption DEF Failure, Flow, Flows, WellFormed, Running, Jumps

LEMMA ReplantedIs ==
  ASSUME NEW f \in Flows, WellFormed(f), NEW d \in Nat
  PROVE  /\ Replanted(f, d) \in Flows /\ WellFormed(Replanted(f, d))
         /\ Replanted(f, d).kind = f.kind /\ Replanted(f, d).label = f.label
         /\ Replanted(f, d).cause = f.cause /\ Replanted(f, d).target = f.target
         /\ Replanted(f, d).at <= d
<1>1. CASE f.kind \in {"Return", "Throw"}
  <2>1. Replanted(f, d) = [f EXCEPT !.at = d]
    BY <1>1 DEF Replanted
  <2>2. QED
    BY <1>1, <2>1 DEF Flows, WellFormed, Jumps, Running, Flow
<1>2. CASE f.kind \notin {"Return", "Throw"}
  <2>1. Replanted(f, d) = f /\ f.at = 0
    BY <1>2 DEF Replanted, WellFormed
  <2>2. QED
    BY <2>1
<1>3. QED
  BY <1>1, <1>2

\* The counters while the innermost construct's code runs.
LEMMA Level ==
  ASSUME Inv, stack # <<>>
  PROVE  /\ scopes = After(Top).scopes /\ callDepth = After(Top).callDepth
         /\ tryDepth = After(Top).tryDepth
         /\ Top.entry.scopes \in Nat /\ Top.entry.callDepth \in Nat /\ Top.entry.tryDepth \in Nat
         /\ Top.entry = [scopes |-> Top.entry.scopes, callDepth |-> Top.entry.callDepth,
                         tryDepth |-> Top.entry.tryDepth]
<1>1. Counters = After(Top)
  BY DEF Inv, Balanced
<1>2. Top.entry \in Entries
  BY TopFacts DEF Inv
<1>3. QED
  BY <1>1, <1>2, BoundsAssumption DEF Counters, Entries

LEMMA LeavesPassed ==
  ASSUME Inv, stack # <<>>, flow.kind # "Running", Leave(Replanted(flow, Top.entry.scopes)),
         Counters' = Top.entry, UNCHANGED <<lastError, raised, outcome>>,
         IsJump(flow) => Top.kind # "call" /\ ~Matches(stack, Len(stack), flow.label),
         flow.kind = "Return" => Top.kind # "call"
  PROVE  StepKinds
<1> DEFINE f == Replanted(flow, Top.entry.scopes)
<1>1. /\ f \in Flows /\ WellFormed(f) /\ f.kind = flow.kind /\ f.label = flow.label
      /\ f.cause = flow.cause /\ f.target = flow.target /\ f.at <= Top.entry.scopes
  BY ReplantedIs, Level DEF Inv, Typed
<1> HIDE DEF f
<1>2. Passed(f)
  BY <1>1 DEF Passed
<1>3. Leaves(f)
  BY <1>1, <1>2 DEF Leaves, Leave, f
<1>4. QED
  BY <1>1, <1>3 DEF StepKinds

LEMMA LeavesOwn ==
  ASSUME Inv, stack # <<>>, flow.kind # "Err", NEW f \in {Value, Bare}, Leave(f),
         Counters' = Top.entry, UNCHANGED <<lastError, raised, outcome>>,
         f = Value => Lands
  PROVE  StepKinds
<1>1. /\ f \in Flows /\ WellFormed(f) /\ f.kind # "Running" /\ f.cause = 0
      /\ f.kind \in {"Value", "Err"} /\ (f.kind = "Value" => f = Value)
  BY Constants
<1>2. Leaves(f)
  BY <1>1 DEF Leaves, Leave
<1>3. QED
  BY <1>1, <1>2 DEF StepKinds

LEMMA Recorded ==
  ASSUME Inv, NEW catchable \in BOOLEAN, Record(catchable)
  PROVE  /\ raised' \in Seq(BOOLEAN) /\ Len(raised') = Len(raised) + 1
         /\ lastError' = Len(raised') /\ Len(raised) \in Nat /\ Len(raised') \in Nat
BY AppendProperties, LenProperties DEF Inv, Typed, Record

LEMMA LeavesFailing ==
  ASSUME Inv, stack # <<>>, flow.kind # "Err", Record(TRUE), Leave(Failure(lastError')),
         Counters' = Top.entry, outcome' = outcome
  PROVE  StepKinds
<1>1. /\ raised' \in Seq(BOOLEAN) /\ Len(raised') = Len(raised) + 1
      /\ lastError' = Len(raised') /\ lastError' \in Nat
  BY Recorded
<1>2. /\ Failure(lastError') \in Flows /\ WellFormed(Failure(lastError'))
      /\ Failure(lastError').kind = "Err" /\ Failure(lastError').cause = lastError'
  BY <1>1, Failures
<1>3. Leaves(Failure(lastError'))
  BY <1>1, <1>2 DEF Leaves, Leave
<1>4. QED
  BY <1>2, <1>3 DEF StepKinds

LEMMA TurnsTo ==
  ASSUME Inv, stack # <<>>, NEW p \in Phases, stack' = Goto(p), flow' = Running,
         Counters' = After([Top EXCEPT !.phase = p]), InShape([Top EXCEPT !.phase = p]),
         p # "finally", flow.kind # "Err", Lands, UNCHANGED <<lastError, raised, outcome>>
  PROVE  StepKinds
<1> DEFINE c == [Top EXCEPT !.phase = p]
<1>1. c \in Constructs /\ stack' = [stack EXCEPT ![Len(stack)] = c]
  BY Rephased DEF Inv
<1>2. c.phase = p /\ c.kind = Top.kind /\ c.label = Top.label /\ c.entry = Top.entry
  BY TopFacts DEF Inv, Constructs
<1>3. c.held = Running
  BY <1>2 DEF InShape
<1> HIDE DEF c
<1>4. Turns(c)
  BY <1>1, <1>2, <1>3 DEF Turns, c
<1>5. QED
  BY <1>1, <1>4 DEF StepKinds

\* What a jump is aimed at when it is written.
LEMMA JumpAim ==
  ASSUME Inv, NEW label \in Labels \cup {NoLabel}, NEW f, f.label = label,
         f.target = LoopFor(label), f.kind # "Return"
  PROVE  AimedAt(stack, f, Len(stack)) /\ f.target \in Nat
<1> DEFINE n == Len(stack)
           C == {i \in DOMAIN stack : stack[i].kind = "call"}
           S == {i \in Call + 1 .. n : Matches(stack, i, label)}
<1>1. n \in Nat /\ DOMAIN stack = 1 .. n
  BY LenProperties DEF Inv, Typed
<1>2. Call \in 0 .. n /\ (Call # 0 => Call \in C) /\ \A j \in C : j <= Call
  BY <1>1, InnermostOfIs DEF Call
<1>3. LoopFor(label) = InnermostOf(S)
  BY DEF LoopFor, Matches
<1>4. S \in SUBSET (1 .. n)
  BY <1>1, <1>2
<1>5. LoopFor(label) \in 0 .. n /\ (LoopFor(label) # 0 => LoopFor(label) \in S)
      /\ \A j \in S : j <= LoopFor(label)
  BY <1>1, <1>3, <1>4, InnermostOfIs
<1>6. ASSUME NEW i \in f.target + 1 .. n, Matches(stack, i, label)
      PROVE  \E j \in i + 1 .. n : stack[j].kind = "call"
  <2>1. i \notin S
    BY <1>1, <1>5, <1>6
  <2>2. i <= Call /\ i \in 1 .. n
    BY <1>1, <1>2, <1>5, <1>6, <2>1
  <2>3. stack[Call].kind = "call" /\ i # Call
    BY <1>2, <1>6, <2>2 DEF Matches, Loops
  <2>4. QED
    BY <1>1, <1>2, <2>2, <2>3
<1>7. AimedJump(stack, f, n)
  BY <1>1, <1>5, <1>6 DEF AimedJump
<1>8. QED
  BY <1>1, <1>5, <1>7 DEF AimedAt

LEMMA JumpSpeaks ==
  ASSUME Inv, outcome = "none",
         \/ \E kind \in {"Break", "Continue"} : Jump(kind, NoLabel)
         \/ \E kind \in {"BreakLabel", "ContinueLabel"}, l \in Labels : Jump(kind, l)
  PROVE  Speaks
<1>1. PICK kind \in Jumps, l \in Labels \cup {NoLabel} :
        /\ Jump(kind, l)
        /\ kind \in {"Break", "Continue"} => l = NoLabel
        /\ kind \in {"BreakLabel", "ContinueLabel"} => l \in Labels
  BY LabelsAssumption DEF Jumps
<1>2. /\ flow = Running /\ flow' = Flow(kind, l, 0, 0, LoopFor(l))
      /\ UNCHANGED <<stack, scopes, callDepth, tryDepth, lastError, raised, outcome>>
  BY <1>1 DEF Jump, InBody
<1>3. /\ flow'.kind = kind /\ flow'.label = l /\ flow'.at = 0 /\ flow'.cause = 0
      /\ flow'.target = LoopFor(l)
  BY <1>2 DEF Flow
<1>4. AimedAt(stack, flow', Len(stack)) /\ LoopFor(l) \in Nat
  BY <1>1, <1>3, JumpAim DEF Jumps
<1>5. flow' \in Flows /\ WellFormed(flow')
  BY <1>1, <1>2, <1>3, <1>4 DEF Flow, Flows, WellFormed, Jumps
<1>6. QED
  BY <1>1, <1>2, <1>3, <1>4, <1>5 DEF Speaks, Inv, Typed, Jumps

LEMMA ExitSpeaks ==
  ASSUME Inv, NEW kind \in {"Return", "Throw"}, Exit(kind)
  PROVE  Speaks
<1> DEFINE n == Len(stack)
           C == {i \in DOMAIN stack : stack[i].kind = "call"}
<1>1. n \in Nat /\ DOMAIN stack = 1 .. n /\ scopes \in Nat
  BY LenProperties DEF Inv, Typed
<1>2. Call \in 0 .. n /\ (Call # 0 => Call \in C) /\ \A j \in C : j <= Call
  BY <1>1, InnermostOfIs DEF Call
<1>3. /\ flow = Running
      /\ flow' = Flow(kind, NoLabel, scopes, 0, IF kind = "Return" THEN Call ELSE 0)
      /\ UNCHANGED <<stack, scopes, callDepth, tryDepth, lastError, raised, outcome>>
  BY DEF Exit, InBody
<1>4. /\ flow'.kind = kind /\ flow'.at = scopes /\ flow'.cause = 0
      /\ (kind = "Return" => flow'.target = Call)
  BY <1>3 DEF Flow
<1>5. kind = "Return" => AimedReturn(stack, flow', n)
  BY <1>1, <1>2, <1>4 DEF AimedReturn
<1>6. AimedAt(stack, flow', n)
  BY <1>4, <1>5 DEF AimedAt, IsJump, Jumps
<1>7. flow' \in Flows /\ WellFormed(flow')
  BY <1>1, <1>2, <1>3, <1>4 DEF Flow, Flows, WellFormed, Jumps
<1>8. QED
  BY <1>1, <1>3, <1>4, <1>6, <1>7 DEF Speaks

LEMMA RaiseSpeaks ==
  ASSUME Inv, NEW catchable \in BOOLEAN, Raise(catchable)
  PROVE  Speaks
<1>1. /\ raised' \in Seq(BOOLEAN) /\ Len(raised') = Len(raised) + 1
      /\ lastError' = Len(raised') /\ Len(raised) \in Nat /\ Len(raised') \in Nat
  BY Recorded DEF Raise
<1>2. flow = Running /\ flow' = Failure(Len(raised')) /\ UNCHANGED <<stack, scopes, callDepth, tryDepth, outcome>>
  BY <1>1 DEF Raise, Evaluating
<1>3. /\ flow' \in Flows /\ WellFormed(flow') /\ flow'.kind = "Err"
      /\ flow'.cause = Len(raised') /\ flow'.at = 0
  BY <1>1, <1>2, Failures
<1>4. AimedAt(stack, flow', Len(stack))
  BY <1>3 DEF AimedAt, IsJump, Jumps
<1>5. scopes \in Nat
  BY DEF Inv, Typed
<1>6. QED
  BY <1>1, <1>2, <1>3, <1>4, <1>5 DEF Speaks

LEMMA FinishSpeaks == ASSUME Inv, Finish PROVE Speaks
<1>1. AimedAt(stack, Value, Len(stack))
  BY Constants DEF AimedAt, IsJump, Jumps
<1>2. QED
  BY <1>1, Constants DEF Finish, Evaluating, Speaks, Inv, Typed

\* A construct as it is entered.
LEMMA NewConstruct ==
  ASSUME Inv, NEW kind \in Kinds, NEW label \in Labels \cup {NoLabel}, NEW phase \in Phases,
         NEW catch \in BOOLEAN, NEW finally \in BOOLEAN,
         NEW c, c = Construct(kind, label, phase, catch, finally)
  PROVE  /\ c \in Constructs /\ c.held = Running /\ c.entry = Counters
         /\ c.kind = kind /\ c.phase = phase /\ c.catch = catch
         /\ c.entry.scopes = scopes /\ c.entry.callDepth = callDepth /\ c.entry.tryDepth = tryDepth
<1>1. Counters \in Entries
  BY DEF Inv, Typed, Counters, Entries
<1>2. QED
  BY <1>1, Constants DEF Construct, Constructs, Counters

\* All but a `try` are without a catch and a finally.
Plain(kind, label, phase) == Construct(kind, label, phase, FALSE, FALSE)

LEMMA NewPlain ==
  ASSUME Inv, NEW kind \in Kinds, NEW label \in Labels \cup {NoLabel}, NEW phase \in Phases,
         NEW c, c = Plain(kind, label, phase)
  PROVE  /\ c \in Constructs /\ c.held = Running /\ c.entry = Counters
         /\ c.kind = kind /\ c.phase = phase
         /\ c.entry.scopes = scopes /\ c.entry.callDepth = callDepth /\ c.entry.tryDepth = tryDepth
<1>1. PICK none \in BOOLEAN : c = Construct(kind, label, phase, none, none)
  BY DEF Plain
<1>2. QED
  BY <1>1, NewConstruct

LEMMA EntersAs ==
  ASSUME Inv, flow = Running,
         NEW kind \in Kinds, kind # "try", NEW label \in Labels \cup {NoLabel},
         NEW phase \in Phases, NEW c, c = Plain(kind, label, phase), InShape(c),
         stack' = Append(stack, c), UNCHANGED <<flow, lastError, raised, outcome>>,
         scopes' = scopes + Frames(c), tryDepth' = tryDepth,
         callDepth' = callDepth + (IF kind = "call" THEN 1 ELSE 0), callDepth' <= MaxCallDepth
  PROVE  StepKinds
<1>1. /\ c \in Constructs /\ c.held = Running /\ c.entry = Counters /\ c.kind = kind
      /\ c.entry.scopes = scopes /\ c.entry.callDepth = callDepth /\ c.entry.tryDepth = tryDepth
  BY NewPlain
<1>2. tryDepth + 0 = tryDepth
  BY DEF Inv, Typed
<1>3. Counters' = After(c)
  BY <1>1, <1>2 DEF Counters, After
<1>4. Enters(c)
  BY <1>1, <1>3 DEF Enters
<1>5. QED
  BY <1>1, <1>4 DEF StepKinds

LEMMA EnteringLoops ==
  ASSUME Inv, flow = Running,
         \/ \E kind \in {"while", "doWhile"}, l \in Labels \cup {NoLabel} : EnterWhile(kind, l)
         \/ \E l \in Labels \cup {NoLabel} : EnterFor(l) \/ EnterForIn(l)
  PROVE  StepKinds
<1>1. scopes \in Nat /\ callDepth \in 0 .. MaxCallDepth
  BY DEF Inv, Typed
<1> DEFINE wrap == IF scopes = 0 THEN 1 ELSE 0
<1>2. ASSUME NEW l \in Labels \cup {NoLabel}, EnterWhile("while", l)
      PROVE  StepKinds
  <2>1. PICK c : c = Plain("while", l, "cond")
    OBVIOUS
  <2>2. c.kind = "while" /\ c.phase = "cond" /\ c.held = Running /\ c.entry.scopes = scopes
    BY <2>1, NewPlain DEF Kinds, Loops, Phases
  <2>3. InShape(c)
    BY <2>2, Constants DEF InShape
  <2>4. Frames(c) = wrap
    BY <2>2 DEF Frames, LoopFrames, Loops
  <2>5. stack' = Append(stack, c) /\ scopes' = scopes + wrap
        /\ UNCHANGED <<flow, lastError, raised, outcome, callDepth, tryDepth>>
    BY <1>2, <2>1 DEF EnterWhile, Enter, Plain
  <2>6. QED
    BY <1>1, <2>1, <2>2, <2>3, <2>4, <2>5, EntersAs, BoundsAssumption DEF Kinds, Loops, Phases
<1>3. ASSUME NEW l \in Labels \cup {NoLabel}, EnterWhile("doWhile", l)
      PROVE  StepKinds
  <2>1. PICK c : c = Plain("doWhile", l, "body")
    OBVIOUS
  <2>2. c.kind = "doWhile" /\ c.phase = "body" /\ c.held = Running /\ c.entry.scopes = scopes
    BY <2>1, NewPlain DEF Kinds, Loops, Phases
  <2>3. InShape(c)
    BY <2>2, Constants DEF InShape
  <2>4. Frames(c) = wrap + 1
    BY <2>2 DEF Frames, LoopFrames, Loops
  <2>5. stack' = Append(stack, c) /\ scopes' = scopes + (wrap + 1)
        /\ UNCHANGED <<flow, lastError, raised, outcome, callDepth, tryDepth>>
    BY <1>3, <2>1 DEF EnterWhile, Enter, Plain
  <2>6. QED
    BY <1>1, <2>1, <2>2, <2>3, <2>4, <2>5, EntersAs, BoundsAssumption DEF Kinds, Loops, Phases
<1>4. ASSUME NEW l \in Labels \cup {NoLabel}, EnterFor(l)
      PROVE  StepKinds
  <2>1. PICK c : c = Plain("for", l, "init")
    OBVIOUS
  <2>2. c.kind = "for" /\ c.phase = "init" /\ c.held = Running /\ c.entry.scopes = scopes
    BY <2>1, NewPlain DEF Kinds, Loops, Phases
  <2>3. InShape(c)
    BY <2>2, Constants DEF InShape
  <2>4. Frames(c) = 1
    BY <2>2 DEF Frames, LoopFrames, Loops
  <2>5. stack' = Append(stack, c) /\ scopes' = scopes + 1
        /\ UNCHANGED <<flow, lastError, raised, outcome, callDepth, tryDepth>>
    BY <1>4, <2>1 DEF EnterFor, Enter, Plain
  <2>6. QED
    BY <1>1, <2>1, <2>2, <2>3, <2>4, <2>5, EntersAs, BoundsAssumption DEF Kinds, Loops, Phases
<1>5. ASSUME NEW l \in Labels \cup {NoLabel}, EnterForIn(l)
      PROVE  StepKinds
  <2>1. PICK c : c = Plain("forIn", l, "iterable")
    OBVIOUS
  <2>2. c.kind = "forIn" /\ c.phase = "iterable" /\ c.held = Running /\ c.entry.scopes = scopes
    BY <2>1, NewPlain DEF Kinds, Loops, Phases
  <2>3. InShape(c)
    BY <2>2, Constants DEF InShape
  <2>4. Frames(c) = 0
    BY <2>2 DEF Frames, LoopFrames, Loops
  <2>5. stack' = Append(stack, c) /\ scopes' = scopes + 0
        /\ UNCHANGED <<flow, lastError, raised, outcome, callDepth, tryDepth>>
    BY <1>5, <2>1 DEF EnterForIn, Enter, Plain
  <2>6. QED
    BY <1>1, <2>1, <2>2, <2>3, <2>4, <2>5, EntersAs, BoundsAssumption DEF Kinds, Loops, Phases
<1>6. QED
  BY <1>2, <1>3, <1>4, <1>5

LEMMA EnteringBodies ==
  ASSUME Inv, flow = Running, EnterBlock \/ EnterOperand \/ EnterCall
  PROVE  StepKinds
<1>1. scopes \in Nat /\ callDepth \in 0 .. MaxCallDepth
  BY DEF Inv, Typed
<1>2. CASE EnterBlock
  <2>1. PICK c : c = Plain("block", NoLabel, "body")
    OBVIOUS
  <2>2. c.kind = "block" /\ c.phase = "body" /\ c.held = Running
    BY <2>1, NewPlain DEF Kinds, Loops, Phases
  <2>3. InShape(c) /\ Frames(c) = 1
    BY <2>2, Constants DEF InShape, Frames, Loops
  <2>4. stack' = Append(stack, c) /\ scopes' = scopes + 1
        /\ UNCHANGED <<flow, lastError, raised, outcome, callDepth, tryDepth>>
    BY <1>2, <2>1 DEF EnterBlock, Enter, Plain
  <2>5. QED
    BY <1>1, <2>1, <2>2, <2>3, <2>4, EntersAs, BoundsAssumption DEF Kinds, Loops, Phases
<1>3. CASE EnterOperand
  <2>1. PICK c : c = Plain("operand", NoLabel, "operand")
    OBVIOUS
  <2>2. c.kind = "operand" /\ c.phase = "operand" /\ c.held = Running
    BY <2>1, NewPlain DEF Kinds, Loops, Phases
  <2>3. InShape(c) /\ Frames(c) = 0
    BY <2>2, Constants DEF InShape, Frames, Loops
  <2>4. stack' = Append(stack, c) /\ scopes' = scopes + 0
        /\ UNCHANGED <<flow, lastError, raised, outcome, callDepth, tryDepth>>
    BY <1>3, <2>1 DEF EnterOperand, Enter, Plain
  <2>5. QED
    BY <1>1, <2>1, <2>2, <2>3, <2>4, EntersAs, BoundsAssumption DEF Kinds, Loops, Phases
<1>4. CASE EnterCall
  <2>1. PICK c : c = Plain("call", NoLabel, "body")
    OBVIOUS
  <2>2. c.kind = "call" /\ c.phase = "body" /\ c.held = Running
    BY <2>1, NewPlain DEF Kinds, Loops, Phases
  <2>3. InShape(c) /\ Frames(c) = 1
    BY <2>2, Constants DEF InShape, Frames, Loops
  <2>4. stack' = Append(stack, c) /\ scopes' = scopes + 1 /\ callDepth' = callDepth + 1
        /\ callDepth < MaxCallDepth
        /\ UNCHANGED <<flow, lastError, raised, outcome, tryDepth>>
    BY <1>4, <2>1 DEF EnterCall, Enter, Plain
  <2>5. QED
    BY <1>1, <2>1, <2>2, <2>3, <2>4, EntersAs, BoundsAssumption DEF Kinds, Loops, Phases
<1>5. QED
  BY <1>2, <1>3, <1>4

LEMMA EnteringTry ==
  ASSUME Inv, flow = Running, NEW catch \in BOOLEAN, NEW finally \in BOOLEAN,
         EnterTry(catch, finally)
  PROVE  StepKinds
<1>1. PICK c : c = Construct("try", NoLabel, "body", catch, finally)
  OBVIOUS
<1>2. /\ c \in Constructs /\ c.held = Running /\ c.entry = Counters
      /\ c.kind = "try" /\ c.phase = "body" /\ c.catch = catch
      /\ c.entry.scopes = scopes /\ c.entry.callDepth = callDepth /\ c.entry.tryDepth = tryDepth
  BY <1>1, NewConstruct DEF Kinds, Loops, Phases
<1>3. InShape(c) /\ Frames(c) = 1
  BY <1>2, Constants DEF InShape, Frames, Loops
<1>4. /\ stack' = Append(stack, c) /\ scopes' = scopes + 1
      /\ tryDepth' = tryDepth + (IF catch THEN 1 ELSE 0)
      /\ lastError' \in {0, lastError}
      /\ UNCHANGED <<flow, callDepth, raised, outcome>>
      /\ "tryInFinally" \in Features \/ \A i \in DOMAIN stack : stack[i].held.kind # "Err"
  BY <1>1 DEF EnterTry
<1>5. callDepth + 0 = callDepth /\ callDepth <= MaxCallDepth
  BY BoundsAssumption DEF Inv, Typed
<1>6. Counters' = After(c)
  BY <1>2, <1>3, <1>4, <1>5 DEF Counters, After
<1>7. Enters(c)
  BY <1>2, <1>3, <1>4, <1>5, <1>6 DEF Enters
<1>8. QED
  BY <1>2, <1>7 DEF StepKinds

\* The counters while a loop is the innermost construct.
LEMMA LoopLevel ==
  ASSUME Inv, stack # <<>>, Top.kind \in Loops
  PROVE  /\ callDepth = Top.entry.callDepth /\ tryDepth = Top.entry.tryDepth
         /\ LoopFrames(Top) \in Nat /\ Top.entry.scopes \in Nat
         /\ Top.phase = "iterable" => scopes = Top.entry.scopes
         /\ Top.phase = "body" => scopes - 1 = Top.entry.scopes + LoopFrames(Top)
         /\ Top.phase \notin {"iterable", "body"} => scopes = Top.entry.scopes + LoopFrames(Top)
<1>1. Top.kind \notin {"call", "try", "operand", "block"}
  BY DEF Loops
<1>2. callDepth = Top.entry.callDepth + 0 /\ tryDepth = Top.entry.tryDepth + 0
      /\ scopes = Top.entry.scopes + Frames(Top)
  BY <1>1, Level DEF After
<1>3. LoopFrames(Top) \in Nat
  BY DEF LoopFrames
<1>4. /\ Top.phase = "iterable" => Frames(Top) = 0
      /\ Top.phase = "body" => Frames(Top) = LoopFrames(Top) + 1
      /\ Top.phase \notin {"iterable", "body"} => Frames(Top) = LoopFrames(Top)
  BY <1>1 DEF Frames
<1>5. Top.entry.scopes \in Nat /\ Top.entry.callDepth \in Nat /\ Top.entry.tryDepth \in Nat
  BY Level
<1>6. QED
  BY <1>2, <1>3, <1>4, <1>5

LEMMA LoopLeft ==
  ASSUME Inv, stack # <<>>, Top.kind \in Loops, NEW f, NEW frames,
         frames = Top.entry.scopes + LoopFrames(Top), LeaveLoop(f, frames)
  PROVE  /\ Counters' = Top.entry /\ UNCHANGED <<lastError, raised, outcome>>
         /\ Leave(Replanted(f, Top.entry.scopes))
<1>1. scopes' = Top.entry.scopes
  BY LoopLevel DEF LeaveLoop
<1>2. callDepth' = Top.entry.callDepth /\ tryDepth' = Top.entry.tryDepth
      /\ UNCHANGED <<lastError, raised, outcome>> /\ Leave(Replanted(f, Top.entry.scopes))
  BY <1>1, LoopLevel DEF LeaveLoop, Stays
<1>3. QED
  BY <1>1, <1>2, Level DEF Counters

\* The three ways a loop is left: the flow goes on, or with a value, or it is
\* turned into a bare error.
LEMMA LoopPasses ==
  ASSUME Inv, stack # <<>>, Top.kind \in Loops, NEW frames,
         frames = Top.entry.scopes + LoopFrames(Top), LeaveLoop(flow, frames),
         flow.kind # "Running", IsJump(flow) => ~Matches(stack, Len(stack), flow.label)
  PROVE  StepKinds
<1>1. Top.kind # "call"
  BY DEF Loops
<1>2. QED
  BY <1>1, LoopLeft, LeavesPassed

LEMMA LoopReplaces ==
  ASSUME Inv, stack # <<>>, Top.kind \in Loops, NEW frames,
         frames = Top.entry.scopes + LoopFrames(Top),
         NEW f \in {Value, Bare}, LeaveLoop(f, frames), flow.kind # "Err", f = Value => Lands
  PROVE  StepKinds
<1>1. Replanted(f, Top.entry.scopes) = f
  BY Constants DEF Replanted
<1>2. QED
  BY <1>1, LoopLeft, LeavesOwn

LEMMA LoopTurns ==
  ASSUME Inv, stack # <<>>, Top.kind \in Loops, NEW p \in Phases, NEW frames,
         Resume(p, frames), InShape([Top EXCEPT !.phase = p]), p \notin {"iterable", "finally"},
         frames = Top.entry.scopes + LoopFrames(Top) + (IF p = "body" THEN 1 ELSE 0),
         flow.kind # "Err", Lands
  PROVE  StepKinds
<1> DEFINE c == [Top EXCEPT !.phase = p]
<1>1. c.phase = p /\ c.kind = Top.kind /\ c.entry = Top.entry
  BY TopFacts DEF Inv, Constructs
<1> HIDE DEF c
<1>2. c.kind \notin {"call", "try", "operand", "block"}
  BY <1>1 DEF Loops
<1>3. LoopFrames(c) = LoopFrames(Top) /\ LoopFrames(Top) \in Nat
  BY <1>1, LoopLevel DEF LoopFrames
<1>4. Frames(c) = LoopFrames(Top) + (IF p = "body" THEN 1 ELSE 0)
  BY <1>1, <1>2, <1>3 DEF Frames
<1>5. /\ scopes' = c.entry.scopes + Frames(c)
      /\ callDepth' = c.entry.callDepth + 0 /\ tryDepth' = c.entry.tryDepth + 0
  BY <1>1, <1>3, <1>4, Level, LoopLevel DEF Resume, Stays
<1>6. Counters' = After(c)
  BY <1>2, <1>5 DEF Counters, After
<1>7. stack' = Goto(p) /\ flow' = Running /\ UNCHANGED <<lastError, raised, outcome>>
  BY DEF Resume, Stays
<1>8. QED
  BY <1>6, <1>7, TurnsTo DEF c

LEMMA FlowKinds ==
  ASSUME Inv
  PROVE  /\ flow # Running => flow.kind # "Running"
         /\ flow.kind \in {"Running", "Value", "Return", "Throw", "Err"} \cup Jumps
         /\ IsJump(flow) => flow.kind \notin {"Running", "Value", "Return", "Throw", "Err"}
         /\ flow.kind \notin Jumps \cup {"Return"} => Lands
BY DEF Inv, Typed, WellFormed, Flows, IsJump, Jumps, Lands

LEMMA ConditionsStep ==
  ASSUME Inv, WhileCondition \/ ForCondition
  PROVE  StepKinds
<1>1. /\ stack # <<>> /\ Top.kind \in {"while", "doWhile", "for"} /\ Top.phase = "cond"
      /\ \/ flow = Value /\ Resume("body", scopes + 1)
         \/ flow = Value /\ LeaveLoop(Value, scopes)
         \/ flow.kind \in {"Return", "Throw", "Err"} /\ LeaveLoop(flow, scopes)
         \/ IsJump(flow) /\ LeaveLoop(Bare, scopes)
  BY DEF WhileCondition, ForCondition, AtTop
<1>2. Top.kind \in Loops /\ scopes = Top.entry.scopes + LoopFrames(Top)
      /\ scopes + 1 = Top.entry.scopes + LoopFrames(Top) + 1
  BY <1>1, LoopLevel DEF Loops
<1>3. CASE flow = Value /\ Resume("body", scopes + 1)
  <2>1. Lands /\ flow.kind # "Err"
    BY <1>3, FlowKinds, Constants DEF Jumps
  <2>2. InShape([Top EXCEPT !.phase = "body"])
    BY <1>1, TopFacts, Constants DEF InShape, Inv, Constructs
  <2>3. "body" \in Phases
    BY DEF Phases
  <2>4. QED
    BY <1>1, <1>2, <1>3, <2>1, <2>2, <2>3, LoopTurns
<1>4. CASE flow = Value /\ LeaveLoop(Value, scopes)
  BY <1>1, <1>2, <1>4, LoopReplaces, FlowKinds, Constants DEF Jumps
<1>5. CASE flow.kind \in {"Return", "Throw", "Err"} /\ LeaveLoop(flow, scopes)
  BY <1>1, <1>2, <1>5, LoopPasses, FlowKinds
<1>6. CASE IsJump(flow) /\ LeaveLoop(Bare, scopes)
  BY <1>1, <1>2, <1>6, LoopReplaces, FlowKinds, Constants
<1>7. QED
  BY <1>1, <1>3, <1>4, <1>5, <1>6

LEMMA ForPartsStep ==
  ASSUME Inv, ForInit \/ ForUpdate
  PROVE  StepKinds
<1>1. /\ stack # <<>> /\ Top.kind = "for" /\ Top.phase \in {"init", "update"}
      /\ \/ flow = Value /\ Resume("cond", scopes)
         \/ flow.kind \in {"Return", "Throw", "Err"} /\ LeaveLoop(flow, scopes)
         \/ flow.kind \in {"Return", "Throw"} \cup Jumps /\ LeaveLoop(Bare, scopes)
  BY DEF ForInit, ForUpdate, AtTop, IsJump
<1>2. Top.kind \in Loops /\ scopes = Top.entry.scopes + LoopFrames(Top)
      /\ scopes = Top.entry.scopes + LoopFrames(Top) + 0
  BY <1>1, LoopLevel DEF Loops
<1>3. CASE flow = Value /\ Resume("cond", scopes)
  <2>1. Lands /\ flow.kind # "Err"
    BY <1>3, FlowKinds, Constants DEF Jumps
  <2>2. InShape([Top EXCEPT !.phase = "cond"])
    BY <1>1, TopFacts, Constants DEF InShape, Inv, Constructs
  <2>3. "cond" \in Phases
    BY DEF Phases
  <2>4. QED
    BY <1>1, <1>2, <1>3, <2>1, <2>2, <2>3, LoopTurns
<1>4. CASE flow.kind \in {"Return", "Throw", "Err"} /\ LeaveLoop(flow, scopes)
  BY <1>1, <1>2, <1>4, LoopPasses, FlowKinds
<1>5. CASE flow.kind \in {"Return", "Throw"} \cup Jumps /\ LeaveLoop(Bare, scopes)
  BY <1>1, <1>2, <1>5, LoopReplaces, FlowKinds, Constants DEF Jumps
<1>6. QED
  BY <1>1, <1>3, <1>4, <1>5

LEMMA ForInStep ==
  ASSUME Inv, ForInIterable \/ ForInItem
  PROVE  StepKinds
<1>1. CASE ForInIterable
  <2>1. /\ stack # <<>> /\ Top.kind = "forIn" /\ Top.phase = "iterable" /\ Top.kind \in Loops
        /\ \/ flow = Value /\ Resume("items", scopes + 1)
           \/ flow.kind \in {"Throw", "Err"} /\ Leave(flow) /\ UNCHANGED scopes /\ Stays
           \/ flow.kind \in {"Return"} \cup Jumps /\ Leave(Bare) /\ UNCHANGED scopes /\ Stays
    BY <1>1 DEF ForInIterable, AtTop, Loops
  <2>2. LoopFrames(Top) = 1 /\ scopes = Top.entry.scopes
    BY <2>1, LoopLevel DEF LoopFrames
  <2>3. CASE flow = Value /\ Resume("items", scopes + 1)
    <3>1. Lands /\ flow.kind # "Err"
      BY <2>3, FlowKinds, Constants DEF Jumps
    <3>2. InShape([Top EXCEPT !.phase = "items"]) /\ "items" \in Phases
      BY <2>1, TopFacts, Constants DEF InShape, Inv, Constructs, Phases
    <3>3. scopes + 1 = Top.entry.scopes + LoopFrames(Top) + 0
      BY <2>1, <2>2, LoopLevel
    <3>4. QED
      BY <2>1, <2>3, <3>1, <3>2, <3>3, LoopTurns
  <2>4. ASSUME UNCHANGED scopes, Stays
        PROVE  Counters' = Top.entry /\ UNCHANGED <<lastError, raised, outcome>>
    BY <2>1, <2>2, <2>4, Level, LoopLevel DEF Stays, Counters
  <2>5. CASE flow.kind \in {"Throw", "Err"} /\ Leave(flow) /\ UNCHANGED scopes /\ Stays
    <3>1. flow.at <= scopes
      BY DEF Inv, Planted
    <3>2. Passed(flow)
      BY <2>1, <2>2, <2>5, <3>1 DEF Passed, IsJump, Jumps
    <3>3. Leaves(flow)
      BY <2>1, <2>4, <2>5, <3>2 DEF Leaves, Leave, Inv, Typed
    <3>4. QED
      BY <3>3 DEF StepKinds, Inv, Typed
  <2>6. CASE flow.kind \in {"Return"} \cup Jumps /\ Leave(Bare) /\ UNCHANGED scopes /\ Stays
    BY <2>1, <2>4, <2>6, LeavesOwn, Constants DEF Jumps
  <2>7. QED
    BY <2>1, <2>3, <2>5, <2>6
<1>2. CASE ForInItem
  <2>1. /\ flow = Running
        /\ stack # <<>> /\ Top.kind = "forIn" /\ Top.phase = "items" /\ Top.kind \in Loops
        /\ \/ Resume("body", scopes + 1)
           \/ LeaveLoop(Value, scopes)
           \/ /\ Record(TRUE)
              /\ Leave(Failure(lastError'))
              /\ scopes' = scopes - 1
              /\ UNCHANGED <<callDepth, tryDepth, outcome>>
    BY <1>2 DEF ForInItem, AtTop, Loops
  <2>2. LoopFrames(Top) = 1 /\ scopes = Top.entry.scopes + LoopFrames(Top)
        /\ Lands /\ flow.kind # "Err"
    BY <2>1, LoopLevel, FlowKinds, Constants DEF LoopFrames, Jumps
  <2>3. CASE Resume("body", scopes + 1)
    <3>1. InShape([Top EXCEPT !.phase = "body"]) /\ "body" \in Phases
      BY <2>1, TopFacts, Constants DEF InShape, Inv, Constructs, Phases
    <3>2. scopes + 1 = Top.entry.scopes + LoopFrames(Top) + 1
      BY <2>1, <2>2, LoopLevel
    <3>3. QED
      BY <2>1, <2>2, <2>3, <3>1, <3>2, LoopTurns
  <2>4. CASE LeaveLoop(Value, scopes)
    BY <2>1, <2>2, <2>4, LoopReplaces
  <2>5. CASE /\ Record(TRUE)
             /\ Leave(Failure(lastError'))
             /\ scopes' = scopes - 1
             /\ UNCHANGED <<callDepth, tryDepth, outcome>>
    <3>1. Counters' = Top.entry
      BY <2>1, <2>2, <2>5, Level, LoopLevel DEF Counters
    <3>2. QED
      BY <2>1, <2>2, <2>5, <3>1, LeavesFailing
  <2>6. QED
    BY <2>1, <2>3, <2>4, <2>5
<1>3. QED
  BY <1>1, <1>2

LEMMA LoopBodyStep == ASSUME Inv, LoopBody PROVE StepKinds
<1> DEFINE res == Replanted(flow, scopes - 1)
<1>1. /\ flow # Running /\ stack # <<>> /\ Top.kind \in Loops /\ Top.phase = "body"
      /\ \/ NextRound(res) /\ Resume(AfterBody, scopes - 1)
         \/ LeavesLoop(res) /\ LeaveLoop(Value, scopes - 1)
         \/ /\ ~NextRound(res) /\ ~LeavesLoop(res)
            /\ LeaveLoop(IF Top.kind = "forIn" /\ IsJump(res) THEN Bare ELSE res, scopes - 1)
  BY DEF LoopBody, AtTop
<1>2. scopes - 1 = Top.entry.scopes + LoopFrames(Top) /\ scopes - 1 \in Nat
      /\ scopes - 1 = Top.entry.scopes + LoopFrames(Top) + 0
  BY <1>1, LoopLevel
<1>3. flow \in Flows /\ WellFormed(flow) /\ flow.kind # "Running"
  BY <1>1, FlowKinds DEF Inv, Typed
<1>4. res \in Flows /\ res.kind = flow.kind /\ res.label = flow.label
  BY <1>2, <1>3, ReplantedIs
<1>5. Len(stack) \in 1 .. Len(stack) /\ Top = stack[Len(stack)] /\ Top.label \in Labels \cup {NoLabel}
  BY <1>1, TopFacts DEF Inv, Constructs
<1>6. ASSUME NextRound(res) \/ LeavesLoop(res)
      PROVE  Lands /\ flow.kind # "Err"
  <2>1. IsJump(flow) => flow.label = NoLabel \/ flow.label = Top.label
    BY <1>3, <1>4, <1>6 DEF NextRound, LeavesLoop, WellFormed, IsJump, Jumps
  <2>2. IsJump(flow) => Matches(stack, Len(stack), flow.label)
    BY <1>1, <1>5, <2>1 DEF Matches
  <2>3. flow.kind \notin {"Err", "Return"}
    BY <1>4, <1>6 DEF NextRound, LeavesLoop
  <2>4. QED
    BY <2>2, <2>3 DEF Lands
<1>7. CASE NextRound(res) /\ Resume(AfterBody, scopes - 1)
  <2>1. AfterBody \in {"update", "items", "cond"} /\ AfterBody \in Phases
    BY DEF AfterBody, Phases
  <2>2. InShape([Top EXCEPT !.phase = AfterBody])
    BY <1>1, TopFacts, Constants DEF InShape, Inv, Constructs, AfterBody, Loops
  <2>3. QED
    BY <1>1, <1>2, <1>6, <1>7, <2>1, <2>2, LoopTurns
<1>8. CASE LeavesLoop(res) /\ LeaveLoop(Value, scopes - 1)
  BY <1>1, <1>2, <1>6, <1>8, LoopReplaces
<1>9. CASE /\ ~NextRound(res) /\ ~LeavesLoop(res)
           /\ LeaveLoop(IF Top.kind = "forIn" /\ IsJump(res) THEN Bare ELSE res, scopes - 1)
  <2>1. CASE Top.kind = "forIn" /\ IsJump(res)
    <3>1. LeaveLoop(Bare, scopes - 1)
      BY <1>9, <2>1
    <3>2. flow.kind # "Err" /\ Bare # Value
      BY <1>4, <2>1, Constants DEF IsJump, Jumps
    <3>3. QED
      BY <1>1, <1>2, <3>1, <3>2, LoopReplaces
  <2>2. CASE ~(Top.kind = "forIn" /\ IsJump(res))
    <3>1. LeaveLoop(res, scopes - 1)
      BY <1>9, <2>2
    <3>2. Replanted(res, Top.entry.scopes) = Replanted(flow, Top.entry.scopes)
      <4>1. CASE flow.kind \in {"Return", "Throw"}
        BY <1>3, <4>1 DEF Replanted, Flows
      <4>2. CASE flow.kind \notin {"Return", "Throw"}
        BY <1>3, <4>2 DEF Replanted
      <4>3. QED
        BY <4>1, <4>2
    <3>3. Counters' = Top.entry /\ UNCHANGED <<lastError, raised, outcome>>
          /\ Leave(Replanted(flow, Top.entry.scopes))
      BY <1>1, <1>2, <3>1, <3>2, LoopLeft
    <3>4. IsJump(flow) => flow.label \in Labels /\ flow.label # Top.label
      BY <1>3, <1>4, <1>9 DEF NextRound, LeavesLoop, IsJump, Jumps, WellFormed
    <3>5. IsJump(flow) => ~Matches(stack, Len(stack), flow.label)
      BY <1>5, <3>4, LabelsAssumption DEF Matches
    <3>6. Top.kind # "call"
      BY <1>1 DEF Loops
    <3>7. QED
      BY <1>1, <1>3, <3>3, <3>5, <3>6, LeavesPassed
  <2>3. QED
    BY <2>1, <2>2
<1>10. QED
  BY <1>1, <1>7, <1>8, <1>9

LEMMA BodiesStep == ASSUME Inv, Block \/ Operand \/ EndCall PROVE StepKinds
<1>1. ASSUME stack # <<>>, Top.kind \in {"block", "operand", "call", "try"}
      PROVE  ~Matches(stack, Len(stack), flow.label)
  BY <1>1, TopFacts DEF Matches, Inv, Loops
<1>2. CASE Block
  <2>1. stack # <<>> /\ Top.kind = "block" /\ flow.kind # "Running"
        /\ Leave(Replanted(flow, scopes - 1)) /\ scopes' = scopes - 1 /\ Stays
    BY <1>2, FlowKinds DEF Block, AtTop
  <2>2. scopes = Top.entry.scopes + 1 /\ callDepth = Top.entry.callDepth + 0
        /\ tryDepth = Top.entry.tryDepth + 0
    BY <2>1, Level DEF After, Frames, Loops
  <2>3. scopes - 1 = Top.entry.scopes /\ Counters' = Top.entry
        /\ UNCHANGED <<lastError, raised, outcome>>
    BY <2>1, <2>2, Level DEF Stays, Counters
  <2>4. QED
    BY <1>1, <2>1, <2>3, LeavesPassed
<1>3. CASE Operand
  <2>1. stack # <<>> /\ Top.kind = "operand" /\ flow.kind # "Running"
        /\ Leave(IF flow.kind \in {"Value", "Throw", "Err"} THEN flow ELSE Bare)
        /\ UNCHANGED scopes /\ Stays
    BY <1>3, FlowKinds DEF Operand, AtTop
  <2>2. scopes = Top.entry.scopes + 0 /\ callDepth = Top.entry.callDepth + 0
        /\ tryDepth = Top.entry.tryDepth + 0
    BY <2>1, Level DEF After, Frames, Loops
  <2>3. scopes = Top.entry.scopes /\ Counters' = Top.entry
        /\ UNCHANGED <<lastError, raised, outcome>>
    BY <2>1, <2>2, Level DEF Stays, Counters
  <2>4. CASE flow.kind \in {"Value", "Throw", "Err"}
    <3>1. Leave(flow)
      BY <2>1, <2>4
    <3>2. Passed(flow)
      BY <2>1, <2>3, <2>4 DEF Passed, IsJump, Jumps, Inv, Planted
    <3>3. Leaves(flow)
      BY <2>1, <2>3, <3>1, <3>2 DEF Leaves, Leave, Inv, Typed
    <3>4. QED
      BY <3>3 DEF StepKinds, Inv, Typed
  <2>5. CASE flow.kind \notin {"Value", "Throw", "Err"}
    BY <2>1, <2>3, <2>5, LeavesOwn, Constants
  <2>6. QED
    BY <2>4, <2>5
<1>4. CASE EndCall
  <2>1. /\ stack # <<>> /\ Top.kind = "call" /\ flow.kind # "Running"
        /\ scopes' = scopes - 1 /\ callDepth' = callDepth - 1
        /\ UNCHANGED <<tryDepth, outcome>>
        /\ IF IsJump(flow)
           THEN Record(TRUE) /\ Leave(Failure(lastError'))
           ELSE /\ Leave(IF flow.kind = "Return" THEN Value ELSE Replanted(flow, scopes'))
                /\ UNCHANGED <<raised, lastError>>
    BY <1>4, FlowKinds DEF EndCall, AtTop
  <2>2. scopes = Top.entry.scopes + 1 /\ callDepth = Top.entry.callDepth + 1
        /\ tryDepth = Top.entry.tryDepth + 0
    BY <2>1, Level DEF After, Frames, Loops
  <2>3. scopes' = Top.entry.scopes /\ Counters' = Top.entry
    BY <2>1, <2>2, Level DEF Counters
  <2>4. CASE IsJump(flow)
    <3>1. flow.kind # "Err"
      BY <2>4 DEF IsJump, Jumps
    <3>2. QED
      BY <2>1, <2>3, <2>4, <3>1, LeavesFailing
  <2>5. CASE flow.kind = "Return"
    <3>1. ~IsJump(flow)
      BY <2>5 DEF IsJump, Jumps
    <3>2. Leave(Value) /\ UNCHANGED <<lastError, raised, outcome>> /\ Lands
      BY <2>1, <2>5, <3>1 DEF Lands
    <3>3. QED
      BY <2>1, <2>3, <2>5, <3>2, LeavesOwn
  <2>6. CASE ~IsJump(flow) /\ flow.kind # "Return"
    <3>1. Leave(Replanted(flow, Top.entry.scopes)) /\ UNCHANGED <<lastError, raised, outcome>>
      BY <2>1, <2>3, <2>6
    <3>2. QED
      BY <2>1, <2>3, <2>6, <3>1, LeavesPassed
  <2>7. QED
    BY <2>4, <2>5, <2>6
<1>5. QED
  BY <1>2, <1>3, <1>4

\* The flow of a try or of its catch goes on, or is held by the `finally`.
LEMMA AfterCatchStep ==
  ASSUME Inv, stack # <<>>, Top.kind = "try", flow.kind # "Running",
         NEW frames, frames = Top.entry.scopes, AfterCatch(Replanted(flow, frames), frames),
         callDepth' = Top.entry.callDepth, tryDepth' = Top.entry.tryDepth,
         UNCHANGED <<lastError, raised, outcome>>
  PROVE  StepKinds
<1> DEFINE f == Replanted(flow, frames)
<1>1. /\ f \in Flows /\ WellFormed(f) /\ f.kind = flow.kind /\ f.label = flow.label
      /\ f.cause = flow.cause /\ f.target = flow.target /\ f.at <= Top.entry.scopes
  BY ReplantedIs, Level DEF Inv, Typed
<1>2. ~Matches(stack, Len(stack), flow.label) /\ Top.kind # "call"
  BY TopFacts DEF Matches, Inv, Loops
<1>3. CASE Top.finally
  <2> DEFINE c == [Top EXCEPT !.phase = "finally", !.held = f]
  <2> HIDE DEF f
  <2>1. /\ stack' = [stack EXCEPT ![Len(stack)].phase = "finally", ![Len(stack)].held = f]
        /\ flow' = Running /\ scopes' = frames + 1
    BY <1>3 DEF AfterCatch, f
  <2>2. c \in Constructs /\ stack' = [stack EXCEPT ![Len(stack)] = c]
    BY <1>1, <2>1, Holding DEF Inv
  <2>3. /\ c.phase = "finally" /\ c.held = f /\ c.kind = "try" /\ c.label = Top.label
        /\ c.entry = Top.entry
    BY TopFacts DEF Inv, Constructs
  <2> HIDE DEF c
  <2>4. InShape(c)
    BY <1>1, <2>3 DEF InShape, Loops
  <2>5. /\ scopes' = c.entry.scopes + 1
        /\ callDepth' = c.entry.callDepth + 0 /\ tryDepth' = c.entry.tryDepth + 0
    BY <2>1, <2>3, Level
  <2>6. Counters' = After(c)
    BY <2>3, <2>5 DEF Counters, After, Frames, Loops
  <2>7. Passed(c.held)
    BY <1>1, <1>2, <2>3 DEF Passed
  <2>8. Turns(c)
    BY <2>1, <2>2, <2>3, <2>4, <2>6, <2>7 DEF Turns
  <2>9. QED
    BY <2>2, <2>8 DEF StepKinds
<1>4. CASE ~Top.finally
  <2>1. Leave(Replanted(flow, Top.entry.scopes)) /\ scopes' = Top.entry.scopes
    BY <1>4 DEF AfterCatch
  <2>2. Counters' = Top.entry
    BY <2>1, Level DEF Counters
  <2>3. QED
    BY <1>2, <2>1, <2>2, LeavesPassed
<1>5. QED
  BY <1>3, <1>4

LEMMA TryLevel ==
  ASSUME Inv, stack # <<>>, Top.kind = "try"
  PROVE  /\ scopes - 1 = Top.entry.scopes /\ scopes - 1 \in Nat
         /\ callDepth = Top.entry.callDepth
         /\ tryDepth = Top.entry.tryDepth + (IF Top.phase = "body" /\ Top.catch THEN 1 ELSE 0)
<1>1. scopes = Top.entry.scopes + 1 /\ callDepth = Top.entry.callDepth + 0
  BY Level DEF After, Frames, Loops
<1>2. tryDepth = Top.entry.tryDepth + (IF Top.phase = "body" /\ Top.catch THEN 1 ELSE 0)
  BY Level DEF After
<1>3. QED
  BY <1>1, <1>2, Level

LEMMA TryBodyStep == ASSUME Inv, TryBody PROVE StepKinds
<1> DEFINE f == Replanted(flow, scopes - 1)
<1>1. /\ stack # <<>> /\ Top.kind = "try" /\ Top.phase = "body" /\ flow.kind # "Running"
      /\ IF Top.catch /\ Caught(f)
         THEN stack' = Goto("catch") /\ flow' = Running /\ scopes' = scopes - 1 + 1
         ELSE AfterCatch(f, scopes - 1)
      /\ tryDepth' = tryDepth - (IF Top.catch THEN 1 ELSE 0)
      /\ lastError' = IF TakesError(flow) THEN 0 ELSE lastError
      /\ UNCHANGED <<callDepth, raised, outcome>>
  BY FlowKinds DEF TryBody, AtTop
<1>2. /\ scopes - 1 = Top.entry.scopes /\ scopes - 1 \in Nat /\ scopes - 1 + 1 = Top.entry.scopes + 1
      /\ callDepth' = Top.entry.callDepth /\ tryDepth' = Top.entry.tryDepth
      /\ callDepth' = Top.entry.callDepth + 0 /\ tryDepth' = Top.entry.tryDepth + 0
  BY <1>1, TryLevel, Level
<1>3. f.kind = flow.kind
  BY <1>2, ReplantedIs DEF Inv, Typed
<1>4. CASE Top.catch /\ Caught(f)
  <2> DEFINE c == [Top EXCEPT !.phase = "catch"]
  <2>1. c \in Constructs /\ stack' = [stack EXCEPT ![Len(stack)] = c]
    BY <1>1, <1>4, Rephased DEF Inv, Phases
  <2>2. /\ c.phase = "catch" /\ c.held = Top.held /\ c.kind = "try" /\ c.label = Top.label
        /\ c.entry = Top.entry
    BY <1>1, TopFacts DEF Inv, Constructs
  <2>3. Top.held = Running
    BY <1>1, TopFacts DEF Inv, InShape
  <2> HIDE DEF c
  <2>4. InShape(c)
    BY <2>2, <2>3, Constants DEF InShape, Loops
  <2>5. Counters' = After(c)
    BY <1>1, <1>2, <1>4, <2>2 DEF Counters, After, Frames, Loops
  <2>6. CASE flow.kind = "Throw"
    <3>1. Lands /\ lastError' = lastError
      BY <1>1, <2>6, FlowKinds DEF TakesError, Jumps
    <3>2. Turns(c)
      BY <1>1, <1>4, <2>1, <2>2, <2>3, <2>4, <2>5, <2>6, <3>1 DEF Turns
    <3>3. QED
      BY <2>1, <3>2 DEF StepKinds
  <2>7. CASE flow.kind = "Err"
    <3>1. lastError # 0 /\ raised[lastError]
      BY <1>3, <1>4, <2>7 DEF Caught
    <3>2. lastError' = 0
      BY <1>1, <1>4, <2>7, <3>1 DEF TakesError, Caught
    <3>3. Turns(c)
      BY <1>1, <1>4, <2>1, <2>2, <2>3, <2>4, <2>5, <2>7, <3>1, <3>2 DEF Turns
    <3>4. QED
      BY <2>1, <3>3 DEF StepKinds
  <2>8. QED
    BY <1>3, <1>4, <2>6, <2>7 DEF Caught
<1>5. CASE ~(Top.catch /\ Caught(f))
  <2>1. ~TakesError(flow)
    BY <1>3, <1>5 DEF TakesError, Caught
  <2>2. AfterCatch(Replanted(flow, scopes - 1), scopes - 1)
        /\ UNCHANGED <<lastError, raised, outcome>>
    BY <1>1, <1>5, <2>1
  <2>3. QED
    BY <1>1, <1>2, <2>2, AfterCatchStep
<1>6. QED
  BY <1>4, <1>5

LEMMA CatchAndFinallyStep == ASSUME Inv, Catch \/ Finally PROVE StepKinds
<1>1. CASE Catch
  <2>1. /\ stack # <<>> /\ Top.kind = "try" /\ Top.phase = "catch" /\ flow.kind # "Running"
        /\ AfterCatch(Replanted(flow, scopes - 1), scopes - 1) /\ Stays
    BY <1>1, FlowKinds DEF Catch, AtTop
  <2>2. /\ scopes - 1 = Top.entry.scopes /\ callDepth' = Top.entry.callDepth
        /\ tryDepth' = Top.entry.tryDepth /\ UNCHANGED <<lastError, raised, outcome>>
    BY <2>1, TryLevel, Level DEF Stays
  <2>3. QED
    BY <2>1, <2>2, AfterCatchStep
<1>2. CASE Finally
  <2>1. /\ stack # <<>> /\ Top.kind = "try" /\ Top.phase = "finally" /\ flow.kind # "Running"
        /\ Leave(IF flow.kind \in {"Throw", "Return", "Err"}
                 THEN Replanted(flow, scopes - 1) ELSE Top.held)
        /\ scopes' = scopes - 1 /\ Stays
    BY <1>2, FlowKinds DEF Finally, AtTop
  <2>2. /\ scopes - 1 = Top.entry.scopes /\ Counters' = Top.entry
        /\ UNCHANGED <<lastError, raised, outcome>>
    BY <2>1, TryLevel, Level DEF Stays, Counters
  <2>3. CASE flow.kind \in {"Throw", "Return", "Err"}
    <3>1. Leave(Replanted(flow, Top.entry.scopes)) /\ ~IsJump(flow)
      BY <2>1, <2>2, <2>3 DEF IsJump, Jumps
    <3>2. QED
      BY <2>1, <2>2, <3>1, LeavesPassed
  <2>4. CASE flow.kind \notin {"Throw", "Return", "Err"}
    <3>1. Leave(Top.held)
      BY <2>1, <2>4
    <3>2. Top.held \in Flows /\ WellFormed(Top.held) /\ Top.held.kind # "Running"
      BY <2>1, TopFacts DEF Inv, InShape
    <3>3. Leaves(Top.held)
      BY <2>1, <2>2, <2>4, <3>1, <3>2 DEF Leaves, Leave
    <3>4. QED
      BY <3>2, <3>3 DEF StepKinds
  <2>5. QED
    BY <2>3, <2>4
<1>3. QED
  BY <1>1, <1>2

LEMMA StepKindsComplete == ASSUME Inv, Next PROVE StepKinds
<1>1. outcome = "none" /\ (Runs \/ Handles \/ EndsWell)
  BY DEF Next
<1>2. CASE Runs
  <2>1. CASE \/ \E kind \in {"Break", "Continue"} : Jump(kind, NoLabel)
             \/ \E kind \in {"BreakLabel", "ContinueLabel"}, l \in Labels : Jump(kind, l)
    BY <1>1, <2>1, JumpSpeaks DEF StepKinds
  <2>2. CASE \/ \E kind \in {"Return", "Throw"} : Exit(kind)
             \/ \E catchable \in BOOLEAN : Raise(catchable)
             \/ Finish \/ CallTooDeep
    BY <2>2, ExitSpeaks, RaiseSpeaks, FinishSpeaks DEF StepKinds, CallTooDeep
  <2>3. CASE \/ \E kind \in {"while", "doWhile"}, l \in Labels \cup {NoLabel} : EnterWhile(kind, l)
             \/ \E l \in Labels \cup {NoLabel} : EnterFor(l) \/ EnterForIn(l)
    <3>1. flow = Running
      BY <2>3 DEF EnterWhile, EnterFor, EnterForIn, InBody
    <3>2. QED
      BY <2>3, <3>1, EnteringLoops
  <2>4. CASE EnterBlock \/ EnterOperand \/ EnterCall
    <3>1. flow = Running
      BY <2>4 DEF EnterBlock, EnterOperand, EnterCall, InBody, Evaluating
    <3>2. QED
      BY <2>4, <3>1, EnteringBodies
  <2>5. CASE \E catch, finally \in BOOLEAN : EnterTry(catch, finally)
    <3>1. flow = Running
      BY <2>5 DEF EnterTry, InBody
    <3>2. QED
      BY <2>5, <3>1, EnteringTry
  <2>6. QED
    BY <1>2, <2>1, <2>2, <2>3, <2>4, <2>5 DEF Runs
<1>3. CASE Handles
  <2>1. CASE EndProgram
    BY <2>1 DEF EndProgram, StepKinds, Ends
  <2>2. QED
    BY <1>3, <2>1, ConditionsStep, ForPartsStep, ForInStep, LoopBodyStep, BodiesStep,
       TryBodyStep, CatchAndFinallyStep DEF Handles
<1>4. CASE EndsWell
  BY <1>4 DEF EndsWell, StepKinds, Ends
<1>5. QED
  BY <1>1, <1>2, <1>3, <1>4

-----------------------------------------------------------------------------
(* The invariants over the kinds of steps.                                  *)

LEMMA FramesAreNatural ==
  ASSUME NEW c, c.kind \in Kinds
  PROVE  Frames(c) \in Nat
<1>1. LoopFrames(c) \in Nat
  BY DEF LoopFrames
<1>2. CASE c.kind \in Loops
  BY <1>1, <1>2 DEF Frames, Loops
<1>3. CASE c.kind \notin Loops
  BY <1>3 DEF Frames, Kinds
<1>4. QED
  BY <1>2, <1>3

\* What the counters are after a step that leaves construct c innermost.
LEMMA CountersAfter ==
  ASSUME NEW c \in Constructs, Counters' = After(c)
  PROVE  /\ scopes' \in Nat /\ scopes' >= c.entry.scopes /\ tryDepth' \in Nat
         /\ callDepth' \in Nat
         /\ callDepth' = c.entry.callDepth + (IF c.kind = "call" THEN 1 ELSE 0)
<1>1. c.entry.scopes \in Nat /\ c.entry.callDepth \in Nat /\ c.entry.tryDepth \in Nat
  BY BoundsAssumption DEF Constructs, Entries
<1>2. Frames(c) \in Nat
  BY FramesAreNatural DEF Constructs
<1>3. /\ scopes' = c.entry.scopes + Frames(c)
      /\ callDepth' = c.entry.callDepth + (IF c.kind = "call" THEN 1 ELSE 0)
      /\ tryDepth' = c.entry.tryDepth +
           (IF c.kind = "try" /\ c.phase = "body" /\ c.catch THEN 1 ELSE 0)
  BY DEF After, Counters
<1>4. QED
  BY <1>1, <1>2, <1>3

LEMMA CountersBack ==
  ASSUME Typed, stack # <<>>, Counters' = Top.entry
  PROVE  /\ scopes' \in Nat /\ scopes' = Top.entry.scopes /\ tryDepth' \in Nat
         /\ callDepth' \in 0 .. MaxCallDepth
BY TopFacts DEF Counters, Entries

LEMMA TypedSpeaks == ASSUME Inv, Speaks PROVE Typed'
<1>1. Typed /\ Len(raised) \in Nat
  BY LenProperties DEF Inv, Typed
<1>2. CASE flow'.kind # "Err" /\ UNCHANGED <<lastError, raised>>
  BY <1>1, <1>2 DEF Speaks, Typed, WellFormed
<1>3. CASE /\ raised' \in Seq(BOOLEAN) /\ Len(raised') = Len(raised) + 1
           /\ flow'.cause = Len(raised') /\ lastError' = Len(raised')
  <2>1. ASSUME NEW i \in 1 .. Len(stack')
        PROVE  InShape(stack'[i]) /\ stack'[i].held.cause <= Len(raised')
    <3>1. InShape(stack[i]) /\ stack[i].held \in Flows /\ stack[i].held.cause <= Len(raised)
      BY <1>1, <2>1, Each DEF Speaks
    <3>2. QED
      BY <1>1, <1>3, <3>1 DEF Speaks, Flows
  <2>2. QED
    BY <1>1, <1>3, <2>1 DEF Speaks, Typed
<1>4. QED
  BY <1>2, <1>3 DEF Speaks

LEMMA TypedEnters == ASSUME Inv, NEW c \in Constructs, Enters(c) PROVE Typed'
<1>1. Typed /\ Len(raised) \in Nat
  BY LenProperties DEF Inv, Typed
<1>2. /\ stack' \in Seq(Constructs) /\ Len(stack') = Len(stack) + 1
      /\ stack'[Len(stack')] = c /\ \A i \in 1 .. Len(stack) : stack'[i] = stack[i]
      /\ Len(stack) \in Nat
  BY <1>1, Pushed DEF Enters
<1>3. scopes' \in Nat /\ tryDepth' \in Nat /\ callDepth' \in 0 .. MaxCallDepth
  BY CountersAfter, BoundsAssumption DEF Enters
<1>4. ASSUME NEW i \in 1 .. Len(stack')
      PROVE  InShape(stack'[i]) /\ stack'[i].held.cause <= Len(raised')
  <2>1. CASE i = Len(stack')
    BY <1>1, <1>2, <2>1, Constants DEF Enters
  <2>2. CASE i # Len(stack')
    BY <1>1, <1>2, <2>2, Each DEF Enters
  <2>3. QED
    BY <2>1, <2>2
<1>5. flow' \in Flows /\ WellFormed(flow') /\ flow'.cause <= Len(raised')
  BY <1>1, Constants DEF Enters
<1>6. raised' \in Seq(BOOLEAN) /\ lastError' \in 0 .. Len(raised')
  BY <1>1 DEF Enters, Typed
<1>7. QED
  BY <1>2, <1>3, <1>4, <1>5, <1>6 DEF Typed

LEMMA TypedTurns == ASSUME Inv, NEW c \in Constructs, Turns(c) PROVE Typed'
<1>1. Typed /\ Len(raised) \in Nat /\ stack # <<>>
  BY LenProperties DEF Inv, Typed, Turns
<1>2. /\ stack' \in Seq(Constructs) /\ Len(stack') = Len(stack)
      /\ stack'[Len(stack)] = c /\ \A i \in 1 .. Len(stack) - 1 : stack'[i] = stack[i]
      /\ Len(stack) \in Nat
  BY <1>1, TurnedStack, TopFacts DEF Turns
<1>3. /\ scopes' \in Nat /\ tryDepth' \in Nat
      /\ callDepth' = c.entry.callDepth + (IF c.kind = "call" THEN 1 ELSE 0)
  BY CountersAfter DEF Turns
<1>4. callDepth' = callDepth
  BY <1>1, <1>3, Level DEF Turns, After
<1>5. c.held.cause <= Len(raised')
  <2>1. CASE c.held = Running
    BY <1>1, <2>1, Constants DEF Turns
  <2>2. CASE Passed(c.held)
    BY <2>2 DEF Passed, Turns, Inv, Typed
  <2>3. QED
    BY <2>1, <2>2 DEF Turns
<1>6. ASSUME NEW i \in 1 .. Len(stack')
      PROVE  InShape(stack'[i]) /\ stack'[i].held.cause <= Len(raised')
  <2>1. CASE i = Len(stack)
    BY <1>2, <1>5, <2>1 DEF Turns
  <2>2. CASE i # Len(stack)
    <3>1. i \in 1 .. Len(stack) /\ i \in 1 .. Len(stack) - 1
      BY <1>2, <2>2
    <3>2. stack'[i] = stack[i]
      BY <1>2, <3>1
    <3>3. raised' = raised
      BY DEF Turns
    <3>4. QED
      BY <1>1, <3>1, <3>2, <3>3, Each
  <2>3. QED
    BY <2>1, <2>2
<1>7. flow' \in Flows /\ WellFormed(flow') /\ flow'.cause <= Len(raised')
  BY <1>1, Constants DEF Turns
<1>8. raised' \in Seq(BOOLEAN) /\ lastError' \in 0 .. Len(raised')
  BY <1>1 DEF Turns, Typed
<1>9. QED
  BY <1>1, <1>2, <1>3, <1>4, <1>6, <1>7, <1>8 DEF Typed

LEMMA TypedLeaves == ASSUME Inv, NEW f \in Flows, Leaves(f) PROVE Typed'
<1>1. Typed /\ Len(raised) \in Nat /\ stack # <<>>
  BY LenProperties DEF Inv, Typed, Leaves
<1>2. /\ stack' \in Seq(Constructs) /\ Len(stack') = Len(stack) - 1
      /\ \A i \in 1 .. Len(stack') : stack'[i] = stack[i]
      /\ Len(stack) \in Nat
  BY <1>1, PoppedStack, TopFacts DEF Leaves
<1>3. scopes' \in Nat /\ tryDepth' \in Nat /\ callDepth' \in 0 .. MaxCallDepth
  BY <1>1, CountersBack DEF Leaves
<1>4. raised' \in Seq(BOOLEAN) /\ lastError' \in 0 .. Len(raised') /\ Len(raised) <= Len(raised')
      /\ Len(raised') \in Nat
  <2>1. CASE UNCHANGED <<lastError, raised>>
    BY <1>1, <2>1 DEF Typed
  <2>2. CASE /\ raised' \in Seq(BOOLEAN) /\ Len(raised') = Len(raised) + 1
             /\ lastError' = Len(raised')
    BY <1>1, <2>2
  <2>3. QED
    BY <2>1, <2>2 DEF Leaves
<1>5. f.cause <= Len(raised')
  <2>1. CASE Passed(f)
    BY <1>1, <1>4, <2>1 DEF Passed, Typed, Flows
  <2>2. CASE f = Top.held
    BY <1>1, <1>4, <2>2, TopFacts DEF Flows
  <2>3. CASE f.cause = 0 \/ f.cause = Len(raised')
    BY <1>4, <2>3
  <2>4. QED
    BY <2>1, <2>2, <2>3 DEF Leaves
<1>6. ASSUME NEW i \in 1 .. Len(stack')
      PROVE  InShape(stack'[i]) /\ stack'[i].held.cause <= Len(raised')
  <2>1. InShape(stack[i]) /\ stack[i].held \in Flows /\ stack[i].held.cause <= Len(raised)
    BY <1>1, <1>2, Each
  <2>2. QED
    BY <1>1, <1>2, <1>4, <2>1 DEF Flows
<1>7. flow' \in Flows /\ WellFormed(flow') /\ flow'.cause <= Len(raised')
  BY <1>4, <1>5, Constants DEF Leaves
<1>8. QED
  BY <1>2, <1>3, <1>4, <1>6, <1>7 DEF Typed

LEMMA TypedStep == ASSUME Inv, StepKinds PROVE Typed'
<1>1. CASE Ends
  BY <1>1 DEF Ends, Inv, Typed
<1>2. QED
  BY <1>1, TypedSpeaks, TypedEnters, TypedTurns, TypedLeaves DEF StepKinds

LEMMA BalancedStep == ASSUME Inv, StepKinds PROVE Balanced'
<1>1. Typed /\ Balanced /\ Len(stack) \in Nat
  BY LenProperties DEF Inv, Typed
<1>2. CASE Speaks \/ Ends
  <2>1. UNCHANGED <<stack, scopes, callDepth, tryDepth>>
    BY <1>2 DEF Speaks, Ends
  <2>2. Counters' = Counters /\ Top' = Top
    BY <2>1 DEF Counters, Top
  <2>3. QED
    BY <1>1, <2>1, <2>2 DEF Balanced
<1>3. ASSUME NEW c \in Constructs, Enters(c)
      PROVE  Balanced'
  <2>1. /\ Len(stack') = Len(stack) + 1 /\ stack'[Len(stack')] = c /\ Top' = c
        /\ \A i \in 1 .. Len(stack) : stack'[i] = stack[i]
    BY <1>1, <1>3, Pushed DEF Enters
  <2>2. ASSUME NEW i \in 1 .. Len(stack') - 1
        PROVE  stack'[i + 1].entry = After(stack'[i])
    <3>1. CASE i = Len(stack)
      <4>1. stack # <<>>
        BY <1>1, <3>1, <2>1, <2>2, EmptySeq
      <4>2. Counters = After(stack[i])
        BY <1>1, <3>1, <4>1, TopFacts DEF Balanced
      <4>3. QED
        BY <1>1, <1>3, <2>1, <2>2, <3>1, <4>2 DEF Enters
    <3>2. CASE i # Len(stack)
      <4>1. i \in 1 .. Len(stack) - 1 /\ i \in 1 .. Len(stack) /\ i + 1 \in 1 .. Len(stack)
        BY <1>1, <2>1, <3>2
      <4>2. QED
        BY <1>1, <2>1, <4>1 DEF Balanced
    <3>3. QED
      BY <3>1, <3>2
  <2>3. Counters' = After(c)
    BY <1>3 DEF Enters
  <2>4. QED
    BY <2>1, <2>2, <2>3 DEF Balanced
<1>4. ASSUME NEW c \in Constructs, Turns(c)
      PROVE  Balanced'
  <2>1. /\ Len(stack') = Len(stack) /\ stack'[Len(stack)] = c /\ Top' = c
        /\ \A i \in 1 .. Len(stack) - 1 : stack'[i] = stack[i]
        /\ c.entry = stack[Len(stack)].entry
    BY <1>1, <1>4, TurnedStack, TopFacts DEF Turns
  <2>2. ASSUME NEW i \in 1 .. Len(stack') - 1
        PROVE  stack'[i + 1].entry = After(stack'[i])
    <3>1. i + 1 \in 1 .. Len(stack) /\ stack'[i] = stack[i] /\ stack[i + 1].entry = After(stack[i])
      BY <1>1, <2>1 DEF Balanced
    <3>2. stack'[i + 1].entry = stack[i + 1].entry
      BY <1>1, <2>1, <3>1
    <3>3. QED
      BY <3>1, <3>2
  <2>3. Counters' = After(c)
    BY <1>4 DEF Turns
  <2>4. QED
    BY <2>1, <2>2, <2>3 DEF Balanced
<1>5. ASSUME NEW f \in Flows, Leaves(f)
      PROVE  Balanced'
  <2>1. /\ Len(stack') = Len(stack) - 1 /\ Len(stack') \in Nat
        /\ \A i \in 1 .. Len(stack') : stack'[i] = stack[i]
        /\ stack' # <<>> => Len(stack') \in 1 .. Len(stack') /\ Top' = stack[Len(stack')]
        /\ Top = stack[Len(stack)]
    BY <1>1, <1>5, PoppedStack, TopFacts DEF Leaves
  <2>2. ASSUME NEW i \in 1 .. Len(stack') - 1
        PROVE  stack'[i + 1].entry = After(stack'[i])
    <3>1. i \in 1 .. Len(stack') /\ i + 1 \in 1 .. Len(stack') /\ i \in 1 .. Len(stack) - 1
      BY <1>1, <2>1
    <3>2. QED
      BY <1>1, <2>1, <3>1 DEF Balanced
  <2>3. stack' # <<>> => Counters' = After(Top')
    <3>1. SUFFICES ASSUME stack' # <<>> PROVE Counters' = After(Top')
      OBVIOUS
    <3>2. Len(stack') \in 1 .. Len(stack) - 1 /\ Len(stack') + 1 = Len(stack)
      BY <1>1, <2>1, <3>1
    <3>3. stack[Len(stack)].entry = After(stack[Len(stack')])
      BY <1>1, <3>2 DEF Balanced
    <3>4. QED
      BY <1>5, <2>1, <3>1, <3>3 DEF Leaves
  <2>4. QED
    BY <2>1, <2>2, <2>3 DEF Balanced
<1>6. QED
  BY <1>2, <1>3, <1>4, <1>5 DEF StepKinds

\* What a flow inside construct n is aimed at depends on the constructs up to
\* n, and on the phase of loops only.
LEMMA AimedSame ==
  ASSUME NEW n \in Nat, NEW s, NEW t, NEW f, AimedAt(s, f, n),
         \A i \in 1 .. n :
            /\ t[i].kind = s[i].kind /\ t[i].label = s[i].label
            /\ t[i].kind \in Loops => t[i].phase = s[i].phase
  PROVE  AimedAt(t, f, n)
<1>0. ASSUME NEW j \in 1 .. n
      PROVE  /\ t[j].kind = s[j].kind /\ t[j].label = s[j].label
             /\ t[j].kind \in Loops => t[j].phase = s[j].phase
  OBVIOUS
<1>1. ASSUME NEW i \in 1 .. n, NEW l
      PROVE  Matches(s, i, l) <=> Matches(t, i, l)
  BY <1>0 DEF Matches
<1>2. CASE IsJump(f)
  <2>1. AimedJump(s, f, n)
    BY <1>2 DEF AimedAt
  <2>2. f.target \in 0 .. n /\ (f.target # 0 => Matches(t, f.target, f.label))
    BY <1>1, <2>1 DEF AimedJump
  <2>3. ASSUME NEW i \in f.target + 1 .. n, Matches(t, i, f.label)
        PROVE  \E j \in i + 1 .. n : t[j].kind = "call"
    <3>1. i \in 1 .. n
      BY <2>2
    <3>2. PICK j \in i + 1 .. n : s[j].kind = "call"
      BY <1>1, <2>1, <2>3, <3>1 DEF AimedJump
    <3>3. j \in 1 .. n
      BY <3>1
    <3>4. QED
      BY <1>0, <3>2, <3>3
  <2>4. AimedJump(t, f, n)
    BY <2>2, <2>3 DEF AimedJump
  <2>5. QED
    BY <1>2, <2>4 DEF AimedAt, IsJump, Jumps
<1>3. CASE f.kind = "Return"
  <2>1. AimedReturn(s, f, n)
    BY <1>3 DEF AimedAt
  <2>2. f.target \in 0 .. n /\ (f.target # 0 => t[f.target].kind = "call")
    BY <1>0, <2>1 DEF AimedReturn
  <2>3. \A i \in f.target + 1 .. n : i \in 1 .. n /\ t[i].kind # "call"
    BY <1>0, <2>1, <2>2 DEF AimedReturn
  <2>4. AimedReturn(t, f, n)
    BY <2>2, <2>3 DEF AimedReturn
  <2>5. QED
    BY <1>3, <2>4 DEF AimedAt, IsJump, Jumps
<1>4. CASE ~IsJump(f) /\ f.kind # "Return"
  BY <1>4 DEF AimedAt
<1>5. QED
  BY <1>2, <1>3, <1>4

\* A flow that construct n does not take is aimed outside it.
LEMMA AimedOutwards ==
  ASSUME NEW n \in Nat \ {0}, NEW s, NEW f, AimedAt(s, f, n),
         IsJump(f) => s[n].kind # "call" /\ ~Matches(s, n, f.label),
         f.kind = "Return" => s[n].kind # "call"
  PROVE  AimedAt(s, f, n - 1)
<1>1. CASE IsJump(f)
  <2>1. AimedJump(s, f, n) /\ f.target # n
    BY <1>1 DEF AimedAt, AimedJump
  <2>2. f.target \in 0 .. n - 1
    BY <2>1 DEF AimedJump
  <2>3. ASSUME NEW i \in f.target + 1 .. n - 1, Matches(s, i, f.label)
        PROVE  \E j \in i + 1 .. n - 1 : s[j].kind = "call"
    <3>1. PICK j \in i + 1 .. n : s[j].kind = "call"
      BY <2>1, <2>2, <2>3 DEF AimedJump
    <3>2. j # n
      BY <1>1, <3>1
    <3>3. QED
      BY <2>2, <3>1, <3>2
  <2>4. AimedJump(s, f, n - 1)
    BY <2>1, <2>2, <2>3 DEF AimedJump
  <2>5. QED
    BY <1>1, <2>4 DEF AimedAt, IsJump, Jumps
<1>2. CASE f.kind = "Return"
  <2>1. AimedReturn(s, f, n) /\ f.target # n
    BY <1>2 DEF AimedAt, AimedReturn
  <2>2. AimedReturn(s, f, n - 1)
    BY <2>1 DEF AimedReturn
  <2>3. QED
    BY <1>2, <2>2 DEF AimedAt, IsJump, Jumps
<1>3. CASE ~IsJump(f) /\ f.kind # "Return"
  BY <1>3 DEF AimedAt
<1>4. QED
  BY <1>1, <1>2, <1>3

\* Values, failures and the running code are aimed at nothing.
LEMMA AimedElse ==
  ASSUME NEW s, NEW f, NEW n, f.kind \in {"Running", "Value", "Throw", "Err"}
  PROVE  AimedAt(s, f, n)
BY DEF AimedAt, IsJump, Jumps

LEMMA PassedAimed ==
  ASSUME NEW s, NEW f, NEW n, f.kind = flow.kind, f.label = flow.label, f.target = flow.target,
         AimedAt(s, flow, n)
  PROVE  AimedAt(s, f, n)
BY DEF AimedAt, IsJump, AimedJump, AimedReturn

LEMMA AimedStep == ASSUME Inv, StepKinds PROVE Aimed'
<1>1. Typed /\ Aimed /\ Len(stack) \in Nat
  BY LenProperties DEF Inv, Typed
<1>2. CASE Speaks
  BY <1>1, <1>2 DEF Speaks, Aimed
<1>3. CASE Ends
  BY <1>1, <1>3 DEF Ends, Aimed
<1>4. ASSUME NEW c \in Constructs, Enters(c)
      PROVE  Aimed'
  <2>1. /\ Len(stack') = Len(stack) + 1 /\ stack'[Len(stack')] = c
        /\ \A i \in 1 .. Len(stack) : stack'[i] = stack[i]
    BY <1>1, <1>4, Pushed DEF Enters
  <2>2. ASSUME NEW i \in 1 .. Len(stack')
        PROVE  AimedAt(stack', stack'[i].held, i)
    <3>1. CASE i = Len(stack')
      BY <1>4, <2>1, <3>1, AimedElse, Constants DEF Enters
    <3>2. CASE i # Len(stack')
      <4>1. i \in 1 .. Len(stack) /\ i \in Nat /\ stack'[i] = stack[i]
        BY <1>1, <2>1, <3>2
      <4>2. AimedAt(stack, stack[i].held, i)
        BY <1>1, <4>1 DEF Aimed
      <4>3. \A j \in 1 .. i : stack'[j] = stack[j]
        BY <1>1, <2>1, <4>1
      <4>4. QED
        BY <4>1, <4>2, <4>3, AimedSame
    <3>3. QED
      BY <3>1, <3>2
  <2>3. AimedAt(stack', flow', Len(stack'))
    BY <1>4, AimedElse, Constants DEF Enters
  <2>4. QED
    BY <2>2, <2>3 DEF Aimed
<1>5. ASSUME NEW c \in Constructs, Turns(c)
      PROVE  Aimed'
  <2>1. /\ Len(stack') = Len(stack) /\ stack'[Len(stack)] = c
        /\ \A i \in 1 .. Len(stack) - 1 : stack'[i] = stack[i]
        /\ c.kind = stack[Len(stack)].kind /\ c.label = stack[Len(stack)].label
    BY <1>1, <1>5, TurnedStack, TopFacts DEF Turns
  <2>2. AimedAt(stack', c.held, Len(stack))
    <3>1. CASE c.held = Running
      BY <3>1, AimedElse, Constants
    <3>2. CASE c.kind = "try" /\ Passed(c.held)
      <4>1. AimedAt(stack, flow, Len(stack))
        BY <1>1 DEF Aimed
      <4>2. AimedAt(stack, c.held, Len(stack))
        BY <3>2, <4>1, PassedAimed DEF Passed
      <4>3. \A j \in 1 .. Len(stack) :
               /\ stack'[j].kind = stack[j].kind /\ stack'[j].label = stack[j].label
               /\ stack'[j].kind \in Loops => stack'[j].phase = stack[j].phase
        <5>1. c.kind \notin Loops
          BY <3>2 DEF Loops
        <5>2. QED
          BY <1>1, <2>1, <5>1
      <4>4. QED
        BY <1>1, <4>2, <4>3, AimedSame
    <3>3. QED
      BY <1>5, <3>1, <3>2 DEF Turns
  <2>3. ASSUME NEW i \in 1 .. Len(stack')
        PROVE  AimedAt(stack', stack'[i].held, i)
    <3>1. CASE i = Len(stack)
      BY <2>1, <2>2, <3>1
    <3>2. CASE i # Len(stack)
      <4>1. i \in 1 .. Len(stack) /\ i \in Nat /\ stack'[i] = stack[i]
        BY <1>1, <2>1, <3>2
      <4>2. AimedAt(stack, stack[i].held, i)
        BY <1>1, <4>1 DEF Aimed
      <4>3. \A j \in 1 .. i : stack'[j] = stack[j]
        BY <1>1, <2>1, <3>2, <4>1
      <4>4. QED
        BY <4>1, <4>2, <4>3, AimedSame
    <3>3. QED
      BY <3>1, <3>2
  <2>4. AimedAt(stack', flow', Len(stack'))
    BY <1>5, AimedElse, Constants DEF Turns
  <2>5. QED
    BY <2>3, <2>4 DEF Aimed
<1>6. ASSUME NEW f \in Flows, Leaves(f)
      PROVE  Aimed'
  <2> DEFINE n == Len(stack)
  <2>1. /\ Len(stack') = n - 1 /\ Len(stack') \in Nat /\ n \in Nat \ {0} /\ n \in 1 .. n
        /\ \A i \in 1 .. n - 1 : stack'[i] = stack[i]
        /\ Top = stack[n]
    BY <1>1, <1>6, PoppedStack, TopFacts DEF Leaves
  <2>2. ASSUME NEW i \in 1 .. Len(stack')
        PROVE  AimedAt(stack', stack'[i].held, i)
    <3>1. i \in 1 .. n /\ i \in Nat /\ stack'[i] = stack[i]
      BY <2>1
    <3>2. AimedAt(stack, stack[i].held, i)
      BY <1>1, <3>1 DEF Aimed
    <3>3. \A j \in 1 .. i : stack'[j] = stack[j]
      BY <2>1, <3>1
    <3>4. QED
      BY <3>1, <3>2, <3>3, AimedSame
  <2>3. AimedAt(stack, f, n - 1)
    <3>1. CASE Passed(f)
      <4>1. AimedAt(stack, flow, n)
        BY <1>1 DEF Aimed
      <4>2. AimedAt(stack, f, n)
        BY <3>1, <4>1, PassedAimed DEF Passed
      <4>3. /\ IsJump(f) => stack[n].kind # "call" /\ ~Matches(stack, n, f.label)
            /\ f.kind = "Return" => stack[n].kind # "call"
        BY <2>1, <3>1 DEF Passed, IsJump
      <4>4. QED
        BY <2>1, <4>2, <4>3, AimedOutwards
    <3>2. CASE f = Top.held /\ Top.kind = "try"
      <4>1. AimedAt(stack, f, n)
        BY <1>1, <2>1, <3>2 DEF Aimed
      <4>2. stack[n].kind # "call" /\ ~Matches(stack, n, f.label)
        BY <2>1, <3>2 DEF Matches, Loops
      <4>3. QED
        BY <2>1, <4>1, <4>2, AimedOutwards
    <3>3. CASE f.kind \in {"Value", "Err"}
      BY <3>3, AimedElse
    <3>4. QED
      BY <1>6, <3>1, <3>2, <3>3 DEF Leaves
  <2>4. AimedAt(stack', f, n - 1)
    BY <2>1, <2>3, AimedSame
  <2>5. AimedAt(stack', flow', Len(stack'))
    <3>1. CASE flow' = f
      BY <2>1, <2>4, <3>1
    <3>2. CASE flow' = Running
      BY <3>2, AimedElse, Constants
    <3>3. QED
      BY <1>6, <3>1, <3>2 DEF Leaves
  <2>6. QED
    BY <2>2, <2>5 DEF Aimed
<1>7. QED
  BY <1>2, <1>3, <1>4, <1>5, <1>6 DEF StepKinds

LEMMA PlantedStep == ASSUME Inv, StepKinds PROVE Planted'
<1>1. Typed /\ Planted /\ Len(stack) \in Nat /\ scopes \in Nat
  BY LenProperties DEF Inv, Typed
<1>2. CASE Speaks
  BY <1>1, <1>2 DEF Speaks, Planted
<1>3. CASE Ends
  BY <1>1, <1>3 DEF Ends, Planted
<1>4. ASSUME NEW c \in Constructs, Enters(c)
      PROVE  Planted'
  <2>1. /\ Len(stack') = Len(stack) + 1 /\ stack'[Len(stack')] = c
        /\ \A i \in 1 .. Len(stack) : stack'[i] = stack[i]
    BY <1>1, <1>4, Pushed DEF Enters
  <2>2. scopes' \in Nat /\ c.entry.scopes \in Nat
    BY <1>4, CountersAfter DEF Enters, Constructs, Entries
  <2>3. ASSUME NEW i \in 1 .. Len(stack')
        PROVE  stack'[i].held.at <= stack'[i].entry.scopes
    <3>1. CASE i = Len(stack')
      BY <1>4, <2>1, <2>2, <3>1, Constants DEF Enters
    <3>2. CASE i # Len(stack')
      BY <1>1, <2>1, <3>2 DEF Planted
    <3>3. QED
      BY <3>1, <3>2
  <2>4. QED
    BY <1>4, <2>2, <2>3, Constants DEF Planted, Enters
<1>5. ASSUME NEW c \in Constructs, Turns(c)
      PROVE  Planted'
  <2>1. /\ Len(stack') = Len(stack) /\ stack'[Len(stack)] = c
        /\ \A i \in 1 .. Len(stack) - 1 : stack'[i] = stack[i]
        /\ c.entry = Top.entry
    BY <1>1, <1>5, TurnedStack DEF Turns
  <2>2. scopes' \in Nat /\ c.entry.scopes \in Nat
    BY <1>5, CountersAfter DEF Turns, Constructs, Entries
  <2>3. c.held.at <= c.entry.scopes
    <3>1. CASE c.held = Running
      BY <2>2, <3>1, Constants
    <3>2. CASE Passed(c.held)
      BY <2>1, <3>2 DEF Passed
    <3>3. QED
      BY <1>5, <3>1, <3>2 DEF Turns
  <2>4. ASSUME NEW i \in 1 .. Len(stack')
        PROVE  stack'[i].held.at <= stack'[i].entry.scopes
    <3>1. CASE i = Len(stack)
      BY <2>1, <2>3, <3>1
    <3>2. CASE i # Len(stack)
      BY <1>1, <2>1, <3>2 DEF Planted
    <3>3. QED
      BY <3>1, <3>2
  <2>5. QED
    BY <1>5, <2>2, <2>4, Constants DEF Planted, Turns
<1>6. ASSUME NEW f \in Flows, Leaves(f)
      PROVE  Planted'
  <2>1. /\ Len(stack') = Len(stack) - 1
        /\ \A i \in 1 .. Len(stack') : stack'[i] = stack[i]
        /\ Len(stack) \in 1 .. Len(stack) /\ Top = stack[Len(stack)]
        /\ scopes' = Top.entry.scopes /\ scopes' \in Nat
    BY <1>1, <1>6, PoppedStack, TopFacts, CountersBack DEF Leaves
  <2>2. f.at <= scopes'
    <3>1. CASE Passed(f)
      BY <2>1, <3>1 DEF Passed
    <3>2. CASE f = Top.held
      BY <1>1, <2>1, <3>2 DEF Planted
    <3>3. CASE f.kind \in {"Value", "Err"}
      BY <1>6, <2>1, <3>3 DEF Leaves, WellFormed
    <3>4. QED
      BY <1>6, <3>1, <3>2, <3>3 DEF Leaves
  <2>3. flow'.at <= scopes'
    BY <1>6, <2>1, <2>2, Constants DEF Leaves
  <2>4. QED
    BY <1>1, <2>1, <2>3 DEF Planted
<1>7. QED
  BY <1>2, <1>3, <1>4, <1>5, <1>6 DEF StepKinds

LEMMA InvInit == Init => Inv
<1> SUFFICES ASSUME Init PROVE Inv
  OBVIOUS
<1>1. stack = <<>> /\ Len(stack) = 0 /\ flow = Running /\ scopes = 0 /\ callDepth = 0
      /\ tryDepth = 0 /\ lastError = 0 /\ raised = <<>> /\ Len(raised) = 0
  BY DEF Init
<1>2. Typed
  BY <1>1, Constants, BoundsAssumption DEF Typed
<1>3. Balanced
  BY <1>1 DEF Balanced
<1>4. Aimed
  BY <1>1, AimedElse, Constants DEF Aimed
<1>5. Planted
  BY <1>1, Constants DEF Planted
<1>6. QED
  BY <1>2, <1>3, <1>4, <1>5 DEF Inv

LEMMA InvStep == Inv /\ [Next]_vars => Inv'
<1> SUFFICES ASSUME Inv, [Next]_vars PROVE Inv'
  OBVIOUS
<1>1. CASE Next
  BY <1>1, StepKindsComplete, TypedStep, BalancedStep, AimedStep, PlantedStep DEF Inv
<1>2. CASE UNCHANGED vars
  <2>1. UNCHANGED <<stack, flow, scopes, callDepth, tryDepth, lastError, raised>>
    BY <1>2 DEF vars
  <2>2. Counters' = Counters /\ Top' = Top
    BY <2>1 DEF Counters, Top
  <2>3. Typed'
    BY <2>1 DEF Inv, Typed
  <2>4. Balanced'
    BY <2>1, <2>2 DEF Inv, Balanced
  <2>5. Aimed'
    BY <2>1 DEF Inv, Aimed
  <2>6. Planted'
    BY <2>1 DEF Inv, Planted
  <2>7. QED
    BY <2>3, <2>4, <2>5, <2>6 DEF Inv
<1>3. QED
  BY <1>1, <1>2

LEMMA InvAlways == Spec => []Inv
<1>1. Init => Inv
  BY InvInit
<1>2. Inv /\ [Next]_vars => Inv'
  BY InvStep
<1>3. QED
  BY <1>1, <1>2, PTL DEF Spec

-----------------------------------------------------------------------------
(* The failure in flight and the ones that `finally`s hold.                 *)

\* No try runs inside the finally of a failing try.
NoTryInFinally == "tryInFinally" \notin Features

LEMMA PendingInit == Init => Pending
<1> SUFFICES ASSUME Init PROVE Pending
  OBVIOUS
<1>1. stack = <<>> /\ Len(stack) = 0 /\ flow = Running
  BY DEF Init
<1>2. QED
  BY <1>1, Constants DEF Pending

LEMMA PendingStep == ASSUME NoTryInFinally, Inv, Pending, StepKinds PROVE Pending'
<1>1. Typed /\ Len(stack) \in Nat /\ Len(raised) \in Nat /\ flow \in Flows /\ WellFormed(flow)
  BY LenProperties DEF Inv, Typed
<1>2. \A i \in 1 .. Len(stack) : stack[i].held.cause # 0 => stack[i].held.kind = "Err"
  BY <1>1, Each DEF WellFormed
<1>3. CASE Speaks
  <2>1. flow.cause = 0 /\ stack' = stack
    BY <1>3, Constants DEF Speaks
  <2>2. CASE flow'.kind # "Err" /\ UNCHANGED <<lastError, raised>>
    <3>1. flow'.cause = 0
      BY <1>3, <2>2 DEF Speaks, WellFormed
    <3>2. QED
      BY <2>1, <2>2, <3>1 DEF Pending
  <2>3. CASE flow'.cause = Len(raised') /\ lastError' = Len(raised') /\ Len(raised') = Len(raised) + 1
    BY <1>1, <2>1, <2>3 DEF Pending
  <2>4. QED
    BY <1>3, <2>2, <2>3 DEF Speaks
<1>4. CASE Ends
  BY <1>4 DEF Ends, Pending
<1>5. ASSUME NEW c \in Constructs, Enters(c)
      PROVE  Pending'
  <2>1. /\ Len(stack') = Len(stack) + 1 /\ stack'[Len(stack')] = c
        /\ \A i \in 1 .. Len(stack) : stack'[i] = stack[i]
    BY <1>1, <1>5, Pushed DEF Enters
  <2>2. flow.cause = 0 /\ flow'.cause = 0 /\ c.held.cause = 0 /\ c.held.kind = "Running"
    BY <1>5, Constants DEF Enters
  <2>3. CASE c.kind # "try" /\ lastError' = lastError
    <3>1. ASSUME NEW i \in 1 .. Len(stack'), stack'[i].held.cause # 0
          PROVE  lastError' = stack'[i].held.cause
      <4>1. i \in 1 .. Len(stack)
        BY <1>1, <2>1, <2>2, <3>1
      <4>2. QED
        BY <2>1, <2>2, <2>3, <3>1, <4>1 DEF Pending
    <3>2. ASSUME NEW i \in 1 .. Len(stack'), stack'[i].held.kind = "Err",
                 NEW j \in i + 1 .. Len(stack')
          PROVE  stack'[j].kind # "try"
      <4>1. i \in 1 .. Len(stack)
        BY <1>1, <2>1, <2>2, <3>2
      <4>2. CASE j = Len(stack')
        BY <2>1, <2>3, <4>2
      <4>3. CASE j # Len(stack')
        <5>1. j \in i + 1 .. Len(stack) /\ j \in 1 .. Len(stack)
          BY <1>1, <2>1, <4>1, <4>3
        <5>2. QED
          BY <2>1, <3>2, <4>1, <5>1 DEF Pending
      <4>4. QED
        BY <4>2, <4>3
    <3>3. QED
      BY <2>2, <3>1, <3>2 DEF Pending
  <2>4. CASE \A i \in DOMAIN stack : stack[i].held.kind # "Err"
    <3>1. \A i \in 1 .. Len(stack) : stack[i].held.kind # "Err" /\ stack[i].held.cause = 0
      BY <1>1, <1>2, <2>4, LenProperties DEF Typed
    <3>2. ASSUME NEW i \in 1 .. Len(stack')
          PROVE  stack'[i].held.kind # "Err" /\ stack'[i].held.cause = 0
      <4>1. CASE i = Len(stack')
        BY <2>1, <2>2, <4>1
      <4>2. CASE i # Len(stack')
        <5>1. i \in 1 .. Len(stack)
          BY <1>1, <2>1, <4>2
        <5>2. QED
          BY <2>1, <3>1, <5>1
      <4>3. QED
        BY <4>1, <4>2
    <3>3. QED
      BY <2>2, <3>2 DEF Pending
  <2>5. QED
    BY <1>5, <2>3, <2>4 DEF Enters, NoTryInFinally
<1>6. ASSUME NEW c \in Constructs, Turns(c)
      PROVE  Pending'
  <2> DEFINE n == Len(stack)
  <2>1. /\ Len(stack') = n /\ stack'[n] = c /\ n \in 1 .. n
        /\ \A i \in 1 .. n - 1 : stack'[i] = stack[i]
        /\ Top = stack[n] /\ c.kind = Top.kind
    BY <1>1, <1>6, TurnedStack, TopFacts DEF Turns
  <2>2. flow'.cause = 0
    BY <1>6, Constants DEF Turns
  <2>3. ASSUME NEW i \in 1 .. n, stack'[i].held.kind = "Err", NEW j \in i + 1 .. n
        PROVE  stack'[j].kind # "try"
    <3>1. i \in 1 .. n - 1 /\ j \in 1 .. n /\ stack'[i] = stack[i]
      BY <1>1, <2>1
    <3>2. stack[j].kind # "try"
      BY <2>3, <3>1 DEF Pending
    <3>3. CASE j = n
      BY <2>1, <3>2, <3>3
    <3>4. CASE j # n
      BY <1>1, <2>1, <3>1, <3>2, <3>4
    <3>5. QED
      BY <3>3, <3>4
  <2>4. ASSUME c.kind = "try", NEW i \in 1 .. n - 1
        PROVE  stack'[i].held.cause = 0
    <3>1. i \in 1 .. n /\ n \in i + 1 .. n /\ stack'[i] = stack[i]
      BY <1>1, <2>1
    <3>2. stack[i].held.kind # "Err"
      BY <2>1, <2>4, <3>1 DEF Pending
    <3>3. QED
      BY <1>2, <3>1, <3>2
  <2>5. ASSUME NEW i \in 1 .. n, stack'[i].held.cause # 0
        PROVE  lastError' = stack'[i].held.cause
    <3>1. CASE c.held = Running /\ flow.kind # "Err" /\ lastError' = lastError
      <4>1. i # n
        BY <2>1, <2>5, <3>1, Constants
      <4>2. i \in 1 .. n - 1 /\ stack'[i] = stack[i]
        BY <1>1, <2>1, <4>1
      <4>3. flow.cause = 0
        BY <1>1, <3>1 DEF WellFormed
      <4>4. QED
        BY <2>5, <3>1, <4>2, <4>3 DEF Pending
    <3>2. CASE c.kind = "try" /\ c.held = Running
      <4>1. i # n
        BY <2>1, <2>5, <3>2, Constants
      <4>2. i \in 1 .. n - 1
        BY <1>1, <4>1
      <4>3. QED
        BY <2>4, <2>5, <3>2, <4>2
    <3>3. CASE c.kind = "try" /\ Passed(c.held) /\ lastError' = lastError
      <4>1. i = n
        <5>1. SUFFICES ASSUME i # n PROVE FALSE
          OBVIOUS
        <5>2. i \in 1 .. n - 1
          BY <1>1, <5>1
        <5>3. QED
          BY <2>4, <2>5, <3>3, <5>2
      <4>2. c.held.cause = flow.cause /\ flow.cause # 0
        BY <2>1, <2>5, <3>3, <4>1 DEF Passed
      <4>3. QED
        BY <2>1, <3>3, <4>1, <4>2 DEF Pending
    <3>4. QED
      BY <1>6, <3>1, <3>2, <3>3 DEF Turns
  <2>6. QED
    BY <2>1, <2>2, <2>3, <2>5 DEF Pending
<1>7. ASSUME NEW f \in Flows, Leaves(f)
      PROVE  Pending'
  <2> DEFINE n == Len(stack)
  <2>1. /\ Len(stack') = n - 1 /\ n \in 1 .. n
        /\ \A i \in 1 .. n - 1 : stack'[i] = stack[i]
        /\ Top = stack[n]
    BY <1>1, <1>7, PoppedStack, TopFacts DEF Leaves
  <2>2. ASSUME NEW i \in 1 .. n - 1, stack'[i].held.kind = "Err", NEW j \in i + 1 .. n - 1
        PROVE  stack'[j].kind # "try"
    <3>1. i \in 1 .. n /\ j \in 1 .. n - 1 /\ j \in i + 1 .. n
      BY <1>1
    <3>2. QED
      BY <2>1, <2>2, <3>1 DEF Pending
  <2>3. flow'.cause = f.cause \/ (f.kind = "Value" /\ flow'.cause = 0)
    BY <1>7, Constants DEF Leaves
  <2>4. f.kind = "Value" => f.cause = 0
    BY <1>7 DEF Leaves, WellFormed
  <2>5. flow'.cause = f.cause
    BY <2>3, <2>4
  <2>6. ASSUME flow.cause = 0, lastError' = lastError, NEW i \in 1 .. n - 1,
               stack'[i].held.cause # 0
        PROVE  lastError' = stack'[i].held.cause
    <3>1. i \in 1 .. n
      BY <1>1
    <3>2. QED
      BY <2>1, <2>6, <3>1 DEF Pending
  <2>7. /\ flow'.cause # 0 => lastError' = flow'.cause
        /\ flow'.cause = 0 => \A i \in 1 .. n - 1 :
             stack'[i].held.cause # 0 => lastError' = stack'[i].held.cause
    <3>1. CASE Passed(f) /\ UNCHANGED <<lastError, raised>>
      <4>1. f.cause = flow.cause
        BY <3>1 DEF Passed
      <4>2. QED
        BY <2>5, <2>6, <3>1, <4>1 DEF Pending
    <3>2. CASE f.cause = 0 /\ flow.kind # "Err" /\ UNCHANGED <<lastError, raised>>
      <4>1. flow.cause = 0
        BY <1>1, <3>2 DEF WellFormed
      <4>2. QED
        BY <2>5, <2>6, <3>2, <4>1
    <3>3. CASE f = Top.held /\ flow.kind # "Err" /\ UNCHANGED <<lastError, raised>>
      <4>1. flow.cause = 0
        BY <1>1, <3>3 DEF WellFormed
      <4>2. f.cause # 0 => lastError = f.cause
        BY <2>1, <3>3, <4>1 DEF Pending
      <4>3. QED
        BY <2>5, <2>6, <3>3, <4>1, <4>2
    <3>4. CASE Len(raised') = Len(raised) + 1 /\ f.cause = Len(raised') /\ lastError' = Len(raised')
      BY <1>1, <2>5, <3>4
    <3>5. QED
      BY <1>7, <3>1, <3>2, <3>3, <3>4 DEF Leaves
  <2>8. QED
    BY <2>1, <2>2, <2>7 DEF Pending
<1>8. QED
  BY <1>3, <1>4, <1>5, <1>6, <1>7 DEF StepKinds

LEMMA PendingAlways == ASSUME NoTryInFinally PROVE Spec => [](Inv /\ Pending)
<1>1. Init => Inv /\ Pending
  BY InvInit, PendingInit
<1>2. Inv /\ Pending /\ [Next]_vars => Inv' /\ Pending'
  <2> SUFFICES ASSUME Inv, Pending, [Next]_vars PROVE Inv' /\ Pending'
    OBVIOUS
  <2>1. CASE Next
    BY <2>1, InvStep, StepKindsComplete, PendingStep
  <2>2. CASE UNCHANGED vars
    BY <2>2, InvStep DEF vars, Pending
  <2>3. QED
    BY <2>1, <2>2
<1>3. QED
  BY <1>1, <1>2, PTL DEF Spec

-----------------------------------------------------------------------------
(* The properties of ControlFlow.                                           *)

\* Every state of every program is of the right type, whatever constructs are
\* nested and however often and deeply functions call one another.
THEOREM TypeCorrect == Spec => []TypeOK
<1>1. Inv => TypeOK
  <2> SUFFICES ASSUME Inv PROVE TypeOK
    OBVIOUS
  <2>1. Typed /\ DOMAIN stack = 1 .. Len(stack) /\ Len(raised) \in Nat
    BY LenProperties DEF Inv, Typed
  <2>2. ASSUME NEW f \in Flows, f.cause <= Len(raised)
        PROVE  IsFlow(f)
    BY <2>1, <2>2 DEF IsFlow, Flows
  <2>3. ASSUME NEW i \in DOMAIN stack
        PROVE  /\ stack[i].kind \in Loops \cup {"block", "operand", "call", "try"}
               /\ stack[i].phase \in Phases
               /\ IsFlow(stack[i].held)
    BY <2>1, <2>2, <2>3, Each DEF Constructs, Kinds
  <2>4. QED
    BY <2>1, <2>2, <2>3 DEF Typed, TypeOK
<1>2. QED
  BY <1>1, InvAlways, PTL

\* However a construct is left - by a value, a jump, a return, a throw, a
\* failure, through a catch or a finally - the frames, the call depth and the
\* try depth are what they were when it was entered: eval_ functions pop what
\* they pushed on every path out of them.
THEOREM NothingLeftBehind == Spec => LeavesNothingBehind
<1>1. Inv /\ [Next]_vars => [Len(stack') < Len(stack) => Counters' = Top.entry]_vars
  <2> SUFFICES ASSUME Inv, Next, Len(stack') < Len(stack) PROVE Counters' = Top.entry
    OBVIOUS
  <2>1. Typed /\ Len(stack) \in Nat /\ StepKinds
    BY LenProperties, StepKindsComplete DEF Inv, Typed
  <2>2. CASE Speaks \/ Ends
    BY <2>1, <2>2 DEF Speaks, Ends
  <2>3. ASSUME NEW c \in Constructs, Enters(c) PROVE FALSE
    BY <2>1, <2>3, Pushed DEF Enters
  <2>4. ASSUME NEW c \in Constructs, Turns(c) PROVE FALSE
    BY <2>1, <2>4, TurnedStack DEF Turns
  <2>5. QED
    BY <2>1, <2>2, <2>3, <2>4 DEF StepKinds, Leaves
<1>2. QED
  BY <1>1, InvAlways, PTL DEF Spec, LeavesNothingBehind

\* While a failure that recorded an error is in flight, last_error holds that
\* error and no other, and the frame of a returned or thrown cell is still there,
\* at any nesting, as long as no try runs inside the finally of a failing try
\* (eval_try saves nothing around its finally).  A bare Err has no error of its
\* own and is not spoken of.
THEOREM PayloadKept == ASSUME NoTryInFinally PROVE Spec => []FailureKeepsItsPayload
<1>1. Inv /\ Pending => FailureKeepsItsPayload
  <2> SUFFICES ASSUME Inv, Pending PROVE FailureKeepsItsPayload
    OBVIOUS
  <2>1. DOMAIN stack = 1 .. Len(stack)
    BY LenProperties DEF Inv, Typed
  <2>2. QED
    BY <2>1 DEF Inv, Planted, Pending, FailureKeepsItsPayload
<1>2. QED
  BY <1>1, PendingAlways, PTL

\* A jump that stops the unwinding has reached the loop it was written for and
\* a return its own function, whatever labels, calls and finallys are between.
ReachesItsTarget ==
  (flow.kind \in Jumps \cup {"Return"} /\ flow' = Running /\ Top.kind # "try")
    => flow.target = Len(stack)

THEOREM JumpsReachTheirTarget == Spec => [][ReachesItsTarget]_vars
<1>1. Inv /\ [Next]_vars => [ReachesItsTarget]_vars
  <2> SUFFICES ASSUME Inv, Next, flow.kind \in Jumps \cup {"Return"}, flow' = Running,
                      Top.kind # "try"
               PROVE  flow.target = Len(stack)
    BY DEF ReachesItsTarget
  <2>1. Typed /\ Len(stack) \in Nat /\ StepKinds /\ AimedAt(stack, flow, Len(stack))
    BY LenProperties, StepKindsComplete DEF Inv, Typed, Aimed
  <2>2. flow # Running /\ flow.kind \notin {"Running", "Value", "Err", "Throw"}
    BY Constants DEF Jumps
  <2>3. ASSUME Lands, stack # <<>>
        PROVE  flow.target = Len(stack)
    <3>1. Len(stack) \in 1 .. Len(stack) /\ Top = stack[Len(stack)]
      BY <2>1, <2>3, TopFacts
    <3>2. CASE IsJump(flow)
      <4>1. Matches(stack, Len(stack), flow.label)
        BY <2>3, <3>2 DEF Lands
      <4>2. AimedJump(stack, flow, Len(stack))
        BY <2>1, <3>2 DEF AimedAt
      <4>3. QED
        BY <2>1, <3>1, <4>1, <4>2 DEF AimedJump
    <3>3. CASE flow.kind = "Return"
      <4>1. Top.kind = "call"
        BY <2>3, <3>3 DEF Lands
      <4>2. AimedReturn(stack, flow, Len(stack))
        BY <2>1, <3>3 DEF AimedAt
      <4>3. QED
        BY <2>1, <3>1, <4>1, <4>2 DEF AimedReturn
    <3>4. QED
      BY <3>2, <3>3 DEF IsJump
  <2>4. CASE Speaks \/ Ends
    BY <2>2, <2>4 DEF Speaks, Ends
  <2>5. ASSUME NEW c \in Constructs, Enters(c) PROVE FALSE
    BY <2>2, <2>5 DEF Enters
  <2>6. ASSUME NEW c \in Constructs, Turns(c) PROVE flow.target = Len(stack)
    <3>1. Lands /\ stack # <<>>
      BY <2>2, <2>6 DEF Turns
    <3>2. QED
      BY <2>3, <3>1
  <2>7. ASSUME NEW f \in Flows, Leaves(f) PROVE flow.target = Len(stack)
    <3>1. f.kind = "Value" /\ stack # <<>>
      BY <2>7, Constants DEF Leaves
    <3>2. Lands
      BY <2>2, <2>7, <3>1 DEF Leaves, Passed
    <3>3. QED
      BY <2>3, <3>1, <3>2
  <2>8. QED
    BY <2>1, <2>4, <2>5, <2>6, <2>7 DEF StepKinds
<1>2. QED
  BY <1>1, InvAlways, PTL DEF Spec

\* And no catch handler runs for a fatal failure: the pending error a catch
\* looks at is that of the failure that reached it.
THEOREM JumpsLandRight == ASSUME NoTryInFinally PROVE Spec => JumpsLand
<1> DEFINE CaughtIsCatchable ==
             (flow.kind = "Err" /\ flow.cause # 0 /\ ~raised[flow.cause])
               => ~(Len(stack') = Len(stack) /\ stack # <<>> /\ Last(stack').phase = "catch")
<1>1. Inv /\ Pending /\ [Next]_vars => [CaughtIsCatchable]_vars
  <2> SUFFICES ASSUME Inv, Pending, Next, flow.kind = "Err", flow.cause # 0, ~raised[flow.cause],
                      Len(stack') = Len(stack), stack # <<>>, Last(stack').phase = "catch"
               PROVE  FALSE
    OBVIOUS
  <2>1. Typed /\ Len(stack) \in Nat /\ StepKinds /\ lastError = flow.cause
    BY LenProperties, StepKindsComplete DEF Inv, Typed, Pending
  <2>2. ~Speaks /\ ~Ends
    BY Constants DEF Speaks, Ends
  <2>3. ASSUME NEW c \in Constructs, Enters(c) PROVE FALSE
    BY <2>3, Constants DEF Enters
  <2>4. ASSUME NEW c \in Constructs, Turns(c) PROVE FALSE
    <3>1. Top' = c
      BY <2>1, <2>4, TurnedStack DEF Turns
    <3>2. c.phase = "catch"
      BY <3>1 DEF Top
    <3>3. QED
      BY <2>1, <2>4, <3>2 DEF Turns
  <2>5. ASSUME NEW f \in Flows, Leaves(f) PROVE FALSE
    BY <2>1, <2>5, PoppedStack DEF Leaves
  <2>6. QED
    BY <2>1, <2>2, <2>3, <2>4, <2>5 DEF StepKinds
<1> HIDE DEF CaughtIsCatchable
<1>2. Spec => [][CaughtIsCatchable]_vars
  BY <1>1, PendingAlways, PTL DEF Spec
<1>3. QED
  BY <1>2, JumpsReachTheirTarget DEF JumpsLand, ReachesItsTarget, CaughtIsCatchable

=============================================================================
