------------------------------ MODULE Compiler ------------------------------
(***************************************************************************)
(* The ahead-of-time compiler: source tree to HIR (hir_lower.rs), HIR to   *)
(* basic blocks (mir_lower.rs), blocks to machine operations               *)
(* (llvm_emit.rs), beside the interpreter that gives the source its        *)
(* meaning (stmt.rs, expr.rs, control.rs).                                 *)
(*                                                                         *)
(* A function body is drafted statement by statement, then compiled and    *)
(* run.  Values are small integers, conditions 0 and 1.  Its only input is *)
(* a native function called without arguments, which counts its calls; the *)
(* trace holds the result of every call and every `out`, so an expression  *)
(* evaluated once too often, or in another order, shows.                   *)
(***************************************************************************)
EXTENDS Integers, Sequences, SequencesExt

CONSTANTS
  MaxSize,    \* bound on the statements of a body
  Features    \* what bodies use beyond the subset compiled faithfully:
              \* "doWhileJump", "shadow", "operands"; and "unsupported"

VARIABLES
  draft,   \* constructs being written, the body itself first
  phase,   \* "draft", "lowered", "running", "done" or "refused"
  blocks,  \* the compiled body
  at,      \* label of the block to execute next
  mach     \* the machine: named slots, temporaries, trace, calls so far

vars == <<draft, phase, blocks, at, mach>>

-----------------------------------------------------------------------------
(* The source tree. *)

Lit(n) == [e |-> "Int", n |-> n]
Var(x) == [e |-> "Var", x |-> x]
CallNative == [e |-> "Call"]
Infix(op, l, r) == [e |-> "Infix", op |-> op, l |-> l, r |-> r]
Ternary(c, a, b) == [e |-> "Ternary", c |-> c, a |-> a, b |-> b]
Lambda == [e |-> "Lambda"]   \* any expression the back end has no form for

Let(x, v) == [s |-> "Let", x |-> x, v |-> v]
Assign(x, v) == [s |-> "Assign", x |-> x, v |-> v]
Out(v) == [s |-> "Out", v |-> v]
Return(v) == [s |-> "Return", v |-> v]
Break == [s |-> "Break"]
Continue == [s |-> "Continue"]
Throw == [s |-> "Throw"]     \* any statement the back end has no form for
Compound(kind, parts) == [s |-> kind, parts |-> parts]

Less(n) == Infix("<", CallNative, Lit(n))
LoopVar == "i"

\* What stands in the head of a compound statement.
Condition == Less(3)

-----------------------------------------------------------------------------
(* Drafting a body. *)

Loops == {"While", "DoWhile", "For"}
Branching == {"If", "Switch"}
Kinds == Loops \cup Branching \cup {"Block"}

\* Bodies a construct has: consequence and alternative; two cases and default.
Parts(kind) == CASE kind = "If" -> 2 [] kind = "Switch" -> 3 [] OTHER -> 1

RECURSIVE Size(_)
Size(body) ==
  FoldLeft(LAMBDA n, st : n + 1 + (IF st.s \in Kinds
                                   THEN FoldLeft(LAMBDA m, p : m + Size(p), 0, st.parts) ELSE 0),
           0, body)

DraftSize ==
  FoldLeft(LAMBDA n, c : n + 1 + FoldLeft(LAMBDA m, p : m + Size(p), 0, c.parts), 0, draft) - 1

InLoop == \E i \in DOMAIN draft : draft[i].s \in Loops
InFor == \E i \in DOMAIN draft : draft[i].s = "For"

\* A jump whose loop is a do-while.
InDoWhile ==
  InLoop /\ draft[CHOOSE i \in DOMAIN draft :
                    draft[i].s \in Loops /\ \A j \in i + 1 .. Len(draft) : draft[j].s \notin Loops].s
              = "DoWhile"

Simple ==
  {Out(Var("x")), Assign("x", Infix("+", Var("x"), CallNative)), Return(CallNative),
   Out(Ternary(Infix("&&", Less(2), Infix("<", Var("x"), Lit(2))), Var("x"), CallNative)),
   Out(Infix("??", Lit(1), CallNative))}
  \cup (IF InLoop /\ (InDoWhile => "doWhileJump" \in Features) THEN {Break, Continue} ELSE {})
  \cup (IF InFor THEN {Out(Var(LoopVar))} ELSE {})
  \cup (IF "shadow" \in Features THEN {Let("x", CallNative)} ELSE {})
  \cup (IF "operands" \in Features
        THEN {Out(Infix("??", CallNative, Lit(5))), Out(Infix("&&", Less(1), Less(1)))} ELSE {})
  \cup (IF "unsupported" \in Features THEN {Throw, Out(Lambda)} ELSE {})

Openers == Kinds \ (IF InFor /\ "shadow" \notin Features THEN {"For"} ELSE {})

Entry == <<"entry", 0>>

AddTo(c, st) == [c EXCEPT !.parts[Len(c.parts)] = Append(@, st)]

Init ==
  /\ draft = <<Compound("Block", <<<<>>>>)>>
  /\ phase = "draft"
  /\ blocks = <<>> /\ at = Entry
  /\ mach = [slots |-> [s \in {} |-> 0], temps |-> [t \in {} |-> 0], trace |-> <<>>, calls |-> 0]

Write ==
  /\ phase = "draft" /\ DraftSize < MaxSize
  /\ \/ \E st \in Simple :
          draft' = [draft EXCEPT ![Len(draft)] = AddTo(@, st)]
     \/ \E kind \in Openers : draft' = Append(draft, Compound(kind, <<<<>>>>))
     \/ /\ Len(Last(draft).parts) < Parts(Last(draft).s)
        /\ draft' = [draft EXCEPT ![Len(draft)].parts = Append(@, <<>>)]
  /\ UNCHANGED <<phase, blocks, at, mach>>

Close ==
  /\ phase = "draft" /\ Len(draft) > 1
  /\ Len(Last(draft).parts) = Parts(Last(draft).s)
  /\ LET rest == Front(draft)
     IN draft' = [rest EXCEPT ![Len(rest)] = AddTo(@, Last(draft))]
  /\ UNCHANGED <<phase, blocks, at, mach>>

\* The finished function: `x` is declared first.
Source == <<Let("x", Lit(0))>> \o draft[1].parts[1]

-----------------------------------------------------------------------------
(* What a body means: the interpreter.  A run is a stack of scope frames,   *)
(* a trace, the calls so far and how the last statement ended.              *)

Null == -1

Frame(x, v) == [y \in {x} |-> v]
NoNames == [y \in {} |-> 0]
Holder(run, x) ==
  CHOOSE i \in DOMAIN run.env : x \in DOMAIN run.env[i]
                                /\ \A j \in i + 1 .. Len(run.env) : x \notin DOMAIN run.env[j]
Truthy(v) == v \notin {0, Null}
Bool(b) == IF b THEN 1 ELSE 0

\* Evaluating an expression: the run after it, its value in `val`.
With(run, v) == [run EXCEPT !.val = v]

RECURSIVE Eval(_, _)
EvalInfix(e, run) ==
  LET left == Eval(e.l, run)
      both == Eval(e.r, left)
  IN CASE e.op = "??" -> IF left.val # Null THEN left ELSE both
       [] e.op = "&&" -> IF ~Truthy(left.val) THEN left ELSE both
       [] e.op = "+" -> With(both, left.val + both.val)
       [] e.op = "<" -> With(both, Bool(left.val < both.val))

Eval(e, run) ==
  CASE e.e = "Int" -> With(run, e.n)
    [] e.e = "Var" -> With(run, run.env[Holder(run, e.x)][e.x])
    [] e.e = "Call" -> [run EXCEPT !.val = run.calls, !.calls = @ + 1, !.trace = Append(@, run.calls)]
    [] e.e = "Ternary" -> LET c == Eval(e.c, run) IN Eval(IF Truthy(c.val) THEN e.a ELSE e.b, c)
    [] e.e = "Infix" -> EvalInfix(e, run)

RECURSIVE Run(_, _), RunWhile(_, _), RunFor(_, _)

\* eval_block: a frame, the statements until one does not end normally.
RunBlock(body, run) ==
  LET inside == [run EXCEPT !.env = Append(@, NoNames)]
      after == FoldLeft(LAMBDA r, st : IF r.flow = "Next" THEN Run(st, r) ELSE r, inside, body)
  IN [after EXCEPT !.env = Front(@)]

\* What a loop makes of the way its body ended.
LoopGoesOn(run) == run.flow \in {"Next", "Continue"}
LoopOver(run) == [run EXCEPT !.flow = IF @ = "Break" THEN "Next" ELSE @]

RunWhile(st, run) ==
  LET cond == Eval(Condition, run)
      body == RunBlock(st.parts[1], cond)
  IN IF ~Truthy(cond.val) THEN cond
     ELSE IF LoopGoesOn(body) THEN RunWhile(st, [body EXCEPT !.flow = "Next"])
     ELSE LoopOver(body)

RunDoWhile(st, run) ==
  LET body == RunBlock(st.parts[1], run)
  IN IF LoopGoesOn(body) THEN RunWhile(st, [body EXCEPT !.flow = "Next"]) ELSE LoopOver(body)

\* The update is `i = i + 1`.
RunFor(st, run) ==
  LET cond == Eval(Condition, run)
      body == RunBlock(st.parts[1], cond)
      top == Len(body.env)
  IN IF ~Truthy(cond.val) THEN cond
     ELSE IF LoopGoesOn(body)
     THEN RunFor(st, [body EXCEPT !.flow = "Next", !.env[top][LoopVar] = @ + 1])
     ELSE LoopOver(body)

\* The value is matched with 0, then with 1 or 2, then the default runs.
RunSwitch(st, run) ==
  LET subject == Eval(CallNative, run)
  IN RunBlock(CASE subject.val = 0 -> st.parts[1]
                [] subject.val \in {1, 2} -> st.parts[2]
                [] OTHER -> st.parts[3], subject)

Run(st, run) ==
  CASE st.s = "Let" -> LET v == Eval(st.v, run) top == Len(v.env)
                       IN [v EXCEPT !.env[top] =
                             [y \in DOMAIN @ \cup {st.x} |-> IF y = st.x THEN v.val ELSE @[y]]]
    [] st.s = "Assign" -> LET v == Eval(st.v, run)
                          IN [v EXCEPT !.env[Holder(v, st.x)][st.x] = v.val]
    [] st.s = "Out" -> LET v == Eval(st.v, run) IN [v EXCEPT !.trace = Append(@, v.val)]
    [] st.s = "Return" -> [Eval(st.v, run) EXCEPT !.flow = "Return"]
    [] st.s \in {"Break", "Continue"} -> [run EXCEPT !.flow = st.s]
    [] st.s = "Block" -> RunBlock(st.parts[1], run)
    [] st.s = "If" -> LET c == Eval(Condition, run)
                      IN RunBlock(st.parts[IF Truthy(c.val) THEN 1 ELSE 2], c)
    [] st.s = "Switch" -> RunSwitch(st, run)
    [] st.s = "While" -> RunWhile(st, run)
    [] st.s = "DoWhile" -> RunDoWhile(st, run)
    [] st.s = "For" -> LET v == Eval(CallNative, run)
                           r == RunFor(st, [v EXCEPT !.env = Append(@, Frame(LoopVar, v.val))])
                       IN [r EXCEPT !.env = Front(@)]

Interpreted ==
  RunBlock(Source, [env |-> <<>>, trace |-> <<>>, calls |-> 0, val |-> 0, flow |-> "Next"])

-----------------------------------------------------------------------------
(* Source to HIR.  Ternaries and ?? become a conditional, a do-while its    *)
(* body and a while, a switch a chain of ifs on a fresh name.               *)

If(c, a, b) == [e |-> "If", c |-> c, a |-> a, b |-> b]
NullLit == [e |-> "Null"]

\* Names the compiler makes up beside those of the source.
Named(x) == <<x, <<>>>>

RECURSIVE HirExpr(_)
\* a ?? b: `a` is written twice.
HirCoalesce(l, r) == If(Infix("!=", l, NullLit), l, r)

HirExpr(e) ==
  CASE e.e = "Ternary" -> If(HirExpr(e.c), HirExpr(e.a), HirExpr(e.b))
    [] e.e = "Infix" -> IF e.op = "??" THEN HirCoalesce(HirExpr(e.l), HirExpr(e.r))
                        ELSE Infix(e.op, HirExpr(e.l), HirExpr(e.r))
    [] e.e = "Var" -> Var(Named(e.x))
    [] e.e = "Lambda" -> NullLit
    [] OTHER -> e

\* Diagnostics SZ7002 and SZ7001: constructs without a HIR form.
RECURSIVE DiagExpr(_), DiagStmts(_)
DiagExpr(e) ==
  CASE e.e = "Lambda" -> 1
    [] e.e = "Infix" -> DiagExpr(e.l) + DiagExpr(e.r)
    [] e.e = "Ternary" -> DiagExpr(e.c) + DiagExpr(e.a) + DiagExpr(e.b)
    [] OTHER -> 0

DiagStmts(body) ==
  FoldLeft(LAMBDA n, st : n + (CASE st.s = "Throw" -> 1
                                 [] st.s \in {"Let", "Assign", "Out", "Return"} -> DiagExpr(st.v)
                                 [] st.s \in Kinds -> FoldLeft(LAMBDA m, p : m + DiagStmts(p), 0, st.parts)
                                 [] OTHER -> 0),
           0, body)

HIf(c, yes, no) == [h |-> "If", c |-> c, yes |-> yes, no |-> no]
HWhile(c, body) == [h |-> "While", c |-> c, body |-> body]
HFor(init, c, upd, body) == [h |-> "For", init |-> init, c |-> c, upd |-> upd, body |-> body]
HBlock(body) == [h |-> "Block", body |-> body]
HStore(x, v) == [h |-> "Store", x |-> x, v |-> v]   \* Let and Assign alike
HJump(kind) == [h |-> kind]

\* `path` tells switches apart, as the lowerer's counter does.
RECURSIVE HirStmts(_, _)
HirWhile(st, path) == <<HWhile(HirExpr(Condition), HirStmts(st.parts[1], path))>>

HirDoWhile(st, path) ==
  LET body == HirStmts(st.parts[1], path)
  IN <<HBlock(<<HBlock(body), HWhile(HirExpr(Condition), body)>>)>>

HirFor(st, path) ==
  <<HFor(HStore(Named(LoopVar), HirExpr(CallNative)), HirExpr(Condition),
         HStore(Named(LoopVar), HirExpr(Infix("+", Var(LoopVar), Lit(1)))), HirStmts(st.parts[1], path))>>

HirSwitch(st, path) ==
  LET tmp == <<"sw", path>>
      Is(n) == Infix("==", Var(tmp), Lit(n))
  IN <<HBlock(<<HStore(tmp, HirExpr(CallNative)),
                HIf(Is(0), HirStmts(st.parts[1], path \o <<1>>),
                    <<HIf(Infix("||", Is(1), Is(2)), HirStmts(st.parts[2], path \o <<2>>),
                          HirStmts(st.parts[3], path \o <<3>>))>>)>>)>>

HirIf(st, path) ==
  <<HIf(HirExpr(Condition), HirStmts(st.parts[1], path \o <<1>>), HirStmts(st.parts[2], path \o <<2>>))>>

HirStmt(st, path) ==
  CASE st.s \in {"Let", "Assign"} -> <<HStore(Named(st.x), HirExpr(st.v))>>
    [] st.s = "Out" -> <<[h |-> "Out", v |-> HirExpr(st.v)]>>
    [] st.s = "Return" -> <<[h |-> "Return", v |-> HirExpr(st.v)]>>
    [] st.s \in {"Break", "Continue"} -> <<HJump(st.s)>>
    [] st.s = "Throw" -> <<>>
    [] st.s = "Block" -> <<HBlock(HirStmts(st.parts[1], path))>>
    [] st.s = "If" -> HirIf(st, path)
    [] st.s = "Switch" -> HirSwitch(st, path)
    [] st.s = "While" -> HirWhile(st, path)
    [] st.s = "DoWhile" -> HirDoWhile(st, path)
    [] st.s = "For" -> HirFor(st, path)

HirStmts(body, path) ==
  FlattenSeq([i \in DOMAIN body |-> HirStmt(body[i], Append(path, i))])

-----------------------------------------------------------------------------
(* HIR to basic blocks: FnLowerer.  `low` is the lowerer: finished blocks,  *)
(* label and instructions of the open one, loops around it, counters.       *)

Temp(t) == [v |-> "Temp", t |-> t]
Const(n) == [v |-> "Const", n |-> n]

Goto(l) == [term |-> "Jump", to |-> l]
Branch(v, yes, no) == [term |-> "Branch", on |-> v, yes |-> yes, no |-> no]
Ret == [term |-> "Return"]

NewLowerer ==
  [blocks |-> <<>>, cur |-> Entry, instrs |-> <<>>, loops |-> <<>>, temp |-> 0, label |-> 0]

Emit(low, instr) == [low EXCEPT !.instrs = Append(@, instr)]
Seal(low, term) ==
  [low EXCEPT !.blocks = Append(@, [label |-> low.cur, instrs |-> low.instrs, term |-> term]),
              !.instrs = <<>>]
Start(low, label) == [low EXCEPT !.cur = label]
Fresh(low, n) == [low EXCEPT !.label = @ + n]
Label(prefix, low, n) == <<prefix, low.label + n>>

\* The lowerer after an expression and the operand that holds its value.
Lowered(low, val) == [low |-> low, val |-> val]
Define(low, instr) == Lowered([Emit(low, [instr EXCEPT !.t = low.temp]) EXCEPT !.temp = @ + 1],
                              Temp(low.temp))

RECURSIVE LowerExpr(_, _)
\* The result travels through a named slot.
LowerIfExpr(e, low) ==
  LET c == LowerExpr(e.c, low)
      yes == Label("if_then", c.low, 0)
      no == Label("if_else", c.low, 1)
      merge == Label("if_merge", c.low, 2)
      slot == <<"cond", <<c.low.temp>>>>
      open == [Fresh(c.low, 3) EXCEPT !.temp = @ + 1]
      a == LowerExpr(e.a, Start(Seal(open, Branch(c.val, yes, no)), yes))
      afterA == Seal(Emit(a.low, [i |-> "Store", x |-> slot, v |-> a.val]), Goto(merge))
      b == LowerExpr(e.b, Start(afterA, no))
      afterB == Seal(Emit(b.low, [i |-> "Store", x |-> slot, v |-> b.val]), Goto(merge))
  IN Lowered(Emit(Start(afterB, merge), [i |-> "Load", t |-> c.low.temp, x |-> slot]),
             Temp(c.low.temp))

LowerExpr(e, low) ==
  CASE e.e = "Int" -> Lowered(low, Const(e.n))
    [] e.e = "Null" -> Lowered(low, Const(0))     \* emitted as a zero
    [] e.e = "Var" -> Define(low, [i |-> "Load", t |-> 0, x |-> e.x])
    [] e.e = "Call" -> Define(low, [i |-> "Call", t |-> 0])
    [] e.e = "Infix" -> LET l == LowerExpr(e.l, low)
                            r == LowerExpr(e.r, l.low)
                        IN Define(r.low, [i |-> "BinOp", t |-> 0, op |-> e.op, l |-> l.val, r |-> r.val])
    [] e.e = "If" -> LowerIfExpr(e, low)

RECURSIVE LowerStmts(_, _)
LowerIf(st, low) ==
  LET c == LowerExpr(st.c, low)
      yes == Label("then", c.low, 0)
      merge == Label("merge", c.low, 1)
      no == IF st.no = <<>> THEN merge ELSE Label("else", c.low, 2)
      open == Fresh(c.low, IF st.no = <<>> THEN 2 ELSE 3)
      a == Seal(LowerStmts(st.yes, Start(Seal(open, Branch(c.val, yes, no)), yes)), Goto(merge))
      b == IF st.no = <<>> THEN a ELSE Seal(LowerStmts(st.no, Start(a, no)), Goto(merge))
  IN Start(b, merge)

InLoopBody(low, exit, next, body) ==
  LET inside == LowerStmts(body, [low EXCEPT !.loops = Append(@, [exit |-> exit, next |-> next])])
  IN [inside EXCEPT !.loops = Front(@)]

LowerWhile(st, low) ==
  LET cond == Label("while_cond", low, 0)
      body == Label("while_body", low, 1)
      exit == Label("while_exit", low, 2)
      c == LowerExpr(st.c, Start(Seal(Fresh(low, 3), Goto(cond)), cond))
      inside == InLoopBody(Start(Seal(c.low, Branch(c.val, body, exit)), body), exit, cond, st.body)
  IN Start(Seal(inside, Goto(cond)), exit)

LowerStore(st, low) ==
  LET v == LowerExpr(st.v, low) IN Emit(v.low, [i |-> "Store", x |-> st.x, v |-> v.val])

LowerFor(st, low) ==
  LET init == LowerStore(st.init, low)
      cond == Label("for_cond", init, 0)
      body == Label("for_body", init, 1)
      update == Label("for_update", init, 2)
      exit == Label("for_exit", init, 3)
      c == LowerExpr(st.c, Start(Seal(Fresh(init, 4), Goto(cond)), cond))
      inside == InLoopBody(Start(Seal(c.low, Branch(c.val, body, exit)), body), exit, update, st.body)
      upd == LowerStore(st.upd, Start(Seal(inside, Goto(update)), update))
  IN Start(Seal(upd, Goto(cond)), exit)

\* What follows is dead; outside a loop the jump disappears.
LowerJump(st, low) ==
  IF low.loops = <<>> THEN low
  ELSE LET loop == Last(low.loops)
       IN Start(Seal(Fresh(low, 1), Goto(IF st.h = "Break" THEN loop.exit ELSE loop.next)),
                Label("dead", low, 0))

\* mutant: the block of a return is not ended
LowerReturnSilent(st, low) == LowerExpr(st.v, low).low

LowerReturn(st, low) ==
  LET v == LowerExpr(st.v, low)
  IN Start(Seal(Fresh(v.low, 1), Ret), Label("dead", v.low, 0))

LowerStmt(st, low) ==
  CASE st.h = "Store" -> LowerStore(st, low)
    [] st.h = "Out" -> LET v == LowerExpr(st.v, low) IN Emit(v.low, [i |-> "Out", v |-> v.val])
    [] st.h = "Return" -> LowerReturn(st, low)
    [] st.h \in {"Break", "Continue"} -> LowerJump(st, low)
    [] st.h = "Block" -> LowerStmts(st.body, low)
    [] st.h = "If" -> LowerIf(st, low)
    [] st.h = "While" -> LowerWhile(st, low)
    [] st.h = "For" -> LowerFor(st, low)

LowerStmts(body, low) == FoldLeft(LAMBDA l, st : LowerStmt(st, l), low, body)

LowerFunction(body) == Seal(LowerStmts(body, NewLowerer), Ret).blocks

\* lower_program of both stages: all of it or only diagnostics.
Compile ==
  /\ phase = "draft" /\ Len(draft) = 1
  /\ IF DiagStmts(Source) > 0 THEN phase' = "refused" /\ UNCHANGED blocks
     ELSE /\ phase' = "running"
          /\ blocks' = LowerFunction(HirStmts(Source, <<>>))
  /\ UNCHANGED <<draft, at, mach>>

-----------------------------------------------------------------------------
(* Machine operations: LlvmEmitter, and one basic block executed. *)

Put(f, x, v) == [y \in DOMAIN f \cup {x} |-> IF y = x THEN v ELSE f[y]]
Resolve(m, val) == IF val.v = "Const" THEN val.n ELSE m.temps[val.t]

BinOp(op, l, r) ==
  CASE op = "+" -> l + r
    [] op = "<" -> Bool(l < r)
    [] op = "==" -> Bool(l = r)
    [] op = "!=" -> Bool(l # r)
    [] op = "&&" -> Bool(l = 1 /\ r = 1)   \* and, or on bits: both sides are evaluated
    [] op = "||" -> Bool(l = 1 \/ r = 1)

Execute(m, instr) ==
  CASE instr.i = "Store" -> [m EXCEPT !.slots = Put(@, instr.x, Resolve(m, instr.v))]
    [] instr.i = "Load" -> [m EXCEPT !.temps = Put(@, instr.t, m.slots[instr.x])]
    [] instr.i = "BinOp" -> [m EXCEPT !.temps = Put(@, instr.t, BinOp(instr.op, Resolve(m, instr.l),
                                                                      Resolve(m, instr.r)))]
    [] instr.i = "Call" -> [m EXCEPT !.temps = Put(@, instr.t, m.calls), !.calls = @ + 1,
                                     !.trace = Append(@, m.calls)]
    [] instr.i = "Out" -> [m EXCEPT !.trace = Append(@, Resolve(m, instr.v))]

BlockAt(label) == SelectInSeq(blocks, LAMBDA b : b.label = label)

\* One basic block and its terminator.
ExecuteBlock ==
  /\ phase = "running"
  /\ LET b == blocks[BlockAt(at)]
         m == FoldLeft(Execute, mach, b.instrs)
     IN /\ mach' = m
        /\ phase' = IF b.term.term = "Return" THEN "done" ELSE phase
        /\ at' = CASE b.term.term = "Return" -> at
                   [] b.term.term = "Jump" -> b.term.to
                   [] b.term.term = "Branch" -> IF Resolve(m, b.term.on) = 1 THEN b.term.yes ELSE b.term.no
  /\ UNCHANGED <<draft, blocks>>

Next == Write \/ Close \/ Compile \/ ExecuteBlock

Spec == Init /\ [][Next]_vars

-----------------------------------------------------------------------------
(* Properties. *)

\* The compiled body does what the interpreter does: every call and every
\* `out`, in the same order, with the same results (spec/compiler.md: the
\* interpreter is the authority, later stages implement equivalent behaviour).
SameBehaviour == phase = "done" => mach.trace = Interpreted.trace

\* While it runs it has never done anything the interpreter would not.
NeverAhead == phase = "running" => IsPrefix(mach.trace, Interpreted.trace)

\* Every block has a label of its own and every jump one to go to.
BlocksAreClosed ==
  /\ \A i, j \in DOMAIN blocks : blocks[i].label = blocks[j].label => i = j
  /\ \A i \in DOMAIN blocks :
       LET term == blocks[i].term
       IN (CASE term.term = "Return" -> {} [] term.term = "Jump" -> {term.to}
             [] term.term = "Branch" -> {term.yes, term.no})
            \subseteq {blocks[j].label : j \in DOMAIN blocks}

RECURSIVE Mentions(_)
MentionsExpr(e) == e.e = "Lambda" \/ (e.e = "Infix" /\ (e.l.e = "Lambda" \/ e.r.e = "Lambda"))
Mentions(body) ==
  \E i \in DOMAIN body :
    \/ body[i].s = "Throw"
    \/ body[i].s \in {"Let", "Assign", "Out", "Return"} /\ MentionsExpr(body[i].v)
    \/ body[i].s \in Kinds /\ \E p \in DOMAIN body[i].parts : Mentions(body[i].parts[p])

\* Lowering is atomic: a body with a construct that has no compiled form is
\* refused as a whole, at whatever depth the construct is, and no other is.
LoweringIsAtomic ==
  /\ phase \in {"running", "done"} => ~Mentions(Source)
  /\ phase = "refused" => Mentions(Source)
=============================================================================
