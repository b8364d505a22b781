---------------------------- MODULE FlashScopes ----------------------------
(***************************************************************************)
(* The memory of a running Serez program: two arenas, the stack of scope   *)
(* frames whose watermarks truncate the scoped one, and the cells closures *)
(* capture.  src/src/scope.rs, src/src/region.rs and the parts of          *)
(* src/src/evaluator that push, pop, declare, capture and rebind.          *)
(*                                                                         *)
(* The interpreter is driven by every program: each step is one statement  *)
(* the text of the innermost body might contain.  A body only mentions     *)
(* names that are lexically visible to it, which is what the semantic      *)
(* phase enforces; the interpreter then resolves them as it does.          *)
(*                                                                         *)
(* Abstractions.  A value is plain data or a function; what matters of a   *)
(* function is its captured list.  A cell carries the identity `vid` of    *)
(* the variable or object it stores and so does every binding: a ghost     *)
(* that says which cell a reference was made for.  Temporaries nobody      *)
(* names are left out.                                                     *)
(***************************************************************************)
EXTENDS Integers, Sequences, FiniteSets, SequencesExt

CONSTANTS
  Locals,     \* names declared inside bodies
  Globals,    \* names declared at top level
  This,       \* the name `this`
  NoName,     \* absence of a name
  Features,   \* which of "boundMethod", "receiverArg", "outCall", "nestedFn", "fieldFn" programs use
  MaxCells, MaxFrames, MaxVids, MaxMentions   \* bounds

Names == Locals \cup Globals \cup {This}

VARIABLES
  garena, sarena,  \* global_arena and scopes.arena: sequences of cells
  frames,          \* scopes.frames, innermost last
  gbinds,          \* global_bindings
  outMark,         \* scratch mark of a top-level `out`, -1 outside one
  vids             \* identities used so far (ghost)

vars == <<garena, sarena, frames, gbinds, outMark, vids>>

\* A reference and whom it was made for; a value; a cell.
Entry(region, index, vid) == [region |-> region, index |-> index, vid |-> vid]
NoBinds == [n \in {} |-> NoName]
Data == [fn |-> FALSE, caps |-> NoBinds, lex |-> {}, self |-> NoName]
Function(caps, lex, self) == [fn |-> TRUE, caps |-> caps, lex |-> lex, self |-> self]
Cell(vid, val) == [vid |-> vid, val |-> val]

Frame(kind, mark, binds, lex, self) ==
  [kind |-> kind, mark |-> mark, binds |-> binds, lex |-> lex, self |-> self,
   fresh |-> TRUE]

Bind(binds, n, e) == [m \in DOMAIN binds \cup {n} |-> IF m = n THEN e ELSE binds[m]]

Init ==
  /\ garena = <<>> /\ sarena = <<>>
  /\ frames = <<>> /\ gbinds = NoBinds
  /\ outMark = -1
  /\ vids = 0

-----------------------------------------------------------------------------
(* Resolving names. *)

Arena(region) == IF region = "global" THEN garena ELSE sarena

\* The entry's cell is there and is still the one the entry was made for.
Resolves(e) ==
  e.index \in DOMAIN Arena(e.region) /\ Arena(e.region)[e.index].vid = e.vid

\* Reading a freed slot yields null.
Value(e) ==
  IF e.index \in DOMAIN Arena(e.region) THEN Arena(e.region)[e.index].val ELSE Data

\* ScopeStack::lookup walks every frame, callers' included.
FramesWith(n) == {i \in DOMAIN frames : n \in DOMAIN frames[i].binds}
Innermost(S) == CHOOSE i \in S : \A j \in S : j <= i

Lookup(n) ==
  IF FramesWith(n) # {} THEN frames[Innermost(FramesWith(n))].binds[n] ELSE gbinds[n]

\* What the program text can see: the frames of the running body only.
Body == LET calls == {i \in DOMAIN frames : frames[i].kind \in {"call", "new"}}
        IN IF calls = {} THEN DOMAIN frames ELSE Innermost(calls) .. Len(frames)
LexWith(n) == {i \in Body : n \in frames[i].lex}
LexLocals == {n \in Names : LexWith(n) # {}}
LexVisible == LexLocals \cup DOMAIN gbinds
LexLookup(n) ==
  IF LexWith(n) # {} THEN frames[Innermost(LexWith(n))].binds[n] ELSE gbinds[n]

-----------------------------------------------------------------------------
(* Capturing. *)

\* mutant: only the innermost frame holding the name follows the promotion
RebindInnermost(fs, promoted, newRef) ==
  [i \in DOMAIN fs |->
     [fs[i] EXCEPT !.binds =
        [m \in DOMAIN @ |->
           IF \E n \in promoted : n = m /\ i = Innermost(FramesWith(n))
           THEN newRef[m] ELSE @[m]]]]

\* rebind_ref: every binding of the old cell, in every frame, follows it.  Of
\* two names for one cell, the one bound further in was promoted first and the
\* bindings are with its copy.
Rebind(fs, promoted, newRef) ==
  [i \in DOMAIN fs |->
     [fs[i] EXCEPT !.binds =
        [m \in DOMAIN @ |->
           LET names == {n \in promoted : Lookup(n) = @[m]}
               first == CHOOSE n \in names : \A k \in names :
                          Innermost(FramesWith(k)) <= Innermost(FramesWith(n))
           IN IF names # {} THEN newRef[first] ELSE @[m]]]]

\* The wanted names bound in any frame, each scoped one first promoted to a
\* cell of the global arena.
Capture(wanted) ==
  LET bound == {n \in wanted : FramesWith(n) # {}}
      promoted == {n \in bound : Lookup(n).region = "scoped"}
      order == SetToSeq(promoted)
      newRef == [n \in promoted |->
                   Entry("global", Len(garena) + (CHOOSE i \in DOMAIN order : order[i] = n),
                         Lookup(n).vid)]
  IN [caps |-> [n \in bound |-> IF n \in promoted THEN newRef[n] ELSE Lookup(n)],
      ga |-> garena \o [i \in DOMAIN order |->
                          Cell(Lookup(order[i]).vid, Value(Lookup(order[i])))],
      fs |-> Rebind(frames, promoted, newRef)]

\* capture_lambda_env: the names the body mentions and `this`, and the
\* global data among them as their live binding.
Lambda(mentions) ==
  LET c == Capture(mentions \cup {This})
      live == {n \in mentions \cap DOMAIN gbinds :
                 FramesWith(n) = {} /\ ~Value(gbinds[n]).fn}
      caps == [n \in DOMAIN c.caps \cup live |->
                 IF n \in live THEN gbinds[n] ELSE c.caps[n]]
  IN [ga |-> c.ga, fs |-> c.fs,
      val |-> Function(caps, ((mentions \cup {This}) \cap LexLocals) \cup live, NoName)]

\* capture_env: everything any frame binds.
NamedFunction(n) ==
  LET c == Capture(Names)
  IN [ga |-> c.ga, fs |-> c.fs, val |-> Function(c.caps, LexLocals, n)]

-----------------------------------------------------------------------------
(* Statements. *)

Room == Len(garena) <= MaxCells /\ Len(sarena) <= MaxCells

\* The innermost body may run a statement.
Running ==
  /\ Room
  /\ IF frames = <<>> THEN outMark = -1 ELSE frames[Len(frames)].kind # "for"

Here == IF frames = <<>> THEN Globals ELSE Locals

Top(fs) == fs[Len(fs)]

\* Allocate the value and bind `n` to it in the innermost frame.
DeclareIn(ga, sa, fs, n, val, vid) ==
  IF fs = <<>>
  THEN /\ garena' = Append(ga, Cell(vid, val))
       /\ gbinds' = Bind(gbinds, n, Entry("global", Len(ga) + 1, vid))
       /\ sarena' = sa
       /\ frames' = fs
  ELSE /\ garena' = ga
       /\ sarena' = Append(sa, Cell(vid, val))
       /\ frames' = [fs EXCEPT ![Len(fs)].binds =
                       Bind(@, n, Entry("scoped", Len(sa) + 1, vid)),
                     ![Len(fs)].lex = @ \cup {n}]
       /\ UNCHANGED gbinds

NewVid == vids < MaxVids /\ vids' = vids + 1

\* `let n = <literal>` and `let n = m`: a fresh slot, never an alias.
Let(n, val) ==
  /\ Running /\ n \in Here
  /\ NewVid
  /\ DeclareIn(garena, sarena, frames, n, val, vids)
  /\ UNCHANGED outMark

LetLambda(n, mentions) ==
  /\ Running /\ n \in Here
  /\ NewVid
  /\ LET l == Lambda(mentions) IN DeclareIn(l.ga, sarena, l.fs, n, l.val, vids)
  /\ UNCHANGED outMark

DeclareFn(n) ==
  /\ Running /\ n \in Here
  /\ frames = <<>> \/ "nestedFn" \in Features
  /\ NewVid
  /\ LET f == NamedFunction(n) IN DeclareIn(f.ga, sarena, f.fs, n, f.val, vids)
  /\ UNCHANGED outMark

\* Arena::update; a slot that is gone is left alone.
Updated(arena, i, val) ==
  [k \in DOMAIN arena |-> IF k = i THEN [arena[k] EXCEPT !.val = val] ELSE arena[k]]

\* ScopeStack::assign and its global fallback: the cell is updated in place.
Store(ga, sa, e, val) ==
  IF e.region = "global"
  THEN garena' = Updated(ga, e.index, val) /\ sarena' = sa
  ELSE sarena' = Updated(sa, e.index, val) /\ garena' = ga

Assign(n, val) ==
  /\ Running /\ n # This
  /\ Store(garena, sarena, Lookup(n), val)
  /\ UNCHANGED <<frames, gbinds, outMark, vids>>

\* The name is looked up after the lambda was made.
AssignLambda(n, mentions) ==
  /\ Running /\ n # This
  /\ LET l == Lambda(mentions)
         e == IF FramesWith(n) # {} THEN l.fs[Innermost(FramesWith(n))].binds[n]
              ELSE gbinds[n]
     IN /\ Store(l.ga, sarena, e, l.val)
        /\ frames' = l.fs
  /\ UNCHANGED <<gbinds, outMark, vids>>

\* `o.field = <lambda>`: the right side is evaluated before `o` is resolved.
SetFieldLambda(o, mentions) ==
  /\ "fieldFn" \in Features
  /\ Running /\ ~Value(Lookup(o)).fn
  /\ LET l == Lambda(mentions)
         e == IF FramesWith(o) # {} THEN l.fs[Innermost(FramesWith(o))].binds[o]
              ELSE gbinds[o]
     IN /\ Store(l.ga, sarena, e, [l.val EXCEPT !.fn = FALSE])
        /\ frames' = l.fs
  /\ UNCHANGED <<gbinds, outMark, vids>>

-----------------------------------------------------------------------------
(* Frames. *)

Push(fs, sa, kind, binds, lex, self) ==
  /\ Len(fs) < MaxFrames
  /\ frames' = Append(fs, Frame(kind, Len(sa), binds, lex, self))

\* A block, the body of an `if` or a loop, the frame of a top-level `while`.
EnterBlock ==
  /\ IF frames = <<>> THEN outMark = -1 ELSE Top(frames).fresh
  /\ Push([i \in DOMAIN frames |->
             [frames[i] EXCEPT !.fresh = @ /\ frames[i].kind # "for"]],
          sarena, "block", NoBinds, {}, NoName)
  /\ UNCHANGED <<garena, sarena, gbinds, outMark, vids>>

\* mutant: the watermark is taken one cell too low
TruncatedBelow(depth) == SubSeq(sarena, 1, frames[depth + 1].mark - 1)

\* ScopeStack::pop down to `depth` frames.
Truncated(depth) == SubSeq(sarena, 1, frames[depth + 1].mark)

ExitBlock ==
  /\ frames # <<>> /\ Top(frames).kind \in {"block", "for"}
  /\ frames' = Front(frames)
  /\ sarena' = Truncated(Len(frames) - 1)
  /\ UNCHANGED <<garena, gbinds, outMark, vids>>

\* `for (let n = ...)`: the frame that holds the counter.
EnterFor(n) ==
  /\ Running /\ n \in Locals
  /\ NewVid
  /\ LET at == Len(sarena) + 1 IN
       /\ Push(frames, sarena, "for", Bind(NoBinds, n, Entry("scoped", at, vids)), {n}, NoName)
       /\ sarena' = Append(sarena, Cell(vids, Data))
  /\ UNCHANGED <<garena, gbinds, outMark>>

\* After the body: a counter some closure captured is cut loose before the
\* update is stored, so each closure keeps its own iteration's value.
NextIteration ==
  /\ frames # <<>> /\ Top(frames).kind = "for" /\ ~Top(frames).fresh
  /\ \E n \in Top(frames).lex :
       LET e == Top(frames).binds[n] IN
       IF e.region = "global"
       THEN /\ NewVid
            /\ sarena' = Append(sarena, Cell(vids, Value(e)))
            /\ frames' = [frames EXCEPT ![Len(frames)].fresh = TRUE,
                 ![Len(frames)].binds[n] = Entry("scoped", Len(sarena) + 1, vids)]
       ELSE /\ frames' = [frames EXCEPT ![Len(frames)].fresh = TRUE]
            /\ UNCHANGED <<sarena, vids>>
  /\ UNCHANGED <<garena, gbinds, outMark>>

-----------------------------------------------------------------------------
(* Calls. *)

\* Calling the function `f` holds, or has in a field.  Its captured list is
\* bound first.
Call(f) ==
  /\ Running \/ ("outCall" \in Features /\ Room /\ frames = <<>> /\ outMark >= 0)
  /\ Value(Lookup(f)) # Data
  /\ LET val == Value(Lookup(f)) IN Push(frames, sarena, "call", val.caps, val.lex, val.self)
  /\ UNCHANGED <<garena, sarena, gbinds, outMark, vids>>

\* The receiver is resolved before the arguments are evaluated; a lambda among
\* them may promote it meanwhile.
CallMethod(o, mentions) ==
  /\ Running
  /\ mentions # {} => "receiverArg" \in Features
  /\ LET receiver == Lookup(o)
         l == IF mentions = {} THEN [ga |-> garena, fs |-> frames] ELSE Lambda(mentions)
     IN /\ garena' = l.ga
        /\ Push(l.fs, sarena, "call", Bind(NoBinds, This, receiver), {This}, NoName)
  /\ UNCHANGED <<sarena, gbinds, outMark, vids>>

\* The innermost call, whose blocks and loops a `return` or `throw` leaves too.
InCall == \E i \in DOMAIN frames : frames[i].kind \in {"call", "new"}
CallIndex == Innermost({i \in DOMAIN frames : frames[i].kind \in {"call", "new"}})

\* The result is extracted, the frames go, the result is planted and `let`
\* binds it in the caller, or nobody keeps it.
Return(n, val) ==
  /\ Running /\ InCall /\ frames[CallIndex].kind = "call"
  /\ LET depth == CallIndex - 1
         below == SubSeq(frames, 1, depth)
     IN \/ /\ n = NoName
           /\ frames' = below
           /\ sarena' = Truncated(depth)
           /\ UNCHANGED <<garena, gbinds, vids>>
        \/ /\ n \in IF below = <<>> THEN Globals ELSE Locals
           /\ below = <<>> => outMark = -1
           /\ NewVid
           /\ DeclareIn(garena, Truncated(depth), below, n, val, vids)
  /\ UNCHANGED outMark

\* `let n = new C(...)` begins: the instance is allocated below its frame.
StartNew ==
  /\ Running /\ NewVid
  /\ LET global == frames = <<>>
         e == IF global THEN Entry("global", Len(garena) + 1, vids)
              ELSE Entry("scoped", Len(sarena) + 1, vids)
     IN /\ garena' = IF global THEN Append(garena, Cell(vids, Data)) ELSE garena
        /\ sarena' = IF global THEN sarena ELSE Append(sarena, Cell(vids, Data))
        /\ Len(frames) < MaxFrames
        /\ frames' = Append(frames, Frame("new", Len(sarena'), Bind(NoBinds, This, e), {This}, NoName))
  /\ UNCHANGED <<gbinds, outMark>>

\* What `this` is bound to by the end: a closure may have promoted it.
LiveInstance == Lookup(This)

\* The instance is not copied: `n` is the very cell the constructor worked on.
EndNew(n) ==
  /\ frames # <<>> /\ Top(frames).kind = "new"
  /\ LET below == Front(frames) IN
     IF below = <<>>
     THEN /\ n \in Globals
          /\ gbinds' = Bind(gbinds, n, LiveInstance)
          /\ frames' = below
     ELSE /\ n \in Locals
          /\ frames' = [below EXCEPT ![Len(below)].binds = Bind(@, n, LiveInstance),
                                     ![Len(below)].lex = @ \cup {n}]
          /\ UNCHANGED gbinds
  /\ sarena' = Truncated(Len(frames) - 1)
  /\ UNCHANGED <<garena, outMark, vids>>

-----------------------------------------------------------------------------
(* `out x;` or `out f();` at top level frees what it allocated in the       *)
(* global arena.                                                           *)

StartOut ==
  /\ Room
  /\ frames = <<>> /\ outMark = -1
  /\ outMark' = Len(garena)
  /\ UNCHANGED <<garena, sarena, frames, gbinds, vids>>

EndOut ==
  /\ frames = <<>> /\ outMark >= 0
  /\ garena' = SubSeq(garena, 1, outMark)
  /\ outMark' = -1
  /\ UNCHANGED <<sarena, frames, gbinds, vids>>

-----------------------------------------------------------------------------

\* `o.method` without a call: a function bound to the receiver's reference.
BoundMethod(o) == Function(Bind(NoBinds, This, Lookup(o)), {This}, NoName)

\* A literal, a copy of what a visible name holds, a method as a value.
Values ==
  {Data} \cup {Value(Lookup(m)) : m \in LexVisible}
    \cup {BoundMethod(m) : m \in IF "boundMethod" \in Features THEN LexVisible ELSE {}}

\* What a lambda's body may mention.
Bodies == {m \in SUBSET LexVisible : Cardinality(m) <= MaxMentions}

Statement ==
  \E n \in Names :
    \/ \E val \in Values : Let(n, val)
    \/ \E mentions \in Bodies : LetLambda(n, mentions)
    \/ DeclareFn(n)
    \/ n \in LexVisible /\ \E val \in Values : Assign(n, val)
    \/ n \in LexVisible /\ \E mentions \in Bodies : AssignLambda(n, mentions)
    \/ n \in LexVisible /\ \E mentions \in Bodies : SetFieldLambda(n, mentions)
    \/ EnterFor(n)

Calling ==
  \/ \E f \in LexVisible : Call(f)
  \/ \E o \in LexVisible, mentions \in Bodies : CallMethod(o, mentions)
  \/ \E n \in Names \cup {NoName}, val \in Values : Return(n, val)
  \/ StartNew
  \/ \E n \in Names : EndNew(n)

Next ==
  \/ Statement \/ Calling
  \/ EnterBlock \/ ExitBlock \/ NextIteration
  \/ StartOut \/ EndOut

Spec == Init /\ [][Next]_vars

-----------------------------------------------------------------------------
(* Properties. *)

Regions == {"global", "scoped"}
Entries == [region : Regions, index : Nat \ {0}, vid : Nat]
IsBinds(b) == DOMAIN b \subseteq Names /\ \A n \in DOMAIN b : b[n] \in Entries
IsValue(v) == v.fn \in BOOLEAN /\ IsBinds(v.caps) /\ v.lex \subseteq DOMAIN v.caps
              /\ v.self \in Names \cup {NoName}

TypeOK ==
  /\ \A a \in {garena, sarena} : \A i \in DOMAIN a : a[i].vid \in Nat /\ IsValue(a[i].val)
  /\ \A i \in DOMAIN frames :
       /\ frames[i].kind \in {"block", "call", "new", "for"}
       /\ frames[i].mark \in 0 .. Len(sarena)
       /\ IsBinds(frames[i].binds) /\ frames[i].lex \subseteq DOMAIN frames[i].binds
  /\ IsBinds(gbinds)
  /\ outMark \in Nat \cup {-1}
  /\ vids \in 0 .. MaxVids

BoundEntries ==
  {gbinds[n] : n \in DOMAIN gbinds}
    \cup UNION {{frames[i].binds[n] : n \in DOMAIN frames[i].binds} : i \in DOMAIN frames}

\* What the functions held by these entries captured.
Captured(es) ==
  UNION {{Value(e).caps[n] : n \in DOMAIN Value(e).caps} : e \in {f \in es : Resolves(f)}}

\* A name in reach, or one captured by a function in reach, always finds the
\* cell it was bound to: popping a frame or ending an `out` frees no cell in
\* use, and no reference is left to a slot that now holds something else.
NoDangling == \A e \in BoundEntries \cup Captured(BoundEntries) : Resolves(e)

\* The names the program can mention, in each frame and each function in reach.
MentionableEntries ==
  {gbinds[n] : n \in DOMAIN gbinds}
    \cup (UNION {{frames[i].binds[n] : n \in frames[i].lex} : i \in DOMAIN frames})
    \cup (UNION {{Value(e).caps[n] : n \in Value(e).lex} : e \in {f \in BoundEntries : Resolves(f)}})

\* One variable, one cell: the enclosing scope, `this` in every frame of a
\* method chain and every closure over it share the cell, so a write through
\* one is seen by all.
NoFork == \A e, f \in MentionableEntries : e.vid = f.vid => e = f

\* A loop's next body starts with a counter no closure of an earlier one holds.
CounterIsFresh ==
  frames # <<>> /\ Top(frames).kind = "for" /\ Top(frames).fresh =>
    \A a \in {garena, sarena} : \A i \in DOMAIN a, n \in Top(frames).lex :
      \A m \in DOMAIN a[i].val.caps : a[i].val.caps[m] # Top(frames).binds[n]

\* Both: a write is seen by exactly those who share the variable.
OneCellPerVariable == NoFork /\ CounterIsFresh

\* A name the body can see resolves to its own lexical binding, whoever called.
LookupIsLexical == \A n \in LexVisible : Lookup(n) = LexLookup(n)

=============================================================================
