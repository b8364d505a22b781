------------------------------- MODULE Places -------------------------------
(***************************************************************************)
(* Writing through a place: `a[0].push(x)`, `o.f.run()`, `m[i][j] = v`,    *)
(* `a.b.c = v`.  Reading a field or an element plants a copy, so a         *)
(* mutation has to be carried back to where the copy came from, after      *)
(* arguments that may themselves have written to the same variable.        *)
(*                                                                         *)
(* A value is [kind, n, at]: n stands for what a mutator changes (a list's *)
(* elements, an object's own fields), `at` for the values inside it.  A    *)
(* place is the steps from one variable: "dot" for .name, "at" for [key].  *)
(***************************************************************************)
EXTENDS Integers, Sequences, SequencesExt

CONSTANTS Roots,       \* the values the variable may hold at first
          Receivers,   \* the places the program calls methods on, or assigns through
          Mutated,     \* the places it calls built-in mutators on
          Bodies,      \* the method bodies called on objects
          Touches,     \* what arguments do: [place, what], what "bump" or "drop"
          MaxCalls, MaxTouches

VARIABLES root,        \* the variable's value
          call,        \* the call under way, or NoCall
          copy,        \* the receiver its expression read
          intended,    \* the value the program meant the variable to have
          calls, touches

placesVars == <<root, call, copy, intended, calls, touches>>

Step(via, key) == [via |-> via, key |-> key]
Leaf(n) == [kind |-> "list", n |-> n, at |-> <<>>]
Bump(v) == [v EXCEPT !.n = (@ + 1) % 8]
NoCall == [op |-> "none", place |-> <<>>, key |-> "", body |-> ""]

\* A step to a child: a field of an object, an index of an array; on a dict
\* both spellings name the key.
Has(v, s) ==
  /\ s.key \in DOMAIN v.at
  /\ \/ v.kind = "object" /\ s.via = "dot"
     \/ v.kind = "array" /\ s.via = "at"
     \/ v.kind = "dict"

RECURSIVE Reaches(_, _), At(_, _), Put(_, _, _)
Reaches(v, p) == p # <<>> => Has(v, Head(p)) /\ Reaches(v.at[Head(p).key], Tail(p))
At(v, p) == IF p = <<>> THEN v ELSE At(v.at[Head(p).key], Tail(p))
Put(v, p, x) == IF p = <<>> THEN x
                ELSE [v EXCEPT !.at[Head(p).key] = Put(@, Tail(p), x)]

\* A key set in a container: a dict takes a new key, an array does not.
With(v, key, x) == [v EXCEPT !.at = [k \in DOMAIN v.at \cup {key} |->
                                       IF k = key THEN x ELSE v.at[k]]]
Settable(v, key) == v.kind = "dict" \/ (v.kind = "array" /\ key \in DOMAIN v.at)
\* An array without its last element (arrays here have at most two).
Popped(v) == LET rest == DOMAIN v.at \ {IF "1" \in DOMAIN v.at THEN "1" ELSE "0"}
             IN [v EXCEPT !.at = [k \in rest |-> v.at[k]]]

-----------------------------------------------------------------------------
\* Which way a mutated receiver travels back.

StorePath(v, p, x) == IF Reaches(v, p) THEN Put(v, p, x) ELSE v

\* `X.f.mutate()`: X is evaluated again, and only a variable's own slot is
\* what that evaluation returns; for a deeper X it is another planted copy.
FieldWriteback(v, p, x) ==
  IF Len(p) = 1 /\ v.kind = "object" THEN StorePath(v, p, x) ELSE v

\* `d["k"].mutate()` on a dict variable: replaced, or added when it is gone.
DictWriteback(v, p, x) == With(v, p[1].key, x)

CollectionWriteback(v, p, x) ==
  IF Last(p).via = "dot" THEN FieldWriteback(v, p, x)
  ELSE IF Len(p) = 1 /\ v.kind = "dict" THEN DictWriteback(v, p, x)
  ELSE StorePath(v, p, x)

\* A body that changes its object, and one the search of the body takes for
\* such: it looks at assignments and calls on this, in blocks, loops and ifs,
\* not at `this.a.b = v`, not into try or switch, not at super.method().
Mutates(body) == body # "reads"
FlaggedByAssignment(body) == body \in {"assigns", "indexes"}
Flagged(body) == body \in {"assigns", "indexes", "callsItself"}

MethodWriteback(v, p, body, x) == IF Flagged(body) THEN StorePath(v, p, x) ELSE v

\* `X[k] = v`: straight into a variable, into the copy of `x.f` which then
\* goes back to its field or key, and along the path for anything deeper.
IndexWriteback(v, p, x) ==
  IF Len(p) = 1 /\ p[1].via = "dot" /\ v.kind \notin {"object", "dict"} THEN v
  ELSE StorePath(v, p, x)

-----------------------------------------------------------------------------
Init == /\ root \in Roots
        /\ intended = root
        /\ call = NoCall
        /\ copy = Leaf(0)
        /\ calls = 0
        /\ touches = 0

\* The receiver's expression evaluates to a value of one of these kinds.
Reads(p, kinds) == Reaches(root, p) /\ At(root, p).kind \in kinds

Start(op, p, key, body) ==
  /\ call = NoCall
  /\ calls < MaxCalls
  /\ call' = [op |-> op, place |-> p, key |-> key, body |-> body]
  /\ copy' = At(root, p)
  /\ calls' = calls + 1
  /\ UNCHANGED <<root, intended, touches>>

\* p.push(...), p.add(...), ...: a built-in mutator.
CallCollection == \E p \in Mutated : Reads(p, {"list"}) /\ Start("collection", p, "", "")
\* p.method(...) on an object.
CallMethod == \E p \in Receivers, b \in Bodies :
                Reads(p, {"object"}) /\ Start("method", p, "", b)
\* p[key] = ...
AssignIndex == \E p \in Receivers, k \in {"0", "new"} :
                 Reads(p, {"array", "dict"}) /\ Start("index", p, k, "")

\* Arguments and right-hand sides run here: they write elsewhere in the same
\* variable, or shorten an array on the way to the receiver.
Touch == \E t \in Touches :
  /\ call # NoCall
  /\ touches < MaxTouches
  /\ Reaches(root, t.place)
  /\ LET v == At(root, t.place)
         change == IF t.what = "bump" THEN Bump(v) ELSE Popped(v)
     IN /\ IF t.what = "bump" THEN v.kind = "list" /\ ~IsPrefix(call.place, t.place)
           ELSE v.kind = "array" /\ v.at # <<>> /\ IsStrictPrefix(t.place, call.place)
        /\ root' = Put(root, t.place, change)
        /\ intended' = Put(intended, t.place, change)
  /\ touches' = touches + 1
  /\ UNCHANGED <<call, copy, calls>>

Done(before, after) == /\ root' = after
                       /\ intended' = before
                       /\ call' = NoCall
                       /\ copy' = Leaf(0)
                       /\ UNCHANGED <<calls, touches>>

FinishCollection ==
  /\ call.op = "collection"
  /\ LET p == call.place
     IN Done(StorePath(intended, p, Bump(copy)),
             IF p = <<>> THEN Bump(root) ELSE CollectionWriteback(root, p, Bump(copy)))

FinishMethod ==
  /\ call.op = "method"
  /\ LET p == call.place
         x == IF Mutates(call.body) THEN Bump(copy) ELSE copy
     IN Done(StorePath(intended, p, x),
             IF p = <<>> THEN x ELSE MethodWriteback(root, p, call.body, x))

\* Bounds are checked where the write happens; an index outside is an error.
FinishIndex ==
  /\ call.op = "index"
  /\ LET p == call.place
         held == IF p = <<>> THEN root
                 ELSE IF Len(p) = 1 /\ p[1].via = "dot" THEN copy
                 ELSE IF Reaches(root, p) THEN At(root, p) ELSE Leaf(0)
         x == With(held, call.key, Leaf(7))
     IN IF ~Settable(held, call.key) THEN Done(intended, root)
        ELSE Done(StorePath(intended, p, x), IndexWriteback(root, p, x))

\* p.key = ...: the value first, then the receiver, its field and its path
\* with nothing in between.
AssignField == \E p \in Receivers :
  /\ call = NoCall
  /\ calls < MaxCalls
  /\ Reads(p, {"object", "dict"})
  /\ LET x == With(At(root, p), "new", Leaf(6))
     IN /\ root' = StorePath(root, p, x)
        /\ intended' = Put(intended, p, x)
  /\ calls' = calls + 1
  /\ UNCHANGED <<call, copy, touches>>

Next == \/ CallCollection \/ CallMethod \/ AssignIndex \/ Touch
        \/ FinishCollection \/ FinishMethod \/ FinishIndex \/ AssignField

Spec == Init /\ [][Next]_placesVars

-----------------------------------------------------------------------------
\* A mutator on a place changes that place and nothing else: what its
\* arguments wrote elsewhere stays, and when the way to it is gone nothing is
\* written (spec/values.md, "Nested receivers write back").
WritesLandAtTheirPlace == call = NoCall => root = intended
=============================================================================
