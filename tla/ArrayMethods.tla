---------------------------- MODULE ArrayMethods ----------------------------
(***************************************************************************)
(* The methods of an array that evaluate something while they run          *)
(* (evaluator/methods_array.rs): a callback for every element, a           *)
(* comparator, or an argument.  The method works on a copy taken before    *)
(* any of them is evaluated, and the code they run may push to and pop     *)
(* from the very same array; a method that changes the array writes the    *)
(* whole slot at its end.                                                  *)
(***************************************************************************)
EXTENDS Integers, Sequences, FiniteSets, SequencesExt

CONSTANTS Elements,     \* what arrays hold: records of a key to sort by and a name
          Reentrant,    \* methods during which the program touches the array
          MaxLength,    \* bound: elements of the array
          MaxArrayTouches   \* bound: pushes and pops from inside a call

ASSUME ArrayAssumption ==
  {MaxLength, MaxArrayTouches} \subseteq Nat /\ \A e \in Elements : e.key \in Int

VARIABLES slot,         \* the array
          arrayCall,    \* <<>>, or the call that is running
          ended,        \* <<>>, or the call that ended last
          arrayTouches
arrayVars == <<slot, arrayCall, ended, arrayTouches>>

Searching == {"filter", "find", "findIndex", "every", "some"}
Changing == {"sort", "unshift", "remove"}
Methods == Searching \cup Changing \cup {"map", "reduce"}

\* A call of method m on the copy `elems`: where it is, what its callbacks were
\* given, which of them answered true, and what it would write.
Begin(m) ==
  /\ arrayCall = <<>>
  /\ m = "reduce" => slot # <<>>
  /\ arrayCall' = << [m |-> m, elems |-> slot, i |-> IF m = "reduce" THEN 2 ELSE 1, j |-> 1, work |-> slot,
                      log |-> <<>>, yes |-> {}, touched |-> FALSE] >>
  /\ UNCHANGED <<slot, ended, arrayTouches>>

End(c, how, result, after) ==
  /\ arrayCall' = <<>> /\ slot' = after
  /\ ended' = << [call |-> c, how |-> how, result |-> result, left |-> slot, after |-> after] >>
  /\ UNCHANGED arrayTouches

Given(c) == IF c.m = "sort" THEN <<c.work[c.j], c.work[c.j + 1]>>
            ELSE IF c.m = "reduce" THEN <<Len(c.log), c.elems[c.i]>>
            ELSE IF c.m \in {"unshift", "remove"} THEN <<>>
            ELSE <<c.elems[c.i]>>
ShortSorting(c) == c.i <= Len(c.elems) /\ c.j < Len(c.elems) - c.i
\* Bubble sort: passes i, each one shorter than the one before.
Sorting(c) == c.i <= Len(c.elems) /\ c.j < Len(c.elems) - (c.i - 1)
More(c) ==
  IF c.m = "sort" THEN Sorting(c)
  ELSE IF c.m \in {"unshift", "remove"} THEN c.log = <<>>
  ELSE c.i <= Len(c.elems)
\* A search is decided by one callback: what its answer would end it with.
Decides(m, answer) ==
  IF answer THEN m \in {"find", "findIndex", "some"} ELSE m = "every"

Swap(s, j) == [s EXCEPT ![j] = s[j + 1], ![j + 1] = s[j]]
Logged(c, answer) ==
  LET logged == [c EXCEPT !.log = Append(@, Given(c)),
                          !.yes = IF answer THEN @ \cup {Len(c.log) + 1} ELSE @]
  IN  CASE c.m = "sort" -> [logged EXCEPT !.work = IF answer THEN Swap(@, c.j) ELSE @, !.j = c.j + 1]
        [] OTHER -> [logged EXCEPT !.i = c.i + 1]
\* The end of a pass begins the next one.
Turned(c) == [c EXCEPT !.i = @ + 1, !.j = 1]

\* The answers of the program: its comparator orders by the key.
Answers(c) == IF c.m = "sort" THEN {c.work[c.j].key > c.work[c.j + 1].key}
              ELSE IF c.m = "remove" THEN {TRUE} ELSE BOOLEAN

Callback(answer) ==
  /\ arrayCall # <<>> /\ More(arrayCall[1]) /\ answer \in Answers(arrayCall[1])
  /\ LET c == Logged(arrayCall[1], answer)
     IN  IF Decides(c.m, answer)
         THEN End(c, "value", CASE c.m = "find" -> <<c.elems[c.i - 1]>>
                                [] c.m = "findIndex" -> <<c.i - 2>>
                                [] OTHER -> <<answer>>, slot)
         ELSE arrayCall' = <<c>> /\ UNCHANGED <<slot, ended, arrayTouches>>
NextPass ==
  /\ arrayCall # <<>> /\ arrayCall[1].m = "sort" /\ ~Sorting(arrayCall[1]) /\ arrayCall[1].i <= Len(arrayCall[1].elems)
  /\ arrayCall' = <<Turned(arrayCall[1])>>
  /\ UNCHANGED <<slot, ended, arrayTouches>>

\* The callback throws, or the comparator gives no number: the method is left.
Throws == /\ arrayCall # <<>> /\ More(arrayCall[1])
          /\ End(arrayCall[1], "throw", <<>>, slot)

\* Nothing is left to call: what each method gives then.
Chosen(c) ==
  LET chosen[k \in 0..Len(c.log)] ==
        IF k = 0 THEN <<>> ELSE IF k \in c.yes THEN Append(chosen[k - 1], k) ELSE chosen[k - 1]
  IN  chosen[Len(c.log)]
Mapped(c) == [k \in DOMAIN c.log |-> k \in c.yes]
Filtered(c) == [k \in DOMAIN Chosen(c) |-> c.elems[Chosen(c)[k]]]
Reduced(c) == <<Len(c.log)>>
FoundNone == <<>>
IndexNone == <<-1>>
EveryOne == <<TRUE>>
SomeNone == <<FALSE>>
Unshift(c) == \E e \in Elements : End(c, "value", <<e>>, <<e>> \o c.elems)
RemoveIndex(c) ==
  IF c.elems = <<>> THEN End(c, "value", <<>>, slot)
  ELSE \E at \in 1..(MaxLength + 1) :
         IF at > Len(c.elems) THEN End(c, "throw", <<>>, slot)
         ELSE End(c, "value", <<c.elems[at]>>, RemoveAt(c.elems, at))
Sort(c) == c.i > Len(c.elems) /\ End(c, "value", <<>>, c.work)

Ends ==
  /\ arrayCall # <<>> /\ ~More(arrayCall[1])
  /\ LET c == arrayCall[1]
     IN  CASE c.m = "map" -> End(c, "value", Mapped(c), slot)
           [] c.m = "filter" -> End(c, "value", Filtered(c), slot)
           [] c.m = "reduce" -> End(c, "value", Reduced(c), slot)
           [] c.m = "find" -> End(c, "value", FoundNone, slot)
           [] c.m = "findIndex" -> End(c, "value", IndexNone, slot)
           [] c.m = "every" -> End(c, "value", EveryOne, slot)
           [] c.m = "some" -> End(c, "value", SomeNone, slot)
           [] c.m = "sort" -> Sort(c)
           [] c.m = "unshift" -> Unshift(c)
           [] c.m = "remove" -> RemoveIndex(c)

\* The code a call runs works on the array itself: push and pop change it in place.
Touch(after) ==
  /\ arrayCall # <<>> /\ More(arrayCall[1]) /\ arrayCall[1].m \in Reentrant
  /\ arrayTouches < MaxArrayTouches /\ arrayTouches' = arrayTouches + 1
  /\ slot' = after /\ arrayCall' = << [arrayCall[1] EXCEPT !.touched = TRUE] >>
  /\ UNCHANGED ended
Push(e) == Len(slot) < MaxLength /\ Touch(Append(slot, e))
Pop == slot # <<>> /\ Touch(Front(slot))

ArrayInit ==
  /\ slot \in BoundedSeq(Elements, MaxLength)
  /\ arrayCall = <<>> /\ ended = <<>> /\ arrayTouches = 0

ArrayNext ==
  \/ ended = <<>> /\ \E m \in Methods : Begin(m)
  \/ \E answer \in BOOLEAN : Callback(answer)
  \/ NextPass \/ Throws \/ Ends
  \/ \E e \in Elements : Push(e)
  \/ Pop

ArraySpec == ArrayInit /\ [][ArrayNext]_arrayVars

-----------------------------------------------------------------------------
\* What a method means, said of the copy it works on and of what the callbacks
\* answered.
No(c) == DOMAIN c.log \ c.yes
\* The same elements in another order, those of equal keys in the same.
Rearranged(before, after) ==
  /\ Len(after) = Len(before)
  /\ \E p \in [DOMAIN before -> DOMAIN before] :
       /\ \A k, l \in DOMAIN p : k < l => p[k] # p[l] /\ (after[k].key = after[l].key => p[k] < p[l])
       /\ \A k \in DOMAIN p : after[k] = before[p[k]]
Sorted(before, after) ==
  /\ Rearranged(before, after)
  /\ \A k \in 1..(Len(after) - 1) : after[k].key <= after[k + 1].key
\* What the callbacks said yes to, in order.
Picked(c, result) ==
  \E p \in [DOMAIN result -> c.yes] :
    /\ \A k, l \in DOMAIN p : k < l => p[k] < p[l]
    /\ \A y \in c.yes : \E k \in DOMAIN p : p[k] = y
    /\ \A k \in DOMAIN p : result[k] = c.elems[p[k]]
\* The same elements without the one at `at`.
TakenOut(before, at, after) ==
  /\ Len(after) = Len(before) - 1
  /\ \A k \in DOMAIN before \ {at} : after[IF k < at THEN k ELSE k - 1] = before[k]
Meaning(c, result, after) ==
  LET n == Len(c.elems)
  IN  CASE c.m = "map" -> Len(result) = n /\ \A k \in 1..n : result[k] = (k \in c.yes)
        [] c.m = "filter" -> Len(c.log) = n /\ Picked(c, result)
        [] c.m = "find" -> IF result = <<>> THEN Len(c.log) = n /\ c.yes = {}
                           ELSE c.yes = {Len(c.log)} /\ result = <<c.elems[Len(c.log)]>>
        [] c.m = "findIndex" -> IF result = <<-1>> THEN Len(c.log) = n /\ c.yes = {}
                                ELSE c.yes = {Len(c.log)} /\ result = <<Len(c.log) - 1>>
        [] c.m = "every" -> IF result = <<TRUE>> THEN Len(c.log) = n /\ No(c) = {} ELSE No(c) = {Len(c.log)}
        [] c.m = "some" -> IF result = <<FALSE>> THEN Len(c.log) = n /\ c.yes = {} ELSE c.yes = {Len(c.log)}
        [] c.m = "reduce" -> Len(c.log) = n - 1 /\ result = <<n - 1>>
        [] c.m = "sort" -> Sorted(c.elems, after)
        [] c.m = "unshift" -> after = result \o c.elems
        [] c.m = "remove" -> IF c.elems = <<>> THEN result = <<>>
                             ELSE \E at \in 1..n : result = <<c.elems[at]>> /\ TakenOut(c.elems, at, after)

\* A method answers from its copy, calls back once for each element in order,
\* and stops at the first that decides.  One that changes the array writes what
\* its copy became, whatever was pushed or popped while it ran; one that is left
\* by a throw leaves the array to its callbacks, never half sorted
\* (methods_array.rs:278).
MethodsMeanWhatTheySay ==
  ended # <<>> =>
    LET e == ended[1]
        c == e.call
    IN  /\ e.how = "throw" \/ c.m \notin Changing => e.after = e.left
        /\ e.how = "value" => Meaning(c, e.result, e.after)
        /\ c.m \notin Changing =>
             \A k \in DOMAIN c.log : c.log[k][Len(c.log[k])] = c.elems[IF c.m = "reduce" THEN k + 1 ELSE k]
=============================================================================
