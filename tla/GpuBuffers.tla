----------------------------- MODULE GpuBuffers -----------------------------
(***************************************************************************)
(* The GPU namespace (namespaces_gpu.rs): buffers behind handles, and the  *)
(* operations that call back into the program once per element, which may  *)
(* itself fill, free or map buffers before it returns.  Elements are small *)
(* integers and every callback computes Image; the arithmetic of dot, axpy *)
(* and matmul is left out.                                                 *)
(***************************************************************************)
EXTENDS Integers, Sequences, SequencesExt

CONSTANTS MaxHandle,    \* bound: buffers created
          MaxLength,    \* bound: elements of a buffer
          MaxNesting    \* bound: maps in one another

Elements == 0 .. 2
Image(v) == (v + 1) % 3

VARIABLES gpu,          \* id |-> elements
          next,         \* HandleAllocator.next
          maps,         \* the maps in progress, the innermost last
          made          \* the last buffer a map made, and from what
gpuVars == <<gpu, next, maps, made>>

Init == gpu = <<>> /\ next = 1 /\ maps = <<>> /\ made = <<>>

Put(id, elements) == [i \in DOMAIN gpu \cup {id} |-> IF i = id THEN elements ELSE gpu[i]]
\* alloc_gpu_buffer
Alloc(elements) == gpu' = Put(next, elements) /\ next' = next + 1

CreateBuffer(n) ==
  /\ next <= MaxHandle
  /\ Alloc([i \in 1 .. n |-> 0])
  /\ made' = <<>> /\ UNCHANGED maps

Fill(id, v) ==
  /\ id \in DOMAIN gpu
  /\ gpu' = [gpu EXCEPT ![id] = [i \in DOMAIN @ |-> v]]
  /\ made' = <<>> /\ UNCHANGED <<next, maps>>

\* Freeing what is not there does nothing.
FreeBuffer(id) ==
  /\ gpu' = [i \in DOMAIN gpu \ {id} |-> gpu[i]]
  /\ made' = <<>> /\ UNCHANGED <<next, maps>>

StartMap(id) ==
  /\ id \in DOMAIN gpu /\ Len(maps) < MaxNesting /\ next <= MaxHandle
  /\ maps' = Append(maps, [id |-> id, data |-> gpu[id], out |-> <<>>])
  /\ made' = <<>> /\ UNCHANGED <<gpu, next>>

\* `for val in data`, where data is a clone.
Element(m) == m.data[Len(m.out) + 1]

CallbackReturns ==
  /\ maps # <<>>
  /\ LET m == Last(maps) IN
     /\ Len(m.out) < Len(m.data)
     /\ maps' = [maps EXCEPT ![Len(maps)].out = Append(@, Image(Element(m)))]
  /\ made' = <<>> /\ UNCHANGED <<gpu, next>>

\* A throw, or a value that is no number: the map ends, and what the callback
\* of an enclosing map does about it is its own affair.
CallbackFails ==
  /\ maps # <<>>
  /\ LET m == Last(maps) IN Len(m.out) < Len(m.data)
  /\ maps' = Front(maps)
  /\ made' = <<>> /\ UNCHANGED <<gpu, next>>

FinishMap ==
  /\ maps # <<>> /\ next <= MaxHandle
  /\ LET m == Last(maps) IN
     /\ Len(m.out) = Len(m.data)
     /\ Alloc(m.out)
     /\ made' = [id |-> next, from |-> m.data]
  /\ maps' = Front(maps)

Next == \/ \E n \in 1 .. MaxLength : CreateBuffer(n)
        \/ \E id \in 0 .. MaxHandle : \/ Fill(id, 1)
                                      \/ FreeBuffer(id)
                                      \/ StartMap(id)
        \/ CallbackReturns \/ CallbackFails \/ FinishMap

Spec == Init /\ [][Next]_gpuVars

-----------------------------------------------------------------------------
TypeOK == /\ DOMAIN gpu \subseteq 1 .. next - 1
          /\ \A i \in DOMAIN maps : Len(maps[i].out) <= Len(maps[i].data)

\* A map sees its buffer as it was when it was called, whatever its callbacks
\* do to that buffer meanwhile: fill it, free it, or map it again.
MapSeesWhatItWasGiven ==
  [][made' # <<>> =>
       gpu'[made'.id] = [i \in DOMAIN made'.from |-> Image(made'.from[i])]]_gpuVars

\* handles.rs:122: an id that was freed "is not reissued, so it cannot come to
\* name anything else later", whatever callbacks create meanwhile.
FreedStaysFreed ==
  [][\A id \in 1 .. next - 1 : id \notin DOMAIN gpu => id \notin DOMAIN gpu']_gpuVars

\* The handles a program holds while callbacks create and free buffers keep
\* naming what they named: only fill changes a buffer in place, and only one.
OthersKeepTheirBuffers ==
  [][\A i, j \in DOMAIN gpu \cap DOMAIN gpu' :
       gpu[i] # gpu'[i] /\ gpu[j] # gpu'[j] => i = j /\ next' = next]_gpuVars
=============================================================================
