------------------------------ MODULE Training ------------------------------
(***************************************************************************)
(* A training loop over the optimiser steps of                             *)
(* evaluator/namespaces_autodiff.rs, saving its state with saveWeights and *)
(* resuming with loadWeights after a crash.  The steps are pure functions  *)
(* of the tensors they are given; the program keeps the parameter, the     *)
(* moments and the step number, and writes all of them into one file,      *)
(* which is truncated and then filled.  Numbers are the integers modulo a  *)
(* prime; a byte of the file holds Base values and a word is two bytes.    *)
(***************************************************************************)
EXTENDS Integers, Sequences, FiniteSets, SequencesExt

CONSTANTS Modulus,    \* the numbers are 0 .. Modulus - 1, a prime field
          Base,       \* values of a byte
          Gradients,  \* the gradient of every step, one of these
          MaxSteps    \* bound: optimiser steps

VARIABLES method,     \* the optimiser of this program
          grad,       \* the constant gradient
          state,      \* what the program holds: the tensors it will save
          up,         \* the program runs
          file,       \* the bytes of the weights file
          pending,    \* bytes of a save not written yet
          begun,      \* states whose save was begun
          resumed     \* <<>>, or what the last load gave
trainingVars == <<method, grad, state, up, file, pending, begun, resumed>>

Mod(n) == n % Modulus
Invert(n) == CHOOSE x \in 0..(Modulus - 1) : Mod(x * n) = 1
RaisedTo(b, n) == LET f[k \in 0..MaxSteps] == IF k = 0 THEN 1 ELSE Mod(f[k - 1] * b) IN f[n]
\* The root of a square, the smaller of the two.
Root(x) == LET r == {y \in 0..((Modulus - 1) \div 2) : Mod(y * y) = x} IN IF r = {} THEN 0 ELSE CHOOSE y \in r : TRUE

Beta1 == 3
Beta2 == 5
Momentum == 3
Rate == 2
Decay == 4
Epsilon == 1

\* A number other than 0 can be divided by; a beta below 1 keeps 1 - beta^t from
\* being 0 (namespaces_autodiff.rs:2117); a word holds any number and any step.
ASSUME TrainingAssumption ==
  /\ Modulus \in Nat /\ Modulus > 2
  /\ \A n \in 1..(Modulus - 1) : \E x \in 0..(Modulus - 1) : Mod(x * n) = 1
  /\ Base \in Nat /\ Base > 2 /\ Base * Base >= Modulus
  /\ MaxSteps \in Nat /\ MaxSteps < Base * Base /\ Gradients \subseteq Int
  /\ \A b \in {Beta1, Beta2}, n \in 1..MaxSteps : RaisedTo(b, n) # 1

\* The methods of one element: its parameter, first and second moment.
Unbiased(m, beta, t) == Mod(m * Invert(Mod(1 - RaisedTo(beta, t))))
AdamStep(s, g, decay) ==
  LET t == s.step + 1
      m == Mod(Beta1 * s.m + (1 - Beta1) * g)
      v == Mod(Beta2 * s.v + (1 - Beta2) * g * g)
      over == Invert(Mod(Root(Unbiased(v, Beta2, t)) + Epsilon))
  IN  [step |-> t, m |-> m, v |-> v,
       p |-> Mod(s.p * (1 - Rate * decay) - Rate * Unbiased(m, Beta1, t) * over)]
SgdStep(s, g) ==
  LET vel == Mod(Momentum * s.v - Rate * g)
  IN  [step |-> s.step + 1, m |-> s.m, v |-> vel, p |-> Mod(s.p + vel)]
RmspropStep(s, g) ==
  LET sq == Mod(Beta2 * s.v + (1 - Beta2) * g * g)
      over == Root(sq) + Epsilon
  IN  [step |-> s.step + 1, m |-> s.m, v |-> sq, p |-> Mod(s.p - Rate * g * Invert(over))]
Stepped(s) ==
  CASE method = "adamStep" -> AdamStep(s, grad, 0)
    [] method = "adamwStep" -> AdamStep(s, grad, Decay)
    [] method = "sgdStep" -> SgdStep(s, grad)
    [] method = "rmspropStep" -> RmspropStep(s, grad)

-----------------------------------------------------------------------------
(* The file: magic, version, count, then every tensor with its rank, its      *)
(* dimensions, its length and its elements.                                   *)
Word(n) == <<n % Base, n \div Base>>
Magic == <<1, 2, 1, 0>>
Tensor(t) == <<Len(t.shape) % Base>> \o FlattenSeq([i \in DOMAIN t.shape |-> Word(t.shape[i])])
             \o Word(Len(t.data)) \o FlattenSeq([i \in DOMAIN t.data |-> Word(t.data[i])])
WriteWeights(tensors) == Magic \o <<1>> \o Word(Len(tensors)) \o FlattenSeq([i \in DOMAIN tensors |-> Tensor(tensors[i])])

Words(bytes, from, n) == [i \in 1..n |-> bytes[from + 2 * i - 2] + Base * bytes[from + 2 * i - 1]]
Ended(bytes, pos) == pos > Len(bytes)

Product(shape) == LET f[i \in 0..Len(shape)] == IF i = 0 THEN 1 ELSE f[i - 1] * shape[i] IN f[Len(shape)]

\* A tensor announced by the count and missing in the file is an error.
NoHeader(at) == [at EXCEPT !.pos = 0]

\* One turn of the loop: the tensor at `pos`, or no position any more.
ReadTensor(bytes, at) ==
  IF at.pos = 0 \/ Ended(bytes, at.pos) THEN NoHeader(at)
  ELSE LET rank == bytes[at.pos]
           dims == at.pos + 1
           length == dims + 2 * rank
           shape == Words(bytes, dims, rank)
           n == Words(bytes, length, 1)[1]
           next == length + 2 + 2 * n
       IN  IF Ended(bytes, length + 1) THEN NoHeader(at)
           ELSE IF Product(shape) # n \/ Ended(bytes, next - 1) THEN NoHeader(at)
           ELSE [pos |-> next, tensors |-> Append(at.tensors, [shape |-> shape, data |-> Words(bytes, length + 2, n)])]

\* As many tensors as the count says, and nothing after them.
Parsed(bytes) ==
  IF Len(bytes) < 7 \/ SubSeq(bytes, 1, 4) # Magic \/ bytes[5] # 1 THEN [pos |-> 0, tensors |-> <<>>]
  ELSE LET count == Words(bytes, 6, 1)[1]
           f[i \in 0..count] == IF i = 0 THEN [pos |-> 8, tensors |-> <<>>] ELSE ReadTensor(bytes, f[i - 1])
       IN  f[count]
Accepted(bytes) == Parsed(bytes).pos = Len(bytes) + 1

Saved(s) == << [shape |-> <<1>>, data |-> <<s.p>>], [shape |-> <<2>>, data |-> <<s.m, s.v>>],
               [shape |-> <<1, 1>>, data |-> <<s.step>>] >>
RestoredSwapped(tensors) ==
  [p |-> tensors[1].data[1], m |-> tensors[2].data[2], v |-> tensors[2].data[1], step |-> tensors[3].data[1]]
Restored(tensors) ==
  [p |-> tensors[1].data[1], m |-> tensors[2].data[1], v |-> tensors[2].data[2], step |-> tensors[3].data[1]]

-----------------------------------------------------------------------------
Fresh == [p |-> 1, m |-> 0, v |-> 0, step |-> 0]
Optimisers == {"adamStep", "adamwStep", "sgdStep", "rmspropStep"}
TrainingInit ==
        /\ method \in Optimisers /\ grad \in Gradients
        /\ state = Fresh /\ up = TRUE /\ file = <<>> /\ pending = <<>> /\ begun = {} /\ resumed = <<>>

Train == /\ up /\ pending = <<>> /\ state.step < MaxSteps
         /\ state' = Stepped(state)
         /\ UNCHANGED <<method, grad, up, file, pending, begun, resumed>>

\* fs::write truncates the file and then fills it.
SaveWeights == /\ up /\ pending = <<>>
               /\ file' = <<>> /\ pending' = WriteWeights(Saved(state)) /\ begun' = begun \cup {state}
               /\ UNCHANGED <<method, grad, state, up, resumed>>
WriteByte == /\ up /\ pending # <<>>
             /\ file' = Append(file, Head(pending)) /\ pending' = Tail(pending)
             /\ UNCHANGED <<method, grad, state, up, begun, resumed>>

Crash == /\ up /\ up' = FALSE /\ pending' = <<>> /\ state' = Fresh /\ resumed' = <<>>
         /\ UNCHANGED <<method, grad, file, begun>>

\* The program starts again and loads; a file that does not parse is an error
\* and it begins from the start.
LoadWeights == /\ ~up /\ up' = TRUE
               /\ IF Accepted(file)
                  THEN /\ resumed' = Parsed(file).tensors
                       /\ state' = IF Len(resumed') = 3 THEN Restored(resumed') ELSE Fresh
                  ELSE resumed' = <<>> /\ state' = Fresh
               /\ UNCHANGED <<method, grad, file, pending, begun>>

TrainingNext == Train \/ SaveWeights \/ WriteByte \/ Crash \/ LoadWeights
TrainingSpec == TrainingInit /\ [][TrainingNext]_trainingVars

-----------------------------------------------------------------------------
\* What a load gives was saved, whole, by one saveWeights: never the prefix a
\* crash left (namespaces_autodiff.rs:2933).
LoadsWhatWasSaved == resumed # <<>> => resumed \in {Saved(s) : s \in begun}

\* With a constant gradient the moments of every step are those of that many
\* steps, through every crash and resume: corrected they are the gradient and
\* its square (namespaces_autodiff.rs:2119).
MomentsMatchTheirSteps ==
  LET n == state.step
  IN  CASE method \in {"adamStep", "adamwStep"} ->
             n > 0 => Unbiased(state.m, Beta1, n) = Mod(grad) /\ Unbiased(state.v, Beta2, n) = Mod(grad * grad)
        [] method = "sgdStep" -> Mod(state.v * (1 - Momentum)) = Mod(-Rate * grad * (1 - RaisedTo(Momentum, n)))
        [] method = "rmspropStep" -> state.v = Mod(grad * grad * (1 - RaisedTo(Beta2, n)))

\* saveWeights, loadWeights and the optimisers: a load gives one whole save,
\* never a torn one, and a step's moments are those of its own parameters.
TrainingResumes == LoadsWhatWasSaved /\ MomentsMatchTheirSteps
=============================================================================
