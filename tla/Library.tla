------------------------------- MODULE Library ------------------------------
(***************************************************************************)
(* The evaluator's own library, side by side: tensors and the tape, the    *)
(* recorded layers, the optimisers and their weight files, the index of    *)
(* dicts and sets, array methods, assignments to places, regular           *)
(* expressions, dates and the operators.  They share nothing but the       *)
(* interpreter, so a run uses one of them, chosen at its start, and the    *)
(* others stay blank.  HashIndex, ArrayMethods, Training and Values are    *)
(* extended, not instanced: their properties are the very formulas the     *)
(* theorems of LibraryProofs are about.                                    *)
(***************************************************************************)
EXTENDS Integers, Sequences, FiniteSets, HashIndex, ArrayMethods, Training, Values

CONSTANTS Inputs, MaxTensors, MaxSets,             \* Autodiff
          Field, Exp, Tanh, Ln, SquareRoot, Calls, Seeds,         \* Layers
          Shapes,                                           \* TensorShapes
          Roots, Receivers, Mutated, Bodies, Touches, MaxCalls, MaxTouches,   \* Places
          Trees, Texts, StepLimit, DepthLimit, WordChars,     \* RegexEngine
          FirstYear, LastYear, Radix, Starts, Amounts, Stamps, Patterns, MaxDateCalls   \* Calendar

\* The numbers of Autodiff and Layers form fields.
ASSUME NumberAssumption ==
  /\ Modulus \in Nat /\ Modulus > 2 /\ \A d \in 2..(Modulus - 1) : Modulus % d # 0
  /\ Field \in Nat /\ Field > 2 /\ \A d \in 2..(Field - 1) : Field % d # 0
ASSUME BoundAssumption ==
  /\ {MaxTensors, MaxSets, MaxCalls,
      MaxTouches, StepLimit, DepthLimit, MaxDateCalls} \subseteq Nat
  /\ FirstYear \in Int /\ LastYear \in Int /\ FirstYear < LastYear

VARIABLES used,                                             \* the part this run uses
          tensors, nextTid, recording, tape, grads, ids, nextNode, passes, loss, sets,
          layerCall, node, seed, deltas,
          t, other, done,
          root, call, copy, intended, calls, touches,
          tree, pattern, text, answer,
          date, field, dateAnswer, shown, dateCalls

tapeVars == <<tensors, nextTid, recording, tape, grads, ids, nextNode, passes, loss, sets>>
layerVars == <<layerCall, node, seed, deltas>>
shapeVars == <<t, other, done>>
placesVars == <<root, call, copy, intended, calls, touches>>
regexVars == <<tree, pattern, text, answer>>
calendarVars == <<date, field, dateAnswer, shown, dateCalls>>
vars == <<used, tapeVars, layerVars, shapeVars, trainingVars, indexVars, arrayVars, placesVars,
          regexVars, calendarVars, valuesVars>>

D == INSTANCE Autodiff
Y == INSTANCE Layers WITH call <- layerCall
T == INSTANCE TensorShapes
L == INSTANCE Places
R == INSTANCE RegexEngine
C == INSTANCE Calendar WITH answer <- dateAnswer, calls <- dateCalls, MaxCalls <- MaxDateCalls

NoTape == /\ tensors = 0 /\ nextTid = 0 /\ recording = 0 /\ tape = 0 /\ grads = 0 /\ ids = 0 /\ nextNode = 0
          /\ passes = 0 /\ loss = 0 /\ sets = 0
NoLayer == layerCall = 0 /\ node = 0 /\ seed = 0 /\ deltas = 0
NoShapes == t = 0 /\ other = 0 /\ done = 0
NoTraining == /\ method = "adamStep" /\ grad = 0 /\ state = Fresh /\ up = FALSE
              /\ file = <<>> /\ pending = <<>> /\ begun = {} /\ resumed = <<>>
NoIndex == kind = "dict" /\ entries = <<>> /\ cache = Nothing /\ stamp = Empty
NoArray == slot = <<>> /\ arrayCall = <<>> /\ ended = <<>> /\ arrayTouches = 0
NoPlaces == root = 0 /\ call = 0 /\ copy = 0 /\ intended = 0 /\ calls = 0 /\ touches = 0
NoRegex == tree = 0 /\ pattern = 0 /\ text = 0 /\ answer = 0
NoDates == date = 0 /\ field = 0 /\ dateAnswer = 0 /\ shown = 0 /\ dateCalls = 0
NoValues == leftValue = Null /\ rightValue = Null /\ outcome = Idle

Init ==
  /\ used \in {"tape", "layers", "shapes", "training", "index", "arrays", "places", "regex", "dates", "values"}
  /\ IF used = "tape" THEN D!Init ELSE NoTape
  /\ IF used = "layers" THEN Y!Init ELSE NoLayer
  /\ IF used = "shapes" THEN T!Init ELSE NoShapes
  /\ IF used = "training" THEN TrainingInit ELSE NoTraining
  /\ IF used = "index" THEN IndexInit ELSE NoIndex
  /\ IF used = "arrays" THEN ArrayInit ELSE NoArray
  /\ IF used = "places" THEN L!Init ELSE NoPlaces
  /\ IF used = "regex" THEN R!Init ELSE NoRegex
  /\ IF used = "dates" THEN C!Init ELSE NoDates
  /\ IF used = "values" THEN ValuesInit ELSE NoValues

Rest(name) ==
  /\ IF name = "tape" THEN TRUE ELSE UNCHANGED tapeVars
  /\ IF name = "layers" THEN TRUE ELSE UNCHANGED layerVars
  /\ IF name = "shapes" THEN TRUE ELSE UNCHANGED shapeVars
  /\ IF name = "training" THEN TRUE ELSE UNCHANGED trainingVars
  /\ IF name = "index" THEN TRUE ELSE UNCHANGED indexVars
  /\ IF name = "arrays" THEN TRUE ELSE UNCHANGED arrayVars
  /\ IF name = "places" THEN TRUE ELSE UNCHANGED placesVars
  /\ IF name = "regex" THEN TRUE ELSE UNCHANGED regexVars
  /\ IF name = "dates" THEN TRUE ELSE UNCHANGED calendarVars
  /\ IF name = "values" THEN TRUE ELSE UNCHANGED valuesVars
  /\ UNCHANGED used

Next == \/ used = "tape" /\ D!Next /\ Rest("tape")
        \/ used = "layers" /\ Y!Next /\ Rest("layers")
        \/ used = "shapes" /\ T!Next /\ Rest("shapes")
        \/ used = "training" /\ TrainingNext /\ Rest("training")
        \/ used = "index" /\ IndexNext /\ Rest("index")
        \/ used = "arrays" /\ ArrayNext /\ Rest("arrays")
        \/ used = "places" /\ L!Next /\ Rest("places")
        \/ used = "regex" /\ R!Next /\ Rest("regex")
        \/ used = "dates" /\ C!Next /\ Rest("dates")
        \/ used = "values" /\ ValuesNext /\ Rest("values")

Spec == Init /\ [][Next]_vars

-----------------------------------------------------------------------------
\* Autodiff.backward: the gradient of every tensor the recorded computation
\* started from is the derivative of the loss, and no tensor's data and shape
\* disagree; what each recorded layer's rule leaves is the derivative of what
\* the layer computes.
GradientIsDerivative == /\ used = "tape" => D!GradientIsDerivative /\ D!TensorsAreWhole
                        /\ used = "layers" => Y!RuleIsDerivative
\* Tensor methods: every element of a result is where its indices say.
AgreesWithIndexing == used = "shapes" => T!AgreesWithIndexing
\* A mutation through a place is in the variable, and nothing else changed.
WritesLandAtTheirPlace == used = "places" => L!WritesLandAtTheirPlace
\* Regex: a match is what the pattern's meaning gives, by test, match and
\* findAll, and the pieces of a split rebuild the text with the matches.
MatchIsItsMeaning == used = "regex" => R!MatchIsItsMeaning /\ R!PiecesRebuildTheText
\* DateTime: adding months and years lands on the date meant, and what add did
\* reduce undoes unless the day was clamped; what is shown agrees.
ArithmeticLandsOnItsDate == used = "dates" => C!ArithmeticLandsOnItsDate /\ C!InspectionAgrees
=============================================================================
