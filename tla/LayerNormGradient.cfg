SPECIFICATION LayersSpec
CONSTANTS
  Modulus = 7
  Inputs <- MCInputs
  MaxTensors = 4
  MaxSets = 1
  Field = 31
  Exp <- MCExp
  Tanh <- MCTanh
  Ln <- MCLn
  SquareRoot <- MCRoot
  Calls <- MCRows
  Seeds = {0, 1}
  Shapes <- MCShapes
  Base = 3
  Gradients = {2}
  MaxSteps = 3
  Keys <- MCKeys
  IndexMin = 3
  MaxEntries = 5
  Floor = 3
  Elements <- MCElements
  Reentrant = {"map", "filter", "find", "findIndex", "every", "some", "reduce", "sort", "unshift", "remove"}
  MaxLength = 4
  MaxArrayTouches = 1
  Roots <- MCRoots
  Receivers <- MCReceivers
  Mutated <- MCMutated
  Bodies = {"reads", "assigns", "indexes", "callsItself"}
  Touches <- MCTouches
  MaxCalls = 2
  MaxTouches = 2
  Trees <- MCTrees
  Texts <- MCTexts
  StepLimit = 400
  DepthLimit = 40
  WordChars = {"a", "b"}
  FirstYear = 1899
  LastYear = 1904
  Radix <- MCRadix
  Starts <- MCStarts
  Amounts = {1, 14, 31}
  Stamps <- MCStamps
  Patterns <- MCPatterns
  MaxDateCalls = 3
  WordBits = 4
  Precision = 2
  DecLimit = 10
  Repeats = 6
  Samples <- MCSamples
INVARIANTS GradientIsDerivative
CHECK_DEADLOCK FALSE
