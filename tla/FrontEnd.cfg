SPECIFICATION FrontEndSpec
CONSTANTS
  Families <- MCFamilies
  MaxTokens = 3
  MaxWraps = 2
  MaxSlipped = 1
  MaxParseDepth = 12
  MaxSize = 3
  Features = {"unsupported"}
  Names = {"a", "b"}
  MaxConstructs = 3
  MaxStray = 1
  Docs = {"d"}
  Files = {"m1", "m2", "m3"}
  Imports <- MCImports
  Missing <- MCMissing
  Budget = 2
  MaxSent = 3
  MaxVersion = 2
INVARIANTS TokensAreAsWritten ProgramIsAsWritten AnErrorIsContained SameBehaviour OutlineIsComplete AnswersAreCurrent DiagnosticsConverge
PROPERTIES EveryRequestIsAnswered
CHECK_DEADLOCK FALSE
