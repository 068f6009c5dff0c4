SPECIFICATION MCSpec
CONSTANTS
  a = a
  WorkspaceFiles <- OneFile
  TextCount = 2
  FirstText = 1
  Requests = {r1}
  Saves = {0, None}
  MaxSnapshot = 6
  None = None
  Bindings = {"simple", "legacyOnly", "malformed", "alien"}
  MaxTokens = 6
  MaxBridges = 4
  Lines <- CodeLines
  MaxLines = 3
  MaxAsked = 1
  Parses = {"nightly", "legacy", "recovery"}
INVARIANT OpenIndexExact
INVARIANT CacheExact
INVARIANT AnswersAreCurrent
INVARIANT NoEditUndiagnosed
INVARIANT StrictParseIsExact
INVARIANT RecoveryKeepsTheRest
INVARIANT LossIsDiagnosed
INVARIANT ItemsShowTheirFacts
INVARIANT InnermostIsLexical
