SPECIFICATION ParserSpec
CONSTANTS
  Bindings = {"simple", "malformed"}
  MaxTokens = 5
  MaxBridges = 4
  Parses = {"recovery"}
PROPERTY EveryParseEnds
