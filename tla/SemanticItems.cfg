SPECIFICATION ItemsSpec
CONSTANTS
  Lines <- CodeLines
  MaxLines = 3
  MaxAsked = 1
INVARIANT CallArgumentsTyped
