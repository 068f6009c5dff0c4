SPECIFICATION MCSpec
CONSTANTS
  a = a
  b = b
  WorkspaceFiles <- TwoFiles
  TextCount = 2
  FirstText = 1
  Requests = {r1}
  Saves = {0}
  MaxSnapshot = 5
  None = None
INVARIANT PublishedAtRead
PROPERTY ComputedFromBuffers
PROPERTY DiagnosticsCatchUp
