SPECIFICATION MCSpec
CONSTANTS
  Kinds = {file, list}
  Unknown = Unknown
  Ptrs = {p1, p2}
  Null = Null
  MaxEntries = 4
  Keys = {k1, k2, k3, k4}
  Values = {v1, v2}
  Missing = Missing
  Scalars = {s}
  ItemKeys = {k}
  NoKey = NoKey
  Creatable <- AllKinds
  MaxSlots = 4
  MaxItems = 2
  Procs = {a, b}
  MaxRuns = 3
  MaxCompiles = 2
  Absent = Absent
  Torn = Torn
  Whole = Whole
  Contents = {c1, c2}
SYMMETRY Symmetry
INVARIANT FreeListExact
INVARIANT SweepComplete
INVARIANT IndexFollowsEntries
INVARIANT OwnedOnce
INVARIANT CleanupFreesAll
INVARIANT SessionCallsAreLegal
INVARIANT LogsAgree
INVARIANT ReceiptIsTrue
INVARIANT OnlyCompilerFails
INVARIANT EntryNamesBlob
INVARIANT InstalledIsPublished
PROPERTY HandleIsStable
PROPERTY ImplementsMap
PROPERTY ValueSemantics
CHECK_DEADLOCK FALSE
