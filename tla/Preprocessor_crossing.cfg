\* Groups that cross the translation unit and its header, and every reportable line.
SPECIFICATION TraceSpec
CONSTANTS
  m = m
  h = h
  A = A
  Files = {m, h}
  Main = m
  Missing = Missing
  Unloadable = Unloadable
  Malformed = Malformed
  MacroNames = {A}
  NoName = NoName
  MaxIncludeDepth = 2
  MaxDiagnostics = 2
  Programs <- CrossingPrograms
CHECK_DEADLOCK FALSE
INVARIANT ActiveMeansAllActive
INVARIANT CleanRunIsBalanced
INVARIANT BranchOnce
PROPERTY ImplementsConditionalInclusion
PROPERTY OnlyIncludedLinesAct
