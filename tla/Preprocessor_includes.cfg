\* A translation unit and a header that may include themselves and each other.
SPECIFICATION FairSpec
CONSTANTS
  m = m
  h = h
  A = A
  Files = {m, h}
  Main = m
  Missing = Missing
  Unloadable = Unloadable
  Malformed = Malformed
  MacroNames = {A}
  NoName = NoName
  MaxIncludeDepth = 3
  MaxDiagnostics = 2
  Programs <- IncludePrograms
CHECK_DEADLOCK FALSE
INVARIANT PragmaOnceGivesTextOnce
INVARIANT IncludeGuardGivesTextOnce
PROPERTY Terminates
