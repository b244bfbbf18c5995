SPECIFICATION FairExpansion
CONSTANTS
    LineMacros = {"A", "F", "B"}
    NoMacro = NoMacro
    MaxExpansionDepth = 2
    LineLength = 3
    Tables <- MCTables
    Lines <- MCLines
INVARIANT FlagsAreTheCalls
INVARIANT SimpleLinesExpandLikeC
PROPERTY ExpansionEnds
CHECK_DEADLOCK FALSE
