SPECIFICATION Spec
CONSTANTS
    Symbols <- MCSymbols
    Fields <- MCFields
    TypeNames <- MCTypeNames
    Declared <- MCDeclared
    Height = 7
    Expressions <- MCExpressions
    Analysed <- MCAnalysed
    Memory <- MCMemory
INVARIANT TypesAreC
INVARIANT AcceptedGoesThrough
INVARIANT MeaningIsC
INVARIANT TemporariesAreSet
CHECK_DEADLOCK FALSE
