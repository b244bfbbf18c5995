SPECIFICATION Spec
CONSTANTS
    Names = {"x", "size_t"}
    Builtins <- MCBuiltins
    FunctionTypes = {"f1", "f2"}
    MaxDeclarations = 5
    MaxDepth = 4
INVARIANT IllScopedIsRefused
INVARIANT WellScopedIsAccepted
INVARIANT LookupIsLexical
INVARIANT UsesReachTheirDeclaration
INVARIANT LocalsApart
CHECK_DEADLOCK FALSE
