SPECIFICATION Spec
CONSTANTS
    Scenarios <- Conditionals
    Tokens <- MCTokens
    Identifiers = {"a", "f", "T"}
    Names = {"a", "f"}
    Numbers = {"1"}
    TypeNames = {"T"}
    Literals = {"1"}
    Builtins <- MCBuiltins
    MaxNesting = 1
INVARIANT RecursionIsCapped
CHECK_DEADLOCK FALSE
