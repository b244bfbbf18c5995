SPECIFICATION FairSpec
CONSTANTS
    Scenarios <- MCScenarios
    Tokens <- MCTokens
    Identifiers = {"a", "f", "T"}
    Names = {"a", "f"}
    Numbers = {"1"}
    TypeNames = {"T"}
    Literals = {"1"}
    Builtins <- MCBuiltins
    MaxNesting = 2
INVARIANT SilentIsGrammatical
INVARIANT CountsFollowCalls
PROPERTY ComplainsInTime
PROPERTY Terminates
CHECK_DEADLOCK FALSE
