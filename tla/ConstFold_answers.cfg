\* A long long of a few bits, every operator.
SPECIFICATION Spec
CONSTANTS
    Width = 4
    LLongMax = 7
    CharMax = 3
    Operators = {"+", "-", "*", "/", "%", "<<", ">>", "&", "|", "^",
                 "==", "!=", "<", "<=", ">", ">=", "&&", "||", ","}
    MaxOperands = 3
INVARIANT AnswersAreMeanings
INVARIANT RefusedForAReason
