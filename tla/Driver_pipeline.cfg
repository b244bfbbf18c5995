SPECIFICATION Spec
CONSTANTS
    Cap = 200
    Capacities <- MCCapacities
    InitialSlots <- MCInitialSlots
    CommandLines <- MCCommandLines
    MaxArguments = 3
    Words = {"--dump-tokens", "--dump-ast-json", "--help", "-Wall", "file.c",
             "lex", "preprocess", "parse", "check", "codegen"}
INVARIANT WritesInBounds
INVARIANT ErrorsReachExitCode
INVARIANT ProductsAreClean
PROPERTY StagesGetCleanInput
