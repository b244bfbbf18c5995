\* Two levels of statements; a for statement with an iteration has a condition.
SPECIFICATION Spec
CONSTANTS
    Programs <- NestedBodies
    Values <- MCValues
    Height <- MCHeight
    Words <- MCWords
    Mistyped <- MCMistyped
CHECK_DEADLOCK FALSE
INVARIANT AcceptedIsLowered
INVARIANT ReturningBodiesNeverEnd
PROPERTY ImplementsSource
