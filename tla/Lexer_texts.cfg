SPECIFICATION Spec
CONSTANT Texts <- MCTexts
INVARIANT TokensAreLongest
INVARIANT NothingIsLost
INVARIANT PositionsAgree
CHECK_DEADLOCK FALSE
