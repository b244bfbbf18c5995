SPECIFICATION SpecInC
CONSTANTS
    Tags = {S, T}
    FieldNames = {a, b}
    Scalars <- SmallScalars
    MaxTypes = 3
    MaxParts = 5
    MaxScopes = 3
    MaxOpen = 2
    MaxAlone = 4
INVARIANT RefusedIfInvalid
INVARIANT RecordsAreC
INVARIANT LayoutsAreSound
PROPERTY CompletedTypesStay
SYMMETRY Symmetry
CHECK_DEADLOCK FALSE
