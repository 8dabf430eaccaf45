SPECIFICATION Spec
CONSTANTS
    Value = {v0, v1, v2}
    Default = v0
    Key <- MCKey
    Moves <- MCMoves
    MaxDepth = 2
CHECK_DEADLOCK FALSE
PROPERTY
    HeardAnyChange
