SPECIFICATION Spec
CONSTANTS
    MCLetters = {"m", "x"}
    MaxLen = 6
    Letter = {"m", "x"}
    Other = {" "}
    Patterns <- MCPatterns
INVARIANTS
    NothingLost
    ErrorIsMisspelt
PROPERTIES
    ConstructorReturns
    EachTurnAdvances
CHECK_DEADLOCK FALSE
