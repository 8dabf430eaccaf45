SPECIFICATION Spec
CONSTANTS
    MCLetters = {"m", "x"}
    MaxLen = 3
    Letter = {"m", "x"}
    Other = {" "}
    Patterns <- MCPatterns
INVARIANT
    EscapeMakesNoItem
CHECK_DEADLOCK FALSE
