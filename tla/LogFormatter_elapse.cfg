SPECIFICATION Spec
CONSTANTS
    MCLetters = {"m", "r"}
    MaxLen = 3
    Letter = {"m", "r"}
    Other = {" "}
    Patterns <- MCPatterns
INVARIANT
    ElapsedPrinted
CHECK_DEADLOCK FALSE
