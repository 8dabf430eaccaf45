SPECIFICATION Spec
CONSTANTS
    MCLetters = {"m", "x"}
    MaxLen = 3
    Letter = {"m", "x"}
    Other = {" "}
    Patterns <- MCPatterns
INVARIANT
    PatternErrorIsError
CHECK_DEADLOCK FALSE
