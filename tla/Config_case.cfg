SPECIFICATION Spec
CONSTANTS
    a = a
    b = b
    up = up
    dot = dot
    Dot = dot
    Fails = Fails
    Nothing = Nothing
    Symbol <- MCSymbol
    Legal <- MCLegal
    Lower <- MCLower
    Number <- MCNumber
    Text <- MCText
    Node <- MCNode
    Document <- MCDocument
    Request <- MCRequest
INVARIANTS
    LoadsAnyCase
