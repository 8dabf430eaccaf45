SPECIFICATION Spec
CONSTANTS
    t1 = t1
    t2 = t2
    system = system
    Main = Main
    Null = Null
    root = root
    Root = root
    Thread <- MCThread
    Logger <- MCLogger
    N = 2
    Levels <- MCLevels
    Opener <- MCOne
INVARIANTS
    FormatterAlive
    PrintedByLevels
PROPERTIES
    StatementReturns
    BoundedSteps
