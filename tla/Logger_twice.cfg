SPECIFICATION Spec
CONSTANTS
    root = root
    system = system
    own = own
    f = f
    s = s
    p0 = p0
    p1 = p1
    bad = bad
    Managed <- MCManaged
    Free <- MCFree
    Root = root
    File <- MCFile
    Stdout <- MCStdout
    GoodPattern <- MCGood
    BadPattern <- MCBad
    Default = p0
    Null = Null
    Crashed = Crashed
    Own = Own
    Moved = Moved
    Levels <- MCLevels
    EventLevels <- MCEvents
    MaxAppenders = 3
INVARIANT
    OneConsoleByDefault
CHECK_DEADLOCK FALSE
