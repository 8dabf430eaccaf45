SPECIFICATION Spec
CONSTANTS
    t1 = t1
    t2 = t2
    empty = empty
    unknow = unknow
    a = a
    Empty = empty
    Unknow = unknow
    Main = Main
    Nobody = Nobody
    Joining <- MCJoining
    Handle <- MCHandle
    Name <- MCName
CHECK_DEADLOCK FALSE
INVARIANTS
    ObjectOutlivesUse
    CallbackKnowsItself
    ReapedOnce
PROPERTIES
    JoinReturns
    ImplementsJoinHandle
