SPECIFICATION Spec
CONSTANTS
    e1 = e1
    e2 = e2
    Event <- MCEvent
    MaxEvents = 4
PROPERTIES
    ReopenRecovers
CHECK_DEADLOCK FALSE
