SPECIFICATION Spec
CONSTANTS
    e1 = e1
    e2 = e2
    Event <- MCEvent
    MaxEvents = 4
INVARIANTS
    PrefixSurvives
    CompleteWhenDestroyed
PROPERTIES
    ReopenWorks
CHECK_DEADLOCK FALSE
