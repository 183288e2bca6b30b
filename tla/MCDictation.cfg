CONSTANT MaxTakes = 2
SPECIFICATION Spec
INVARIANTS
    TypeOK
    WorkIsTheDictations
    DeferredSwitchIsOwed
PROPERTIES
    ImplementsSession
    RestoredWhenIdle
    DeferredSwitchHappens
    SessionsKeepTheirWorker
    EverySessionEnds
\* Nothing has to happen once the recordings are used up.
CHECK_DEADLOCK FALSE
