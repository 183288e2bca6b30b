CONSTANTS
    m1 = m1
    m2 = m2
    NoModel = NoModel
    Models <- MCModels
    MaxLoad = 4
    MaxReq = 2
SPECIFICATION Spec
INVARIANTS
    TypeOK
    NoLostRequest
    BeliefMatchesContext
PROPERTIES
    TextFromReportedModel
    ImplementsContract
\* The environment stops when it has used up its request ids.
CHECK_DEADLOCK FALSE
