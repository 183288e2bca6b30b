CONSTANTS
    c1 = c1
    c2 = c2
    Nothing = Nothing
    Copies <- MCCopies
    MaxText = 3
SPECIFICATION Spec
INVARIANTS
    TypeOK
    RestoredWhenAlone
    PressFindsText
    AnswersInStep
    AskedOnce
PROPERTY TextIsTakenBack
