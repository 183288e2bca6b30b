CONSTANTS
    c1 = c1
    c2 = c2
    Nothing = Nothing
    Copies <- MCCopies
    MaxText = 2
SPECIFICATION Spec
INVARIANT RestoredAfterPaste
