CONSTANT MaxTakes = 1
SPECIFICATION PressSpec
PROPERTY PressingAgainFinishes
\* Nothing has to happen once the recordings are used up.
CHECK_DEADLOCK FALSE
