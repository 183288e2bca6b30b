CONSTANT MaxTakes = 1
SPECIFICATION SafetySpec
PROPERTY SessionKeepsModel
\* Nothing has to happen once the recordings are used up.
CHECK_DEADLOCK FALSE
