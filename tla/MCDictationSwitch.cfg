CONSTANT MaxTakes = 1
SPECIFICATION Spec
PROPERTY PutOffSwitchComes
\* Nothing has to happen once the recordings are used up.
CHECK_DEADLOCK FALSE
