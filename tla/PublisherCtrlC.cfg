SPECIFICATION Spec
CONSTANTS
    Pieces = 2
PROPERTIES
    CleanShutdown
CHECK_DEADLOCK FALSE
