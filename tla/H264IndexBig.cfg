SPECIFICATION Spec
CONSTANTS
    Files <- MCFiles
    IntMax = 63
INVARIANTS
    SlicesStayTogether
CHECK_DEADLOCK FALSE
