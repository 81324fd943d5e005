SPECIFICATION Spec
CONSTANTS
    Files <- MCFiles
    IntMax = 511
INVARIANTS
    IndexesPictures
    FramesInOrder
CHECK_DEADLOCK FALSE
