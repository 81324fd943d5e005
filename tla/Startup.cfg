SPECIFICATION Spec
CONSTANTS
    Files <- MCFiles
    CommandLines <- MCCommandLines
CHECK_DEADLOCK FALSE
INVARIANTS
    ParsesWhatIsWritten
    ConfigIsUsable
PROPERTIES
    ComesUpIfFit
