SPECIFICATION Spec
CONSTANTS
    NumLevels = 3
    StartLevel = 1
    Contents <- MCContents
    NoFrame = NoFrame
CHECK_DEADLOCK FALSE
PROPERTIES
    ReceiverSeesUnbrokenGop
