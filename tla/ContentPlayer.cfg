SPECIFICATION FairSpec
CONSTANTS
    NumLevels = 3
    StartLevel = 1
    Contents <- MCContents
    NoFrame = NoFrame
CHECK_DEADLOCK FALSE
INVARIANTS
    TypeOK
    FrameAvailable
    SwitchWithinGop
PROPERTIES
    OffersUnbrokenGop
    BrokenOnlyByLoss
    SwitchesEventually
    ObeysAsThread
