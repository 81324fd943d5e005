SPECIFICATION FairSpec
CONSTANTS
    Pieces = 2
INVARIANTS
    TypeOK
    WorkersWithinPublication
    CleanedUp
    DecoderLive
PROPERTIES
    ShutsDown
    ReachesPublishing
    AudioKeepsPlaying
    PlayersObey
CHECK_DEADLOCK FALSE
