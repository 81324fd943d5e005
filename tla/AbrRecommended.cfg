SPECIFICATION FairSpec
CONSTANTS
    NumLevels = 3
    Bitrate <- MCBitrate
    StartLevel = 1
    HeadNum = 4
    HeadDen = 5
    Tick = 2
    Window = 5
    AgeCap = 6
    Cooldown = 3
    UpDuration = 4
    TimeCap = 8
    IntMax = 48
    Recommendations <- MCRecommendations
INVARIANTS
    TypeOK
    WorstCaseMargin
    LevelFitsAverage
    WindowBounded
    SustainedFits
    SustainBacked
PROPERTIES
    UpgradeSpacing
    Converges
    ObeysAsThread
    RefinesGovernor
