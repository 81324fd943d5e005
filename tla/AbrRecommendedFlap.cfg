SPECIFICATION Spec
CONSTANTS
    NumLevels = 3
    Bitrate <- MCBitrate
    StartLevel = 1
    HeadNum = 4
    HeadDen = 5
    Tick = 1
    Window = 2
    AgeCap = 3
    Cooldown = 1
    UpDuration = 3
    TimeCap = 5
    IntMax = 1000
    Recommendations <- MCRecommendations
PROPERTIES
    DowngradeHasFreshCause
