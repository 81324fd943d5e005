SPECIFICATION TSpec
CONSTANTS
    Uids = {u1}
    Free = 12
    Throttled = 3
    Estimates = {3, 12}
    ReportGap = 2
    NumLevels = 3
    StartLevel = 1
    Tick = 1
    Window = 4
    Stale = 20
    Cooldown = 10
    UpDuration = 20
    DownDuration = 6
    UpNum = 6
    UpDen = 5
    DownNum = 13
    DownDen = 10
    AgeCap = 21
    TimeCap = 31
PROPERTIES
    ThrottledStepsDown
