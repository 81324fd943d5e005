SPECIFICATION FairSpec
CONSTANTS
    Interval = 4
    MaxLag = 10
INVARIANTS
    Spaced
PROPERTIES
    NoBurst
    BackOnSchedule
