SPECIFICATION Spec
CONSTANTS
    Ladder <- MCLadder
    SweepOrder <- MCSweepOrder
    Promise <- MCPromise
    Targets <- MCTargets
    BusinessOnly <- MCBusinessOnly
    OpenMinutes <- MCOpenMinutes
    Born = {"low"}
    Rule <- MCRule
    Sweeper <- MCSweeper
    Overlap = FALSE
    MaxTime = 4
    Horizon = 24
    MaxEvents = 2
    MaxHeld = 1
    MaxNested = 2
INVARIANTS
    TestsAgree
    FlagsMatchClock
    NoticesAreNotRepeated
PROPERTIES
    DeadlineNeverEarlier
    LateIsFlagged
CHECK_DEADLOCK FALSE
