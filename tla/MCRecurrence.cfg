SPECIFICATION Spec

CONSTANTS
    Slots = 3
    MonthDays = 9
    YearMonths = 2
    Horizon = 53
    Change = 30
    Offsets <- MCOffsets
    StartDays = {8, 9, 10, 11, 12, 13, 14}
    EndDays = {44}
    WeekStarts = {0, 1, 6}
    Intervals = {1, 2}
    DaySets <- MCDaySets
    Counts = {4}

INVARIANTS
    RuleKeepsDays
    DailyKeepsTimes
