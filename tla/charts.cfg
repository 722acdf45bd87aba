CONSTANTS
    EarliestDay = 0
    FirstDay = 100
    LastDay = 154
    MonthOf <- MCMonthOf
    Calendars <- MCCalendars
    MaxLag = 5
    MaxPoints = 8
    MaxMonths = 3
    MaxBack = 88
SPECIFICATION Spec
INVARIANTS TypeOK ChartPeriodsWhole
CHECK_DEADLOCK FALSE
