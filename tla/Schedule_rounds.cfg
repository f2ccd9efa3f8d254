CONSTANTS
    NAnn = 2
    MaxPerGroup = 2
    Exprs <- MCExprs
    Stored <- MCStored
    Limit = 1
    Window = 1
    Keep = 2
    NManual = 1
    MaxMinute = 2
    MaxEdits = 1
    MaxCrashes = 1
    MinutesPerHour = 2
    HoursPerDay = 2
    DaysPerWeek = 3
    DaysPerMonth = 4
    MonthsPerYear = 2
    ScanDays = 9
SPECIFICATION Spec
INVARIANTS SendsAreBounded NextTimesAreFirings
PROPERTIES SendingEditsNothing
CHECK_DEADLOCK FALSE
