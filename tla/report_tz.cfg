SPECIFICATION Spec
CONSTANTS
    j1 = j1
    Jar = {j1}
    DayLength = 2
    Months = 3
    FirstDay <- MCFirstDay
    Window = 3
    ZoneOffset = 1
    Amount <- MCAmount
    MaxOps = 1
    MaxTime = 4
INVARIANT ReportsLocalMonths
