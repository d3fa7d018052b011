SPECIFICATION Spec
CONSTANTS
    m1 = m1
    m2 = m2
    d1 = d1
    NoRun = NoRun
    ManualRuns = {m1, m2}
    DailyRuns = {d1}
    ManualWindows <- MCManualWindows
    DailyWindow <- MCDailyWindow
    Charged <- MCCharged
    CostProvider = "gcp"
    MaxFaults = 1
INVARIANT EndedIsClosed
CHECK_DEADLOCK FALSE
