\* Synchronisation: two requests, two accounts, one cancel and one fault: the
\* loop over the items against cancels at every point. Collections: two manual
\* runs, one daily visit and one fault. Each thread serves one request, so the
\* system stops.
SPECIFICATION TasksSpec
CONSTANTS
    Jobs = {j1, j2}
    Accounts = {a1, a2}
    Creators = {h1, h2}
    Cancellers = {x1}
    NoJob = NoJob
    NoAccount = NoAccount
    MaxSyncFaults = 1
    m1 = m1
    m2 = m2
    d1 = d1
    NoRun = NoRun
    ManualRuns = {m1, m2}
    DailyRuns = {d1}
    ManualWindows <- MCManualWindows
    DailyWindow <- MCDailyWindow
    Charged <- MCCharged
    CostProvider = "gcp"
    MaxFaults = 1
SYMMETRY TasksSymmetry
CHECK_DEADLOCK FALSE
INVARIANTS
    VerdictMatchesItems
    AcceptedCancelStops
    ReplacedWhole
    BasisFollowsStorage
    ToldTruthfully
