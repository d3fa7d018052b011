SPECIFICATION LedgerSpec
CONSTANTS
    j1 = j1
    j2 = j2
    k1 = k1
    k2 = k2
    c1 = c1
    c2 = c2
    a1 = a1
    a2 = a2
    h1 = h1
    h2 = h2
    x1 = x1
    m1 = m1
    d1 = d1
    payload = payload
    nothing = nothing
    none = none
    NoTeam = none
    Accounts <- MCAccounts
    Provider <- MCProvider
    TeamOf <- MCTeamOf
    ManualProviders = {"aws", "azure"}
    AutoProviders = {"aws"}
    AllowedAccounts = {2}
    SetupMissing = {4}
    MonthLengths <- MCMonthLengths
    TeamCurrency <- MCTeamCurrency
    BaselineDays = 2
    MinHistoryDays = 3
    ExcludeRecentDays = 1
    MinIncreasePct = 50
    MinDelta <- MCMinDelta
    Charge <- MCCharge
    BilledIn <- MCBilledIn
    EarlyServices = {"AmazonS3"}
    CustomWindows <- MCCustomWindows
    TeamBudgets <- MCTeamBudgets
    Removable = {2}
    AutoLookback = 2
    Outcomes <- MCOutcomes
    FirstDay = 3
    MaxRuns = 3
    MaxFailures = 1
    LastDay = 5
INVARIANTS
    AnswersAreHonest
    BudgetIsHonest
    AnomaliesAreReal
    ReadersAgree
PROPERTIES
    JobsSettle
    SyncsSettle
    CollectionsSettle
CHECK_DEADLOCK FALSE
