\* One request of each kind.
SPECIFICATION DeskSpec
CONSTANTS
    Keys = {k1, k2}
    Syncs = {s1}
    Builders = {b1}
    Actors = {x1}
    NoKey = NoKey
    MaxOutside = 0
    MaxFaults = 0
    Requests = {r1}
    Teams = {"t1", "t2"}
    Team = "t1"
    Accounts = {"a1"}
    NoOne = None
    Offers <- TeamOffers
    Ends = {4}
    Limits = {5}
    FirstBudgets <- TeamBudgets
    Charges = {9, 20}
    PeriodDays = 2
    MaxCustomDays = 3
    LastDay = 2
    MaxRaises = 1
    Sessions = {r1}
    Anomalies = {"v1", "v2"}
    Hidden = {"v2"}
    NoSession = None
    MaxFailures = 1
    Clients = {r1, None}
    MaxAttempts = 1
    MaxUsers = 2
    MaxTokens = 3
    MaxCodes = 2
    MaxExpiries = 1
    None = None
    Generations = {r1}
    Actions = {s1}
    Objects = {k1, k2}
    Named <- Subscription
    Wanted <- AzureWishes
    MaxOthers = 2
    Served <- Bills
    Start = 1
    End = 3
    MaxPages = 3
    MaxRequests = 5
    MaxWait = 1
    MaxScanned = 1
    Users = {k1, k2}
    DaysOf <- ReportPeriods
    Deliveries <- ReportChoices
    LastMailDay = 2
    MaxPuts = 2
    MaxCrashes = 1
    Handlers = {r1}
    Names = {"n1", "n2"}
    Secrets = {"long key", "role"}
    SeedSecret = "made up"
    AuthTypeOf <- AuthTypes
    MaxRows = 2
    MaxChanges = 1
    Passes <- NamePasses
    Nothing = None
    Lines <- LineChoices
    ServiceNames = {"shop", "shop1"}
    Unfit = "Shop_"
    Regions = {"r1", "r2"}
    JobIds <- JobNumbers
    Repeated = {"compute_engine"}
    MaxForeign = 1
SYMMETRY Symmetry
CHECK_DEADLOCK FALSE
INVARIANT LoopReachesAll
