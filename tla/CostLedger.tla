----------------------------- MODULE CostLedger -----------------------------
(* Days pass, accounts are collected by users and by the daily scheduler   *)
(* or not, successfully or not, and every answer the service gives is      *)
(* computed from what was stored.  A collection is one step here           *)
(* (CostIngestion has its steps); Charge is what the provider bills.       *)
EXTENDS BudgetRules, AnomalyRules

CONSTANTS
    Charge,         \* [Accounts -> [day -> set of [service, category, amount]]]
    BilledIn,       \* [Accounts -> currency]
    EarlyServices,  \* services a provider reports on the day itself
    CustomWindows,  \* windows a user may ask for besides the default one
    TeamBudgets,    \* the budgets of the teams
    Removable,      \* accounts whose keys come and go, or lose the provider's trust
    AutoLookback,   \* _AUTO_LOOKBACK_DAYS
    Outcomes,           \* [status, error] of a run that stores nothing
    FirstDay,           \* the day the accounts are registered; charges are older
    MaxRuns, MaxFailures, LastDay   \* bounds

ASSUME LedgerAssumption ==
    /\ DOMAIN Charge = Accounts /\ DOMAIN BilledIn = Accounts /\ Removable \subseteq Accounts
    /\ AutoLookback \in Nat /\ MaxRuns \in Nat /\ MaxFailures \in Nat /\ LastDay \in Nat
    /\ FirstDay \in 0 .. LastDay /\ LastDay < MonthStart[Len(MonthLengths) + 1]
    /\ CustomWindows \subseteq [start : Int, end : Int]
    /\ \A outcome \in Outcomes : outcome.status # "success"

(* What a provider bills: on each of its days, of the first one or later,  *)
(* finitely many charges; a usage is not negative.                         *)
ASSUME ChargeAssumption ==
    \A a \in Accounts : /\ DOMAIN Charge[a] \subseteq Nat /\ BilledIn[a] # None
        /\ \A d \in DOMAIN Charge[a] :
            /\ IsFiniteSet(Charge[a][d])
            /\ \A c \in Charge[a][d] :
                /\ c = [service |-> c.service, category |-> c.category, amount |-> c.amount]
                /\ c.amount \in Int
                /\ c.category = "usage" => c.amount >= 0

(* Budgets are told apart by their ids and start after the first day of    *)
(* the calendar, which reaches the end of every period a budget counts.    *)
ASSUME BudgetAssumption ==
    /\ IsFiniteSet(TeamBudgets)
    /\ \A b, c \in TeamBudgets : b.id = c.id => b = c
    /\ \A b \in TeamBudgets :
        /\ b.id \in Nat /\ b.limit \in Nat \ {0} /\ b.start \in 1 .. Forever - 1
        /\ IF b.type = "custom" THEN b.end \in Int
           ELSE \A day \in 0 .. Forever - 1 :
                    CalendarPeriod(b.type, day) \in [start : Int, end : Int]

VARIABLES rows, runs, keys, verified, today, alerts

vars == <<rows, runs, keys, verified, today, alerts>>

Ledger == [rows |-> rows, runs |-> runs, keys |-> keys, verified |-> verified, today |-> today]

Init ==
    /\ rows = {} /\ runs = <<>> /\ keys = Accounts /\ verified = Accounts
    /\ today = FirstDay /\ alerts = {}

ChargedDays(a) == DOMAIN Charge[a]

(* The answer to a collection of a window: whole days, and of today what   *)
(* is reported already.                                                    *)
Answer(a, window, id) ==
    UNION {{[account |-> a, day |-> d, service |-> c.service, category |-> c.category,
             currency |-> BilledIn[a], amount |-> c.amount, asOf |-> id] :
                c \in {x \in Charge[a][d] : d < today \/ x.service \in EarlyServices}} :
           d \in DaysOf(window) \intersect ChargedDays(a) \intersect 0 .. today}

(* AWS vouches for every day of the range it was asked for; the others     *)
(* report what they have seen.                                             *)
AdapterBasis(a) == IF Provider[a] = "aws" THEN CompleteRange ELSE ObservedOnly

Run(a, window, trigger, status, error) ==
    [id |-> Len(runs) + 1, account |-> a, window |-> window, trigger |-> trigger,
     status |-> status, error |-> error, at |-> today,
     basis |-> IF status = "success" THEN ResolveBasis(AdapterBasis(a), Provider[a]) ELSE Unrecorded]

AutoPeriod == [start |-> Min({FirstOfMonth(today), today - AutoLookback}), end |-> today + 1]

StoreBeside(a, window, trigger) ==      \* changed: the rows of the range stay
    /\ rows' = rows \union Answer(a, window, Len(runs) + 1)
    /\ runs' = Append(runs, Run(a, window, trigger, "success", None))
    /\ UNCHANGED <<keys, verified, today, alerts>>

(* Rows of the range are replaced, then the budget of the account's team   *)
(* is evaluated.                                                           *)
Store(a, window, trigger) ==
    LET id == Len(runs) + 1
        kept == {row \in rows : row.account # a \/ row.day \notin DaysOf(window)}
    IN  /\ rows' = kept \union Answer(a, window, id)
        /\ runs' = Append(runs, Run(a, window, trigger, "success", None))
        /\ alerts' = alerts \union
                (IF TeamOf[a] = NoTeam THEN {}
                 ELSE DueAlerts([Ledger EXCEPT !.rows = rows', !.runs = runs'],
                                {b \in TeamBudgets : b.team = TeamOf[a]}, TeamOf[a], alerts))
        /\ UNCHANGED <<keys, verified, today>>

Failures == Cardinality({i \in DOMAIN runs : runs[i].status # "success"})

ManualRun(a) ==
    /\ Len(runs) < MaxRuns
    /\ a \in verified /\ IsCostSupported(Provider[a]) /\ ManualIngestDenial(a) = None
    /\ \E window \in CustomWindows \union {DefaultPeriod(today)} :
        window.start < window.end /\ Store(a, window, "manual")

DailyRun(a) ==
    /\ Len(runs) < MaxRuns
    /\ a \in verified /\ IsCostSupported(Provider[a]) /\ AutoIngestAllowed(a)
    /\ Store(a, AutoPeriod, "auto")

(* A run that is cut short or interrupted stores no row; what it was asked *)
(* for, and by whom, is never read again.                                  *)
FailedRun(a) ==
    /\ Len(runs) < MaxRuns /\ Failures < MaxFailures
    /\ a \in verified /\ IsCostSupported(Provider[a]) /\ IngestEnabled(a)
    /\ \E outcome \in Outcomes :
        runs' = Append(runs, Run(a, DefaultPeriod(today), "auto", outcome.status, outcome.error))
    /\ UNCHANGED <<rows, keys, verified, today, alerts>>

(* An account stays without a key, and out of every answer, or with one    *)
(* the provider no longer accepts, and is answered for but not collected.  *)
DeleteLastKey(a) ==
    /\ a \in keys /\ keys' = keys \ {a} /\ verified' = verified \ {a}
    /\ UNCHANGED <<rows, runs, today, alerts>>
RegisterAgain(a) ==
    /\ a \notin keys /\ keys' = keys \union {a} /\ verified' = verified \union {a}
    /\ UNCHANGED <<rows, runs, today, alerts>>
CheckKey(a) ==
    /\ a \in keys /\ verified' \in {verified \ {a}, verified \union {a}}
    /\ UNCHANGED <<rows, runs, keys, today, alerts>>

DayPasses == today < LastDay /\ today' = today + 1 /\ UNCHANGED <<rows, runs, keys, verified, alerts>>

Next ==
    \/ \E a \in Accounts : ManualRun(a) \/ DailyRun(a) \/ FailedRun(a)
    \/ \E a \in Removable : DeleteLastKey(a) \/ RegisterAgain(a) \/ CheckKey(a)
    \/ DayPasses

Spec == Init /\ [][Next]_vars

-----------------------------------------------------------------------------
(* Every row is one the provider billed, of a run that covers its day; no  *)
(* day has rows of two runs.                                               *)
TypeOK ==
    /\ today \in 0 .. LastDay /\ keys \subseteq Accounts
    /\ \A row \in rows :
        /\ row.day \in ChargedDays(row.account) /\ row.day <= today
        /\ \E c \in Charge[row.account][row.day] : c.service = row.service /\ c.amount = row.amount
        /\ runs[row.asOf].account = row.account /\ row.day \in DaysOf(runs[row.asOf].window)
    /\ \A row, other \in rows :
        row.account = other.account /\ row.day = other.day => row.asOf = other.asOf

(* What accounts were really charged for usage, in a currency, on days     *)
(* that are over.                                                          *)
Bill(accounts, currency, start, end) ==
    UNION {UNION {{[account |-> a, day |-> d, service |-> c.service, amount |-> c.amount] :
                      c \in {x \in Charge[a][d] : x.category = "usage"}} :
                   d \in (start .. end - 1) \intersect ChargedDays(a)} :
           a \in {b \in accounts : BilledIn[b] = currency}}
TrueUsage(accounts, currency, start, end) == Amount(Bill(accounts, currency, start, end))
TrueUsageOn(a, service, d) ==
    Amount({charge \in Bill({a}, BilledIn[a], d, d + 1) : charge.service = service})
TrueBaseline(a, service, day) == MapThenSumSet(LAMBDA d : TrueUsageOn(a, service, d), Window(day))

(* The last run that stored a day did so when the day was over.  (One that *)
(* ran on the day itself confirms it all the same, and is not repeated     *)
(* unless the daily visits succeed again.)                                 *)
Settled(a, start, end) ==
    \A d \in start .. end - 1 :
        LET covering == {i \in DOMAIN runs : /\ runs[i].account = a /\ runs[i].status = "success"
                                             /\ d \in DaysOf(runs[i].window)}
        IN  covering # {} => runs[Max(covering)].at > d

Question(start, end) ==
    [start |-> start, end |-> end, providers |-> {}, accounts |-> {},
     currency |-> None, categories |-> {"usage"}]
MonthToDate == Question(FirstOfMonth(today), today + 1)
LastDays(n) == Question(today - n, today)

(* The accounts that are the user's and that something may collect.        *)
Collectable == {a \in keys : IngestEnabled(a)}

(* A forecast that is given is the one of the real charges: for every      *)
(* account that can be collected, every day so far is in, and there is     *)
(* none in another currency.                                               *)
ForecastIsHonest ==
    LET start == FirstOfMonth(today)
        isTrue(amounts, c, true) ==
            IF c \in DOMAIN amounts THEN amounts[c].num = true * DaysInMonth(today) ELSE true = 0
        honest(forecast) ==
            forecast.state = "computed" /\ (\A a \in Collectable : Settled(a, start, today)) =>
                \A c \in Range(BilledIn) :
                    isTrue(forecast.amounts, c, TrueUsage(Collectable, c, start, today))
    IN  honest(ForecastMonthEnd(Ledger, MonthToDate))

(* Two periods that are declared comparable carry their real totals, so    *)
(* that a drop is a drop and not a gap in the collection.                  *)
ComparisonIsHonest ==
    LET honest(q, first, found) ==
            found.reasons = {} /\ (\A a \in Collectable : Settled(a, first, q.end)) =>
                /\ found.current = TrueUsage(Collectable, found.currency, q.start, q.end)
                /\ found.previous = TrueUsage(Collectable, found.currency, first, q.start)
        on(q, n) == honest(q, q.start - n, Changes(Ledger, q, "previous_period", None))
    IN  \A n \in 1 .. 2 : on(LastDays(n), n)

(* Every such answer is the one of the real charges.                       *)
AnswersAreHonest == ForecastIsHonest /\ ComparisonIsHonest

Teams == {b.team : b \in TeamBudgets}
BudgetsOf(team) == {b \in TeamBudgets : b.team = team}

(* A ratio that is shown lies between the real usage of the days that are  *)
(* over and that of the day itself; a threshold that was announced has     *)
(* really been reached.                                                    *)
BudgetIsHonest ==
    LET upTo(status, day) == TrueUsage(status.accounts, status.budget.currency,
                                       status.period.start, Min({status.period.end, day}))
        settled(accounts, period) ==
            \A a \in accounts : Settled(a, period.start, Min({period.end, today}))
        within(status, before, after) ==
            /\ RatioTenths(before, status.budget.limit) <= status.ratio
            /\ status.ratio <= RatioTenths(after, status.budget.limit)
            /\ status.forecast.den # 0 =>
                    status.forecast.num = before * (status.period.end - status.period.start)
        honest(status) ==
            status.computable /\ status.state # "upcoming" /\ settled(status.accounts, status.period) =>
                within(status, upTo(status, today), upTo(status, today + 1))
        reached(alert, budget) ==
            RatioTenths(TrueUsage({a \in Accounts : TeamOf[a] = budget.team}, budget.currency,
                                  alert.period, today + 1), budget.limit) >= 10 * alert.threshold
    IN  /\ \A team \in Teams : honest(ComputeBudgetStatus(Ledger, BudgetsOf(team), team, today))
        /\ \A alert \in alerts :
            reached(alert, CHOOSE b \in TeamBudgets : b.id = alert.budget)

(* A jump that is reported is one of the real charges over a whole         *)
(* baseline, never the shadow of a day that was not collected; and the     *)
(* page lists what the evaluation after a collection announces.            *)
AnomaliesAreReal ==
    LET jumps(a, amount, before) ==
            /\ BaselineDays * amount - before >= BaselineDays * MinDelta[BilledIn[a]]
            /\ before > 0 => 200 * BaselineDays * amount >= (200 + 2 * MinIncreasePct - 1) * before
        isReal(a, service, day) ==
            Settled(a, day - BaselineDays, day + 1) =>
                jumps(a, TrueUsageOn(a, service, day), TrueBaseline(a, service, day))
        listed(a) == {x \in DetectAnomalies(Ledger, Question(0, today), "all", {}) : x[1] = a}
        real(a, items) ==
            /\ {<<a, item[1], item[2]>> : item \in items} = listed(a)
            /\ \A item \in items : isReal(a, item[1], item[2])
    IN  \A a \in keys : real(a, EvaluateAllStored(Ledger, a).items)

(* Total, breakdown and trend of one question add up to the same, whatever *)
(* the dimension; an account is explained away exactly when it adds        *)
(* nothing and none of its days is known; the day a collection is said to  *)
(* reach is a confirmed one.                                               *)
ReadersAgree ==
    LET sum(f) == MapThenSumSet(LAMBDA k : f[k], DOMAIN f)
        adds(b, total) == b.total = total /\ sum(b.items) + b.rest + b.unallocated = total
        chartsAdd(q, total) ==
            /\ \A dimension \in {"service", "category", "account", "provider"} :
                adds(Breakdown(Ledger, q, dimension, 1, None), total)
            /\ \A granularity \in {"daily", "weekly", "monthly"} :
                LET points(t) == MapThenSumSet(LAMBDA p : t[p].amount, DOMAIN t)
                IN  points(Trend(Ledger, q, granularity, "service", None)) = total
        totalOf(actual, currency) == IF currency \in DOMAIN actual THEN actual[currency] ELSE 0
        confirmed(a, day) ==
            day >= 0 => BasisOf(Ledger, a, [start |-> day, end |-> day + 1])[day] = CompleteRange
        explained(q, byAccount, excluded) ==
            \A a \in DOMAIN excluded :
                /\ (excluded[a] # None) <=>
                        /\ a \notin DOMAIN byAccount
                        /\ AccountCoverage(Ledger, a, q.start, q.end).covered = 0
                /\ confirmed(a, CollectionStatus(Ledger, a).coveredThrough)
        agree(q, summary) ==
            /\ chartsAdd(q, totalOf(summary.actual, ChartCurrency(Ledger, q, None)))
            /\ sum(summary.byAccount) = sum(summary.actual)
            /\ explained(q, summary.byAccount, summary.excluded)
    IN  \A q \in {MonthToDate, [LastDays(3) EXCEPT !.providers = {"aws"}]} : agree(q, Summary(Ledger, q))
=============================================================================
