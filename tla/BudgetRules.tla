---------------------------- MODULE BudgetRules -----------------------------
(* Team budgets: which of a team's budgets is in effect, the period it     *)
(* counts, and how much of it is used.  A budget is [id, team, type, start,*)
(* end, limit, currency]; end is read only of a custom one.                *)
EXTENDS CostQueries

CONSTANT TeamCurrency       \* [team -> teams.currency]

Forever == MonthStart[Len(MonthLengths) + 1]    \* later than any day counted
Thresholds == {80, 100}
NoBudget == [id |-> 0]

Before(b, c) == b.start < c.start \/ (b.start = c.start /\ b.id < c.id)

RecurringChain(budgets) == {b \in budgets : b.type # "custom"}

(* The next budget of the chain ends this one.                             *)
EffectiveEnd(b, chain) ==
    LET later == {c \in chain : Before(b, c)}
    IN  IF b.type = "custom" THEN b.end
        ELSE IF later = {} THEN Forever ELSE Min({c.start : c \in later})

StateUntil(b, end, day) ==
    IF day < b.start THEN "upcoming" ELSE IF day >= end THEN "ended" ELSE "in_progress"

BudgetState(b, chain, day) == StateUntil(b, EffectiveEnd(b, chain), day)

(* The calendar period of the day looked at, cut to the budget's effect.   *)
BudgetPeriod(b, chain, day) ==
    LET cut(period, end) ==
            [start |-> Max({period.start, b.start}), end |-> Min({period.end, end})]
        anchor(end) == CASE StateUntil(b, end, day) = "upcoming" -> b.start
                         [] StateUntil(b, end, day) = "ended" -> end - 1
                         [] OTHER -> day
        until(end) == cut(CalendarPeriod(b.type, anchor(end)), end)
    IN  IF b.type = "custom" THEN [start |-> b.start, end |-> b.end]
        ELSE until(EffectiveEnd(b, chain))

Latest(budgets) == CHOOSE b \in budgets : \A c \in budgets \ {b} : Before(c, b)
Earliest(budgets) == CHOOSE b \in budgets : \A c \in budgets \ {b} : Before(b, c)

(* A custom budget in progress, then any in progress, the next to come,    *)
(* the last to have ended.                                                 *)
FirstToShow(running, upcoming, ended, endOf) ==
    LET custom == {b \in running : b.type = "custom"}
    IN  IF custom # {} THEN Latest(custom)
        ELSE IF running # {} THEN Latest(running)
        ELSE IF upcoming # {} THEN Earliest(upcoming)
        ELSE IF ended # {}
             THEN CHOOSE b \in ended : \A c \in ended \ {b} :
                    endOf[c] < endOf[b] \/ (endOf[c] = endOf[b] /\ c.id < b.id)
             ELSE NoBudget

SelectStatusBudget(budgets, day) ==
    LET in(state) == {b \in budgets : BudgetState(b, RecurringChain(budgets), day) = state}
    IN  FirstToShow(in("in_progress"), in("upcoming"), in("ended"),
                    [b \in budgets |-> BudgetPeriod(b, RecurringChain(budgets), day).end])

FindActiveRecurring(budgets) ==
    LET chain == RecurringChain(budgets) IN IF chain = {} THEN NoBudget ELSE Latest(chain)

CustomOverlaps(budgets, start, end) ==
    {b \in budgets : b.type = "custom" /\ b.start < end /\ start < b.end}

-----------------------------------------------------------------------------
RatioTenths(num, limit) == RoundHalfEven(1000 * num, limit)   \* tenths of a per cent

TeamUsageThrough(ledger, accounts, currency, start, end) ==     \* changed: the end counts
    Amount({row \in ledger.rows :
                /\ row.account \in accounts /\ row.currency = currency
                /\ row.category = "usage" /\ start <= row.day /\ row.day <= end})

TeamUsage(ledger, accounts, currency, start, end) ==
    Amount({row \in ledger.rows :
                /\ row.account \in accounts /\ row.currency = currency
                /\ row.category = "usage" /\ start <= row.day /\ row.day < end})

TeamAccounts(ledger, team) == {a \in ledger.keys : TeamOf[a] = team}
Supported(accounts) == {a \in accounts : IsCostSupported(Provider[a])}
Included(ledger, accounts, currency) ==
    {a \in Supported(accounts) : AccountCurrency(ledger, a) \in {None, currency}}

(* Why a budget cannot be judged.  What must have been collected ends      *)
(* before today; the coverage is that of its days.                         *)
BudgetReason(budget, state, currency, accounts, coverage, hasDays) ==
    IF accounts = {} THEN "NO_ACCOUNTS"
    ELSE IF Supported(accounts) = {} THEN "UNSUPPORTED"
    ELSE IF budget.currency # currency \/ DOMAIN coverage # Supported(accounts) THEN "CURRENCY_MISMATCH"
    ELSE IF state = "upcoming" THEN None
    ELSE IF ~hasDays THEN "NO_COMPLETED_DAYS"
    ELSE IF UnionMissing(coverage) # {} THEN "MISSING_DAYS"
    ELSE IF \E a \in DOMAIN coverage : ~coverage[a].ready THEN "COVERAGE_UNVERIFIED"
    ELSE None

(* Days so far prorated to the period; a denominator of 0 is no forecast.  *)
BudgetForecast(ledger, included, currency, period, through) ==
    IF through <= period.start THEN [num |-> 0, den |-> 0]
    ELSE [num |-> TeamUsage(ledger, included, currency, period.start, through)
                    * (period.end - period.start),
          den |-> through - period.start]

(* What is used, against the limit; the day itself counts.                 *)
BudgetUsage(budget, state, period, included, amount, forecast) ==
    LET ratio == RatioTenths(amount, budget.limit)
    IN  [computable |-> TRUE, budget |-> budget, state |-> state, period |-> period,
         accounts |-> included, amount |-> amount, ratio |-> ratio,
         crossed |-> {p \in Thresholds : ratio >= 10 * p}, forecast |-> forecast]

(* The state of a team's budget as of a day.                               *)
ComputeBudgetStatus(ledger, budgets, team, referenceDate) ==
    LET today == ledger.today
        day == Min({referenceDate, today})
        currency == TeamCurrency[team]
        answer(budget, state, period, included, reason) ==
            IF reason # None THEN [computable |-> FALSE, reason |-> reason]
            ELSE BudgetUsage(budget, state, period, included,
                    TeamUsage(ledger, included, currency, period.start, Min({period.end, day + 1})),
                    BudgetForecast(ledger, included, currency, period,
                        IF state = "in_progress" /\ day = today THEN Min({today, period.end})
                        ELSE period.start))
        judged(budget, state, period, accounts, included, checkEnd) ==
            answer(budget, state, period, included,
                   BudgetReason(budget, state, currency, accounts,
                                PeriodCoverage(ledger, included, period.start, checkEnd),
                                period.start < checkEnd))
        over(budget, state, period, accounts) ==
            judged(budget, state, period, accounts, Included(ledger, accounts, currency),
                   Min({period.end, day + 1, today}))
        of(budget, chain) ==
            IF budget = NoBudget THEN [computable |-> FALSE, reason |-> "NO_BUDGET"]
            ELSE over(budget, BudgetState(budget, chain, day), BudgetPeriod(budget, chain, day),
                      TeamAccounts(ledger, team))
    IN  of(SelectStatusBudget(budgets, day), RecurringChain(budgets))

(* The thresholds an evaluation announces, each once for a budget and the  *)
(* start of its period.                                                    *)
DueAlerts(ledger, budgets, team, announced) ==
    LET due(status) ==
            IF ~status.computable \/ status.state # "in_progress" THEN {}
            ELSE {[budget |-> status.budget.id, period |-> status.period.start, threshold |-> p] :
                    p \in status.crossed} \ announced
    IN  due(ComputeBudgetStatus(ledger, budgets, team, ledger.today))
=============================================================================
