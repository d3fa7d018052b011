---------------------------- MODULE CostQueries -----------------------------
(* The readers of the collected costs: totals, coverage, the forecast of   *)
(* the month, the comparison with the period before, breakdown and trend.  *)
(* A query is [start, end, providers, accounts, currency, categories];     *)
(* providers, accounts or categories left empty do not filter, nor does    *)
(* the currency None.                                                      *)
EXTENDS CostGates, Calendar

MaxPeriodDays == 366
NoAccount == 0              \* matches no account (EMPTY_SCOPE_IDS)
Unallocated == "__unallocated__"
Unassigned == "unassigned"

(* The accounts of the named teams, Unassigned standing for those of none, *)
(* within the accounts asked for.                                          *)
ResolveTeamScope(ledger, teams, accounts) ==
    LET scoped == {a \in ledger.keys :
                    /\ TeamOf[a] \in teams \/ (TeamOf[a] = NoTeam /\ Unassigned \in teams)
                    /\ accounts = {} \/ a \in accounts}
    IN  IF scoped = {} THEN {NoAccount} ELSE scoped

DefaultPeriod(today) == [start |-> FirstOfMonth(today), end |-> today + 1]
ValidPeriod(start, end) == start < end /\ end - start <= MaxPeriodDays

OwnedAccounts(ledger, q) ==
    {a \in ledger.keys : /\ q.providers = {} \/ Provider[a] \in q.providers
                         /\ q.accounts = {} \/ a \in q.accounts}

(* num / den rounded to an integer, halves to the even neighbour (the       *)
(* rounding of Decimal.quantize).                                          *)
RoundHalfEven(num, den) ==
    LET floor == num \div den
        rest == 2 * (num % den)
    IN  IF rest < den \/ (rest = den /\ floor % 2 = 0) THEN floor ELSE floor + 1

Amount(rows) == MapThenSumSet(LAMBDA row : row.amount, rows)
Currencies(rows) == {row.currency : row \in rows}

(* The rows a query is about, up to an end of its own.                     *)
RowsIn(ledger, q, categories, end) ==
    {row \in ledger.rows :
        /\ row.account \in OwnedAccounts(ledger, q)
        /\ q.start <= row.day /\ row.day < end
        /\ q.currency = None \/ row.currency = q.currency
        /\ categories = {} \/ row.category \in categories}

SumByCurrency(ledger, q, categories, end) ==
    LET rows == RowsIn(ledger, q, categories, end)
    IN  [c \in Currencies(rows) |-> Amount({row \in rows : row.currency = c})]

SumByAnyAccount(ledger, q) ==   \* changed: the provider filter is forgotten
    LET rows == RowsIn(ledger, [q EXCEPT !.providers = {}], q.categories, q.end)
    IN  [a \in {row.account : row \in rows} |-> Amount({row \in rows : row.account = a})]

SumByAccount(ledger, q) ==
    LET rows == RowsIn(ledger, q, q.categories, q.end)
    IN  [a \in {row.account : row \in rows} |-> Amount({row \in rows : row.account = a})]

AccountsCurrencyMap(ledger, accounts) ==
    [a \in {b \in accounts : AccountCurrency(ledger, b) # None} |-> AccountCurrency(ledger, a)]

(* The currency asked for, or the one most accounts are billed in (of two, *)
(* the one met first).                                                     *)
PickCurrency(currencyOf, requested) ==
    LET share(c) == Cardinality({a \in DOMAIN currencyOf : currencyOf[a] = c})
        first(c) == Min({a \in DOMAIN currencyOf : currencyOf[a] = c})
        known == Range(currencyOf)
    IN  IF known = {} THEN None
        ELSE IF requested # None THEN requested
        ELSE CHOOSE c \in known : \A d \in known \ {c} :
                share(c) > share(d) \/ (share(c) = share(d) /\ first(c) < first(d))

-----------------------------------------------------------------------------
StoredRuns(ledger, a) == LastSuccess(ledger, a)
DaysWithRows(ledger, a) == {row.day : row \in {r \in ledger.rows : r.account = a}}

BasisOf(ledger, a, window) ==
    DayBasisMap(window, DaysWithRows(ledger, a), StoredRuns(ledger, a), Provider[a])

CoverageOf(basis) ==
    [days |-> Cardinality(DOMAIN basis),
     covered |-> Cardinality(CoveredDays(basis)),
     missing |-> MissingDays(basis),
     ready |-> PeriodBasis(basis) = CompleteRange /\ MissingDays(basis) = {}]

(* The days of [start, end) that are over, and what is known of them.      *)
AccountCoverage(ledger, a, start, end) ==
    CoverageOf(BasisOf(ledger, a, [start |-> start, end |-> Min({end, ledger.today})]))

(* Left out for a currency known to be another one than asked for.         *)
CurrencyExcluded(ledger, q) ==
    {a \in OwnedAccounts(ledger, q) :
        q.currency # None /\ AccountCurrency(ledger, a) \notin {None, q.currency}}

EvaluableAccounts(ledger, q) ==
    {a \in OwnedAccounts(ledger, q) \ CurrencyExcluded(ledger, q) : IsCostSupported(Provider[a])}

KeptIfCollected(accounts, coverages) ==     \* changed: whatever was not collected is left out
    {a \in accounts : \E coverage \in coverages : coverage[a].covered > 0}

(* Accounts nothing collects and of which no window has a day: they are    *)
(* named in the answer and do not hold it up.                              *)
KeptAccounts(accounts, coverages) ==
    {a \in accounts : (\E coverage \in coverages : coverage[a].covered > 0) \/ IngestEnabled(a)}

PeriodCoverage(ledger, accounts, start, end) ==
    [a \in accounts |-> AccountCoverage(ledger, a, start, end)]

UnionMissing(coverage) == UNION {coverage[a].missing : a \in DOMAIN coverage}

QueryMissingDays(ledger, q, currency) ==
    LET scoped == [q EXCEPT !.currency = IF currency = None THEN q.currency ELSE currency]
    IN  UnionMissing(PeriodCoverage(ledger, EvaluableAccounts(ledger, scoped), q.start, q.end))

(* Missing days come before a weak basis in the order of the reasons.      *)
ForecastState(ledger, q, accounts, coverage, amounts) ==
    LET today == ledger.today
        monthStart == FirstOfMonth(today)
    IN  IF q.start # monthStart \/ q.end \notin {today, today + 1} THEN "not_current_month"
        ELSE IF today = monthStart THEN "first_day"
        ELSE IF accounts = {} THEN "no_accounts"
        ELSE IF \E a \in accounts : coverage[a].missing # {} THEN "insufficient_coverage"
        ELSE IF \E a \in accounts : ~coverage[a].ready THEN "coverage_unverified"
        ELSE IF DOMAIN amounts = {} THEN "currency_unknown"
        ELSE "computed"

(* Without rows the amount is a confirmed zero in the currency asked for,  *)
(* or in those known.                                                      *)
AmountsOrZero(q, sums, known) ==
    IF DOMAIN sums # {} THEN sums
    ELSE [c \in IF q.currency = None THEN known
                ELSE IF q.currency \in known \/ known = {} THEN {q.currency} ELSE {} |-> 0]

(* Elapsed days prorated to the length of the month, as a fraction.        *)
Prorated(state, accounts, amounts, today) ==
    [state |-> state,
     accounts |-> accounts,
     amounts |-> IF state # "computed" THEN <<>>
                 ELSE [c \in DOMAIN amounts |-> [num |-> amounts[c] * DaysInMonth(today),
                                                 den |-> DayOfMonth(today) - 1]]]

ForecastOver(ledger, q, accounts, coverage, amounts) ==
    Prorated(ForecastState(ledger, q, accounts, coverage, amounts), accounts, amounts, ledger.today)

ForecastWith(ledger, q, accounts, coverage) ==
    ForecastOver(ledger, q, accounts, coverage,
                 AmountsOrZero(q, SumByCurrency(ledger, q, q.categories, ledger.today),
                               Range(AccountsCurrencyMap(ledger, accounts))))

(* Cost of the current month, over the accounts that hold it up.           *)
ForecastMonthEnd(ledger, q) ==
    LET over(targets, coverage) ==
            ForecastWith(ledger, q, KeptAccounts(targets, {coverage}), coverage)
        collected(targets) ==
            over(targets, PeriodCoverage(ledger, targets, FirstOfMonth(ledger.today), ledger.today))
    IN  collected(EvaluableAccounts(ledger, q))

-----------------------------------------------------------------------------
CategoryFor(provider, service) ==
    IF provider # "aws" THEN None
    ELSE CASE service = "AmazonEC2" -> "compute" [] service = "AmazonS3" -> "storage_object"
           [] OTHER -> None

(* Key of a row under a dimension; rows without one are the unallocated.   *)
BreakdownKey(dimension, row) ==
    CASE dimension = "service" -> IF row.service = None THEN Unallocated ELSE row.service
      [] dimension = "category" ->
            LET category == CategoryFor(Provider[row.account], row.service)
            IN  IF category = None THEN Unallocated ELSE category
      [] dimension = "account" -> ToString(row.account)
      [] dimension = "team" -> Unassigned
      [] OTHER -> Provider[row.account]

(* The topN largest of the buckets, the rest and what has no key.          *)
Shares(currency, buckets, unallocated, topN) ==
    LET keys == DOMAIN buckets
        top == CHOOSE T \in SUBSET keys :
                /\ Cardinality(T) = Min({topN, Cardinality(keys)})
                /\ \A k \in T, l \in keys \ T : buckets[k] >= buckets[l]
        sum(some) == MapThenSumSet(LAMBDA k : buckets[k], some)
    IN  [currency |-> currency, total |-> sum(keys) + unallocated,
         items |-> [k \in top |-> buckets[k]], rest |-> sum(keys \ top),
         unallocated |-> unallocated]

(* The currency and the rows of the owned accounts a chart is drawn from.  *)
ChartCurrency(ledger, q, requested) ==
    PickCurrency(AccountsCurrencyMap(ledger, OwnedAccounts(ledger, q)), requested)

ChartRows(ledger, q, currency, categories) ==
    IF currency = None THEN {}
    ELSE RowsIn(ledger, [q EXCEPT !.currency = currency], categories, q.end)

(* Usage of one currency by key.                                           *)
Breakdown(ledger, q, dimension, topN, requested) ==
    LET of(currency, rows) ==
            Shares(currency,
                   [k \in {BreakdownKey(dimension, row) : row \in rows} \ {Unallocated} |->
                        Amount({row \in rows : BreakdownKey(dimension, row) = k})],
                   Amount({row \in rows : BreakdownKey(dimension, row) = Unallocated}), topN)
        in(currency) == of(currency, ChartRows(ledger, q, currency, {"usage"}))
    IN  in(ChartCurrency(ledger, q, requested))

(* The window the current one is compared with.                            *)
PreviousWindow(q, compare) ==
    IF compare = "previous_month"
    THEN [start |-> ShiftOneMonthBack(q.start), end |-> ShiftOneMonthBack(q.end)]
    ELSE [start |-> q.start - (q.end - q.start), end |-> q.start]

(* Every reason two windows cannot be set against each other.              *)
Incomparable(ledger, q, prev, chosen, kept, now, before) ==
    LET covered(coverage) == \A a \in kept : coverage[a].missing = {}
        ready == \A a \in kept : now[a].ready /\ before[a].ready
        reason(name, holds) == IF holds THEN {name} ELSE {}
    IN  UNION {reason("LENGTH_MISMATCH", prev.end - prev.start # q.end - q.start),
               reason("INCOMPLETE_PERIOD", q.end > ledger.today),
               reason("NO_ACCOUNTS", kept = {}),
               reason("CURRENT_COVERAGE", kept # {} /\ ~covered(now)),
               reason("PREVIOUS_COVERAGE", kept # {} /\ ~covered(before)),
               reason("COVERAGE_UNVERIFIED",
                      kept # {} /\ covered(now) /\ covered(before) /\ ~ready),
               reason("NO_CURRENCY", chosen = None)}

UsageIn(ledger, q, window, currency) ==
    IF currency = None THEN 0
    ELSE Amount(RowsIn(ledger, [q EXCEPT !.start = window.start, !.currency = currency],
                       {"usage"}, window.end))

(* Usage of the window of a query and of the one it is compared with.      *)
Changes(ledger, q, compare, requested) ==
    LET answer(prev, chosen, kept, now, before) ==
            [reasons |-> Incomparable(ledger, q, prev, chosen, kept, now, before),
             currency |-> chosen, accounts |-> kept,
             current |-> UsageIn(ledger, q, q, chosen),
             previous |-> UsageIn(ledger, q, prev, chosen)]
        keeping(prev, targets, now, before) ==
            answer(prev,
                   PickCurrency(AccountsCurrencyMap(ledger, targets),
                                IF requested = None THEN q.currency ELSE requested),
                   KeptAccounts(targets, {now, before}), now, before)
        against(prev, targets) ==
            keeping(prev, targets, PeriodCoverage(ledger, targets, q.start, q.end),
                    PeriodCoverage(ledger, targets, prev.start, prev.end))
    IN  against(PreviousWindow(q, compare), EvaluableAccounts(ledger, q))

GroupKey(groupBy, row) ==
    CASE groupBy = "account" -> ToString(row.account)
      [] groupBy = "service" -> IF row.service = None THEN "unallocated" ELSE row.service
      [] OTHER -> Provider[row.account]

(* Amounts of one currency by key and calendar bucket.  (The answer names  *)
(* ChartCurrency and QueryMissingDays beside them.)                        *)
Trend(ledger, q, granularity, groupBy, requested) ==
    LET place(row) == <<GroupKey(groupBy, row), BucketStart(granularity, row.day)>>
        of(rows) ==
            [p \in {place(row) : row \in rows} |->
                [end |-> BucketEnd(granularity, p[2]),
                 amount |-> Amount({row \in rows : place(row) = p})]]
        in(currency) == of(ChartRows(ledger, q, currency, q.categories))
    IN  in(ChartCurrency(ledger, q, requested))

-----------------------------------------------------------------------------
DataStatuses == {"CONNECTED_OK", "CONNECTED_EMPTY", "CONNECTED_PARTIAL"}

(* Why an account adds nothing to the total, one reason each.              *)
ExclusionReason(ledger, q, a) ==
    LET status == AccountCapability(ledger, a).status
    IN  IF ~IsCostSupported(Provider[a]) THEN "UNSUPPORTED"
        ELSE IF a \in CurrencyExcluded(ledger, q) THEN "CURRENCY_FILTERED"
        ELSE IF a \in DOMAIN SumByAccount(ledger, q) THEN None
        ELSE IF AccountCoverage(ledger, a, q.start, q.end).covered > 0 THEN None
        ELSE IF status \in DataStatuses THEN "PERIOD_NOT_COVERED" ELSE status

Summary(ledger, q) ==
    [actual |-> SumByCurrency(ledger, q, q.categories, q.end),
     net |-> SumByCurrency(ledger, q, {"usage", "credit", "refund", "tax", "other"}, q.end),
     byAccount |-> SumByAccount(ledger, q),
     forecast |-> ForecastMonthEnd(ledger, q),
     excluded |-> [a \in OwnedAccounts(ledger, q) |-> ExclusionReason(ledger, q, a)],
     missing |-> QueryMissingDays(ledger, q, None)]

(* The last day the last success vouches for, and the run that limits the  *)
(* next manual one.                                                        *)
CollectionStatus(ledger, a) ==
    LET done == LastSuccess(ledger, a)
        last == Last(done)
    IN  [coveredThrough |->
            IF done = <<>> \/ ResolveBasis(last.basis, Provider[a]) # CompleteRange THEN -1
            ELSE last.window.end - 1,
         limitedBy |-> IF done = <<>> \/ last.trigger # "manual" THEN 0 ELSE last.id]
=============================================================================
