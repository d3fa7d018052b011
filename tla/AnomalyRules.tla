---------------------------- MODULE AnomalyRules ----------------------------
(* The daily jump of one account's service against the mean of the days    *)
(* before it, judged only on days whose collection is confirmed.           *)
EXTENDS CostQueries

CONSTANTS
    BaselineDays,       \* length of the baseline
    MinHistoryDays,     \* confirmed days needed up to the day judged
    ExcludeRecentDays,  \* the last days are not judged yet
    MinIncreasePct,
    MinDelta            \* [currency -> least difference], no entry: not judged

ASSUME AnomalyAssumption ==
    /\ BaselineDays \in Nat \ {0} /\ MinHistoryDays \in Nat /\ ExcludeRecentDays \in Nat
    /\ MinIncreasePct \in Nat /\ \A currency \in DOMAIN MinDelta : MinDelta[currency] \in Nat \ {0}

EligibleEnd(today) == today - ExcludeRecentDays

(* Days with a row, or confirmed, from the first one on.                   *)
BasisSinceFirst(ledger, a, end) ==
    BasisOf(ledger, a, SinceFirst(end, DaysWithRows(ledger, a), StoredRuns(ledger, a)))

UsageOn(ledger, a, service, day) ==
    Amount({row \in ledger.rows :
                /\ row.account = a /\ row.service = service /\ row.day = day
                /\ row.category = "usage" /\ row.currency = AccountCurrency(ledger, a)})

Window(day) == day - BaselineDays .. day - 1
BaselineSum(ledger, a, service, day) ==
    MapThenSumSet(LAMBDA d : UsageOn(ledger, a, service, d), Window(day))

(* BaselineDays times the difference keeps to integers.                    *)
Jumps(delta, baseline, currency) ==
    /\ delta >= BaselineDays * MinDelta[currency]
    /\ baseline = 0 \/ RoundHalfEven(1000 * delta, baseline) >= 10 * MinIncreasePct

IsJump(ledger, a, service, day) ==
    LET against(baseline) ==
            Jumps(BaselineDays * UsageOn(ledger, a, service, day) - baseline, baseline,
                  AccountCurrency(ledger, a))
    IN  against(BaselineSum(ledger, a, service, day))

HeldForItself(basis, day) ==    \* changed: only the day judged must be confirmed
    IF Cardinality({d \in AnalysisReadyDays(basis) : d <= day}) < MinHistoryDays THEN "too_early"
    ELSE IF day \in AnalysisReadyDays(basis) THEN None ELSE "day_not_collected"

(* What a day's judgement waits for; None when it is judged.               *)
HeldReason(basis, day) ==
    LET confirmed == AnalysisReadyDays(basis)
        observed == CoveredDays(basis)
        history(days) == Cardinality({d \in days : d <= day})
    IN  IF history(confirmed) < MinHistoryDays
        THEN IF history(observed) >= MinHistoryDays THEN "coverage_unverified" ELSE "too_early"
        ELSE IF day \notin confirmed
        THEN IF day \in observed THEN "coverage_unverified" ELSE "day_not_collected"
        ELSE IF Window(day) \subseteq confirmed THEN None
        ELSE IF Window(day) \subseteq observed THEN "coverage_unverified" ELSE "baseline_incomplete"

(* The jumps and the held days, the reasons of every day given.            *)
JudgeDays(ledger, a, reasons, last) ==
    LET services == {row.service : row \in {r \in ledger.rows : r.account = a}}
        verdict(items, held) ==
            [verdict |-> IF items = {} /\ held = {} /\ reasons[last] = "too_early"
                         THEN "insufficient_history" ELSE "evaluated",
             items |-> items, held |-> held]
    IN  verdict({item \in services \X {d \in DOMAIN reasons : reasons[d] = None} :
                    IsJump(ledger, a, item[1], item[2])},
                {d \in DOMAIN reasons : reasons[d] \notin {None, "too_early"}})

(* The verdict on [start, end), or why there is none.                      *)
EvaluateAccount(ledger, a, start, end) ==
    LET without(verdict) == [verdict |-> verdict, items |-> {}, held |-> {}]
        judge(basis) == JudgeDays(ledger, a, [d \in start .. end - 1 |-> HeldReason(basis, d)], end - 1)
        in(currency) ==
            IF currency = None THEN without("insufficient_history")
            ELSE IF currency \notin DOMAIN MinDelta THEN without("unsupported_currency")
            ELSE judge(BasisSinceFirst(ledger, a, end))
    IN  IF end <= start THEN without("nothing") ELSE in(AccountCurrency(ledger, a))

(* Every judgeable day of what is stored.                                  *)
EvaluateAllStored(ledger, a) ==
    LET end == EligibleEnd(ledger.today)
        since(days) == IF days = {} THEN [verdict |-> "nothing", items |-> {}, held |-> {}]
                       ELSE EvaluateAccount(ledger, a, Min(days), end)
        from(basis) == since(IF AnalysisReadyDays(basis) # {} THEN AnalysisReadyDays(basis)
                             ELSE CoveredDays(basis))
    IN  from(BasisSinceFirst(ledger, a, end))

(* The jumps of the accounts in a period that a listing of a status shows; *)
(* resolved are the source keys a user has settled.                        *)
DetectAnomalies(ledger, q, status, resolved) ==
    LET end == Min({q.end, EligibleEnd(ledger.today)})
        found == UNION {{<<a, item[1], item[2]>> : item \in EvaluateAccount(ledger, a, q.start, end).items} :
                            a \in {b \in OwnedAccounts(ledger, q) : IsCostSupported(Provider[b])}}
    IN  CASE status = "open" -> found \ resolved
          [] status = "resolved" -> found \intersect resolved
          [] status = "all" -> found
=============================================================================
