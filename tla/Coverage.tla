------------------------------ MODULE Coverage ------------------------------
(* Which days of an account are confirmed by its ingestion runs, and on    *)
(* what basis.  A window is [start, end), a run is a record with a window  *)
(* and a basis; the runs come as a sequence in the order they were stored. *)
EXTENDS Integers, SequencesExt

CompleteRange == "complete_range"
ObservedOnly == "observed_only"
AllowedBases == {CompleteRange, ObservedOnly}
Unrecorded == "unrecorded"        \* coverage_basis IS NULL
NotObserved == "not_observed"     \* no entry for the day

LegacyCompleteRangeProviders == {"aws"}

DaysOf(window) == window.start .. window.end - 1

ResolveBasis(raw, provider) ==
    IF raw \in AllowedBases THEN raw
    ELSE IF raw = Unrecorded /\ provider \in LegacyCompleteRangeProviders
         THEN CompleteRange ELSE ObservedOnly

(* One stored run overwrites what was known of the days it covers: the     *)
(* range was replaced, so a day it left without a row is observed no more. *)
ApplyRun(known, run, rowDays, provider) ==
    [d \in DOMAIN known |->
        IF d \notin DaysOf(run.window) THEN known[d]
        ELSE IF ResolveBasis(run.basis, provider) = CompleteRange THEN CompleteRange
        ELSE IF d \in rowDays THEN ObservedOnly ELSE NotObserved]

(* Rows no run reaches are read by the provider's legacy rule.             *)
DayBasisMap(window, rowDays, storedRuns, provider) ==
    LET unknown == [d \in DaysOf(window) |-> NotObserved]
        applied == FoldLeft(LAMBDA known, run : ApplyRun(known, run, rowDays, provider),
                            unknown, storedRuns)
    IN  [d \in DaysOf(window) |->
            IF applied[d] = NotObserved /\ d \in rowDays
            THEN ResolveBasis(Unrecorded, provider) ELSE applied[d]]

CoveredDays(basis) == {d \in DOMAIN basis : basis[d] # NotObserved}
AnalysisReadyDays(basis) == {d \in DOMAIN basis : basis[d] = CompleteRange}
MissingDays(basis) == {d \in DOMAIN basis : basis[d] = NotObserved}

PeriodBasis(basis) ==
    LET bases == {basis[d] : d \in CoveredDays(basis)}
    IN  IF bases = {} THEN NotObserved
        ELSE IF bases = {CompleteRange} THEN CompleteRange ELSE ObservedOnly

(* First day with a row or a successful run; the days are counted from it. *)
FirstDays(rowDays, storedRuns) == rowDays \union {run.window.start : run \in Range(storedRuns)}

SinceFirst(end, rowDays, storedRuns) ==
    [start |-> IF FirstDays(rowDays, storedRuns) = {} THEN end
               ELSE Min(FirstDays(rowDays, storedRuns)),
     end |-> end]
=============================================================================
