-------------------------- MODULE CostLedgerProofs --------------------------
(***************************************************************************)
(* What the answers about costs are worth, for any accounts, charges,      *)
(* windows, budgets and calendar.  The inductive invariant says what the   *)
(* stored rows are: of a day, exactly what the last successful run that    *)
(* asked for it was told, and nothing where no run asked.  So a day that   *)
(* was collected once it was over is stored as it was billed, and a sum of *)
(* rows is a sum of charges: forecasts, comparisons, budgets and anomalies *)
(* follow from the days the code itself knows to be confirmed.             *)
(***************************************************************************)
EXTENDS CostLedger, CostLemmas

(***************************************************************************)
(* Sums of amounts                                                         *)
(***************************************************************************)

(* The sum of the amounts of a set of records is such a total.             *)
Amounts(S) == [x \in S |-> x.amount]

LEMMA AmountIsTotal ==
  ASSUME NEW S, IsFiniteSet(S)
  PROVE  Amount(S) = Total(Amounts(S), S)
<1> DEFINE Folds(h) ==
             h = [s \in SUBSET S |->
                    IF s = {} THEN 0
                    ELSE (CHOOSE x \in s : TRUE).amount
                            + h[s \ {CHOOSE x \in s : TRUE}]]
<1>1. Amount(S) = (CHOOSE h : Folds(h))[S]
  BY Zenon DEF Amount, MapThenSumSet, MapThenFoldSet
<1>2. ASSUME NEW h PROVE Folds(h) <=> Adding(h, Amounts(S), S)
  <2>1. \A s \in SUBSET S : s # {} =>
          Amounts(S)[Pick(s)] = (CHOOSE x \in s : TRUE).amount
    BY Picked DEF Amounts, Pick
  <2>2. QED
    BY <2>1 DEF Adding, Pick
<1> HIDE DEF Folds
<1>3. Adding(CHOOSE h : Folds(h), Amounts(S), S)
  <2>1. PICK h : Adding(h, Amounts(S), S)
    BY AddingExists
  <2>2. Folds(h)
    BY <1>2, <2>1
  <2>3. Folds(CHOOSE k : Folds(k))
    BY <2>2
  <2>4. QED
    BY <1>2, <2>3
<1>4. QED
  BY <1>1, <1>3, TotalAdds

(***************************************************************************)
(* The calendar                                                            *)
(***************************************************************************)

(* The months follow each other from day 0 on.                             *)
LEMMA MonthStarts ==
  /\ MonthStart[1] = 0
  /\ \A m \in 1 .. Len(MonthLengths) + 1 : MonthStart[m] \in Int
  /\ \A m \in Months :
        /\ MonthLengths[m] \in Nat \ {0}
        /\ MonthStart[m + 1] = MonthStart[m] + MonthLengths[m]
<1> DEFINE L == Len(MonthLengths)
<1>1. /\ MonthLengths \in Seq(Nat \ {0}) /\ L \in Nat /\ Months = 1 .. L
      /\ \A m \in 1 .. L : MonthLengths[m] \in Nat \ {0}
  BY MonthLengthsAssumption DEF Months
<1>2. ASSUME NEW m \in 1 .. L + 1
      PROVE  MonthStart[m] = Total(MonthLengths, 1 .. m - 1)
  <2> DEFINE list == SubSeq(MonthLengths, 1, m - 1)
  <2>1. /\ m - 1 \in Nat /\ DOMAIN list = 1 .. m - 1
        /\ \A i \in 1 .. m - 1 : list[i] = MonthLengths[i]
                                  /\ list[i] \in Int
    BY <1>1
  <2>2. MonthStart[m] = FoldLeft(LAMBDA a, b : a + b, 0, list)
    BY DEF MonthStart
  <2> HIDE DEF list
  <2>3. MonthStart[m] = Total(list, 1 .. m - 1)
    BY <2>1, <2>2, FoldIsTotal
  <2>4. Total(list, 1 .. m - 1) = Total(MonthLengths, 1 .. m - 1)
    <3>1. IsFiniteSet(1 .. m - 1)
      BY <2>1, FS_Interval
    <3>2. QED
      BY <2>1, <3>1, TotalSame
  <2>5. QED
    BY <2>3, <2>4
<1>3. MonthStart[1] = 0
  <2>1. 1 \in 1 .. L + 1 /\ 1 .. 1 - 1 = {}
    BY <1>1
  <2>2. QED
    BY <1>2, <2>1, TotalOfNone
<1>4. ASSUME NEW m \in 1 .. L + 1 PROVE MonthStart[m] \in Int
  <2>1. m - 1 \in Int /\ \A i \in 1 .. m - 1 : MonthLengths[i] \in Int
    BY <1>1
  <2>2. IsFiniteSet(1 .. m - 1)
    BY <2>1, FS_Interval
  <2>3. QED
    BY <1>2, <2>1, <2>2, TotalTyped
<1>5. ASSUME NEW m \in 1 .. L
      PROVE  MonthStart[m + 1] = MonthStart[m] + MonthLengths[m]
  <2>1. /\ m + 1 \in 1 .. L + 1 /\ m \in 1 .. L + 1 /\ m + 1 - 1 = m
        /\ m \in 1 .. m /\ (1 .. m) \ {m} = 1 .. m - 1
        /\ \A i \in 1 .. m : MonthLengths[i] \in Int
    BY <1>1
  <2>2. IsFiniteSet(1 .. m)
    BY <2>1, FS_Interval
  <2>3. Total(MonthLengths, 1 .. m)
          = MonthLengths[m] + Total(MonthLengths, 1 .. m - 1)
    BY <2>1, <2>2, TotalLessOne
  <2>4. /\ MonthStart[m + 1] = Total(MonthLengths, 1 .. m)
        /\ MonthStart[m] = Total(MonthLengths, 1 .. m - 1)
    BY <1>2, <2>1
  <2>5. MonthStart[m] \in Int /\ MonthLengths[m] \in Int
    BY <1>4, <2>1
  <2>6. QED
    BY <2>3, <2>4, <2>5
<1> HIDE DEF L
<1>6. QED
  BY <1>1, <1>3, <1>4, <1>5 DEF L

(* Every day the model counts lies in a month.                             *)
LEMMA MonthOfDay ==
  ASSUME NEW day \in 0 .. LastDay
  PROVE  /\ Month(day) \in Months
         /\ MonthStart[Month(day)] <= day /\ day < MonthStart[Month(day) + 1]
         /\ FirstOfMonth(day) \in Int /\ FirstOfMonth(day) <= day
<1> DEFINE L == Len(MonthLengths)
           After == {m \in 1 .. L + 1 : day < MonthStart[m]}
<1>1. L \in Nat /\ Months = 1 .. L /\ LastDay \in Nat /\ day \in Nat
  BY MonthLengthsAssumption, LedgerAssumption DEF Months
<1>2. L + 1 \in After
  <2>1. L + 1 \in 1 .. L + 1 /\ MonthStart[L + 1] \in Int
    BY <1>1, MonthStarts
  <2>2. LastDay < MonthStart[L + 1]
    BY LedgerAssumption
  <2>3. QED
    BY <1>1, <2>1, <2>2
<1>3. PICK m \in After : \A k \in After : m <= k
  <2>1. After \in SUBSET Nat /\ After # {}
    BY <1>1, <1>2
  <2> HIDE DEF After
  <2>2. QED
    BY <2>1, LeastNumber
<1>4. /\ m - 1 \in 1 .. L + 1 /\ m - 1 \in Months /\ m - 1 \notin After
      /\ day < MonthStart[m] /\ m - 1 + 1 = m
  <2>1. m # 1
    BY <1>1, <1>3, MonthStarts
  <2>2. m \in 1 .. L + 1 /\ day < MonthStart[m]
    BY <1>3
  <2>3. m - 1 \notin After
    <3>1. ~(m <= m - 1)
      BY <1>1, <2>2
    <3> HIDE DEF After
    <3>2. QED
      BY <1>3, <3>1
  <2>4. QED
    BY <1>1, <2>1, <2>2, <2>3
<1>5. MonthStart[m - 1] <= day
  <2>1. MonthStart[m - 1] \in Int
    BY <1>4, MonthStarts
  <2>2. QED
    BY <1>1, <1>4, <2>1
<1>6. /\ Month(day) \in Months /\ MonthStart[Month(day)] <= day
      /\ day < MonthStart[Month(day) + 1]
  <2>1. \E k \in Months : MonthStart[k] <= day /\ day < MonthStart[k + 1]
    BY <1>4, <1>5
  <2>2. QED
    BY <2>1 DEF Month
<1>7. FirstOfMonth(day) \in Int
  <2>1. Month(day) \in 1 .. L + 1
    BY <1>1, <1>6
  <2>2. QED
    BY <2>1, MonthStarts DEF FirstOfMonth
<1>8. QED
  BY <1>6, <1>7 DEF FirstOfMonth

(***************************************************************************)
(* What the stored rows and runs say of each other                         *)
(***************************************************************************)

Windows == [start : Int, end : Int]
Bases == {CompleteRange, ObservedOnly, Unrecorded}
RunRecords ==
    [id : Nat, account : Accounts, window : Windows,
     trigger : {"manual", "auto"},
     status : {"success"} \union {o.status : o \in Outcomes},
     error : {None} \union {o.error : o \in Outcomes},
     at : 0 .. LastDay, basis : Bases]

(* The successful runs that asked for a day of an account.                 *)
Covering(a, d) ==
    {i \in DOMAIN runs : /\ runs[i].account = a /\ runs[i].status = "success"
                         /\ d \in DaysOf(runs[i].window)}
LatestOf(i, T) == i \in T /\ \A j \in T : j <= i

(* What the provider tells of a day when it is asked on a day at.          *)
Seen(a, d, at) ==
    IF d \in ChargedDays(a) /\ d <= at
    THEN {c \in Charge[a][d] : d < at \/ c.service \in EarlyServices} ELSE {}
RowOf(a, d, c, id) ==
    [account |-> a, day |-> d, service |-> c.service, category |-> c.category,
     currency |-> BilledIn[a], amount |-> c.amount, asOf |-> id]
DayAnswer(a, d, at, id) == {RowOf(a, d, c, id) : c \in Seen(a, d, at)}
DayRows(a, d) == {row \in rows : row.account = a /\ row.day = d}

RunFits(i) ==
    /\ runs[i].id = i /\ runs[i].at <= today
    /\ runs[i].window.start < runs[i].window.end
    /\ IsCostSupported(Provider[runs[i].account])
    /\ IngestEnabled(runs[i].account)
    /\ runs[i].status = "success" =>
         runs[i].basis = ResolveBasis(AdapterBasis(runs[i].account),
                                      Provider[runs[i].account])

(* The rows of a day are exactly what the last successful run that asked   *)
(* for it was told, and there are none of a day no such run asked for.     *)
DayFits(a, d) ==
    /\ Covering(a, d) = {} => DayRows(a, d) = {}
    /\ \A i \in DOMAIN runs : LatestOf(i, Covering(a, d)) =>
          DayRows(a, d) = DayAnswer(a, d, runs[i].at, i)

LedgerInv ==
    /\ today \in 0 .. LastDay /\ keys \subseteq Accounts
    /\ runs \in Seq(RunRecords)
    /\ \A i \in DOMAIN runs : RunFits(i)
    /\ IsFiniteSet(rows)
    /\ \A row \in rows : row.account \in Accounts /\ row.day \in Nat
    /\ \A a \in Accounts, d \in Int : DayFits(a, d)

LEMMA SeenIsCharged ==
  ASSUME NEW a \in Accounts, NEW d, NEW at
  PROVE  /\ IsFiniteSet(Seen(a, d, at))
         /\ \A c \in Seen(a, d, at) :
              d \in ChargedDays(a) /\ d \in Nat /\ c \in Charge[a][d]
<1>1. CASE d \in ChargedDays(a)
  <2>1. IsFiniteSet(Charge[a][d]) /\ d \in Nat
    BY <1>1, ChargeAssumption DEF ChargedDays
  <2>2. Seen(a, d, at) \subseteq Charge[a][d]
    BY DEF Seen
  <2>3. QED
    BY <1>1, <2>1, <2>2, FS_Subset
<1>2. CASE d \notin ChargedDays(a)
  BY <1>2, FS_EmptySet DEF Seen
<1>3. QED
  BY <1>1, <1>2

(* An answer is the one of each of its days.                               *)
LEMMA AnswerRows ==
  ASSUME NEW a \in Accounts, NEW window, NEW id, today \in Nat
  PROVE  Answer(a, window, id)
            = UNION {DayAnswer(a, d, today, id) : d \in DaysOf(window)}
<1>1. ASSUME NEW row \in Answer(a, window, id)
      PROVE  \E d \in DaysOf(window) : row \in DayAnswer(a, d, today, id)
  <2>1. PICK d \in DaysOf(window) \intersect ChargedDays(a)
                     \intersect 0 .. today :
          \E c \in {x \in Charge[a][d] : d < today
                                          \/ x.service \in EarlyServices} :
            row = RowOf(a, d, c, id)
    BY <1>1 DEF Answer, RowOf
  <2>2. d \in ChargedDays(a) /\ d <= today
    BY <2>1
  <2>3. row \in DayAnswer(a, d, today, id)
    BY <2>1, <2>2 DEF DayAnswer, Seen
  <2>4. QED
    BY <2>1, <2>3
<1>2. ASSUME NEW d \in DaysOf(window), NEW row \in DayAnswer(a, d, today, id)
      PROVE  row \in Answer(a, window, id)
  <2>1. PICK c \in Seen(a, d, today) : row = RowOf(a, d, c, id)
    BY <1>2 DEF DayAnswer
  <2>2. d \in ChargedDays(a) /\ d <= today /\ d \in Nat
        /\ c \in {x \in Charge[a][d] : d < today
                                          \/ x.service \in EarlyServices}
    BY <2>1, SeenIsCharged DEF Seen
  <2>3. d \in 0 .. today
    BY <2>2
  <2>4. QED
    BY <2>1, <2>2, <2>3 DEF Answer, RowOf
<1>3. QED
  BY <1>1, <1>2

LEMMA AnswerIsFinite ==
  ASSUME NEW a \in Accounts, NEW window \in Windows, NEW id, today \in Nat
  PROVE  IsFiniteSet(Answer(a, window, id))
<1>1. IsFiniteSet(DaysOf(window))
  <2>1. window.start \in Int /\ window.end - 1 \in Int
    BY DEF Windows
  <2>2. QED
    BY <2>1, FS_Interval DEF DaysOf
<1>2. ASSUME NEW d PROVE IsFiniteSet(DayAnswer(a, d, today, id))
  <2>1. IsFiniteSet(Seen(a, d, today))
    BY SeenIsCharged
  <2> DEFINE f == [c \in Seen(a, d, today) |-> RowOf(a, d, c, id)]
             T == DayAnswer(a, d, today, id)
  <2>2. f \in Surjection(Seen(a, d, today), T)
    BY DEF Surjection, DayAnswer
  <2> HIDE DEF f, T
  <2>3. IsFiniteSet(T)
    BY <2>1, <2>2, FS_Surjection
  <2>4. QED
    BY <2>3 DEF T
<1> DEFINE D == DaysOf(window)
           F == [d \in D |-> DayAnswer(a, d, today, id)]
           A == {DayAnswer(a, d, today, id) : d \in D}
<1>3. F \in Surjection(D, A) /\ \A T \in A : IsFiniteSet(T)
  BY <1>2 DEF Surjection
<1>4. Answer(a, window, id) = UNION A
  BY AnswerRows
<1> HIDE DEF F, A, D
<1>5. IsFiniteSet(A)
  BY <1>1, <1>3, FS_Surjection DEF D
<1>6. IsFiniteSet(UNION A)
  BY <1>3, <1>5, FS_UNION
<1>7. QED
  BY <1>4, <1>6

(* A run is appended behind the others.                                    *)
LEMMA RunAppended ==
  ASSUME NEW run \in RunRecords, runs \in Seq(RunRecords),
         runs' = Append(runs, run)
  PROVE  /\ runs' \in Seq(RunRecords)
         /\ Len(runs) + 1 \in Nat /\ DOMAIN runs = 1 .. Len(runs)
         /\ DOMAIN runs' = DOMAIN runs \union {Len(runs) + 1}
         /\ Len(runs) + 1 \notin DOMAIN runs
         /\ \A i \in DOMAIN runs : runs'[i] = runs[i] /\ i < Len(runs) + 1
         /\ runs'[Len(runs) + 1] = run
<1>1. /\ Len(runs) \in Nat /\ DOMAIN runs = 1 .. Len(runs)
      /\ runs' \in Seq(RunRecords) /\ Len(runs') = Len(runs) + 1
      /\ DOMAIN runs' = 1 .. Len(runs) + 1
  OBVIOUS
<1>2. \A i \in 1 .. Len(runs) : runs'[i] = runs[i]
  OBVIOUS
<1>3. runs'[Len(runs) + 1] = run
  OBVIOUS
<1>4. QED
  BY <1>1, <1>2, <1>3

(* What was known of a day stays known while neither its rows nor the runs *)
(* that cover it change.                                                   *)
LEMMA DayKept ==
  ASSUME NEW a \in Accounts, NEW d \in Int, DayFits(a, d),
         Covering(a, d)' = Covering(a, d), DayRows(a, d)' = DayRows(a, d),
         \A i \in DOMAIN runs : i \in DOMAIN runs' /\ runs'[i] = runs[i]
  PROVE  DayFits(a, d)'
<1>1. DayFits(a, d)' <=>
         /\ Covering(a, d) = {} => DayRows(a, d) = {}
         /\ \A i \in DOMAIN runs' : LatestOf(i, Covering(a, d)) =>
              DayRows(a, d) = DayAnswer(a, d, runs'[i].at, i)
  BY DEF DayFits, LatestOf, DayAnswer, Seen, RowOf, ChargedDays
<1>2. \A i : LatestOf(i, Covering(a, d)) => i \in DOMAIN runs
  BY DEF LatestOf, Covering
<1>3. QED
  BY <1>1, <1>2 DEF DayFits

LEMMA LedgerInit == Init => LedgerInv
<1> SUFFICES ASSUME Init PROVE LedgerInv
  OBVIOUS
<1>1. today \in 0 .. LastDay /\ keys \subseteq Accounts
  BY LedgerAssumption DEF Init
<1>2. runs \in Seq(RunRecords) /\ DOMAIN runs = {}
  BY DEF Init
<1>3. IsFiniteSet(rows) /\ rows = {}
  BY FS_EmptySet DEF Init
<1>4. ASSUME NEW a \in Accounts, NEW d \in Int PROVE DayFits(a, d)
  BY <1>2, <1>3 DEF DayFits, DayRows, Covering
<1>5. QED
  BY <1>1, <1>2, <1>3, <1>4 DEF LedgerInv

(* A collection replaces what was known of its days and of no other.       *)
LEMMA LedgerStore ==
  ASSUME LedgerInv, NEW a \in Accounts,
         NEW window \in Windows, window.start < window.end,
         NEW trigger \in {"manual", "auto"},
         IsCostSupported(Provider[a]), IngestEnabled(a),
         Store(a, window, trigger)
  PROVE  LedgerInv'
<1> DEFINE id == Len(runs) + 1
           run == Run(a, window, trigger, "success", None)
           kept == {row \in rows : row.account # a
                                     \/ row.day \notin DaysOf(window)}
           told == Answer(a, window, id)
<1>1. /\ today \in Nat /\ today \in 0 .. LastDay /\ keys' \subseteq Accounts
      /\ today' = today
  <2>1. LastDay \in Nat /\ today \in 0 .. LastDay
    BY LedgerAssumption DEF LedgerInv
  <2>2. today' = today /\ keys' = keys
    BY DEF Store
  <2>3. QED
    BY <2>1, <2>2 DEF LedgerInv
<1>2. run \in RunRecords /\ run.id = id /\ run.account = a /\ run.at = today
      /\ run.status = "success" /\ run.window = window
      /\ run.basis = ResolveBasis(AdapterBasis(a), Provider[a])
  <2>1. ResolveBasis(AdapterBasis(a), Provider[a]) \in Bases
    BY DEF ResolveBasis, Bases, AllowedBases
  <2>2. id \in Nat
    BY DEF LedgerInv
  <2>3. QED
    BY <1>1, <2>1, <2>2 DEF Run, RunRecords
<1>3. /\ runs' \in Seq(RunRecords) /\ id \in Nat
      /\ DOMAIN runs' = DOMAIN runs \union {id}
      /\ DOMAIN runs = 1 .. Len(runs) /\ id \notin DOMAIN runs
      /\ \A i \in DOMAIN runs : runs'[i] = runs[i] /\ i < id
      /\ runs'[id] = run
  <2>1. runs' = Append(runs, run) /\ runs \in Seq(RunRecords)
    BY DEF Store, LedgerInv
  <2> HIDE DEF run
  <2>2. QED
    BY <1>2, <2>1, RunAppended
<1>4. rows' = kept \union told
  BY DEF Store
<1>5. \A row \in told :
        /\ row.account = a /\ row.day \in DaysOf(window) /\ row.day \in Nat
        /\ row \in DayAnswer(a, row.day, today, id)
  <2>1. told = UNION {DayAnswer(a, d, today, id) : d \in DaysOf(window)}
    BY <1>1, AnswerRows
  <2> HIDE DEF told
  <2>2. SUFFICES ASSUME NEW d \in DaysOf(window),
                        NEW row \in DayAnswer(a, d, today, id)
                 PROVE  row.account = a /\ row.day = d /\ row.day \in Nat
    BY <2>1
  <2>3. PICK c \in Seen(a, d, today) : row = RowOf(a, d, c, id)
    BY DEF DayAnswer
  <2>4. QED
    BY <2>3, SeenIsCharged DEF RowOf
<1>6. \A d \in DaysOf(window) : DayAnswer(a, d, today, id) \subseteq told
  BY <1>1, AnswerRows
<1>7. IsFiniteSet(rows')
  <2>1. IsFiniteSet(kept) /\ IsFiniteSet(told)
    BY <1>1, AnswerIsFinite, FS_Subset DEF LedgerInv
  <2> HIDE DEF kept, told
  <2>2. QED
    BY <1>4, <2>1, FS_Union
<1>8. \A row \in rows' : row.account \in Accounts /\ row.day \in Nat
  BY <1>4, <1>5 DEF LedgerInv
<1>9. \A i \in DOMAIN runs' : RunFits(i)'
  <2>1. ASSUME NEW i \in DOMAIN runs PROVE RunFits(i)'
    BY <1>1, <1>3, <2>1 DEF LedgerInv, RunFits, IngestEnabled,
       ManualIngestDenial, AutoIngestAllowed, Denial, AdapterBasis
  <2>2. ASSUME NEW i \in DOMAIN runs', i = id PROVE RunFits(i)'
    BY <1>1, <1>2, <1>3, <2>2 DEF RunFits, IngestEnabled, ManualIngestDenial,
       AutoIngestAllowed, Denial, AdapterBasis
  <2>3. QED
    BY <1>3, <2>1, <2>2
<1> HIDE DEF run, told
<1>10. ASSUME NEW b \in Accounts, NEW d \in Int PROVE DayFits(b, d)'
  <2>1. CASE b # a \/ d \notin DaysOf(window)
    <3>1. Covering(b, d)' = Covering(b, d)
      BY <1>2, <1>3, <2>1 DEF Covering
    <3>2. DayRows(b, d)' = DayRows(b, d)
      BY <1>4, <1>5, <2>1 DEF DayRows
    <3>3. DayFits(b, d)
      BY DEF LedgerInv
    <3>4. QED
      BY <1>3, <3>1, <3>2, <3>3, DayKept
  <2>2. CASE b = a /\ d \in DaysOf(window)
    <3>1. DayRows(b, d)' = DayAnswer(b, d, today, id)
      <4>1. \A row \in DayAnswer(a, d, today, id) :
              row.account = a /\ row.day = d
        BY DEF DayAnswer, RowOf
      <4>2. \A row \in told : row.day = d =>
              row \in DayAnswer(a, d, today, id)
        BY <1>5
      <4>3. QED
        BY <1>4, <1>6, <2>2, <4>1, <4>2 DEF DayRows
    <3>2. id \in Covering(b, d)' /\ Covering(b, d)' # {}
      BY <1>2, <1>3, <2>2 DEF Covering
    <3>3. ASSUME NEW i, LatestOf(i, Covering(b, d))' PROVE i = id
      <4>1. i \in DOMAIN runs' /\ id <= i
        BY <3>2, <3>3 DEF LatestOf, Covering
      <4>2. QED
        BY <1>3, <4>1
    <3>4. DayFits(b, d)' <=>
            /\ Covering(b, d)' = {} => DayRows(b, d)' = {}
            /\ \A i \in DOMAIN runs' : LatestOf(i, Covering(b, d))' =>
                 DayRows(b, d)' = DayAnswer(b, d, runs'[i].at, i)
      BY DEF DayFits, LatestOf, DayAnswer, Seen, RowOf, ChargedDays
    <3>5. QED
      BY <1>2, <1>3, <3>1, <3>2, <3>3, <3>4
  <2>3. QED
    BY <2>1, <2>2
<1>11. QED
  BY <1>1, <1>3, <1>7, <1>8, <1>9, <1>10 DEF LedgerInv

(* A run that stores nothing covers nothing.                               *)
LEMMA LedgerFailed ==
  ASSUME LedgerInv, NEW a \in Accounts, FailedRun(a)
  PROVE  LedgerInv'
<1>1. PICK outcome \in Outcomes :
        runs' = Append(runs, Run(a, DefaultPeriod(today), "auto",
                                 outcome.status, outcome.error))
  BY DEF FailedRun
<1> DEFINE id == Len(runs) + 1
           run == Run(a, DefaultPeriod(today), "auto",
                      outcome.status, outcome.error)
<1>2. /\ UNCHANGED <<rows, keys, verified, today, alerts>>
      /\ IngestEnabled(a)
      /\ IsCostSupported(Provider[a]) /\ outcome.status # "success"
      /\ today \in 0 .. LastDay /\ LastDay \in Nat
  BY LedgerAssumption DEF FailedRun, LedgerInv
<1>3. run \in RunRecords /\ run.id = id /\ run.account = a /\ run.at = today
      /\ run.status # "success" /\ run.window.start < run.window.end
  <2>1. /\ DefaultPeriod(today) \in Windows
        /\ DefaultPeriod(today).start < DefaultPeriod(today).end
    BY <1>2, MonthOfDay DEF DefaultPeriod, Windows
  <2>2. id \in Nat
    BY DEF LedgerInv
  <2>3. QED
    BY <1>2, <2>1, <2>2 DEF Run, RunRecords, Bases
<1>4. /\ runs' \in Seq(RunRecords) /\ id \in Nat
      /\ DOMAIN runs' = DOMAIN runs \union {id}
      /\ \A i \in DOMAIN runs : runs'[i] = runs[i]
      /\ runs'[id] = run
  <2>1. runs' = Append(runs, run) /\ runs \in Seq(RunRecords)
    BY <1>1 DEF LedgerInv
  <2> HIDE DEF run
  <2>2. QED
    BY <1>3, <2>1, RunAppended
<1> HIDE DEF run
<1>5. \A i \in DOMAIN runs' : RunFits(i)'
  <2>1. ASSUME NEW i \in DOMAIN runs PROVE RunFits(i)'
    BY <1>2, <1>4, <2>1 DEF LedgerInv, RunFits, IngestEnabled,
       ManualIngestDenial, AutoIngestAllowed, Denial, AdapterBasis
  <2>2. ASSUME NEW i \in DOMAIN runs', i = id PROVE RunFits(i)'
    BY <1>2, <1>3, <1>4, <2>2 DEF RunFits, IngestEnabled, ManualIngestDenial,
       AutoIngestAllowed, Denial, AdapterBasis
  <2>3. QED
    BY <1>4, <2>1, <2>2
<1>6. ASSUME NEW b \in Accounts, NEW d \in Int PROVE DayFits(b, d)'
  <2>1. Covering(b, d)' = Covering(b, d)
    BY <1>3, <1>4 DEF Covering
  <2>2. DayRows(b, d)' = DayRows(b, d)
    BY <1>2 DEF DayRows
  <2>3. DayFits(b, d)
    BY DEF LedgerInv
  <2>4. QED
    BY <1>4, <2>1, <2>2, <2>3, DayKept
<1>7. QED
  BY <1>2, <1>4, <1>5, <1>6 DEF LedgerInv

(* Keys that come and go, a day that passes and a step of nobody leave the *)
(* rows and the runs alone.                                                *)
LEMMA LedgerQuiet ==
  ASSUME LedgerInv, UNCHANGED <<rows, runs>>, keys' \subseteq Accounts,
         today' \in 0 .. LastDay, today <= today'
  PROVE  LedgerInv'
<1>1. /\ runs' = runs /\ rows' = rows /\ LastDay \in Nat
      /\ today \in 0 .. LastDay
  BY LedgerAssumption DEF LedgerInv
<1>2. \A i \in DOMAIN runs : RunFits(i)'
  <2>1. \A i \in DOMAIN runs : runs[i].at \in 0 .. LastDay
    <3>1. runs \in Seq(RunRecords)
      BY DEF LedgerInv
    <3>2. \A i \in DOMAIN runs : runs[i] \in RunRecords
      BY <3>1
    <3>3. QED
      BY <3>2 DEF RunRecords
  <2>2. QED
    BY <1>1, <2>1 DEF LedgerInv, RunFits, IngestEnabled,
       ManualIngestDenial, AutoIngestAllowed, Denial, AdapterBasis
<1>3. ASSUME NEW b \in Accounts, NEW d \in Int PROVE DayFits(b, d)'
  <2>1. Covering(b, d)' = Covering(b, d) /\ DayRows(b, d)' = DayRows(b, d)
    BY <1>1 DEF Covering, DayRows
  <2>2. DayFits(b, d)
    BY DEF LedgerInv
  <2>3. QED
    BY <1>1, <2>1, <2>2, DayKept
<1>4. QED
  BY <1>1, <1>2, <1>3 DEF LedgerInv

LEMMA LedgerStep == LedgerInv /\ [Next]_vars => LedgerInv'
<1> SUFFICES ASSUME LedgerInv, [Next]_vars PROVE LedgerInv'
  OBVIOUS
<1>1. /\ today \in 0 .. LastDay /\ today \in Int /\ keys \subseteq Accounts
      /\ LastDay \in Nat
  BY LedgerAssumption DEF LedgerInv
<1>2. ASSUME NEW a \in Accounts, ManualRun(a) PROVE LedgerInv'
  <2>1. /\ IsCostSupported(Provider[a]) /\ IngestEnabled(a)
        /\ \E window \in CustomWindows \union {DefaultPeriod(today)} :
              window.start < window.end /\ Store(a, window, "manual")
    BY <1>2 DEF ManualRun, IngestEnabled
  <2>2. PICK window \in CustomWindows \union {DefaultPeriod(today)} :
          window.start < window.end /\ Store(a, window, "manual")
    BY <2>1
  <2>3. window \in Windows
    BY <1>1, MonthOfDay, LedgerAssumption DEF DefaultPeriod, Windows
  <2>4. QED
    BY <2>1, <2>2, <2>3, LedgerStore
<1>3. ASSUME NEW a \in Accounts, DailyRun(a) PROVE LedgerInv'
  <2>1. /\ IsCostSupported(Provider[a]) /\ IngestEnabled(a)
        /\ Store(a, AutoPeriod, "auto")
    BY <1>3 DEF DailyRun, IngestEnabled
  <2>2. AutoPeriod \in Windows /\ AutoPeriod.start < AutoPeriod.end
    <3> DEFINE first == FirstOfMonth(today)
               back == today - AutoLookback
    <3>1. /\ first \in Int /\ back \in Int /\ today + 1 \in Int
          /\ first <= today
      BY <1>1, MonthOfDay, LedgerAssumption
    <3> HIDE DEF first, back
    <3>2. Min({first, back}) \in Int /\ Min({first, back}) <= first
      BY <3>1, MinOfTwo
    <3>3. QED
      BY <1>1, <3>1, <3>2 DEF AutoPeriod, Windows, first, back
  <2>3. QED
    BY <2>1, <2>2, LedgerStore
<1>4. ASSUME NEW a \in Accounts, FailedRun(a) PROVE LedgerInv'
  BY <1>4, LedgerFailed
<1>5. ASSUME NEW a \in Removable,
             DeleteLastKey(a) \/ RegisterAgain(a) \/ CheckKey(a)
      PROVE  LedgerInv'
  <2>1. /\ UNCHANGED <<rows, runs>> /\ keys' \subseteq Accounts
        /\ today' = today
    BY <1>1, <1>5, LedgerAssumption
       DEF DeleteLastKey, RegisterAgain, CheckKey
  <2>2. QED
    BY <1>1, <2>1, LedgerQuiet
<1>6. CASE DayPasses
  <2>1. /\ UNCHANGED <<rows, runs>> /\ keys' = keys
        /\ today' \in 0 .. LastDay /\ today <= today'
    BY <1>1, <1>6 DEF DayPasses
  <2>2. QED
    BY <1>1, <2>1, LedgerQuiet
<1>7. CASE UNCHANGED vars
  <2>1. UNCHANGED <<rows, runs>> /\ keys' = keys /\ today' = today
    BY <1>7 DEF vars
  <2>2. QED
    BY <1>1, <2>1, LedgerQuiet
<1>8. QED
  BY <1>2, <1>3, <1>4, <1>5, <1>6, <1>7 DEF Next

(* What is stored of a day is always what the last successful collection   *)
(* that asked for it was told (CostIngestionRunner: the rows of the range  *)
(* are replaced and the run recorded in one commit), and of a day no such  *)
(* collection asked for nothing is stored.                                 *)
THEOREM LedgerInductive == Spec => []LedgerInv
<1>1. Init => LedgerInv
  BY LedgerInit
<1>2. LedgerInv /\ [Next]_vars => LedgerInv'
  BY LedgerStep
<1>3. QED
  BY <1>1, <1>2, PTL DEF Spec

(***************************************************************************)
(* Reading what is stored                                                  *)
(***************************************************************************)

LEMMA CoveringIsFinite ==
  ASSUME LedgerInv, NEW a, NEW d
  PROVE  /\ Covering(a, d) \in SUBSET Nat /\ IsFiniteSet(Covering(a, d))
         /\ Covering(a, d) \in SUBSET DOMAIN runs
<1>1. /\ DOMAIN runs = 1 .. Len(runs) /\ Len(runs) \in Nat
      /\ Covering(a, d) \in SUBSET DOMAIN runs
  BY DEF LedgerInv, Covering
<1>2. IsFiniteSet(DOMAIN runs)
  BY <1>1, FS_Interval
<1>3. QED
  BY <1>1, <1>2, FS_Subset

LEMMA LatestIsMax ==
  ASSUME LedgerInv, NEW a, NEW d, Covering(a, d) # {}
  PROVE  LatestOf(Max(Covering(a, d)), Covering(a, d))
<1>1. /\ Covering(a, d) \in SUBSET Nat /\ IsFiniteSet(Covering(a, d))
  BY CoveringIsFinite
<1>2. QED
  BY <1>1, MaxOfFinite DEF LatestOf

(* Where a row comes from.                                                 *)
LEMMA RowOrigin ==
  ASSUME LedgerInv, NEW row \in rows
  PROVE  /\ row.account \in Accounts /\ row.day \in Nat
         /\ \E i \in DOMAIN runs : \E c :
              /\ LatestOf(i, Covering(row.account, row.day))
              /\ c \in Seen(row.account, row.day, runs[i].at)
              /\ row = RowOf(row.account, row.day, c, i)
<1> DEFINE a == row.account
           d == row.day
<1>1. a \in Accounts /\ d \in Nat /\ row \in DayRows(a, d)
  BY DEF LedgerInv, DayRows
<1>2. DayFits(a, d)
  BY <1>1 DEF LedgerInv
<1> HIDE DEF a, d
<1>3. Covering(a, d) # {}
  BY <1>1, <1>2 DEF DayFits
<1>4. PICK i \in DOMAIN runs : LatestOf(i, Covering(a, d))
  <2>1. LatestOf(Max(Covering(a, d)), Covering(a, d))
    BY <1>3, LatestIsMax
  <2>2. QED
    BY <2>1 DEF LatestOf, Covering
<1>5. row \in DayAnswer(a, d, runs[i].at, i)
  BY <1>1, <1>2, <1>4 DEF DayFits
<1>6. \E c : c \in Seen(a, d, runs[i].at) /\ row = RowOf(a, d, c, i)
  BY <1>5 DEF DayAnswer
<1>7. QED
  BY <1>1, <1>4, <1>6 DEF a, d

(* The rows and the runs belong together: every row is a charge of a day   *)
(* that is not to come, stored by a run of its account that asked for the  *)
(* day, and no day of an account has rows of two runs                      *)
(* (CostIngestionRunner replaces the range in one transaction).            *)
THEOREM LedgerTyped == Spec => []TypeOK
<1>1. ASSUME LedgerInv PROVE TypeOK
  <2>1. today \in 0 .. LastDay /\ keys \subseteq Accounts
    BY <1>1 DEF LedgerInv
  <2>2. ASSUME NEW row \in rows
        PROVE  /\ row.day \in ChargedDays(row.account) /\ row.day <= today
               /\ \E c \in Charge[row.account][row.day] :
                     c.service = row.service /\ c.amount = row.amount
               /\ runs[row.asOf].account = row.account
               /\ row.day \in DaysOf(runs[row.asOf].window)
    <3>1. PICK i \in DOMAIN runs : \E c :
              /\ LatestOf(i, Covering(row.account, row.day))
              /\ c \in Seen(row.account, row.day, runs[i].at)
              /\ row = RowOf(row.account, row.day, c, i)
      BY <1>1, RowOrigin
    <3>2. PICK c : /\ LatestOf(i, Covering(row.account, row.day))
                   /\ c \in Seen(row.account, row.day, runs[i].at)
                   /\ row = RowOf(row.account, row.day, c, i)
      BY <3>1
    <3>3. /\ row.asOf = i /\ row.service = c.service
          /\ row.amount = c.amount
      BY <3>2 DEF RowOf
    <3>4. /\ c \in Charge[row.account][row.day]
          /\ row.day \in ChargedDays(row.account) /\ row.day <= runs[i].at
      BY <3>2 DEF Seen
    <3>5. /\ runs[i].account = row.account
          /\ row.day \in DaysOf(runs[i].window)
      BY <3>2 DEF LatestOf, Covering
    <3>6. row.day <= today
      <4>1. /\ row.day \in Nat /\ runs[i] \in RunRecords /\ RunFits(i)
            /\ today \in 0 .. LastDay /\ LastDay \in Nat
        BY <1>1, LedgerAssumption DEF LedgerInv
      <4>2. runs[i].at \in 0 .. LastDay /\ runs[i].at <= today
        BY <4>1 DEF RunRecords, RunFits
      <4>3. QED
        BY <3>4, <4>1, <4>2
    <3>7. QED
      BY <3>3, <3>4, <3>5, <3>6
  <2>3. ASSUME NEW row \in rows, NEW other \in rows,
               row.account = other.account, row.day = other.day
        PROVE  row.asOf = other.asOf
    <3>1. PICK i \in DOMAIN runs :
              /\ LatestOf(i, Covering(row.account, row.day))
              /\ row.asOf = i
      BY <1>1, RowOrigin DEF RowOf
    <3>2. PICK j \in DOMAIN runs :
              /\ LatestOf(j, Covering(row.account, row.day))
              /\ other.asOf = j
      BY <1>1, <2>3, RowOrigin DEF RowOf
    <3>3. i <= j /\ j <= i /\ i \in Nat /\ j \in Nat
      BY <1>1, <3>1, <3>2 DEF LatestOf, LedgerInv
    <3>4. QED
      BY <3>1, <3>2, <3>3
  <2>4. QED
    BY <2>1, <2>2, <2>3 DEF TypeOK
<1>2. QED
  BY <1>1, LedgerInductive, PTL

(* The currency of an account is the one it is billed in.                  *)
LEMMA CurrencyOfRows ==
  ASSUME LedgerInv, NEW a \in Accounts
  PROVE  /\ \A row \in rows : row.account = a => row.currency = BilledIn[a]
         /\ AccountCurrency(Ledger, a) =
              IF \E row \in rows : row.account = a THEN BilledIn[a] ELSE None
<1>1. \A row \in rows : row.account = a => row.currency = BilledIn[a]
  BY RowOrigin DEF RowOf
<1> DEFINE mine == {row \in rows : row.account = a}
<1>2. AccountCurrency(Ledger, a) =
        IF mine = {} THEN None
        ELSE (CHOOSE row \in mine :
                \A other \in mine : other.asOf <= row.asOf).currency
  BY DEF AccountCurrency, Ledger
<1>3. ASSUME mine # {}
      PROVE  \E row \in mine : \A other \in mine : other.asOf <= row.asOf
  <2> DEFINE f == [row \in rows |-> row.asOf]
  <2>1. f \in [rows -> Int]
    <3>1. \A row \in rows : row.asOf \in DOMAIN runs
      BY RowOrigin DEF RowOf
    <3>2. DOMAIN runs \subseteq Nat
      BY DEF LedgerInv
    <3>3. QED
      BY <3>1, <3>2
  <2>2. mine \in SUBSET rows /\ IsFiniteSet(rows)
    BY DEF LedgerInv
  <2>3. PICK row \in mine : \A other \in mine : f[other] <= f[row]
    <3> HIDE DEF f, mine
    <3>1. QED
      BY <1>3, <2>1, <2>2, SomeLatest
  <2>4. QED
    BY <2>3
<1>4. CASE mine = {}
  BY <1>1, <1>2, <1>4
<1>5. CASE mine # {}
  BY <1>1, <1>2, <1>3, <1>5
<1>6. QED
  BY <1>4, <1>5

OwnRuns(a, statuses) ==
    {i \in DOMAIN runs : runs[i].account = a /\ runs[i].status \in statuses}

(* The list of an account's runs holds each of them and no other.          *)
LEMMA RunsListed ==
  ASSUME LedgerInv, NEW a, NEW statuses
  PROVE  /\ Cardinality(OwnRuns(a, statuses)) \in Nat
         /\ DOMAIN RunsOf(Ledger, a, statuses)
              = 1 .. Cardinality(OwnRuns(a, statuses))
         /\ \A k \in DOMAIN RunsOf(Ledger, a, statuses) :
              \E i \in OwnRuns(a, statuses) :
                RunsOf(Ledger, a, statuses)[k] = runs[i]
         /\ \A i \in OwnRuns(a, statuses) :
              \E k \in DOMAIN RunsOf(Ledger, a, statuses) :
                RunsOf(Ledger, a, statuses)[k] = runs[i]
<1> DEFINE list == RunsOf(Ledger, a, statuses)
           mine == OwnRuns(a, statuses)
           place(i) == Cardinality({j \in mine : j < i})
           nth(k) == CHOOSE i \in mine : place(i) = k - 1
<1>1. list = [k \in 1 .. Cardinality(mine) |-> runs[nth(k)]]
  BY DEF RunsOf, Ledger, OwnRuns
<1>2. mine \in SUBSET Nat /\ IsFiniteSet(mine)
  <2>1. /\ DOMAIN runs = 1 .. Len(runs) /\ Len(runs) \in Nat
        /\ mine \in SUBSET DOMAIN runs
    BY DEF LedgerInv, OwnRuns
  <2>2. IsFiniteSet(DOMAIN runs)
    BY <2>1, FS_Interval
  <2> HIDE DEF mine
  <2>3. QED
    BY <2>1, <2>2, FS_Subset
<1> HIDE DEF list, mine
<1>3. /\ Cardinality(mine) \in Nat
      /\ \A i \in mine : place(i) + 1 \in 1 .. Cardinality(mine)
      /\ \A i, j \in mine : place(i) = place(j) => i = j
      /\ \A k \in 1 .. Cardinality(mine) : \E i \in mine : place(i) = k - 1
  BY <1>2, EachHasItsPlace
<1> HIDE DEF place
<1>4. \A k \in 1 .. Cardinality(mine) :
        nth(k) \in mine /\ place(nth(k)) = k - 1
  BY <1>3
<1>5. \A k \in DOMAIN list : \E i \in mine : list[k] = runs[i]
  BY <1>1, <1>4
<1>6. ASSUME NEW i \in mine
      PROVE  \E k \in DOMAIN list : list[k] = runs[i]
  <2> DEFINE k == place(i) + 1
  <2>1. k \in 1 .. Cardinality(mine) /\ k - 1 = place(i)
    <3>1. IsFiniteSet({j \in mine : j < i})
      BY <1>2, FS_Subset
    <3>2. place(i) \in Nat
      BY <3>1, FS_CardinalityType DEF place
    <3>3. QED
      BY <1>3, <3>2
  <2> HIDE DEF k
  <2>2. nth(k) = i
    <3>1. nth(k) \in mine /\ place(nth(k)) = place(i)
      BY <1>4, <2>1
    <3> HIDE DEF nth
    <3>2. QED
      BY <1>3, <3>1
  <2>3. QED
    BY <1>1, <2>1, <2>2
<1>7. QED
  BY <1>1, <1>3, <1>5, <1>6 DEF list, mine

(* What a day is known on: nothing while no successful run asked for it,   *)
(* the whole range with AWS, the rows themselves elsewhere.                *)
KnownOn(a, d) ==
    IF Covering(a, d) = {} THEN NotObserved
    ELSE IF Provider[a] = "aws" THEN CompleteRange
    ELSE IF d \in DaysWithRows(Ledger, a) THEN ObservedOnly ELSE NotObserved

LEMMA DayBasis ==
  ASSUME LedgerInv, NEW a \in Accounts, NEW window \in Windows
  PROVE  BasisOf(Ledger, a, window) = [d \in DaysOf(window) |-> KnownOn(a, d)]
<1> DEFINE list == StoredRuns(Ledger, a)
           days == DaysWithRows(Ledger, a)
           mine == OwnRuns(a, {"success"})
           unknown == [d \in DaysOf(window) |-> NotObserved]
           applied == Applied(list, unknown, days, Provider[a])
<1>1. /\ Cardinality(mine) \in Nat
      /\ DOMAIN list = 1 .. Cardinality(mine)
      /\ \A k \in DOMAIN list : \E i \in mine : list[k] = runs[i]
      /\ \A i \in mine : \E k \in DOMAIN list : list[k] = runs[i]
  <2>1. list = RunsOf(Ledger, a, {"success"})
    BY DEF StoredRuns, LastSuccess
  <2> HIDE DEF list
  <2>2. QED
    BY <2>1, RunsListed
<1>2. BasisOf(Ledger, a, window) =
        [d \in DaysOf(window) |->
            IF applied[d] = NotObserved /\ d \in days
            THEN ResolveBasis(Unrecorded, Provider[a]) ELSE applied[d]]
  BY DEF BasisOf, DayBasisMap, Applied
<1>3. DOMAIN unknown = DaysOf(window)
      /\ unknown = [d \in DOMAIN unknown |-> unknown[d]]
      /\ \A d \in DaysOf(window) : unknown[d] = NotObserved
  OBVIOUS
<1> HIDE DEF list, days, unknown, applied
<1>4. applied = LastWritten(list, 1 .. Cardinality(mine), unknown, days,
                            Provider[a])
  <2> DEFINE n == Cardinality(mine)
             provider == Provider[a]
  <2>1. n \in Nat /\ DOMAIN list = 1 .. n
    BY <1>1
  <2> HIDE DEF n, provider, mine
  <2>2. Applied(list, unknown, days, provider)
          = LastWritten(list, 1 .. n, unknown, days, provider)
    BY <1>3, <2>1, LastRunDecides
  <2>3. QED
    BY <2>2 DEF applied, n, provider
<1>5. ASSUME NEW d \in DaysOf(window)
      PROVE  applied[d] =
               IF Covering(a, d) = {} THEN NotObserved
               ELSE IF Provider[a] = "aws" THEN CompleteRange
               ELSE IF d \in days THEN ObservedOnly ELSE NotObserved
  <2> DEFINE reaching == Reaching(list, 1 .. Cardinality(mine), d)
  <2>1. reaching = {} <=> Covering(a, d) = {}
    BY <1>1 DEF Reaching, Covering, OwnRuns
  <2>2. applied[d] = IF reaching = {} THEN unknown[d]
                     ELSE Written(list[Max(reaching)], d, days, Provider[a])
    BY <1>3, <1>4 DEF LastWritten
  <2>3. ASSUME reaching # {}
        PROVE  Written(list[Max(reaching)], d, days, Provider[a]) =
                 IF Provider[a] = "aws" THEN CompleteRange
                 ELSE IF d \in days THEN ObservedOnly ELSE NotObserved
    <3>1. Max(reaching) \in DOMAIN list
      <4> DEFINE n == Cardinality(mine)
      <4>0. n \in Nat /\ 1 \in Int
        BY <1>1
      <4> HIDE DEF n
      <4>1. IsFiniteSet(1 .. n)
        BY <4>0, FS_Interval
      <4>2. reaching \in SUBSET (1 .. n)
        BY DEF Reaching, n
      <4> HIDE DEF reaching, mine
      <4>3. IsFiniteSet(reaching) /\ reaching \in SUBSET Nat
        <5>1. IsFiniteSet(reaching)
          BY <4>1, <4>2, FS_Subset
        <5>2. 1 .. n \subseteq Nat
          BY <4>0
        <5>3. QED
          BY <4>2, <5>1, <5>2
      <4>4. Max(reaching) \in reaching
        BY <2>3, <4>3, MaxOfFinite
      <4>5. QED
        BY <1>1, <4>2, <4>4 DEF n
    <3>2. PICK i \in mine : list[Max(reaching)] = runs[i]
      BY <1>1, <3>1
    <3>3. runs[i].basis = ResolveBasis(AdapterBasis(a), Provider[a])
      BY <3>2 DEF LedgerInv, RunFits, OwnRuns
    <3>4. ResolveBasis(runs[i].basis, Provider[a])
            = IF Provider[a] = "aws" THEN CompleteRange ELSE ObservedOnly
      BY <3>3 DEF ResolveBasis, AdapterBasis, AllowedBases, CompleteRange,
         ObservedOnly, Unrecorded
    <3>5. CompleteRange # ObservedOnly
      BY DEF CompleteRange, ObservedOnly
    <3> HIDE DEF reaching
    <3>6. QED
      BY <3>2, <3>4, <3>5 DEF Written
  <2>4. QED
    BY <1>3, <2>1, <2>2, <2>3
<1>6. ASSUME NEW d \in DaysOf(window), Covering(a, d) = {}
      PROVE  d \notin days
  <2>1. d \in Int
    BY DEF DaysOf, Windows
  <2>2. DayRows(a, d) = {}
    BY <1>6, <2>1 DEF LedgerInv, DayFits
  <2>3. QED
    BY <2>2 DEF DayRows, days, DaysWithRows, Ledger
<1>7. ResolveBasis(Unrecorded, Provider[a])
        = IF Provider[a] = "aws" THEN CompleteRange ELSE ObservedOnly
  BY DEF ResolveBasis, AllowedBases, CompleteRange, ObservedOnly, Unrecorded,
     LegacyCompleteRangeProviders
<1>8. /\ CompleteRange # NotObserved /\ ObservedOnly # NotObserved
  BY DEF CompleteRange, ObservedOnly, NotObserved
<1>9. \A d \in DaysOf(window) : KnownOn(a, d) = applied[d]
                                  /\ ~(applied[d] = NotObserved /\ d \in days)
  BY <1>5, <1>6, <1>8 DEF KnownOn, days
<1>10. QED
  BY <1>2, <1>9

(***************************************************************************)
(* The usage of a day                                                      *)
(***************************************************************************)

(* The usage charges of a day.                                             *)
Charged(a, d) ==
    {c \in IF d \in ChargedDays(a) THEN Charge[a][d] ELSE {} :
        c.category = "usage"}

LEMMA ChargesAreFinite ==
  ASSUME NEW a \in Accounts, NEW d
  PROVE  /\ IsFiniteSet(Charged(a, d))
         /\ \A c \in Charged(a, d) :
              /\ c.amount \in Int /\ c.amount >= 0 /\ c.category = "usage"
              /\ d \in ChargedDays(a) /\ d \in Nat /\ c \in Charge[a][d]
              /\ c = [service |-> c.service, category |-> c.category,
                      amount |-> c.amount]
<1>1. CASE d \in ChargedDays(a)
  <2>1. /\ IsFiniteSet(Charge[a][d]) /\ d \in Nat
        /\ \A c \in Charge[a][d] :
             /\ c = [service |-> c.service, category |-> c.category,
                     amount |-> c.amount]
             /\ c.amount \in Int
             /\ c.category = "usage" => c.amount >= 0
    BY <1>1, ChargeAssumption DEF ChargedDays
  <2>2. /\ Charged(a, d) \subseteq Charge[a][d]
        /\ \A c \in Charged(a, d) : c.category = "usage"
    BY <1>1 DEF Charged
  <2>3. QED
    BY <1>1, <2>1, <2>2, FS_Subset
<1>2. CASE d \notin ChargedDays(a)
  BY <1>2, FS_EmptySet DEF Charged
<1>3. QED
  BY <1>1, <1>2

(* A day whose last collection came when it was over is stored whole.      *)
DayIsIn(a, d) ==
    /\ Covering(a, d) # {}
    /\ \E i \in DOMAIN runs : LatestOf(i, Covering(a, d)) /\ runs[i].at > d

LEMMA SettledDay ==
  ASSUME LedgerInv, NEW a, NEW start \in Int, NEW end \in Int,
         Settled(a, start, end), NEW d \in start .. end - 1,
         Covering(a, d) # {}
  PROVE  DayIsIn(a, d)
<1> DEFINE T == Covering(a, d)
<1>1. T # {} => runs[Max(T)].at > d
  BY DEF Settled, Covering
<1>2. LatestOf(Max(T), T) /\ T \in SUBSET DOMAIN runs
  BY LatestIsMax, CoveringIsFinite
<1> HIDE DEF T
<1>3. Max(T) \in DOMAIN runs
  BY <1>2 DEF LatestOf
<1>4. QED
  BY <1>1, <1>2, <1>3 DEF DayIsIn, T

UsageRows(a, d) == {row \in DayRows(a, d) : row.category = "usage"}

(* Every charge of such a day is one of its rows.                          *)
LEMMA RowsAreCharges ==
  ASSUME LedgerInv, NEW a \in Accounts, NEW d \in Int, DayIsIn(a, d)
  PROVE  \E i \in DOMAIN runs : \A c \in Charged(a, d) :
            RowOf(a, d, c, i) \in UsageRows(a, d)
<1>1. PICK i \in DOMAIN runs :
        LatestOf(i, Covering(a, d)) /\ runs[i].at > d
  BY DEF DayIsIn
<1>2. DayRows(a, d) = DayAnswer(a, d, runs[i].at, i)
  BY <1>1 DEF LedgerInv, DayFits
<1>3. runs[i].at \in Int
  <2>1. runs[i] \in RunRecords
    BY DEF LedgerInv
  <2>2. QED
    BY <2>1, LedgerAssumption DEF RunRecords
<1>4. ASSUME NEW c \in Charged(a, d)
      PROVE  RowOf(a, d, c, i) \in UsageRows(a, d)
  <2>1. /\ d \in ChargedDays(a) /\ c \in Charge[a][d]
        /\ c.category = "usage"
    BY ChargesAreFinite
  <2>2. c \in Seen(a, d, runs[i].at)
    BY <1>1, <1>3, <2>1 DEF Seen
  <2>3. RowOf(a, d, c, i) \in DayRows(a, d)
    BY <1>2, <2>2 DEF DayAnswer
  <2>4. QED
    BY <2>1, <2>3 DEF UsageRows, RowOf
<1>5. QED
  BY <1>4

(* The entry of a bill that a charge is, and the one that a row stands     *)
(* for.                                                                    *)
Entry(a, d, c) ==
    [account |-> a, day |-> d, service |-> c.service, amount |-> c.amount]
Entered(row) == Entry(row.account, row.day, row)

LEMMA BillEntries ==
  ASSUME NEW accounts \in SUBSET Accounts, NEW currency,
         NEW start \in Int, NEW end \in Int
  PROVE  /\ IsFiniteSet(Bill(accounts, currency, start, end))
         /\ \A x : x \in Bill(accounts, currency, start, end) <=>
              \E a \in accounts, d \in start .. end - 1 :
                /\ BilledIn[a] = currency
                /\ \E c \in Charged(a, d) : x = Entry(a, d, c)
         /\ \A x \in Bill(accounts, currency, start, end) :
              x.amount \in Int /\ x.amount >= 0
<1> DEFINE payers == {b \in accounts : BilledIn[b] = currency}
           days(a) == (start .. end - 1) \intersect ChargedDays(a)
           ofDay(a, d) == {Entry(a, d, c) : c \in Charged(a, d)}
           ofAll(a) == {ofDay(a, d) : d \in days(a)}
           each == {UNION ofAll(a) : a \in payers}
<1>1. Bill(accounts, currency, start, end) = UNION each
  <2>1. ASSUME NEW a, NEW d \in days(a)
        PROVE  ofDay(a, d) =
                 {[account |-> a, day |-> d, service |-> c.service,
                   amount |-> c.amount] :
                    c \in {x \in Charge[a][d] : x.category = "usage"}}
    BY DEF Entry, Charged
  <2>2. QED
    BY <2>1 DEF Bill
<1>2. ASSUME NEW a \in Accounts, NEW d PROVE IsFiniteSet(ofDay(a, d))
  <2> DEFINE S == Charged(a, d)
             T == ofDay(a, d)
             f == [c \in S |-> Entry(a, d, c)]
  <2>1. f \in Surjection(S, T)
    BY DEF Surjection
  <2>2. IsFiniteSet(S)
    BY ChargesAreFinite
  <2> HIDE DEF S, T, f
  <2>3. IsFiniteSet(T)
    BY <2>1, <2>2, FS_Surjection
  <2>4. QED
    BY <2>3 DEF T
<1>3. ASSUME NEW a \in Accounts PROVE IsFiniteSet(UNION ofAll(a))
  <2> DEFINE S == days(a)
             T == ofAll(a)
             f == [d \in S |-> ofDay(a, d)]
  <2>1. f \in Surjection(S, T)
    BY DEF Surjection
  <2>2. IsFiniteSet(S)
    <3>1. IsFiniteSet(start .. end - 1)
      BY FS_Interval
    <3>2. S \in SUBSET (start .. end - 1)
      OBVIOUS
    <3> HIDE DEF S
    <3>3. QED
      BY <3>1, <3>2, FS_Subset
  <2>3. \A X \in T : IsFiniteSet(X)
    BY <1>2
  <2> HIDE DEF S, T, f
  <2>4. IsFiniteSet(T)
    BY <2>1, <2>2, FS_Surjection
  <2>5. IsFiniteSet(UNION T)
    BY <2>3, <2>4, FS_UNION
  <2>6. QED
    BY <2>5 DEF T
<1>4. IsFiniteSet(UNION each)
  <2> DEFINE S == payers
             T == each
             f == [a \in S |-> UNION ofAll(a)]
  <2>1. f \in Surjection(S, T)
    <3> HIDE DEF ofAll, payers
    <3>1. QED
      BY DEF Surjection
  <2>2. IsFiniteSet(S)
    <3>1. S \in SUBSET Accounts /\ IsFiniteSet(Accounts)
      BY AccountAssumption
    <3> HIDE DEF S
    <3>2. QED
      BY <3>1, FS_Subset
  <2>3. \A X \in T : IsFiniteSet(X)
    BY <1>3
  <2> HIDE DEF S, T, f
  <2>4. IsFiniteSet(T)
    BY <2>1, <2>2, FS_Surjection
  <2>5. IsFiniteSet(UNION T)
    BY <2>3, <2>4, FS_UNION
  <2>6. QED
    BY <2>5 DEF T
<1>5. ASSUME NEW x
      PROVE  x \in UNION each <=>
               \E a \in accounts, d \in start .. end - 1 :
                 /\ BilledIn[a] = currency
                 /\ \E c \in Charged(a, d) : x = Entry(a, d, c)
  <2>1. x \in UNION each <=> \E a \in payers : \E d \in days(a) :
                               x \in ofDay(a, d)
    OBVIOUS
  <2>2. \A a \in payers : \A d : d \notin ChargedDays(a) => Charged(a, d) = {}
    BY DEF Charged
  <2>3. QED
    BY <2>1, <2>2
<1>6. ASSUME NEW x \in Bill(accounts, currency, start, end)
      PROVE  x.amount \in Int /\ x.amount >= 0
  <2>1. PICK a \in accounts, d \in start .. end - 1 :
          \E c \in Charged(a, d) : x = Entry(a, d, c)
    BY <1>1, <1>5
  <2>2. PICK c \in Charged(a, d) : x = Entry(a, d, c)
    BY <2>1
  <2>3. x.amount = c.amount /\ a \in Accounts
    BY <2>2 DEF Entry
  <2>4. QED
    BY <2>3, ChargesAreFinite
<1> HIDE DEF each
<1>7. QED
  BY <1>1, <1>4, <1>5, <1>6

(* The usage rows of a period in a currency, as the code selects them.     *)
PeriodRows(accounts, currency, start, end) ==
    {row \in rows : /\ row.account \in accounts /\ row.currency = currency
                    /\ row.category = "usage"
                    /\ start <= row.day /\ row.day < end}

(* Each stands for an entry of the bill, no two for the same one, ...      *)
LEMMA RowsAreBilled ==
  ASSUME LedgerInv, NEW accounts \in SUBSET Accounts, NEW currency,
         NEW start \in Int, NEW end \in Int
  PROVE  /\ IsFiniteSet(PeriodRows(accounts, currency, start, end))
         /\ \A row \in PeriodRows(accounts, currency, start, end) :
              /\ Entered(row) \in Bill(accounts, currency, start, end)
              /\ row.amount \in Int /\ row.amount >= 0
         /\ \A row, other \in PeriodRows(accounts, currency, start, end) :
              Entered(row) = Entered(other) => row = other
<1> DEFINE R == PeriodRows(accounts, currency, start, end)
<1>1. IsFiniteSet(R)
  <2>1. R \in SUBSET rows /\ IsFiniteSet(rows)
    BY DEF PeriodRows, LedgerInv
  <2> HIDE DEF R
  <2>2. QED
    BY <2>1, FS_Subset
<1>2. ASSUME NEW row \in R
      PROVE  \E i \in DOMAIN runs, c \in Charged(row.account, row.day) :
                /\ LatestOf(i, Covering(row.account, row.day))
                /\ row = RowOf(row.account, row.day, c, i)
  <2>1. row \in rows /\ row.category = "usage"
    BY DEF PeriodRows
  <2>2. PICK i \in DOMAIN runs : \E c :
            /\ LatestOf(i, Covering(row.account, row.day))
            /\ c \in Seen(row.account, row.day, runs[i].at)
            /\ row = RowOf(row.account, row.day, c, i)
    BY <2>1, RowOrigin
  <2>3. PICK c : /\ LatestOf(i, Covering(row.account, row.day))
                 /\ c \in Seen(row.account, row.day, runs[i].at)
                 /\ row = RowOf(row.account, row.day, c, i)
    BY <2>2
  <2>4. c.category = "usage"
    BY <2>1, <2>3 DEF RowOf
  <2>5. c \in Charged(row.account, row.day)
    BY <2>3, <2>4 DEF Seen, Charged
  <2>6. QED
    BY <2>3, <2>5
<1>3. ASSUME NEW row \in R
      PROVE  /\ Entered(row) \in Bill(accounts, currency, start, end)
             /\ row.amount \in Int /\ row.amount >= 0
  <2> DEFINE a == row.account
             d == row.day
  <2>1. /\ row \in rows /\ a \in accounts /\ row.currency = currency
        /\ start <= d /\ d < end
    BY DEF PeriodRows
  <2>2. d \in Nat /\ BilledIn[a] = currency
    BY <2>1, RowOrigin, CurrencyOfRows
  <2>3. d \in start .. end - 1
    BY <2>1, <2>2
  <2>4. PICK i \in DOMAIN runs, c \in Charged(a, d) : row = RowOf(a, d, c, i)
    BY <1>2
  <2>5. row.service = c.service /\ row.amount = c.amount
    BY <2>4 DEF RowOf
  <2>6. Entered(row) = Entry(a, d, c)
    BY <2>5 DEF Entered, Entry
  <2>7. a \in Accounts /\ c.amount \in Int /\ c.amount >= 0
    <3>1. a \in Accounts
      BY <2>1
    <3> HIDE DEF a, d
    <3>2. QED
      BY <3>1, ChargesAreFinite
  <2> HIDE DEF a, d
  <2>8. Entered(row) \in Bill(accounts, currency, start, end)
    BY <2>1, <2>2, <2>3, <2>6, BillEntries
  <2>9. QED
    BY <2>5, <2>7, <2>8
<1>4. ASSUME NEW row \in R, NEW other \in R, Entered(row) = Entered(other)
      PROVE  row = other
  <2> DEFINE a == row.account
             d == row.day
  <2>1. /\ other.account = a /\ other.day = d
        /\ row.service = other.service /\ row.amount = other.amount
    BY <1>4 DEF Entered, Entry
  <2>2. PICK i \in DOMAIN runs, c \in Charged(a, d) :
          LatestOf(i, Covering(a, d)) /\ row = RowOf(a, d, c, i)
    BY <1>2
  <2>3. PICK j \in DOMAIN runs, e \in Charged(a, d) :
          LatestOf(j, Covering(a, d)) /\ other = RowOf(a, d, e, j)
    BY <1>2, <2>1
  <2>4. i = j
    <3>1. i \in Nat /\ j \in Nat /\ i <= j /\ j <= i
      BY <2>2, <2>3 DEF LatestOf, LedgerInv
    <3>2. QED
      BY <3>1
  <2>5. c.category = e.category
    <3>1. a \in Accounts
      BY RowOrigin DEF PeriodRows
    <3>2. QED
      BY <3>1, ChargesAreFinite
  <2>6. /\ c.service = e.service /\ c.amount = e.amount
    BY <2>1, <2>2, <2>3 DEF RowOf
  <2> HIDE DEF a, d
  <2>7. QED
    BY <2>2, <2>3, <2>4, <2>5, <2>6 DEF RowOf
<1> HIDE DEF R
<1>5. QED
  BY <1>1, <1>3, <1>4 DEF R

(* ... and where the days are in, every entry has its row: then what is    *)
(* selected of the rows and of the bill alike adds up to the same.         *)
LEMMA PeriodIsBilled ==
  ASSUME LedgerInv, NEW accounts \in SUBSET Accounts, NEW currency,
         NEW start \in Int, NEW end \in Int,
         \A a \in accounts, d \in start .. end - 1 :
            BilledIn[a] = currency => DayIsIn(a, d),
         NEW R \in SUBSET PeriodRows(accounts, currency, start, end),
         NEW B \in SUBSET Bill(accounts, currency, start, end),
         \A row \in PeriodRows(accounts, currency, start, end) :
            row \in R <=> Entered(row) \in B
  PROVE  Amount(R) = Amount(B)
<1> DEFINE f == [row \in R |-> Entered(row)]
           w == Amounts(R)
           v == Amounts(B)
<1>1. /\ IsFiniteSet(R) /\ IsFiniteSet(B)
  BY RowsAreBilled, BillEntries, FS_Subset
<1>2. \A row \in R : w[row] \in Int
  BY RowsAreBilled DEF Amounts
<1>3. \A row \in R : f[row] \in B /\ v[f[row]] = w[row]
  <2>1. \A row \in R : Entered(row) \in B /\ Entered(row).amount = row.amount
    BY DEF Entered, Entry
  <2>2. QED
    BY <2>1 DEF Amounts
<1>4. \A row, other \in R : f[row] = f[other] => row = other
  BY RowsAreBilled
<1>5. ASSUME NEW x \in B PROVE \E row \in R : f[row] = x
  <2>1. PICK a \in accounts, d \in start .. end - 1 :
          /\ BilledIn[a] = currency
          /\ \E c \in Charged(a, d) : x = Entry(a, d, c)
    BY BillEntries
  <2>2. PICK c \in Charged(a, d) : x = Entry(a, d, c)
    BY <2>1
  <2>3. d \in Int /\ a \in Accounts /\ start <= d /\ d < end
    OBVIOUS
  <2>4. PICK i \in DOMAIN runs : RowOf(a, d, c, i) \in UsageRows(a, d)
    BY <2>1, <2>3, RowsAreCharges
  <2> DEFINE row == RowOf(a, d, c, i)
  <2>5. /\ row.account = a /\ row.day = d /\ row.currency = currency
        /\ Entered(row) = x
    BY <2>1, <2>2 DEF RowOf, Entered, Entry
  <2>6. row \in rows /\ row.category = "usage"
    BY <2>4 DEF UsageRows, DayRows
  <2> HIDE DEF row
  <2>7. row \in PeriodRows(accounts, currency, start, end)
    BY <2>3, <2>5, <2>6 DEF PeriodRows
  <2>8. QED
    BY <2>5, <2>7
<1> HIDE DEF f, w, v
<1>6. Total(w, R) = Total(v, B)
  BY <1>1, <1>2, <1>3, <1>4, <1>5, TotalMoved
<1>7. QED
  BY <1>1, <1>6, AmountIsTotal DEF w, v

(***************************************************************************)
(* Rounding                                                                *)
(***************************************************************************)

(* A rounded quotient that reaches a number is no less than a half below.  *)
LEMMA RoundedReaches ==
  ASSUME NEW n \in Int, NEW m \in Nat \ {0}, NEW k \in Int,
         RoundHalfEven(n, m) >= k
  PROVE  2 * n >= m * (2 * k - 1)
<1> DEFINE q == n \div m
           r == n % m
<1>1. q \in Int /\ r \in Int /\ 0 <= r /\ r < m /\ n = m * q + r
  <2>1. q \in Int /\ r \in 0 .. m - 1 /\ n = m * q + r
    BY Division, Zenon
  <2> HIDE DEF q, r
  <2>2. QED
    BY <2>1
<1>2. RoundHalfEven(n, m) =
        IF 2 * r < m \/ (2 * r = m /\ q % 2 = 0) THEN q ELSE q + 1
  BY DEF RoundHalfEven
<1> HIDE DEF q, r
<1>3. CASE k <= q
  <2>1. 2 * k - 1 <= 2 * q /\ 2 * k - 1 \in Int /\ 2 * q \in Int
    BY <1>1, <1>3
  <2>2. m * (2 * k - 1) <= m * (2 * q)
    BY <2>1, TimesOrdered
  <2>3. m * q \in Int /\ m * (2 * q) = 2 * (m * q)
    BY <1>1
  <2>4. m * (2 * k - 1) \in Int
    BY <2>1
  <2>5. QED
    BY <1>1, <2>2, <2>3, <2>4
<1>4. CASE ~(k <= q)
  <2>1. 2 * r >= m /\ k <= q + 1
    BY <1>1, <1>2, <1>4
  <2>2. 2 * k - 1 <= 2 * q + 1 /\ 2 * k - 1 \in Int /\ 2 * q + 1 \in Int
    BY <1>1, <2>1
  <2>3. m * (2 * k - 1) <= m * (2 * q + 1)
    BY <2>2, TimesOrdered
  <2>4. m * q \in Int /\ m * (2 * q + 1) = 2 * (m * q) + m
    BY <1>1
  <2>5. m * (2 * k - 1) \in Int
    BY <2>2
  <2>6. QED
    BY <1>1, <2>1, <2>3, <2>4, <2>5
<1>5. QED
  BY <1>3, <1>4

(* Rounding keeps the order.                                               *)
LEMMA RoundedOrdered ==
  ASSUME NEW n \in Int, NEW p \in Int, NEW m \in Nat \ {0}, n <= p
  PROVE  RoundHalfEven(n, m) <= RoundHalfEven(p, m)
<1> DEFINE q == n \div m
           r == n % m
           s == p \div m
           t == p % m
<1>1. q \in Int /\ r \in Int /\ 0 <= r /\ r < m /\ n = m * q + r
  <2>1. q \in Int /\ r \in 0 .. m - 1 /\ n = m * q + r
    BY Division, Zenon
  <2> HIDE DEF q, r
  <2>2. QED
    BY <2>1
<1>2. s \in Int /\ t \in Int /\ 0 <= t /\ t < m /\ p = m * s + t
  <2>1. s \in Int /\ t \in 0 .. m - 1 /\ p = m * s + t
    BY Division, Zenon
  <2> HIDE DEF s, t
  <2>2. QED
    BY <2>1
<1>3. RoundHalfEven(n, m) =
        IF 2 * r < m \/ (2 * r = m /\ q % 2 = 0) THEN q ELSE q + 1
  BY DEF RoundHalfEven
<1>4. RoundHalfEven(p, m) =
        IF 2 * t < m \/ (2 * t = m /\ s % 2 = 0) THEN s ELSE s + 1
  BY DEF RoundHalfEven
<1> HIDE DEF q, r, s, t
<1>5. q <= s
  <2>1. CASE s < q
    <3>1. s + 1 <= q /\ s + 1 \in Int
      BY <1>1, <1>2, <2>1
    <3>2. m * (s + 1) <= m * q
      BY <1>1, <3>1, TimesOrdered
    <3>3. m * s \in Int /\ m * q \in Int /\ m * (s + 1) = m * s + m
      BY <1>1, <1>2
    <3>4. QED
      BY <1>1, <1>2, <3>2, <3>3
  <2>2. QED
    BY <1>1, <1>2, <2>1
<1>6. CASE q = s
  <2>1. m * q \in Int /\ r <= t
    BY <1>1, <1>2, <1>6
  <2>2. QED
    BY <1>1, <1>2, <1>3, <1>4, <1>6, <2>1
<1>7. CASE q + 1 <= s
  BY <1>1, <1>2, <1>3, <1>4, <1>7
<1>8. QED
  BY <1>1, <1>2, <1>5, <1>6, <1>7

(***************************************************************************)
(* The jumps of an account                                                 *)
(***************************************************************************)

UsageOnRows(a, service, d) ==
    {row \in rows : /\ row.account = a /\ row.service = service
                    /\ row.day = d /\ row.category = "usage"
                    /\ row.currency = AccountCurrency(Ledger, a)}

LEMMA UsageOnSelects ==
  ASSUME LedgerInv, NEW a \in Accounts, NEW service, NEW d \in Int
  PROVE  /\ UsageOn(Ledger, a, service, d) = Amount(UsageOnRows(a, service, d))
         /\ UsageOnRows(a, service, d)
              = {row \in PeriodRows({a}, BilledIn[a], d, d + 1) :
                    row.service = service}
<1>1. UsageOn(Ledger, a, service, d) = Amount(UsageOnRows(a, service, d))
  BY DEF UsageOn, UsageOnRows, Ledger
<1>2. \A row \in rows : row.account = a =>
        row.currency = BilledIn[a] /\ AccountCurrency(Ledger, a) = BilledIn[a]
  BY CurrencyOfRows
<1>3. \A row \in rows : row.day \in Nat
  BY DEF LedgerInv
<1>4. \A row \in rows : d <= row.day /\ row.day < d + 1 <=> row.day = d
  BY <1>3
<1>5. UsageOnRows(a, service, d)
        \subseteq {row \in PeriodRows({a}, BilledIn[a], d, d + 1) :
                      row.service = service}
  BY <1>2, <1>4 DEF UsageOnRows, PeriodRows
<1>6. {row \in PeriodRows({a}, BilledIn[a], d, d + 1) :
          row.service = service} \subseteq UsageOnRows(a, service, d)
  BY <1>2, <1>4 DEF UsageOnRows, PeriodRows
<1>7. QED
  BY <1>1, <1>5, <1>6

(* The usage the detector reads of a day that is in is the billed one.     *)
LEMMA UsageIsReal ==
  ASSUME LedgerInv, NEW a \in Accounts, NEW service, NEW d \in Int,
         DayIsIn(a, d)
  PROVE  UsageOn(Ledger, a, service, d) = TrueUsageOn(a, service, d)
<1> DEFINE one == {a}
           end == d + 1
           currency == BilledIn[a]
           P == PeriodRows(one, currency, d, end)
           D == Bill(one, currency, d, end)
           R == {row \in P : row.service = service}
           B == {x \in D : x.service = service}
<1>1. one \in SUBSET Accounts /\ end \in Int
  OBVIOUS
<1>2. \A b \in one, e \in d .. end - 1 :
        BilledIn[b] = currency => DayIsIn(b, e)
  <2>1. \A e \in d .. end - 1 : e = d
    OBVIOUS
  <2>2. QED
    BY <2>1
<1> HIDE DEF one, end, currency
<1>3. \A row \in P : Entered(row) \in D
  BY <1>1, RowsAreBilled
<1>4. \A row : Entered(row).service = row.service
  BY DEF Entered, Entry
<1>5. R \in SUBSET P /\ B \in SUBSET D
      /\ \A row \in P : row \in R <=> Entered(row) \in B
  BY <1>3, <1>4
<1> HIDE DEF R, B
<1>6. Amount(R) = Amount(B)
  BY <1>1, <1>2, <1>5, PeriodIsBilled
<1>7. QED
  BY <1>6, UsageOnSelects DEF TrueUsageOn, R, B, one, end, currency

LEMMA UsageOnTyped ==
  ASSUME LedgerInv, NEW a \in Accounts, NEW service, NEW d \in Int
  PROVE  /\ UsageOn(Ledger, a, service, d) \in Int
         /\ d < 0 => UsageOn(Ledger, a, service, d) = 0
<1> DEFINE P == PeriodRows({a}, BilledIn[a], d, d + 1)
           R == UsageOnRows(a, service, d)
<1>1. {a} \in SUBSET Accounts /\ d + 1 \in Int
  OBVIOUS
<1>2. /\ R \in SUBSET P /\ IsFiniteSet(P)
      /\ \A row \in P : row.amount \in Int
  <2>1. IsFiniteSet(P) /\ \A row \in P : row.amount \in Int
    <3> DEFINE one == {a}
               end == d + 1
    <3>1. one \in SUBSET Accounts /\ end \in Int
      OBVIOUS
    <3> HIDE DEF one, end
    <3>2. /\ IsFiniteSet(PeriodRows(one, BilledIn[a], d, end))
          /\ \A row \in PeriodRows(one, BilledIn[a], d, end) :
               row.amount \in Int
      BY <3>1, RowsAreBilled
    <3>3. QED
      BY <3>2 DEF one, end
  <2>2. R = {row \in P : row.service = service}
    BY UsageOnSelects
  <2> HIDE DEF P, R
  <2>3. QED
    BY <2>1, <2>2
<1>3. UsageOn(Ledger, a, service, d) = Amount(R)
  BY UsageOnSelects
<1>4. d < 0 => R = {}
  BY DEF UsageOnRows, LedgerInv
<1> HIDE DEF P, R
<1>5. IsFiniteSet(R) /\ \A row \in R : Amounts(R)[row] \in Int
  BY <1>2, FS_Subset DEF Amounts
<1>6. Amount(R) = Total(Amounts(R), R) /\ Total(Amounts(R), R) \in Int
  BY <1>5, AmountIsTotal, TotalTyped
<1>7. R = {} => Amount(R) = 0
  BY <1>6, TotalOfNone
<1>8. QED
  BY <1>3, <1>4, <1>6, <1>7

(* The two sums over the days of a baseline are totals.                    *)
LEMMA BaselineIsTotal ==
  ASSUME NEW S, IsFiniteSet(S), NEW ledger, NEW a, NEW service
  PROVE  MapThenSumSet(LAMBDA d : UsageOn(ledger, a, service, d), S)
            = Total([d \in S |-> UsageOn(ledger, a, service, d)], S)
<1> DEFINE w == [d \in S |-> UsageOn(ledger, a, service, d)]
           Folds(h) ==
             h = [s \in SUBSET S |->
                    IF s = {} THEN 0
                    ELSE UsageOn(ledger, a, service, CHOOSE x \in s : TRUE)
                            + h[s \ {CHOOSE x \in s : TRUE}]]
<1>1. MapThenSumSet(LAMBDA d : UsageOn(ledger, a, service, d), S)
        = (CHOOSE h : Folds(h))[S]
  BY Zenon DEF MapThenSumSet, MapThenFoldSet
<1>2. ASSUME NEW h PROVE Folds(h) <=> Adding(h, w, S)
  <2>1. \A s \in SUBSET S : s # {} =>
          w[Pick(s)] = UsageOn(ledger, a, service, CHOOSE x \in s : TRUE)
    BY Picked DEF Pick
  <2>2. QED
    BY <2>1 DEF Adding, Pick
<1> HIDE DEF Folds, w
<1>3. Adding(CHOOSE h : Folds(h), w, S)
  <2>1. PICK h : Adding(h, w, S)
    BY AddingExists
  <2>2. Folds(h)
    BY <1>2, <2>1
  <2>3. Folds(CHOOSE k : Folds(k))
    BY <2>2
  <2>4. QED
    BY <1>2, <2>3
<1>4. QED
  BY <1>1, <1>3, TotalAdds DEF w

LEMMA TrueBaselineIsTotal ==
  ASSUME NEW S, IsFiniteSet(S), NEW a, NEW service
  PROVE  MapThenSumSet(LAMBDA d : TrueUsageOn(a, service, d), S)
            = Total([d \in S |-> TrueUsageOn(a, service, d)], S)
<1> DEFINE w == [d \in S |-> TrueUsageOn(a, service, d)]
           Folds(h) ==
             h = [s \in SUBSET S |->
                    IF s = {} THEN 0
                    ELSE TrueUsageOn(a, service, CHOOSE x \in s : TRUE)
                            + h[s \ {CHOOSE x \in s : TRUE}]]
<1>1. MapThenSumSet(LAMBDA d : TrueUsageOn(a, service, d), S)
        = (CHOOSE h : Folds(h))[S]
  BY Zenon DEF MapThenSumSet, MapThenFoldSet
<1>2. ASSUME NEW h PROVE Folds(h) <=> Adding(h, w, S)
  <2>1. \A s \in SUBSET S : s # {} =>
          w[Pick(s)] = TrueUsageOn(a, service, CHOOSE x \in s : TRUE)
    BY Picked DEF Pick
  <2>2. QED
    BY <2>1 DEF Adding, Pick
<1> HIDE DEF Folds, w
<1>3. Adding(CHOOSE h : Folds(h), w, S)
  <2>1. PICK h : Adding(h, w, S)
    BY AddingExists
  <2>2. Folds(h)
    BY <1>2, <2>1
  <2>3. Folds(CHOOSE k : Folds(k))
    BY <2>2
  <2>4. QED
    BY <1>2, <2>3
<1>4. QED
  BY <1>1, <1>3, TotalAdds DEF w

(* A baseline whose days are in is the billed one.                         *)
LEMMA BaselineIsReal ==
  ASSUME LedgerInv, NEW a \in Accounts, NEW service, NEW day \in Int,
         \A d \in Window(day) : DayIsIn(a, d)
  PROVE  BaselineSum(Ledger, a, service, day)
            = TrueBaseline(a, service, day)
<1> DEFINE S == Window(day)
           w == [d \in S |-> UsageOn(Ledger, a, service, d)]
           v == [d \in S |-> TrueUsageOn(a, service, d)]
<1>1. day - BaselineDays \in Int /\ day - 1 \in Int
  BY AnomalyAssumption
<1>2. IsFiniteSet(S) /\ \A d \in S : d \in Int
  <2>1. IsFiniteSet(day - BaselineDays .. day - 1)
    BY <1>1, FS_Interval
  <2>2. QED
    BY <2>1 DEF Window
<1>3. \A d \in S : w[d] = v[d]
  BY <1>2, UsageIsReal
<1>4. BaselineSum(Ledger, a, service, day)
        = MapThenSumSet(LAMBDA d : UsageOn(Ledger, a, service, d), S)
  BY Zenon DEF BaselineSum
<1>5. TrueBaseline(a, service, day)
        = MapThenSumSet(LAMBDA d : TrueUsageOn(a, service, d), S)
  BY Zenon DEF TrueBaseline
<1> HIDE DEF S, w, v
<1>6. MapThenSumSet(LAMBDA d : UsageOn(Ledger, a, service, d), S)
        = Total(w, S)
  BY <1>2, BaselineIsTotal DEF w
<1>7. MapThenSumSet(LAMBDA d : TrueUsageOn(a, service, d), S) = Total(v, S)
  BY <1>2, TrueBaselineIsTotal DEF v
<1>8. Total(w, S) = Total(v, S)
  BY <1>2, <1>3, TotalSame
<1>9. QED
  BY <1>4, <1>5, <1>6, <1>7, <1>8

(* The runs of an account are counted from a day on.                       *)
Since(a, end) ==
    SinceFirst(end, DaysWithRows(Ledger, a), StoredRuns(Ledger, a))

LEMMA SinceTyped ==
  ASSUME LedgerInv, NEW a \in Accounts, NEW end \in Int
  PROVE  Since(a, end) \in Windows /\ Since(a, end).end = end
<1> DEFINE mine == {r \in rows : r.account = a}
           days == DaysWithRows(Ledger, a)
           list == StoredRuns(Ledger, a)
           starts == {run.window.start : run \in Range(list)}
<1>1. IsFiniteSet(days) /\ days \in SUBSET Int
  <2> DEFINE f == [row \in mine |-> row.day]
  <2>1. mine \in SUBSET rows /\ IsFiniteSet(rows)
        /\ \A row \in mine : row.day \in Int
    BY DEF LedgerInv
  <2>2. days = {row.day : row \in mine}
    BY DEF DaysWithRows, Ledger
  <2>3. f \in Surjection(mine, days)
    BY <2>2 DEF Surjection
  <2> HIDE DEF mine, f, days
  <2>4. IsFiniteSet(days)
    BY <2>1, <2>3, FS_Subset, FS_Surjection
  <2>5. QED
    BY <2>1, <2>2, <2>4
<1>2. IsFiniteSet(starts) /\ starts \in SUBSET Int
  <2> DEFINE own == OwnRuns(a, {"success"})
             n == Cardinality(own)
             f == [k \in 1 .. n |-> list[k].window.start]
  <2>1. /\ n \in Nat /\ DOMAIN list = 1 .. n
        /\ \A k \in DOMAIN list : \E i \in own : list[k] = runs[i]
    BY RunsListed DEF StoredRuns, LastSuccess
  <2>2. \A i \in own : runs[i].window.start \in Int
    <3>1. \A i \in own : runs[i] \in RunRecords
      BY DEF OwnRuns, LedgerInv
    <3>2. QED
      BY <3>1 DEF RunRecords, Windows
  <2>3. \A k \in 1 .. n : list[k].window.start \in Int
    BY <2>1, <2>2
  <2>4. starts = {list[k].window.start : k \in 1 .. n}
    BY <2>1 DEF Range
  <2>5. f \in Surjection(1 .. n, starts)
    BY <2>4 DEF Surjection
  <2>6. IsFiniteSet(1 .. n)
    <3>1. n \in Int /\ 1 \in Int
      BY <2>1
    <3> HIDE DEF n
    <3>2. QED
      BY <3>1, FS_Interval
  <2> HIDE DEF own, n, f, list, starts
  <2>7. IsFiniteSet(starts)
    BY <2>5, <2>6, FS_Surjection
  <2>8. QED
    BY <2>3, <2>4, <2>7
<1> DEFINE first == days \union starts
<1>3. FirstDays(days, list) = first
  BY DEF FirstDays
<1> HIDE DEF days, list, starts, mine
<1>4. IsFiniteSet(first) /\ first \in SUBSET Int
  BY <1>1, <1>2, FS_Union
<1> HIDE DEF first
<1>5. first # {} => Min(first) \in Int
  BY <1>4, MinOfFinite
<1>6. Since(a, end) = [start |-> IF first = {} THEN end ELSE Min(first),
                       end |-> end]
  BY <1>3 DEF Since, SinceFirst, days, list
<1>7. QED
  BY <1>5, <1>6 DEF Windows

LEMMA BasisSince ==
  ASSUME LedgerInv, NEW a \in Accounts, NEW end \in Int
  PROVE  BasisSinceFirst(Ledger, a, end)
            = [d \in DaysOf(Since(a, end)) |-> KnownOn(a, d)]
<1>1. BasisSinceFirst(Ledger, a, end) = BasisOf(Ledger, a, Since(a, end))
  BY DEF BasisSinceFirst, Since
<1>2. QED
  BY <1>1, SinceTyped, DayBasis

(* The days on which nothing holds the judgement back.                     *)
Basis(a) == BasisSinceFirst(Ledger, a, EligibleEnd(today))
JudgedDays(a) == {d \in Int : HeldReason(Basis(a), d) = None}

LEMMA JudgedIsConfirmed ==
  ASSUME LedgerInv, NEW a \in Accounts, NEW day \in JudgedDays(a)
  PROVE  /\ day \in Int /\ day < EligibleEnd(today)
         /\ day \in AnalysisReadyDays(Basis(a))
         /\ \A d \in Window(day) \union {day} :
              d \in Int /\ Covering(a, d) # {}
<1> DEFINE end == EligibleEnd(today)
           ready == AnalysisReadyDays(Basis(a))
<1>1. end \in Int /\ today \in Int
  BY AnomalyAssumption, LedgerAssumption DEF LedgerInv, EligibleEnd
<1>2. day \in ready /\ Window(day) \subseteq ready /\ day \in Int
  BY DEF JudgedDays, HeldReason, None
<1>3. ASSUME NEW d \in ready
      PROVE  d \in Int /\ d < end /\ Covering(a, d) # {}
  <2>1. Basis(a) = [e \in DaysOf(Since(a, end)) |-> KnownOn(a, e)]
    BY <1>1, BasisSince DEF Basis
  <2>2. d \in DaysOf(Since(a, end)) /\ KnownOn(a, d) = CompleteRange
    BY <2>1 DEF AnalysisReadyDays
  <2>3. Since(a, end) \in Windows /\ Since(a, end).end = end
    BY <1>1, SinceTyped
  <2>4. d \in Int /\ d < end
    BY <1>1, <2>2, <2>3 DEF DaysOf, Windows
  <2>5. Covering(a, d) # {}
    BY <2>2 DEF KnownOn, CompleteRange, NotObserved
  <2>6. QED
    BY <2>4, <2>5
<1>4. QED
  BY <1>2, <1>3

ServicesSeen(a) == {row.service : row \in {r \in rows : r.account = a}}

(* All that is found of an account.                                        *)
JumpsOf(a, days) ==
    IF AccountCurrency(Ledger, a) # None
         /\ AccountCurrency(Ledger, a) \in DOMAIN MinDelta
    THEN {item \in ServicesSeen(a) \X days :
            item[2] \in JudgedDays(a) /\ IsJump(Ledger, a, item[1], item[2])}
    ELSE {}

LEMMA ItemsOf ==
  ASSUME LedgerInv, NEW a \in Accounts, NEW start \in Int
  PROVE  EvaluateAccount(Ledger, a, start, EligibleEnd(today)).items
            = JumpsOf(a, start .. EligibleEnd(today) - 1)
<1> DEFINE end == EligibleEnd(today)
           reasons == [d \in start .. end - 1 |-> HeldReason(Basis(a), d)]
           currency == AccountCurrency(Ledger, a)
           answer == EvaluateAccount(Ledger, a, start, end)
           judged == {d \in DOMAIN reasons : reasons[d] = None}
<1>1. end \in Int
  BY AnomalyAssumption, LedgerAssumption DEF LedgerInv, EligibleEnd
<1>2. judged = (start .. end - 1) \intersect JudgedDays(a)
  BY DEF JudgedDays
<1>3. JudgeDays(Ledger, a, reasons, end - 1).items
        = {item \in ServicesSeen(a) \X judged :
              IsJump(Ledger, a, item[1], item[2])}
  BY DEF JudgeDays, ServicesSeen, Ledger
<1>4. {item \in ServicesSeen(a) \X judged :
          IsJump(Ledger, a, item[1], item[2])}
        = {item \in ServicesSeen(a) \X (start .. end - 1) :
              item[2] \in JudgedDays(a) /\ IsJump(Ledger, a, item[1], item[2])}
  <2> HIDE DEF judged
  <2>1. QED
    BY <1>2
<1>5. /\ end <= start => answer.items = {}
      /\ ~(end <= start) /\ currency = None => answer.items = {}
      /\ ~(end <= start) /\ currency # None /\ currency \notin DOMAIN MinDelta
           => answer.items = {}
      /\ ~(end <= start) /\ currency # None /\ currency \in DOMAIN MinDelta
           => answer = JudgeDays(Ledger, a, reasons, end - 1)
  BY DEF EvaluateAccount, Basis
<1> HIDE DEF answer, reasons, currency, judged, end
<1>6. end <= start => start .. end - 1 = {}
  BY <1>1
<1>7. QED
  BY <1>1, <1>3, <1>4, <1>5, <1>6 DEF JumpsOf, answer, currency, end

LEMMA BaselineTyped ==
  ASSUME LedgerInv, NEW a \in Accounts, NEW service, NEW day \in Int
  PROVE  /\ BaselineSum(Ledger, a, service, day) \in Int
         /\ day < 0 => BaselineSum(Ledger, a, service, day) = 0
<1> DEFINE S == Window(day)
           w == [d \in S |-> UsageOn(Ledger, a, service, d)]
<1>1. day - BaselineDays \in Int /\ day - 1 \in Int
  BY AnomalyAssumption
<1>2. /\ IsFiniteSet(S) /\ \A d \in S : d \in Int
      /\ day < 0 => \A d \in S : d < 0
  <2>1. IsFiniteSet(day - BaselineDays .. day - 1)
    BY <1>1, FS_Interval
  <2>2. QED
    BY <1>1, <2>1 DEF Window
<1>3. BaselineSum(Ledger, a, service, day)
        = MapThenSumSet(LAMBDA d : UsageOn(Ledger, a, service, d), S)
  BY Zenon DEF BaselineSum
<1> HIDE DEF S
<1>4. /\ \A d \in S : w[d] \in Int
      /\ day < 0 => \A d \in S : w[d] = 0
  BY <1>2, UsageOnTyped
<1>5. MapThenSumSet(LAMBDA d : UsageOn(Ledger, a, service, d), S)
        = Total(w, S)
  BY <1>2, BaselineIsTotal
<1> HIDE DEF w
<1>6. Total(w, S) \in Int /\ (day < 0 => Total(w, S) = 0)
  BY <1>2, <1>4, TotalTyped, TotalOfZeros
<1>7. QED
  BY <1>3, <1>5, <1>6

(* Before day 0 nothing is stored, and nothing jumps.                      *)
LEMMA NoEarlyJump ==
  ASSUME LedgerInv, NEW a \in Accounts, NEW service, NEW day \in Int,
         day < 0, AccountCurrency(Ledger, a) \in DOMAIN MinDelta
  PROVE  ~IsJump(Ledger, a, service, day)
<1> DEFINE usage == UsageOn(Ledger, a, service, day)
           before == BaselineSum(Ledger, a, service, day)
           least == MinDelta[AccountCurrency(Ledger, a)]
<1>1. usage = 0 /\ before = 0
  BY UsageOnTyped, BaselineTyped
<1>2. least \in Nat \ {0} /\ BaselineDays \in Nat \ {0}
  BY AnomalyAssumption
<1>3. IsJump(Ledger, a, service, day) =>
        BaselineDays * usage - before >= BaselineDays * least
  BY DEF IsJump, Jumps
<1> HIDE DEF usage, before, least
<1>4. BaselineDays * usage - before = 0
  BY <1>1, <1>2
<1>5. BaselineDays * 1 <= BaselineDays * least
  BY <1>2, TimesOrdered
<1>6. BaselineDays * least \in Int /\ BaselineDays * 1 = BaselineDays
  BY <1>2
<1>7. QED
  BY <1>2, <1>3, <1>4, <1>5, <1>6

(* What a period from day 0 on lists of an account is all there is.        *)
LEMMA ListedItems ==
  ASSUME LedgerInv, NEW a \in Accounts
  PROVE  EvaluateAccount(Ledger, a, 0, EligibleEnd(today)).items
            = JumpsOf(a, Int)
<1> DEFINE end == EligibleEnd(today)
<1>1. end \in Int
  BY AnomalyAssumption, LedgerAssumption DEF LedgerInv, EligibleEnd
<1>2. \A item \in JumpsOf(a, Int) :
        item[2] \in Int /\ item[2] < end /\ ~(item[2] < 0)
  BY JudgedIsConfirmed, NoEarlyJump DEF JumpsOf
<1> HIDE DEF end
<1>3. \A item \in JumpsOf(a, Int) : item[2] \in 0 .. end - 1
  BY <1>1, <1>2
<1>4. JumpsOf(a, 0 .. end - 1) \subseteq JumpsOf(a, Int)
  BY <1>1 DEF JumpsOf
<1>5. JumpsOf(a, Int) \subseteq JumpsOf(a, 0 .. end - 1)
  BY <1>3 DEF JumpsOf
<1>6. EvaluateAccount(Ledger, a, 0, EligibleEnd(today)).items
        = JumpsOf(a, 0 .. end - 1)
  BY ItemsOf DEF end
<1>7. QED
  BY <1>4, <1>5, <1>6

(* So is what the evaluation of all that is stored announces.              *)
LEMMA StoredItems ==
  ASSUME LedgerInv, NEW a \in Accounts
  PROVE  EvaluateAllStored(Ledger, a).items = JumpsOf(a, Int)
<1> DEFINE end == EligibleEnd(today)
           basis == Basis(a)
           ready == AnalysisReadyDays(basis)
           days == IF ready # {} THEN ready ELSE CoveredDays(basis)
<1>1. end \in Int
  BY AnomalyAssumption, LedgerAssumption DEF LedgerInv, EligibleEnd
<1>2. EvaluateAllStored(Ledger, a) =
        IF days = {} THEN [verdict |-> "nothing", items |-> {}, held |-> {}]
        ELSE EvaluateAccount(Ledger, a, Min(days), end)
  BY DEF EvaluateAllStored, Basis, Ledger
<1>3. days \in SUBSET Int /\ IsFiniteSet(days)
  <2> DEFINE T == DaysOf(Since(a, end))
  <2>1. basis = [d \in T |-> KnownOn(a, d)]
    BY <1>1, BasisSince DEF Basis
  <2>2. days \in SUBSET T
    <3> HIDE DEF T
    <3>1. QED
      BY <2>1 DEF AnalysisReadyDays, CoveredDays
  <2>3. Since(a, end) \in Windows
    BY <1>1, SinceTyped
  <2>4. IsFiniteSet(T) /\ T \in SUBSET Int
    <3> DEFINE low == Since(a, end).start
               high == Since(a, end).end - 1
    <3>1. low \in Int /\ high \in Int
      BY <2>3 DEF Windows
    <3> HIDE DEF low, high
    <3>2. IsFiniteSet(low .. high) /\ low .. high \in SUBSET Int
      BY <3>1, FS_Interval
    <3>3. QED
      BY <3>2 DEF DaysOf, low, high
  <2> HIDE DEF days, T
  <2>5. QED
    BY <2>2, <2>4, FS_Subset
<1>4. \A item \in JumpsOf(a, Int) :
        item[2] \in ready /\ item[2] \in Int /\ item[2] < end
  BY JudgedIsConfirmed DEF JumpsOf
<1>5. ready # {} => days = ready
  OBVIOUS
<1>6. CASE days = {}
  <2>1. ready = {}
    BY <1>5, <1>6
  <2>2. JumpsOf(a, Int) = {}
    BY <1>4, <2>1
  <2>3. QED
    BY <1>2, <1>6, <2>2
<1>7. CASE days # {}
  <2> HIDE DEF days, ready, basis
  <2>1. Min(days) \in Int /\ \A d \in days : Min(days) <= d
    BY <1>3, <1>7, MinOfFinite
  <2> DEFINE first == Min(days)
  <2>2. EvaluateAccount(Ledger, a, first, EligibleEnd(today)).items
          = JumpsOf(a, first .. end - 1)
    BY <2>1, ItemsOf
  <2>3. \A item \in JumpsOf(a, Int) : item[2] \in first .. end - 1
    <3>1. \A item \in JumpsOf(a, Int) : item[2] \in days
      BY <1>4, <1>5
    <3>2. QED
      BY <1>1, <1>4, <2>1, <3>1
  <2> HIDE DEF first, end
  <2>4. JumpsOf(a, first .. end - 1) \subseteq JumpsOf(a, Int)
    BY <1>1, <2>1 DEF JumpsOf, first
  <2>5. JumpsOf(a, Int) \subseteq JumpsOf(a, first .. end - 1)
    BY <2>3 DEF JumpsOf
  <2>6. QED
    BY <1>2, <1>7, <2>2, <2>4, <2>5 DEF first, end
<1>8. QED
  BY <1>6, <1>7

(* The page lists of an account exactly these.                             *)
LEMMA ListedJumps ==
  ASSUME LedgerInv, NEW a \in keys
  PROVE  {<<a, item[1], item[2]>> : item \in JumpsOf(a, Int)}
            = {x \in DetectAnomalies(Ledger, Question(0, today), "all", {}) :
                  x[1] = a}
<1> DEFINE q == Question(0, today)
           end == EligibleEnd(today)
           found(b) == {<<b, item[1], item[2]>> :
                          item \in EvaluateAccount(Ledger, b, 0, end).items}
           owned == {b \in OwnedAccounts(Ledger, q) :
                        IsCostSupported(Provider[b])}
           page == DetectAnomalies(Ledger, q, "all", {})
<1>1. today \in Int /\ end \in Int /\ end <= today /\ a \in Accounts
      /\ keys \subseteq Accounts
  BY AnomalyAssumption, LedgerAssumption DEF LedgerInv, EligibleEnd
<1>2. Min({today, end}) = end
  <2>1. \A x \in {today, end} : end <= x
    BY <1>1
  <2>2. Min({today, end}) \in {today, end}
        /\ \A x \in {today, end} : Min({today, end}) <= x
    BY <2>1 DEF Min
  <2> DEFINE m == Min({today, end})
  <2> HIDE DEF end, m
  <2>3. m \in {today, end} /\ m <= end
    BY <2>2 DEF m
  <2>4. m = end
    BY <1>1, <2>3
  <2>5. QED
    BY <2>4 DEF m
<1>3. owned = {b \in keys : IsCostSupported(Provider[b])}
  BY DEF OwnedAccounts, Ledger, Question
<1>4. page = UNION {found(b) : b \in owned}
  <2>1. /\ q.start = 0 /\ Ledger.today = today
        /\ Min({q.end, EligibleEnd(Ledger.today)}) = end
    BY <1>2 DEF Question, Ledger
  <2> DEFINE listed(s, e) ==
               UNION {{<<b, item[1], item[2]>> :
                         item \in EvaluateAccount(Ledger, b, s, e).items} :
                      b \in owned}
  <2> HIDE DEF q
  <2>2. page = listed(q.start, Min({q.end, EligibleEnd(Ledger.today)}))
    BY DEF DetectAnomalies
  <2>3. listed(0, end) = UNION {found(b) : b \in owned}
    OBVIOUS
  <2> HIDE DEF owned, page, end, found, listed
  <2>4. QED
    BY <2>1, <2>2, <2>3, Zenon
<1>5. \A b \in owned : found(b) = {<<b, item[1], item[2]>> :
                                      item \in JumpsOf(b, Int)}
  BY <1>1, <1>3, ListedItems
<1>6. ~IsCostSupported(Provider[a]) => JumpsOf(a, Int) = {}
  <2>1. ASSUME NEW row \in rows, row.account = a
        PROVE  IsCostSupported(Provider[a])
    <3>1. PICK i \in DOMAIN runs : LatestOf(i, Covering(a, row.day))
      BY <2>1, RowOrigin
    <3>2. runs[i].account = a /\ RunFits(i)
      BY <3>1 DEF LatestOf, Covering, LedgerInv
    <3>3. QED
      BY <3>2 DEF RunFits
  <2>2. ~IsCostSupported(Provider[a]) => ServicesSeen(a) = {}
    BY <2>1 DEF ServicesSeen
  <2>3. QED
    BY <2>2 DEF JumpsOf
<1> HIDE DEF owned, found, page, end, q
<1>7. ASSUME NEW x \in page, x[1] = a
      PROVE  x \in {<<a, item[1], item[2]>> : item \in JumpsOf(a, Int)}
  <2>1. PICK b \in owned : x \in found(b)
    BY <1>4, <1>7
  <2>2. PICK item \in JumpsOf(b, Int) : x = <<b, item[1], item[2]>>
    BY <1>5, <2>1
  <2>3. b = a
    BY <1>7, <2>2
  <2>4. QED
    BY <2>2, <2>3
<1>8. ASSUME NEW item \in JumpsOf(a, Int)
      PROVE  <<a, item[1], item[2]>> \in page
  <2>1. a \in owned
    BY <1>3, <1>6
  <2>2. <<a, item[1], item[2]>> \in found(a)
    BY <1>5, <2>1
  <2>3. QED
    BY <1>4, <2>1, <2>2
<1>9. \A item : <<a, item[1], item[2]>>[1] = a
  OBVIOUS
<1>10. QED
  BY <1>7, <1>8, <1>9 DEF page, q

(* A jump that is found over settled days is one of the real charges.      *)
LEMMA JumpIsReal ==
  ASSUME LedgerInv, NEW a \in keys, NEW item \in JumpsOf(a, Int),
         Settled(a, item[2] - BaselineDays, item[2] + 1)
  PROVE  LET amount == TrueUsageOn(a, item[1], item[2])
             before == TrueBaseline(a, item[1], item[2])
         IN  /\ BaselineDays * amount - before
                  >= BaselineDays * MinDelta[BilledIn[a]]
             /\ before > 0 =>
                  200 * BaselineDays * amount
                    >= (200 + 2 * MinIncreasePct - 1) * before
<1> DEFINE service == item[1]
           day == item[2]
           amount == TrueUsageOn(a, service, day)
           before == TrueBaseline(a, service, day)
<1>1. /\ a \in Accounts /\ day \in JudgedDays(a) /\ day \in Int
      /\ IsJump(Ledger, a, service, day)
      /\ AccountCurrency(Ledger, a) # None
  BY DEF JumpsOf, LedgerInv
<1>2. AccountCurrency(Ledger, a) = BilledIn[a]
  BY <1>1, CurrencyOfRows
<1>3. ASSUME NEW d \in Window(day) \union {day}
      PROVE  d \in Int /\ DayIsIn(a, d)
  <2>1. d \in Int /\ Covering(a, d) # {}
    BY <1>1, JudgedIsConfirmed
  <2>2. /\ day - BaselineDays \in Int /\ day + 1 \in Int
        /\ d \in day - BaselineDays .. (day + 1) - 1
    BY <1>1, <2>1, AnomalyAssumption DEF Window
  <2> DEFINE low == day - BaselineDays
             high == day + 1
  <2>3. Settled(a, low, high)
    OBVIOUS
  <2> HIDE DEF low, high, day
  <2>4. DayIsIn(a, d)
    BY <2>1, <2>2, <2>3, SettledDay DEF low, high
  <2>5. QED
    BY <2>1, <2>4
<1>4. /\ UsageOn(Ledger, a, service, day) = amount /\ amount \in Int
      /\ BaselineSum(Ledger, a, service, day) = before /\ before \in Int
  <2>1. UsageOn(Ledger, a, service, day) = amount
    BY <1>1, <1>3, UsageIsReal
  <2>2. BaselineSum(Ledger, a, service, day) = before
    <3>1. \A d \in Window(day) : DayIsIn(a, d)
      BY <1>3
    <3> HIDE DEF service, day
    <3>2. QED
      BY <1>1, <3>1, BaselineIsReal
  <2>3. /\ UsageOn(Ledger, a, service, day) \in Int
        /\ BaselineSum(Ledger, a, service, day) \in Int
    BY <1>1, UsageOnTyped, BaselineTyped
  <2> HIDE DEF amount, before
  <2>4. QED
    BY <2>1, <2>2, <2>3
<1> DEFINE delta == BaselineDays * amount - before
<1>5. /\ delta >= BaselineDays * MinDelta[BilledIn[a]]
      /\ before = 0 \/ RoundHalfEven(1000 * delta, before)
                          >= 10 * MinIncreasePct
  <2> HIDE DEF amount, before, service, day
  <2>1. Jumps(BaselineDays * UsageOn(Ledger, a, service, day)
                - BaselineSum(Ledger, a, service, day),
              BaselineSum(Ledger, a, service, day), BilledIn[a])
    BY <1>1, <1>2 DEF IsJump
  <2>2. Jumps(delta, before, BilledIn[a])
    BY <1>4, <2>1
  <2> HIDE DEF delta
  <2>3. QED
    BY <2>2 DEF Jumps
<1>6. ASSUME before > 0
      PROVE  200 * BaselineDays * amount
                >= (200 + 2 * MinIncreasePct - 1) * before
  <2> HIDE DEF amount, before
  <2> DEFINE x == BaselineDays * amount
             p == MinIncreasePct * before
  <2>1. /\ BaselineDays \in Nat /\ MinIncreasePct \in Nat
        /\ x \in Int /\ p \in Int /\ before \in Nat \ {0}
        /\ 1000 * delta \in Int /\ 10 * MinIncreasePct \in Int
    BY <1>4, <1>6, AnomalyAssumption
  <2>2. 2 * (1000 * delta) >= before * (2 * (10 * MinIncreasePct) - 1)
    <3>1. RoundHalfEven(1000 * delta, before) >= 10 * MinIncreasePct
      BY <1>5, <2>1
    <3> HIDE DEF delta
    <3>2. QED
      BY <2>1, <3>1, RoundedReaches
  <2>3. before * (2 * (10 * MinIncreasePct) - 1) = 20 * p - before
    BY <2>1
  <2>4. 200 * BaselineDays * amount = 200 * x
    BY <1>4, <2>1
  <2>5. (200 + 2 * MinIncreasePct - 1) * before = 199 * before + 2 * p
    BY <2>1
  <2>6. delta = x - before
    OBVIOUS
  <2> HIDE DEF x, p, delta
  <2>7. 2000 * (x - before) >= 20 * p - before
    BY <2>1, <2>2, <2>3, <2>6
  <2>8. 200 * x >= 199 * before + 2 * p
    BY <2>1, <2>7
  <2>9. QED
    BY <2>4, <2>5, <2>8
<1>7. QED
  BY <1>5, <1>6

(* No jump is invented: what the detector announces after a collection and *)
(* what the page lists are the same jumps, and each is one of the real     *)
(* charges over a whole baseline, whatever was collected when, by whom and *)
(* in which order (evaluate_all_stored, evaluate_account, detect).         *)
THEOREM JumpsAreReal == Spec => []AnomaliesAreReal
<1>1. ASSUME LedgerInv PROVE AnomaliesAreReal
  <2>1. ASSUME NEW a \in keys
        PROVE  {<<a, item[1], item[2]>> :
                  item \in EvaluateAllStored(Ledger, a).items}
                = {x \in DetectAnomalies(Ledger, Question(0, today),
                                         "all", {}) : x[1] = a}
    <3>1. a \in Accounts
      BY <1>1 DEF LedgerInv
    <3>2. EvaluateAllStored(Ledger, a).items = JumpsOf(a, Int)
      BY <1>1, <3>1, StoredItems
    <3>3. QED
      BY <1>1, <3>2, ListedJumps
  <2>2. ASSUME NEW a \in keys, NEW item \in EvaluateAllStored(Ledger, a).items,
               Settled(a, item[2] - BaselineDays, item[2] + 1)
        PROVE  LET amount == TrueUsageOn(a, item[1], item[2])
                   before == TrueBaseline(a, item[1], item[2])
               IN  /\ BaselineDays * amount - before
                        >= BaselineDays * MinDelta[BilledIn[a]]
                   /\ before > 0 =>
                        200 * BaselineDays * amount
                          >= (200 + 2 * MinIncreasePct - 1) * before
    <3>1. a \in Accounts
      BY <1>1 DEF LedgerInv
    <3>2. item \in JumpsOf(a, Int)
      BY <1>1, <3>1, StoredItems
    <3>3. QED
      BY <1>1, <2>2, <3>2, JumpIsReal
  <2>3. QED
    BY <2>1, <2>2, Zenon DEF AnomaliesAreReal
<1>2. QED
  BY <1>1, LedgerInductive, PTL

(***************************************************************************)
(* The forecast and the comparison                                         *)
(***************************************************************************)

LEMMA AmountOfNone == Amount({}) = 0
BY AmountIsTotal, TotalOfNone, FS_EmptySet

(* An account with rows is one that something may collect.                 *)
LEMMA CollectedIsEnabled ==
  ASSUME LedgerInv
  PROVE  /\ \A a, d : Covering(a, d) # {} =>
              IngestEnabled(a) /\ IsCostSupported(Provider[a])
         /\ \A row \in rows : IngestEnabled(row.account)
                                /\ IsCostSupported(Provider[row.account])
<1>1. ASSUME NEW a, NEW d, Covering(a, d) # {}
      PROVE  IngestEnabled(a) /\ IsCostSupported(Provider[a])
  <2>1. PICK i \in DOMAIN runs : runs[i].account = a
    BY <1>1 DEF Covering
  <2>2. RunFits(i)
    BY DEF LedgerInv
  <2>3. QED
    BY <2>1, <2>2 DEF RunFits
<1>2. \A row \in rows : Covering(row.account, row.day) # {}
  BY RowOrigin DEF LatestOf
<1>3. QED
  BY <1>1, <1>2

LEMMA EnabledIsSupported ==
  ASSUME NEW a, IngestEnabled(a) PROVE IsCostSupported(Provider[a])
BY DEF IngestEnabled, ManualIngestDenial, AutoIngestAllowed, Denial, None,
   KnownProviders, IsCostSupported, CostAdapters

(* What the coverage of an account says of the runs.                       *)
LEMMA CoverageMeans ==
  ASSUME LedgerInv, NEW a \in Accounts, NEW start \in Int, NEW end \in Int,
         end <= today
  PROVE  /\ AccountCoverage(Ledger, a, start, end).missing = {} =>
              \A d \in start .. end - 1 : Covering(a, d) # {}
         /\ AccountCoverage(Ledger, a, start, end).covered > 0 =>
              IngestEnabled(a)
<1> DEFINE window == [start |-> start, end |-> end]
           basis == BasisOf(Ledger, a, window)
<1>1. today \in Int
  BY LedgerAssumption DEF LedgerInv
<1>2. Min({end, today}) = end
  BY <1>1, MinOfTwo
<1>3. AccountCoverage(Ledger, a, start, end) = CoverageOf(basis)
  BY <1>2 DEF AccountCoverage, Ledger
<1>4. window \in Windows /\ DaysOf(window) = start .. end - 1
  BY DEF Windows, DaysOf
<1>5. basis = [d \in start .. end - 1 |-> KnownOn(a, d)]
  BY <1>4, DayBasis
<1> HIDE DEF basis
<1>6. ASSUME MissingDays(basis) = {}, NEW d \in start .. end - 1
      PROVE  Covering(a, d) # {}
  <2>1. KnownOn(a, d) # NotObserved
    BY <1>5, <1>6 DEF MissingDays
  <2>2. QED
    BY <2>1 DEF KnownOn
<1>7. ASSUME Cardinality(CoveredDays(basis)) > 0
      PROVE  IngestEnabled(a)
  <2>1. CoveredDays(basis) # {}
    BY <1>7, FS_EmptySet
  <2>2. PICK d \in start .. end - 1 : KnownOn(a, d) # NotObserved
    BY <1>5, <2>1 DEF CoveredDays
  <2>3. Covering(a, d) # {}
    BY <2>2 DEF KnownOn
  <2>4. QED
    BY <2>3, CollectedIsEnabled
<1>8. /\ CoverageOf(basis).missing = MissingDays(basis)
      /\ CoverageOf(basis).covered = Cardinality(CoveredDays(basis))
  BY DEF CoverageOf
<1>9. QED
  BY <1>3, <1>6, <1>7, <1>8

(* A period whose days are all in costs what was billed.                   *)
LEMMA PeriodIsTrue ==
  ASSUME LedgerInv, NEW accounts \in SUBSET Accounts, NEW currency,
         NEW start \in Int, NEW end \in Int,
         \A a \in accounts, d \in start .. end - 1 :
            BilledIn[a] = currency => DayIsIn(a, d)
  PROVE  Amount(PeriodRows(accounts, currency, start, end))
            = TrueUsage(accounts, currency, start, end)
<1> DEFINE P == PeriodRows(accounts, currency, start, end)
           D == Bill(accounts, currency, start, end)
<1>1. \A row \in P : row \in P <=> Entered(row) \in D
  BY RowsAreBilled
<1>2. P \in SUBSET P /\ D \in SUBSET D
  OBVIOUS
<1>3. Amount(P) = Amount(D)
  BY <1>1, <1>2, PeriodIsBilled
<1>4. QED
  BY <1>3 DEF TrueUsage

(* The usage rows a question of the page is about are those of the         *)
(* accounts that something may collect.                                    *)
LEMMA QuestionRows ==
  ASSUME LedgerInv, NEW q, q.providers = {}, q.accounts = {}, NEW end
  PROVE  /\ OwnedAccounts(Ledger, q) = keys
         /\ q.currency = None => \A c :
              {row \in RowsIn(Ledger, q, {"usage"}, end) : row.currency = c}
                = PeriodRows(Collectable, c, q.start, end)
         /\ q.currency # None =>
              RowsIn(Ledger, q, {"usage"}, end)
                = PeriodRows(Collectable, q.currency, q.start, end)
<1>1. OwnedAccounts(Ledger, q) = keys
  BY DEF OwnedAccounts, Ledger
<1>2. \A row \in rows : row.account \in keys <=> row.account \in Collectable
  BY CollectedIsEnabled DEF Collectable
<1>3. RowsIn(Ledger, q, {"usage"}, end)
        = {row \in rows : /\ row.account \in Collectable
                          /\ q.start <= row.day /\ row.day < end
                          /\ q.currency = None \/ row.currency = q.currency
                          /\ row.category = "usage"}
  <2>1. Ledger.rows = rows
    BY DEF Ledger
  <2>2. QED
    BY <1>1, <1>2, <2>1 DEF RowsIn
<1>4. QED
  BY <1>1, <1>3 DEF PeriodRows

(* The accounts such a question is about, and those that hold it up.       *)
LEMMA TargetsOf ==
  ASSUME LedgerInv, NEW q, q.providers = {}, q.accounts = {},
         q.currency = None
  PROVE  EvaluableAccounts(Ledger, q)
            = {a \in keys : IsCostSupported(Provider[a])}
<1>1. OwnedAccounts(Ledger, q) = keys
  BY QuestionRows
<1>2. CurrencyExcluded(Ledger, q) = {}
  BY DEF CurrencyExcluded
<1>3. QED
  BY <1>1, <1>2 DEF EvaluableAccounts

LEMMA KeptIsCollectable ==
  ASSUME LedgerInv, NEW targets,
         targets = {a \in keys : IsCostSupported(Provider[a])},
         NEW coverages,
         \A coverage \in coverages : \A a \in targets :
            coverage[a].covered > 0 => IngestEnabled(a)
  PROVE  KeptAccounts(targets, coverages) = Collectable
BY EnabledIsSupported DEF KeptAccounts, Collectable

LEMMA CollectableDays ==
  ASSUME LedgerInv, NEW start \in Int, NEW end \in Int, end <= today,
         \A a \in Collectable : AccountCoverage(Ledger, a, start, end).missing
                                  = {},
         \A a \in Collectable : \A d \in start .. end - 1 :
            Covering(a, d) # {} => DayIsIn(a, d)
  PROVE  \A currency :
            Amount(PeriodRows(Collectable, currency, start, end))
              = TrueUsage(Collectable, currency, start, end)
<1>1. Collectable \in SUBSET Accounts
  BY DEF Collectable, LedgerInv
<1>2. ASSUME NEW a \in Collectable, NEW d \in start .. end - 1
      PROVE  DayIsIn(a, d)
  <2>1. Covering(a, d) # {}
    BY <1>1, CoverageMeans
  <2>2. QED
    BY <2>1
<1>3. QED
  BY <1>1, <1>2, PeriodIsTrue

(* What a currency adds up to over the days of the month that are over.    *)
SpentThisMonth(c) ==
    Amount(PeriodRows(Collectable, c, FirstOfMonth(today), today))
MonthSums ==
    SumByCurrency(Ledger, MonthToDate, MonthToDate.categories, today)
MonthAmounts ==
    AmountsOrZero(MonthToDate, MonthSums,
                  Range(AccountsCurrencyMap(Ledger, Collectable)))
MonthCoverage ==
    PeriodCoverage(Ledger, EvaluableAccounts(Ledger, MonthToDate),
                   FirstOfMonth(today), today)

LEMMA AmountsOfMonth ==
  ASSUME LedgerInv, NEW c
  PROVE  SpentThisMonth(c)
            = IF c \in DOMAIN MonthAmounts THEN MonthAmounts[c] ELSE 0
<1> DEFINE q == MonthToDate
           R == RowsIn(Ledger, q, {"usage"}, today)
           mine(k) == {row \in R : row.currency = k}
<1>1. /\ q.providers = {} /\ q.accounts = {} /\ q.currency = None
      /\ q.categories = {"usage"} /\ q.start = FirstOfMonth(today)
  BY DEF MonthToDate, Question
<1> HIDE DEF q
<1>2. \A k : mine(k)
                = PeriodRows(Collectable, k, FirstOfMonth(today), today)
  BY <1>1, QuestionRows
<1>3. \A k : SpentThisMonth(k) = Amount(mine(k))
  BY <1>2 DEF SpentThisMonth
<1>4. MonthSums = [k \in Currencies(R) |-> Amount(mine(k))]
  BY <1>1 DEF MonthSums, SumByCurrency, q
<1> HIDE DEF R
<1>5. \A k : k \notin Currencies(R) => mine(k) = {}
  BY DEF Currencies
<1>6. \A k : SpentThisMonth(k)
                = IF k \in DOMAIN MonthSums THEN MonthSums[k] ELSE 0
  BY <1>3, <1>4, <1>5, AmountOfNone
<1>7. CASE DOMAIN MonthSums # {}
  BY <1>6, <1>7 DEF MonthAmounts, AmountsOrZero
<1>8. CASE DOMAIN MonthSums = {}
  <2>1. \A k \in DOMAIN MonthAmounts : MonthAmounts[k] = 0
    BY <1>8 DEF MonthAmounts, AmountsOrZero
  <2>2. QED
    BY <1>6, <1>8, <2>1
<1>9. QED
  BY <1>7, <1>8

(* The forecast is the one over the accounts that can be collected.        *)
LEMMA ForecastOfMonth ==
  ASSUME LedgerInv
  PROVE  /\ Collectable \in SUBSET Accounts
         /\ FirstOfMonth(today) \in Int /\ today \in Int
         /\ \A a \in Collectable : MonthCoverage[a]
              = AccountCoverage(Ledger, a, FirstOfMonth(today), today)
         /\ ForecastMonthEnd(Ledger, MonthToDate)
              = ForecastOver(Ledger, MonthToDate, Collectable, MonthCoverage,
                             MonthAmounts)
<1> DEFINE q == MonthToDate
           targets == EvaluableAccounts(Ledger, q)
           start == FirstOfMonth(today)
<1>1. /\ q.providers = {} /\ q.accounts = {} /\ q.currency = None
  BY DEF MonthToDate, Question
<1>2. targets = {a \in keys : IsCostSupported(Provider[a])}
  BY <1>1, TargetsOf
<1>3. start \in Int /\ today \in Int /\ keys \subseteq Accounts
  BY MonthOfDay, LedgerAssumption DEF LedgerInv
<1>4. MonthCoverage
        = [a \in targets |-> AccountCoverage(Ledger, a, start, today)]
  BY DEF MonthCoverage, PeriodCoverage
<1> HIDE DEF targets, start, q
<1>5. Collectable \subseteq targets /\ targets \subseteq Accounts
  BY <1>2, <1>3, EnabledIsSupported DEF Collectable
<1>6. \A a \in targets : MonthCoverage[a].covered > 0 => IngestEnabled(a)
  BY <1>3, <1>4, <1>5, CoverageMeans
<1>7. KeptAccounts(targets, {MonthCoverage}) = Collectable
  BY <1>2, <1>6, KeptIsCollectable
<1>8. ForecastMonthEnd(Ledger, MonthToDate)
        = ForecastWith(Ledger, MonthToDate, Collectable, MonthCoverage)
  <2>1. Ledger.today = today
    BY DEF Ledger
  <2>2. QED
    BY <1>7, <2>1 DEF ForecastMonthEnd, MonthCoverage, targets, q
<1>9. ForecastWith(Ledger, MonthToDate, Collectable, MonthCoverage)
        = ForecastOver(Ledger, MonthToDate, Collectable, MonthCoverage,
                       MonthAmounts)
  <2>1. Ledger.today = today
    BY DEF Ledger
  <2>2. QED
    BY <2>1 DEF ForecastWith, MonthAmounts, MonthSums
<1>10. QED
  BY <1>3, <1>4, <1>5, <1>8, <1>9 DEF start

(* A forecast that is given is the one of the real charges.                *)
LEMMA ForecastHonest == LedgerInv => ForecastIsHonest
<1> SUFFICES ASSUME LedgerInv PROVE ForecastIsHonest
  OBVIOUS
<1> DEFINE start == FirstOfMonth(today)
           forecast == ForecastMonthEnd(Ledger, MonthToDate)
           state == ForecastState(Ledger, MonthToDate, Collectable,
                                  MonthCoverage, MonthAmounts)
           spent(c) == TrueUsage(Collectable, c, start, today)
<1>1. forecast = Prorated(state, Collectable, MonthAmounts, today)
  BY ForecastOfMonth DEF ForecastOver, Ledger
<1>2. state = "computed" =>
        \A a \in Collectable : MonthCoverage[a].missing = {}
  BY DEF ForecastState
<1> HIDE DEF state
<1>3. /\ forecast.state = state
      /\ state = "computed" =>
           /\ DOMAIN forecast.amounts = DOMAIN MonthAmounts
           /\ \A c \in DOMAIN MonthAmounts :
                forecast.amounts[c].num
                  = MonthAmounts[c] * DaysInMonth(today)
  BY <1>1 DEF Prorated
<1> HIDE DEF forecast
<1>4. ASSUME forecast.state = "computed",
             \A a \in Collectable : Settled(a, start, today),
             NEW c
      PROVE  IF c \in DOMAIN forecast.amounts
             THEN forecast.amounts[c].num = spent(c) * DaysInMonth(today)
             ELSE spent(c) = 0
  <2>1. start \in Int /\ today \in Int /\ today <= today
    BY ForecastOfMonth
  <2>2. \A a \in Collectable :
          AccountCoverage(Ledger, a, start, today).missing = {}
    BY <1>2, <1>3, <1>4, ForecastOfMonth
  <2>3. \A a \in Collectable : \A d \in start .. today - 1 :
          Covering(a, d) # {} => DayIsIn(a, d)
    BY <1>4, <2>1, SettledDay
  <2> HIDE DEF start
  <2>4. Amount(PeriodRows(Collectable, c, start, today)) = spent(c)
    BY <2>1, <2>2, <2>3, CollectableDays
  <2>5. spent(c) = IF c \in DOMAIN MonthAmounts THEN MonthAmounts[c] ELSE 0
    BY <2>4, AmountsOfMonth DEF SpentThisMonth, start
  <2> HIDE DEF spent
  <2>6. QED
    BY <1>3, <1>4, <2>5
<1>5. QED
  BY <1>4, Zenon DEF ForecastIsHonest, forecast

(* The two windows of a comparison and what is known of their days.        *)
Compared(n) == Changes(Ledger, LastDays(n), "previous_period", None)
Targets == {a \in keys : IsCostSupported(Provider[a])}
CoverageBetween(start, end) == PeriodCoverage(Ledger, Targets, start, end)
ChosenCurrency == PickCurrency(AccountsCurrencyMap(Ledger, Targets), None)
PriorWindow(n) == [start |-> today - n - n, end |-> today - n]

LEMMA ComparedPeriods ==
  ASSUME LedgerInv, NEW n \in Nat
  PROVE  /\ Compared(n).reasons
              = Incomparable(Ledger, LastDays(n), PriorWindow(n),
                             ChosenCurrency, Collectable,
                             CoverageBetween(today - n, today),
                             CoverageBetween(today - n - n, today - n))
         /\ Compared(n).currency = ChosenCurrency
         /\ Compared(n).current = UsageIn(Ledger, LastDays(n), LastDays(n),
                                          ChosenCurrency)
         /\ Compared(n).previous = UsageIn(Ledger, LastDays(n), PriorWindow(n),
                                           ChosenCurrency)
<1> DEFINE q == LastDays(n)
           now == CoverageBetween(today - n, today)
           before == CoverageBetween(today - n - n, today - n)
<1>1. /\ q.providers = {} /\ q.accounts = {} /\ q.currency = None
      /\ q.start = today - n /\ q.end = today
  BY DEF LastDays, Question
<1>2. today \in Int /\ keys \subseteq Accounts
  BY LedgerAssumption DEF LedgerInv
<1>3. EvaluableAccounts(Ledger, q) = Targets
  BY <1>1, TargetsOf DEF Targets
<1>4. PreviousWindow(q, "previous_period") = PriorWindow(n)
  <2>1. q.start - (q.end - q.start) = today - n - n
    BY <1>1, <1>2
  <2> HIDE DEF q
  <2>2. QED
    BY <1>1, <2>1 DEF PreviousWindow, PriorWindow
<1>5. \A coverage \in {now, before} : \A a \in Targets :
        coverage[a].covered > 0 => IngestEnabled(a)
  <2>1. /\ today - n \in Int /\ today - n - n \in Int
        /\ today - n <= today /\ today <= today
    BY <1>2
  <2> DEFINE start == today - n
             first == today - n - n
  <2>2. Targets \subseteq Accounts
    BY <1>2 DEF Targets
  <2>3. \A a \in Targets :
          /\ now[a] = AccountCoverage(Ledger, a, start, today)
          /\ before[a] = AccountCoverage(Ledger, a, first, start)
    BY DEF CoverageBetween, PeriodCoverage
  <2> HIDE DEF now, before, start, first
  <2>4. start \in Int /\ first \in Int /\ start <= today
    BY <2>1 DEF start, first
  <2>5. ASSUME NEW a \in Targets
        PROVE  /\ now[a].covered > 0 => IngestEnabled(a)
               /\ before[a].covered > 0 => IngestEnabled(a)
    <3>1. a \in Accounts
      BY <2>2
    <3>2. AccountCoverage(Ledger, a, start, today).covered > 0
            => IngestEnabled(a)
      BY <1>2, <2>1, <2>4, <3>1, CoverageMeans
    <3>3. AccountCoverage(Ledger, a, first, start).covered > 0
            => IngestEnabled(a)
      BY <2>4, <3>1, CoverageMeans
    <3>4. QED
      BY <2>3, <3>2, <3>3
  <2>6. QED
    BY <2>5
<1>6. KeptAccounts(Targets, {now, before}) = Collectable
  <2> DEFINE T == Targets
             coverages == {now, before}
  <2>1. T = {a \in keys : IsCostSupported(Provider[a])}
    BY DEF Targets
  <2> HIDE DEF T, now, before
  <2>2. KeptAccounts(T, coverages) = Collectable
    BY <1>5, <2>1, KeptIsCollectable DEF T
  <2>3. QED
    BY <2>2 DEF T
<1> HIDE DEF q
<1>7. /\ PeriodCoverage(Ledger, Targets, q.start, q.end) = now
      /\ PeriodCoverage(Ledger, Targets, PriorWindow(n).start,
                        PriorWindow(n).end) = before
  BY <1>1 DEF CoverageBetween, PriorWindow
<1> HIDE DEF now, before
<1>8. Changes(Ledger, q, "previous_period", None)
        = [reasons |-> Incomparable(Ledger, q, PriorWindow(n), ChosenCurrency,
                                    Collectable, now, before),
           currency |-> ChosenCurrency, accounts |-> Collectable,
           current |-> UsageIn(Ledger, q, q, ChosenCurrency),
           previous |-> UsageIn(Ledger, q, PriorWindow(n), ChosenCurrency)]
  BY <1>1, <1>3, <1>4, <1>6, <1>7 DEF Changes, ChosenCurrency
<1>9. QED
  BY <1>8 DEF Compared, q, now, before

(* What the reasons against a comparison rule out.                         *)
LEMMA ComparableMeans ==
  ASSUME NEW q, NEW prev, NEW chosen, NEW kept, NEW now, NEW before,
         Incomparable(Ledger, q, prev, chosen, kept, now, before) = {}
  PROVE  /\ chosen # None
         /\ \A a \in kept : now[a].missing = {} /\ before[a].missing = {}
<1> DEFINE reason(name, holds) == IF holds THEN {name} ELSE {}
           covered(coverage) == \A a \in kept : coverage[a].missing = {}
           R == Incomparable(Ledger, q, prev, chosen, kept, now, before)
<1>1. /\ reason("NO_CURRENCY", chosen = None) \subseteq R
      /\ reason("CURRENT_COVERAGE", kept # {} /\ ~covered(now))
           \subseteq R
      /\ reason("PREVIOUS_COVERAGE", kept # {} /\ ~covered(before))
           \subseteq R
  BY DEF Incomparable
<1> HIDE DEF R
<1>2. R = {}
  BY DEF R
<1>3. QED
  BY <1>1, <1>2

(* Two periods that are declared comparable carry their real totals.       *)
LEMMA ComparisonHonest == LedgerInv => ComparisonIsHonest
<1> SUFFICES ASSUME LedgerInv PROVE ComparisonIsHonest
  OBVIOUS
<1>1. today \in Int /\ Collectable \subseteq Targets
  BY LedgerAssumption, EnabledIsSupported
     DEF LedgerInv, Collectable, Targets
<1>2. ASSUME NEW n \in 1 .. 2, Compared(n).reasons = {},
             \A a \in Collectable :
                Settled(a, LastDays(n).start - n, LastDays(n).end)
      PROVE  /\ Compared(n).current
                  = TrueUsage(Collectable, Compared(n).currency,
                              LastDays(n).start, LastDays(n).end)
             /\ Compared(n).previous
                  = TrueUsage(Collectable, Compared(n).currency,
                              LastDays(n).start - n, LastDays(n).start)
  <2> DEFINE q == LastDays(n)
             start == today - n
             first == today - n - n
             c == ChosenCurrency
  <2>1. /\ n \in Nat /\ start \in Int /\ first \in Int
        /\ first <= start /\ start <= today
    BY <1>1
  <2>2. /\ q.start = start /\ q.end = today /\ q.start - n = first
        /\ q.providers = {} /\ q.accounts = {} /\ q.currency = None
        /\ q = [q EXCEPT !.start = start]
        /\ \A k, s : /\ [q EXCEPT !.start = s, !.currency = k].start = s
                     /\ [q EXCEPT !.start = s, !.currency = k].currency = k
                     /\ [q EXCEPT !.start = s, !.currency = k].providers = {}
                     /\ [q EXCEPT !.start = s, !.currency = k].accounts = {}
    BY DEF LastDays, Question
  <2> HIDE DEF q, start, first
  <2>3. /\ c # None
        /\ \A a \in Collectable :
             /\ CoverageBetween(start, today)[a].missing = {}
             /\ CoverageBetween(first, start)[a].missing = {}
    <3>1. Incomparable(Ledger, q, PriorWindow(n), c, Collectable,
                       CoverageBetween(start, today),
                       CoverageBetween(first, start)) = {}
      BY <1>2, <2>1, ComparedPeriods DEF q, start, first
    <3> HIDE DEF c
    <3>2. QED
      BY <3>1, ComparableMeans
  <2>4. ASSUME NEW low \in Int, NEW high \in Int, first <= low,
               high <= today,
               \A a \in Collectable :
                  CoverageBetween(low, high)[a].missing = {}
        PROVE  \A k : Amount(PeriodRows(Collectable, k, low, high))
                        = TrueUsage(Collectable, k, low, high)
    <3>1. \A a \in Collectable :
            AccountCoverage(Ledger, a, low, high).missing = {}
      BY <1>1, <2>4 DEF CoverageBetween, PeriodCoverage
    <3>2. \A a \in Collectable : \A d \in low .. high - 1 :
            Covering(a, d) # {} => DayIsIn(a, d)
      <4>1. \A d \in low .. high - 1 : d \in first .. today - 1
        BY <1>1, <2>1, <2>4
      <4>2. \A a \in Collectable : Settled(a, first, today)
        BY <1>2, <2>2 DEF q
      <4>3. QED
        BY <1>1, <2>1, <4>1, <4>2, SettledDay
    <3>3. QED
      BY <2>4, <3>1, <3>2, CollectableDays
  <2> HIDE DEF c
  <2>5. ASSUME NEW s, NEW window, window.start = s
        PROVE  UsageIn(Ledger, q, window, c)
                 = Amount(PeriodRows(Collectable, c, s, window.end))
    <3> DEFINE p == [q EXCEPT !.start = s, !.currency = c]
    <3>1. /\ p.start = s /\ p.currency = c
          /\ p.providers = {} /\ p.accounts = {}
      BY <2>2
    <3>2. UsageIn(Ledger, q, window, c)
            = Amount(RowsIn(Ledger, p, {"usage"}, window.end))
      BY <2>3, <2>5 DEF UsageIn
    <3> HIDE DEF p
    <3>3. RowsIn(Ledger, p, {"usage"}, window.end)
            = PeriodRows(Collectable, c, s, window.end)
      BY <2>3, <3>1, QuestionRows
    <3>4. QED
      BY <3>2, <3>3
  <2>6. /\ Compared(n).currency = c
        /\ Compared(n).current = UsageIn(Ledger, q, q, c)
        /\ Compared(n).previous = UsageIn(Ledger, q, PriorWindow(n), c)
    BY <2>1, ComparedPeriods DEF q, c
  <2>7. /\ UsageIn(Ledger, q, q, c)
             = Amount(PeriodRows(Collectable, c, start, today))
        /\ UsageIn(Ledger, q, PriorWindow(n), c)
             = Amount(PeriodRows(Collectable, c, first, start))
    BY <2>2, <2>5 DEF PriorWindow, first, start
  <2>8. /\ Amount(PeriodRows(Collectable, c, start, today))
             = TrueUsage(Collectable, c, start, today)
        /\ Amount(PeriodRows(Collectable, c, first, start))
             = TrueUsage(Collectable, c, first, start)
    BY <1>1, <2>1, <2>3, <2>4
  <2>9. QED
    BY <2>2, <2>6, <2>7, <2>8 DEF q
<1>3. QED
  BY <1>2, Zenon DEF ComparisonIsHonest, Compared

(* Whatever was collected when and by whom, in whichever order days passed *)
(* and keys went and came: a month-end forecast that is given, and two     *)
(* periods declared comparable, carry the real charges of every account    *)
(* that can be collected (forecast_month_end, changes, kept_accounts).     *)
THEOREM AnswersHonest == Spec => []AnswersAreHonest
<1>1. LedgerInv => AnswersAreHonest
  BY ForecastHonest, ComparisonHonest DEF AnswersAreHonest
<1>2. QED
  BY <1>1, LedgerInductive, PTL

(***************************************************************************)
(* Budgets                                                                 *)
(***************************************************************************)

(* What is stored of a period is at most what was billed, and a longer     *)
(* period of more accounts is at least as much.                            *)
LEMMA RowsWithinBill ==
  ASSUME LedgerInv, NEW accounts \in SUBSET Accounts, NEW currency,
         NEW start \in Int, NEW end \in Int
  PROVE  /\ Amount(PeriodRows(accounts, currency, start, end)) \in Int
         /\ Amount(PeriodRows(accounts, currency, start, end))
              <= TrueUsage(accounts, currency, start, end)
<1> DEFINE R == PeriodRows(accounts, currency, start, end)
           B == Bill(accounts, currency, start, end)
           f == [row \in R |-> Entered(row)]
           E == {Entered(row) : row \in R}
           w == Amounts(R)
           u == Amounts(E)
           v == Amounts(B)
<1>1. /\ IsFiniteSet(R) /\ IsFiniteSet(B)
      /\ \A row \in R : Entered(row) \in B /\ row.amount \in Int
      /\ \A row, other \in R : Entered(row) = Entered(other) => row = other
      /\ \A x \in B : x.amount \in Int /\ x.amount >= 0
  BY RowsAreBilled, BillEntries
<1> HIDE DEF R, B
<1>2. E \in SUBSET B
  BY <1>1
<1>3. IsFiniteSet(E)
  BY <1>1, <1>2, FS_Subset
<1>4. /\ \A row \in R : w[row] \in Int
      /\ \A row \in R : f[row] \in E /\ u[f[row]] = w[row]
      /\ \A row, other \in R : f[row] = f[other] => row = other
      /\ \A x \in E : \E row \in R : f[row] = x
      /\ \A x \in E : u[x] = v[x]
      /\ \A x \in B : v[x] \in Int /\ v[x] >= 0
  <2>1. \A row \in R : w[row] = row.amount /\ f[row] = Entered(row)
    BY DEF Amounts
  <2>2. \A x \in E : u[x] = x.amount
    BY DEF Amounts
  <2>3. \A x \in B : v[x] = x.amount
    BY DEF Amounts
  <2>4. \A row \in R : Entered(row) \in E /\ Entered(row).amount = row.amount
    BY DEF Entered, Entry
  <2>5. \A x \in E : \E row \in R : x = Entered(row)
    OBVIOUS
  <2> HIDE DEF f, w, u, v, E
  <2>6. QED
    BY <1>1, <1>2, <2>1, <2>2, <2>3, <2>4, <2>5
<1> HIDE DEF f, w, u, v, E
<1>5. Total(w, R) = Total(u, E)
  <2>1. \A row \in R : w[row] \in Int
    BY <1>4
  <2>2. \A row \in R : f[row] \in E /\ u[f[row]] = w[row]
    BY <1>4
  <2>3. \A row, other \in R : f[row] = f[other] => row = other
    BY <1>4
  <2>4. \A x \in E : \E row \in R : f[row] = x
    BY <1>4
  <2>5. IsFiniteSet(R)
    BY <1>1
  <2>6. QED
    BY <1>3, <2>1, <2>2, <2>3, <2>4, <2>5, TotalMoved
<1>6. Total(u, E) = Total(v, E)
  BY <1>3, <1>4, TotalSame
<1>7. Total(v, E) <= Total(v, B)
  BY <1>1, <1>2, <1>4, TotalGrows
<1>8. Total(w, R) \in Int
  BY <1>1, <1>4, TotalTyped
<1>9. Amount(R) = Total(w, R) /\ Amount(B) = Total(v, B)
  BY <1>1, AmountIsTotal DEF w, v
<1>10. QED
  BY <1>5, <1>6, <1>7, <1>8, <1>9 DEF R, B, TrueUsage

LEMMA RowsGrow ==
  ASSUME LedgerInv, NEW accounts \in SUBSET Accounts, NEW currency,
         NEW start \in Int, NEW low \in Int, NEW high \in Int, low <= high
  PROVE  Amount(PeriodRows(accounts, currency, start, low))
            <= Amount(PeriodRows(accounts, currency, start, high))
<1> DEFINE R == PeriodRows(accounts, currency, start, low)
           S == PeriodRows(accounts, currency, start, high)
           v == Amounts(R)
           w == Amounts(S)
<1>1. IsFiniteSet(R) /\ IsFiniteSet(S)
      /\ \A row \in S : row.amount \in Int /\ row.amount >= 0
  BY RowsAreBilled
<1>2. R \in SUBSET S
  <2>1. \A row \in rows : row.day \in Int
    BY RowOrigin
  <2>2. QED
    BY <2>1 DEF PeriodRows
<1> HIDE DEF R, S
<1>3. /\ \A row \in S : w[row] \in Int /\ w[row] >= 0
      /\ \A row \in R : v[row] = w[row]
  BY <1>1, <1>2 DEF Amounts
<1> HIDE DEF v, w
<1>4. Total(w, R) <= Total(w, S)
  BY <1>1, <1>2, <1>3, TotalGrows
<1>5. Total(v, R) = Total(w, R)
  BY <1>1, <1>3, TotalSame
<1>6. Amount(R) = Total(v, R) /\ Amount(S) = Total(w, S)
  BY <1>1, AmountIsTotal DEF v, w
<1>7. QED
  BY <1>4, <1>5, <1>6 DEF R, S

LEMMA BillGrows ==
  ASSUME NEW accounts \in SUBSET Accounts, NEW others \in SUBSET Accounts,
         accounts \subseteq others, NEW currency,
         NEW start \in Int, NEW low \in Int, NEW high \in Int, low <= high
  PROVE  /\ TrueUsage(accounts, currency, start, low) \in Int
         /\ TrueUsage(others, currency, start, high) \in Int
         /\ TrueUsage(accounts, currency, start, low)
              <= TrueUsage(others, currency, start, high)
<1> DEFINE R == Bill(accounts, currency, start, low)
           S == Bill(others, currency, start, high)
           v == Amounts(R)
           w == Amounts(S)
<1>1. IsFiniteSet(R) /\ IsFiniteSet(S)
      /\ \A x \in S : x.amount \in Int /\ x.amount >= 0
  BY BillEntries
<1>2. R \in SUBSET S
  <2>1. \A d \in start .. low - 1 : d \in start .. high - 1
    OBVIOUS
  <2>2. QED
    BY <2>1, BillEntries
<1> HIDE DEF R, S
<1>3. /\ \A x \in S : w[x] \in Int /\ w[x] >= 0
      /\ \A x \in R : v[x] = w[x]
  BY <1>1, <1>2 DEF Amounts
<1> HIDE DEF v, w
<1>4. Total(w, R) <= Total(w, S)
  BY <1>1, <1>2, <1>3, TotalGrows
<1>5. Total(v, R) = Total(w, R)
  BY <1>1, <1>3, TotalSame
<1>6. Amount(R) = Total(v, R) /\ Amount(S) = Total(w, S)
  BY <1>1, AmountIsTotal DEF v, w
<1>7. Total(w, R) \in Int /\ Total(w, S) \in Int
  BY <1>1, <1>2, <1>3, TotalTyped
<1>8. QED
  BY <1>4, <1>5, <1>6, <1>7 DEF R, S, TrueUsage

(* A ratio follows what it is the ratio of.                                *)
LEMMA RatioOrdered ==
  ASSUME NEW n \in Int, NEW p \in Int, n <= p, NEW limit \in Nat \ {0}
  PROVE  /\ RatioTenths(n, limit) \in Int /\ RatioTenths(p, limit) \in Int
         /\ RatioTenths(n, limit) <= RatioTenths(p, limit)
<1> DEFINE x == 1000 * n
           y == 1000 * p
<1>1. x \in Int /\ y \in Int /\ x <= y
  OBVIOUS
<1> HIDE DEF x, y
<1>2. RoundHalfEven(x, limit) <= RoundHalfEven(y, limit)
  BY <1>1, RoundedOrdered
<1>3. ASSUME NEW z \in Int PROVE RoundHalfEven(z, limit) \in Int
  <2>1. z \div limit \in Int
    OBVIOUS
  <2>2. QED
    BY <2>1 DEF RoundHalfEven
<1>4. RoundHalfEven(x, limit) \in Int /\ RoundHalfEven(y, limit) \in Int
  BY <1>1, <1>3
<1>5. QED
  BY <1>2, <1>4 DEF RatioTenths, x, y

LEMMA BudgetOrder ==
  ASSUME NEW S \in SUBSET TeamBudgets, S # {}
  PROVE  Latest(S) \in S /\ Earliest(S) \in S
<1> DEFINE f == [b \in S |-> b.start]
           g == [b \in S |-> b.id]
           h == [b \in S |-> -b.start]
           k == [b \in S |-> -b.id]
<1>1. /\ IsFiniteSet(S)
      /\ \A b \in S : b.id \in Int /\ b.start \in Int
      /\ \A b, c \in S : b.id = c.id => b = c
  <2>1. IsFiniteSet(S) /\ \A b \in S : b \in TeamBudgets
    BY BudgetAssumption, FS_Subset
  <2>2. \A b \in TeamBudgets : b.id \in Int /\ b.start \in Int
    BY BudgetAssumption, MonthStarts
  <2>3. QED
    BY <2>1, <2>2, BudgetAssumption
<1>2. /\ f \in [S -> Int] /\ g \in [S -> Int]
      /\ h \in [S -> Int] /\ k \in [S -> Int]
      /\ \A b, c \in S : g[b] = g[c] => b = c
      /\ \A b, c \in S : k[b] = k[c] => b = c
  BY <1>1
<1>3. \E m \in S : \A s \in S \ {m} : Before(s, m)
  <2>1. \A s, m \in S : f[s] < f[m] \/ (f[s] = f[m] /\ g[s] < g[m])
                          => Before(s, m)
    BY DEF Before
  <2> HIDE DEF f, g
  <2>2. PICK m \in S : \A s \in S \ {m} :
          f[s] < f[m] \/ (f[s] = f[m] /\ g[s] < g[m])
    <3>1. f \in [S -> Int] /\ g \in [S -> Int]
      BY <1>2
    <3>2. \A b, c \in S : g[b] = g[c] => b = c
      BY <1>2
    <3>3. IsFiniteSet(S)
      BY <1>1
    <3>4. QED
      BY <3>1, <3>2, <3>3, LastInOrder
  <2>3. QED
    BY <2>1, <2>2
<1>4. \E m \in S : \A s \in S \ {m} : Before(m, s)
  <2>1. \A s, m \in S : h[s] < h[m] \/ (h[s] = h[m] /\ k[s] < k[m])
                          => Before(m, s)
    BY <1>1 DEF Before
  <2> HIDE DEF h, k
  <2>2. PICK m \in S : \A s \in S \ {m} :
          h[s] < h[m] \/ (h[s] = h[m] /\ k[s] < k[m])
    <3>1. h \in [S -> Int] /\ k \in [S -> Int]
      BY <1>2
    <3>2. \A b, c \in S : k[b] = k[c] => b = c
      BY <1>2
    <3>3. IsFiniteSet(S)
      BY <1>1
    <3>4. QED
      BY <3>1, <3>2, <3>3, LastInOrder
  <2>3. QED
    BY <2>1, <2>2
<1>5. QED
  BY <1>3, <1>4 DEF Latest, Earliest

(* The periods that budgets count.                                         *)
LEMMA EffectiveEnds ==
  ASSUME NEW S \in SUBSET TeamBudgets, NEW b \in S, b.type # "custom"
  PROVE  EffectiveEnd(b, RecurringChain(S)) \in 1 .. Forever
<1> DEFINE later == {c \in RecurringChain(S) : Before(b, c)}
           starts == {c.start : c \in later}
<1>1. Forever \in Int /\ 1 <= Forever
  <2>1. Forever \in Int
    BY MonthStarts, MonthLengthsAssumption DEF Forever
  <2>2. b.start \in 1 .. Forever - 1
    BY BudgetAssumption
  <2>3. QED
    BY <2>1, <2>2
<1>2. later \in SUBSET S
  BY DEF RecurringChain
<1>3. EffectiveEnd(b, RecurringChain(S))
        = IF later = {} THEN Forever ELSE Min(starts)
  BY DEF EffectiveEnd
<1> HIDE DEF later
<1>4. starts \in SUBSET (1 .. Forever - 1)
  BY <1>2, BudgetAssumption
<1>5. CASE later # {}
  <2> DEFINE f == [c \in later |-> c.start]
  <2>1. IsFiniteSet(later)
    BY <1>2, BudgetAssumption, FS_Subset
  <2>2. f \in Surjection(later, starts) /\ starts # {}
    BY <1>5 DEF Surjection
  <2> HIDE DEF starts, f
  <2>3. IsFiniteSet(starts)
    BY <2>1, <2>2, FS_Surjection
  <2>4. starts \in SUBSET Int
    BY <1>1, <1>4
  <2> DEFINE first == Min(starts)
  <2>5. first \in starts
    BY <2>2, <2>3, <2>4, MinOfFinite
  <2>6. EffectiveEnd(b, RecurringChain(S)) = first
    BY <1>3, <1>5
  <2> HIDE DEF first
  <2>7. first \in 1 .. Forever - 1
    BY <1>4, <2>5
  <2>8. QED
    BY <1>1, <2>6, <2>7
<1>6. QED
  BY <1>1, <1>3, <1>5

LEMMA BudgetPeriods ==
  ASSUME NEW S \in SUBSET TeamBudgets, NEW b \in S, NEW day \in 0 .. LastDay
  PROVE  /\ BudgetPeriod(b, RecurringChain(S), day).start \in Int
         /\ BudgetPeriod(b, RecurringChain(S), day).end \in Int
<1> DEFINE end == EffectiveEnd(b, RecurringChain(S))
           anchor == CASE StateUntil(b, end, day) = "upcoming" -> b.start
                       [] StateUntil(b, end, day) = "ended" -> end - 1
                       [] OTHER -> day
           period == CalendarPeriod(b.type, anchor)
<1>1. /\ b.start \in Int /\ b.start \in 1 .. Forever - 1
      /\ b.type = "custom" => b.end \in Int
      /\ b.type # "custom" => \A d \in 0 .. Forever - 1 :
            CalendarPeriod(b.type, d) \in [start : Int, end : Int]
  BY BudgetAssumption
<1>2. CASE b.type = "custom"
  BY <1>1, <1>2 DEF BudgetPeriod
<1>3. CASE b.type # "custom"
  <2>1. BudgetPeriod(b, RecurringChain(S), day)
          = [start |-> Max({period.start, b.start}),
             end |-> Min({period.end, end})]
    BY <1>3 DEF BudgetPeriod
  <2>2. end \in 1 .. Forever
    BY <1>3, EffectiveEnds
  <2> HIDE DEF end
  <2>3. /\ Forever \in Int /\ day \in Int /\ 0 <= day /\ day < Forever
    <3>1. Forever \in Int /\ LastDay < Forever /\ LastDay \in Int
      BY MonthStarts, MonthLengthsAssumption, LedgerAssumption DEF Forever
    <3>2. QED
      BY <3>1
  <2>4. anchor \in 0 .. Forever - 1
    <3>1. CASE StateUntil(b, end, day) = "upcoming"
      BY <1>1, <3>1
    <3>2. CASE StateUntil(b, end, day) = "ended"
      BY <2>2, <2>3, <3>2
    <3>3. CASE StateUntil(b, end, day) \notin {"upcoming", "ended"}
      BY <2>3, <3>3
    <3>4. QED
      BY <3>1, <3>2, <3>3
  <2> HIDE DEF anchor
  <2>5. period.start \in Int /\ period.end \in Int
    BY <1>1, <1>3, <2>4
  <2> HIDE DEF period
  <2>6. Max({period.start, b.start}) \in Int
    BY <1>1, <2>5, MaxOfTwo
  <2>7. Min({period.end, end}) \in Int
    <3> DEFINE x == period.end
    <3>1. x \in Int /\ end \in Int
      BY <2>2, <2>3, <2>5
    <3> HIDE DEF x
    <3>2. Min({x, end}) \in Int
      BY <3>1, MinOfTwo
    <3>3. QED
      BY <3>2 DEF x
  <2>8. QED
    BY <2>1, <2>6, <2>7
<1>4. QED
  BY <1>2, <1>3

(* The budget that is shown is one of the team's.                          *)
LEMMA ShownIsOne ==
  ASSUME NEW S \in SUBSET TeamBudgets, NEW day \in 0 .. LastDay
  PROVE  SelectStatusBudget(S, day) \in S \union {NoBudget}
<1> DEFINE in(state) ==
             {b \in S : BudgetState(b, RecurringChain(S), day) = state}
           running == in("in_progress")
           upcoming == in("upcoming")
           ended == in("ended")
           endOf == [b \in S |->
                       BudgetPeriod(b, RecurringChain(S), day).end]
           custom == {b \in running : b.type = "custom"}
           follows(b, c) == \/ endOf[c] < endOf[b]
                            \/ endOf[c] = endOf[b] /\ c.id < b.id
           last == CHOOSE b \in ended : \A c \in ended \ {b} : follows(b, c)
<1>1. SelectStatusBudget(S, day)
        = FirstToShow(running, upcoming, ended, endOf)
  BY DEF SelectStatusBudget
<1>2. endOf \in [S -> Int]
  BY BudgetPeriods
<1>3. /\ running \in SUBSET S /\ upcoming \in SUBSET S
      /\ ended \in SUBSET S /\ custom \in SUBSET S
  OBVIOUS
<1> HIDE DEF running, upcoming, ended, endOf, in
<1>4. FirstToShow(running, upcoming, ended, endOf) =
        IF custom # {} THEN Latest(custom)
        ELSE IF running # {} THEN Latest(running)
        ELSE IF upcoming # {} THEN Earliest(upcoming)
        ELSE IF ended # {} THEN last ELSE NoBudget
  BY DEF FirstToShow
<1> HIDE DEF custom
<1>5. \A T \in SUBSET S : T # {} => Latest(T) \in S /\ Earliest(T) \in S
  BY BudgetOrder
<1>6. ended # {} => last \in S
  <2> SUFFICES ASSUME ended # {} PROVE last \in S
    OBVIOUS
  <2> DEFINE f == [b \in ended |-> endOf[b]]
             g == [b \in ended |-> b.id]
  <2>1. /\ IsFiniteSet(ended)
        /\ \A b \in ended : b \in TeamBudgets /\ b.id \in Int
    BY <1>3, BudgetAssumption, FS_Subset
  <2>2. /\ f \in [ended -> Int] /\ g \in [ended -> Int]
        /\ \A b, c \in ended : g[b] = g[c] => b = c
    BY <1>2, <1>3, <2>1, BudgetAssumption
  <2>3. \A b, c \in ended : f[c] < f[b] \/ (f[c] = f[b] /\ g[c] < g[b])
                              => follows(b, c)
    OBVIOUS
  <2> HIDE DEF f, g, follows
  <2>4. PICK m \in ended : \A c \in ended \ {m} :
          f[c] < f[m] \/ (f[c] = f[m] /\ g[c] < g[m])
    BY <2>1, <2>2, LastInOrder
  <2>5. \A c \in ended \ {m} : follows(m, c)
    BY <2>3, <2>4
  <2>6. last \in ended
    BY <2>5
  <2>7. QED
    BY <1>3, <2>6
<1> HIDE DEF last
<1>7. QED
  BY <1>1, <1>3, <1>4, <1>5, <1>6

(* The status of a team's budget as of today, in the terms of the code.    *)
StatusOf(team) == ComputeBudgetStatus(Ledger, BudgetsOf(team), team, today)
ShownBudget(team) == SelectStatusBudget(BudgetsOf(team), today)
ShownState(team) ==
    BudgetState(ShownBudget(team), RecurringChain(BudgetsOf(team)), today)
ShownPeriod(team) ==
    BudgetPeriod(ShownBudget(team), RecurringChain(BudgetsOf(team)), today)
TeamsAccounts(team) ==
    Included(Ledger, TeamAccounts(Ledger, team), TeamCurrency[team])
JudgedUntil(team) == Min({ShownPeriod(team).end, today + 1, today})
TeamCoverage(team) ==
    PeriodCoverage(Ledger, TeamsAccounts(team), ShownPeriod(team).start,
                   JudgedUntil(team))
ReasonAgainst(team) ==
    BudgetReason(ShownBudget(team), ShownState(team), TeamCurrency[team],
                 TeamAccounts(Ledger, team), TeamCoverage(team),
                 ShownPeriod(team).start < JudgedUntil(team))
UsedSoFar(team) ==
    TeamUsage(Ledger, TeamsAccounts(team), TeamCurrency[team],
              ShownPeriod(team).start,
              Min({ShownPeriod(team).end, today + 1}))
ForecastOf(team) ==
    BudgetForecast(Ledger, TeamsAccounts(team), TeamCurrency[team],
                   ShownPeriod(team),
                   IF ShownState(team) = "in_progress"
                   THEN Min({today, ShownPeriod(team).end})
                   ELSE ShownPeriod(team).start)

LEMMA StatusUnfolds ==
  ASSUME today \in Int, NEW team
  PROVE  StatusOf(team) =
            IF ShownBudget(team) = NoBudget
            THEN [computable |-> FALSE, reason |-> "NO_BUDGET"]
            ELSE IF ReasonAgainst(team) # None
            THEN [computable |-> FALSE, reason |-> ReasonAgainst(team)]
            ELSE BudgetUsage(ShownBudget(team), ShownState(team),
                             ShownPeriod(team), TeamsAccounts(team),
                             UsedSoFar(team), ForecastOf(team))
<1>1. Min({today, today}) = today
  BY MinOfTwo
<1>2. Ledger.today = today
  BY DEF Ledger
<1>3. QED
  BY <1>1, <1>2 DEF StatusOf, ComputeBudgetStatus, ShownBudget, ShownState,
     ShownPeriod, TeamsAccounts, JudgedUntil, TeamCoverage, ReasonAgainst,
     UsedSoFar, ForecastOf

(* What a status that is computed rests on.                                *)
LEMMA ComputedMeans ==
  ASSUME today \in Int, NEW team, StatusOf(team).computable
  PROVE  /\ ShownBudget(team) # NoBudget /\ ReasonAgainst(team) = None
         /\ StatusOf(team) =
              BudgetUsage(ShownBudget(team), ShownState(team),
                          ShownPeriod(team), TeamsAccounts(team),
                          UsedSoFar(team), ForecastOf(team))
         /\ ShownBudget(team).currency = TeamCurrency[team]
         /\ ShownState(team) # "upcoming" =>
              \A a \in TeamsAccounts(team) :
                AccountCoverage(Ledger, a, ShownPeriod(team).start,
                                JudgedUntil(team)).missing = {}
<1>1. ShownBudget(team) # NoBudget /\ ReasonAgainst(team) = None
  <2>1. CASE ShownBudget(team) = NoBudget
    <3>1. StatusOf(team) = [computable |-> FALSE, reason |-> "NO_BUDGET"]
      BY <2>1, StatusUnfolds
    <3>2. QED
      BY <3>1
  <2>2. CASE ShownBudget(team) # NoBudget /\ ReasonAgainst(team) # None
    <3>1. StatusOf(team)
            = [computable |-> FALSE, reason |-> ReasonAgainst(team)]
      BY <2>2, StatusUnfolds
    <3>2. QED
      BY <3>1
  <2>3. QED
    BY <2>1, <2>2
<1>2. StatusOf(team) =
        BudgetUsage(ShownBudget(team), ShownState(team), ShownPeriod(team),
                    TeamsAccounts(team), UsedSoFar(team), ForecastOf(team))
  BY <1>1, StatusUnfolds
<1>3. ShownBudget(team).currency = TeamCurrency[team]
  BY <1>1 DEF ReasonAgainst, BudgetReason, None
<1>4. ShownState(team) # "upcoming" => UnionMissing(TeamCoverage(team)) = {}
  BY <1>1 DEF ReasonAgainst, BudgetReason, None
<1>5. UnionMissing(TeamCoverage(team)) = {} =>
        \A a \in TeamsAccounts(team) : TeamCoverage(team)[a].missing = {}
  BY DEF UnionMissing, TeamCoverage, PeriodCoverage
<1>6. \A a \in TeamsAccounts(team) : TeamCoverage(team)[a]
        = AccountCoverage(Ledger, a, ShownPeriod(team).start,
                          JudgedUntil(team))
  BY DEF TeamCoverage, PeriodCoverage
<1>7. QED
  BY <1>1, <1>2, <1>3, <1>4, <1>5, <1>6

(* Its budget is the team's, and so are its accounts.                      *)
LEMMA ShownTyped ==
  ASSUME LedgerInv, NEW team, StatusOf(team).computable
  PROVE  /\ today \in Int
         /\ ShownBudget(team) \in BudgetsOf(team)
         /\ ShownBudget(team) \in TeamBudgets
         /\ ShownBudget(team).limit \in Nat \ {0}
         /\ ShownPeriod(team).start \in Int /\ ShownPeriod(team).end \in Int
         /\ TeamsAccounts(team) \in SUBSET Accounts
         /\ \A a \in TeamsAccounts(team) : TeamOf[a] = team
<1>1. /\ today \in 0 .. LastDay /\ today \in Int
      /\ BudgetsOf(team) \in SUBSET TeamBudgets
  BY LedgerAssumption DEF LedgerInv, BudgetsOf
<1>2. ShownBudget(team) \in BudgetsOf(team)
  BY <1>1, ShownIsOne, ComputedMeans DEF ShownBudget
<1>3. ShownPeriod(team).start \in Int /\ ShownPeriod(team).end \in Int
  BY <1>1, <1>2, BudgetPeriods DEF ShownPeriod
<1>4. /\ TeamsAccounts(team) \in SUBSET Accounts
      /\ \A a \in TeamsAccounts(team) : TeamOf[a] = team
  BY DEF TeamsAccounts, Included, Supported, TeamAccounts, Ledger, LedgerInv
<1>5. QED
  BY <1>1, <1>2, <1>3, <1>4, BudgetAssumption

(* The sums of a status are those of rows of a period.                     *)
LEMMA TeamUsageIs ==
  ASSUME NEW accounts, NEW currency, NEW start, NEW end
  PROVE  TeamUsage(Ledger, accounts, currency, start, end)
            = Amount(PeriodRows(accounts, currency, start, end))
BY DEF TeamUsage, PeriodRows, Ledger

LEMMA ThreeEnds ==
  ASSUME NEW end \in Int, NEW day \in Int
  PROVE  /\ Min({end, day + 1, day}) = Min({end, day})
         /\ Min({day, end}) = Min({end, day})
         /\ Min({end, day}) \in Int /\ Min({end, day}) <= day
         /\ Min({end, day + 1}) \in Int
         /\ Min({end, day}) <= Min({end, day + 1})
         /\ Min({end, day + 1}) <= day + 1
<1> DEFINE T == {end, day + 1, day}
           later == day + 1
           x == Min(T)
           y == Min({end, day})
           z == Min({end, later})
           v == Min({day, end})
<1>1. \E u \in T : \A w \in T : u <= w
  <2>1. CASE end <= day
    BY <2>1
  <2>2. CASE day <= end
    BY <2>2
  <2>3. QED
    BY <2>1, <2>2
<1>2. x \in T /\ \A w \in T : x <= w
  BY <1>1 DEF Min
<1>3. later \in Int /\ later = day + 1
  OBVIOUS
<1>4. /\ y \in Int /\ y <= end /\ y <= day
      /\ end <= day => y = end
      /\ day <= end => y = day
  BY MinOfTwo
<1>5. /\ v \in Int
      /\ end <= day => v = end
      /\ day <= end => v = day
  BY MinOfTwo
<1> HIDE DEF later
<1>6. /\ z \in Int /\ z <= end /\ z <= later
      /\ end <= later => z = end
      /\ later <= end => z = later
  BY <1>3, MinOfTwo
<1>7. x \in {end, later, day} /\ x <= end /\ x <= day
  BY <1>2 DEF later
<1> HIDE DEF x, y, z, v
<1>8. x = y /\ v = y /\ y <= z
  BY <1>3, <1>4, <1>5, <1>6, <1>7
<1>9. QED
  BY <1>3, <1>4, <1>6, <1>8 DEF x, y, z, v, later

(* The usage that is shown never exceeds what was billed up to the day     *)
(* itself.                                                                 *)
SpentOver(team, end) ==
    TrueUsage(TeamsAccounts(team), ShownBudget(team).currency,
              ShownPeriod(team).start, end)
Through(team, day) == Min({ShownPeriod(team).end, day})

LEMMA UsedWithinBill ==
  ASSUME LedgerInv, NEW team, StatusOf(team).computable
  PROVE  /\ UsedSoFar(team) \in Int
         /\ UsedSoFar(team) <= SpentOver(team, Through(team, today + 1))
         /\ SpentOver(team, Through(team, today + 1)) \in Int
         /\ StatusOf(team).ratio
              = RatioTenths(UsedSoFar(team), ShownBudget(team).limit)
<1> DEFINE accounts == TeamsAccounts(team)
           currency == ShownBudget(team).currency
           start == ShownPeriod(team).start
           end == Through(team, today + 1)
<1>1. /\ today \in Int /\ accounts \in SUBSET Accounts
      /\ start \in Int /\ ShownPeriod(team).end \in Int
  BY ShownTyped
<1>2. end \in Int
  <2> DEFINE e == ShownPeriod(team).end
  <2>1. e \in Int
    BY <1>1
  <2> HIDE DEF e
  <2>2. Min({e, today + 1}) \in Int
    BY <1>1, <2>1, ThreeEnds
  <2>3. QED
    BY <2>2 DEF Through, e
<1>3. /\ ShownBudget(team).currency = TeamCurrency[team]
      /\ StatusOf(team) =
           BudgetUsage(ShownBudget(team), ShownState(team),
                       ShownPeriod(team), accounts,
                       UsedSoFar(team), ForecastOf(team))
  BY <1>1, ComputedMeans
<1>4. UsedSoFar(team) = Amount(PeriodRows(accounts, currency, start, end))
  BY <1>3, TeamUsageIs DEF UsedSoFar, Through
<1>5. SpentOver(team, end) = TrueUsage(accounts, currency, start, end)
  BY DEF SpentOver
<1>6. StatusOf(team).ratio
        = RatioTenths(UsedSoFar(team), ShownBudget(team).limit)
  BY <1>3 DEF BudgetUsage
<1> HIDE DEF accounts, currency, start, end
<1>7. /\ Amount(PeriodRows(accounts, currency, start, end)) \in Int
      /\ Amount(PeriodRows(accounts, currency, start, end))
           <= TrueUsage(accounts, currency, start, end)
  BY <1>1, <1>2, RowsWithinBill
<1>8. TrueUsage(accounts, currency, start, end) \in Int
  BY <1>1, <1>2, BillGrows
<1>9. QED
  BY <1>4, <1>5, <1>6, <1>7, <1>8 DEF end

(* Over settled days it is at least what was billed for the days that are  *)
(* over, and the forecast prorates just that.                              *)
LEMMA SettledStatus ==
  ASSUME LedgerInv, NEW team, StatusOf(team).computable,
         ShownState(team) # "upcoming",
         \A a \in TeamsAccounts(team) :
            Settled(a, ShownPeriod(team).start, Through(team, today))
  PROVE  /\ SpentOver(team, Through(team, today)) \in Int
         /\ SpentOver(team, Through(team, today)) <= UsedSoFar(team)
         /\ ForecastOf(team).den # 0 =>
              ForecastOf(team).num
                = SpentOver(team, Through(team, today))
                    * (ShownPeriod(team).end - ShownPeriod(team).start)
<1> DEFINE accounts == TeamsAccounts(team)
           currency == ShownBudget(team).currency
           start == ShownPeriod(team).start
           last == ShownPeriod(team).end
           low == Through(team, today)
           high == Through(team, today + 1)
<1>1. /\ today \in Int /\ accounts \in SUBSET Accounts
      /\ start \in Int /\ last \in Int
  BY ShownTyped
<1>2. /\ low \in Int /\ high \in Int /\ low <= today /\ low <= high
      /\ JudgedUntil(team) = low /\ Min({today, last}) = low
  <2> HIDE DEF last
  <2>1. /\ Min({last, today + 1, today}) = Min({last, today})
        /\ Min({today, last}) = Min({last, today})
        /\ Min({last, today}) \in Int /\ Min({last, today}) <= today
        /\ Min({last, today + 1}) \in Int
        /\ Min({last, today}) <= Min({last, today + 1})
    BY <1>1, ThreeEnds
  <2>2. QED
    BY <2>1 DEF JudgedUntil, Through, last
<1>3. /\ currency = TeamCurrency[team]
      /\ \A a \in accounts :
           AccountCoverage(Ledger, a, start, low).missing = {}
  BY <1>1, <1>2, ComputedMeans
<1>4. /\ UsedSoFar(team) = Amount(PeriodRows(accounts, currency, start, high))
      /\ SpentOver(team, low) = TrueUsage(accounts, currency, start, low)
  BY <1>3, TeamUsageIs DEF UsedSoFar, SpentOver, Through
<1>5. \A a \in accounts : Settled(a, start, low)
  OBVIOUS
<1>6. ForecastOf(team).den # 0 =>
        ForecastOf(team).num
          = Amount(PeriodRows(accounts, currency, start, low))
              * (last - start)
  <2>1. ShownState(team) # "in_progress" => ForecastOf(team).den = 0
    BY <1>1 DEF ForecastOf, BudgetForecast
  <2>2. ShownState(team) = "in_progress" =>
          ForecastOf(team) = BudgetForecast(Ledger, accounts, currency,
                                            ShownPeriod(team), low)
    BY <1>2, <1>3 DEF ForecastOf
  <2>3. BudgetForecast(Ledger, accounts, currency, ShownPeriod(team), low)
          = IF low <= start THEN [num |-> 0, den |-> 0]
            ELSE [num |-> TeamUsage(Ledger, accounts, currency, start, low)
                            * (last - start),
                  den |-> low - start]
    BY DEF BudgetForecast
  <2>4. TeamUsage(Ledger, accounts, currency, start, low)
          = Amount(PeriodRows(accounts, currency, start, low))
    BY TeamUsageIs
  <2> HIDE DEF accounts, currency, start, last, low
  <2>5. QED
    BY <2>1, <2>2, <2>3, <2>4
<1> HIDE DEF accounts, currency, start, last, low, high
<1>7. ASSUME NEW a \in accounts, NEW d \in start .. low - 1
      PROVE  DayIsIn(a, d)
  <2>1. Covering(a, d) # {}
    <3>1. a \in Accounts
      BY <1>1
    <3>2. QED
      BY <1>1, <1>2, <1>3, <3>1, CoverageMeans
  <2>2. Settled(a, start, low)
    BY <1>5
  <2>3. QED
    BY <1>1, <1>2, <2>1, <2>2, SettledDay
<1>8. Amount(PeriodRows(accounts, currency, start, low))
        = TrueUsage(accounts, currency, start, low)
  BY <1>1, <1>2, <1>7, PeriodIsTrue
<1>9. Amount(PeriodRows(accounts, currency, start, low))
        <= Amount(PeriodRows(accounts, currency, start, high))
  BY <1>1, <1>2, RowsGrow
<1>10. TrueUsage(accounts, currency, start, low) \in Int
  BY <1>1, <1>2, BillGrows
<1>11. QED
  BY <1>4, <1>6, <1>8, <1>9, <1>10 DEF low, last, start

(* What BudgetIsHonest says of the status of a team.                       *)
StatusHonest(team) ==
    LET status == StatusOf(team)
        upTo(day) == TrueUsage(status.accounts, status.budget.currency,
                               status.period.start,
                               Min({status.period.end, day}))
    IN  /\ status.computable
        /\ status.state # "upcoming"
        /\ \A a \in status.accounts :
             Settled(a, status.period.start, Min({status.period.end, today}))
        => /\ RatioTenths(upTo(today), status.budget.limit) <= status.ratio
           /\ status.ratio <= RatioTenths(upTo(today + 1), status.budget.limit)
           /\ status.forecast.den # 0 =>
                status.forecast.num
                  = upTo(today) * (status.period.end - status.period.start)

LEMMA StatusesHonest == LedgerInv => \A team : StatusHonest(team)
<1> SUFFICES ASSUME LedgerInv, NEW team PROVE StatusHonest(team)
  OBVIOUS
<1> DEFINE status == StatusOf(team)
           before == SpentOver(team, Through(team, today))
           after == SpentOver(team, Through(team, today + 1))
<1>1. today \in Int
  BY LedgerAssumption DEF LedgerInv
<1>2. status.computable =>
        /\ status.budget = ShownBudget(team)
        /\ status.state = ShownState(team)
        /\ status.period = ShownPeriod(team)
        /\ status.accounts = TeamsAccounts(team)
        /\ status.forecast = ForecastOf(team)
  BY <1>1, ComputedMeans DEF BudgetUsage
<1> HIDE DEF status
<1>3. status.computable =>
        /\ TrueUsage(status.accounts, status.budget.currency,
                     status.period.start, Min({status.period.end, today}))
             = before
        /\ TrueUsage(status.accounts, status.budget.currency,
                     status.period.start, Min({status.period.end, today + 1}))
             = after
  BY <1>2 DEF SpentOver, Through
<1>4. ASSUME status.computable, status.state # "upcoming",
             \A a \in status.accounts :
               Settled(a, status.period.start, Min({status.period.end, today}))
      PROVE  /\ RatioTenths(before, status.budget.limit) <= status.ratio
             /\ status.ratio <= RatioTenths(after, status.budget.limit)
             /\ status.forecast.den # 0 =>
                  status.forecast.num
                    = before * (status.period.end - status.period.start)
  <2>1. \A a \in TeamsAccounts(team) :
          Settled(a, ShownPeriod(team).start, Through(team, today))
    BY <1>2, <1>4 DEF Through
  <2>2. /\ before \in Int /\ before <= UsedSoFar(team)
        /\ ForecastOf(team).den # 0 =>
             ForecastOf(team).num
               = before * (ShownPeriod(team).end - ShownPeriod(team).start)
    BY <1>2, <1>4, <2>1, SettledStatus DEF status
  <2>3. /\ UsedSoFar(team) \in Int /\ UsedSoFar(team) <= after
        /\ after \in Int
        /\ status.ratio
             = RatioTenths(UsedSoFar(team), ShownBudget(team).limit)
    BY <1>4, UsedWithinBill DEF status
  <2>4. ShownBudget(team).limit \in Nat \ {0}
    BY <1>4, ShownTyped DEF status
  <2> HIDE DEF before, after
  <2>5. /\ RatioTenths(before, ShownBudget(team).limit) <= status.ratio
        /\ status.ratio <= RatioTenths(after, ShownBudget(team).limit)
    BY <2>2, <2>3, <2>4, RatioOrdered
  <2>6. QED
    BY <1>2, <1>4, <2>2, <2>5
<1> HIDE DEF before, after
<1>5. QED
  BY <1>3, <1>4 DEF StatusHonest, status

(* An announced threshold is one the billed usage has reached.             *)
TeamMembers(team) == {a \in Accounts : TeamOf[a] = team}
AlertHolds(alert, b, day) ==
    RatioTenths(TrueUsage(TeamMembers(b.team), b.currency, alert.period,
                          day + 1), b.limit) >= 10 * alert.threshold
AlertFits(alert) ==
    /\ alert.period \in Int /\ alert.threshold \in Int
    /\ \E b \in TeamBudgets :
          b.id = alert.budget /\ AlertHolds(alert, b, today)
AlertInv == \A alert \in alerts : AlertFits(alert)

DueNow(team) == DueAlerts(Ledger, BudgetsOf(team), team, {})
DueFits == \A team : \A alert \in DueNow(team) : AlertFits(alert)

LEMMA DueHolds == LedgerInv => DueFits
<1> SUFFICES ASSUME LedgerInv, NEW team, NEW alert \in DueNow(team)
             PROVE  AlertFits(alert)
  BY DEF DueFits
<1> DEFINE status == StatusOf(team)
           b == ShownBudget(team)
           start == ShownPeriod(team).start
           end == Through(team, today + 1)
           members == TeamMembers(b.team)
           limit == b.limit
           used == UsedSoFar(team)
           bill == SpentOver(team, end)
           all == TrueUsage(members, b.currency, start, today + 1)
<1>1. /\ status.computable /\ \E p \in status.crossed :
           alert = [budget |-> status.budget.id,
                    period |-> status.period.start, threshold |-> p]
  <2>1. Ledger.today = today
    BY DEF Ledger
  <2>2. DueNow(team) =
          IF ~status.computable \/ status.state # "in_progress" THEN {}
          ELSE {[budget |-> status.budget.id, period |-> status.period.start,
                 threshold |-> p] : p \in status.crossed} \ {}
    BY <2>1 DEF DueNow, DueAlerts, StatusOf
  <2> HIDE DEF status
  <2>3. QED
    BY <2>2
<1>2. /\ today \in Int /\ b \in TeamBudgets /\ b.team = team
      /\ limit \in Nat \ {0} /\ start \in Int
      /\ ShownPeriod(team).end \in Int
      /\ TeamsAccounts(team) \in SUBSET Accounts
      /\ \A a \in TeamsAccounts(team) : TeamOf[a] = team
  BY <1>1, ShownTyped DEF BudgetsOf
<1>3. status = BudgetUsage(b, ShownState(team), ShownPeriod(team),
                           TeamsAccounts(team), used, ForecastOf(team))
  BY <1>1, <1>2, ComputedMeans
<1>4. PICK p \in Thresholds :
        /\ RatioTenths(used, limit) >= 10 * p
        /\ alert = [budget |-> b.id, period |-> start, threshold |-> p]
  BY <1>1, <1>3 DEF BudgetUsage
<1>5. used \in Int /\ bill \in Int /\ used <= bill
  BY <1>1, UsedWithinBill
<1>6. end \in Int /\ end <= today + 1
  <2> DEFINE e == ShownPeriod(team).end
  <2>1. e \in Int
    BY <1>2
  <2> HIDE DEF e
  <2>2. Min({e, today + 1}) \in Int /\ Min({e, today + 1}) <= today + 1
    BY <1>2, <2>1, ThreeEnds
  <2>3. QED
    BY <2>2 DEF Through, e
<1>7. all \in Int /\ bill <= all
  <2>1. /\ TeamsAccounts(team) \subseteq members
        /\ members \in SUBSET Accounts
    BY <1>2 DEF TeamMembers
  <2> DEFINE high == today + 1
  <2>2. high \in Int /\ end <= high
    BY <1>2, <1>6
  <2>3. bill = TrueUsage(TeamsAccounts(team), b.currency, start, end)
    BY DEF SpentOver
  <2> HIDE DEF bill, end, start, members, b, high
  <2>4. /\ TrueUsage(members, b.currency, start, high) \in Int
        /\ TrueUsage(TeamsAccounts(team), b.currency, start, end)
             <= TrueUsage(members, b.currency, start, high)
    BY <1>2, <1>6, <2>1, <2>2, BillGrows
  <2>5. QED
    BY <2>3, <2>4 DEF high
<1> HIDE DEF used, bill, all, limit
<1>8. /\ RatioTenths(used, limit) \in Int /\ RatioTenths(all, limit) \in Int
      /\ RatioTenths(used, limit) <= RatioTenths(all, limit)
  <2>1. used <= all
    BY <1>5, <1>7
  <2>2. QED
    BY <1>2, <1>5, <1>7, <2>1, RatioOrdered
<1>9. p \in Int
  BY DEF Thresholds
<1>10. RatioTenths(all, limit) >= 10 * p
  BY <1>4, <1>8, <1>9
<1>11. AlertHolds(alert, b, today)
  BY <1>4, <1>10 DEF AlertHolds, all, limit
<1>12. alert.budget = b.id /\ alert.period = start /\ alert.threshold = p
  BY <1>4
<1>13. QED
  BY <1>2, <1>9, <1>11, <1>12 DEF AlertFits

(* Once reached, a threshold stays reached.                                *)
LEMMA StaysReached ==
  ASSUME NEW alert, NEW b \in TeamBudgets, alert.period \in Int,
         alert.threshold \in Int, NEW day \in Int, NEW other \in Int,
         day <= other, AlertHolds(alert, b, day)
  PROVE  AlertHolds(alert, b, other)
<1> DEFINE members == TeamMembers(b.team)
           low == day + 1
           high == other + 1
           x == TrueUsage(members, b.currency, alert.period, low)
           y == TrueUsage(members, b.currency, alert.period, high)
           limit == b.limit
<1>1. members \in SUBSET Accounts /\ members \subseteq members
  BY DEF TeamMembers
<1>2. low \in Int /\ high \in Int /\ low <= high /\ limit \in Nat \ {0}
  BY BudgetAssumption
<1> HIDE DEF members, low, high, limit
<1>3. x \in Int /\ y \in Int /\ x <= y
  BY <1>1, <1>2, BillGrows
<1>4. RatioTenths(x, limit) >= 10 * alert.threshold
  BY DEF AlertHolds, members, low, limit
<1> HIDE DEF x, y
<1>5. /\ RatioTenths(x, limit) \in Int /\ RatioTenths(y, limit) \in Int
      /\ RatioTenths(x, limit) <= RatioTenths(y, limit)
  BY <1>2, <1>3, RatioOrdered
<1>6. RatioTenths(y, limit) >= 10 * alert.threshold
  BY <1>4, <1>5
<1>7. QED
  BY <1>6 DEF AlertHolds, y, members, high, limit

LEMMA AlertsStored ==
  ASSUME LedgerInv, NEW a \in Accounts, NEW window, NEW trigger,
         Store(a, window, trigger)
  PROVE  /\ alerts' \subseteq alerts \union DueNow(TeamOf[a])'
         /\ today' = today
<1> DEFINE team == TeamOf[a]
<1>1. /\ keys' = keys /\ today' = today /\ verified' = verified
      /\ alerts' = alerts \union
           (IF team = NoTeam THEN {}
            ELSE DueAlerts([Ledger EXCEPT !.rows = rows', !.runs = runs'],
                           {b \in TeamBudgets : b.team = team}, team, alerts))
  BY Zenon DEF Store
<1>2. [Ledger EXCEPT !.rows = rows', !.runs = runs']
        = [rows |-> rows', runs |-> runs', keys |-> keys',
           verified |-> verified', today |-> today']
  <2>1. keys' = keys /\ today' = today /\ verified' = verified
    BY <1>1
  <2> DEFINE m == [Ledger EXCEPT !.rows = rows']
  <2>2. m = [rows |-> rows', runs |-> runs, keys |-> keys,
             verified |-> verified, today |-> today]
    BY DEF Ledger
  <2>3. [Ledger EXCEPT !.rows = rows', !.runs = runs']
          = [m EXCEPT !.runs = runs']
    BY Zenon
  <2> HIDE DEF m
  <2>4. [m EXCEPT !.runs = runs']
          = [rows |-> rows', runs |-> runs', keys |-> keys,
             verified |-> verified, today |-> today]
    BY <2>2
  <2>5. QED
    BY <2>1, <2>3, <2>4, Zenon
<1>3. ASSUME NEW ledger, NEW budgets, NEW announced
      PROVE  DueAlerts(ledger, budgets, team, announced)
                \subseteq DueAlerts(ledger, budgets, team, {})
  BY DEF DueAlerts
<1>4. DueNow(team)' = DueAlerts([rows |-> rows', runs |-> runs',
                                 keys |-> keys', verified |-> verified',
                                 today |-> today'],
                                {b \in TeamBudgets : b.team = team}, team, {})
  BY DEF DueNow, BudgetsOf, Ledger
<1>5. QED
  BY <1>1, <1>2, <1>3, <1>4

LEMMA AlertStep ==
  ASSUME LedgerInv, LedgerInv', AlertInv, [Next]_vars
  PROVE  AlertInv'
<1>1. DueFits'
  <2>1. LedgerInv' => DueFits'
    BY DueHolds, PTL
  <2>2. QED
    BY <2>1
<1>2. ASSUME today' \in Int, today <= today', alerts' \subseteq alerts
      PROVE  AlertInv'
  <2>1. today \in Int
    BY LedgerAssumption DEF LedgerInv
  <2> SUFFICES ASSUME NEW alert \in alerts PROVE AlertFits(alert)'
    BY <1>2 DEF AlertInv
  <2>2. PICK b \in TeamBudgets :
          b.id = alert.budget /\ AlertHolds(alert, b, today)
    BY DEF AlertInv, AlertFits
  <2>3. alert.period \in Int /\ alert.threshold \in Int
    BY DEF AlertInv, AlertFits
  <2>4. AlertHolds(alert, b, today')
    BY <1>2, <2>1, <2>2, <2>3, StaysReached
  <2>5. QED
    BY <2>2, <2>3, <2>4 DEF AlertFits, AlertHolds
<1>3. ASSUME NEW a \in Accounts, NEW window, NEW trigger,
             Store(a, window, trigger)
      PROVE  AlertInv'
  <2>1. alerts' \subseteq alerts \union DueNow(TeamOf[a])' /\ today' = today
    BY <1>3, AlertsStored
  <2>2. ASSUME NEW alert \in alerts PROVE AlertFits(alert)'
    <3>1. AlertFits(alert)
      BY DEF AlertInv
    <3>2. QED
      BY <2>1, <3>1 DEF AlertFits, AlertHolds
  <2>3. ASSUME NEW alert \in DueNow(TeamOf[a])' PROVE AlertFits(alert)'
    BY <1>1, <2>3 DEF DueFits
  <2>4. QED
    BY <2>1, <2>2, <2>3 DEF AlertInv
<1>4. today \in Int /\ today' \in Int
  BY LedgerAssumption DEF LedgerInv
<1>5. ASSUME NEW a \in Accounts, ManualRun(a) PROVE AlertInv'
  BY <1>3, <1>5 DEF ManualRun
<1>6. ASSUME NEW a \in Accounts, DailyRun(a) PROVE AlertInv'
  BY <1>3, <1>6 DEF DailyRun
<1>7. ASSUME NEW a \in Accounts, FailedRun(a) PROVE AlertInv'
  BY <1>2, <1>4, <1>7 DEF FailedRun
<1>8. ASSUME NEW a \in Removable,
             DeleteLastKey(a) \/ RegisterAgain(a) \/ CheckKey(a)
      PROVE  AlertInv'
  BY <1>2, <1>4, <1>8 DEF DeleteLastKey, RegisterAgain, CheckKey
<1>9. ASSUME DayPasses PROVE AlertInv'
  BY <1>2, <1>4, <1>9 DEF DayPasses
<1>10. ASSUME UNCHANGED vars PROVE AlertInv'
  BY <1>2, <1>4, <1>10 DEF vars
<1>11. QED
  BY <1>5, <1>6, <1>7, <1>8, <1>9, <1>10 DEF Next

(* No collection, key or day brings the budget pages out of step with the  *)
(* charges: a ratio that is shown over settled days lies between what was  *)
(* billed for the days that are over and for the day itself, the forecast  *)
(* prorates exactly the former, and a threshold is announced only once the *)
(* team's charges have reached it (compute_budget_status,                  *)
(* evaluate_team_budget).                                                  *)
THEOREM BudgetsHonest == Spec => []BudgetIsHonest
<1>1. Init => AlertInv
  BY DEF Init, AlertInv
<1>2. LedgerInv /\ LedgerInv' /\ AlertInv /\ [Next]_vars => AlertInv'
  BY AlertStep
<1>3. ASSUME LedgerInv, AlertInv PROVE BudgetIsHonest
  <2>1. \A team \in Teams : StatusHonest(team)
    BY <1>3, StatusesHonest
  <2>2. ASSUME NEW alert \in alerts,
               NEW b, b = CHOOSE c \in TeamBudgets : c.id = alert.budget
        PROVE  AlertHolds(alert, b, today)
    <3>1. PICK c \in TeamBudgets :
            c.id = alert.budget /\ AlertHolds(alert, c, today)
      BY <1>3 DEF AlertInv, AlertFits
    <3>2. b \in TeamBudgets /\ b.id = alert.budget
      BY <2>2, <3>1
    <3>3. b = c
      BY <3>1, <3>2, BudgetAssumption
    <3>4. QED
      BY <3>1, <3>3
  <2>3. QED
    BY <2>1, <2>2, Zenon
       DEF BudgetIsHonest, StatusHonest, StatusOf, AlertHolds, TeamMembers
<1>4. QED
  BY <1>1, <1>2, <1>3, LedgerInductive, PTL DEF Spec

(***************************************************************************)
(* Total, breakdown and trend                                              *)
(***************************************************************************)

LEMMA RowAmounts ==
  ASSUME LedgerInv
  PROVE  \A row \in rows : row.amount \in Int /\ row.currency # None
<1> SUFFICES ASSUME NEW row \in rows
             PROVE  row.amount \in Int /\ row.currency # None
  OBVIOUS
<1>1. PICK i, c : /\ c \in Seen(row.account, row.day, runs[i].at)
                  /\ row = RowOf(row.account, row.day, c, i)
  BY RowOrigin
<1>2. /\ row.account \in Accounts /\ row.day \in ChargedDays(row.account)
      /\ c \in Charge[row.account][row.day]
  BY <1>1, RowOrigin, SeenIsCharged
<1>3. c.amount \in Int /\ BilledIn[row.account] # None
  BY <1>2, ChargeAssumption DEF ChargedDays
<1>4. row.amount = c.amount /\ row.currency = BilledIn[row.account]
  BY <1>1 DEF RowOf
<1>5. QED
  BY <1>3, <1>4

(* An amount is that of the parts it falls into.                           *)
LEMMA AmountGathers ==
  ASSUME NEW R, IsFiniteSet(R), \A row \in R : row.amount \in Int,
         NEW K, IsFiniteSet(K), NEW f, \A row \in R : f[row] \in K,
         NEW g, \A k \in K : g[k] = Amount(Fibre(f, R, k))
  PROVE  Amount(R) = Total(g, K)
<1> DEFINE w == Amounts(R)
           parts == Gathered(w, f, R, K)
<1>1. Amount(R) = Total(w, R)
  BY AmountIsTotal
<1>2. \A row \in R : w[row] \in Int
  BY DEF Amounts
<1> HIDE DEF w
<1>3. Total(w, R) = Total(parts, K)
  BY <1>2, TotalGathers
<1>4. ASSUME NEW k \in K PROVE parts[k] = g[k]
  <2> DEFINE F == Fibre(f, R, k)
  <2>1. F \in SUBSET R
    BY DEF Fibre
  <2>2. g[k] = Amount(F) /\ parts[k] = Total(w, F)
    BY DEF Gathered
  <2> HIDE DEF F
  <2>3. IsFiniteSet(F)
    BY <2>1, FS_Subset
  <2>4. \A x \in F : Amounts(F)[x] = w[x]
    BY <2>1 DEF Amounts, w
  <2>5. Amount(F) = Total(Amounts(F), F)
    BY <2>3, AmountIsTotal
  <2>6. Total(Amounts(F), F) = Total(w, F)
    BY <2>3, <2>4, TotalSame
  <2>7. QED
    BY <2>2, <2>5, <2>6
<1> HIDE DEF parts
<1>5. Total(parts, K) = Total(g, K)
  BY <1>4, TotalSame
<1>6. QED
  BY <1>1, <1>3, <1>5

(* The shares of a breakdown add up to its total, whichever are the        *)
(* largest.                                                                *)
SumOfEntries(f) == MapThenSumSet(LAMBDA k : f[k], DOMAIN f)
Adds(b, total) ==
    b.total = total /\ SumOfEntries(b.items) + b.rest + b.unallocated = total

LEMMA SharesAdd ==
  ASSUME NEW currency, NEW K, IsFiniteSet(K), NEW buckets \in [K -> Int],
         NEW unallocated \in Int, NEW topN \in Nat
  PROVE  Adds(Shares(currency, buckets, unallocated, topN),
              Total(buckets, K) + unallocated)
<1> DEFINE n == Min({topN, Cardinality(K)})
           IsTop(T) == /\ Cardinality(T) = n
                       /\ \A k \in T, l \in K \ T : buckets[k] >= buckets[l]
           top == CHOOSE T \in SUBSET K : IsTop(T)
           sum(some) == MapThenSumSet(LAMBDA k : buckets[k], some)
           items == [k \in top |-> buckets[k]]
           shares == Shares(currency, buckets, unallocated, topN)
<1>1. top \in SUBSET K
  <2>1. Cardinality(K) \in Nat
    BY FS_CardinalityType
  <2>2. n \in Nat /\ n <= Cardinality(K)
    <3> DEFINE size == Cardinality(K)
    <3>1. size \in Nat /\ size \in Int /\ topN \in Int
      BY <2>1
    <3> HIDE DEF size
    <3>2. /\ topN <= size => Min({topN, size}) = topN
          /\ size <= topN => Min({topN, size}) = size
      BY <3>1, MinOfTwo
    <3>3. Min({topN, size}) \in Nat /\ Min({topN, size}) <= size
      BY <3>1, <3>2
    <3>4. QED
      BY <3>3 DEF size
  <2>3. \E T \in SUBSET K : IsTop(T)
    <3> HIDE DEF n
    <3>1. QED
      BY <2>2, LargestExist
  <2> HIDE DEF IsTop
  <2>4. QED
    BY <2>3
<1>2. DOMAIN buckets = K
  OBVIOUS
<1>3. /\ shares.total = sum(K) + unallocated
      /\ shares.items = items /\ shares.rest = sum(K \ top)
      /\ shares.unallocated = unallocated
  <2>1. shares = [currency |-> currency, total |-> sum(K) + unallocated,
                  items |-> items, rest |-> sum(K \ top),
                  unallocated |-> unallocated]
    BY <1>2, Zenon DEF Shares
  <2> HIDE DEF shares, sum, items
  <2>2. QED
    BY <2>1
<1>4. ASSUME NEW some \in SUBSET K PROVE sum(some) = Total(buckets, some)
  <2>1. IsFiniteSet(some)
    BY FS_Subset
  <2>2. QED
    BY <2>1, SumIsTotal, Zenon
<1> HIDE DEF sum, shares, top
<1>5. SumOfEntries(items) = Total(buckets, top)
  <2>1. IsFiniteSet(top) /\ DOMAIN items = top
    BY <1>1, FS_Subset
  <2>2. SumOfEntries(items) = Total(items, top)
    <3> DEFINE f == items
    <3>1. IsFiniteSet(DOMAIN f) /\ DOMAIN f = top
      BY <2>1
    <3> HIDE DEF f
    <3>2. MapThenSumSet(LAMBDA k : f[k], DOMAIN f) = Total(f, DOMAIN f)
      BY <3>1, SumIsTotal, Zenon
    <3>3. QED
      BY <3>1, <3>2, Zenon DEF SumOfEntries, f
  <2>3. Total(items, top) = Total(buckets, top)
    BY <2>1, TotalSame
  <2>4. QED
    BY <2>2, <2>3
<1> HIDE DEF items
<1>6. /\ Total(buckets, K) = Total(buckets, top) + Total(buckets, K \ top)
      /\ Total(buckets, K) \in Int /\ Total(buckets, top) \in Int
      /\ Total(buckets, K \ top) \in Int
  <2>1. \A k \in K : buckets[k] \in Int
    OBVIOUS
  <2>2. Total(buckets, K) = Total(buckets, top) + Total(buckets, K \ top)
    BY <1>1, <2>1, TotalSplit
  <2>3. \A some \in SUBSET K : Total(buckets, some) \in Int
    <3>1. SUFFICES ASSUME NEW some \in SUBSET K
                   PROVE  Total(buckets, some) \in Int
      OBVIOUS
    <3>2. IsFiniteSet(some)
      BY FS_Subset
    <3>3. QED
      BY <2>1, <3>2, TotalTyped
  <2>4. QED
    BY <1>1, <2>2, <2>3
<1>7. sum(K) = Total(buckets, K) /\ sum(K \ top) = Total(buckets, K \ top)
  BY <1>4
<1>8. QED
  BY <1>3, <1>5, <1>6, <1>7 DEF Adds, shares

(* The amount of finitely many rows is a number.                           *)
LEMMA AmountTyped ==
  ASSUME NEW R, IsFiniteSet(R), \A row \in R : row.amount \in Int
  PROVE  Amount(R) \in Int
<1>1. \A row \in R : Amounts(R)[row] \in Int
  BY DEF Amounts
<1>2. Amount(R) = Total(Amounts(R), R)
  BY AmountIsTotal
<1>3. Total(Amounts(R), R) \in Int
  BY <1>1, TotalTyped
<1>4. QED
  BY <1>2, <1>3

(* The questions of the pages, and the rows they are about.                *)
PageQuestion(start, end, providers) ==
    [start |-> start, end |-> end, providers |-> providers, accounts |-> {},
     currency |-> None, categories |-> {"usage"}]
Asked(q) == RowsIn(Ledger, q, q.categories, q.end)
InCurrency(q, c) == {row \in Asked(q) : row.currency = c}

LEMMA AskedRows ==
  ASSUME LedgerInv, NEW start, NEW end, NEW providers,
         NEW q, q = PageQuestion(start, end, providers)
  PROVE  /\ IsFiniteSet(Asked(q)) /\ Asked(q) \in SUBSET rows
         /\ \A row \in Asked(q) : row.amount \in Int
         /\ \A c : ChartRows(Ledger, q, c, {"usage"}) = InCurrency(q, c)
         /\ \A c : ChartRows(Ledger, q, c, q.categories) = InCurrency(q, c)
         /\ \A c : IsFiniteSet(InCurrency(q, c))
<1>1. Asked(q) \in SUBSET rows
  BY DEF Asked, RowsIn, Ledger
<1>2. IsFiniteSet(Asked(q))
  BY <1>1, FS_Subset DEF LedgerInv
<1>3. \A row \in Asked(q) : row.amount \in Int
  BY <1>1, RowAmounts
<1>4. /\ q.categories = {"usage"} /\ q.currency = None
  BY DEF PageQuestion
<1>5. ASSUME NEW c PROVE ChartRows(Ledger, q, c, {"usage"}) = InCurrency(q, c)
  <2>1. CASE c = None
    <3>1. \A row \in Asked(q) : row.currency # None
      BY <1>1, RowAmounts
    <3>2. QED
      BY <2>1, <3>1 DEF ChartRows, InCurrency
  <2>2. CASE c # None
    <3> DEFINE p == [q EXCEPT !.currency = c]
    <3>1. /\ p.start = q.start /\ p.end = q.end /\ p.currency = c
          /\ p.providers = q.providers /\ p.accounts = q.accounts
      BY DEF PageQuestion
    <3>2. ChartRows(Ledger, q, c, {"usage"})
            = RowsIn(Ledger, p, {"usage"}, q.end)
      BY <2>2 DEF ChartRows
    <3> HIDE DEF p
    <3>3. OwnedAccounts(Ledger, p) = OwnedAccounts(Ledger, q)
      BY <3>1 DEF OwnedAccounts
    <3>4. RowsIn(Ledger, p, {"usage"}, q.end) = InCurrency(q, c)
      BY <1>4, <2>2, <3>1, <3>3 DEF RowsIn, InCurrency, Asked
    <3>5. QED
      BY <3>2, <3>4
  <2>3. QED
    BY <2>1, <2>2
<1>6. \A c : IsFiniteSet(InCurrency(q, c))
  <2>1. SUFFICES ASSUME NEW c PROVE IsFiniteSet(InCurrency(q, c))
    OBVIOUS
  <2>2. InCurrency(q, c) \in SUBSET Asked(q)
    BY DEF InCurrency
  <2>3. QED
    BY <1>2, <2>2, FS_Subset
<1>7. QED
  BY <1>1, <1>2, <1>3, <1>4, <1>5, <1>6

(* A breakdown adds up to the rows it is drawn from ...                    *)
Bucket(dimension, R, k) ==
    Amount({row \in R : BreakdownKey(dimension, row) = k})
Keyed(dimension, R) ==
    {BreakdownKey(dimension, row) : row \in R} \ {Unallocated}
Buckets(dimension, R) ==
    [k \in Keyed(dimension, R) |-> Bucket(dimension, R, k)]

LEMMA BucketsAdd ==
  ASSUME NEW R, IsFiniteSet(R), \A row \in R : row.amount \in Int,
         NEW dimension, NEW currency, NEW topN \in Nat
  PROVE  Adds(Shares(currency, Buckets(dimension, R),
                     Bucket(dimension, R, Unallocated), topN), Amount(R))
<1> DEFINE f == [row \in R |-> BreakdownKey(dimension, row)]
           all == {f[row] : row \in R} \union {Unallocated}
           g == [k \in all |-> Bucket(dimension, R, k)]
           K == Keyed(dimension, R)
           rest == Bucket(dimension, R, Unallocated)
<1>1. IsFiniteSet(all) /\ all \ {Unallocated} = K
  <2>1. IsFiniteSet({f[row] : row \in R})
    <3> DEFINE T == {f[row] : row \in R}
    <3>1. /\ \A row \in R : f[row] \in T
          /\ \A k \in T : \E row \in R : f[row] = k
      OBVIOUS
    <3> HIDE DEF f, T
    <3>2. IsFiniteSet(T)
      BY <3>1, ImageIsFinite
    <3>3. QED
      BY <3>2 DEF T
  <2>2. {f[row] : row \in R} = {BreakdownKey(dimension, row) : row \in R}
    OBVIOUS
  <2>3. QED
    BY <2>1, <2>2, FS_AddElement DEF Keyed
<1>2. \A k : Bucket(dimension, R, k) = Amount(Fibre(f, R, k))
  <2>1. \A k : {row \in R : BreakdownKey(dimension, row) = k}
                  = Fibre(f, R, k)
    BY DEF Fibre
  <2>2. QED
    BY <2>1 DEF Bucket
<1>3. \A k : Bucket(dimension, R, k) \in Int
  <2>1. SUFFICES ASSUME NEW k PROVE Bucket(dimension, R, k) \in Int
    OBVIOUS
  <2>2. Fibre(f, R, k) \in SUBSET R
    BY DEF Fibre
  <2> HIDE DEF f
  <2>3. IsFiniteSet(Fibre(f, R, k)) /\ Amount(Fibre(f, R, k)) \in Int
    BY <2>2, FS_Subset, AmountTyped
  <2>4. QED
    BY <1>2, <2>3
<1>4. Amount(R) = Total(g, all)
  <2>1. \A row \in R : f[row] \in all
    OBVIOUS
  <2>2. \A k \in all : g[k] = Amount(Fibre(f, R, k))
    BY <1>2
  <2>3. IsFiniteSet(all)
    BY <1>1
  <2> HIDE DEF f, all, g
  <2>4. QED
    BY <2>1, <2>2, <2>3, AmountGathers
<1>5. Total(g, all) = rest + Total(g, K)
  <2>1. Unallocated \in all /\ \A k \in all : g[k] \in Int
    BY <1>3
  <2>2. g[Unallocated] = rest
    OBVIOUS
  <2> HIDE DEF all, g, K, rest
  <2>3. QED
    BY <1>1, <2>1, <2>2, TotalLessOne
<1>6. Total(g, K) = Total(Buckets(dimension, R), K)
  <2>1. IsFiniteSet(K) /\ K \in SUBSET all
    <3> HIDE DEF all, K
    <3>1. QED
      BY <1>1, FS_Subset
  <2>2. \A k \in K : g[k] = Buckets(dimension, R)[k]
    BY <2>1 DEF Buckets
  <2> HIDE DEF all, g, K
  <2>3. QED
    BY <2>1, <2>2, TotalSame
<1>7. /\ Buckets(dimension, R) \in [K -> Int] /\ rest \in Int
      /\ IsFiniteSet(K)
  <2>1. Buckets(dimension, R) \in [K -> Int] /\ rest \in Int
    BY <1>3 DEF Buckets
  <2>2. IsFiniteSet(K)
    <3> HIDE DEF all, K
    <3>1. QED
      BY <1>1, FS_Subset
  <2>3. QED
    BY <2>1, <2>2
<1>8. Total(Buckets(dimension, R), K) \in Int
  <2> DEFINE b == Buckets(dimension, R)
  <2>1. \A k \in K : b[k] \in Int
    BY <1>7
  <2> HIDE DEF b, K
  <2>2. Total(b, K) \in Int
    BY <1>7, <2>1, TotalTyped
  <2>3. QED
    BY <2>2 DEF b
<1>9. Adds(Shares(currency, Buckets(dimension, R), rest, topN),
           Total(Buckets(dimension, R), K) + rest)
  <2> HIDE DEF K, rest
  <2>1. QED
    BY <1>7, SharesAdd
<1> HIDE DEF all, g, K, rest
<1>10. Amount(R) = Total(Buckets(dimension, R), K) + rest
  BY <1>4, <1>5, <1>6, <1>7, <1>8
<1>11. QED
  BY <1>9, <1>10 DEF rest

LEMMA BreakdownAdds ==
  ASSUME LedgerInv, NEW start, NEW end, NEW providers,
         NEW q, q = PageQuestion(start, end, providers),
         NEW dimension, NEW topN \in Nat
  PROVE  Adds(Breakdown(Ledger, q, dimension, topN, None),
              Amount(InCurrency(q, ChartCurrency(Ledger, q, None))))
<1> DEFINE c == ChartCurrency(Ledger, q, None)
           R == ChartRows(Ledger, q, c, {"usage"})
<1>1. Breakdown(Ledger, q, dimension, topN, None)
        = Shares(c, Buckets(dimension, R),
                 Bucket(dimension, R, Unallocated), topN)
  BY Zenon DEF Breakdown, Buckets, Bucket, Keyed
<1>2. R = InCurrency(q, c)
  BY AskedRows
<1> HIDE DEF c, R
<1>3. IsFiniteSet(R) /\ \A row \in R : row.amount \in Int
  <2>1. IsFiniteSet(InCurrency(q, c))
    BY AskedRows
  <2>2. \A row \in Asked(q) : row.amount \in Int
    BY AskedRows
  <2>3. \A row \in InCurrency(q, c) : row \in Asked(q)
    BY DEF InCurrency
  <2>4. QED
    BY <1>2, <2>1, <2>2, <2>3
<1>4. Adds(Shares(c, Buckets(dimension, R),
                  Bucket(dimension, R, Unallocated), topN), Amount(R))
  BY <1>3, BucketsAdd
<1>5. QED
  BY <1>1, <1>2, <1>4 DEF c

(* ... so do the points of a trend ...                                     *)
Place(granularity, row) ==
    <<GroupKey("service", row), BucketStart(granularity, row.day)>>
Points(granularity, R) ==
    [p \in {Place(granularity, row) : row \in R} |->
        [end |-> BucketEnd(granularity, p[2]),
         amount |-> Amount({row \in R : Place(granularity, row) = p})]]
SumOfPoints(t) == MapThenSumSet(LAMBDA p : t[p].amount, DOMAIN t)

LEMMA PointsAdd ==
  ASSUME NEW R, IsFiniteSet(R), \A row \in R : row.amount \in Int,
         NEW granularity
  PROVE  SumOfPoints(Points(granularity, R)) = Amount(R)
<1> DEFINE f == [row \in R |-> Place(granularity, row)]
           K == {Place(granularity, row) : row \in R}
           t == Points(granularity, R)
           g == [p \in K |-> Amount(Fibre(f, R, p))]
<1>1. /\ \A row \in R : f[row] \in K
      /\ \A p \in K : \E row \in R : f[row] = p
  OBVIOUS
<1>2. \A p \in K : {row \in R : Place(granularity, row) = p} = Fibre(f, R, p)
  BY DEF Fibre
<1>3. DOMAIN t = K /\ \A p \in K : g[p] = t[p].amount
  BY <1>2 DEF Points
<1>4. \A p \in K : g[p] = Amount(Fibre(f, R, p))
  OBVIOUS
<1> HIDE DEF f, K, t, g
<1>5. IsFiniteSet(K)
  BY <1>1, ImageIsFinite
<1>6. Amount(R) = Total(g, K)
  BY <1>1, <1>4, <1>5, AmountGathers
<1>7. MapThenSumSet(LAMBDA p : t[p].amount, K) = Total(g, K)
  BY <1>3, <1>5, PointsAreTotal, Zenon
<1>8. SumOfPoints(t) = Total(g, K)
  BY <1>3, <1>7, Zenon DEF SumOfPoints
<1>9. QED
  BY <1>6, <1>8 DEF t

LEMMA TrendAdds ==
  ASSUME LedgerInv, NEW start, NEW end, NEW providers,
         NEW q, q = PageQuestion(start, end, providers), NEW granularity
  PROVE  SumOfPoints(Trend(Ledger, q, granularity, "service", None))
            = Amount(InCurrency(q, ChartCurrency(Ledger, q, None)))
<1> DEFINE c == ChartCurrency(Ledger, q, None)
           R == ChartRows(Ledger, q, c, q.categories)
<1>1. Trend(Ledger, q, granularity, "service", None)
        = Points(granularity, R)
  BY DEF Trend, Points, Place
<1>2. R = InCurrency(q, c)
  BY AskedRows
<1> HIDE DEF c, R
<1>3. IsFiniteSet(R) /\ \A row \in R : row.amount \in Int
  <2>1. IsFiniteSet(InCurrency(q, c))
    BY AskedRows
  <2>2. \A row \in Asked(q) : row.amount \in Int
    BY AskedRows
  <2>3. \A row \in InCurrency(q, c) : row \in Asked(q)
    BY DEF InCurrency
  <2>4. QED
    BY <1>2, <2>1, <2>2, <2>3
<1>4. QED
  BY <1>1, <1>2, <1>3, PointsAdd DEF c

(* ... and the summary, by currency and by account.                        *)
TotalOf(actual, currency) ==
    IF currency \in DOMAIN actual THEN actual[currency] ELSE 0
ActualOf(q) == SumByCurrency(Ledger, q, q.categories, q.end)

LEMMA SummaryAdds ==
  ASSUME LedgerInv, NEW start, NEW end, NEW providers,
         NEW q, q = PageQuestion(start, end, providers)
  PROVE  /\ \A c : TotalOf(ActualOf(q), c) = Amount(InCurrency(q, c))
         /\ SumOfEntries(ActualOf(q)) = Amount(Asked(q))
         /\ SumOfEntries(SumByAccount(Ledger, q)) = Amount(Asked(q))
         /\ DOMAIN SumByAccount(Ledger, q) = {row.account : row \in Asked(q)}
<1> DEFINE R == Asked(q)
           actual == ActualOf(q)
           byAccount == SumByAccount(Ledger, q)
           f == [row \in R |-> row.currency]
           g == [row \in R |-> row.account]
<1>1. actual = [c \in {row.currency : row \in R} |-> Amount(InCurrency(q, c))]
  BY DEF ActualOf, SumByCurrency, Currencies, Asked, InCurrency
<1>2. byAccount = [a \in {row.account : row \in R} |->
                      Amount({row \in R : row.account = a})]
  BY DEF SumByAccount, Asked
<1>3. /\ \A c : InCurrency(q, c) = Fibre(f, R, c)
      /\ \A a : {row \in R : row.account = a} = Fibre(g, R, a)
  BY DEF InCurrency, Fibre
<1>4. /\ \A row \in R : f[row] \in DOMAIN actual
      /\ \A c \in DOMAIN actual : \E row \in R : f[row] = c
      /\ \A c \in DOMAIN actual : actual[c] = Amount(Fibre(f, R, c))
  BY <1>1, <1>3
<1>5. /\ \A row \in R : g[row] \in DOMAIN byAccount
      /\ \A a \in DOMAIN byAccount : \E row \in R : g[row] = a
      /\ \A a \in DOMAIN byAccount : byAccount[a] = Amount(Fibre(g, R, a))
  BY <1>2, <1>3
<1>6. DOMAIN byAccount = {row.account : row \in R}
  BY <1>2
<1>7. IsFiniteSet(R) /\ \A row \in R : row.amount \in Int
  BY AskedRows
<1>8. ASSUME NEW c, c \notin DOMAIN actual PROVE Amount(InCurrency(q, c)) = 0
  <2>1. InCurrency(q, c) = {}
    BY <1>1, <1>8 DEF InCurrency
  <2>2. QED
    BY <2>1, AmountOfNone
<1>9. \A c : TotalOf(actual, c) = Amount(InCurrency(q, c))
  BY <1>1, <1>8 DEF TotalOf
<1> HIDE DEF R, actual, byAccount, f, g
<1>10. ASSUME NEW h, NEW k, \A row \in R : k[row] \in DOMAIN h,
              \A x \in DOMAIN h : \E row \in R : k[row] = x,
              \A x \in DOMAIN h : h[x] = Amount(Fibre(k, R, x))
       PROVE  SumOfEntries(h) = Amount(R)
  <2> DEFINE K == DOMAIN h
  <2>1. IsFiniteSet(K)
    BY <1>7, <1>10, ImageIsFinite
  <2>2. Amount(R) = Total(h, K)
    BY <1>7, <1>10, <2>1, AmountGathers
  <2>3. MapThenSumSet(LAMBDA x : h[x], K) = Total(h, K)
    BY <2>1, SumIsTotal, Zenon
  <2>4. QED
    BY <2>2, <2>3, Zenon DEF SumOfEntries
<1>11. SumOfEntries(actual) = Amount(R)
  BY <1>4, <1>10
<1>12. SumOfEntries(byAccount) = Amount(R)
  BY <1>5, <1>10
<1>13. QED
  BY <1>6, <1>9, <1>11, <1>12 DEF R, actual, byAccount

(***************************************************************************)
(* Accounts that are explained away, and the day a collection reaches      *)
(***************************************************************************)

LEMMA LastListed ==
  ASSUME LedgerInv, NEW a, NEW statuses, RunsOf(Ledger, a, statuses) # <<>>
  PROVE  \E i \in OwnRuns(a, statuses) :
            Last(RunsOf(Ledger, a, statuses)) = runs[i]
<1> DEFINE list == RunsOf(Ledger, a, statuses)
           n == Cardinality(OwnRuns(a, statuses))
<1>1. list = [k \in DOMAIN list |-> list[k]]
  BY DEF RunsOf
<1>2. /\ n \in Nat /\ DOMAIN list = 1 .. n
      /\ \A k \in DOMAIN list :
           \E i \in OwnRuns(a, statuses) : list[k] = runs[i]
  BY RunsListed
<1> HIDE DEF list, n
<1>3. n # 0
  <2>1. list # <<>>
    BY DEF list
  <2>2. QED
    BY <1>1, <1>2, <2>1
<1>4. n \in DOMAIN list /\ Len(list) = n
  <2>1. n \in 1 .. n
    BY <1>2, <1>3
  <2>2. Len(list) = n
    BY <1>1, <1>2
  <2>3. QED
    BY <1>2, <2>1, <2>2
<1>5. Last(list) = list[n]
  BY <1>4 DEF Last
<1>6. QED
  BY <1>2, <1>4, <1>5 DEF list

(* An account with a key always has a status to show.                      *)
LEMMA StatusIsSome ==
  ASSUME LedgerInv, NEW a \in keys, IsCostSupported(Provider[a])
  PROVE  AccountCapability(Ledger, a).status # None
<1> DEFINE statuses == {"success", "partial_success", "failed"}
           ended == RunsOf(Ledger, a, statuses)
           connected == a \in Ledger.verified
<1>1. AccountCapability(Ledger, a).status
        = IF connected THEN ConnectedStatus(Ledger, a) ELSE "NOT_CONNECTED"
  BY Zenon DEF AccountCapability
<1> HIDE DEF connected
<1>2. CASE ended = <<>>
  <2>1. ConnectedStatus(Ledger, a) # None
    BY <1>2 DEF ConnectedStatus, None
  <2>2. QED
    BY <1>1, <2>1 DEF None
<1>3. CASE ended # <<>>
  <2>1. Last(ended).status \in statuses
    <3> HIDE DEF statuses
    <3>1. PICK i \in OwnRuns(a, statuses) : Last(ended) = runs[i]
      BY <1>3, LastListed
    <3>2. QED
      BY <3>1 DEF OwnRuns
  <2>2. ErrorStatus(Last(ended).error) # None
    BY DEF ErrorStatus, None
  <2>3. ConnectedStatus(Ledger, a) # None
    BY <1>3, <2>1, <2>2 DEF ConnectedStatus, None
  <2>4. QED
    BY <1>1, <2>3 DEF None
<1>4. QED
  BY <1>2, <1>3

(* The number of days covered, and what it takes to be more than none.     *)
LEMMA CoveredTyped ==
  ASSUME LedgerInv, NEW a \in Accounts, NEW start \in Int, NEW end \in Int
  PROVE  /\ AccountCoverage(Ledger, a, start, end).covered \in Nat
         /\ AccountCoverage(Ledger, a, start, end).covered > 0 =>
              IsCostSupported(Provider[a])
<1> DEFINE m == Min({end, today})
           window == [start |-> start, end |-> m]
           basis == BasisOf(Ledger, a, window)
<1>1. today \in Int
  BY LedgerAssumption DEF LedgerInv
<1>2. m \in Int /\ m <= today
  BY <1>1, MinOfTwo
<1>3. AccountCoverage(Ledger, a, start, end) = CoverageOf(basis)
  BY DEF AccountCoverage, Ledger
<1> HIDE DEF m
<1>4. window \in Windows /\ DaysOf(window) = start .. m - 1
  BY <1>2 DEF Windows, DaysOf
<1>5. DOMAIN basis = start .. m - 1
      /\ \A d \in start .. m - 1 : basis[d] = KnownOn(a, d)
  BY <1>4, DayBasis
<1> HIDE DEF basis
<1>6. IsFiniteSet(CoveredDays(basis))
  <2>1. IsFiniteSet(start .. m - 1)
    BY <1>2, FS_Interval
  <2>2. CoveredDays(basis) \in SUBSET (start .. m - 1)
    BY <1>5 DEF CoveredDays
  <2>3. QED
    BY <2>1, <2>2, FS_Subset
<1>7. CoverageOf(basis).covered = Cardinality(CoveredDays(basis))
  BY DEF CoverageOf
<1>8. Cardinality(CoveredDays(basis)) \in Nat
  BY <1>6, FS_CardinalityType
<1>9. ASSUME Cardinality(CoveredDays(basis)) > 0
      PROVE  IsCostSupported(Provider[a])
  <2>1. CoveredDays(basis) # {}
    BY <1>9, FS_EmptySet
  <2>2. PICK d \in start .. m - 1 : KnownOn(a, d) # NotObserved
    BY <1>5, <2>1 DEF CoveredDays
  <2>3. Covering(a, d) # {}
    BY <2>2 DEF KnownOn
  <2>4. QED
    BY <2>3, CollectedIsEnabled
<1>10. QED
  BY <1>3, <1>7, <1>8, <1>9

LEMMA ExclusionExplained ==
  ASSUME LedgerInv, NEW start \in Int, NEW end \in Int, NEW providers,
         NEW q, q = PageQuestion(start, end, providers),
         NEW a \in OwnedAccounts(Ledger, q)
  PROVE  (ExclusionReason(Ledger, q, a) # None) <=>
            /\ a \notin DOMAIN SumByAccount(Ledger, q)
            /\ AccountCoverage(Ledger, a, q.start, q.end).covered = 0
<1> DEFINE covered == AccountCoverage(Ledger, a, q.start, q.end).covered
           paid == DOMAIN SumByAccount(Ledger, q)
           supported == IsCostSupported(Provider[a])
           status == AccountCapability(Ledger, a).status
<1>1. /\ a \in keys /\ a \in Accounts /\ q.start = start /\ q.end = end
      /\ q.currency = None
  BY DEF OwnedAccounts, Ledger, LedgerInv, PageQuestion
<1>2. covered \in Nat /\ (covered > 0 => supported)
  BY <1>1, CoveredTyped
<1>3. a \in paid => supported
  <2>1. paid = {row.account : row \in Asked(q)}
    BY SummaryAdds
  <2>2. Asked(q) \in SUBSET rows
    BY AskedRows
  <2>3. QED
    BY <2>1, <2>2, CollectedIsEnabled
<1>4. supported => status # None
  BY <1>1, StatusIsSome
<1>5. a \notin CurrencyExcluded(Ledger, q)
  BY <1>1 DEF CurrencyExcluded
<1>6. ExclusionReason(Ledger, q, a)
        = IF ~supported THEN "UNSUPPORTED"
          ELSE IF a \in paid THEN None
          ELSE IF covered > 0 THEN None
          ELSE IF status \in DataStatuses THEN "PERIOD_NOT_COVERED"
          ELSE status
  BY <1>5 DEF ExclusionReason
<1>7. "UNSUPPORTED" # None /\ "PERIOD_NOT_COVERED" # None
  BY DEF None
<1> HIDE DEF covered, paid, supported, status
<1>8. (ExclusionReason(Ledger, q, a) # None) <=> a \notin paid /\ covered = 0
  <2>1. covered > 0 <=> covered # 0
    BY <1>2
  <2>2. QED
    BY <1>2, <1>3, <1>4, <1>6, <1>7, <2>1
<1>9. QED
  BY <1>8 DEF paid, covered

(* The day a collection is said to reach is one of a range asked for.      *)
LEMMA ReachedIsConfirmed ==
  ASSUME LedgerInv, NEW a \in Accounts,
         NEW day, day = CollectionStatus(Ledger, a).coveredThrough, day >= 0
  PROVE  BasisOf(Ledger, a, [start |-> day, end |-> day + 1])[day]
            = CompleteRange
<1> DEFINE done == LastSuccess(Ledger, a)
           last == Last(done)
<1>1. day = IF \/ done = <<>>
               \/ ResolveBasis(last.basis, Provider[a]) # CompleteRange THEN -1
            ELSE last.window.end - 1
  BY DEF CollectionStatus
<1>2. /\ done # <<>> /\ day = last.window.end - 1
      /\ ResolveBasis(last.basis, Provider[a]) = CompleteRange
  <2> HIDE DEF done, last
  <2>1. ~(-1 >= 0)
    OBVIOUS
  <2>2. QED
    BY <1>1, <2>1
<1>3. PICK i \in OwnRuns(a, {"success"}) : last = runs[i]
  BY <1>2, LastListed DEF LastSuccess
<1> HIDE DEF last, done
<1>4. /\ i \in DOMAIN runs /\ runs[i] \in RunRecords /\ RunFits(i)
      /\ runs[i].account = a /\ runs[i].status = "success"
  BY <1>3 DEF OwnRuns, LedgerInv
<1>5. /\ runs[i].window.start \in Int /\ runs[i].window.end \in Int
      /\ runs[i].window.start < runs[i].window.end
  BY <1>4 DEF RunRecords, Windows, RunFits
<1>6. day \in Int /\ day \in DaysOf(runs[i].window)
  BY <1>2, <1>3, <1>5 DEF DaysOf
<1>7. i \in Covering(a, day)
  BY <1>4, <1>6 DEF Covering
<1>8. Provider[a] = "aws"
  BY <1>2, <1>3, <1>4 DEF RunFits, ResolveBasis, AdapterBasis, AllowedBases,
     CompleteRange, ObservedOnly
<1>9. KnownOn(a, day) = CompleteRange
  BY <1>7, <1>8 DEF KnownOn
<1> DEFINE window == [start |-> day, end |-> day + 1]
<1>10. window \in Windows /\ day \in DaysOf(window)
  BY <1>6 DEF Windows, DaysOf
<1>11. BasisOf(Ledger, a, window)[day] = KnownOn(a, day)
  BY <1>10, DayBasis
<1>12. QED
  BY <1>9, <1>11

(* What ReadersAgree says of a question.                                   *)
Explained(q, byAccount, excluded) ==
    \A a \in DOMAIN excluded :
        /\ (excluded[a] # None) <=>
                /\ a \notin DOMAIN byAccount
                /\ AccountCoverage(Ledger, a, q.start, q.end).covered = 0
        /\ LET day == CollectionStatus(Ledger, a).coveredThrough
           IN  day >= 0 =>
                 BasisOf(Ledger, a, [start |-> day, end |-> day + 1])[day]
                   = CompleteRange
ChartsAdd(q, total) ==
    /\ \A dimension \in {"service", "category", "account", "provider"} :
          Adds(Breakdown(Ledger, q, dimension, 1, None), total)
    /\ \A granularity \in {"daily", "weekly", "monthly"} :
          SumOfPoints(Trend(Ledger, q, granularity, "service", None))
            = total
OneAnswer(q, summary) ==
    /\ ChartsAdd(q, TotalOf(summary.actual, ChartCurrency(Ledger, q, None)))
    /\ SumOfEntries(summary.byAccount) = SumOfEntries(summary.actual)
    /\ Explained(q, summary.byAccount, summary.excluded)

LEMMA QuestionsAgree ==
  ASSUME LedgerInv, NEW start \in Int, NEW end \in Int, NEW providers,
         NEW q, q = PageQuestion(start, end, providers)
  PROVE  OneAnswer(q, Summary(Ledger, q))
<1> DEFINE actual == ActualOf(q)
           byAccount == SumByAccount(Ledger, q)
           excluded == [a \in OwnedAccounts(Ledger, q) |->
                           ExclusionReason(Ledger, q, a)]
           c == ChartCurrency(Ledger, q, None)
           summary == Summary(Ledger, q)
<1>1. /\ summary.actual = actual /\ summary.byAccount = byAccount
      /\ summary.excluded = excluded
  BY DEF Summary, ActualOf
<1>2. TotalOf(actual, c) = Amount(InCurrency(q, c))
  BY SummaryAdds
<1>3. ChartsAdd(q, Amount(InCurrency(q, c)))
  <2>1. ASSUME NEW dimension
        PROVE  Adds(Breakdown(Ledger, q, dimension, 1, None),
                    Amount(InCurrency(q, c)))
    BY BreakdownAdds
  <2>2. ASSUME NEW granularity
        PROVE  SumOfPoints(
                  Trend(Ledger, q, granularity, "service", None))
                 = Amount(InCurrency(q, c))
    BY TrendAdds
  <2> HIDE DEF c
  <2>3. QED
    BY <2>1, <2>2 DEF ChartsAdd
<1>4. SumOfEntries(byAccount) = SumOfEntries(actual)
  BY SummaryAdds
<1>5. Explained(q, byAccount, excluded)
  <2>1. SUFFICES ASSUME NEW a \in OwnedAccounts(Ledger, q)
        PROVE /\ (excluded[a] # None) <=>
                    /\ a \notin DOMAIN byAccount
                    /\ AccountCoverage(Ledger, a, q.start, q.end).covered = 0
              /\ LET day == CollectionStatus(Ledger, a).coveredThrough
                 IN  day >= 0 =>
                       BasisOf(Ledger, a,
                               [start |-> day, end |-> day + 1])[day]
                         = CompleteRange
    BY DEF Explained
  <2>2. a \in Accounts
    BY DEF OwnedAccounts, Ledger, LedgerInv
  <2>3. (ExclusionReason(Ledger, q, a) # None) <=>
            /\ a \notin DOMAIN byAccount
            /\ AccountCoverage(Ledger, a, q.start, q.end).covered = 0
    BY ExclusionExplained
  <2>4. excluded[a] = ExclusionReason(Ledger, q, a)
    OBVIOUS
  <2> DEFINE day == CollectionStatus(Ledger, a).coveredThrough
  <2>5. day >= 0 =>
          BasisOf(Ledger, a, [start |-> day, end |-> day + 1])[day]
            = CompleteRange
    BY <2>2, ReachedIsConfirmed
  <2> HIDE DEF byAccount, excluded
  <2>6. QED
    BY <2>3, <2>4, <2>5
<1> HIDE DEF actual, byAccount, excluded, c, summary
<1>6. ChartsAdd(q, TotalOf(summary.actual, c))
  BY <1>1, <1>2, <1>3
<1>7. QED
  BY <1>1, <1>4, <1>5, <1>6 DEF OneAnswer, summary, c

(* Total, breakdown and trend of one question add up to the same, and an   *)
(* account is explained away exactly when it adds nothing and none of its  *)
(* days is known, whatever was collected, failed or was removed before     *)
(* (summary, breakdown, trend and collection_status of cost/query.py).     *)
THEOREM AnswersAgree == Spec => []ReadersAgree
<1>1. ASSUME LedgerInv PROVE ReadersAgree
  <2>1. /\ today \in Int /\ FirstOfMonth(today) \in Int
    <3>1. today \in 0 .. LastDay /\ LastDay \in Nat
      BY <1>1, LedgerAssumption DEF LedgerInv
    <3>2. QED
      BY <3>1, MonthOfDay
  <2> DEFINE recent == [LastDays(3) EXCEPT !.providers = {"aws"}]
  <2>2. /\ MonthToDate = PageQuestion(FirstOfMonth(today), today + 1, {})
        /\ recent = PageQuestion(today - 3, today, {"aws"})
    BY DEF MonthToDate, LastDays, Question, PageQuestion
  <2>3. OneAnswer(MonthToDate, Summary(Ledger, MonthToDate))
    <3> DEFINE first == FirstOfMonth(today)
               next == today + 1
               q == MonthToDate
    <3>1. first \in Int /\ next \in Int /\ q = PageQuestion(first, next, {})
      BY <2>1, <2>2
    <3> HIDE DEF first, next, q
    <3>2. OneAnswer(q, Summary(Ledger, q))
      BY <1>1, <3>1, QuestionsAgree
    <3>3. QED
      BY <3>2 DEF q
  <2>4. OneAnswer(recent, Summary(Ledger, recent))
    <3> HIDE DEF recent
    <3>1. today - 3 \in Int
      BY <2>1
    <3>2. QED
      BY <1>1, <2>1, <2>2, <3>1, QuestionsAgree
  <2>5. ReadersAgree <=>
          \A q \in {MonthToDate, recent} : OneAnswer(q, Summary(Ledger, q))
    BY Zenon DEF ReadersAgree, OneAnswer, ChartsAdd, TotalOf, Explained,
       Adds, SumOfEntries, SumOfPoints
  <2> HIDE DEF recent
  <2>6. QED
    BY <2>3, <2>4, <2>5
<1>2. QED
  BY <1>1, LedgerInductive, PTL
=============================================================================
