--------------------------- MODULE CostIngestion ----------------------------
(* The collection of one account's costs: manual runs (POST                *)
(* /cost-ingestion-runs and its background task) and the visits of the     *)
(* daily scheduler.  A run id is one request or one visit; its row is in   *)
(* runs once committed, and mind is what its session and its local         *)
(* variables hold.  Each database statement that another session can come  *)
(* between is a step.                                                      *)
EXTENDS Coverage, TLC

CONSTANTS
    ManualRuns, DailyRuns,  \* run ids
    NoRun,                  \* no run (a free lock, an account with no active run)
    ManualWindows,          \* [start, end) a user may ask for
    DailyWindow,            \* current month and the last days
    Charged,                \* sets of days the provider may report costs of
    CostProvider,           \* CloudAccount.provider
    MaxFaults               \* bound on exceptions and deaths of the server

RunIds == ManualRuns \union DailyRuns
Active == {"pending", "running"}
Closed == {"success", "partial_success", "failed"}

ASSUME IngestionAssumption ==
    /\ ManualRuns \intersect DailyRuns = {} /\ NoRun \notin RunIds
    /\ \A w \in ManualWindows \union {DailyWindow} : w.start < w.end
    /\ MaxFaults \in Nat /\ IsFiniteSet(RunIds)

VARIABLES
    runs,     \* cost_ingestion_runs: a row of each committed run
    costs,    \* cloud_account_costs: pairs <<day, run that stored it>>
    step,     \* where the request, task or visit of a run is
    mind,     \* what it has read or prepared and not committed
    lock,     \* holder of the account's advisory lock
    told,     \* notifications about each run
    recent,   \* manual successes less than _MANUAL_RATE_LIMIT old
    stored,   \* history: runs in the order their rows were committed
    overrun,  \* history: runs another visit closed as interrupted
    faults    \* exceptions and deaths so far

vars == <<runs, costs, step, mind, lock, told, recent, stored, overrun, faults>>

Missing == [status |-> "missing"]
Row(r, status) ==
    [status |-> status, window |-> mind[r].window, requested |-> mind[r].requested,
     finished |-> 0, basis |-> Unrecorded]

Days == UNION {DaysOf(w) : w \in ManualWindows \union {DailyWindow}}
EmptyMind == [requested |-> 0, window |-> DailyWindow, answer |-> {},
              basis |-> Unrecorded, deleted |-> {}, finished |-> 0, found |-> NoRun]

Init ==
    /\ runs = [r \in RunIds |-> Missing] /\ costs = {}
    /\ step = [r \in RunIds |-> "none"] /\ mind = [r \in RunIds |-> EmptyMind]
    /\ lock = NoRun /\ told = [r \in RunIds |-> <<>>] /\ recent = {}
    /\ stored = <<>> /\ overrun = {} /\ faults = 0

Idle == {"none", "ended", "abandoned", "dead"}
ActiveRuns == {r \in RunIds : runs[r].status \in Active}

(* The active run with the latest requested_at.                            *)
LastActiveRun ==
    IF ActiveRuns = {} THEN NoRun
    ELSE CHOOSE r \in ActiveRuns : \A s \in ActiveRuns : runs[s].requested <= runs[r].requested

LastManualSuccess ==
    LET done == {r \in ManualRuns : runs[r].status = "success"}
    IN  IF done = {} THEN NoRun
        ELSE CHOOSE r \in done : \A s \in done : runs[s].finished <= runs[r].finished

(* Times are ranks: of the requests among themselves, and of the finishes. *)
NextRequested == 1 + Max({mind[r].requested : r \in RunIds} \union {runs[r].requested : r \in ActiveRuns})
NextFinished == 1 + Max({mind[r].finished : r \in RunIds} \union
                        {runs[r].finished : r \in {s \in RunIds : runs[s].status \in Closed}})

Goto(r, next) == step' = [step EXCEPT ![r] = next]
End(r) ==      \* the session and the local variables are gone
    /\ Goto(r, "ended")
    /\ mind' = [mind EXCEPT ![r] = EmptyMind]
Notify(r, kind) ==
    told' = IF r \in ManualRuns THEN [told EXCEPT ![r] = Append(@, kind)] ELSE told
Status(r, status) == runs' = [runs EXCEPT ![r].status = status]

-----------------------------------------------------------------------------
(* POST /cost-ingestion-runs: the looks, then the insert and its commit.   *)
ReceiveRequest(r, window) ==
    /\ step[r] = "none"
    /\ LastActiveRun = NoRun
    /\ LastManualSuccess \notin recent
    /\ mind' = [mind EXCEPT ![r].requested = NextRequested, ![r].window = window]
    /\ Goto(r, "looked")
    /\ UNCHANGED <<runs, costs, lock, told, recent, stored, overrun, faults>>

InsertRun(r) ==
    /\ step[r] = "looked"
    /\ runs' = [runs EXCEPT ![r] = Row(r, "pending")]
    /\ Goto(r, "scheduled")
    /\ UNCHANGED <<costs, mind, lock, told, recent, stored, overrun, faults>>

(* The task finds the account unsupported or its collection switched off.  *)
RefuseRun(r) ==
    /\ step[r] = "scheduled"
    /\ Status(r, "failed") /\ Notify(r, "failed") /\ End(r)
    /\ UNCHANGED <<costs, lock, recent, stored, overrun, faults>>

BeginRun(r) ==
    /\ step[r] = "scheduled"
    /\ Status(r, "running") /\ Goto(r, "fetching")
    /\ UNCHANGED <<costs, mind, lock, told, recent, stored, overrun, faults>>

(* The daily visit inserts its run whether or not another one is active.   *)
VisitAccount(r) ==
    /\ step[r] = "none"
    /\ \A s \in DailyRuns : step[s] \in Idle
    /\ mind' = [mind EXCEPT ![r].requested = NextRequested, ![r].window = DailyWindow]
    /\ Goto(r, "visiting")
    /\ UNCHANGED <<runs, costs, lock, told, recent, stored, overrun, faults>>

InsertDailyRun(r) ==
    /\ step[r] = "visiting"
    /\ runs' = [runs EXCEPT ![r] = Row(r, "running")]
    /\ Goto(r, "fetching")
    /\ UNCHANGED <<costs, mind, lock, told, recent, stored, overrun, faults>>

PartialPraised(r) ==    \* changed: a partial answer is told as a success
    /\ step[r] = "fetching"
    /\ \E status \in {"failed", "partial_success"} :
        Status(r, status) /\ Notify(r, IF status = "failed" THEN "failed" ELSE "succeeded")
    /\ End(r)
    /\ UNCHANGED <<costs, lock, recent, stored, overrun, faults>>

-----------------------------------------------------------------------------
(* No credential, an unreadable one, or an answer that is not the whole:   *)
(* nothing is stored.                                                      *)
FetchFails(r) ==
    /\ step[r] = "fetching"
    /\ \E status \in {"failed", "partial_success"} : Status(r, status)
    /\ Notify(r, "failed") /\ End(r)
    /\ UNCHANGED <<costs, lock, recent, stored, overrun, faults>>

FetchAnswers(r, charged, basis) ==
    /\ step[r] = "fetching"
    /\ mind' = [mind EXCEPT ![r].answer = charged \intersect DaysOf(mind[r].window),
                            ![r].basis = ResolveBasis(basis, CostProvider)]
    /\ Goto(r, "answered")
    /\ UNCHANGED <<runs, costs, lock, told, recent, stored, overrun, faults>>

BeginUnlocked(r) ==     \* changed: replaces whatever another session is replacing
    /\ step[r] = "answered"
    /\ lock' = r
    /\ mind' = [mind EXCEPT ![r].deleted = {c \in costs : c[1] \in DaysOf(mind[r].window)}]
    /\ Goto(r, "replacing")
    /\ UNCHANGED <<runs, costs, told, recent, stored, overrun, faults>>

RefusedSilently(r) ==   \* changed: the loser of the lock leaves its run running
    /\ step[r] = "answered"
    /\ lock # NoRun
    /\ Notify(r, "failed") /\ End(r)
    /\ UNCHANGED <<runs, costs, lock, recent, stored, overrun, faults>>

(* try_lock_account, and the DELETE of what it sees in the range.          *)
BeginReplace(r) ==
    /\ step[r] = "answered"
    /\ lock = NoRun
    /\ lock' = r
    /\ mind' = [mind EXCEPT ![r].deleted = {c \in costs : c[1] \in DaysOf(mind[r].window)}]
    /\ Goto(r, "replacing")
    /\ UNCHANGED <<runs, costs, told, recent, stored, overrun, faults>>

LockRefused(r) ==
    /\ step[r] = "answered"
    /\ lock # NoRun
    /\ Status(r, "failed") /\ Notify(r, "failed") /\ End(r)
    /\ UNCHANGED <<costs, lock, recent, stored, overrun, faults>>

(* finished_at is taken before the commit, under the lock.                 *)
StampRun(r) ==
    /\ step[r] = "replacing"
    /\ mind' = [mind EXCEPT ![r].finished = NextFinished]
    /\ Goto(r, "stamped")
    /\ UNCHANGED <<runs, costs, lock, told, recent, stored, overrun, faults>>

CommitAsRequested(r) == \* changed: the run is ordered by when it was asked for
    /\ step[r] = "stamped"
    /\ costs' = (costs \ mind[r].deleted) \union (mind[r].answer \X {r})
    /\ runs' = [runs EXCEPT ![r].status = "success", ![r].finished = runs[r].requested,
                            ![r].basis = mind[r].basis]
    /\ Notify(r, "succeeded")
    /\ lock' = NoRun
    /\ recent' = recent \union ({r} \intersect ManualRuns)
    /\ stored' = Append(stored, r)
    /\ Goto(r, "ended")
    /\ mind' = [mind EXCEPT ![r] = [EmptyMind EXCEPT !.answer = mind[r].answer]]
    /\ UNCHANGED <<overrun, faults>>

(* Rows, status, basis and notification in one transaction; its end frees  *)
(* the lock.                                                               *)
CommitRun(r) ==
    /\ step[r] = "stamped"
    /\ costs' = (costs \ mind[r].deleted) \union (mind[r].answer \X {r})
    /\ runs' = [runs EXCEPT ![r].status = "success", ![r].finished = mind[r].finished,
                            ![r].basis = mind[r].basis]
    /\ Notify(r, "succeeded")
    /\ lock' = NoRun
    /\ recent' = recent \union ({r} \intersect ManualRuns)
    /\ stored' = Append(stored, r)
    /\ Goto(r, "ended")
    /\ mind' = [mind EXCEPT ![r] = [EmptyMind EXCEPT !.answer = mind[r].answer]]
    /\ UNCHANGED <<overrun, faults>>

-----------------------------------------------------------------------------
(* An exception reaches the handler of the task or of the visit.  A failed *)
(* flush has rolled the session back; a failed statement has not, and      *)
(* Session.is_active does not tell.                                        *)
Raises(r, next) ==
    /\ faults < MaxFaults /\ faults' = faults + 1
    /\ Goto(r, next)
    /\ UNCHANGED <<runs, costs, mind, told, recent, stored, overrun>>

AdapterRaises(r) == step[r] = "fetching" /\ Raises(r, "raised") /\ UNCHANGED lock
InsertRaises(r) == step[r] = "visiting" /\ Raises(r, "raised") /\ UNCHANGED lock
CommitRaisesLocked(r) == step[r] = "stamped" /\ Raises(r, "raised") /\ UNCHANGED lock   \* changed
CommitRaises(r) == step[r] = "stamped" /\ Raises(r, "raised") /\ lock' = NoRun
StatementRaises(r) ==
    /\ step[r] = "answered"
    /\ Raises(r, IF r \in ManualRuns THEN "aborted" ELSE "raised")
    /\ UNCHANGED lock

(* finalize_interrupted_run of the task's own run.                         *)
Finalize(r) ==
    /\ r \in ManualRuns /\ step[r] = "raised"
    /\ IF runs[r].status \in Active THEN Status(r, "failed") ELSE UNCHANGED runs
    /\ End(r)
    /\ UNCHANGED <<costs, lock, told, recent, stored, overrun, faults>>

(* In an aborted transaction its first query raises again: nothing written.*)
FinalizeRaises(r) ==
    /\ step[r] = "aborted"
    /\ Goto(r, "abandoned") /\ mind' = [mind EXCEPT ![r] = EmptyMind]
    /\ UNCHANGED <<runs, costs, lock, told, recent, stored, overrun, faults>>

(* The visit rolls back and looks for the account's active run, whichever  *)
(* it is.                                                                  *)
LookForStuck(r) ==
    /\ r \in DailyRuns /\ step[r] = "raised"
    /\ mind' = [mind EXCEPT ![r].found = LastActiveRun]
    /\ Goto(r, IF LastActiveRun = NoRun THEN "ended" ELSE "rereading")
    /\ UNCHANGED <<runs, costs, lock, told, recent, stored, overrun, faults>>

(* finalize_interrupted_run reads that run again, and leaves it as it is,  *)
(* and whatever else is active too, when it is closed by now.              *)
RereadStuck(r) ==
    /\ step[r] = "rereading"
    /\ IF runs[mind[r].found].status \in Active
       THEN Goto(r, "closing") /\ UNCHANGED mind
       ELSE End(r)
    /\ UNCHANGED <<runs, costs, lock, told, recent, stored, overrun, faults>>

CloseStuck(r) ==
    /\ step[r] = "closing"
    /\ Status(mind[r].found, "failed")
    /\ overrun' = overrun \union ({mind[r].found} \ {r})
    /\ End(r)
    /\ UNCHANGED <<costs, lock, told, recent, stored, faults>>

HourPasses ==
    /\ recent # {}
    /\ recent' = {}
    /\ UNCHANGED <<runs, costs, step, mind, lock, told, stored, overrun, faults>>

(* The server dies; nothing on startup looks at unfinished runs.           *)
Crash ==
    /\ faults < MaxFaults
    /\ \E r \in RunIds : step[r] \notin Idle
    /\ faults' = faults + 1
    /\ lock' = NoRun
    /\ step' = [r \in RunIds |-> IF step[r] \in Idle THEN step[r] ELSE "dead"]
    /\ mind' = [r \in RunIds |-> IF step[r] \in Idle THEN mind[r] ELSE EmptyMind]
    /\ UNCHANGED <<runs, costs, told, recent, stored, overrun>>

Progress(r) ==
    \/ BeginRun(r) \/ InsertRun(r) \/ InsertDailyRun(r)
    \/ \E charged \in Charged, basis \in AllowedBases : FetchAnswers(r, charged, basis)
    \/ BeginReplace(r) \/ LockRefused(r) \/ StampRun(r) \/ CommitRun(r)
    \/ Finalize(r) \/ FinalizeRaises(r) \/ LookForStuck(r)
    \/ RereadStuck(r) \/ CloseStuck(r)

Misfortune(r) ==
    RefuseRun(r) \/ FetchFails(r) \/ AdapterRaises(r) \/ InsertRaises(r)
        \/ CommitRaises(r) \/ StatementRaises(r)

Next ==
    \/ \E r \in ManualRuns, w \in ManualWindows : ReceiveRequest(r, w)
    \/ \E r \in DailyRuns : VisitAccount(r)
    \/ \E r \in RunIds : Progress(r) \/ Misfortune(r)
    \/ HourPasses \/ Crash

(* A task that was started runs on to its end.                             *)
Fairness == \A r \in RunIds : WF_vars(Progress(r))

Spec == Init /\ [][Next]_vars /\ Fairness

-----------------------------------------------------------------------------
(* Every variable holds a value of its kind.                               *)
TypeOK ==
    /\ \A r \in RunIds : runs[r].status \in {"missing"} \union Active \union Closed
    /\ costs \subseteq Days \X RunIds
    /\ lock \in RunIds \union {NoRun}
    /\ \A r \in RunIds : lock = r <=> step[r] \in {"replacing", "stamped"}
    /\ \A r \in RunIds : told[r] \in Seq({"succeeded", "failed"})
    /\ recent \subseteq ManualRuns /\ overrun \subseteq RunIds

(* The runs whose rows and basis stand, in the order they were committed   *)
(* and, as the readers see them, in the order of finished_at.              *)
LastStored(day) ==
    LET covering == {i \in DOMAIN stored : day \in DaysOf(runs[stored[i]].window)}
    IN  IF covering = {} THEN NoRun ELSE stored[Max(covering)]

RunsByFinish ==
    LET good == {r \in RunIds : runs[r].status = "success"}
        order == CHOOSE s \in Bijection(1 .. Cardinality(good), good) :
                    \A i, j \in DOMAIN s :
                        i < j => runs[s[i]].finished <= runs[s[j]].finished
    IN  [i \in DOMAIN order |-> [window |-> runs[order[i]].window, basis |-> runs[order[i]].basis]]

RowDays == {c[1] : c \in costs}

OnlyRun(r) == ActiveRuns = {r} /\ \A s \in RunIds : step[s] # "looked"

(* A day's rows are those of the last run that stored its range, whole:    *)
(* no run adds to what another stored or leaves some of it behind.         *)
ReplacedWhole ==
    \A day \in Days :
        {c[2] : c \in {x \in costs : x[1] = day}} =
            {r \in {LastStored(day)} \ {NoRun} : day \in mind[r].answer}

(* Reading the runs in the order of their finish times gives each day the  *)
(* basis of the run that stored its rows last, although the times are      *)
(* taken before the commits; unless a run that had stored its rows was     *)
(* closed as interrupted by a daily visit.                                 *)
BasisFollowsStorage ==
    overrun = {} =>
        \A window \in ManualWindows \union {DailyWindow} :
            LET basis == DayBasisMap(window, RowDays, RunsByFinish, CostProvider)
            IN  \A day \in DaysOf(window) :
                    LET r == LastStored(day)
                    IN  basis[day] =
                            IF r = NoRun THEN NotObserved
                            ELSE IF runs[r].basis = CompleteRange THEN CompleteRange
                            ELSE IF day \in mind[r].answer THEN ObservedOnly ELSE NotObserved

(* A user is told of a manual run once at most, and what the run shows:    *)
(* success exactly when it succeeded, and every answer that was cut short. *)
ToldTruthfully ==
    \A r \in ManualRuns :
        /\ Len(told[r]) <= 1
        /\ r \notin overrun =>
            /\ runs[r].status = "success" <=> told[r] = <<"succeeded">>
            /\ told[r] = <<"failed">> => runs[r].status \in {"failed", "partial_success"}
        /\ runs[r].status = "partial_success" => told[r] = <<"failed">>

(* A run that was accepted is closed in the end, so that its account may   *)
(* be collected again: one asked for by a user unless the server died      *)
(* under it or the handler of its exceptions raised one itself, and one of *)
(* a daily visit that is the account's only run under way unless the       *)
(* server died.  A visit beside another run may take that one for its own, *)
(* and then leaves its own running.                                        *)
RunsSettle ==
    /\ \A r \in ManualRuns :
        runs[r].status \in Active ~>
            runs[r].status \in Closed \/ step[r] \in {"dead", "abandoned"}
    /\ \A r \in DailyRuns :
        (step[r] = "fetching" /\ OnlyRun(r)) ~>
            (runs[r].status \in Closed \/ step[r] = "dead")

(* A task that ended, however it ended, leaves its run closed: what the    *)
(* handler of its exceptions is for.                                       *)
EndedIsClosed == \A r \in ManualRuns : step[r] \in {"ended", "abandoned"} => runs[r].status \in Closed
=============================================================================
