------------------------------ MODULE SyncJobs ------------------------------
(***************************************************************************)
(* The resource synchronisation jobs of one user: POST /sync-jobs, the     *)
(* background task that visits the cloud accounts of a job one after the   *)
(* other, and POST /sync-jobs/{id}/cancel. What a visit does to the table  *)
(* of resources is the subject of Inventory; here it succeeds or fails.    *)
(*                                                                         *)
(* `jobs`, `items` and `notified` are tables and survive a crash; the cancel *)
(* flags and the threads are memory of the one API process. A handler that *)
(* reads a row and writes it later takes two actions.                      *)
(***************************************************************************)
EXTENDS Naturals, FiniteSets

CONSTANTS
    Jobs,             \* ids the resource_sync_jobs table can hand out
    Accounts,         \* the user's cloud accounts
    Creators,         \* threads serving one POST /sync-jobs each
    Cancellers,       \* threads serving one POST .../cancel each
    NoJob, NoAccount,
    MaxSyncFaults     \* bound on restarts and escaping exceptions

ASSUME SyncConstants ==
    NoJob \notin Jobs /\ NoAccount \notin Accounts /\ MaxSyncFaults \in Nat

VARIABLES
    jobs,             \* status of each job
    items,            \* status of each account's item in each job
    notified,         \* notifications of each job, by kind
    cancelRequested,  \* the set _CANCEL_REQUESTED
    worker,           \* background task of each job
    creator, canceller,
    settled,          \* history: the status the task itself gave the job
    flaggedAt,        \* history: stage of the task when its flag was set
    lateItems,        \* history: items begun after the flag was set
    syncFaults

tables  == <<jobs, items, notified>>
threads == <<worker, creator, canceller>>
history == <<settled, flaggedAt, lateItems>>
syncVars == <<tables, cancelRequested, threads, history, syncFaults>>

(***************************************************************************)
(* Types                                                                   *)
(***************************************************************************)
SyncActive == {"pending", "running"}
Terminal   == {"success", "partial_success", "failed", "cancelled"}
ItemStatus == {"none", "pending", "running", "success", "failed", "cancelled"}

(* "beginning": the flag was looked at, the item is not yet committed as   *)
(* running; "reporting": the loop is over and the flag was looked at for   *)
(* the last time; "lost": the task died with an exception or its process.  *)
Stages == {"none", "scheduled", "looping", "beginning", "processing",
           "reporting", "ended", "lost"}

Worker == [pc: Stages, todo: SUBSET Accounts,
           account: Accounts \union {NoAccount}, cancelled: BOOLEAN]

NoWorker == [pc |-> "none", todo |-> {}, account |-> NoAccount,
             cancelled |-> FALSE]

SyncTypeOK ==
    /\ jobs \in [Jobs -> {"absent"} \union SyncActive \union Terminal]
    /\ items \in [Jobs -> [Accounts -> ItemStatus]]
    /\ notified \in [Jobs -> [{"succeeded", "failed"} -> Nat]]
    /\ cancelRequested \subseteq Jobs
    /\ worker \in [Jobs -> Worker]
    /\ creator \in [Creators ->
          [pc: {"idle", "inserting", "committed", "done"},
           accounts: SUBSET Accounts, job: Jobs \union {NoJob}]]
    /\ canceller \in [Cancellers ->
          [pc: {"idle", "saw_pending", "saw_running", "done"},
           job: Jobs \union {NoJob}]]
    /\ settled \in [Jobs -> {"none"} \union SyncActive \union Terminal]
    /\ flaggedAt \in [Jobs -> Stages]
    /\ lateItems \in [Jobs -> Nat]
    /\ syncFaults \in Nat

SyncInit ==
    /\ jobs = [j \in Jobs |-> "absent"]
    /\ items = [j \in Jobs |-> [a \in Accounts |-> "none"]]
    /\ notified = [j \in Jobs |-> [k \in {"succeeded", "failed"} |-> 0]]
    /\ cancelRequested = {}
    /\ worker = [j \in Jobs |-> NoWorker]
    /\ creator = [h \in Creators |->
                     [pc |-> "idle", accounts |-> {}, job |-> NoJob]]
    /\ canceller = [h \in Cancellers |-> [pc |-> "idle", job |-> NoJob]]
    /\ settled = [j \in Jobs |-> "none"]
    /\ flaggedAt = [j \in Jobs |-> "none"]
    /\ lateItems = [j \in Jobs |-> 0]
    /\ syncFaults = 0

(***************************************************************************)
(* POST /sync-jobs                                                         *)
(***************************************************************************)
ItemsOf(j) == {a \in Accounts : items[j][a] # "none"}

(* A job under way: 409. A request without accounts, or with accounts of   *)
(* somebody else: 404 or 422. Otherwise the handler goes on to insert.     *)
ReceiveSync(h) ==
    /\ creator[h].pc = "idle"
    /\ \/ /\ \A j \in Jobs : jobs[j] \notin SyncActive
          /\ \E chosen \in (SUBSET Accounts) \ {{}} :
                creator' = [creator EXCEPT ![h].pc = "inserting",
                                           ![h].accounts = chosen]
       \/ creator' = [creator EXCEPT ![h].pc = "done"]
    /\ UNCHANGED <<tables, cancelRequested, worker, canceller, history,
                   syncFaults>>

(* INSERT of the job and its items in one commit. No constraint keeps a    *)
(* second job of the same user out.                                        *)
InsertSync(h) ==
    /\ creator[h].pc = "inserting"
    /\ \E j \in Jobs :
          /\ jobs[j] = "absent"
          /\ jobs' = [jobs EXCEPT ![j] = "pending"]
          /\ items' = [items EXCEPT ![j] =
                [a \in Accounts |-> IF a \in creator[h].accounts
                                    THEN "pending" ELSE "none"]]
          /\ creator' = [creator EXCEPT ![h].pc = "committed", ![h].job = j]
    /\ UNCHANGED <<notified, cancelRequested, worker, canceller, history,
                   syncFaults>>

(* background_tasks.add_task, then the 202 answer.                         *)
ScheduleSync(h) ==
    /\ creator[h].pc = "committed"
    /\ worker' = [worker EXCEPT ![creator[h].job].pc = "scheduled"]
    /\ creator' = [creator EXCEPT ![h].pc = "done"]
    /\ UNCHANGED <<tables, cancelRequested, canceller, history, syncFaults>>

(***************************************************************************)
(* The background task: _run_sync_job_inner                                *)
(***************************************************************************)

(* status = running, whatever the row says, and the list of its items.     *)
StartSync(j) ==
    /\ worker[j].pc = "scheduled"
    /\ jobs' = [jobs EXCEPT ![j] = "running"]
    /\ worker' = [worker EXCEPT ![j].pc = "looping", ![j].todo = ItemsOf(j)]
    /\ UNCHANGED <<items, notified, cancelRequested, creator, canceller,
                   history, syncFaults>>

(* Mutant: the flag is not looked at between two items.                    *)
NextItemUnchecked(j) ==
    /\ worker[j].pc = "looping"
    /\ \E a \in worker[j].todo :
          worker' = [worker EXCEPT ![j].pc = "beginning", ![j].account = a]
    /\ UNCHANGED <<jobs, items, notified, cancelRequested, creator,
                   canceller, history, syncFaults>>

(* The next item of the loop: cancelled when the flag is set. The order of *)
(* the items is that of the accounts query, which fixes none.              *)
NextItem(j) ==
    /\ worker[j].pc = "looping"
    /\ \E a \in worker[j].todo :
          IF j \in cancelRequested
          THEN /\ items' = [items EXCEPT ![j][a] = "cancelled"]
               /\ worker' = [worker EXCEPT ![j].todo = @ \ {a}]
          ELSE /\ worker' = [worker EXCEPT ![j].pc = "beginning",
                                           ![j].account = a]
               /\ UNCHANGED items
    /\ UNCHANGED <<jobs, notified, cancelRequested, creator, canceller,
                   history, syncFaults>>

(* item.status = running, whatever the row says, and its commit.           *)
BeginItem(j) ==
    /\ worker[j].pc = "beginning"
    /\ items' = [items EXCEPT ![j][worker[j].account] = "running"]
    /\ worker' = [worker EXCEPT ![j].pc = "processing"]
    /\ lateItems' = [lateItems EXCEPT ![j] = IF j \in cancelRequested
                                             THEN @ + 1 ELSE @]
    /\ UNCHANGED <<jobs, notified, cancelRequested, creator, canceller,
                   settled, flaggedAt, syncFaults>>

(* No usable credential, or the provider refused: the item failed and the  *)
(* loop goes on. Otherwise the resources are stored with the item.         *)
EndItem(j) ==
    /\ worker[j].pc = "processing"
    /\ \E result \in {"success", "failed"} :
          items' = [items EXCEPT ![j][worker[j].account] = result]
    /\ worker' = [worker EXCEPT ![j].pc = "looping",
                                ![j].todo = @ \ {worker[j].account},
                                ![j].account = NoAccount]
    /\ UNCHANGED <<jobs, notified, cancelRequested, creator, canceller,
                   history, syncFaults>>

(* Mutant: a cancelled run leaves the loop and returns.                    *)
CloseLoopReturns(j) ==
    /\ worker[j].pc = "looping"
    /\ worker[j].todo = {}
    /\ worker' = [worker EXCEPT ![j].pc = IF j \in cancelRequested
                                          THEN "ended" ELSE "reporting"]
    /\ cancelRequested' = cancelRequested \ {j}
    /\ UNCHANGED <<tables, creator, canceller, history, syncFaults>>

(* After the loop, the last look at the flag, which is discarded here.     *)
CloseLoop(j) ==
    /\ worker[j].pc = "looping"
    /\ worker[j].todo = {}
    /\ worker' = [worker EXCEPT ![j].pc = "reporting",
                                ![j].cancelled = j \in cancelRequested]
    /\ cancelRequested' = cancelRequested \ {j}
    /\ UNCHANGED <<tables, creator, canceller, history, syncFaults>>

(* Mutant: one failed item is enough to call the run failed.               *)
HastyAggregate(statuses) ==
    CASE "failed" \in statuses -> "failed"
      [] statuses = {"cancelled"} -> "cancelled"
      [] OTHER -> "success"

(* _aggregate_status, on the set of the statuses. An empty set, and any    *)
(* mixture of success and cancelled, count as success.                     *)
AggregateStatus(statuses) ==
    LET over == statuses \cap SyncActive = {}
    IN CASE statuses = {"pending"} -> "pending"
         [] ~over /\ statuses # {"pending"} -> "running"
         [] statuses = {"cancelled"} -> "cancelled"
         [] over /\ {"failed", "success"} \subseteq statuses
               -> "partial_success"
         [] over /\ "failed" \in statuses /\ "success" \notin statuses
               -> "failed"
         [] OTHER -> "success"

(* The commit that ends a run: cancelled in silence, or the aggregate of   *)
(* the items as they are now, with a notification.                         *)
CommitVerdict(j) ==
    LET verdict == IF worker[j].cancelled THEN "cancelled"
                   ELSE AggregateStatus({items[j][a] : a \in ItemsOf(j)})
        kind == IF verdict = "failed" THEN "failed" ELSE "succeeded"
    IN /\ worker[j].pc = "reporting"
       /\ jobs' = [jobs EXCEPT ![j] = verdict]
       /\ settled' = [settled EXCEPT ![j] = verdict]
       /\ notified' = [notified EXCEPT ![j][kind] =
                          IF worker[j].cancelled THEN @ ELSE @ + 1]
       /\ worker' = [worker EXCEPT ![j].pc = "ended"]
       /\ UNCHANGED <<items, cancelRequested, creator, canceller, flaggedAt,
                      lateItems, syncFaults>>

(* An exception that no branch of an item expects (two runs inserting one  *)
(* resource, a lost connection) ends the whole task; nothing settles it.   *)
SyncRaises(j) ==
    /\ syncFaults < MaxSyncFaults
    /\ worker[j].pc \in {"scheduled", "looping", "beginning", "processing",
                         "reporting"}
    /\ worker' = [worker EXCEPT ![j].pc = "lost"]
    /\ syncFaults' = syncFaults + 1
    /\ UNCHANGED <<tables, cancelRequested, creator, canceller, history>>

(***************************************************************************)
(* POST /sync-jobs/{sync_job_id}/cancel                                    *)
(***************************************************************************)
ReceiveSyncCancel(h, j) ==
    /\ canceller[h].pc = "idle"
    /\ jobs[j] # "absent"
    /\ canceller' = [canceller EXCEPT ![h] =
          [job |-> j,
           pc |-> CASE jobs[j] = "pending" -> "saw_pending"
                    [] jobs[j] = "running" -> "saw_running"
                    [] OTHER -> "done"]]               \* 409
    /\ UNCHANGED <<tables, cancelRequested, worker, creator, history,
                   syncFaults>>

(* The job becomes cancelled over whatever its row says by now; of the     *)
(* items only those still pending do.                                      *)
CommitSyncCancel(h) ==
    /\ canceller[h].pc = "saw_pending"
    /\ LET j == canceller[h].job
       IN /\ jobs' = [jobs EXCEPT ![j] = "cancelled"]
          /\ items' = [items EXCEPT ![j] =
                [a \in Accounts |-> IF @[a] = "pending" THEN "cancelled"
                                                        ELSE @[a]]]
    /\ canceller' = [canceller EXCEPT ![h].pc = "done"]
    /\ UNCHANGED <<notified, cancelRequested, worker, creator, history,
                   syncFaults>>

(* _CANCEL_REQUESTED.add(job.id)                                           *)
FlagSyncCancel(h) ==
    /\ canceller[h].pc = "saw_running"
    /\ LET j == canceller[h].job
       IN /\ cancelRequested' = cancelRequested \union {j}
          /\ flaggedAt' = [flaggedAt EXCEPT
                              ![j] = IF @ = "none" THEN worker[j].pc ELSE @]
    /\ canceller' = [canceller EXCEPT ![h].pc = "done"]
    /\ UNCHANGED <<tables, worker, creator, settled, lateItems, syncFaults>>

(***************************************************************************)
(* The API process stops and starts again: threads and flags are gone.     *)
(***************************************************************************)
SyncCrash ==
    /\ syncFaults < MaxSyncFaults
    /\ syncFaults' = syncFaults + 1
    /\ cancelRequested' = {}
    /\ worker' = [j \in Jobs |->
          IF worker[j].pc \in {"none", "ended"} THEN worker[j]
          ELSE [worker[j] EXCEPT !.pc = "lost"]]
    /\ creator' = [h \in Creators |->
          IF creator[h].pc = "idle" THEN creator[h]
          ELSE [creator[h] EXCEPT !.pc = "done"]]
    /\ canceller' = [h \in Cancellers |->
          IF canceller[h].pc = "idle" THEN canceller[h]
          ELSE [canceller[h] EXCEPT !.pc = "done"]]
    /\ UNCHANGED <<tables, history>>

(***************************************************************************)
(* Specification                                                           *)
(***************************************************************************)
WorkerStep(j) ==
    \/ StartSync(j) \/ NextItem(j) \/ BeginItem(j) \/ EndItem(j)
    \/ CloseLoop(j) \/ CommitVerdict(j)

SyncNext ==
    \/ \E h \in Creators : ReceiveSync(h) \/ InsertSync(h) \/ ScheduleSync(h)
    \/ \E j \in Jobs : WorkerStep(j) \/ SyncRaises(j)
    \/ \E h \in Cancellers :
          \/ \E j \in Jobs : ReceiveSyncCancel(h, j)
          \/ CommitSyncCancel(h) \/ FlagSyncCancel(h)
    \/ SyncCrash

SyncSpec == SyncInit /\ [][SyncNext]_syncVars

(* A task that runs keeps running: the provider clients have time-outs and *)
(* the database answers. A handler past its commit schedules its task.     *)
SyncFairness ==
    /\ \A j \in Jobs : WF_syncVars(WorkerStep(j))
    /\ \A h \in Creators : WF_syncVars(ScheduleSync(h))

FairSyncSpec == SyncSpec /\ SyncFairness

(***************************************************************************)
(* Properties                                                              *)
(***************************************************************************)

(* What a run reports is what its items say, whoever cancelled what while  *)
(* it ran: a notified job has only finished items, its status says whether *)
(* all, some or none of them succeeded, and a cancelled run tells nobody.  *)
VerdictMatchesItems ==
    \A j \in Jobs :
        LET ofJob == {items[j][a] : a \in ItemsOf(j)}
            told == notified[j]["succeeded"] + notified[j]["failed"]
        IN /\ told <= 1
           /\ told = 1 <=> settled[j] \notin {"none", "cancelled"}
           /\ told = 1 =>
                 /\ ofJob # {} /\ ofJob \subseteq {"success", "failed"}
                 /\ (settled[j] = "success" <=> ofJob = {"success"})
                 /\ (settled[j] = "failed" <=> ofJob = {"failed"})
                 /\ (notified[j]["failed"] = 1 <=> ofJob = {"failed"})

(* A cancel accepted while the loop runs stops it: only an item the task   *)
(* was already committed to begin is still begun, every other one left is  *)
(* cancelled, and the run is never reported as finished.                   *)
AcceptedCancelStops ==
    \A j \in Jobs :
        /\ lateItems[j] <= 1
        /\ lateItems[j] = 1 => flaggedAt[j] = "beginning"
        /\ flaggedAt[j] \in {"looping", "beginning", "processing"} =>
              /\ settled[j] \in {"none", "cancelled"}
              /\ notified[j]["succeeded"] = 0 /\ notified[j]["failed"] = 0

(* Without a fault a scheduled run ends with a final job and final items,  *)
(* so that the user is not kept from synchronising again.                  *)
ScheduledSyncSettles ==
    \A j \in Jobs :
        worker[j].pc = "scheduled" ~>
            \/ syncFaults > 0
            \/ /\ jobs[j] \in Terminal
               /\ \A a \in Accounts : items[j][a] \notin SyncActive

(* API specification 16.1: pending -> running -> success, partial_success  *)
(* or failed, and pending or running -> cancelled; no other change.        *)
StatusFollowsDiagram ==
    [][\A j \in Jobs : jobs[j] \in Terminal => jobs'[j] = jobs[j]]_syncVars
=============================================================================
