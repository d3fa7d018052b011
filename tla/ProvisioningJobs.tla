-------------------------- MODULE ProvisioningJobs --------------------------
(***************************************************************************)
(* The provisioning jobs of one user: POST /provisioning/{provider}/       *)
(* {service} (idempotent creation), the background task that drives        *)
(* terraform, POST .../cancel, DELETE /credentials/{id} and the command    *)
(* line tool dev_destroy_job, over one database and one API process.       *)
(*                                                                         *)
(* A handler runs in a thread with a database session of its own, at READ  *)
(* COMMITTED: what it read may be stale when it commits, so the read and   *)
(* the commit are separate actions here. `jobs`, `credentials`, `notified`,*)
(* `audited` and `inventory` are tables and survive Crash; the cancel      *)
(* flags, the init lock and every thread are memory of the process.        *)
(* now() is a logical clock per job: only the order of the timestamps of   *)
(* one row matters, for its check constraint.                              *)
(***************************************************************************)
EXTENDS Naturals, FiniteSets

CONSTANTS
    Jobs,             \* ids the provisioning_jobs table can hand out
    Keys,             \* Idempotency-Key header values
    Payloads,         \* service + common_spec + provider_spec of a request
    ValidPayloads,    \* those the runner's validate_spec accepts
    Credentials,
    DemoCredentials,  \* credentials of the demo accounts: no terraform
    Creators,         \* threads serving one POST /provisioning/... each
    Cancellers,       \* threads serving one POST .../cancel each
    Deleters,         \* threads serving one DELETE /credentials/{id} each
    NoJob, NoKey, NoPayload, NoCredential,
    MaxFaults         \* bound on restarts and escaping exceptions

ASSUME ConstantsAssumption ==
    /\ ValidPayloads \subseteq Payloads
    /\ DemoCredentials \subseteq Credentials
    /\ NoJob \notin Jobs /\ NoKey \notin Keys
    /\ NoPayload \notin Payloads /\ NoCredential \notin Credentials
    /\ MaxFaults \in Nat

VARIABLES
    jobs,             \* table provisioning_jobs
    credentials,      \* ids present in table credentials
    notified,         \* rows of table notifications, per job and kind
    audited,          \* provisioning.complete rows of audit_events, per job
    inventory,        \* jobs whose resource has a row in table resources
    cloud,            \* what the job left at the cloud provider
    applies,          \* number of terraform apply runs of the job
    cancelRequested,  \* the set _CANCEL_REQUESTED
    initLock,         \* holder of terraform_runner._INIT_LOCK
    worker,           \* background task of each job
    creator,          \* request threads of Creators
    canceller,        \* request threads of Cancellers
    deleter,          \* request threads of Deleters
    destroyer,        \* job the dev_destroy_job process has just destroyed
    clock,            \* now(), per job
    flaggedAt,        \* history: the stage the worker was in when a cancel
                      \* request set its flag
    faults

tables == <<jobs, credentials, notified, audited, inventory>>
memory == <<cancelRequested, initLock, worker, creator, canceller, deleter>>
world  == <<cloud, applies, destroyer, clock, flaggedAt, faults>>
vars   == <<tables, memory, world>>

(***************************************************************************)
(* Types                                                                   *)
(***************************************************************************)
Active   == {"queued", "running"}
Terminal == {"success", "failed", "cancelled"}

Row == [status: {"absent"} \union Active \union Terminal,
        key: Keys \union {NoKey},
        payload: Payloads \union {NoPayload},
        credential: Credentials \union {NoCredential},   \* SQL NULL
        started: Nat, finished: Nat]                     \* 0 is SQL NULL

NoRow == [status |-> "absent", key |-> NoKey, payload |-> NoPayload,
          credential |-> NoCredential, started |-> 0, finished |-> 0]

(* Where a background task stands. "terraform" stages follow run_apply;    *)
(* "lost" is a task that died with its process or by an exception.         *)
Stages == {"none", "scheduled", "starting", "checking", "preparing",
           "waiting", "init", "planning", "applying", "output", "demo", "finishing",
           "ended", "lost"}
Results == {"none", "created", "created_no_id", "failed", "cancelled"}

Worker == [pc: Stages,
           credential: Credentials \union {NoCredential},
           stamp: Nat,                    \* started_at, not yet committed
           result: Results]               \* TerraformResult

NoWorker == [pc |-> "none", credential |-> NoCredential,
             stamp |-> 0, result |-> "none"]

Replies == {"none", "accepted", "existing", "key_reused", "invalid",
            "not_found", "server_error", "lost"}

Creator == [pc: {"idle", "inserting", "rejecting", "committed", "done"},
            key: Keys \union {NoKey}, payload: Payloads \union {NoPayload},
            credential: Credentials \union {NoCredential},
            job: Jobs \union {NoJob}, reply: Replies]

NewCreator == [pc |-> "idle", key |-> NoKey, payload |-> NoPayload,
               credential |-> NoCredential, job |-> NoJob, reply |-> "none"]

Canceller == [pc: {"idle", "saw_queued", "stamped", "saw_running", "done"},
              job: Jobs \union {NoJob}, stamp: Nat]

Deleter == [pc: {"idle", "approved", "done"},
            credential: Credentials \union {NoCredential}]

Clouds == {"nothing", "exists", "simulated", "destroyed"}

TypeOK ==
    /\ jobs \in [Jobs -> Row]
    /\ credentials \subseteq Credentials
    /\ notified \in [Jobs -> [{"success", "failed"} -> Nat]]
    /\ audited \in [Jobs -> Nat]
    /\ inventory \subseteq Jobs
    /\ cloud \in [Jobs -> Clouds]
    /\ applies \in [Jobs -> Nat]
    /\ cancelRequested \subseteq Jobs
    /\ initLock \in Jobs \union {NoJob}
    /\ worker \in [Jobs -> Worker]
    /\ creator \in [Creators -> Creator]
    /\ canceller \in [Cancellers -> Canceller]
    /\ deleter \in [Deleters -> Deleter]
    /\ destroyer \in Jobs \union {NoJob}
    /\ clock \in [Jobs -> Nat]
    /\ flaggedAt \in [Jobs -> Stages]
    /\ faults \in Nat

Init ==
    /\ jobs = [j \in Jobs |-> NoRow]
    /\ credentials \in SUBSET Credentials      \* those registered so far
    /\ notified = [j \in Jobs |-> [k \in {"success", "failed"} |-> 0]]
    /\ audited = [j \in Jobs |-> 0]
    /\ inventory = {}
    /\ cloud = [j \in Jobs |-> "nothing"]
    /\ applies = [j \in Jobs |-> 0]
    /\ cancelRequested = {}
    /\ initLock = NoJob
    /\ worker = [j \in Jobs |-> NoWorker]
    /\ creator = [h \in Creators |-> NewCreator]
    /\ canceller = [h \in Cancellers |->
                       [pc |-> "idle", job |-> NoJob, stamp |-> 0]]
    /\ deleter = [h \in Deleters |->
                     [pc |-> "idle", credential |-> NoCredential]]
    /\ destroyer = NoJob
    /\ clock = [j \in Jobs |-> 0]
    /\ flaggedAt = [j \in Jobs |-> "none"]
    /\ faults = 0

(***************************************************************************)
(* Helpers                                                                 *)
(***************************************************************************)
Exists(j) == jobs[j].status # "absent"
JobsWithKey(k) == {j \in Jobs : Exists(j) /\ jobs[j].key = k}

(* now(), as one job's timestamps see it. *)
Now(j) == clock[j] + 1
Tick(j) == clock' = [clock EXCEPT ![j] = Now(j)]

(* Mutant: a schema without the check constraint.                          *)
UncheckedTimestamps(row) == TRUE

(* ck_provisioning_jobs_finished_after_started, on the row about to be     *)
(* stored; an UPDATE that violates it raises IntegrityError.               *)
FinishedAfterStarted(row) ==
    row.finished = 0 \/ row.started = 0 \/ row.finished >= row.started

Reply(h, r) ==
    creator' = [creator EXCEPT ![h].pc = "done", ![h].reply = r]

(***************************************************************************)
(* POST /provisioning/{provider}/{service}                                 *)
(***************************************************************************)

(* The handler up to its decision: ownership of the credential, the        *)
(* runner's validation, and the look-up of the idempotency key.            *)
ReceiveCreate(h, k, p, c) ==
    /\ creator[h].pc = "idle"
    /\ \/ /\ c \notin credentials
          /\ Reply(h, "not_found")
       \/ /\ c \in credentials /\ p \notin ValidPayloads
          /\ JobsWithKey(k) # {}
          /\ Reply(h, "invalid")
       \/ /\ c \in credentials /\ p \in ValidPayloads
          /\ \E j \in JobsWithKey(k) :
                Reply(h, IF jobs[j].payload = p /\ jobs[j].credential = c
                         THEN "existing" ELSE "key_reused")
       \/ /\ c \in credentials /\ JobsWithKey(k) = {}
          /\ creator' = [creator EXCEPT ![h] =
                [@ EXCEPT !.pc = IF p \in ValidPayloads
                                 THEN "inserting" ELSE "rejecting",
                          !.key = k, !.payload = p, !.credential = c]]
    /\ UNCHANGED <<tables, cancelRequested, initLock, worker, canceller,
                   deleter, world>>

(* Mutant: a schema without the unique constraint, trusting the look-up.   *)
KeysNotUnique(h) == creator[h].credential \in credentials

(* UNIQUE (user_id, idempotency_key) and the foreign key to credentials.   *)
InsertAllowed(h) ==
    /\ JobsWithKey(creator[h].key) = {}
    /\ creator[h].credential \in credentials

NewRow(h, st, finish) ==
    [status |-> st, key |-> creator[h].key, payload |-> creator[h].payload,
     credential |-> creator[h].credential, started |-> 0,
     finished |-> finish]

(* INSERT and COMMIT of the queued job.                                    *)
InsertJob(h) ==
    /\ creator[h].pc = "inserting"
    /\ InsertAllowed(h)
    /\ \E j \in Jobs :
          /\ ~Exists(j)
          /\ jobs' = [jobs EXCEPT ![j] = NewRow(h, "queued", 0)]
          /\ creator' = [creator EXCEPT ![h].pc = "committed", ![h].job = j]
    /\ UNCHANGED <<credentials, notified, audited, inventory,
                   cancelRequested, initLock, worker, canceller, deleter,
                   world>>

(* INSERT and COMMIT of a rejected request as a failed job: no audit       *)
(* event, no notification, the answer stays 422.                           *)
RecordRejectedJob(h) ==
    /\ creator[h].pc = "rejecting"
    /\ InsertAllowed(h)
    /\ \E j \in Jobs :
          /\ ~Exists(j)
          /\ jobs' = [jobs EXCEPT ![j] = NewRow(h, "failed", Now(j))]
          /\ Tick(j)
    /\ Reply(h, "invalid")
    /\ UNCHANGED <<credentials, notified, audited, inventory,
                   cancelRequested, initLock, worker, canceller, deleter,
                   cloud, applies, destroyer, flaggedAt, faults>>

(* The INSERT hits a constraint: another request used the key, or the      *)
(* credential is gone. Nothing catches IntegrityError: 500.                *)
InsertFails(h) ==
    /\ creator[h].pc \in {"inserting", "rejecting"}
    /\ ~InsertAllowed(h)
    /\ Reply(h, "server_error")
    /\ UNCHANGED <<tables, cancelRequested, initLock, worker, canceller,
                   deleter, world>>

(* After the commit: background_tasks.add_task, then the 202 answer.       *)
ScheduleJob(h) ==
    /\ creator[h].pc = "committed"
    /\ worker' = [worker EXCEPT ![creator[h].job].pc = "scheduled"]
    /\ Reply(h, "accepted")
    /\ UNCHANGED <<tables, cancelRequested, initLock, canceller, deleter,
                   world>>

(***************************************************************************)
(* The background task: _run_provisioning_job, _execute_job, run_apply     *)
(***************************************************************************)
GoTo(j, stage) == worker' = [worker EXCEPT ![j].pc = stage]
RunnerReturns(j, res) ==
    worker' = [worker EXCEPT ![j].pc = "finishing", ![j].result = res]

(* status and finished_at of a job this task settles.                      *)
Settle(j, st) ==
    /\ jobs' = [jobs EXCEPT ![j].status = st, ![j].finished = Now(j)]
    /\ Tick(j)

(* _finalize_job: notification, audit event and status in one commit.      *)
FinalizeJob(j, st) ==
    /\ Settle(j, st)
    /\ notified' = [notified EXCEPT ![j][st] = @ + 1]
    /\ audited' = [audited EXCEPT ![j] = @ + 1]

(* The task found its id in _CANCEL_REQUESTED: cancelled, nothing else.    *)
CancelJob(j) ==
    /\ Settle(j, "cancelled")
    /\ cancelRequested' = cancelRequested \ {j}
    /\ UNCHANGED <<notified, audited>>

(* _execute_job until it stamps started_at. The status of the row is not   *)
(* looked at; service and credential are read before the commit.           *)
StartJob(j) ==
    /\ worker[j].pc = "scheduled"
    /\ \/ /\ j \in cancelRequested
          /\ CancelJob(j)
          /\ GoTo(j, "ended")
       \/ /\ j \notin cancelRequested
          /\ worker' = [worker EXCEPT ![j] =
                [@ EXCEPT !.pc = "starting", !.stamp = Now(j),
                          !.credential = jobs[j].credential]]
          /\ Tick(j)
          /\ UNCHANGED <<jobs, notified, audited, cancelRequested>>
    /\ UNCHANGED <<credentials, inventory, initLock, creator, canceller,
                   deleter, cloud, applies, destroyer, flaggedAt, faults>>

StartedRow(j) ==
    [jobs[j] EXCEPT !.status = "running", !.started = worker[j].stamp]

(* COMMIT of status = running. A row that was cancelled before the stamp   *)
(* fails the check constraint: the exception ends the task.                *)
CommitStart(j) ==
    /\ worker[j].pc = "starting"
    /\ \/ /\ FinishedAfterStarted(StartedRow(j))
          /\ jobs' = [jobs EXCEPT ![j] = StartedRow(j)]
          /\ GoTo(j, "checking")
       \/ /\ ~FinishedAfterStarted(StartedRow(j))
          /\ GoTo(j, "lost")
          /\ UNCHANGED jobs
    /\ UNCHANGED <<credentials, notified, audited, inventory,
                   cancelRequested, initLock, creator, canceller, deleter,
                   world>>

(* Mutant: a branch that finalizes the job and forgets to return.          *)
FailEarlyGoesOn(j) ==
    /\ worker[j].pc = "checking"
    /\ worker[j].credential \in credentials \union {NoCredential}
    /\ FinalizeJob(j, "failed")
    /\ GoTo(j, "preparing")
    /\ UNCHANGED <<credentials, inventory, cancelRequested, initLock,
                   creator, canceller, deleter, cloud, applies, destroyer,
                   flaggedAt, faults>>

(* Credential missing, unverified, not decryptable or not resolvable: the  *)
(* job fails before terraform. The cancel flag is not looked at here.      *)
FailEarly(j) ==
    /\ worker[j].pc = "checking"
    /\ worker[j].credential \in credentials \union {NoCredential}
    /\ FinalizeJob(j, "failed")
    /\ GoTo(j, "ended")
    /\ UNCHANGED <<credentials, inventory, cancelRequested, initLock,
                   creator, canceller, deleter, cloud, applies, destroyer,
                   flaggedAt, faults>>

(* The credential row was there before the commit and is gone after it:    *)
(* reading the expired object raises, the row stays running.               *)
CredentialVanished(j) ==
    /\ worker[j].pc = "checking"
    /\ worker[j].credential \notin credentials \union {NoCredential}
    /\ GoTo(j, "lost")
    /\ UNCHANGED <<tables, cancelRequested, initLock, creator, canceller,
                   deleter, world>>

(* A verified, resolved credential: terraform, or the demo stand-in.       *)
BeginRun(j) ==
    /\ worker[j].pc = "checking"
    /\ worker[j].credential \in credentials
    /\ GoTo(j, IF worker[j].credential \in DemoCredentials
               THEN "demo" ELSE "preparing")
    /\ UNCHANGED <<tables, cancelRequested, initLock, creator, canceller,
                   deleter, world>>

(* wait_like_terraform, then made-up outputs: no cloud resource.           *)
DemoRun(j) ==
    /\ worker[j].pc = "demo"
    /\ RunnerReturns(j, "created")
    /\ cloud' = [cloud EXCEPT ![j] = "simulated"]
    /\ UNCHANGED <<tables, cancelRequested, initLock, creator, canceller,
                   deleter, applies, destroyer, clock, flaggedAt, faults>>

(* prepare_workspace; an OSError is a failed result.                       *)
PrepareWorkspace(j) ==
    /\ worker[j].pc = "preparing"
    /\ GoTo(j, "waiting") \/ RunnerReturns(j, "failed")
    /\ UNCHANGED <<tables, cancelRequested, initLock, creator, canceller,
                   deleter, world>>

(* Mutant: terraform init without the lock.                                *)
BeginInitUnlocked(j) ==
    /\ worker[j].pc = "waiting"
    /\ initLock' = j
    /\ GoTo(j, "init")
    /\ UNCHANGED <<tables, cancelRequested, creator, canceller, deleter,
                   world>>

(* with _INIT_LOCK: terraform init                                         *)
BeginInit(j) ==
    /\ worker[j].pc = "waiting"
    /\ initLock = NoJob
    /\ initLock' = j
    /\ GoTo(j, "init")
    /\ UNCHANGED <<tables, cancelRequested, creator, canceller, deleter,
                   world>>

(* Mutant: the flag is not looked at between two terraform commands.       *)
NoCancelCheck(j, next) == GoTo(j, next)

(* A terraform command that ends well is followed by cancel_check(); a     *)
(* non-zero exit or a timeout is a failed result.                          *)
CheckCancelThen(j, next) ==
    IF j \in cancelRequested THEN RunnerReturns(j, "cancelled")
                             ELSE GoTo(j, next)

(* Mutant: acquire and release without `with`: a failure keeps the lock.   *)
EndInitKeepsLock(j) ==
    /\ worker[j].pc = "init"
    /\ \/ CheckCancelThen(j, "planning") /\ initLock' = NoJob
       \/ RunnerReturns(j, "failed") /\ UNCHANGED initLock
    /\ UNCHANGED <<tables, cancelRequested, creator, canceller, deleter,
                   world>>

EndInit(j) ==
    /\ worker[j].pc = "init"
    /\ initLock' = NoJob
    /\ CheckCancelThen(j, "planning") \/ RunnerReturns(j, "failed")
    /\ UNCHANGED <<tables, cancelRequested, creator, canceller, deleter,
                   world>>

EndPlan(j) ==
    /\ worker[j].pc = "planning"
    /\ \/ /\ CheckCancelThen(j, "applying")
          /\ applies' = [applies EXCEPT ![j] = IF j \in cancelRequested
                                               THEN @ ELSE @ + 1]
       \/ /\ RunnerReturns(j, "failed")
          /\ UNCHANGED applies
    /\ UNCHANGED <<tables, cancelRequested, initLock, creator, canceller,
                   deleter, cloud, destroyer, clock, flaggedAt, faults>>

(* Mutant: the exit code of terraform apply is not looked at.              *)
EndApplyIgnoresExitCode(j) ==
    /\ worker[j].pc = "applying"
    /\ GoTo(j, "output")
    /\ cloud' \in {cloud, [cloud EXCEPT ![j] = "exists"]}
    /\ UNCHANGED <<tables, cancelRequested, initLock, creator, canceller,
                   deleter, applies, destroyer, clock, flaggedAt, faults>>

(* terraform apply: success creates the resource; a failure or a timeout   *)
(* may or may not have created it.                                         *)
EndApply(j) ==
    /\ worker[j].pc = "applying"
    /\ \/ /\ GoTo(j, "output")
          /\ cloud' = [cloud EXCEPT ![j] = "exists"]
       \/ /\ RunnerReturns(j, "failed")
          /\ cloud' \in {cloud, [cloud EXCEPT ![j] = "exists"]}
    /\ UNCHANGED <<tables, cancelRequested, initLock, creator, canceller,
                   deleter, applies, destroyer, clock, flaggedAt, faults>>

(* terraform output: a non-zero exit or unreadable JSON is still success,  *)
(* with no outputs; only a timeout turns the job into a failure.           *)
EndOutput(j) ==
    /\ worker[j].pc = "output"
    /\ \E res \in {"created", "created_no_id", "failed"} :
          RunnerReturns(j, res)
    /\ UNCHANGED <<tables, cancelRequested, initLock, creator, canceller,
                   deleter, world>>

(* Mutant: a flag that came too late for terraform is dropped.             *)
FinishIgnoresLateFlag(j) ==
    /\ worker[j].pc = "finishing"
    /\ \/ /\ worker[j].result = "cancelled"
          /\ CancelJob(j)
          /\ UNCHANGED inventory
       \/ /\ worker[j].result \in {"failed", "created", "created_no_id"}
          /\ FinalizeJob(j, IF worker[j].result = "failed" THEN "failed"
                            ELSE "success")
          /\ inventory' = IF worker[j].result = "created"
                          THEN inventory \union {j} ELSE inventory
          /\ UNCHANGED cancelRequested
    /\ GoTo(j, "ended")
    /\ UNCHANGED <<credentials, initLock, creator, canceller, deleter, cloud,
                   applies, destroyer, flaggedAt, faults>>

(* _execute_job after the runner: the cancel flag wins over any result;    *)
(* success stores the resource row in the commit that settles the job.     *)
FinishJob(j) ==
    /\ worker[j].pc = "finishing"
    /\ LET res == worker[j].result
           cancelled == res = "cancelled" \/ j \in cancelRequested
       IN \/ /\ cancelled
             /\ CancelJob(j)
             /\ GoTo(j, "ended")
             /\ UNCHANGED inventory
          \/ /\ ~cancelled /\ res = "failed"
             /\ FinalizeJob(j, "failed")
             /\ GoTo(j, "ended")
             /\ UNCHANGED <<inventory, cancelRequested>>
          \/ /\ ~cancelled /\ res = "created_no_id"
             /\ FinalizeJob(j, "success")
             /\ GoTo(j, "ended")
             /\ UNCHANGED <<inventory, cancelRequested>>
          \/ /\ ~cancelled /\ res = "created"
             /\ worker[j].credential \in credentials
             /\ FinalizeJob(j, "success")
             /\ inventory' = inventory \union {j}
             /\ GoTo(j, "ended")
             /\ UNCHANGED cancelRequested
          \/ /\ ~cancelled /\ res = "created"    \* foreign key of resources
             /\ worker[j].credential \notin credentials
             /\ GoTo(j, "lost")
             /\ UNCHANGED <<jobs, notified, audited, inventory,
                            cancelRequested, clock>>
    /\ UNCHANGED <<credentials, initLock, creator, canceller, deleter, cloud,
                   applies, destroyer, flaggedAt, faults>>

(* An exception no branch expects (a lost database connection, a full     *)
(* disk, no terraform binary) ends the task and gives the lock back;       *)
(* nothing settles the row.                                                *)
TaskRaises(j) ==
    /\ faults < MaxFaults
    /\ worker[j].pc \in {"scheduled", "starting", "checking", "preparing",
                         "init", "demo", "finishing"}
    /\ GoTo(j, "lost")
    /\ initLock' = IF worker[j].pc = "init" THEN NoJob ELSE initLock
    /\ faults' = faults + 1
    /\ UNCHANGED <<tables, cancelRequested, creator, canceller, deleter,
                   cloud, applies, destroyer, clock, flaggedAt>>

(***************************************************************************)
(* POST /provisioning/jobs/{job_id}/cancel                                 *)
(***************************************************************************)
ReceiveCancel(h, j) ==
    /\ canceller[h].pc = "idle"
    /\ Exists(j)
    /\ canceller' = [canceller EXCEPT ![h] =
          [@ EXCEPT !.job = j,
                    !.pc = CASE jobs[j].status = "queued"  -> "saw_queued"
                             [] jobs[j].status = "running" -> "saw_running"
                             [] OTHER -> "done"]]      \* 409
    /\ UNCHANGED <<tables, cancelRequested, initLock, worker, creator,
                   deleter, world>>

(* job.status = "cancelled"; job.finished_at = now() on the handler's copy *)
StampCancel(h) ==
    /\ canceller[h].pc = "saw_queued"
    /\ LET j == canceller[h].job
       IN /\ canceller' = [canceller EXCEPT ![h].pc = "stamped",
                                            ![h].stamp = Now(j)]
          /\ Tick(j)
    /\ UNCHANGED <<tables, cancelRequested, initLock, worker, creator,
                   deleter, cloud, applies, destroyer, flaggedAt, faults>>

CancelledRow(h) ==
    [jobs[canceller[h].job] EXCEPT !.status = "cancelled",
                                   !.finished = canceller[h].stamp]

(* COMMIT of the handler's copy, over whatever the row has become.         *)
CommitCancel(h) ==
    /\ canceller[h].pc = "stamped"
    /\ canceller' = [canceller EXCEPT ![h].pc = "done"]
    /\ jobs' = IF FinishedAfterStarted(CancelledRow(h))
               THEN [jobs EXCEPT ![canceller[h].job] = CancelledRow(h)]
               ELSE jobs
    /\ UNCHANGED <<credentials, notified, audited, inventory,
                   cancelRequested, initLock, worker, creator, deleter,
                   world>>

(* _CANCEL_REQUESTED.add(job.id)                                           *)
FlagCancel(h) ==
    /\ canceller[h].pc = "saw_running"
    /\ LET j == canceller[h].job
       IN /\ cancelRequested' = cancelRequested \union {j}
          /\ flaggedAt' = [flaggedAt EXCEPT
                              ![j] = IF @ = "none" THEN worker[j].pc ELSE @]
    /\ canceller' = [canceller EXCEPT ![h].pc = "done"]
    /\ UNCHANGED <<tables, initLock, worker, creator, deleter, cloud,
                   applies, destroyer, clock, faults>>

(***************************************************************************)
(* DELETE /credentials/{credential_id}                                     *)
(***************************************************************************)
InUse(c) == \E j \in Jobs : jobs[j].credential = c /\ jobs[j].status \in Active

CheckDelete(h, c) ==
    /\ deleter[h].pc = "idle"
    /\ c \in credentials
    /\ deleter' = [deleter EXCEPT ![h] =
          [pc |-> IF InUse(c) THEN "done" ELSE "approved",  \* 409 or go on
           credential |-> c]]
    /\ UNCHANGED <<tables, cancelRequested, initLock, worker, creator,
                   canceller, world>>

(* DELETE and COMMIT; the foreign key of the jobs is ON DELETE SET NULL.   *)
CommitDelete(h) ==
    /\ deleter[h].pc = "approved"
    /\ LET c == deleter[h].credential
       IN /\ credentials' = credentials \ {c}
          /\ jobs' = [j \in Jobs |->
                IF jobs[j].credential = c
                THEN [jobs[j] EXCEPT !.credential = NoCredential]
                ELSE jobs[j]]
    /\ deleter' = [deleter EXCEPT ![h].pc = "done"]
    /\ UNCHANGED <<notified, audited, inventory, cancelRequested, initLock,
                   worker, creator, canceller, world>>

(***************************************************************************)
(* dev_destroy_job, a process of its own                                   *)
(***************************************************************************)
DestroyResource(j) ==
    /\ destroyer = NoJob
    /\ jobs[j].status = "success"
    /\ jobs[j].credential \in credentials \ DemoCredentials
    /\ cloud' = [cloud EXCEPT ![j] = "destroyed"]
    /\ destroyer' = j
    /\ UNCHANGED <<tables, memory, applies, clock, flaggedAt, faults>>

(* The row of table resources is left as it is.                            *)
RecordDestroy ==
    /\ destroyer # NoJob
    /\ Settle(destroyer, "cancelled")
    /\ destroyer' = NoJob
    /\ UNCHANGED <<credentials, notified, audited, inventory, memory, cloud,
                   applies, flaggedAt, faults>>

(***************************************************************************)
(* The API process stops and starts again: threads, flags and the lock are *)
(* gone, an interrupted apply may have created its resource, and nothing   *)
(* at start-up looks at the jobs that were under way.                      *)
(***************************************************************************)
Crash ==
    /\ faults < MaxFaults
    /\ faults' = faults + 1
    /\ cancelRequested' = {}
    /\ initLock' = NoJob
    /\ worker' = [j \in Jobs |->
          IF worker[j].pc \in {"none", "ended"} THEN worker[j]
          ELSE [worker[j] EXCEPT !.pc = "lost"]]
    /\ \E made \in SUBSET {j \in Jobs : worker[j].pc = "applying"} :
          cloud' = [j \in Jobs |-> IF j \in made THEN "exists" ELSE cloud[j]]
    /\ creator' = [h \in Creators |->
          IF creator[h].pc \in {"idle", "done"} THEN creator[h]
          ELSE [creator[h] EXCEPT !.pc = "done", !.reply = "lost"]]
    /\ canceller' = [h \in Cancellers |->
          IF canceller[h].pc = "idle" THEN canceller[h]
          ELSE [canceller[h] EXCEPT !.pc = "done"]]
    /\ deleter' = [h \in Deleters |->
          IF deleter[h].pc = "idle" THEN deleter[h]
          ELSE [deleter[h] EXCEPT !.pc = "done"]]
    /\ UNCHANGED <<tables, applies, destroyer, clock, flaggedAt>>

(***************************************************************************)
(* Specification                                                           *)
(***************************************************************************)
CreateSteps(h) ==
    \/ \E k \in Keys, p \in Payloads, c \in Credentials :
          ReceiveCreate(h, k, p, c)
    \/ InsertJob(h) \/ RecordRejectedJob(h) \/ InsertFails(h)
    \/ ScheduleJob(h)

(* What the task does of its own accord.                                   *)
WorkerStep(j) ==
    \/ StartJob(j) \/ CommitStart(j)
    \/ FailEarly(j) \/ CredentialVanished(j) \/ BeginRun(j) \/ DemoRun(j)
    \/ PrepareWorkspace(j) \/ BeginInit(j) \/ EndInit(j) \/ EndPlan(j)
    \/ EndApply(j) \/ EndOutput(j) \/ FinishJob(j)

CancelSteps(h) ==
    \/ \E j \in Jobs : ReceiveCancel(h, j)
    \/ StampCancel(h) \/ CommitCancel(h) \/ FlagCancel(h)

DeleteSteps(h) ==
    \/ \E c \in Credentials : CheckDelete(h, c)
    \/ CommitDelete(h)

Next ==
    \/ \E h \in Creators : CreateSteps(h)
    \/ \E j \in Jobs : WorkerStep(j) \/ TaskRaises(j)
    \/ \E h \in Cancellers : CancelSteps(h)
    \/ \E h \in Deleters : DeleteSteps(h)
    \/ \E j \in Jobs : DestroyResource(j)
    \/ RecordDestroy
    \/ Crash

Spec == Init /\ [][Next]_vars

(* A started thread keeps running: every terraform command has a timeout,  *)
(* and a handler past its reads has nothing to wait for. No request has to *)
(* arrive, nothing has to fail.                                            *)
Fairness ==
    /\ \A j \in Jobs : WF_vars(WorkerStep(j))
    /\ \A h \in Creators :
          WF_vars(InsertJob(h) \/ RecordRejectedJob(h) \/ InsertFails(h)
                  \/ ScheduleJob(h))

FairSpec == Spec /\ Fairness

(***************************************************************************)
(* Properties                                                              *)
(***************************************************************************)

(* An Idempotency-Key never has two jobs, however many requests carry it   *)
(* at once: the look-up before the INSERT is only a read, the unique       *)
(* constraint is what holds.                                               *)
OneJobPerKey ==
    \A i, j \in Jobs :
        (Exists(i) /\ Exists(j) /\ jobs[i].key = jobs[j].key) => i = j

(* A key pays for terraform apply at most once: no retry, crash or cancel  *)
(* makes a second run for the same row or a second row for the same key.   *)
OneApplyPerKey ==
    \A i, j \in Jobs :
        (applies[i] > 0 /\ applies[j] > 0 /\ jobs[i].key = jobs[j].key)
            => i = j /\ applies[j] = 1

(* _finalize_job runs at most once for a job, whichever of its callers     *)
(* settles it: one notification of one kind, one provisioning.complete     *)
(* event, and none while the row still waits to be started.                *)
SettledOnce ==
    \A j \in Jobs :
        /\ audited[j] = notified[j]["success"] + notified[j]["failed"]
        /\ audited[j] <= 1
        /\ jobs[j].status \in {"absent", "queued"} => audited[j] = 0

(* A user told of success owns something: terraform apply made it (or the  *)
(* account is a demo account), and only dev_destroy_job takes it away. A   *)
(* row of the inventory always belongs to such a job.                      *)
SuccessIsReal ==
    \A j \in Jobs :
        /\ notified[j]["success"] > 0 => cloud[j] # "nothing"
        /\ j \in inventory => notified[j]["success"] = 1

(* The check constraint on the timestamps is what makes a cancel of a      *)
(* queued job stick: a job finished before its task stamps the start is    *)
(* not started, applies nothing and notifies nobody.                       *)
CancelledBeforeStartNeverRuns ==
    \A j \in Jobs :
        (/\ jobs[j].finished # 0
         /\ jobs[j].finished < worker[j].stamp) =>
            /\ worker[j].pc \in {"starting", "lost"}
            /\ jobs[j].status # "running"
            /\ applies[j] = 0 /\ audited[j] = 0

(* Stages whose next look at the cancel flag comes before terraform apply. *)
BeforeApply == {"checking", "preparing", "waiting", "init", "planning"}

(* A cancel accepted while the job is running is kept: flagged before the  *)
(* check that follows the plan, the job applies nothing; flagged before    *)
(* the runner has returned, it is never reported as a success.             *)
AcceptedCancelHonoured ==
    \A j \in Jobs :
        /\ flaggedAt[j] \in BeforeApply => applies[j] = 0
        /\ flaggedAt[j] \in BeforeApply \union
               {"applying", "output", "demo", "finishing"}
              => notified[j]["success"] = 0 /\ j \notin inventory

(* terraform init, which writes the shared plugin cache, runs for one job  *)
(* at a time, and the lock is not lost by a failure, a timeout or an end.  *)
InitIsSerial ==
    \A j \in Jobs : worker[j].pc = "init" <=> initLock = j

(* Without faults every scheduled job reaches a final status, whatever     *)
(* terraform answers and whoever cancels: nobody waits for ever for the    *)
(* init lock, and no branch of the task forgets to settle the row.         *)
ScheduledJobsSettle ==
    \A j \in Jobs :
        worker[j].pc = "scheduled" ~> jobs[j].status \in Terminal

(***************************************************************************)
(* The promise implemented: what a job is to its user, from the row, its   *)
(* task and the request thread that still has to schedule it.              *)
(***************************************************************************)
AboutToBeScheduled(j) ==
    \E h \in Creators : creator[h].pc = "committed" /\ creator[h].job = j

PhaseOf(j) ==
    IF ~Exists(j) THEN "absent"
    ELSE IF \/ worker[j].pc = "scheduled"
            \/ worker[j].pc = "none" /\ AboutToBeScheduled(j) THEN "pending"
    ELSE IF worker[j].pc \in {"none", "ended", "lost"} THEN "closed"
    ELSE "working"

ToldOf(j) ==
    IF notified[j]["success"] > 0 THEN "success"
    ELSE IF notified[j]["failed"] > 0 THEN "failed" ELSE "nothing"

Promise == INSTANCE JobPromise WITH
    phase  <- [j \in Jobs |-> PhaseOf(j)],
    effect <- cloud,
    told   <- [j \in Jobs |-> ToldOf(j)]

(* Every behaviour of the service, with its races, faults and restarts, is *)
(* one JobPromise allows: a request is executed at most once, its effect   *)
(* lies between start and close, and the user is told once, truthfully.    *)
KeepsPromise == Promise!Spec

(***************************************************************************)
(* What the documents say and the code does not keep                       *)
(***************************************************************************)

(* API specification 16.2: a job in a final status never goes back to an   *)
(* earlier one.                                                            *)
TerminalIsFinal ==
    [][\A j \in Jobs : jobs[j].status \in Terminal
                          => jobs'[j].status \in Terminal]_vars

(* API specification 6: a credential that a job under way refers to is     *)
(* not deleted, so such a job still has its credential.                    *)
ActiveJobKeepsCredential ==
    \A j \in Jobs : jobs[j].status \in Active
                       => jobs[j].credential \in credentials
=============================================================================
