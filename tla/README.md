# Verification of the Multi-Cloud Platform backend

The backend (`src/backend/app`) is one FastAPI process over one PostgreSQL database. It keeps
cloud credentials, provisions resources with terraform, synchronises an inventory with AWS,
Azure and GCP, ingests costs and watches budgets. Everything slow runs in a `BackgroundTasks`
thread of the same process or in an APScheduler thread; there is no queue and no separate worker.
The correctness of the system is therefore the correctness of database rows that several threads
read, hold, and write later, at READ COMMITTED, plus a few sets and locks in memory that a
restart empties.

## 1. Components

| Component | State | Operations | Talks to | Hard behaviour |
| --- | --- | --- | --- | --- |
| Provisioning jobs (`routers/provisioning.py`, `terraform_runner.py`, `dev_destroy_job.py`) | `provisioning_jobs`, the set `_CANCEL_REQUESTED`, `_INIT_LOCK`, workspaces | create under an Idempotency-Key, run (init, plan, apply, output), cancel, destroy tool | credentials, inventory, notifications, audit | creation race, cancel against every stage, credential deleted under a task, restart |
| Sync jobs (`routers/sync_jobs.py`, `resource_sync.py`) | `resource_sync_jobs`, `_items`, a second `_CANCEL_REQUESTED` | create, run item by item, cancel | inventory, notifications, providers | two jobs at once, cancel of a pending job, verdict against items |
| Inventory and actions (`routers/resources.py`, `resource_actions.py`) | `resources` (`is_stale`, `deleted_at`), `audit_events` | visit, store a built resource, start / stop / delete, list | sync and provisioning jobs, providers | stale snapshots, unique key, one commit for many effects |
| Credentials (`routers/credentials.py`, `providers/session.py`) | `credentials`, session cache | create, patch, verify, reorder, delete | every job | check-then-delete, cached delegation sessions |
| Cost ingestion (`routers/costs.py`, `cost/scheduler.py`, `cost/ingest.py`, `cost/coverage.py`) | `cost_ingestion_runs`, cost rows, advisory lock | manual and daily runs, replacement of rows, interruption | credentials, budgets, review queue | one active run per account, stuck runs, partial responses |
| Budgets and teams (`routers/teams.py`, `cost/budget.py`, `cost/notify.py`) | `teams`, `team_budgets`, alert marks | create, patch, delete, evaluate | cost rows, notifications | overlap checks under an advisory lock, one alert per threshold and period |
| Anomalies and review queue (`cost/anomaly.py`, `cost/review.py`, `routers/cost_review.py`) | review items | detect, queue, change status, resolve | cost rows | uniqueness of an item while it is resolved |
| Authentication (`routers/auth.py`) | `users`, `refresh_tokens`, verification and reset rows | sign-up, login, refresh, logout, reset, withdraw | credentials, jobs | rotation race, attempt counters, withdrawal under active jobs |
| Report scheduler (`report_scheduler.py`) | `last_sent_at` | daily sending | mail server | mail sent, commit lost |
| Cost capability, gating, coverage (`cost/capability.py`, `cost/gating.py`) | none | pure decisions | configuration | precedence of rules |
| Cost queries and adapters (`cost/query.py`, `cost/*_cost.py`) | none | fetch page by page; total, breakdown, trend, compare, forecast | provider cost APIs, cost rows | partial answers, limits, days that were never collected |
| Service runners (`*_provisioning.py`, `provisioning.py`, `providers/*.py`) | none | validate, name, build, list, act | terraform, providers | two writers that must agree on one key; passwords |
| Reports (`routers/reports.py`) | `report_generations` | generate, delete | cost queries, notifications | two generations of one key |

The remaining parts (price tables, security groups, logging, user interface, migrations, seeds) are
listed in `PROJECT.json` with the reason they are left out: they are data, formatting or
single-commit handlers.

What makes each modelled component correct:

* **Provisioning** - one key is applied once; a job is settled once and what it tells its user is
  true of the cloud; an accepted cancel is kept; terraform init is serial; a scheduled job ends.
* **Sync** - a run reports what became of its items; an accepted cancel stops it; a scheduled run
  ends in a final status.
* **Inventory** - an undisturbed visit makes the table agree with the provider; a recorded deletion
  has its audit event and no other writer takes it back; a visit fails only when it lost a race or its own
  listing has two new resources of one key.
* **Service line** - a resource has one row, whoever writes it, and what the row offers does what it
  says to that resource; a password goes to the run and nowhere else.
* **Deletions at the provider** - contents go only when forced; of a load balancer that Terraform made nothing
  is left but what the cloud would not give up.
* **Cost collection** - an answer holds every row once; a day's rows are one answer; the basis told of a day is that of its rows; a
  user is told once and truthfully; an accepted run is closed.
* **Cost answers** - what is shown as a total, forecast, comparison, budget or anomaly is that of the
  real charges whenever the days it needs were collected, and the readers agree with each other.
* **Budgets** - custom budgets of a team never overlap; a threshold is announced once.
* **Review queue** - an anomaly is queued and told once; a resolved item stays resolved.
* **Authentication** - a withdrawn user is out; a reset or withdrawal ends the sessions there were.
* **Reports** - a mail keeps the period since the last one recorded, and one that fails costs no other
  user theirs; a stored report is one request's work, and no answered one is lost to an older one.
* **Credentials** - what a credential says of itself is the last verdict about the secret it has,
  and its `auth_type` is the server's.

## 2. Modules

| Module | Contents |
| --- | --- |
| `ProvisioningJobs` | the provisioning component, its properties and its refinement mapping |
| `JobPromise` | what the provisioning API promises, without tables, threads and flags |
| `ProvisioningJobsInvariant` | the inductive invariant |
| `ProvisioningJobsProofs` | its proofs: types, invariants, the refinement |
| `SyncJobsProofs`, `CostIngestionProofs`, `CostLedgerProofs`, `AuthSessionsProofs` | the inductive invariant and the theorems of the module each is named after |
| `InventoryProofs` | the same for `Inventory` and `ServiceLine` |
| `DeskProofs` | the same for `ReportHistory`, `CloudActions`, `CostFetch`, `ReportDesk`, `CredentialDesk`, `ReviewQueue` and `TeamDesk` |
| `CostLemmas` | what the proofs about costs share: latest of finitely many, places in an order, products and quotients, sums over finite sets, the basis of a day |
| `SyncJobs` | the sync component: creation, the task, cancel |
| `Inventory` | the rows of one account under its three kinds of writers |
| `Services` | what the twelve services demand, name, hide and list, as records and operators |
| `ServiceLine` | one service from request to job, row, sync and action |
| `CloudActions` | deletions that take several calls at the provider |
| `CostIngestion` (on `Coverage`) | collections of one account, statement by statement |
| `Calendar`, `Coverage`, `CostGates`, `CostQueries`, `BudgetRules`, `AnomalyRules` | the pure part of the cost code, as operators over a ledger |
| `CostLedger` | days pass, accounts are collected or not; every answer is asked in every state |
| `CostFetch` | one fetch by each of the three adapters, page by page |
| `TeamDesk`, `ReviewQueue`, `AuthSessions`, `ReportDesk`, `ReportHistory`, `CredentialDesk` | the writers of one table or a few, each request a session with its copies and its commit |
| `MCDesk` | the ten parts that share no state side by side; a behaviour follows one of them. It extends all ten (each of them but `Inventory` therefore names its parts for itself: `TeamInit`, `MailNext`, `KeyTypeOK`, `deployed` and `resourceRows` of `ServiceLine`), so that TLC evaluates their assumptions and checks the very properties the theorems state |
| `MCTasks` | `SyncJobs` and `CostIngestion` side by side, for their safety |
| `MCSettling`, `MCCostLedger` | `ProvisioningJobs`, `SyncJobs` and `CostIngestion` under small bounds and fair threads, for their progress; beside them the ledger |
| other `MC*` | instances for TLC: constants and symmetry sets |

### ProvisioningJobs

A thread that reads a row and commits later is two actions, because another thread may write in
between. `creator` is a thread in `create_provisioning_job`: `ReceiveCreate` is everything up to
the key lookup, `InsertJob` or `InsertFails` the insert under
`uq_provisioning_jobs_user_idempotency`, `RecordRejectedJob` the row kept for an invalid request,
`ScheduleJob` the `add_task`. `worker[j]` is a run of `_execute_job`; its `pc` is where it stands:
`starting` (the row was read and `started_at` stamped but not committed), `checking`, then the
stages of `run_apply`, then `finishing`. `CommitStart` is separate from `StartJob`, since the row
may be cancelled between them; the check constraint `finished_at >= started_at` is a guard of every
commit (`FinishedAfterStarted`), which is why each job has a logical clock and both stamps are
part of the row. `CheckCancelThen` is `_check_cancelled`; `FinishJob` holds all of the end of
`_execute_job` (the late look at the flag, the stored resource, the notification, the audit
event, one commit). `CommitDelete` includes the `ON DELETE SET NULL` of the job's credential.
`TaskRaises` is any exception `log_background_task` passes on; `Crash` empties the memory and keeps
the tables. Abstracted: specifications are two payloads (valid, malformed), outputs are "with or
without an identifier", the cloud is what a job left there. `CheckDelete` looks at provisioning jobs
only: the sync items it also looks at are `inUse` of `CredentialDesk`.

### SyncJobs

`ReceiveSync` / `InsertSync` / `ScheduleSync` are the three stages of `create_sync_job`; the look
for an active job is in the first, the commit in the second. `StartSync` writes `running` over
whatever the row says, as the code does. `NextItem` looks at the flag, `BeginItem` commits the item
as running, `EndItem` its end. `CloseLoop` is the last look at the flag and its discard,
`CommitVerdict` the commit of the aggregate and of the notification. The module names its parts for
itself (`SyncInit`, `SyncNext`, `SyncCrash`, `SyncFairness`), as it is extended together with `CostIngestion`. `settled`, `flaggedAt` and
`lateItems` are history: they are read by properties only. An item's work is an
abstract success or failure here.

### Inventory

`cloud` is what exists at the provider, `rows` the table, `audited` the successful
`resource.delete` events. A visit goes `looking` (each `Discover` is one listed resource; `EndLook`
may come before all of them were seen, since the adapters swallow the errors of a region or
service), `looked`, `read` (the queries of `_upsert_discovered_resources`), then `StoreSync`, the
one commit. SQLAlchemy emits an UPDATE for a column only when its value differs from the one
loaded, so `Upserted` clears `is_stale` only where the visit had read it as set. `twins` are keys that
several resources have (virtual machines of one name in two zones, databases of one identifier in two
regions); `doubled` are those a visit has listed twice. `Fits` is the unique constraint: a flush that
inserts a key somebody else has inserted since, or one key twice - the session does not flush before its
queries, so neither of two new resources of one key finds the other - is `SyncCollides`. Provisioning (`BuildResource`,
`ReadBuilt`, `StoreBuilt`, `BuildCollides`) and the delete request (`ReceiveDelete`, `CheckItem`,
`EraseItem`, `CommitDeletes`) have the same shape. `EraseItem` includes the call that reports an
error although the resource is gone. `disturbed` and `exact` are history. Not modelled: two
transactions that PostgreSQL aborts as a deadlock (also a race, with the effect of
`SyncCollides`), resources without an identifier, the second row of a CDN's bucket (stored by
the same commit, by the same rule).

### Services, ServiceLine

`Runner` has one record per service: provider, rule of names, needed and optional fields, fields
taken unchecked, fields that demand another, sensitive fields, and what its error messages blot
out. A specification is the set of its fields and which of them are malformed. `NameOf` is the name
`build_tfvars` makes, cut where it cuts; `Attrs` is `_resource_attrs`, `Discovered*` the three
`discover_resources`, `SupportedActions`, `Effect` and `Reached` what `perform_resource_action` does
and to what. In `ServiceLine` a job runs to its end in one step (its interleavings are those of
`ProvisioningJobs`), a sync is one step that may pass over services it cannot list, and `Console`
is what users do without the service.

### CloudActions

Each call to the provider is a step, others use the cloud in between, any call may fail. `slow`
holds the requests of which a call failed or an operation outlasted its wait. A load balancer is a chain of
four parts: `live` are there, `dying` are those whose operation runs, `failed` those whose operation ended
DONE with an error, which the code takes for done as any other; `ours` says that the rule has the name
Terraform gives, without which the request ends after the rule (`Last`).

### CostIngestion, Coverage

`runs` and `costs` are the tables, `lock` the advisory lock of the account, `mind` what a session
holds, `step` where it is. `LastStored` is the last run that stored a range with the day. Refusals,
adapter exceptions, statements that raise (which leave an aborted transaction), the handler
`finalize_interrupted_run` and its own failure, and a death of the process are actions. After an
exception a daily visit looks for the account's active run (`LookForStuck`), reads it once more and leaves
it when it is closed by now (`RereadStuck`), and closes it (`CloseStuck`); it need not be the visit's own. `overrun` is history: the runs a daily
visit closed although their task lived.

### The ledger modules

A ledger is the rows and the runs a reader sees at one moment. `CostQueries` translates
`cost/query.py`; its questions are asked of the stored rows in every reachable state of
`CostLedger`, and the properties compare the answers with `Charge`, what the provider really
billed. Amounts are small integers; ratios are compared as fractions, with the code's rounding
where it rounds. Months have four days so that month ends come quickly. `keys` are the accounts with a key,
`verified` those whose key the provider accepted when it was last asked (`CheckKey`): the others are
answered for and not collected.

### CostFetch

`NextPage`, `AskAzure`, `Transport`, `Challenged`, `RateLimited`, `PageReceived` are Azure's loop with
both limits; AWS and BigQuery have fewer steps. What the service has is `pages`, chosen at the start;
what it answers (rate limits, repeated links, failures, challenges) is chosen at every call. The rows read
are pairs of a row and the number of the answer it came with, since the adapters append to a list: a page
read twice has its rows in it twice. `followed` is the set of links followed; the first request is none.

### The desks

A request is a session: it reads (and keeps the copy), may be overtaken, and commits; SQLAlchemy
writes the columns that differ from the copy, which `RowWith` (review items) and `Merged`
(credentials) spell out. `TeamDesk` has the advisory lock of `_lock_team_budgets` and the savepoint
around each threshold record; a session that ends, committed or rolled back, leaves nothing behind
(`Close`); `ReviewQueue` the savepoint around the item; `AuthSessions` the
refresh, reset and code rows, each request with its look and its commit apart; `ReportHistory` a
generation in its steps - the time, the figures, the upsert after the summary was awaited - and the
upsert that fails.

In `ReportDesk` the loop holds all rows in one session: `loaded` are the copies it still goes by, until
a commit or a rollback expires them and `Seen` is the table again. `Send` and `Record` are apart, since
a mail cannot be taken back. `CredentialDesk` has the requests as `handler`: `looked` and `inserted`
are the stages of a creation, `changing` a PATCH or a verification that asked the cloud and has not
committed. `overwritten` is history: the credentials whose last verdict was committed on a copy of which
another request had meanwhile replaced the secret or the verdict (`Outdated`). A later verdict takes them
out again.

## 3. Runs

| Run | Checks | Bounds |
| --- | --- | --- |
| `race` | the inductive invariant, one apply per key, settled once, success is real, cancels kept, init serial; the component implements `JobPromise` | two jobs, keys, payloads, creators and cancellers, one credential (a real or a demo one) that may be deleted, one fault; 1.6 million states |
| `tasks` | synchronisation: a run reports what became of its items, an accepted cancel stops it. Collections: rows replaced whole, the basis of a day, the notifications | one kind in a behaviour. Two jobs, two accounts, two creators, one cancel, one fault; two manual runs, each over one of the two days of the daily visit beside them, and one fault; 1.2 million states |
| `ledger` | forecast, comparison, budgets, anomalies, agreement of the readers; progress of jobs, synchronisations and collections | days 3 to 5 of months of four days, with charges on the days 0 to 5; four accounts, at most three runs, one failed collection; users ask for the default window and for others, of which an empty one is refused. In behaviours of their own: two provisioning jobs that share the init lock, of a real or of a demo credential, with one cancel; one synchronisation of two accounts with one cancel; one manual run beside a daily visit, with one fault; 123 000 states |
| `desk` | the twenty properties of ten parts | two or three requests of each kind per part, one fault or exception; 790 000 states, the sum over the parts |
| `terminal`, `deleted`, `sync_undone`, `inventory_hidden`, `costs_stuck`, `wrong_resource`, `mail_loop`, `auth_type` | violations, see section 6 | the smallest instance that shows each |

The type invariant of every part of `desk` is in `DeskTypeOK`, that of `ProvisioningJobs` in `IInv`.
`SyncJobs`, `CostIngestion` and `CostLedger` have a type invariant of their own (`SyncTypeOK`, `TypeOK`);
it is proved (section 4) and not among the properties of a run.

Why the bounds are enough: every hazard listed is between two threads, on one row or on two rows
related by a key or a lock, so two jobs, two keys and two requests of each kind reach it; two
accounts or two resources are needed for a loop that is interrupted in the middle and for a
partial outcome; a third request is there where one must overtake two (a threshold evaluated by
two sessions while a third changes the budget, a session opened while another is ended). Two manual
runs over different days and a visit over both show rows of one run beside those of another. A restart
is as bad as it gets the first time, since rows it leaves behind are
never touched again: one fault is enough. Each thread serves one request, so the systems stop and
deadlock is not checked; that nothing stops early is what the liveness properties say.

Bounds that cut behaviours, by name: `MaxFaults`, `MaxSyncFaults`, `MaxRaises`, `MaxCrashes` (faults), `MaxOutside`,
`MaxForeign`, `MaxOthers`, `MaxChanges` (what others do in the providers' consoles, jobs that use a
credential), `MaxUsers`, `MaxTokens`, `MaxCodes`, `MaxExpiries` (of `AuthSessions`), `MaxRows`
(credentials created), `MaxPuts` (changes of the mail delivery), `MaxRuns`, `MaxFailures`,
`LastDay`, `LastMailDay` (days, collections), and in `ServiceLine` `Repeated` (only these services
are built twice: a VM of Compute Engine, which alone can be built again under its name in another
zone) and the odd requests, of which one is followed until its job ends.
`MaxPages`, `MaxRequests`, `MaxWait`, `MaxScanned` of `CostFetch` and `MaxAttempts` of `AuthSessions` are
settings of the program with small values. `which` of `MCDesk` and `MCTasks` and `task` of `MCSettling`
choose the part a behaviour follows; these parts share no table.

Fairness (`JobsSettle`, `SyncsSettle` and `CollectionsSettle` of `ledger`) is weak fairness of each task,
and of the step that schedules it.
The code justifies it: a task is an ordinary thread, every terraform command has a time-out
(`terraform_runner._run`), provider clients have theirs, and the init lock is released on every path
out of init; the cost adapters bound their requests and their waits. Nothing is assumed of request
threads that have not committed, of cancels, or of faults. The first two properties are claimed for
runs without a fault, since nothing revives a lost task. `CollectionsSettle` names the ways out: a manual
run is closed unless the process died or the handler of its exceptions raised; a visit's run is closed
unless the process died, if it is the account's only run under way. Beside another run it may take that
one for its own when it raises, and leave its own running (section 6).

What properties leave out, and the lines that do so:

* `CdnCleansUp` speaks of load balancers that Terraform made (`gcp.py:235` leaves the parts of others), of
  requests without a failed call or a wait cut short (`gcp.py:249`, `gcp.py:264`), and of parts no operation
  that ended in an error stands before (`gcp.py:269`). That the chain is asked for in an order the cloud
  accepts, each part after the one before is gone, is what is left, and holds for requests side by side.
* `EveryRowOnce`: the links already followed are known, but the first request is not one of them
  (`azure_cost.py:292-319`); a link back to the first page brings its rows twice.
* `LostToARaceOrTwins`: a listing with two resources of one key that has no row.
* `CredentialSaysWhatItIs`: a verdict that came too late, until the next one.
* `OldSessionsEnd`: a session that a refresh commits between a reset's look and its commit.
* `AnsweredReportStands`: of two generations that overlap either may be the last.

## 4. Proofs

Every theorem below holds for every value of the constants that satisfies the named assumption of its
module; TLC evaluates the assumptions in the runs.

| Component | Assumed of the constants | Proved |
| --- | --- | --- |
| `ProvisioningJobs` | `ConstantsAssumption`: valid payloads are payloads, demo credentials credentials, null values no ids, the number of faults a natural number | `TypeCorrect`, `KeyHasOneJob`, `KeyAppliesOnce`, `JobSettledOnce`, `ReportedSuccessIsReal`, `QueuedCancelSticks`, `RunningCancelHonoured`, `InitRunsSerially`; `ServiceKeepsPromise`: `Spec => Promise!Spec` |
| `SyncJobs` | `SyncConstants`: `NoJob` is no job and `NoAccount` no account, the number of faults a natural number | `TypeCorrect`, `VerdictIsTrue`, `CancelStops` |
| `Inventory` | `InventoryConstants`: `NoKey` is no key, the numbers of outside changes and of faults are natural numbers | `TypeCorrect`, `DeletionsAreAudited`, `AnsweredDeletesStay`, `VisitsLoseRacesOrTwins`, `UndisturbedVisitsAreExact` |
| `CostIngestion` | `IngestionAssumption`: manual and daily runs are different, `NoRun` is no run, every window has a day, the runs are finitely many, the number of faults is a natural number | `TypeCorrect`, `DaysAreReplacedWhole`, `UsersAreToldTruthfully`, `FinishTimesFollowCommits`, `BasisIsThatOfTheRows` |
| `TeamDesk` | `TeamAssumption`: the budgets there are at the start are numbered, well formed and apart; offers, limits and charges are natural numbers; `NoOne` is neither a session nor a team | `TeamTypeCorrect`, `BudgetsApart`, `ThresholdsAnnouncedOnce` |
| `ReviewQueue` | nothing | `ReviewTypeCorrect`, `QueuedOnce`, `VerdictsAreFinal` (an action property) |
| `AuthSessions` | `AuthAssumption`: the limit of attempts is a natural number | `TypeCorrect`, `WithdrawnStayOut`, `SessionsEnd` |
| `ReportHistory` | nothing | `AnsweredReportsStand` |
| `CloudActions` | `CloudConstants`: an object in a bucket is no Azure resource | `CloudTypeCorrect`, `ContentsStay`, `ChainIsCleared` |
| `CostFetch` | `FetchConstants`: the limit of requests is a natural number; a bill has a page; no two raw rows of a bill agree in day, service and charge (the queries group by these, and an account is billed in one currency) | `FetchTypeCorrect`, `LimitHolds`, `EveryRowIsThereOnce` |
| `ReportDesk` | `MailAssumption`: what a PUT may ask for is a method, an address or none, and a period whose days are a natural number | `MailTypeCorrect`, `MailsInTime`, `FailedMailsCostNoOther` |
| `CredentialDesk` | `KeyAssumption`: there is a name, and room for one credential | `KeyTypeCorrect`, `CredentialsSayWhatTheyAre` |
| `ServiceLine` | `LineAssumption`: lines are sets of the twelve services, a CDN of Google comes with its bucket, of the Azure services that delete by name alone a line has one at most (what happens when it has two is the run `wrong_resource`), there is a name and a region | `LineTyped`, `RowsAndResourcesMatch`, `PasswordsStayInTheRun` |
| `CostLedger` | `LedgerAssumption`: an account has a bill and a currency, windows are pairs of integers, the calendar reaches the last day. `ChargeAssumption`: a provider bills finitely many charges a day, none before day 0, and usage is not negative. `BudgetAssumption`: finitely many budgets told apart by their ids, limits are positive, and the calendar reaches the end of every period. The modules it extends add that a configured minimal jump is positive and the accounts are finitely many | `LedgerInductive`, `LedgerTyped`, `AnswersHonest`, `BudgetsHonest`, `JumpsAreReal`, `AnswersAgree` |

Each module of proofs defines a strengthening `IInv` (for `ProvisioningJobs` in
`ProvisioningJobsInvariant`, where `race` checks it; in `DeskProofs` they are `HistoryInv`,
`CloudInv`, `FetchInv`, `MailInv`, `KeyInv`, `ReviewInv` and `TeamInv`, in `InventoryProofs` `IInv` and
`LineInv`, in `CostLedgerProofs` `LedgerInv` and `AlertInv`), proves it inductive with one lemma per
action or actor, and derives the properties.
What the strengthenings say, and why the properties alone do not carry themselves:

* **ProvisioningJobs.** "One apply per key" needs that one row holds a key (the unique constraint)
  and that one row applies once, which depends on the stage of its task (`CloudFollowsTask`) and on a
  task being scheduled once (`CreatorsHoldFreshJobs`). "Settled once" needs that only the last step
  tells (`ToldAtTheEnd`), the cancels that a flag waits for its task (`FlagWaitsForTask`) and the order
  of the stamps (`StampsInOrder`).
* **The refinement.** `PInv` adds what the promise's phases rest on: before `applying` nothing was made
  (`NothingMadeYet`), a job that succeeded was told so (`SuccessWasTold`), a demo job stays one
  (`DemoStaysDemo`). Each step of the service moves the phase or what was told of at most one job, as
  `JobPromise` allows, or stutters (`OneJobMoves`, `NobodyMoves`); a crash and a deleted credential move
  several rows and are shown to map to the promise's own steps for a set of jobs.
* **SyncJobs.** `JobInv` relates the items, the task's `todo`, its stage and the status of the row; with
  `CreatorsHoldFreshJobs` (one task per job) and `CancellersKnowTheirJob` (a cancel acts on the job it
  read) it gives the verdict and the cancel.
* **Inventory.** `TableInv` says what a row may be, `ViewInv` what a visit, a builder or a delete request
  knows of it still holds or has been overtaken: the copies are older than the table, and only
  deletions and inserts may have happened since.
* **CostIngestion.** A run that deletes or inserts holds the lock, and the rows of its range are those
  of the last run that stored or none (`Deleting`); a run that has not told its user still has to, or
  was closed by a daily visit (`Telling`); a run that stored has ended (`StoredHaveEnded`). The rank of
  a new run is above every other: `LeastNumber`, a least element by well-foundedness of the natural
  numbers, gives the latest of finitely many runs without an induction theorem. For the basis of a day,
  `Ordering` adds that a stamp taken under the lock is above those of all that stored (`StampAhead`) and
  that the runs that succeeded are those that stored (`SuccessIsStored`); both hold until a visit closes a
  run that another task is working on. Then three facts about the operators carry the property: there is
  one list of the stored runs in the order of their finish times, and it is that of their commits
  (`OrderIsUnique`, `ReadersSeeCommits`); the fold over that list leaves of a day what the last run that
  reaches it wrote (`LastRunDecides`: the function the library defines by recursion is the one in closed
  form, or a smallest set of runs would tell them apart); and that run is the one whose rows the day has
  (`RowsOfADay`).
* **TeamDesk.** A session that has read what it decides on holds the lock, or wrote no custom budget and
  none of the chain but under the unique index; what it is about to put fits the committed budgets
  (`PutsFit`), its ids and thresholds are nobody else's (`WorkIsApart`, `KeysAreNew`), and the copy a
  PATCH holds still names the row it was read from, whose start never changes (`CopiesKnowRows`).
* **ReviewQueue.** Uncommitted items are of keys nobody has committed or inserted (`OwnRows`,
  `RowsApart`: the wait on the unique key), and the copy of a PATCH passed the table's check when it was
  read (`CopiesKeep`): the columns it did not change, put on a row resolved since, fail the check.
* **AuthSessions.** What a request noted when it read stays true until its commit: its user had not
  withdrawn when it began, the tokens it means to revoke are that user's, and new tokens have new ids
  (`RequestFits`). Every step keeps id, owner and revocation of every token (`TablesGrow`), so a session
  that was ended stays ended.

* **ReportHistory.** What a request noted as answered when it began stays answered, and one that is about
  to write has not been: so the row it leaves is of none that an answered request began after.
* **CloudActions.** What a request holds of a resource is of the kind its place in the code goes with
  (`PlaceTellsKind`); what a request that had no mishap has sent for of a load balancer is gone or stands
  behind a failed operation, but for the last part while its operation runs (`ClearsInOrder`); and as long as
  the rule's own operation did not fail, one request alone takes the parts down (`OneChain`).
* **CostFetch.** The rows read lie between those of the pages before the link the fetch is at and those up
  to it (`ReadInOrder`): a link that leads back can repeat rows, not leave any out unnoticed; and two
  entries of one key are one, or those of a first page of Azure's that was read again (`NotTwice`). Calls stay
  within the limit at every stage (`WithinLimit`), and an error makes the result partial (`Answered`).
* **ReportDesk.** A row, and any copy of it the loop still goes by, knows of every recorded mail
  (`RowsRemember`): a PUT leaves `lastSent` alone and an id is never given again (`IdsAreSpent`), so a
  stale copy can be wrong about the address and the period, never about the last mail. Mails carry the
  time of their visit, and visits follow each other (`VisitsInOrder`). That a failing mail costs no other
  user theirs (`OnlyAGoneRowEndsIt`) needs no history: the row the handler reads is there or was deleted.
* **CredentialDesk.** Between its read and its commit a request differs from its copy only in what it
  is about: a secret with its verdict, a verdict after asking, the tags alone
  (`ChangesInOrder`); written on the row it was copied from, these are again in order, and on any other
  row the credential counts as `overwritten`. A row that is inserted and not committed differs in id and
  name from every other (`InsertedApart`), since inserts and renames wait for each other's keys.
* **ServiceLine.** `LineInv` says of a row that it carries the key `Attrs` gives the resource it was last
  built or seen for (`RowFits`) and that of one key there is one row (`RowsFit`): a second writer finds the
  row of the first, since both derive the key from the resource alone. That an action on the row reaches
  that resource and no other is then a fact about `Effect` and `Reached`, service by service, where the
  names of two resources differ or their services do. The password needs no history: each of the twelve
  records blots out of messages what it declares sensitive (`KeepsSecrets`), and a job runs on the
  request that was sent, which `Derives` accepted, not on the stored one.
* **CostLedger.** `LedgerInv`: of each account and day, the rows are exactly what the last successful run
  whose window has the day was told on that run's day (`DayFits`), no row where no such run is; a run
  is of an account whose collection is enabled, its window has a day in it, and a success carries the
  basis of its provider (`RunFits`). The properties alone do not
  carry themselves, since an answer looks at runs and rows apart: coverage is derived from runs, amounts
  from rows. From it a day collected once it was over is stored as it was billed, so that a sum of rows is
  a sum of charges (`ForecastIsHonest`, `ComparisonIsHonest`, the ratio of a budget, the baseline of a
  jump). `AlertInv` adds the announced thresholds: what is stored of usage is never more than was billed,
  and what was billed through today only grows, so a threshold reached when it was announced stays reached. `ReadersAgree` is about regrouping: the same rows split by
  service, category, account, provider, day, week or month (`TotalSplit`), the largest buckets listed
  and the others summed (`LargestExist`).
* **Sums.** The library's sum is a CHOOSE of a function defined by recursion over sets, and its induction
  theorems cannot be used here. `CostLemmas` shows that such a function exists and is one (of the sets on
  which two would differ a smallest is taken: `AddingExists`, `FoldIsTotal`), and that a sum splits along
  any partition of its set in the same way.

Four definitions were wrong, and a proof step that would not go through showed it. `PhaseOf` and
`ToldOf` had overlapping guards for a job that does not exist; `Close` of `TeamDesk` left what a
rolled-back session had written in its record, which kept others waiting for a row for ever; the loop
of `ReportDesk` could go on to a row after it had ended (`Reaches` now asks that it runs);
`ManualRun` of `CostLedger` took an empty window, which `create_cost_ingestion_runs` refuses. They are
corrected. Elsewhere a filtered or sorted sequence became a set that says the same and can be reasoned
about: `LastStored` of `CostIngestion`, `RunsOf` of `CostGates`, `Shares` of `CostQueries` (a set of the
largest buckets; which of two equal ones is listed is open, as no reader may rely on it).

Only model-checked: liveness (`JobsSettle`, `SyncsSettle`, `CollectionsSettle`), which is out
of reach of the prover, as is ENABLED; and `DeskTypeOK`, the conjunction of the type invariants of ten
parts, each of which is proved for the specification of its own module.

The leaves of the proofs are kept small: each module is also proved by `tlapm --stretch 0.1`, a tenth of the
usual time, so that a slower machine finds the same proofs.

## 5. Plan

Every invariant and action property of the runs but `DeskTypeOK` has its theorem. What could be added, in this order: the
unique budget record as a refinement of an abstract "announce once" (as `JobPromise` is for the jobs); the
collections of `CostLedger` as an abstraction of those of `CostIngestion`, so that the basis of the answers
is carried from one to the other by proof.

`SyncJobs`, `Inventory` and `ProvisioningJobs` meet in the table `resources`: `EndItem` of the first
stands for a visit of the second, `FinishJob` of the third for its `StoreBuilt`. `CostIngestion` and
`CostLedger` meet in `cost_ingestion_runs`: a collection of the second is a run of the first.

## 6. Where the code and its documents differ

Shown by a run:

* `terminal`: a cancel committed between the task's read and its commit of `running` is
  overwritten, and a cancel that read an older status overwrites a finished job, although the
  specification says a final status is final.
* `deleted`: a credential can be deleted between the check for active jobs and the delete, while a
  job that names it is inserted.
* `sync_undone`: a sync job cancelled while pending runs all the same.
* `inventory_hidden`: a resource deleted here and created again under its name stays hidden.
* `costs_stuck`: a statement that fails in the database leaves the session active, so
  `finalize_interrupted_run` expunges instead of rolling back, fails in the aborted transaction, and
  the run it was to close stays running.
* `mail_loop`: when a mail fails, the handler reads a row its user may have deleted; that raises, and the
  loop that "must not stop" ends. `FailedMailsCostNoOther` proves that nothing else ends it.
* `auth_type`: a PATCH of the tags alone overturns the `auth_type` that "user input must not overturn".
* `wrong_resource`: the deletion of an Azure resource that is no VM compares the name and not the
  service, and may delete another service's resource of that name.

Seen while modelling, without a run of their own:

* Two simultaneous identical creation requests: the loser of the unique constraint is answered with a
  server error and not with the existing job (`InsertFails`; API specification, 2.5).
* Two simultaneous sync requests give one user two sync jobs (`InsertSync`; API specification, 9.2).
* The names `mcp{name}{job_id}` of storage accounts are cut to 24 characters, so that two jobs of a
  long name may ask for the same one (`NameOf`).
* A Compute Engine VM built again under its name in another zone keeps the row, and the zone, of the
  old one until the next sync (`WithBuilt`; `kept` excludes it from `RowsFindTheirResource`).
* Two resources of one key that has no row yet make the flush raise, and with it every synchronisation of
  the account until one of them goes or gets a row (`SyncCollides`; `sync_jobs.py:187-228`, the session is made
  with `autoflush=False`). No document speaks of them.
* A daily visit that raises beside another run takes the account's active run for its own. When that one is
  closed before it is read again, `finalize_interrupted_run` returns and the visit's own run stays running
  (`RereadStuck`; `ingest.py:94-96`, `scheduler.py:165-167`), although the comment at `scheduler.py:164` says
  why it must not.
* The docstrings of the reports (`reports.py:151-153`, `models.py:735-736` and the comment at 762) say that a
  second generation updates `generated_at` alone; the statement updates the figures and the summary too, as
  line 743 of the models says. `AnsweredReportStands` would not hold if they were right (it is its mutant).
  "The latest time" of the same docstring is the time of the generation that ends last: one that began
  earlier may replace a newer.
* A session that a refresh commits between a reset's look and its commit goes on, although the comment at
  `auth.py:502` says that all existing sessions are ended. Two refreshes with one token may both succeed.
* The comment at `gcp.py:239-240` says the rule is deleted by then; an operation that is DONE with an error,
  and one that outlasts 90 seconds, are passed for done, and the request is answered as successful.
* A link of Azure's answers that leads back to the first page brings its rows twice, and the unique
  `source_record_key` then refuses the whole collection (`EveryRowOnce` names the case).
* A verification that overlaps the replacement of its secret commits its verdict on the new one
  (`credentials.py:740`; `overwritten`).

## 7. Not modelled

HTTP parsing and validation details, wording and translation, encryption of payloads, the values
of terraform variables and outputs, and the providers' own behaviour beyond "may fail, may
omit, may have done it all the same". Price tables and the comparison of prices are decimals over
downloaded tables, without control to check. Seeds and mock data write samples once. The session cache
of delegated roles (`providers/session.py`), the order of credentials in their list, security groups
(one call to the provider each), marking notifications read, the AI agent, client logs, metrics and
logging, and the migrations are left out. One process is assumed, as the deployment
guide does (`docs/EC2_Deployment_Guide.md`); with a second API process the flags and the
init lock would not be shared, and the properties about them would not hold. Where a module follows
one user, account or team, others have rows of their own that no action here touches.
