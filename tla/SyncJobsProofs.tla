--------------------------- MODULE SyncJobsProofs ---------------------------
(***************************************************************************)
(* Safety of SyncJobs for every set of jobs and accounts, any number of    *)
(* threads and any number of faults. Neither property of a run is          *)
(* inductive: both depend on where the background task is, and on the fact *)
(* that only one thread can ever schedule it.                              *)
(***************************************************************************)
EXTENDS SyncJobs, TLAPS

InLoop  == {"looping", "beginning", "processing"}
Unbegun == {"none", "scheduled"}

Told(j) == notified[j]["succeeded"] + notified[j]["failed"]

StatusesOf(j) == {items[j][a] : a \in ItemsOf(j)}

(* A request thread past its commit is the only one that will schedule the *)
(* task of its job, and nobody has scheduled it yet.                       *)
CreatorsHoldFreshJobs ==
    /\ \A h \in Creators :
          /\ creator[h].pc = "inserting" => creator[h].accounts # {}
          /\ creator[h].pc = "committed" =>
                /\ creator[h].job \in Jobs
                /\ jobs[creator[h].job] # "absent"
                /\ worker[creator[h].job].pc = "none"
    /\ \A g, h \in Creators :
          (/\ creator[g].pc = "committed" /\ creator[h].pc = "committed"
           /\ creator[g].job = creator[h].job) => g = h

(* Who is about to write a row has found it stored before; who is about to *)
(* set a flag has seen the task at work.                                   *)
CancellersKnowTheirJob ==
    \A h \in Cancellers :
        /\ canceller[h].pc \in {"saw_pending", "saw_running"} =>
              /\ canceller[h].job \in Jobs
              /\ jobs[canceller[h].job] # "absent"
        /\ canceller[h].pc = "saw_running" =>
              worker[canceller[h].job].pc \notin Unbegun

(* The row against the stage of its task: a job is stored with items and   *)
(* before it is scheduled, and says running only after its task began.     *)
RowFollowsTask(j) ==
    /\ jobs[j] = "absent" => worker[j].pc = "none"
    /\ jobs[j] # "absent" => ItemsOf(j) # {}
    /\ jobs[j] = "running" => worker[j].pc \notin Unbegun

(* What the loop has dealt with is finished, or was cancelled because the  *)
(* flag is up; what it still has to do are items of its job.               *)
LoopDealsWithItems(j) ==
    /\ worker[j].pc \in InLoop \union {"reporting"} =>
          /\ worker[j].todo \subseteq ItemsOf(j)
          /\ \A a \in ItemsOf(j) \ worker[j].todo :
                \/ items[j][a] \in {"success", "failed"}
                \/ worker[j].pc \in InLoop /\ j \in cancelRequested
                \/ worker[j].pc = "reporting" /\ worker[j].cancelled
    /\ worker[j].pc \in {"beginning", "processing"} =>
          worker[j].account \in worker[j].todo
    /\ worker[j].pc = "reporting" => worker[j].todo = {}

(* Only the last step of a task settles the job and notifies, once.        *)
ToldAtTheEnd(j) ==
    /\ worker[j].pc # "ended" =>
          settled[j] = "none" /\ Told(j) = 0
    /\ worker[j].pc = "ended" /\ worker[j].cancelled =>
          settled[j] = "cancelled" /\ Told(j) = 0
    /\ worker[j].pc = "ended" /\ ~worker[j].cancelled =>
          /\ Told(j) = 1
          /\ settled[j] \in {"success", "partial_success", "failed"}
          /\ StatusesOf(j) # {}
          /\ StatusesOf(j) \subseteq {"success", "failed"}
          /\ settled[j] = "success" <=> StatusesOf(j) = {"success"}
          /\ settled[j] = "failed" <=> StatusesOf(j) = {"failed"}
          /\ notified[j]["failed"] = 1 <=> StatusesOf(j) = {"failed"}

(* A flag set while the loop runs stays up until the loop is over, and is  *)
(* then remembered by the task.                                            *)
FlagWaitsForLoop(j) ==
    /\ worker[j].pc \in Unbegun => flaggedAt[j] = "none"
    /\ worker[j].pc \in Unbegun => j \notin cancelRequested
    /\ worker[j].pc \in InLoop =>
          /\ flaggedAt[j] \in InLoop \union {"none"}
          /\ j \in cancelRequested <=> flaggedAt[j] # "none"
    /\ (flaggedAt[j] \in InLoop /\ worker[j].pc \in {"reporting", "ended"})
          => worker[j].cancelled

(* A task about to begin an item has looked at the flag on its way there,  *)
(* and looks again before the next one.                                    *)
LateItemWasDue(j) ==
    /\ worker[j].pc = "beginning" =>
          flaggedAt[j] \in {"none", "beginning"} /\ lateItems[j] = 0
    /\ flaggedAt[j] # "beginning" => lateItems[j] = 0
    /\ lateItems[j] <= 1

JobInv(j) ==
    /\ RowFollowsTask(j)
    /\ LoopDealsWithItems(j)
    /\ ToldAtTheEnd(j)
    /\ FlagWaitsForLoop(j)
    /\ LateItemWasDue(j)

(* The strengthening: inductive, and it implies both invariants.           *)
IInv ==
    /\ SyncTypeOK
    /\ CreatorsHoldFreshJobs
    /\ CancellersKnowTheirJob
    /\ \A j \in Jobs : JobInv(j)

-----------------------------------------------------------------------------
(***************************************************************************)
(* Types                                                                   *)
(***************************************************************************)

(* The verdict of a finished run is a final or an active status.           *)
LEMMA VerdictIsStatus ==
  ASSUME NEW S PROVE AggregateStatus(S) \in SyncActive \union Terminal
BY DEF AggregateStatus, SyncActive, Terminal

(* What an update of one item, of one task and of one thread leaves.       *)
LEMMA ItemUpdates ==
  ASSUME NEW f \in [Jobs -> [Accounts -> ItemStatus]],
         NEW j \in Jobs, NEW a \in Accounts, NEW s \in ItemStatus,
         NEW g, g = [f EXCEPT ![j][a] = s]
  PROVE  /\ g \in [Jobs -> [Accounts -> ItemStatus]]
         /\ g[j][a] = s
         /\ \A b \in Accounts \ {a} : g[j][b] = f[j][b]
         /\ \A i \in Jobs \ {j} : g[i] = f[i]
<1>1. f[j] \in [Accounts -> ItemStatus]
  OBVIOUS
<1>2. g = [f EXCEPT ![j] = [f[j] EXCEPT ![a] = s]]
  OBVIOUS
<1>3. [f[j] EXCEPT ![a] = s] \in [Accounts -> ItemStatus]
  BY <1>1
<1>4. g[j] = [f[j] EXCEPT ![a] = s]
  BY <1>2
<1>5. QED
  BY <1>1, <1>2, <1>3, <1>4

(* The end of the loop leaves what the last look at the flag said.         *)
LEMMA TaskCloses ==
  ASSUME worker \in [Jobs -> Worker], NEW j \in Jobs, CloseLoop(j)
  PROVE  /\ worker' \in [Jobs -> Worker]
         /\ worker'[j].pc = "reporting"
         /\ worker'[j].cancelled <=> j \in cancelRequested
         /\ worker'[j].todo = {}
         /\ \A i \in Jobs \ {j} : worker'[i] = worker[i]
<1>1. ASSUME NEW c \in BOOLEAN
      PROVE  LET w == [worker[j] EXCEPT !.pc = "reporting", !.cancelled = c]
             IN /\ w \in Worker /\ w.pc = "reporting" /\ w.cancelled = c
                /\ w.todo = worker[j].todo
  BY DEF Worker, Stages
<1>2. worker[j].todo = {}
  BY DEF CloseLoop
<1>3. CASE j \in cancelRequested
  <2>1. worker' = [worker EXCEPT ![j] =
           [worker[j] EXCEPT !.pc = "reporting", !.cancelled = TRUE]]
    <3>1. (j \in cancelRequested) = TRUE
      BY <1>3
    <3>2. QED
      BY <3>1, Zenon DEF CloseLoop
  <2>2. QED
    BY <1>1, <1>2, <1>3, <2>1
<1>4. CASE j \notin cancelRequested
  <2>1. worker' = [worker EXCEPT ![j] =
           [worker[j] EXCEPT !.pc = "reporting", !.cancelled = FALSE]]
    <3>1. (j \in cancelRequested) = FALSE
      BY <1>4
    <3>2. QED
      BY <3>1, Zenon DEF CloseLoop
  <2>2. QED
    BY <1>1, <1>2, <1>4, <2>1
<1>5. QED
  BY <1>3, <1>4

Creator == [pc: {"idle", "inserting", "committed", "done"},
            accounts: SUBSET Accounts, job: Jobs \union {NoJob}]

Canceller == [pc: {"idle", "saw_pending", "saw_running", "done"},
              job: Jobs \union {NoJob}]

(* The steps of a task keep the types.                                     *)
LEMMA WorkerTypeOK ==
  ASSUME SyncTypeOK, NEW j \in Jobs, WorkerStep(j)
  PROVE  SyncTypeOK'
<1>1. worker[j] \in Worker /\ worker \in [Jobs -> Worker]
  BY DEF SyncTypeOK
<1>2. CASE StartSync(j)
  BY <1>1, <1>2 DEF StartSync, SyncTypeOK, Worker, Stages, SyncActive,
                    Terminal,
                    ItemsOf, tables, history
<1>3. CASE NextItem(j)
  <2>1. PICK a \in worker[j].todo :
          IF j \in cancelRequested
          THEN /\ items' = [items EXCEPT ![j][a] = "cancelled"]
               /\ worker' = [worker EXCEPT ![j].todo = @ \ {a}]
          ELSE /\ worker' = [worker EXCEPT ![j].pc = "beginning",
                                           ![j].account = a]
               /\ UNCHANGED items
    BY <1>3 DEF NextItem
  <2>2. a \in Accounts /\ worker[j].todo \ {a} \subseteq Accounts
    BY <1>1 DEF Worker
  <2>3. items' \in [Jobs -> [Accounts -> ItemStatus]]
    <3>1. CASE j \in cancelRequested
      <4>1. /\ items' = [items EXCEPT ![j][a] = "cancelled"]
            /\ items \in [Jobs -> [Accounts -> ItemStatus]]
        BY <2>1, <3>1 DEF SyncTypeOK
      <4>2. "cancelled" \in ItemStatus
        BY DEF ItemStatus
      <4>3. QED
        BY <2>2, <4>1, <4>2, ItemUpdates
    <3>2. CASE j \notin cancelRequested
      BY <2>1, <3>2 DEF SyncTypeOK
    <3>3. QED
      BY <3>1, <3>2
  <2>4. worker' \in [Jobs -> Worker]
    BY <1>1, <2>1, <2>2 DEF Worker, Stages
  <2>5. QED
    BY <1>3, <2>3, <2>4 DEF NextItem, SyncTypeOK, history
<1>4. CASE BeginItem(j)
  <2>1. worker' \in [Jobs -> Worker]
    BY <1>1, <1>4 DEF BeginItem, Worker, Stages
  <2>2. items' \in [Jobs -> [Accounts -> ItemStatus]]
    BY <1>4 DEF BeginItem, SyncTypeOK, ItemStatus
  <2>3. lateItems' \in [Jobs -> Nat]
    BY <1>4 DEF BeginItem, SyncTypeOK
  <2>4. QED
    BY <1>4, <2>1, <2>2, <2>3 DEF BeginItem, SyncTypeOK
<1>5. CASE EndItem(j)
  <2>1. worker' \in [Jobs -> Worker]
    BY <1>1, <1>5 DEF EndItem, Worker, Stages
  <2>2. items' \in [Jobs -> [Accounts -> ItemStatus]]
    <3>1. PICK result \in {"success", "failed"} :
            items' = [items EXCEPT ![j][worker[j].account] = result]
      BY <1>5 DEF EndItem
    <3>2. items \in [Jobs -> [Accounts -> ItemStatus]]
      BY DEF SyncTypeOK
    <3>3. result \in ItemStatus
      BY DEF ItemStatus
    <3>4. CASE worker[j].account \in Accounts
      BY <3>1, <3>2, <3>3, <3>4, ItemUpdates
    <3>5. CASE worker[j].account \notin Accounts
      BY <3>1, <3>2, <3>5
    <3>6. QED
      BY <3>4, <3>5
  <2>3. QED
    BY <1>5, <2>1, <2>2 DEF EndItem, SyncTypeOK, history
<1>6. CASE CloseLoop(j)
  <2>1. worker' \in [Jobs -> Worker]
    BY <1>1, <1>6, TaskCloses
  <2>2. QED
    BY <1>6, <2>1 DEF CloseLoop, SyncTypeOK, history, tables
<1>7. CASE CommitVerdict(j)
  <2> DEFINE verdict == IF worker[j].cancelled THEN "cancelled"
                        ELSE AggregateStatus({items[j][a] : a \in ItemsOf(j)})
             kind == IF verdict = "failed" THEN "failed" ELSE "succeeded"
  <2>1. worker' \in [Jobs -> Worker]
    BY <1>1, <1>7 DEF CommitVerdict, Worker, Stages
  <2>2. verdict \in SyncActive \union Terminal
    BY VerdictIsStatus DEF Terminal
  <2>3. /\ jobs' = [jobs EXCEPT ![j] = verdict]
        /\ settled' = [settled EXCEPT ![j] = verdict]
    BY <1>7 DEF CommitVerdict
  <2>4. notified' = [notified EXCEPT ![j][kind] =
                          IF worker[j].cancelled THEN @ ELSE @ + 1]
    BY <1>7 DEF CommitVerdict
  <2>5. kind \in {"succeeded", "failed"}
    OBVIOUS
  <2> HIDE DEF verdict, kind
  <2>6. notified' \in [Jobs -> [{"succeeded", "failed"} -> Nat]]
    BY <2>4, <2>5 DEF SyncTypeOK
  <2>7. QED
    BY <1>7, <2>1, <2>2, <2>3, <2>6 DEF CommitVerdict, SyncTypeOK
<1>8. QED
  BY <1>2, <1>3, <1>4, <1>5, <1>6, <1>7 DEF WorkerStep

(* So does every other step.                                               *)
LEMMA ThreadTypeOK ==
  ASSUME SyncTypeOK, CancellersKnowTheirJob, [SyncNext]_syncVars,
         ~ \E j \in Jobs : WorkerStep(j)
  PROVE  SyncTypeOK'
<1> USE DEF tables, history
<1>1. ASSUME NEW h \in Creators, ReceiveSync(h) PROVE SyncTypeOK'
  <2>1. creator \in [Creators -> Creator] /\ creator[h] \in Creator
    BY DEF SyncTypeOK, Creator
  <2>2. creator' \in [Creators -> Creator]
    <3>1. CASE creator' = [creator EXCEPT ![h].pc = "done"]
      BY <2>1, <3>1 DEF Creator
    <3>2. ASSUME NEW chosen \in SUBSET Accounts,
                 creator' = [creator EXCEPT ![h].pc = "inserting",
                                            ![h].accounts = chosen]
          PROVE  creator' \in [Creators -> Creator]
      BY <2>1, <3>2 DEF Creator
    <3>3. QED
      BY <1>1, <3>1, <3>2 DEF ReceiveSync
  <2>3. QED
    BY <1>1, <2>2 DEF ReceiveSync, SyncTypeOK, Creator
<1>2. ASSUME NEW h \in Creators, InsertSync(h) PROVE SyncTypeOK'
  <2>1. PICK j \in Jobs :
          /\ jobs' = [jobs EXCEPT ![j] = "pending"]
          /\ items' = [items EXCEPT ![j] =
                [a \in Accounts |-> IF a \in creator[h].accounts
                                    THEN "pending" ELSE "none"]]
          /\ creator' = [creator EXCEPT ![h].pc = "committed", ![h].job = j]
    BY <1>2 DEF InsertSync
  <2>2. creator \in [Creators -> Creator] /\ creator[h] \in Creator
    BY DEF SyncTypeOK, Creator
  <2>3. creator' \in [Creators -> Creator]
    BY <2>1, <2>2 DEF Creator
  <2>4. [a \in Accounts |-> IF a \in creator[h].accounts
                            THEN "pending" ELSE "none"]
           \in [Accounts -> ItemStatus]
    BY DEF ItemStatus
  <2>5. items' \in [Jobs -> [Accounts -> ItemStatus]]
    BY <2>1, <2>4 DEF SyncTypeOK
  <2>6. jobs' \in [Jobs -> {"absent"} \union SyncActive \union Terminal]
    BY <2>1 DEF SyncTypeOK, SyncActive
  <2>7. QED
    BY <1>2, <2>3, <2>5, <2>6 DEF InsertSync, SyncTypeOK, Creator
<1>3. ASSUME NEW h \in Creators, ScheduleSync(h) PROVE SyncTypeOK'
  <2>1. worker' \in [Jobs -> Worker]
    <3>1. worker' = [worker EXCEPT ![creator[h].job].pc = "scheduled"]
      BY <1>3 DEF ScheduleSync
    <3>2. CASE creator[h].job \in Jobs
      <4>1. worker[creator[h].job] \in Worker
        BY <3>2 DEF SyncTypeOK
      <4>2. QED
        BY <3>1, <3>2, <4>1 DEF SyncTypeOK, Worker, Stages
    <3>3. CASE creator[h].job \notin Jobs
      BY <3>1, <3>3 DEF SyncTypeOK
    <3>4. QED
      BY <3>2, <3>3
  <2>2. creator' \in [Creators ->
          [pc: {"idle", "inserting", "committed", "done"},
           accounts: SUBSET Accounts, job: Jobs \union {NoJob}]]
    <3>1. creator \in [Creators -> Creator] /\ creator[h] \in Creator
      BY DEF SyncTypeOK, Creator
    <3>2. creator' = [creator EXCEPT ![h].pc = "done"]
      BY <1>3 DEF ScheduleSync
    <3>3. [creator[h] EXCEPT !.pc = "done"] \in Creator
      BY <3>1 DEF Creator
    <3>4. creator' \in [Creators -> Creator]
      BY <3>1, <3>2, <3>3
    <3>5. QED
      BY <3>4 DEF Creator
  <2>3. QED
    BY <1>3, <2>1, <2>2 DEF ScheduleSync, SyncTypeOK
<1>4. ASSUME NEW j \in Jobs, SyncRaises(j) PROVE SyncTypeOK'
  <2>1. worker[j] \in Worker
    BY DEF SyncTypeOK
  <2>2. worker' \in [Jobs -> Worker]
    BY <1>4, <2>1 DEF SyncRaises, SyncTypeOK, Worker, Stages
  <2>3. QED
    BY <1>4, <2>2 DEF SyncRaises, SyncTypeOK
<1>5. ASSUME NEW h \in Cancellers, NEW j \in Jobs, ReceiveSyncCancel(h, j)
      PROVE SyncTypeOK'
  <2>1. canceller' \in [Cancellers ->
          [pc: {"idle", "saw_pending", "saw_running", "done"},
           job: Jobs \union {NoJob}]]
    BY <1>5 DEF ReceiveSyncCancel, SyncTypeOK
  <2>2. QED
    BY <1>5, <2>1 DEF ReceiveSyncCancel, SyncTypeOK
<1>6. ASSUME NEW h \in Cancellers, CommitSyncCancel(h) PROVE SyncTypeOK'
  <2> DEFINE j == canceller[h].job
  <2>0. items \in [Jobs -> [Accounts -> ItemStatus]]
    BY DEF SyncTypeOK
  <2>1. items' \in [Jobs -> [Accounts -> ItemStatus]]
    <3>1. items' = [items EXCEPT ![j] =
            [a \in Accounts |->
               IF items[j][a] = "pending" THEN "cancelled" ELSE items[j][a]]]
      BY <1>6, <2>0 DEF CommitSyncCancel
    <3>2. CASE j \in Jobs
      <4>1. [a \in Accounts |->
               IF items[j][a] = "pending" THEN "cancelled" ELSE items[j][a]]
              \in [Accounts -> ItemStatus]
        BY <2>0, <3>2 DEF ItemStatus
      <4>2. QED
        BY <2>0, <3>1, <3>2, <4>1
    <3>3. CASE j \notin Jobs
      BY <2>0, <3>1, <3>3
    <3>4. QED
      BY <3>2, <3>3
  <2>2. jobs' \in [Jobs -> {"absent"} \union SyncActive \union Terminal]
    BY <1>6 DEF CommitSyncCancel, SyncTypeOK, Terminal
  <2>3. canceller' \in [Cancellers ->
          [pc: {"idle", "saw_pending", "saw_running", "done"},
           job: Jobs \union {NoJob}]]
    BY <1>6 DEF CommitSyncCancel, SyncTypeOK
  <2>4. QED
    BY <1>6, <2>1, <2>2, <2>3 DEF CommitSyncCancel, SyncTypeOK
<1>7. ASSUME NEW h \in Cancellers, FlagSyncCancel(h) PROVE SyncTypeOK'
  <2>1. canceller[h].job \in Jobs
    BY <1>7 DEF FlagSyncCancel, CancellersKnowTheirJob
  <2>2. worker[canceller[h].job].pc \in Stages
    BY <2>1 DEF SyncTypeOK, Worker
  <2>3. canceller' \in [Cancellers -> Canceller]
    BY <1>7 DEF FlagSyncCancel, SyncTypeOK, Canceller
  <2>4. flaggedAt' \in [Jobs -> Stages]
    BY <1>7, <2>1, <2>2 DEF FlagSyncCancel, SyncTypeOK
  <2>5. QED
    BY <1>7, <2>1, <2>3, <2>4 DEF FlagSyncCancel, SyncTypeOK, Canceller
<1>8. CASE SyncCrash
  <2>1. worker' \in [Jobs -> Worker]
    <3>1. ASSUME NEW j \in Jobs PROVE worker'[j] \in Worker
      <4>1. worker[j] \in Worker
        BY DEF SyncTypeOK
      <4>2. QED
        BY <1>8, <4>1 DEF SyncCrash, Worker, Stages
    <3>2. QED
      BY <1>8, <3>1 DEF SyncCrash
  <2>2. creator' \in [Creators -> Creator]
    <3>1. ASSUME NEW h \in Creators PROVE creator'[h] \in Creator
      <4>1. creator[h] \in Creator
        BY DEF SyncTypeOK, Creator
      <4>2. creator'[h] \in {creator[h], [creator[h] EXCEPT !.pc = "done"]}
        BY <1>8 DEF SyncCrash
      <4>3. QED
        BY <4>1, <4>2 DEF Creator
    <3>2. QED
      BY <1>8, <3>1 DEF SyncCrash
  <2>3. canceller' \in [Cancellers -> Canceller]
    <3>1. ASSUME NEW h \in Cancellers PROVE canceller'[h] \in Canceller
      BY <1>8 DEF SyncCrash, SyncTypeOK, Canceller
    <3>2. QED
      BY <1>8, <3>1 DEF SyncCrash
  <2>4. QED
    BY <1>8, <2>1, <2>2, <2>3 DEF SyncCrash, SyncTypeOK, Creator, Canceller
<1>9. CASE UNCHANGED syncVars
  BY <1>9 DEF syncVars, threads, SyncTypeOK
<1>10. CASE SyncNext
  <2>1. \/ \E h \in Creators : ReceiveSync(h) \/ InsertSync(h)
                                              \/ ScheduleSync(h)
        \/ \E j \in Jobs : SyncRaises(j)
        \/ \E h \in Cancellers :
              \/ \E j \in Jobs : ReceiveSyncCancel(h, j)
              \/ CommitSyncCancel(h) \/ FlagSyncCancel(h)
        \/ SyncCrash
    BY <1>10 DEF SyncNext
  <2>2. QED
    BY <2>1, <1>1, <1>2, <1>3, <1>4, <1>5, <1>6, <1>7, <1>8
<1>11. QED
  BY <1>9, <1>10

-----------------------------------------------------------------------------
(***************************************************************************)
(* The task                                                                *)
(***************************************************************************)

(* Of finished items, the aggregate says whether all, some or none of them *)
(* succeeded.                                                              *)
LEMMA AggregateIsExact ==
  ASSUME NEW S, S # {}, S \subseteq {"success", "failed"}
  PROVE  /\ AggregateStatus(S) \in {"success", "partial_success", "failed"}
         /\ AggregateStatus(S) = "success" <=> S = {"success"}
         /\ AggregateStatus(S) = "failed" <=> S = {"failed"}
<1>1. \/ S = {"success"} \/ S = {"failed"} \/ S = {"success", "failed"}
  OBVIOUS
<1>2. /\ S \cap SyncActive = {}
      /\ S # {"pending"} /\ S # {"cancelled"}
  BY <1>1 DEF SyncActive
<1>3. CASE S = {"success"}
  <2>1. AggregateStatus(S) = "success"
    BY <1>2, <1>3 DEF AggregateStatus
  <2>2. QED
    BY <1>3, <2>1
<1>4. CASE S = {"failed"}
  <2>1. AggregateStatus(S) = "failed"
    BY <1>2, <1>4 DEF AggregateStatus
  <2>2. QED
    BY <1>4, <2>1
<1>5. CASE S = {"success", "failed"}
  <2>1. AggregateStatus(S) = "partial_success"
    BY <1>2, <1>5 DEF AggregateStatus
  <2>2. QED
    BY <1>5, <2>1
<1>6. QED
  BY <1>1, <1>3, <1>4, <1>5

(* What the invariant says of a job depends on nothing but these.          *)
Untouched(i) ==
    /\ jobs'[i] = jobs[i] /\ items'[i] = items[i]
    /\ notified'[i] = notified[i] /\ settled'[i] = settled[i]
    /\ worker'[i] = worker[i]
    /\ flaggedAt'[i] = flaggedAt[i] /\ lateItems'[i] = lateItems[i]
    /\ i \in cancelRequested' <=> i \in cancelRequested

(* A job no step touches keeps its invariant.                              *)
LEMMA UntouchedKeeps ==
  ASSUME NEW j \in Jobs, JobInv(j), Untouched(j)
  PROVE  JobInv(j)'
<1>1. ItemsOf(j)' = ItemsOf(j) /\ StatusesOf(j)' = StatusesOf(j)
  BY DEF Untouched, ItemsOf, StatusesOf
<1>2. RowFollowsTask(j)'
  BY <1>1 DEF JobInv, Untouched, RowFollowsTask
<1>3. LoopDealsWithItems(j)'
  BY <1>1 DEF JobInv, Untouched, LoopDealsWithItems
<1>4. ToldAtTheEnd(j)'
  BY <1>1 DEF JobInv, Untouched, ToldAtTheEnd, Told
<1>5. FlagWaitsForLoop(j)'
  BY DEF JobInv, Untouched, FlagWaitsForLoop
<1>6. LateItemWasDue(j)'
  BY DEF JobInv, Untouched, LateItemWasDue
<1>7. QED
  BY <1>2, <1>3, <1>4, <1>5, <1>6 DEF JobInv

(* A step of the task of j leaves the threads and all other jobs alone.    *)
LEMMA TaskStepKeeps ==
  ASSUME IInv, SyncTypeOK', NEW j \in Jobs,
         \A i \in Jobs \ {j} : Untouched(i),
         JobInv(j)',
         worker[j].pc # "none", worker'[j].pc \notin Unbegun,
         jobs'[j] # "absent",
         UNCHANGED <<creator, canceller>>
  PROVE  IInv'
<1> USE DEF IInv
<1>1. \A i \in Jobs : JobInv(i)'
  BY UntouchedKeeps
<1>2. \A i \in Jobs \ {j} : jobs'[i] = jobs[i] /\ worker'[i] = worker[i]
  BY DEF Untouched
<1>3. CreatorsHoldFreshJobs'
  BY <1>2 DEF CreatorsHoldFreshJobs
<1>4. CancellersKnowTheirJob'
  BY <1>2 DEF CancellersKnowTheirJob
<1>5. QED
  BY <1>1, <1>3, <1>4

(* The types of what belongs to one job.                                   *)
LEMMA JobTypes ==
  ASSUME SyncTypeOK, NEW j \in Jobs
  PROVE  /\ worker[j] \in Worker /\ worker[j].pc \in Stages
         /\ worker[j].todo \subseteq Accounts
         /\ items[j] \in [Accounts -> ItemStatus]
         /\ lateItems[j] \in Nat
         /\ flaggedAt[j] \in Stages
         /\ notified[j]["succeeded"] \in Nat
         /\ notified[j]["failed"] \in Nat
<1>1. worker[j] \in Worker
  BY DEF SyncTypeOK
<1>2. QED
  BY <1>1 DEF SyncTypeOK, Worker

(* The start of the task.                                                  *)
LEMMA StartInv ==
  ASSUME IInv, SyncTypeOK', NEW j \in Jobs, StartSync(j) PROVE IInv'
<1>1. JobInv(j) /\ SyncTypeOK
  BY DEF IInv
<1>2. /\ worker[j].pc = "scheduled"
      /\ jobs'[j] = "running"
      /\ worker'[j].pc = "looping" /\ worker'[j].todo = ItemsOf(j)
      /\ \A i \in Jobs \ {j} : jobs'[i] = jobs[i] /\ worker'[i] = worker[i]
  BY <1>1, JobTypes DEF StartSync, SyncTypeOK, Worker
<1>3. UNCHANGED <<items, notified, cancelRequested, creator, canceller,
                  settled, flaggedAt, lateItems>>
  BY DEF StartSync, history
<1>4. ItemsOf(j)' = ItemsOf(j)
  BY <1>3 DEF ItemsOf
<1>5. JobInv(j)'
  <2>1. RowFollowsTask(j)'
    BY <1>1, <1>2, <1>4 DEF JobInv, RowFollowsTask, Unbegun
  <2>2. LoopDealsWithItems(j)'
    BY <1>2, <1>4 DEF LoopDealsWithItems
  <2>3. ToldAtTheEnd(j)'
    BY <1>1, <1>2, <1>3 DEF JobInv, ToldAtTheEnd, Told
  <2>4. FlagWaitsForLoop(j)'
    BY <1>1, <1>2, <1>3 DEF JobInv, FlagWaitsForLoop, InLoop, Unbegun
  <2>5. LateItemWasDue(j)'
    BY <1>1, <1>2, <1>3 DEF JobInv, LateItemWasDue
  <2>6. QED
    BY <2>1, <2>2, <2>3, <2>4, <2>5 DEF JobInv
<1>6. \A i \in Jobs \ {j} : Untouched(i)
  BY <1>2, <1>3 DEF Untouched
<1>7. QED
  BY <1>2, <1>3, <1>5, <1>6, TaskStepKeeps DEF Unbegun

(* The next item of the loop, with the flag up and without.                *)
LEMMA NextItemInv ==
  ASSUME IInv, SyncTypeOK', NEW j \in Jobs, NextItem(j) PROVE IInv'
<1>1. JobInv(j) /\ SyncTypeOK /\ worker[j].pc = "looping"
  BY DEF IInv, NextItem
<1>2. PICK a \in worker[j].todo :
        IF j \in cancelRequested
        THEN /\ items' = [items EXCEPT ![j][a] = "cancelled"]
             /\ worker' = [worker EXCEPT ![j].todo = @ \ {a}]
        ELSE /\ worker' = [worker EXCEPT ![j].pc = "beginning",
                                         ![j].account = a]
             /\ UNCHANGED items
  BY DEF NextItem
<1>3. UNCHANGED <<jobs, notified, cancelRequested, creator, canceller,
                  settled, flaggedAt, lateItems>>
  BY DEF NextItem, history
<1>4. a \in ItemsOf(j) /\ a \in Accounts
  BY <1>1, <1>2, JobTypes DEF JobInv, LoopDealsWithItems, InLoop
<1>5. RowFollowsTask(j) /\ jobs[j] # "absent"
  BY <1>1 DEF JobInv, RowFollowsTask
<1>6. CASE j \in cancelRequested
  <2>1. /\ worker'[j].pc = "looping"
        /\ worker'[j].todo = worker[j].todo \ {a}
        /\ \A i \in Jobs \ {j} : worker'[i] = worker[i]
    BY <1>1, <1>2, <1>6, JobTypes DEF SyncTypeOK, Worker
  <2>2. /\ items'[j][a] = "cancelled"
        /\ \A b \in Accounts \ {a} : items'[j][b] = items[j][b]
        /\ \A i \in Jobs \ {j} : items'[i] = items[i]
    <3>1. /\ items' = [items EXCEPT ![j][a] = "cancelled"]
          /\ items \in [Jobs -> [Accounts -> ItemStatus]]
      BY <1>1, <1>2, <1>6 DEF SyncTypeOK
    <3>2. "cancelled" \in ItemStatus
      BY DEF ItemStatus
    <3>3. QED
      BY <1>4, <3>1, <3>2, ItemUpdates
  <2>3. ItemsOf(j)' = ItemsOf(j)
    BY <1>4, <2>2 DEF ItemsOf
  <2>4. JobInv(j)'
    <3>1. RowFollowsTask(j)'
      BY <1>1, <1>3, <1>5, <2>1, <2>3 DEF RowFollowsTask, Unbegun
    <3>2. LoopDealsWithItems(j)'
      BY <1>1, <1>3, <1>6, <2>1, <2>3 DEF JobInv, LoopDealsWithItems, InLoop
    <3>3. ToldAtTheEnd(j)'
      BY <1>1, <1>3, <2>1 DEF JobInv, ToldAtTheEnd, Told
    <3>4. FlagWaitsForLoop(j)'
      BY <1>1, <1>3, <2>1 DEF JobInv, FlagWaitsForLoop, InLoop, Unbegun
    <3>5. LateItemWasDue(j)'
      BY <1>1, <1>3, <2>1 DEF JobInv, LateItemWasDue
    <3>6. QED
      BY <3>1, <3>2, <3>3, <3>4, <3>5 DEF JobInv
  <2>5. \A i \in Jobs \ {j} : Untouched(i)
    BY <1>3, <2>1, <2>2 DEF Untouched
  <2>6. QED
    BY <1>1, <1>3, <1>5, <2>1, <2>4, <2>5, TaskStepKeeps DEF Unbegun
<1>7. CASE j \notin cancelRequested
  <2>1. /\ worker'[j].pc = "beginning" /\ worker'[j].account = a
        /\ worker'[j].todo = worker[j].todo
        /\ \A i \in Jobs \ {j} : worker'[i] = worker[i]
    BY <1>1, <1>2, <1>7, JobTypes DEF SyncTypeOK, Worker
  <2>2. items' = items /\ ItemsOf(j)' = ItemsOf(j)
    BY <1>2, <1>7 DEF ItemsOf
  <2>3. flaggedAt[j] = "none" /\ lateItems[j] = 0
    BY <1>1, <1>7 DEF JobInv, FlagWaitsForLoop, LateItemWasDue, InLoop
  <2>4. JobInv(j)'
    <3>1. RowFollowsTask(j)'
      BY <1>1, <1>3, <1>5, <2>1, <2>2 DEF RowFollowsTask, Unbegun
    <3>2. LoopDealsWithItems(j)'
      BY <1>1, <1>3, <1>7, <2>1, <2>2 DEF JobInv, LoopDealsWithItems, InLoop
    <3>3. ToldAtTheEnd(j)'
      BY <1>1, <1>3, <2>1 DEF JobInv, ToldAtTheEnd, Told
    <3>4. FlagWaitsForLoop(j)'
      BY <1>1, <1>3, <2>1 DEF JobInv, FlagWaitsForLoop, InLoop, Unbegun
    <3>5. LateItemWasDue(j)'
      BY <1>3, <2>1, <2>3 DEF LateItemWasDue
    <3>6. QED
      BY <3>1, <3>2, <3>3, <3>4, <3>5 DEF JobInv
  <2>5. \A i \in Jobs \ {j} : Untouched(i)
    BY <1>3, <2>1, <2>2 DEF Untouched
  <2>6. QED
    BY <1>1, <1>3, <1>5, <2>1, <2>4, <2>5, TaskStepKeeps DEF Unbegun
<1>8. QED
  BY <1>6, <1>7

(* An item is begun: the item of the task's account is written, and only   *)
(* that one.                                                               *)
LEMMA BeginItemInv ==
  ASSUME IInv, SyncTypeOK', NEW j \in Jobs, BeginItem(j) PROVE IInv'
<1> DEFINE a == worker[j].account
<1>1. JobInv(j) /\ SyncTypeOK /\ worker[j].pc = "beginning"
  BY DEF IInv, BeginItem
<1>2. a \in worker[j].todo /\ a \in ItemsOf(j) /\ a \in Accounts
  BY <1>1, JobTypes DEF JobInv, LoopDealsWithItems, InLoop
<1>3. /\ items' = [items EXCEPT ![j][a] = "running"]
      /\ UNCHANGED <<jobs, notified, cancelRequested, creator, canceller,
                     settled, flaggedAt>>
  BY DEF BeginItem
<1>4. /\ items'[j][a] = "running"
      /\ \A b \in Accounts \ {a} : items'[j][b] = items[j][b]
      /\ \A i \in Jobs \ {j} : items'[i] = items[i]
  BY <1>1, <1>2, <1>3, ItemUpdates, "running" \in ItemStatus
  DEF SyncTypeOK, ItemStatus
<1>5. /\ worker'[j].pc = "processing"
      /\ worker'[j].account = a
      /\ worker'[j].todo = worker[j].todo
      /\ \A i \in Jobs \ {j} : worker'[i] = worker[i]
  BY <1>1, JobTypes DEF BeginItem, SyncTypeOK, Worker
<1>6. /\ lateItems'[j] = IF j \in cancelRequested THEN lateItems[j] + 1
                                                  ELSE lateItems[j]
      /\ \A i \in Jobs \ {j} : lateItems'[i] = lateItems[i]
  BY <1>1 DEF BeginItem, SyncTypeOK
<1>7. ItemsOf(j)' = ItemsOf(j)
  BY <1>2, <1>4 DEF ItemsOf
<1>8. RowFollowsTask(j) /\ jobs[j] # "absent"
  BY <1>1 DEF JobInv, RowFollowsTask
<1>9. JobInv(j)'
  <2>1. RowFollowsTask(j)'
    BY <1>3, <1>5, <1>7, <1>8 DEF RowFollowsTask, Unbegun
  <2>2. LoopDealsWithItems(j)'
    BY <1>1, <1>2, <1>3, <1>4, <1>5, <1>7
    DEF JobInv, LoopDealsWithItems, InLoop, ItemsOf
  <2>3. ToldAtTheEnd(j)'
    BY <1>1, <1>3, <1>5 DEF JobInv, ToldAtTheEnd, Told
  <2>4. FlagWaitsForLoop(j)'
    BY <1>1, <1>3, <1>5 DEF JobInv, FlagWaitsForLoop, InLoop, Unbegun
  <2>5. LateItemWasDue(j)'
    BY <1>1, <1>3, <1>5, <1>6
    DEF JobInv, LateItemWasDue, FlagWaitsForLoop, InLoop
  <2>6. QED
    BY <2>1, <2>2, <2>3, <2>4, <2>5 DEF JobInv
<1>10. \A i \in Jobs \ {j} : Untouched(i)
  BY <1>3, <1>4, <1>5, <1>6 DEF Untouched
<1>11. QED
  BY <1>1, <1>3, <1>5, <1>8, <1>9, <1>10, TaskStepKeeps DEF Unbegun

(* The item is finished and leaves the list.                               *)
LEMMA EndItemInv ==
  ASSUME IInv, SyncTypeOK', NEW j \in Jobs, EndItem(j) PROVE IInv'
<1> DEFINE a == worker[j].account
<1>1. JobInv(j) /\ SyncTypeOK /\ worker[j].pc = "processing"
  BY DEF IInv, EndItem
<1>2. a \in worker[j].todo /\ a \in ItemsOf(j) /\ a \in Accounts
  BY <1>1, JobTypes DEF JobInv, LoopDealsWithItems, InLoop
<1>3. PICK result \in {"success", "failed"} :
        items' = [items EXCEPT ![j][a] = result]
  BY DEF EndItem
<1>4. UNCHANGED <<jobs, notified, cancelRequested, creator, canceller,
                  settled, flaggedAt, lateItems>>
  BY DEF EndItem, history
<1>5. /\ items'[j][a] = result
      /\ \A b \in Accounts \ {a} : items'[j][b] = items[j][b]
      /\ \A i \in Jobs \ {j} : items'[i] = items[i]
  BY <1>1, <1>2, <1>3, ItemUpdates, result \in ItemStatus
  DEF SyncTypeOK, ItemStatus
<1>6. /\ worker'[j].pc = "looping"
      /\ worker'[j].todo = worker[j].todo \ {a}
      /\ \A i \in Jobs \ {j} : worker'[i] = worker[i]
  BY <1>1, JobTypes DEF EndItem, SyncTypeOK, Worker
<1>7. ItemsOf(j)' = ItemsOf(j)
  BY <1>2, <1>5 DEF ItemsOf
<1>8. RowFollowsTask(j) /\ jobs[j] # "absent"
  BY <1>1 DEF JobInv, RowFollowsTask
<1>9. JobInv(j)'
  <2>1. RowFollowsTask(j)'
    BY <1>4, <1>6, <1>7, <1>8 DEF RowFollowsTask, Unbegun
  <2>2. LoopDealsWithItems(j)'
    BY <1>1, <1>4, <1>5, <1>6, <1>7
    DEF JobInv, LoopDealsWithItems, InLoop, ItemsOf
  <2>3. ToldAtTheEnd(j)'
    BY <1>1, <1>4, <1>6 DEF JobInv, ToldAtTheEnd, Told
  <2>4. FlagWaitsForLoop(j)'
    BY <1>1, <1>4, <1>6 DEF JobInv, FlagWaitsForLoop, InLoop, Unbegun
  <2>5. LateItemWasDue(j)'
    BY <1>1, <1>4, <1>6 DEF JobInv, LateItemWasDue
  <2>6. QED
    BY <2>1, <2>2, <2>3, <2>4, <2>5 DEF JobInv
<1>10. \A i \in Jobs \ {j} : Untouched(i)
  BY <1>4, <1>5, <1>6 DEF Untouched
<1>11. QED
  BY <1>1, <1>4, <1>6, <1>8, <1>9, <1>10, TaskStepKeeps DEF Unbegun

(* The last look at the flag.                                              *)
LEMMA CloseLoopInv ==
  ASSUME IInv, SyncTypeOK', NEW j \in Jobs, CloseLoop(j) PROVE IInv'
<1>1. JobInv(j) /\ SyncTypeOK /\ worker[j].pc = "looping"
  BY DEF IInv, CloseLoop
<1>2. /\ worker'[j].pc = "reporting"
      /\ worker'[j].cancelled <=> j \in cancelRequested
      /\ worker'[j].todo = {} /\ worker[j].todo = {}
      /\ \A i \in Jobs \ {j} : worker'[i] = worker[i]
  BY <1>1, TaskCloses DEF SyncTypeOK, CloseLoop
<1>3. /\ UNCHANGED <<jobs, items, notified, creator, canceller, settled,
                     flaggedAt, lateItems>>
      /\ cancelRequested' = cancelRequested \ {j}
  BY DEF CloseLoop, tables, history
<1>4. ItemsOf(j)' = ItemsOf(j)
  BY <1>3 DEF ItemsOf
<1>5. RowFollowsTask(j) /\ jobs[j] # "absent"
  BY <1>1 DEF JobInv, RowFollowsTask
<1>6. JobInv(j)'
  <2>1. RowFollowsTask(j)'
    BY <1>2, <1>3, <1>4, <1>5 DEF RowFollowsTask, Unbegun
  <2>2. LoopDealsWithItems(j)'
    BY <1>1, <1>2, <1>3, <1>4 DEF JobInv, LoopDealsWithItems, InLoop
  <2>3. ToldAtTheEnd(j)'
    BY <1>1, <1>2, <1>3 DEF JobInv, ToldAtTheEnd, Told
  <2>4. FlagWaitsForLoop(j)'
    BY <1>1, <1>2, <1>3 DEF JobInv, FlagWaitsForLoop, InLoop, Unbegun
  <2>5. LateItemWasDue(j)'
    BY <1>1, <1>2, <1>3 DEF JobInv, LateItemWasDue
  <2>6. QED
    BY <2>1, <2>2, <2>3, <2>4, <2>5 DEF JobInv
<1>7. \A i \in Jobs \ {j} : Untouched(i)
  BY <1>2, <1>3 DEF Untouched
<1>8. QED
  BY <1>1, <1>2, <1>3, <1>5, <1>6, <1>7, TaskStepKeeps DEF Unbegun

(* The commit that ends a run.                                             *)
LEMMA CommitVerdictInv ==
  ASSUME IInv, SyncTypeOK', NEW j \in Jobs, CommitVerdict(j) PROVE IInv'
<1> DEFINE verdict == IF worker[j].cancelled THEN "cancelled"
                      ELSE AggregateStatus(StatusesOf(j))
           kind == IF verdict = "failed" THEN "failed" ELSE "succeeded"
<1>1. JobInv(j) /\ SyncTypeOK /\ worker[j].pc = "reporting"
  BY DEF IInv, CommitVerdict
<1>2. /\ jobs' = [jobs EXCEPT ![j] = verdict]
      /\ settled' = [settled EXCEPT ![j] = verdict]
      /\ notified' = [notified EXCEPT ![j][kind] =
                         IF worker[j].cancelled THEN @ ELSE @ + 1]
      /\ worker' = [worker EXCEPT ![j].pc = "ended"]
      /\ UNCHANGED <<items, cancelRequested, creator, canceller, flaggedAt,
                     lateItems>>
  BY DEF CommitVerdict, StatusesOf
<1>3. /\ worker'[j].pc = "ended"
      /\ worker'[j].cancelled = worker[j].cancelled
      /\ \A i \in Jobs \ {j} : worker'[i] = worker[i]
  BY <1>1, <1>2, JobTypes DEF SyncTypeOK, Worker
<1>4. ItemsOf(j)' = ItemsOf(j) /\ StatusesOf(j)' = StatusesOf(j)
  BY <1>2 DEF ItemsOf, StatusesOf
<1>5. /\ jobs[j] # "absent" /\ ItemsOf(j) # {}
      /\ Told(j) = 0 /\ notified[j]["failed"] = 0
      /\ notified[j]["succeeded"] = 0
  BY <1>1, JobTypes DEF JobInv, RowFollowsTask, ToldAtTheEnd, Told
<1>6. kind \in {"succeeded", "failed"}
  OBVIOUS
<1>7. CASE worker[j].cancelled
  <2>1. /\ jobs'[j] = "cancelled" /\ settled'[j] = "cancelled"
        /\ \A i \in Jobs \ {j} : jobs'[i] = jobs[i] /\ settled'[i] = settled[i]
    BY <1>1, <1>2, <1>7 DEF SyncTypeOK
  <2> HIDE DEF verdict, kind
  <2>2. notified' = notified
    BY <1>1, <1>2, <1>6, <1>7 DEF SyncTypeOK
  <2>3. ToldAtTheEnd(j)'
    BY <1>3, <1>5, <1>7, <2>1, <2>2 DEF ToldAtTheEnd, Told
  <2>4. RowFollowsTask(j)' /\ LoopDealsWithItems(j)'
    BY <1>3, <1>4, <1>5, <2>1
    DEF RowFollowsTask, LoopDealsWithItems, Unbegun, InLoop
  <2>5. FlagWaitsForLoop(j)' /\ LateItemWasDue(j)'
    BY <1>1, <1>2, <1>3
    DEF JobInv, FlagWaitsForLoop, LateItemWasDue, Unbegun, InLoop
  <2>6. \A i \in Jobs \ {j} : Untouched(i)
    BY <1>2, <1>3, <2>1, <2>2 DEF Untouched
  <2>7. JobInv(j)'
    BY <2>3, <2>4, <2>5 DEF JobInv
  <2>8. QED
    BY <1>1, <1>2, <1>3, <2>1, <2>6, <2>7, TaskStepKeeps DEF Unbegun
<1>8. CASE ~worker[j].cancelled
  <2>1. /\ StatusesOf(j) # {}
        /\ StatusesOf(j) \subseteq {"success", "failed"}
    <3>1. \A a \in ItemsOf(j) : items[j][a] \in {"success", "failed"}
      BY <1>1, <1>8 DEF JobInv, LoopDealsWithItems, InLoop
    <3>2. QED
      BY <1>5, <3>1 DEF StatusesOf
  <2>2. /\ verdict = AggregateStatus(StatusesOf(j))
        /\ verdict \in {"success", "partial_success", "failed"}
        /\ verdict = "success" <=> StatusesOf(j) = {"success"}
        /\ verdict = "failed" <=> StatusesOf(j) = {"failed"}
        /\ kind = "failed" <=> StatusesOf(j) = {"failed"}
    BY <1>8, <2>1, AggregateIsExact
  <2> HIDE DEF verdict, kind
  <2>3. /\ jobs'[j] = verdict /\ settled'[j] = verdict
        /\ \A i \in Jobs \ {j} : jobs'[i] = jobs[i] /\ settled'[i] = settled[i]
    BY <1>1, <1>2 DEF SyncTypeOK
  <2>4. /\ notified'[j][kind] = 1
        /\ \A k \in {"succeeded", "failed"} \ {kind} : notified'[j][k] = 0
        /\ \A i \in Jobs \ {j} : notified'[i] = notified[i]
    BY <1>1, <1>2, <1>5, <1>6, <1>8 DEF SyncTypeOK
  <2>5. Told(j)' = 1
    <3>1. CASE kind = "failed"
      BY <2>4, <3>1 DEF Told
    <3>2. CASE kind = "succeeded"
      BY <2>4, <3>2 DEF Told
    <3>3. QED
      BY <1>6, <3>1, <3>2
  <2>6. notified'[j]["failed"] = 1 <=> StatusesOf(j) = {"failed"}
    BY <1>6, <2>2, <2>4
  <2>7. ToldAtTheEnd(j)'
    BY <1>3, <1>4, <1>8, <2>1, <2>2, <2>3, <2>5, <2>6 DEF ToldAtTheEnd
  <2>8. RowFollowsTask(j)' /\ LoopDealsWithItems(j)'
    BY <1>3, <1>4, <1>5, <2>2, <2>3
    DEF RowFollowsTask, LoopDealsWithItems, Unbegun, InLoop
  <2>9. FlagWaitsForLoop(j)' /\ LateItemWasDue(j)'
    BY <1>1, <1>2, <1>3
    DEF JobInv, FlagWaitsForLoop, LateItemWasDue, Unbegun, InLoop
  <2>10. \A i \in Jobs \ {j} : Untouched(i)
    BY <1>2, <1>3, <2>3, <2>4 DEF Untouched
  <2>11. JobInv(j)'
    BY <2>7, <2>8, <2>9 DEF JobInv
  <2>12. QED
    BY <1>1, <1>2, <1>3, <2>2, <2>3, <2>10, <2>11, TaskStepKeeps DEF Unbegun
<1>9. QED
  BY <1>7, <1>8

(* A task that dies leaves everything as it is.                            *)
LEMMA SyncRaisesInv ==
  ASSUME IInv, SyncTypeOK', NEW j \in Jobs, SyncRaises(j) PROVE IInv'
<1>1. /\ JobInv(j) /\ SyncTypeOK
      /\ worker[j].pc \in {"scheduled", "looping", "beginning", "processing",
                           "reporting"}
  BY DEF IInv, SyncRaises
<1>2. /\ worker'[j].pc = "lost"
      /\ \A i \in Jobs \ {j} : worker'[i] = worker[i]
  BY <1>1, JobTypes DEF SyncRaises, SyncTypeOK, Worker
<1>3. UNCHANGED <<jobs, items, notified, cancelRequested, creator, canceller,
                  settled, flaggedAt, lateItems>>
  BY DEF SyncRaises, tables, history
<1>4. ItemsOf(j)' = ItemsOf(j)
  BY <1>3 DEF ItemsOf
<1>5. RowFollowsTask(j)' /\ LoopDealsWithItems(j)' /\ jobs'[j] # "absent"
  BY <1>1, <1>2, <1>3, <1>4
  DEF JobInv, RowFollowsTask, LoopDealsWithItems, Unbegun, InLoop
<1>6. ToldAtTheEnd(j)'
  BY <1>1, <1>2, <1>3 DEF JobInv, ToldAtTheEnd, Told
<1>7. FlagWaitsForLoop(j)' /\ LateItemWasDue(j)'
  BY <1>1, <1>2, <1>3
  DEF JobInv, FlagWaitsForLoop, LateItemWasDue, Unbegun, InLoop
<1>8. JobInv(j)'
  BY <1>5, <1>6, <1>7 DEF JobInv
<1>9. \A i \in Jobs \ {j} : Untouched(i)
  BY <1>2, <1>3 DEF Untouched
<1>10. QED
  BY <1>1, <1>2, <1>3, <1>5, <1>8, <1>9, TaskStepKeeps DEF Unbegun

-----------------------------------------------------------------------------
(***************************************************************************)
(* The request threads, and the end of the process                         *)
(***************************************************************************)

(* A request is received.                                                  *)
LEMMA ReceiveSyncInv ==
  ASSUME IInv, SyncTypeOK', NEW h \in Creators, ReceiveSync(h) PROVE IInv'
<1>1. /\ creator \in [Creators -> Creator] /\ creator[h] \in Creator
      /\ SyncTypeOK
  BY DEF IInv, SyncTypeOK, Creator
<1>2. UNCHANGED <<jobs, items, notified, cancelRequested, worker, canceller,
                  settled, flaggedAt, lateItems>>
  BY DEF ReceiveSync, tables, history
<1>3. /\ \A g \in Creators \ {h} : creator'[g] = creator[g]
      /\ \/ creator'[h].pc = "inserting" /\ creator'[h].accounts # {}
         \/ creator'[h].pc = "done"
  <2>1. CASE creator' = [creator EXCEPT ![h].pc = "done"]
    BY <1>1, <2>1 DEF Creator
  <2>2. ASSUME NEW chosen \in (SUBSET Accounts) \ {{}},
               creator' = [creator EXCEPT ![h].pc = "inserting",
                                          ![h].accounts = chosen]
        PROVE  /\ \A g \in Creators \ {h} : creator'[g] = creator[g]
               /\ creator'[h].pc = "inserting" /\ creator'[h].accounts # {}
    BY <1>1, <2>2 DEF Creator
  <2>3. QED
    BY <2>1, <2>2 DEF ReceiveSync
<1>4. CreatorsHoldFreshJobs'
  BY <1>2, <1>3 DEF IInv, CreatorsHoldFreshJobs
<1>5. CancellersKnowTheirJob'
  BY <1>2 DEF IInv, CancellersKnowTheirJob
<1>6. \A j \in Jobs : JobInv(j)'
  BY <1>2, UntouchedKeeps DEF IInv, Untouched
<1>7. QED
  BY <1>4, <1>5, <1>6 DEF IInv

(* It inserts a job nobody works on yet.                                   *)
LEMMA InsertSyncInv ==
  ASSUME IInv, SyncTypeOK', NEW h \in Creators, InsertSync(h) PROVE IInv'
<1>1. /\ creator \in [Creators -> Creator] /\ creator[h] \in Creator
      /\ SyncTypeOK
  BY DEF IInv, SyncTypeOK, Creator
<1>2. PICK j \in Jobs :
        /\ jobs[j] = "absent"
        /\ jobs' = [jobs EXCEPT ![j] = "pending"]
        /\ items' = [items EXCEPT ![j] =
              [a \in Accounts |-> IF a \in creator[h].accounts
                                  THEN "pending" ELSE "none"]]
        /\ creator' = [creator EXCEPT ![h].pc = "committed", ![h].job = j]
  BY DEF InsertSync
<1>3. UNCHANGED <<notified, cancelRequested, worker, canceller,
                  settled, flaggedAt, lateItems>>
  BY DEF InsertSync, history
<1>4. /\ jobs'[j] = "pending"
      /\ \A i \in Jobs \ {j} : jobs'[i] = jobs[i] /\ items'[i] = items[i]
  BY <1>1, <1>2 DEF SyncTypeOK
<1>5. /\ JobInv(j) /\ worker[j].pc = "none"
  BY <1>2 DEF IInv, JobInv, RowFollowsTask
<1>6. /\ \A g \in Creators \ {h} : creator'[g] = creator[g]
      /\ creator'[h].pc = "committed" /\ creator'[h].job = j
  BY <1>1, <1>2 DEF Creator
<1>7. CreatorsHoldFreshJobs'
  <2>1. \A g \in Creators : creator[g].pc = "committed" =>
           creator[g].job # j
    BY <1>2 DEF IInv, CreatorsHoldFreshJobs
  <2>2. QED
    BY <1>3, <1>4, <1>5, <1>6, <2>1 DEF IInv, CreatorsHoldFreshJobs
<1>8. CancellersKnowTheirJob'
  BY <1>3, <1>4 DEF IInv, CancellersKnowTheirJob
<1>9. ItemsOf(j)' # {}
  <2>1. creator[h].accounts # {} /\ creator[h].accounts \subseteq Accounts
    BY <1>1 DEF IInv, CreatorsHoldFreshJobs, InsertSync, Creator
  <2>2. \A a \in creator[h].accounts : items'[j][a] = "pending"
    BY <1>1, <1>2, <2>1 DEF SyncTypeOK
  <2>3. QED
    BY <2>1, <2>2 DEF ItemsOf
<1>10. JobInv(j)'
  <2>1. RowFollowsTask(j)' /\ LoopDealsWithItems(j)'
    BY <1>3, <1>4, <1>5, <1>9 DEF RowFollowsTask, LoopDealsWithItems, InLoop
  <2>2. ToldAtTheEnd(j)' /\ FlagWaitsForLoop(j)' /\ LateItemWasDue(j)'
    BY <1>3, <1>5
    DEF JobInv, ToldAtTheEnd, Told, FlagWaitsForLoop, LateItemWasDue
  <2>3. QED
    BY <2>1, <2>2 DEF JobInv
<1>11. \A i \in Jobs : JobInv(i)'
  BY <1>3, <1>4, <1>10, UntouchedKeeps DEF IInv, Untouched
<1>12. QED
  BY <1>7, <1>8, <1>11 DEF IInv

(* It schedules the task of the job it inserted, and no other.             *)
LEMMA ScheduleSyncInv ==
  ASSUME IInv, SyncTypeOK', NEW h \in Creators, ScheduleSync(h) PROVE IInv'
<1>0. PICK j \in Jobs : j = creator[h].job
  BY DEF IInv, CreatorsHoldFreshJobs, ScheduleSync
<1>1. /\ creator \in [Creators -> Creator] /\ creator[h] \in Creator
      /\ SyncTypeOK /\ creator[h].pc = "committed"
  BY DEF IInv, SyncTypeOK, Creator, ScheduleSync
<1>2. jobs[j] # "absent" /\ worker[j].pc = "none"
  BY <1>0, <1>1 DEF IInv, CreatorsHoldFreshJobs
<1>3. /\ worker'[j].pc = "scheduled"
      /\ \A i \in Jobs \ {j} : worker'[i] = worker[i]
  BY <1>0, <1>1, <1>2, JobTypes DEF ScheduleSync, SyncTypeOK, Worker
<1>4. /\ creator'[h].pc = "done"
      /\ \A g \in Creators \ {h} : creator'[g] = creator[g]
  BY <1>1 DEF ScheduleSync, Creator
<1>5. UNCHANGED <<jobs, items, notified, cancelRequested, canceller,
                  settled, flaggedAt, lateItems>>
  BY DEF ScheduleSync, tables, history
<1>6. CreatorsHoldFreshJobs'
  BY <1>0, <1>1, <1>3, <1>4, <1>5 DEF IInv, CreatorsHoldFreshJobs
<1>7. CancellersKnowTheirJob'
  BY <1>2, <1>3, <1>5 DEF IInv, CancellersKnowTheirJob, Unbegun
<1>8. JobInv(j)'
  <2>1. JobInv(j) /\ ItemsOf(j)' = ItemsOf(j)
    BY <1>2, <1>5 DEF IInv, ItemsOf
  <2>2. RowFollowsTask(j)' /\ LoopDealsWithItems(j)'
    BY <1>2, <1>3, <1>5, <2>1
    DEF JobInv, RowFollowsTask, LoopDealsWithItems, InLoop, Unbegun
  <2>3. ToldAtTheEnd(j)' /\ FlagWaitsForLoop(j)' /\ LateItemWasDue(j)'
    BY <1>2, <1>3, <1>5, <2>1
    DEF JobInv, ToldAtTheEnd, Told, FlagWaitsForLoop, LateItemWasDue,
        InLoop, Unbegun
  <2>4. QED
    BY <2>2, <2>3 DEF JobInv
<1>9. \A i \in Jobs : JobInv(i)'
  BY <1>3, <1>5, <1>8, UntouchedKeeps DEF IInv, Untouched
<1>10. QED
  BY <1>6, <1>7, <1>9 DEF IInv

(* A cancel looks at the row.                                              *)
LEMMA ReceiveSyncCancelInv ==
  ASSUME IInv, SyncTypeOK', NEW h \in Cancellers, NEW j \in Jobs,
         ReceiveSyncCancel(h, j)
  PROVE  IInv'
<1>1. /\ \A g \in Cancellers \ {h} : canceller'[g] = canceller[g]
      /\ canceller'[h].job = j
      /\ canceller'[h].pc = "saw_running" => jobs[j] = "running"
      /\ jobs[j] # "absent"
  BY DEF IInv, SyncTypeOK, ReceiveSyncCancel
<1>2. UNCHANGED <<jobs, items, notified, cancelRequested, worker, creator,
                  settled, flaggedAt, lateItems>>
  BY DEF ReceiveSyncCancel, tables, history
<1>3. CancellersKnowTheirJob'
  BY <1>1, <1>2 DEF IInv, CancellersKnowTheirJob, JobInv, RowFollowsTask
<1>4. CreatorsHoldFreshJobs'
  BY <1>2 DEF IInv, CreatorsHoldFreshJobs
<1>5. \A i \in Jobs : JobInv(i)'
  BY <1>2, UntouchedKeeps DEF IInv, Untouched
<1>6. QED
  BY <1>3, <1>4, <1>5 DEF IInv

(* A cancel that found the job pending writes it late, over a run that may *)
(* be under way or over: it reaches no item the run has dealt with.        *)
LEMMA CommitSyncCancelInv ==
  ASSUME IInv, SyncTypeOK', NEW h \in Cancellers, CommitSyncCancel(h)
  PROVE  IInv'
<1>0. PICK j \in Jobs : j = canceller[h].job
  BY DEF IInv, CancellersKnowTheirJob, CommitSyncCancel
<1>1. jobs[j] # "absent" /\ SyncTypeOK /\ JobInv(j)
  BY <1>0 DEF IInv, CancellersKnowTheirJob, CommitSyncCancel
<1>2. /\ jobs'[j] = "cancelled"
      /\ \A a \in Accounts : items'[j][a] = IF items[j][a] = "pending"
                                           THEN "cancelled" ELSE items[j][a]
      /\ \A i \in Jobs \ {j} : jobs'[i] = jobs[i] /\ items'[i] = items[i]
  BY <1>0, <1>1 DEF CommitSyncCancel, SyncTypeOK
<1>3. UNCHANGED <<notified, cancelRequested, worker, creator,
                  settled, flaggedAt, lateItems>>
  BY DEF CommitSyncCancel, history
<1>4. \A g \in Cancellers :
         /\ canceller'[g].job = canceller[g].job
         /\ canceller'[g].pc \in {canceller[g].pc, "done"}
  BY <1>1 DEF CommitSyncCancel, SyncTypeOK
<1>5. CancellersKnowTheirJob'
  <2>1. SUFFICES ASSUME NEW g \in Cancellers,
                        canceller'[g].pc \in {"saw_pending", "saw_running"}
                 PROVE  /\ canceller'[g].job \in Jobs
                        /\ jobs'[canceller'[g].job] # "absent"
                        /\ canceller'[g].pc = "saw_running" =>
                              worker'[canceller'[g].job].pc \notin Unbegun
    BY DEF CancellersKnowTheirJob
  <2>2. canceller[g].pc = canceller'[g].pc
    BY <1>4, <2>1
  <2>3. QED
    BY <1>2, <1>3, <1>4, <2>1, <2>2 DEF IInv, CancellersKnowTheirJob
<1>6. CreatorsHoldFreshJobs'
  BY <1>1, <1>2, <1>3 DEF IInv, CreatorsHoldFreshJobs
<1>7. JobInv(j)'
  <2>1. ItemsOf(j)' = ItemsOf(j)
    BY <1>2 DEF ItemsOf
  <2>2. RowFollowsTask(j)'
    BY <1>1, <1>2, <1>3, <2>1 DEF JobInv, RowFollowsTask
  <2>3. LoopDealsWithItems(j)'
    <3>1. \A a \in ItemsOf(j) : items[j][a] \in {"success", "failed"}
             => items'[j][a] \in {"success", "failed"}
      BY <1>2 DEF ItemsOf
    <3>2. QED
      BY <1>1, <1>3, <2>1, <3>1 DEF JobInv, LoopDealsWithItems
  <2>4. ToldAtTheEnd(j)'
    <3>1. StatusesOf(j) \subseteq {"success", "failed"}
             => StatusesOf(j)' = StatusesOf(j)
      BY <1>2, <2>1 DEF StatusesOf, ItemsOf
    <3>2. QED
      BY <1>1, <1>3, <3>1 DEF JobInv, ToldAtTheEnd, Told
  <2>5. FlagWaitsForLoop(j)' /\ LateItemWasDue(j)'
    BY <1>1, <1>3 DEF JobInv, FlagWaitsForLoop, LateItemWasDue
  <2>6. QED
    BY <2>2, <2>3, <2>4, <2>5 DEF JobInv
<1>8. \A i \in Jobs : JobInv(i)'
  BY <1>2, <1>3, <1>7, UntouchedKeeps DEF IInv, Untouched
<1>9. QED
  BY <1>5, <1>6, <1>8 DEF IInv

(* A cancel that found the job running sets its flag.                      *)
LEMMA FlagSyncCancelInv ==
  ASSUME IInv, SyncTypeOK', NEW h \in Cancellers, FlagSyncCancel(h) PROVE IInv'
<1>0. PICK j \in Jobs : j = canceller[h].job
  BY DEF IInv, CancellersKnowTheirJob, FlagSyncCancel
<1>1. /\ SyncTypeOK /\ JobInv(j)
      /\ worker[j].pc \notin Unbegun /\ worker[j].pc \in Stages
  BY <1>0, JobTypes DEF IInv, CancellersKnowTheirJob, FlagSyncCancel
<1>2. /\ cancelRequested' = cancelRequested \union {j}
      /\ flaggedAt'[j] = IF flaggedAt[j] = "none" THEN worker[j].pc
                                                  ELSE flaggedAt[j]
      /\ \A i \in Jobs \ {j} : flaggedAt'[i] = flaggedAt[i]
  BY <1>0, <1>1 DEF FlagSyncCancel, SyncTypeOK
<1>3. UNCHANGED <<jobs, items, notified, worker, creator, settled, lateItems>>
  BY DEF FlagSyncCancel, tables
<1>4. \A g \in Cancellers :
         /\ canceller'[g].job = canceller[g].job
         /\ canceller'[g].pc \in {canceller[g].pc, "done"}
  BY <1>1 DEF FlagSyncCancel, SyncTypeOK
<1>5. CancellersKnowTheirJob'
  BY <1>3, <1>4 DEF IInv, CancellersKnowTheirJob
<1>6. CreatorsHoldFreshJobs'
  BY <1>3 DEF IInv, CreatorsHoldFreshJobs
<1>7. JobInv(j)'
  <2>1. ItemsOf(j)' = ItemsOf(j) /\ StatusesOf(j)' = StatusesOf(j)
    BY <1>3 DEF ItemsOf, StatusesOf
  <2>2. RowFollowsTask(j)' /\ LoopDealsWithItems(j)' /\ ToldAtTheEnd(j)'
    BY <1>1, <1>2, <1>3, <2>1
    DEF JobInv, RowFollowsTask, LoopDealsWithItems, ToldAtTheEnd, Told
  <2>3. FlagWaitsForLoop(j)'
    BY <1>1, <1>2, <1>3 DEF JobInv, FlagWaitsForLoop, InLoop, Unbegun
  <2>4. LateItemWasDue(j)'
    BY <1>1, <1>2, <1>3 DEF JobInv, LateItemWasDue
  <2>5. QED
    BY <2>2, <2>3, <2>4 DEF JobInv
<1>8. \A i \in Jobs : JobInv(i)'
  BY <1>2, <1>3, <1>7, UntouchedKeeps DEF IInv, Untouched
<1>9. QED
  BY <1>5, <1>6, <1>8 DEF IInv

(* The API process stops.                                                  *)
LEMMA CrashInv == ASSUME IInv, SyncTypeOK', SyncCrash PROVE IInv'
<1>1. /\ cancelRequested' = {}
      /\ UNCHANGED <<jobs, items, notified, settled, flaggedAt, lateItems>>
  BY DEF SyncCrash, tables, history
<1>2. ASSUME NEW j \in Jobs
      PROVE  \/ worker[j].pc \in {"none", "ended"} /\ worker'[j] = worker[j]
             \/ worker[j].pc \notin {"none", "ended"} /\ worker'[j].pc = "lost"
  BY JobTypes DEF IInv, SyncCrash, Worker
<1>3. \A h \in Creators : creator'[h].pc \in {"idle", "done"}
  BY DEF SyncCrash, IInv, SyncTypeOK
<1>4. CreatorsHoldFreshJobs'
  BY <1>3 DEF CreatorsHoldFreshJobs
<1>5. \A h \in Cancellers : canceller'[h].pc \in {"idle", "done"}
  BY DEF SyncCrash, IInv, SyncTypeOK
<1>6. CancellersKnowTheirJob'
  BY <1>5 DEF CancellersKnowTheirJob
<1>7. ASSUME NEW j \in Jobs PROVE JobInv(j)'
  <2>1. JobInv(j) /\ ItemsOf(j)' = ItemsOf(j) /\ StatusesOf(j)' = StatusesOf(j)
    BY <1>1 DEF IInv, ItemsOf, StatusesOf
  <2>2. RowFollowsTask(j)' /\ LoopDealsWithItems(j)'
    BY <1>1, <1>2, <2>1
    DEF JobInv, RowFollowsTask, LoopDealsWithItems, InLoop, Unbegun
  <2>3. ToldAtTheEnd(j)'
    BY <1>1, <1>2, <2>1 DEF JobInv, ToldAtTheEnd, Told
  <2>4. FlagWaitsForLoop(j)' /\ LateItemWasDue(j)'
    BY <1>1, <1>2, <2>1
    DEF JobInv, FlagWaitsForLoop, LateItemWasDue, InLoop, Unbegun
  <2>5. QED
    BY <2>2, <2>3, <2>4 DEF JobInv
<1>8. QED
  BY <1>4, <1>6, <1>7 DEF IInv

-----------------------------------------------------------------------------
(* The invariant is inductive.                                             *)
THEOREM InductiveInvariant == SyncSpec => []IInv
<1>1. SyncInit => IInv
  <2>1. SUFFICES ASSUME SyncInit PROVE IInv
    OBVIOUS
  <2>2. SyncTypeOK
    <3>1. NoWorker \in Worker
      BY DEF NoWorker, Worker, Stages
    <3>2. /\ [pc |-> "idle", accounts |-> {}, job |-> NoJob] \in Creator
          /\ [pc |-> "idle", job |-> NoJob] \in Canceller
      BY DEF Creator, Canceller
    <3>3. /\ worker \in [Jobs -> Worker]
          /\ creator \in [Creators -> Creator]
          /\ canceller \in [Cancellers -> Canceller]
      BY <2>1, <3>1, <3>2 DEF SyncInit
    <3>4. /\ items \in [Jobs -> [Accounts -> ItemStatus]]
          /\ notified \in [Jobs -> [{"succeeded", "failed"} -> Nat]]
      BY <2>1 DEF SyncInit, ItemStatus
    <3>5. /\ cancelRequested \subseteq Jobs /\ flaggedAt \in [Jobs -> Stages]
          /\ lateItems \in [Jobs -> Nat] /\ syncFaults \in Nat
          /\ jobs \in [Jobs -> {"absent"} \union SyncActive \union Terminal]
          /\ settled \in [Jobs -> {"none"} \union SyncActive \union Terminal]
      BY <2>1 DEF SyncInit, Stages
    <3>6. QED
      BY <3>3, <3>4, <3>5 DEF SyncTypeOK, Creator, Canceller
  <2>3. CreatorsHoldFreshJobs /\ CancellersKnowTheirJob
    <3>1. /\ \A h \in Creators : creator[h].pc = "idle"
          /\ \A h \in Cancellers : canceller[h].pc = "idle"
      BY <2>1 DEF SyncInit
    <3>2. QED
      BY <3>1 DEF CreatorsHoldFreshJobs, CancellersKnowTheirJob
  <2>4. ASSUME NEW j \in Jobs PROVE JobInv(j)
    <3>1. /\ jobs[j] = "absent" /\ worker[j].pc = "none"
          /\ notified[j]["succeeded"] = 0 /\ notified[j]["failed"] = 0
          /\ settled[j] = "none" /\ flaggedAt[j] = "none"
          /\ lateItems[j] = 0 /\ j \notin cancelRequested
      BY <2>1 DEF SyncInit, NoWorker
    <3>2. RowFollowsTask(j) /\ LoopDealsWithItems(j)
      BY <3>1 DEF RowFollowsTask, LoopDealsWithItems, InLoop
    <3>3. ToldAtTheEnd(j)
      BY <3>1 DEF ToldAtTheEnd, Told
    <3>4. FlagWaitsForLoop(j) /\ LateItemWasDue(j)
      BY <3>1 DEF FlagWaitsForLoop, LateItemWasDue, InLoop
    <3>5. QED
      BY <3>2, <3>3, <3>4 DEF JobInv
  <2>5. QED
    BY <2>2, <2>3, <2>4 DEF IInv
<1>2. IInv /\ [SyncNext]_syncVars => IInv'
  <2>1. SUFFICES ASSUME IInv, [SyncNext]_syncVars PROVE IInv'
    OBVIOUS
  <2>2. SyncTypeOK'
    BY <2>1, WorkerTypeOK, ThreadTypeOK DEF IInv
  <2>3. CASE UNCHANGED syncVars
    <3>1. \A j \in Jobs : Untouched(j)
      BY <2>3 DEF syncVars, tables, threads, history, Untouched
    <3>2. CreatorsHoldFreshJobs' /\ CancellersKnowTheirJob'
      BY <2>1, <2>3 DEF IInv, syncVars, tables, threads, CreatorsHoldFreshJobs,
                        CancellersKnowTheirJob
    <3>3. QED
      BY <2>1, <2>2, <3>1, <3>2, UntouchedKeeps DEF IInv
  <2>4. ASSUME NEW h \in Creators,
               ReceiveSync(h) \/ InsertSync(h) \/ ScheduleSync(h)
        PROVE  IInv'
    BY <2>1, <2>2, <2>4, ReceiveSyncInv, InsertSyncInv, ScheduleSyncInv
  <2>5. ASSUME NEW j \in Jobs, WorkerStep(j) \/ SyncRaises(j) PROVE IInv'
    BY <2>1, <2>2, <2>5, StartInv, NextItemInv, BeginItemInv, EndItemInv,
       CloseLoopInv, CommitVerdictInv, SyncRaisesInv DEF WorkerStep
  <2>6. ASSUME NEW h \in Cancellers,
               \/ \E j \in Jobs : ReceiveSyncCancel(h, j)
               \/ CommitSyncCancel(h) \/ FlagSyncCancel(h)
        PROVE  IInv'
    BY <2>1, <2>2, <2>6, ReceiveSyncCancelInv, CommitSyncCancelInv,
       FlagSyncCancelInv
  <2>7. CASE SyncCrash
    BY <2>1, <2>2, <2>7, CrashInv
  <2>8. QED
    BY <2>1, <2>3, <2>4, <2>5, <2>6, <2>7 DEF SyncNext
<1>3. QED
  BY <1>1, <1>2, PTL DEF SyncSpec

(* Every reachable state is well typed.                                    *)
THEOREM TypeCorrect == SyncSpec => []SyncTypeOK
<1>1. IInv => SyncTypeOK
  BY DEF IInv
<1>2. QED
  BY <1>1, InductiveInvariant, PTL

(* The task notifies once, of what its items say, however many cancels and *)
(* restarts there were: routers/sync_jobs.py, the end of the run.          *)
THEOREM VerdictIsTrue == SyncSpec => []VerdictMatchesItems
<1>1. IInv => VerdictMatchesItems
  <2>1. SUFFICES ASSUME IInv, NEW j \in Jobs
                 PROVE  /\ Told(j) <= 1
                        /\ Told(j) = 1
                              <=> settled[j] \notin {"none", "cancelled"}
                        /\ Told(j) = 1 =>
                             /\ StatusesOf(j) # {}
                             /\ StatusesOf(j) \subseteq {"success", "failed"}
                             /\ settled[j] = "success"
                                   <=> StatusesOf(j) = {"success"}
                             /\ settled[j] = "failed"
                                   <=> StatusesOf(j) = {"failed"}
                             /\ notified[j]["failed"] = 1
                                   <=> StatusesOf(j) = {"failed"}
    BY DEF VerdictMatchesItems, Told, StatusesOf
  <2>2. ToldAtTheEnd(j)
    BY <2>1 DEF IInv, JobInv
  <2>3. CASE worker[j].pc # "ended" \/ worker[j].cancelled
    BY <2>2, <2>3 DEF ToldAtTheEnd
  <2>4. CASE worker[j].pc = "ended" /\ ~worker[j].cancelled
    BY <2>2, <2>4 DEF ToldAtTheEnd
  <2>5. QED
    BY <2>3, <2>4
<1>2. QED
  BY <1>1, InductiveInvariant, PTL

(* A cancel accepted while the loop runs stops it after the item the task  *)
(* is already committed to, and the run is never reported as finished.     *)
THEOREM CancelStops == SyncSpec => []AcceptedCancelStops
<1>1. IInv => AcceptedCancelStops
  <2>1. SUFFICES ASSUME IInv, NEW j \in Jobs
                 PROVE  /\ lateItems[j] <= 1
                        /\ lateItems[j] = 1 => flaggedAt[j] = "beginning"
                        /\ flaggedAt[j] \in InLoop =>
                              /\ settled[j] \in {"none", "cancelled"}
                              /\ notified[j]["succeeded"] = 0
                              /\ notified[j]["failed"] = 0
    BY DEF AcceptedCancelStops, InLoop
  <2>2. JobInv(j) /\ SyncTypeOK
    BY <2>1 DEF IInv
  <2>3. flaggedAt[j] \in InLoop =>
           settled[j] \in {"none", "cancelled"} /\ Told(j) = 0
    BY <2>2 DEF JobInv, FlagWaitsForLoop, ToldAtTheEnd
  <2>4. QED
    BY <2>2, <2>3, JobTypes DEF JobInv, LateItemWasDue, Told
<1>2. QED
  BY <1>1, InductiveInvariant, PTL
=============================================================================
