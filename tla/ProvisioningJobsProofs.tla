----------------------- MODULE ProvisioningJobsProofs -----------------------
(***************************************************************************)
(* Safety of ProvisioningJobs for every set of jobs, requests, keys and    *)
(* credentials, any number of threads and any number of faults: IInv is    *)
(* inductive, one lemma per actor, and implies every invariant.  Types     *)
(* come first: what the updates the actions are made of do to one job, one *)
(* request and everyone else.  The refinement of JobPromise comes last.    *)
(***************************************************************************)
EXTENDS ProvisioningJobsInvariant, TLAPS

(***************************************************************************)
(* Types                                                                   *)
(***************************************************************************)

(* A row of the table stays one under the updates the actions make.       *)
LEMMA RowUpdates ==
  ASSUME NEW row \in Row, NEW n \in Nat
  PROVE  /\ \A st \in Terminal :
               [row EXCEPT !.status = st, !.finished = n] \in Row
         /\ [row EXCEPT !.status = "running", !.started = n] \in Row
         /\ [row EXCEPT !.credential = NoCredential] \in Row
<1>1. \A st \in Terminal : [row EXCEPT !.status = st, !.finished = n] \in Row
  BY DEF Row
<1>2. [row EXCEPT !.status = "running", !.started = n] \in Row
  BY DEF Row, Active
<1>3. [row EXCEPT !.credential = NoCredential] \in Row
  BY DEF Row
<1>4. QED
  BY <1>1, <1>2, <1>3

(* So does the record of a task.                                         *)
LEMMA WorkerUpdates ==
  ASSUME NEW w \in Worker, NEW s \in Stages, NEW n \in Nat,
         NEW c \in Credentials \union {NoCredential}
  PROVE  /\ [w EXCEPT !.pc = s] \in Worker
         /\ [w EXCEPT !.pc = s, !.stamp = n, !.credential = c] \in Worker
<1>1. [w EXCEPT !.pc = s] \in Worker
  BY DEF Worker
<1>2. [w EXCEPT !.pc = s, !.stamp = n] \in Worker
  BY DEF Worker
<1>3. QED
  BY <1>1, <1>2 DEF Worker

(* So does the record of a creation request.                             *)
LEMMA CreatorUpdates ==
  ASSUME NEW r \in Creator
  PROVE  /\ \A s \in {"inserting", "rejecting"}, k \in Keys, p \in Payloads,
               c \in Credentials :
               [r EXCEPT !.pc = s, !.key = k, !.payload = p,
                         !.credential = c] \in Creator
         /\ \A j \in Jobs :
               [r EXCEPT !.pc = "committed", !.job = j] \in Creator
         /\ \A x \in Replies :
               [r EXCEPT !.pc = "done", !.reply = x] \in Creator
<1>1. ASSUME NEW s \in {"inserting", "rejecting"}, NEW k \in Keys,
             NEW p \in Payloads, NEW c \in Credentials
      PROVE  [r EXCEPT !.pc = s, !.key = k, !.payload = p,
                       !.credential = c] \in Creator
  BY DEF Creator
<1>2. ASSUME NEW j \in Jobs
      PROVE  [r EXCEPT !.pc = "committed", !.job = j] \in Creator
  BY DEF Creator
<1>3. ASSUME NEW x \in Replies
      PROVE  [r EXCEPT !.pc = "done", !.reply = x] \in Creator
  BY DEF Creator
<1>4. QED
  BY <1>1, <1>2, <1>3

(* So does the record of a cancel request.                               *)
LEMMA CancellerUpdates ==
  ASSUME NEW r \in Canceller
  PROVE  /\ \A s \in {"saw_queued", "saw_running", "done"}, j \in Jobs :
               [r EXCEPT !.job = j, !.pc = s] \in Canceller
         /\ \A n \in Nat :
               [r EXCEPT !.pc = "stamped", !.stamp = n] \in Canceller
         /\ [r EXCEPT !.pc = "done"] \in Canceller
<1>1. ASSUME NEW s \in {"saw_queued", "saw_running", "done"}, NEW j \in Jobs
      PROVE  [r EXCEPT !.job = j, !.pc = s] \in Canceller
  BY DEF Canceller
<1>2. ASSUME NEW n \in Nat
      PROVE  [r EXCEPT !.pc = "stamped", !.stamp = n] \in Canceller
  BY DEF Canceller
<1>3. [r EXCEPT !.pc = "done"] \in Canceller
  BY DEF Canceller
<1>4. QED
  BY <1>1, <1>2, <1>3

(* GoTo moves one task and keeps what it has read.                         *)
LEMMA WorkerMoves ==
  ASSUME worker \in [Jobs -> Worker], NEW j \in Jobs, NEW s \in Stages,
         GoTo(j, s)
  PROVE  /\ worker' \in [Jobs -> Worker]
         /\ worker'[j].pc = s
         /\ worker'[j].stamp = worker[j].stamp
         /\ worker'[j].result = worker[j].result
         /\ worker'[j].credential = worker[j].credential
         /\ \A i \in Jobs \ {j} : worker'[i] = worker[i]
<1>1. worker' = [worker EXCEPT ![j] = [worker[j] EXCEPT !.pc = s]]
  BY DEF GoTo
<1>2. worker[j] \in Worker /\ [worker[j] EXCEPT !.pc = s] \in Worker
  BY DEF Worker
<1>3. QED
  BY <1>1, <1>2 DEF Worker

(* RunnerReturns stores the result of one task.                            *)
LEMMA WorkerReturns ==
  ASSUME worker \in [Jobs -> Worker], NEW j \in Jobs, NEW res \in Results,
         RunnerReturns(j, res)
  PROVE  /\ worker' \in [Jobs -> Worker]
         /\ worker'[j].pc = "finishing"
         /\ worker'[j].stamp = worker[j].stamp
         /\ worker'[j].result = res
         /\ worker'[j].credential = worker[j].credential
         /\ \A i \in Jobs \ {j} : worker'[i] = worker[i]
<1>1. worker' = [worker EXCEPT ![j] =
                    [worker[j] EXCEPT !.pc = "finishing", !.result = res]]
  BY DEF RunnerReturns
<1>2. /\ worker[j] \in Worker
      /\ [worker[j] EXCEPT !.pc = "finishing", !.result = res] \in Worker
  BY DEF Worker, Stages
<1>3. QED
  BY <1>1, <1>2 DEF Worker

(* Tick advances the clock of one job.                                     *)
LEMMA ClockTicks ==
  ASSUME clock \in [Jobs -> Nat], NEW j \in Jobs, Tick(j)
  PROVE  /\ clock' \in [Jobs -> Nat]
         /\ clock'[j] = clock[j] + 1
         /\ \A i \in Jobs \ {j} : clock'[i] = clock[i]
BY DEF Tick, Now

(* Settle writes the status and the end of one row, and nothing else of it. *)
LEMMA JobSettles ==
  ASSUME jobs \in [Jobs -> Row], clock \in [Jobs -> Nat],
         NEW j \in Jobs, NEW st \in Terminal, Settle(j, st)
  PROVE  /\ jobs' \in [Jobs -> Row]
         /\ jobs'[j].status = st
         /\ jobs'[j].finished = clock[j] + 1
         /\ jobs'[j].started = jobs[j].started
         /\ jobs'[j].key = jobs[j].key
         /\ jobs'[j].credential = jobs[j].credential
         /\ \A i \in Jobs \ {j} : jobs'[i] = jobs[i]
<1>1. jobs' = [jobs EXCEPT ![j] =
                  [jobs[j] EXCEPT !.status = st, !.finished = clock[j] + 1]]
  BY DEF Settle, Now
<1>2. clock[j] + 1 \in Nat
  OBVIOUS
<1>3. [jobs[j] EXCEPT !.status = st, !.finished = clock[j] + 1] \in Row
  BY <1>2 DEF Row
<1>4. QED
  BY <1>1, <1>3 DEF Row

(* _finalize_job adds one notification and one audit event to one job.     *)
LEMMA JobFinalized ==
  ASSUME jobs \in [Jobs -> Row], clock \in [Jobs -> Nat],
         notified \in [Jobs -> [{"success", "failed"} -> Nat]],
         audited \in [Jobs -> Nat],
         NEW j \in Jobs, NEW st \in {"success", "failed"}, FinalizeJob(j, st)
  PROVE  /\ notified' \in [Jobs -> [{"success", "failed"} -> Nat]]
         /\ notified'[j][st] = notified[j][st] + 1
         /\ \A k \in {"success", "failed"} \ {st} :
               notified'[j][k] = notified[j][k]
         /\ \A i \in Jobs \ {j} : notified'[i] = notified[i]
         /\ audited' \in [Jobs -> Nat]
         /\ audited'[j] = audited[j] + 1
         /\ \A i \in Jobs \ {j} : audited'[i] = audited[i]
<1>1. notified' = [notified EXCEPT ![j] =
                      [notified[j] EXCEPT ![st] = notified[j][st] + 1]]
  BY DEF FinalizeJob
<1>2. [notified[j] EXCEPT ![st] = notified[j][st] + 1]
         \in [{"success", "failed"} -> Nat]
  OBVIOUS
<1>3. QED
  BY <1>1, <1>2 DEF FinalizeJob

(* Reply ends one request.                                                 *)
LEMMA RequestAnswered ==
  ASSUME creator \in [Creators -> Creator], NEW h \in Creators,
         NEW r \in Replies, Reply(h, r)
  PROVE  /\ creator' \in [Creators -> Creator]
         /\ creator'[h].pc = "done"
         /\ \A g \in Creators \ {h} : creator'[g] = creator[g]
<1>1. creator' = [creator EXCEPT ![h] =
                     [creator[h] EXCEPT !.pc = "done", !.reply = r]]
  BY DEF Reply
<1>2. [creator[h] EXCEPT !.pc = "done", !.reply = r] \in Creator
  BY DEF Creator
<1>3. QED
  BY <1>1, <1>2 DEF Creator

(* Initially every variable has its type.                                  *)
LEMMA InitTypeOK == Init => TypeOK
<1> USE ConstantsAssumption
<1> SUFFICES ASSUME Init PROVE TypeOK
  OBVIOUS
<1>1. NoRow \in Row
  BY DEF NoRow, Row
<1>2. NoWorker \in Worker
  BY DEF NoWorker, Worker, Stages, Results
<1>3. NewCreator \in Creator
  BY DEF NewCreator, Creator, Replies
<1>4. [pc |-> "idle", job |-> NoJob, stamp |-> 0] \in Canceller
  BY DEF Canceller
<1>5. [pc |-> "idle", credential |-> NoCredential] \in Deleter
  BY DEF Deleter
<1>6. "none" \in Stages /\ "nothing" \in Clouds
  BY DEF Stages, Clouds
<1>7. QED
  BY <1>1, <1>2, <1>3, <1>4, <1>5, <1>6 DEF Init, TypeOK

(* Every step keeps every variable in its type; the time stamp of a cancel *)
(* needs to know that the row it stamps was found.                         *)
LEMMA NextTypeOK ==
  ASSUME TypeOK, WritersKnowTheirJob, [Next]_vars
  PROVE  TypeOK'
<1> USE ConstantsAssumption
<1> USE DEF TypeOK, tables, memory, world
<1>1. ASSUME NEW h \in Creators, NEW k \in Keys, NEW p \in Payloads,
             NEW c \in Credentials, ReceiveCreate(h, k, p, c)
      PROVE  TypeOK'
  <2>1. \A r \in Replies : Reply(h, r) => creator' \in [Creators -> Creator]
    BY RequestAnswered
  <2>2. ASSUME NEW s \in {"inserting", "rejecting"},
               creator' = [creator EXCEPT ![h] =
                  [@ EXCEPT !.pc = s, !.key = k, !.payload = p,
                            !.credential = c]]
        PROVE  creator' \in [Creators -> Creator]
    <3>1. [creator[h] EXCEPT !.pc = s, !.key = k, !.payload = p,
                             !.credential = c] \in Creator
      BY CreatorUpdates
    <3>2. QED
      BY <2>2, <3>1
  <2>3. creator' \in [Creators -> Creator]
    BY <1>1, <2>1, <2>2 DEF ReceiveCreate, Replies
  <2>4. QED
    BY <1>1, <2>3 DEF ReceiveCreate
<1>2. ASSUME NEW h \in Creators, InsertJob(h) PROVE TypeOK'
  <2>1. PICK j \in Jobs :
           /\ jobs' = [jobs EXCEPT ![j] = NewRow(h, "queued", 0)]
           /\ creator' = [creator EXCEPT ![h].pc = "committed", ![h].job = j]
    BY <1>2 DEF InsertJob
  <2>2. NewRow(h, "queued", 0) \in Row
    BY DEF NewRow, Row, Creator, Active
  <2>3. [creator[h] EXCEPT !.pc = "committed", !.job = j] \in Creator
    BY CreatorUpdates
  <2>4. creator' = [creator EXCEPT ![h] =
                      [creator[h] EXCEPT !.pc = "committed", !.job = j]]
    BY <2>1
  <2>5. jobs' \in [Jobs -> Row]
    BY <2>1, <2>2
  <2>6. creator' \in [Creators -> Creator]
    BY <2>3, <2>4
  <2>7. QED
    BY <1>2, <2>5, <2>6 DEF InsertJob
<1>3. ASSUME NEW h \in Creators, RecordRejectedJob(h) PROVE TypeOK'
  <2>1. PICK j \in Jobs :
           /\ jobs' = [jobs EXCEPT ![j] = NewRow(h, "failed", Now(j))]
           /\ Tick(j)
    BY <1>3 DEF RecordRejectedJob
  <2>2. Now(j) \in Nat
    BY DEF Now
  <2>3. NewRow(h, "failed", Now(j)) \in Row
    BY <2>2 DEF NewRow, Row, Creator, Terminal
  <2>4. clock' \in [Jobs -> Nat]
    BY <2>1, ClockTicks
  <2>5. creator' \in [Creators -> Creator]
    BY <1>3, RequestAnswered DEF RecordRejectedJob, Replies
  <2>6. QED
    BY <1>3, <2>1, <2>3, <2>4, <2>5 DEF RecordRejectedJob
<1>4. ASSUME NEW h \in Creators, InsertFails(h) PROVE TypeOK'
  <2>1. creator' \in [Creators -> Creator]
    BY <1>4, RequestAnswered DEF InsertFails, Replies
  <2>2. QED
    BY <1>4, <2>1 DEF InsertFails
<1>5. ASSUME NEW h \in Creators, ScheduleJob(h) PROVE TypeOK'
  <2>1. creator' \in [Creators -> Creator]
    BY <1>5, RequestAnswered DEF ScheduleJob, Replies
  <2>2. worker' = [worker EXCEPT ![creator[h].job] =
                      [worker[creator[h].job] EXCEPT !.pc = "scheduled"]]
    BY <1>5 DEF ScheduleJob
  <2>3. \A j \in Jobs : [worker[j] EXCEPT !.pc = "scheduled"] \in Worker
    <3>1. "scheduled" \in Stages
      BY DEF Stages
    <3>2. QED
      BY <3>1, WorkerUpdates DEF Worker
  <2>4. worker' \in [Jobs -> Worker]
    BY <2>2, <2>3
  <2>5. QED
    BY <1>5, <2>1, <2>4 DEF ScheduleJob
<1>6. ASSUME NEW j \in Jobs, StartJob(j) PROVE TypeOK'
  <2>1. CASE CancelJob(j) /\ GoTo(j, "ended")
    <3>1. worker' \in [Jobs -> Worker]
      BY <2>1, WorkerMoves DEF Stages
    <3>2. jobs' \in [Jobs -> Row] /\ clock' \in [Jobs -> Nat]
      BY <2>1, JobSettles, ClockTicks DEF CancelJob, Settle, Terminal
    <3>3. QED
      BY <1>6, <2>1, <3>1, <3>2 DEF StartJob, CancelJob
  <2>2. CASE /\ worker' = [worker EXCEPT ![j] =
                   [@ EXCEPT !.pc = "starting", !.stamp = Now(j),
                             !.credential = jobs[j].credential]]
             /\ Tick(j)
             /\ UNCHANGED <<jobs, notified, audited, cancelRequested>>
    <3>1. /\ Now(j) \in Nat
          /\ jobs[j].credential \in Credentials \union {NoCredential}
      BY DEF Now, Row
    <3>2. [worker[j] EXCEPT !.pc = "starting", !.stamp = Now(j),
                            !.credential = jobs[j].credential] \in Worker
      <4>1. "starting" \in Stages
        BY DEF Stages
      <4>2. QED
        BY <3>1, <4>1, WorkerUpdates
    <3>3. worker' \in [Jobs -> Worker] /\ clock' \in [Jobs -> Nat]
      BY <2>2, <3>2, ClockTicks
    <3>4. QED
      BY <1>6, <2>2, <3>3 DEF StartJob
  <2>3. QED
    BY <1>6, <2>1, <2>2 DEF StartJob
<1>7. ASSUME NEW j \in Jobs, CommitStart(j) PROVE TypeOK'
  <2>1. worker' \in [Jobs -> Worker]
    BY <1>7, WorkerMoves DEF CommitStart, Stages
  <2>2. StartedRow(j) \in Row
    <3>1. worker[j].stamp \in Nat
      BY DEF Worker
    <3>2. QED
      BY <3>1, RowUpdates DEF StartedRow
  <2>3. jobs' \in [Jobs -> Row]
    BY <1>7, <2>2 DEF CommitStart
  <2>4. QED
    BY <1>7, <2>1, <2>3 DEF CommitStart
<1>8. ASSUME NEW j \in Jobs, FailEarly(j) PROVE TypeOK'
  <2>1. worker' \in [Jobs -> Worker]
    BY <1>8, WorkerMoves DEF FailEarly, Stages
  <2>2. jobs' \in [Jobs -> Row] /\ clock' \in [Jobs -> Nat]
    BY <1>8, JobSettles, ClockTicks
       DEF FailEarly, FinalizeJob, Settle, Terminal
  <2>3. /\ notified' \in [Jobs -> [{"success", "failed"} -> Nat]]
        /\ audited' \in [Jobs -> Nat]
    BY <1>8, JobFinalized DEF FailEarly
  <2>4. QED
    BY <1>8, <2>1, <2>2, <2>3 DEF FailEarly
<1>9. ASSUME NEW j \in Jobs, CredentialVanished(j) PROVE TypeOK'
  <2>1. worker' \in [Jobs -> Worker]
    BY <1>9, WorkerMoves DEF CredentialVanished, Stages
  <2>2. QED
    BY <1>9, <2>1 DEF CredentialVanished
<1>10. ASSUME NEW j \in Jobs, BeginRun(j) PROVE TypeOK'
  <2>1. worker' \in [Jobs -> Worker]
    BY <1>10, WorkerMoves DEF BeginRun, Stages
  <2>2. QED
    BY <1>10, <2>1 DEF BeginRun
<1>11. ASSUME NEW j \in Jobs, DemoRun(j) PROVE TypeOK'
  <2>1. worker' \in [Jobs -> Worker]
    BY <1>11, WorkerReturns DEF DemoRun, Results
  <2>2. cloud' \in [Jobs -> Clouds]
    BY <1>11 DEF DemoRun, Clouds
  <2>3. QED
    BY <1>11, <2>1, <2>2 DEF DemoRun
<1>12. ASSUME NEW j \in Jobs, PrepareWorkspace(j) PROVE TypeOK'
  <2>1. worker' \in [Jobs -> Worker]
    BY <1>12, WorkerMoves, WorkerReturns
       DEF PrepareWorkspace, Stages, Results
  <2>2. QED
    BY <1>12, <2>1 DEF PrepareWorkspace
<1>13. ASSUME NEW j \in Jobs, BeginInit(j) PROVE TypeOK'
  <2>1. worker' \in [Jobs -> Worker]
    BY <1>13, WorkerMoves DEF BeginInit, Stages
  <2>2. QED
    BY <1>13, <2>1 DEF BeginInit
<1>14. ASSUME NEW j \in Jobs, EndInit(j) PROVE TypeOK'
  <2>1. worker' \in [Jobs -> Worker]
    BY <1>14, WorkerMoves, WorkerReturns
       DEF EndInit, CheckCancelThen, Results, Stages
  <2>2. QED
    BY <1>14, <2>1 DEF EndInit
<1>15. ASSUME NEW j \in Jobs, EndPlan(j) PROVE TypeOK'
  <2>1. worker' \in [Jobs -> Worker]
    BY <1>15, WorkerMoves, WorkerReturns
       DEF EndPlan, CheckCancelThen, Results, Stages
  <2>2. applies' \in [Jobs -> Nat]
    BY <1>15 DEF EndPlan
  <2>3. QED
    BY <1>15, <2>1, <2>2 DEF EndPlan
<1>16. ASSUME NEW j \in Jobs, EndApply(j) PROVE TypeOK'
  <2>1. worker' \in [Jobs -> Worker]
    BY <1>16, WorkerMoves, WorkerReturns DEF EndApply, Results, Stages
  <2>2. cloud' \in [Jobs -> Clouds]
    BY <1>16 DEF EndApply, Clouds
  <2>3. QED
    BY <1>16, <2>1, <2>2 DEF EndApply
<1>17. ASSUME NEW j \in Jobs, EndOutput(j) PROVE TypeOK'
  <2>1. worker' \in [Jobs -> Worker]
    <3>1. PICK res \in {"created", "created_no_id", "failed"} :
             RunnerReturns(j, res)
      BY <1>17 DEF EndOutput
    <3>2. res \in Results
      BY DEF Results
    <3>3. QED
      BY <3>1, <3>2, WorkerReturns
  <2>2. QED
    BY <1>17, <2>1 DEF EndOutput
<1>18. ASSUME NEW j \in Jobs, FinishJob(j) PROVE TypeOK'
  <2> USE DEF FinishJob
  <2>1. worker' \in [Jobs -> Worker]
    BY <1>18, WorkerMoves DEF Stages
  <2>2. /\ \/ \E st \in Terminal : Settle(j, st)
           \/ UNCHANGED <<jobs, clock>>
        /\ \/ \E st \in {"success", "failed"} : FinalizeJob(j, st)
           \/ UNCHANGED <<notified, audited>>
    BY <1>18 DEF CancelJob, FinalizeJob, Terminal
  <2>3. jobs' \in [Jobs -> Row] /\ clock' \in [Jobs -> Nat]
    BY <2>2, JobSettles, ClockTicks DEF Settle
  <2>4. /\ notified' \in [Jobs -> [{"success", "failed"} -> Nat]]
        /\ audited' \in [Jobs -> Nat]
    BY <2>2, JobFinalized
  <2>5. inventory' \subseteq Jobs /\ cancelRequested' \subseteq Jobs
    BY <1>18 DEF CancelJob
  <2>6. QED
    BY <1>18, <2>1, <2>3, <2>4, <2>5
<1>19. ASSUME NEW j \in Jobs, TaskRaises(j) PROVE TypeOK'
  <2>1. worker' \in [Jobs -> Worker]
    BY <1>19, WorkerMoves DEF TaskRaises, Stages
  <2>2. QED
    BY <1>19, <2>1 DEF TaskRaises
<1>20. ASSUME NEW h \in Cancellers, NEW j \in Jobs, ReceiveCancel(h, j)
       PROVE  TypeOK'
  <2>1. PICK s \in {"saw_queued", "saw_running", "done"} :
           canceller' =
               [canceller EXCEPT ![h] = [@ EXCEPT !.job = j, !.pc = s]]
    BY <1>20 DEF ReceiveCancel
  <2>2. [canceller[h] EXCEPT !.job = j, !.pc = s] \in Canceller
    BY CancellerUpdates
  <2>3. QED
    BY <1>20, <2>1, <2>2 DEF ReceiveCancel
<1>21. ASSUME NEW h \in Cancellers, StampCancel(h) PROVE TypeOK'
  <2> DEFINE j == canceller[h].job
  <2>1. canceller' = [canceller EXCEPT ![h] =
                         [canceller[h] EXCEPT !.pc = "stamped",
                                              !.stamp = Now(j)]]
    BY <1>21 DEF StampCancel
  <2>2. j \in Jobs
    BY <1>21 DEF WritersKnowTheirJob, StampCancel
  <2>3. Now(j) \in Nat /\ clock' \in [Jobs -> Nat]
    BY <1>21, <2>2, ClockTicks DEF StampCancel, Now
  <2>4. canceller' \in [Cancellers -> Canceller]
    BY <2>1, <2>3, CancellerUpdates
  <2>5. QED
    BY <1>21, <2>3, <2>4 DEF StampCancel
<1>22. ASSUME NEW h \in Cancellers, CommitCancel(h) PROVE TypeOK'
  <2>1. [canceller[h] EXCEPT !.pc = "done"] \in Canceller
    BY DEF Canceller
  <2>2. canceller' \in [Cancellers -> Canceller]
    BY <1>22, <2>1 DEF CommitCancel
  <2>3. canceller[h].job \in Jobs => CancelledRow(h) \in Row
    <3>1. canceller[h].stamp \in Nat
      BY DEF Canceller
    <3>2. QED
      BY <3>1, RowUpdates DEF CancelledRow, Terminal
  <2>4. jobs' \in [Jobs -> Row]
    BY <1>22, <2>3 DEF CommitCancel
  <2>5. QED
    BY <1>22, <2>2, <2>4 DEF CommitCancel
<1>23. ASSUME NEW h \in Cancellers, FlagCancel(h) PROVE TypeOK'
  <2>1. [canceller[h] EXCEPT !.pc = "done"] \in Canceller
    BY DEF Canceller
  <2>2. canceller' \in [Cancellers -> Canceller]
    BY <1>23, <2>1 DEF FlagCancel
  <2>3. \A j \in Jobs : worker[j].pc \in Stages
    BY DEF Worker
  <2>4. flaggedAt' \in [Jobs -> Stages]
    BY <1>23, <2>3 DEF FlagCancel
  <2>5. QED
    BY <1>23, <2>2, <2>4 DEF FlagCancel
<1>24. ASSUME NEW h \in Deleters, NEW c \in Credentials, CheckDelete(h, c)
       PROVE  TypeOK'
  <2>1. PICK s \in {"done", "approved"} :
           deleter' = [deleter EXCEPT ![h] = [pc |-> s, credential |-> c]]
    BY <1>24 DEF CheckDelete
  <2>2. [pc |-> s, credential |-> c] \in Deleter
    BY DEF Deleter
  <2>3. QED
    BY <1>24, <2>1, <2>2 DEF CheckDelete
<1>25. ASSUME NEW h \in Deleters, CommitDelete(h) PROVE TypeOK'
  <2>1. [deleter[h] EXCEPT !.pc = "done"] \in Deleter
    BY DEF Deleter
  <2>2. deleter' \in [Deleters -> Deleter]
    BY <1>25, <2>1 DEF CommitDelete
  <2>3. \A j \in Jobs : [jobs[j] EXCEPT !.credential = NoCredential] \in Row
    BY RowUpdates
  <2>4. jobs' \in [Jobs -> Row]
    BY <1>25, <2>3 DEF CommitDelete
  <2>5. QED
    BY <1>25, <2>2, <2>4 DEF CommitDelete
<1>26. ASSUME NEW j \in Jobs, DestroyResource(j) PROVE TypeOK'
  <2>1. cloud' \in [Jobs -> Clouds]
    BY <1>26 DEF DestroyResource, Clouds
  <2>2. QED
    BY <1>26, <2>1 DEF DestroyResource
<1>27. ASSUME RecordDestroy PROVE TypeOK'
  <2>1. destroyer \in Jobs /\ Settle(destroyer, "cancelled")
    BY <1>27 DEF RecordDestroy
  <2>2. jobs' \in [Jobs -> Row] /\ clock' \in [Jobs -> Nat]
    BY <2>1, JobSettles, ClockTicks DEF Settle, Terminal
  <2>3. QED
    BY <1>27, <2>2 DEF RecordDestroy
<1>28. ASSUME Crash PROVE TypeOK'
  <2>1. \A j \in Jobs : [worker[j] EXCEPT !.pc = "lost"] \in Worker
    <3>1. "lost" \in Stages
      BY DEF Stages
    <3>2. QED
      BY <3>1, WorkerUpdates DEF Worker
  <2>2. \A h \in Creators :
           [creator[h] EXCEPT !.pc = "done", !.reply = "lost"] \in Creator
    BY CreatorUpdates DEF Replies
  <2>3. \A h \in Cancellers : [canceller[h] EXCEPT !.pc = "done"] \in Canceller
    BY DEF Canceller
  <2>4. \A h \in Deleters : [deleter[h] EXCEPT !.pc = "done"] \in Deleter
    BY DEF Deleter
  <2>5. worker' \in [Jobs -> Worker]
    BY <1>28, <2>1 DEF Crash
  <2>6. creator' \in [Creators -> Creator]
    BY <1>28, <2>2 DEF Crash
  <2>7. canceller' \in [Cancellers -> Canceller]
    BY <1>28, <2>3 DEF Crash
  <2>8. deleter' \in [Deleters -> Deleter]
    BY <1>28, <2>4 DEF Crash
  <2>9. cloud' \in [Jobs -> Clouds]
    BY <1>28 DEF Crash, Clouds
  <2>10. /\ UNCHANGED <<tables, applies, destroyer, clock, flaggedAt>>
         /\ cancelRequested' = {} /\ initLock' = NoJob
         /\ faults' = faults + 1
    BY <1>28 DEF Crash
  <2>11. QED
    BY <2>5, <2>6, <2>7, <2>8, <2>9, <2>10
<1>29. ASSUME UNCHANGED vars PROVE TypeOK'
  BY <1>29 DEF vars
<1> QED
  BY <1>1, <1>2, <1>3, <1>4, <1>5, <1>6, <1>7, <1>8, <1>9, <1>10, <1>11,
     <1>12, <1>13, <1>14, <1>15, <1>16, <1>17, <1>18, <1>19, <1>20, <1>21,
     <1>22, <1>23, <1>24, <1>25, <1>26, <1>27, <1>28, <1>29
     DEF Next, CreateSteps, WorkerStep, CancelSteps, DeleteSteps

(***************************************************************************)
(* The invariant                                                           *)
(***************************************************************************)

(* What the invariant says of a job depends on nothing but these.          *)
Untouched(i) ==
    /\ jobs'[i].status = jobs[i].status
    /\ jobs'[i].key = jobs[i].key
    /\ jobs'[i].started = jobs[i].started
    /\ jobs'[i].finished = jobs[i].finished
    /\ worker'[i] = worker[i]
    /\ applies'[i] = applies[i] /\ cloud'[i] = cloud[i]
    /\ audited'[i] = audited[i] /\ notified'[i] = notified[i]
    /\ clock'[i] \in {clock[i], clock[i] + 1}
    /\ flaggedAt'[i] = flaggedAt[i]
    /\ i \in inventory' => i \in inventory
    /\ i \in cancelRequested => i \in cancelRequested'

(* The types of what belongs to one job.                                   *)
LEMMA JobTypes ==
  ASSUME TypeOK, NEW j \in Jobs
  PROVE  /\ jobs[j].status \in {"absent"} \union Active \union Terminal
         /\ jobs[j].started \in Nat /\ jobs[j].finished \in Nat
         /\ worker[j].pc \in Stages /\ worker[j].stamp \in Nat
         /\ worker[j].result \in Results
         /\ clock[j] \in Nat /\ applies[j] \in Nat /\ audited[j] \in Nat
         /\ notified[j]["success"] \in Nat /\ notified[j]["failed"] \in Nat
         /\ cloud[j] \in Clouds /\ flaggedAt[j] \in Stages
<1>1. jobs[j] \in Row /\ worker[j] \in Worker
  BY DEF TypeOK
<1>2. QED
  BY <1>1 DEF TypeOK, Row, Worker

(* A job no step touches keeps its invariant.                              *)
LEMMA UntouchedKeeps ==
  ASSUME TypeOK, NEW j \in Jobs, JobInv(j), Untouched(j)
  PROVE  JobInv(j)'
<1>1. StatusFollowsTask(j)' /\ CloudFollowsTask(j)'
  BY DEF JobInv, Untouched, StatusFollowsTask, CloudFollowsTask, Exists
<1>2. ToldAtTheEnd(j)'
  BY DEF JobInv, Untouched, ToldAtTheEnd
<1>3. FlagWaitsForTask(j)'
  BY DEF JobInv, Untouched, FlagWaitsForTask
<1>4. StampsInOrder(j)'
  BY JobTypes DEF JobInv, Untouched, StampsInOrder, FinishedAfterStarted
<1>5. QED
  BY <1>1, <1>2, <1>3, <1>4 DEF JobInv

(* A step of the task of j, which leaves the threads and all other jobs    *)
(* alone.                                                                  *)
LEMMA TaskStepKeeps ==
  ASSUME IInv, TypeOK', NEW j \in Jobs,
         \A i \in Jobs \ {j} : Untouched(i),
         JobInv(j)', InitIsSerial',
         jobs'[j].key = jobs[j].key, Exists(j), Exists(j)',
         worker[j].pc # "none",
         UNCHANGED <<creator, canceller, destroyer>>
  PROVE  IInv'
<1> USE DEF IInv
<1>1. \A i \in Jobs : JobInv(i)'
  BY UntouchedKeeps
<1>2. \A i \in Jobs : jobs'[i].key = jobs[i].key /\ (Exists(i)' <=> Exists(i))
  BY DEF Untouched, Exists
<1>3. OneJobPerKey'
  BY <1>2 DEF OneJobPerKey
<1>4. WritersKnowTheirJob'
  <2>1. destroyer \in Jobs \union {NoJob}
    BY DEF TypeOK
  <2>2. QED
    BY <1>2, <2>1 DEF WritersKnowTheirJob
<1>5. CreatorsHoldFreshJobs'
  BY <1>2 DEF CreatorsHoldFreshJobs, Untouched
<1>6. QED
  BY <1>1, <1>3, <1>4, <1>5

(* The lock is safe in a step that leaves it alone and moves one task, not *)
(* into or out of terraform init.                                          *)
LEMMA SerialKept ==
  ASSUME TypeOK, InitIsSerial, NEW j \in Jobs, initLock' = initLock,
         \A i \in Jobs \ {j} : worker'[i] = worker[i],
         worker[j].pc # "init", worker'[j].pc # "init"
  PROVE  InitIsSerial'
BY DEF InitIsSerial

(* A task that settles its row for good: what _finalize_job leaves of it.  *)
LEMMA TaskFinalizes ==
  ASSUME TypeOK, NEW j \in Jobs, NEW st \in {"success", "failed"},
         FinalizeJob(j, st), GoTo(j, "ended")
  PROVE  /\ worker'[j].pc = "ended"
         /\ worker'[j].stamp = worker[j].stamp
         /\ jobs'[j].status = st
         /\ jobs'[j].finished = clock[j] + 1
         /\ jobs'[j].started = jobs[j].started
         /\ jobs'[j].key = jobs[j].key
         /\ clock'[j] = clock[j] + 1
         /\ notified'[j][st] = notified[j][st] + 1
         /\ \A k \in {"success", "failed"} \ {st} :
               notified'[j][k] = notified[j][k]
         /\ audited'[j] = audited[j] + 1
         /\ \A i \in Jobs \ {j} :
               /\ worker'[i] = worker[i] /\ jobs'[i] = jobs[i]
               /\ clock'[i] = clock[i] /\ notified'[i] = notified[i]
               /\ audited'[i] = audited[i]
<1>1. /\ jobs \in [Jobs -> Row] /\ worker \in [Jobs -> Worker]
      /\ clock \in [Jobs -> Nat] /\ audited \in [Jobs -> Nat]
      /\ notified \in [Jobs -> [{"success", "failed"} -> Nat]]
  BY DEF TypeOK
<1>2. st \in Terminal /\ Settle(j, st) /\ Tick(j) /\ "ended" \in Stages
  BY DEF FinalizeJob, Settle, Terminal, Stages
<1>3. /\ worker'[j].pc = "ended"
      /\ worker'[j].stamp = worker[j].stamp
      /\ \A i \in Jobs \ {j} : worker'[i] = worker[i]
  BY <1>1, <1>2, WorkerMoves
<1>4. /\ jobs'[j].status = st
      /\ jobs'[j].finished = clock[j] + 1
      /\ jobs'[j].started = jobs[j].started
      /\ jobs'[j].key = jobs[j].key
      /\ \A i \in Jobs \ {j} : jobs'[i] = jobs[i]
  BY <1>1, <1>2, JobSettles
<1>5. /\ clock'[j] = clock[j] + 1
      /\ \A i \in Jobs \ {j} : clock'[i] = clock[i]
  BY <1>1, <1>2, ClockTicks
<1>6. /\ notified'[j][st] = notified[j][st] + 1
      /\ \A k \in {"success", "failed"} \ {st} :
            notified'[j][k] = notified[j][k]
      /\ \A i \in Jobs \ {j} : notified'[i] = notified[i]
      /\ audited'[j] = audited[j] + 1
      /\ \A i \in Jobs \ {j} : audited'[i] = audited[i]
  BY <1>1, JobFinalized
<1>7. QED
  BY <1>3, <1>4, <1>5, <1>6

(* A task that found its cancel flag: cancelled, and nobody is told.       *)
LEMMA TaskCancels ==
  ASSUME TypeOK, NEW j \in Jobs, CancelJob(j), GoTo(j, "ended")
  PROVE  /\ worker'[j].pc = "ended"
         /\ worker'[j].stamp = worker[j].stamp
         /\ jobs'[j].status = "cancelled"
         /\ jobs'[j].finished = clock[j] + 1
         /\ jobs'[j].started = jobs[j].started
         /\ jobs'[j].key = jobs[j].key
         /\ clock'[j] = clock[j] + 1
         /\ notified' = notified /\ audited' = audited
         /\ cancelRequested' = cancelRequested \ {j}
         /\ \A i \in Jobs \ {j} :
               /\ worker'[i] = worker[i] /\ jobs'[i] = jobs[i]
               /\ clock'[i] = clock[i]
<1>1. /\ jobs \in [Jobs -> Row] /\ worker \in [Jobs -> Worker]
      /\ clock \in [Jobs -> Nat]
  BY DEF TypeOK
<1>2. /\ "cancelled" \in Terminal /\ Settle(j, "cancelled") /\ Tick(j)
      /\ "ended" \in Stages
  BY DEF CancelJob, Settle, Terminal, Stages
<1>3. /\ worker'[j].pc = "ended"
      /\ worker'[j].stamp = worker[j].stamp
      /\ \A i \in Jobs \ {j} : worker'[i] = worker[i]
  BY <1>1, <1>2, WorkerMoves
<1>4. /\ jobs'[j].status = "cancelled"
      /\ jobs'[j].finished = clock[j] + 1
      /\ jobs'[j].started = jobs[j].started
      /\ jobs'[j].key = jobs[j].key
      /\ \A i \in Jobs \ {j} : jobs'[i] = jobs[i]
  BY <1>1, <1>2, JobSettles
<1>5. /\ clock'[j] = clock[j] + 1
      /\ \A i \in Jobs \ {j} : clock'[i] = clock[i]
  BY <1>1, <1>2, ClockTicks
<1>6. QED
  BY <1>3, <1>4, <1>5 DEF CancelJob

(* Every step of a background task keeps the invariant.                    *)
LEMMA WorkerStepInv ==
  ASSUME IInv, TypeOK', NEW j \in Jobs, WorkerStep(j) \/ TaskRaises(j)
  PROVE  IInv'
<1> USE ConstantsAssumption
<1>0. /\ TypeOK /\ JobInv(j) /\ InitIsSerial
      /\ jobs \in [Jobs -> Row] /\ worker \in [Jobs -> Worker]
      /\ clock \in [Jobs -> Nat] /\ audited \in [Jobs -> Nat]
      /\ notified \in [Jobs -> [{"success", "failed"} -> Nat]]
      /\ applies \in [Jobs -> Nat] /\ cloud \in [Jobs -> Clouds]
  BY DEF IInv, TypeOK
<1>t. /\ jobs[j].status \in {"absent"} \union Active \union Terminal
      /\ jobs[j].started \in Nat /\ jobs[j].finished \in Nat
      /\ worker[j].pc \in Stages /\ worker[j].stamp \in Nat
      /\ worker[j].result \in Results
      /\ clock[j] \in Nat /\ applies[j] \in Nat /\ audited[j] \in Nat
      /\ notified[j]["success"] \in Nat /\ notified[j]["failed"] \in Nat
      /\ cloud[j] \in Clouds /\ flaggedAt[j] \in Stages
  BY <1>0, JobTypes
<1> USE DEF tables, memory, world
<1>a. worker[j].pc # "none" => Exists(j)
  BY <1>0 DEF JobInv, StatusFollowsTask

<1>1. ASSUME StartJob(j) PROVE IInv'
  <2>1. CASE j \in cancelRequested /\ CancelJob(j) /\ GoTo(j, "ended")
    <3>1. /\ worker'[j].pc = "ended"
          /\ worker'[j].stamp = worker[j].stamp
          /\ jobs'[j].status = "cancelled"
          /\ jobs'[j].finished = clock[j] + 1
          /\ jobs'[j].started = jobs[j].started
          /\ jobs'[j].key = jobs[j].key
          /\ clock'[j] = clock[j] + 1
          /\ \A i \in Jobs \ {j} :
                /\ worker'[i] = worker[i] /\ jobs'[i] = jobs[i]
                /\ clock'[i] = clock[i]
      BY <1>0, <2>1, TaskCancels
    <3>5. \A i \in Jobs \ {j} : Untouched(i)
      BY <1>1, <2>1, <3>1 DEF StartJob, CancelJob, Untouched
    <3>6. InitIsSerial'
      BY <1>0, <1>1, <3>1, SerialKept DEF StartJob
    <3>7. JobInv(j)'
      BY <1>0, <1>t, <1>1, <2>1, <3>1
         DEF StartJob, CancelJob, JobInv, StatusFollowsTask, Exists,
             CloudFollowsTask, ToldAtTheEnd, FlagWaitsForTask, StampsInOrder,
             FinishedAfterStarted, BeforeStart, BeforeApply, Terraforming
    <3>8. QED
      BY <1>1, <1>a, <3>1, <3>5, <3>6, <3>7, TaskStepKeeps DEF StartJob, Exists
  <2>2. CASE /\ j \notin cancelRequested
             /\ worker' = [worker EXCEPT ![j] =
                   [@ EXCEPT !.pc = "starting", !.stamp = Now(j),
                             !.credential = jobs[j].credential]]
             /\ Tick(j)
             /\ UNCHANGED <<jobs, notified, audited, cancelRequested>>
    <3>1. /\ worker'[j].pc = "starting"
          /\ worker'[j].stamp = clock[j] + 1
          /\ \A i \in Jobs \ {j} : worker'[i] = worker[i]
      BY <1>0, <2>2 DEF Worker, Now
    <3>4. /\ clock'[j] = clock[j] + 1
          /\ \A i \in Jobs \ {j} : clock'[i] = clock[i]
      BY <1>0, <2>2, ClockTicks
    <3>5. \A i \in Jobs \ {j} : Untouched(i)
      BY <1>1, <2>2, <3>1, <3>4 DEF StartJob, Untouched
    <3>6. InitIsSerial'
      BY <1>0, <1>1, <3>1, SerialKept DEF StartJob
    <3>7. JobInv(j)'
      BY <1>0, <1>t, <1>1, <2>2, <3>1, <3>4
         DEF StartJob, JobInv, StatusFollowsTask, Exists,
             CloudFollowsTask, ToldAtTheEnd, FlagWaitsForTask, StampsInOrder,
             FinishedAfterStarted, BeforeStart, BeforeApply, Terraforming
    <3>8. QED
      BY <1>1, <1>a, <2>2, <3>5, <3>6, <3>7, TaskStepKeeps DEF StartJob, Exists
  <2>3. QED
    BY <1>1, <2>1, <2>2 DEF StartJob
<1>2. ASSUME CommitStart(j) PROVE IInv'
  <2>1. CASE FinishedAfterStarted(StartedRow(j))
    <3>1. /\ worker'[j].pc = "checking"
          /\ worker'[j].stamp = worker[j].stamp
          /\ \A i \in Jobs \ {j} : worker'[i] = worker[i]
      BY <1>0, <1>2, <2>1, WorkerMoves DEF CommitStart, Stages
    <3>2. /\ jobs'[j].status = "running"
          /\ jobs'[j].finished = jobs[j].finished
          /\ jobs'[j].started = worker[j].stamp
          /\ jobs'[j].key = jobs[j].key
          /\ \A i \in Jobs \ {j} : jobs'[i] = jobs[i]
      <4>1. jobs' = [jobs EXCEPT ![j] = StartedRow(j)]
        BY <1>2, <2>1 DEF CommitStart
      <4>2. jobs[j] \in Row
        BY <1>0
      <4>3. /\ StartedRow(j).status = "running"
            /\ StartedRow(j).started = worker[j].stamp
            /\ StartedRow(j).finished = jobs[j].finished
            /\ StartedRow(j).key = jobs[j].key
        BY <4>2 DEF StartedRow, Row
      <4>4. QED
        BY <1>0, <4>1, <4>3
    <3>5. \A i \in Jobs \ {j} : Untouched(i)
      BY <1>2, <3>1, <3>2 DEF CommitStart, Untouched
    <3>6. InitIsSerial'
      BY <1>0, <1>2, <3>1, SerialKept DEF CommitStart
    <3>7. JobInv(j)'
      BY <1>0, <1>t, <1>2, <2>1, <3>1, <3>2
         DEF CommitStart, JobInv, StatusFollowsTask, Exists, StartedRow, Row,
             CloudFollowsTask, ToldAtTheEnd, FlagWaitsForTask, StampsInOrder,
             FinishedAfterStarted, BeforeStart, BeforeApply, Terraforming
    <3>8. QED
      BY <1>2, <1>a, <3>2, <3>5, <3>6, <3>7, TaskStepKeeps
         DEF CommitStart, Exists
  <2>2. CASE ~FinishedAfterStarted(StartedRow(j))
    <3>1. /\ worker'[j].pc = "lost"
          /\ worker'[j].stamp = worker[j].stamp
          /\ \A i \in Jobs \ {j} : worker'[i] = worker[i]
      BY <1>0, <1>2, <2>2, WorkerMoves DEF CommitStart, Stages
    <3>2. jobs' = jobs
      BY <1>2, <2>2 DEF CommitStart
    <3>5. \A i \in Jobs \ {j} : Untouched(i)
      BY <1>2, <3>1, <3>2 DEF CommitStart, Untouched
    <3>6. InitIsSerial'
      BY <1>0, <1>2, <3>1, SerialKept DEF CommitStart
    <3>7. JobInv(j)'
      BY <1>0, <1>t, <1>2, <2>2, <3>1, <3>2
         DEF CommitStart, JobInv, StatusFollowsTask, Exists,
             CloudFollowsTask, ToldAtTheEnd, FlagWaitsForTask, StampsInOrder,
             FinishedAfterStarted, BeforeStart, BeforeApply, Terraforming
    <3>8. QED
      BY <1>2, <1>a, <3>2, <3>5, <3>6, <3>7, TaskStepKeeps
         DEF CommitStart, Exists
  <2>3. QED
    BY <2>1, <2>2
<1>3. ASSUME FailEarly(j) PROVE IInv'
  <2>1. FinalizeJob(j, "failed") /\ GoTo(j, "ended")
    BY <1>3 DEF FailEarly
  <2>2. \A i \in Jobs \ {j} : Untouched(i)
    BY <1>0, <1>3, <2>1, TaskFinalizes DEF FailEarly, Untouched
  <2>3. InitIsSerial'
    BY <1>0, <1>3, <2>1, TaskFinalizes, SerialKept DEF FailEarly
  <2>4. JobInv(j)'
    BY <1>0, <1>t, <1>3, <2>1, TaskFinalizes
       DEF FailEarly, JobInv, StatusFollowsTask, Exists, CloudFollowsTask,
           ToldAtTheEnd, FlagWaitsForTask, StampsInOrder,
           FinishedAfterStarted, BeforeStart, BeforeApply, Terraforming
  <2>5. QED
    BY <1>0, <1>3, <1>a, <2>1, <2>2, <2>3, <2>4, TaskFinalizes, TaskStepKeeps
       DEF FailEarly, Exists
<1>4. ASSUME CredentialVanished(j) PROVE IInv'
  <2>1. /\ worker'[j].pc = "lost"
        /\ worker'[j].stamp = worker[j].stamp
        /\ \A i \in Jobs \ {j} : worker'[i] = worker[i]
    BY <1>0, <1>4, WorkerMoves DEF CredentialVanished, Stages
  <2>2. \A i \in Jobs \ {j} : Untouched(i)
    BY <1>0, <1>4, <2>1 DEF CredentialVanished, Untouched
  <2>3. InitIsSerial'
    BY <1>0, <1>4, <2>1, SerialKept DEF CredentialVanished
  <2>4. JobInv(j)'
    BY <1>0, <1>t, <1>4, <2>1
     DEF CredentialVanished, JobInv, StatusFollowsTask, Exists,
     CloudFollowsTask,
         ToldAtTheEnd, FlagWaitsForTask, StampsInOrder,
         FinishedAfterStarted, BeforeStart, BeforeApply, Terraforming
  <2>5. QED
    BY <1>4, <1>a, <2>2, <2>3, <2>4, TaskStepKeeps
       DEF CredentialVanished, Exists
<1>5. ASSUME BeginRun(j) PROVE IInv'
  <2>1. /\ worker'[j].pc \in {"demo", "preparing"}
        /\ worker'[j].stamp = worker[j].stamp
        /\ \A i \in Jobs \ {j} : worker'[i] = worker[i]
    BY <1>0, <1>5, WorkerMoves DEF BeginRun, Stages
  <2>2. \A i \in Jobs \ {j} : Untouched(i)
    BY <1>0, <1>5, <2>1 DEF BeginRun, Untouched
  <2>3. InitIsSerial'
    BY <1>0, <1>5, <2>1, SerialKept DEF BeginRun
  <2>4. JobInv(j)'
    BY <1>0, <1>t, <1>5, <2>1
     DEF BeginRun, JobInv, StatusFollowsTask, Exists, CloudFollowsTask,
         ToldAtTheEnd, FlagWaitsForTask, StampsInOrder,
         FinishedAfterStarted, BeforeStart, BeforeApply, Terraforming
  <2>5. QED
    BY <1>5, <1>a, <2>2, <2>3, <2>4, TaskStepKeeps
       DEF BeginRun, Exists
<1>6. ASSUME DemoRun(j) PROVE IInv'
  <2>1. /\ worker'[j].pc = "finishing" /\ worker'[j].result = "created"
        /\ worker'[j].stamp = worker[j].stamp
        /\ \A i \in Jobs \ {j} : worker'[i] = worker[i]
    BY <1>0, <1>6, WorkerReturns DEF DemoRun, Results
  <2>2. \A i \in Jobs \ {j} : Untouched(i)
    BY <1>0, <1>6, <2>1 DEF DemoRun, Untouched
  <2>3. InitIsSerial'
    BY <1>0, <1>6, <2>1, SerialKept DEF DemoRun
  <2>4. JobInv(j)'
    BY <1>0, <1>t, <1>6, <2>1
     DEF DemoRun, JobInv, StatusFollowsTask, Exists, CloudFollowsTask,
         ToldAtTheEnd, FlagWaitsForTask, StampsInOrder,
         FinishedAfterStarted, BeforeStart, BeforeApply, Terraforming
  <2>5. QED
    BY <1>6, <1>a, <2>2, <2>3, <2>4, TaskStepKeeps
       DEF DemoRun, Exists
<1>7. ASSUME PrepareWorkspace(j) PROVE IInv'
  <2>1. /\ \/ worker'[j].pc = "waiting"
           \/ worker'[j].pc = "finishing" /\ worker'[j].result = "failed"
        /\ worker'[j].stamp = worker[j].stamp
        /\ \A i \in Jobs \ {j} : worker'[i] = worker[i]
    BY <1>0, <1>7, WorkerMoves, WorkerReturns
       DEF PrepareWorkspace, Stages, Results
  <2>2. \A i \in Jobs \ {j} : Untouched(i)
    BY <1>0, <1>7, <2>1 DEF PrepareWorkspace, Untouched
  <2>3. InitIsSerial'
    BY <1>0, <1>7, <2>1, SerialKept DEF PrepareWorkspace
  <2>4. JobInv(j)'
    BY <1>0, <1>t, <1>7, <2>1
     DEF PrepareWorkspace, JobInv, StatusFollowsTask, Exists, CloudFollowsTask,
         ToldAtTheEnd, FlagWaitsForTask, StampsInOrder,
         FinishedAfterStarted, BeforeStart, BeforeApply, Terraforming
  <2>5. QED
    BY <1>7, <1>a, <2>2, <2>3, <2>4, TaskStepKeeps
       DEF PrepareWorkspace, Exists
<1>8. ASSUME BeginInit(j) PROVE IInv'
  <2>1. /\ worker'[j].pc = "init"
        /\ worker'[j].stamp = worker[j].stamp
        /\ \A i \in Jobs \ {j} : worker'[i] = worker[i]
    BY <1>0, <1>8, WorkerMoves DEF BeginInit, Stages
  <2>2. \A i \in Jobs \ {j} : Untouched(i)
    BY <1>0, <1>8, <2>1 DEF BeginInit, Untouched
  <2>3. InitIsSerial'
    BY <1>0, <1>8, <2>1 DEF BeginInit, InitIsSerial
  <2>4. JobInv(j)'
    BY <1>0, <1>t, <1>8, <2>1
     DEF BeginInit, JobInv, StatusFollowsTask, Exists, CloudFollowsTask,
         ToldAtTheEnd, FlagWaitsForTask, StampsInOrder,
         FinishedAfterStarted, BeforeStart, BeforeApply, Terraforming
  <2>5. QED
    BY <1>8, <1>a, <2>2, <2>3, <2>4, TaskStepKeeps
       DEF BeginInit, Exists
<1>9. ASSUME EndInit(j) PROVE IInv'
  <2>1. /\ \/ worker'[j].pc = "planning" /\ j \notin cancelRequested
           \/ /\ worker'[j].pc = "finishing"
              /\ worker'[j].result \in {"cancelled", "failed"}
        /\ worker'[j].stamp = worker[j].stamp
        /\ \A i \in Jobs \ {j} : worker'[i] = worker[i]
    BY <1>0, <1>9, WorkerMoves, WorkerReturns
       DEF EndInit, CheckCancelThen, Stages, Results
  <2>2. \A i \in Jobs \ {j} : Untouched(i)
    BY <1>0, <1>9, <2>1 DEF EndInit, Untouched
  <2>3. InitIsSerial'
    BY <1>0, <1>9, <2>1 DEF EndInit, InitIsSerial
  <2>4. JobInv(j)'
    BY <1>0, <1>t, <1>9, <2>1
     DEF EndInit, JobInv, StatusFollowsTask, Exists, CloudFollowsTask,
         ToldAtTheEnd, FlagWaitsForTask, StampsInOrder,
         FinishedAfterStarted, BeforeStart, BeforeApply, Terraforming
  <2>5. QED
    BY <1>9, <1>a, <2>2, <2>3, <2>4, TaskStepKeeps
       DEF EndInit, Exists
<1>10. ASSUME EndPlan(j) PROVE IInv'
  <2>1. /\ \/ /\ worker'[j].pc = "applying" /\ j \notin cancelRequested
              /\ applies'[j] = applies[j] + 1
           \/ /\ worker'[j].pc = "finishing" /\ applies'[j] = applies[j]
              /\ worker'[j].result \in {"cancelled", "failed"}
        /\ worker'[j].stamp = worker[j].stamp
        /\ \A i \in Jobs \ {j} : worker'[i] = worker[i]
    BY <1>0, <1>10, WorkerMoves, WorkerReturns
       DEF EndPlan, CheckCancelThen, Stages, Results
  <2>2. \A i \in Jobs \ {j} : Untouched(i)
    BY <1>0, <1>10, <2>1 DEF EndPlan, Untouched
  <2>3. InitIsSerial'
    BY <1>0, <1>10, <2>1, SerialKept DEF EndPlan
  <2>4. JobInv(j)'
    BY <1>0, <1>t, <1>10, <2>1
     DEF EndPlan, JobInv, StatusFollowsTask, Exists, CloudFollowsTask,
         ToldAtTheEnd, FlagWaitsForTask, StampsInOrder,
         FinishedAfterStarted, BeforeStart, BeforeApply, Terraforming
  <2>5. QED
    BY <1>10, <1>a, <2>2, <2>3, <2>4, TaskStepKeeps
       DEF EndPlan, Exists
<1>11. ASSUME EndApply(j) PROVE IInv'
  <2>1. /\ \/ worker'[j].pc = "output" /\ cloud'[j] = "exists"
           \/ /\ worker'[j].pc = "finishing" /\ worker'[j].result = "failed"
              /\ cloud'[j] \in {cloud[j], "exists"}
        /\ worker'[j].stamp = worker[j].stamp
        /\ \A i \in Jobs \ {j} : worker'[i] = worker[i]
    BY <1>0, <1>11, WorkerMoves, WorkerReturns DEF EndApply, Stages, Results
  <2>2. \A i \in Jobs \ {j} : Untouched(i)
    BY <1>0, <1>11, <2>1 DEF EndApply, Untouched
  <2>3. InitIsSerial'
    BY <1>0, <1>11, <2>1, SerialKept DEF EndApply
  <2>4. JobInv(j)'
    BY <1>0, <1>t, <1>11, <2>1
     DEF EndApply, JobInv, StatusFollowsTask, Exists, CloudFollowsTask,
         ToldAtTheEnd, FlagWaitsForTask, StampsInOrder,
         FinishedAfterStarted, BeforeStart, BeforeApply, Terraforming
  <2>5. QED
    BY <1>11, <1>a, <2>2, <2>3, <2>4, TaskStepKeeps
       DEF EndApply, Exists
<1>12. ASSUME EndOutput(j) PROVE IInv'
  <2>1. /\ worker'[j].pc = "finishing"
        /\ worker'[j].stamp = worker[j].stamp
        /\ \A i \in Jobs \ {j} : worker'[i] = worker[i]
    BY <1>0, <1>12, WorkerReturns DEF EndOutput, Results
  <2>2. \A i \in Jobs \ {j} : Untouched(i)
    BY <1>0, <1>12, <2>1 DEF EndOutput, Untouched
  <2>3. InitIsSerial'
    BY <1>0, <1>12, <2>1, SerialKept DEF EndOutput
  <2>4. JobInv(j)'
    BY <1>0, <1>t, <1>12, <2>1
     DEF EndOutput, JobInv, StatusFollowsTask, Exists, CloudFollowsTask,
         ToldAtTheEnd, FlagWaitsForTask, StampsInOrder,
         FinishedAfterStarted, BeforeStart, BeforeApply, Terraforming
  <2>5. QED
    BY <1>12, <1>a, <2>2, <2>3, <2>4, TaskStepKeeps
       DEF EndOutput, Exists
<1>13. ASSUME TaskRaises(j) PROVE IInv'
  <2>1. /\ worker'[j].pc = "lost"
        /\ worker'[j].stamp = worker[j].stamp
        /\ \A i \in Jobs \ {j} : worker'[i] = worker[i]
    BY <1>0, <1>13, WorkerMoves DEF TaskRaises, Stages
  <2>2. \A i \in Jobs \ {j} : Untouched(i)
    BY <1>0, <1>13, <2>1 DEF TaskRaises, Untouched
  <2>3. InitIsSerial'
    BY <1>0, <1>13, <2>1 DEF TaskRaises, InitIsSerial
  <2>4. JobInv(j)'
    BY <1>0, <1>t, <1>13, <2>1
     DEF TaskRaises, JobInv, StatusFollowsTask, Exists, CloudFollowsTask,
         ToldAtTheEnd, FlagWaitsForTask, StampsInOrder,
         FinishedAfterStarted, BeforeStart, BeforeApply, Terraforming
  <2>5. QED
    BY <1>13, <1>a, <2>2, <2>3, <2>4, TaskStepKeeps
       DEF TaskRaises, Exists
<1>14. ASSUME FinishJob(j) PROVE IInv'
  <2>1. CASE /\ worker[j].result = "cancelled" \/ j \in cancelRequested
             /\ CancelJob(j) /\ GoTo(j, "ended")
             /\ UNCHANGED inventory
    <3>1. \A i \in Jobs \ {j} : Untouched(i)
      BY <1>0, <1>14, <2>1, TaskCancels DEF FinishJob, Untouched
    <3>2. InitIsSerial'
      BY <1>0, <1>14, <2>1, TaskCancels, SerialKept DEF FinishJob
    <3>3. JobInv(j)'
      BY <1>0, <1>t, <1>14, <2>1, TaskCancels
         DEF FinishJob, JobInv, StatusFollowsTask, Exists, CloudFollowsTask,
             ToldAtTheEnd, FlagWaitsForTask, StampsInOrder,
             FinishedAfterStarted, BeforeStart, BeforeApply, Terraforming
    <3>4. QED
      BY <1>0, <1>14, <1>a, <2>1, <3>1, <3>2, <3>3, TaskCancels, TaskStepKeeps
         DEF FinishJob, Exists
  <2>2. CASE /\ worker[j].result = "failed" /\ j \notin cancelRequested
             /\ FinalizeJob(j, "failed") /\ GoTo(j, "ended")
             /\ UNCHANGED <<inventory, cancelRequested>>
    <3>1. \A i \in Jobs \ {j} : Untouched(i)
      BY <1>0, <1>14, <2>2, TaskFinalizes DEF FinishJob, Untouched
    <3>2. InitIsSerial'
      BY <1>0, <1>14, <2>2, TaskFinalizes, SerialKept DEF FinishJob
    <3>3. JobInv(j)'
      BY <1>0, <1>t, <1>14, <2>2, TaskFinalizes
         DEF FinishJob, JobInv, StatusFollowsTask, Exists, CloudFollowsTask,
             ToldAtTheEnd, FlagWaitsForTask, StampsInOrder,
             FinishedAfterStarted, BeforeStart, BeforeApply, Terraforming
    <3>4. QED
      BY <1>0, <1>14, <1>a, <2>2, <3>1, <3>2, <3>3, TaskFinalizes,
         TaskStepKeeps DEF FinishJob, Exists
  <2>3. CASE /\ worker[j].result \in {"created", "created_no_id"}
             /\ j \notin cancelRequested
             /\ FinalizeJob(j, "success") /\ GoTo(j, "ended")
             /\ inventory' \in {inventory, inventory \union {j}}
             /\ UNCHANGED cancelRequested
    <3>1. \A i \in Jobs \ {j} : Untouched(i)
      BY <1>0, <1>14, <2>3, TaskFinalizes DEF FinishJob, Untouched
    <3>2. InitIsSerial'
      BY <1>0, <1>14, <2>3, TaskFinalizes, SerialKept DEF FinishJob
    <3>3. JobInv(j)'
      BY <1>0, <1>t, <1>14, <2>3, TaskFinalizes
         DEF FinishJob, JobInv, StatusFollowsTask, Exists, CloudFollowsTask,
             ToldAtTheEnd, FlagWaitsForTask, StampsInOrder,
             FinishedAfterStarted, BeforeStart, BeforeApply, Terraforming
    <3>4. QED
      BY <1>0, <1>14, <1>a, <2>3, <3>1, <3>2, <3>3, TaskFinalizes,
         TaskStepKeeps DEF FinishJob, Exists
  <2>4. CASE /\ GoTo(j, "lost")
             /\ UNCHANGED <<jobs, notified, audited, inventory,
                            cancelRequested, clock>>
    <3>0. /\ worker'[j].pc = "lost"
          /\ worker'[j].stamp = worker[j].stamp
          /\ \A i \in Jobs \ {j} : worker'[i] = worker[i]
      BY <1>0, <2>4, WorkerMoves DEF Stages
    <3>1. \A i \in Jobs \ {j} : Untouched(i)
      BY <1>14, <2>4, <3>0 DEF FinishJob, Untouched
    <3>2. InitIsSerial'
      BY <1>0, <1>14, <3>0, SerialKept DEF FinishJob
    <3>3. JobInv(j)'
      BY <1>0, <1>t, <1>14, <2>4, <3>0
         DEF FinishJob, JobInv, StatusFollowsTask, Exists, CloudFollowsTask,
             ToldAtTheEnd, FlagWaitsForTask, StampsInOrder,
             FinishedAfterStarted, BeforeStart, BeforeApply, Terraforming
    <3>4. QED
      BY <1>14, <1>a, <2>4, <3>1, <3>2, <3>3, TaskStepKeeps
         DEF FinishJob, Exists
  <2>5. QED
    BY <1>14, <2>1, <2>2, <2>3, <2>4 DEF FinishJob
<1>15. QED
  BY <1>1, <1>2, <1>3, <1>4, <1>5, <1>6, <1>7, <1>8, <1>9, <1>10, <1>11,
     <1>12, <1>13, <1>14 DEF WorkerStep

(* A step that changes nothing the invariant says of a job.                *)
LEMMA ThreadStepKeeps ==
  ASSUME IInv, TypeOK', \A i \in Jobs : Untouched(i),
         WritersKnowTheirJob', CreatorsHoldFreshJobs', initLock' = initLock
  PROVE  IInv'
<1>1. \A i \in Jobs : JobInv(i)'
  BY UntouchedKeeps DEF IInv
<1>2. OneJobPerKey'
  BY DEF IInv, OneJobPerKey, Untouched, Exists
<1>3. InitIsSerial'
  BY DEF IInv, InitIsSerial, Untouched
<1>4. QED
  BY <1>1, <1>2, <1>3 DEF IInv

(* The threads that know a row keep knowing it while rows only appear.     *)
LEMMA WritersKept ==
  ASSUME TypeOK, WritersKnowTheirJob,
         \A i \in Jobs : Exists(i) => Exists(i)',
         UNCHANGED <<canceller, destroyer>>
  PROVE  WritersKnowTheirJob'
<1>1. destroyer \in Jobs \union {NoJob}
  BY DEF TypeOK
<1>2. QED
  BY <1>1 DEF WritersKnowTheirJob

(* A request that ends or goes on without committing a row.                *)
LEMMA OtherCreatorsKept ==
  ASSUME IInv, NEW h \in Creators, creator'[h].pc # "committed",
         \A g \in Creators \ {h} : creator'[g] = creator[g],
         \A i \in Jobs : Exists(i) => Exists(i)',
         worker' = worker
  PROVE  CreatorsHoldFreshJobs'
BY DEF IInv, CreatorsHoldFreshJobs

(* Storing a new row, to be executed or as a rejected one.                 *)
LEMMA NewRowInv ==
  ASSUME IInv, TypeOK', NEW h \in Creators, NEW j \in Jobs,
         InsertAllowed(h), ~Exists(j),
         NEW st \in {"queued", "failed"}, NEW n \in Nat,
         jobs' = [jobs EXCEPT ![j] = NewRow(h, st, n)],
         clock'[j] \in {clock[j], clock[j] + 1},
         \A i \in Jobs \ {j} : clock'[i] = clock[i],
         UNCHANGED <<notified, audited, inventory, cloud, applies, flaggedAt,
                     cancelRequested, worker, initLock, canceller, destroyer>>,
         CreatorsHoldFreshJobs'
  PROVE  IInv'
<1>0. /\ TypeOK /\ JobInv(j) /\ OneJobPerKey /\ WritersKnowTheirJob
      /\ jobs \in [Jobs -> Row]
  BY DEF IInv, TypeOK
<1>1. /\ jobs'[j].status = st /\ jobs'[j].key = creator[h].key
      /\ jobs'[j].started = 0
      /\ \A i \in Jobs \ {j} : jobs'[i] = jobs[i]
  BY <1>0 DEF NewRow
<1>2. \A i \in Jobs \ {j} : Untouched(i)
  BY <1>1 DEF Untouched
<1>3. \A i \in Jobs \ {j} : JobInv(i)'
  BY <1>0, <1>2, UntouchedKeeps DEF IInv
<1>4. JobInv(j)'
  <2>1. /\ worker[j].pc = "none" /\ worker[j].stamp = 0
        /\ worker[j].stamp <= clock[j]
    BY <1>0 DEF JobInv, StatusFollowsTask, StampsInOrder
  <2>2. worker[j].stamp \in Nat /\ clock[j] \in Nat /\ flaggedAt[j] \in Stages
    BY <1>0, JobTypes
  <2>3. StatusFollowsTask(j)' /\ CloudFollowsTask(j)' /\ ToldAtTheEnd(j)'
    BY <1>0, <1>1, <2>1 DEF JobInv, StatusFollowsTask, Exists,
       CloudFollowsTask, ToldAtTheEnd, BeforeStart
  <2>4. FlagWaitsForTask(j)'
    BY <1>0, <2>1 DEF JobInv, FlagWaitsForTask
  <2>5. StampsInOrder(j)'
    BY <1>0, <1>1, <2>1, <2>2
       DEF JobInv, StampsInOrder, FinishedAfterStarted, Terraforming,
           BeforeApply
  <2>6. QED
    BY <2>3, <2>4, <2>5 DEF JobInv
<1>5. OneJobPerKey'
  BY <1>0, <1>1 DEF OneJobPerKey, InsertAllowed, JobsWithKey, Exists
<1>6. WritersKnowTheirJob'
  <2>1. \A i \in Jobs : Exists(i) => Exists(i)'
    BY <1>1 DEF Exists
  <2>2. QED
    BY <1>0, <2>1, WritersKept
<1>7. InitIsSerial'
  BY DEF IInv, InitIsSerial
<1>8. QED
  BY <1>3, <1>4, <1>5, <1>6, <1>7 DEF IInv

(* Every step of a creation request keeps the invariant.                   *)
LEMMA CreateStepInv ==
  ASSUME IInv, TypeOK', NEW h \in Creators, CreateSteps(h)
  PROVE  IInv'
<1> USE ConstantsAssumption DEF tables, world
<1>0. /\ TypeOK /\ creator \in [Creators -> Creator]
      /\ jobs \in [Jobs -> Row] /\ worker \in [Jobs -> Worker]
      /\ clock \in [Jobs -> Nat]
      /\ WritersKnowTheirJob /\ CreatorsHoldFreshJobs
  BY DEF IInv, TypeOK
<1>1. ASSUME NEW k \in Keys, NEW p \in Payloads, NEW c \in Credentials,
             ReceiveCreate(h, k, p, c)
      PROVE  IInv'
  <2>1. /\ creator'[h].pc # "committed"
        /\ \A g \in Creators \ {h} : creator'[g] = creator[g]
    <3>1. \A r \in Replies : Reply(h, r) =>
             /\ creator'[h].pc = "done"
             /\ \A g \in Creators \ {h} : creator'[g] = creator[g]
      BY <1>0, RequestAnswered
    <3>2. ASSUME NEW s \in {"inserting", "rejecting"},
                 creator' = [creator EXCEPT ![h] =
                    [@ EXCEPT !.pc = s, !.key = k, !.payload = p,
                              !.credential = c]]
          PROVE  /\ creator'[h].pc = s
                 /\ \A g \in Creators \ {h} : creator'[g] = creator[g]
      <4>1. creator[h] \in Creator
        BY <1>0
      <4>2. [creator[h] EXCEPT !.pc = s, !.key = k, !.payload = p,
                               !.credential = c].pc = s
        BY <4>1 DEF Creator
      <4>3. QED
        BY <1>0, <3>2, <4>2
    <3>3. QED
      BY <1>1, <3>1, <3>2 DEF ReceiveCreate, Replies
  <2>2. \A i \in Jobs : Untouched(i)
    BY <1>1 DEF ReceiveCreate, Untouched
  <2>3. CreatorsHoldFreshJobs'
    BY <1>1, <2>1, OtherCreatorsKept DEF ReceiveCreate, Exists
  <2>4. WritersKnowTheirJob'
    BY <1>0, <1>1, WritersKept DEF ReceiveCreate, Exists
  <2>5. QED
    BY <1>1, <2>2, <2>3, <2>4, ThreadStepKeeps DEF ReceiveCreate
<1>2. ASSUME InsertJob(h) PROVE IInv'
  <2>1. PICK j \in Jobs :
           /\ ~Exists(j)
           /\ jobs' = [jobs EXCEPT ![j] = NewRow(h, "queued", 0)]
           /\ creator' = [creator EXCEPT ![h].pc = "committed", ![h].job = j]
    BY <1>2 DEF InsertJob
  <2>2. /\ creator'[h].pc = "committed" /\ creator'[h].job = j
        /\ \A g \in Creators \ {h} : creator'[g] = creator[g]
    <3>1. creator' = [creator EXCEPT ![h] =
                        [creator[h] EXCEPT !.pc = "committed", !.job = j]]
      BY <2>1
    <3>2. creator[h] \in Creator
      BY <1>0
    <3>3. /\ [creator[h] EXCEPT !.pc = "committed", !.job = j].pc = "committed"
          /\ [creator[h] EXCEPT !.pc = "committed", !.job = j].job = j
      BY <3>2 DEF Creator
    <3>4. QED
      BY <1>0, <3>1, <3>3
  <2>3. CreatorsHoldFreshJobs'
    <3>1. worker[j].pc = "none"
      BY <2>1 DEF IInv, JobInv, StatusFollowsTask
    <3>2. \A i \in Jobs : Exists(i) \/ i = j => Exists(i)'
      BY <1>0, <2>1 DEF Exists, NewRow
    <3>3. \A g \in Creators : creator[g].pc = "committed" => creator[g].job # j
      BY <1>0, <2>1 DEF CreatorsHoldFreshJobs
    <3>4. worker' = worker
      BY <1>2 DEF InsertJob
    <3>5. QED
      BY <1>0, <2>2, <3>1, <3>2, <3>3, <3>4 DEF CreatorsHoldFreshJobs
  <2>4. QED
    BY <1>2, <2>1, <2>3, NewRowInv DEF InsertJob
<1>3. ASSUME RecordRejectedJob(h) PROVE IInv'
  <2>1. PICK j \in Jobs :
           /\ ~Exists(j)
           /\ jobs' = [jobs EXCEPT ![j] = NewRow(h, "failed", Now(j))]
           /\ Tick(j)
    BY <1>3 DEF RecordRejectedJob
  <2>2. /\ creator'[h].pc = "done"
        /\ \A g \in Creators \ {h} : creator'[g] = creator[g]
    BY <1>0, <1>3, RequestAnswered DEF RecordRejectedJob, Replies
  <2>3. \A i \in Jobs : Exists(i) => Exists(i)'
    BY <1>0, <2>1 DEF Exists, NewRow
  <2>4. CreatorsHoldFreshJobs'
    BY <1>3, <2>2, <2>3, OtherCreatorsKept DEF RecordRejectedJob
  <2>5. /\ Now(j) \in Nat /\ clock'[j] = clock[j] + 1
        /\ \A i \in Jobs \ {j} : clock'[i] = clock[i]
    BY <1>0, <2>1, ClockTicks DEF Now
  <2>6. QED
    BY <1>3, <2>1, <2>4, <2>5, NewRowInv DEF RecordRejectedJob
<1>4. ASSUME InsertFails(h) PROVE IInv'
  <2>1. /\ creator'[h].pc = "done"
        /\ \A g \in Creators \ {h} : creator'[g] = creator[g]
    BY <1>0, <1>4, RequestAnswered DEF InsertFails, Replies
  <2>2. \A i \in Jobs : Untouched(i)
    BY <1>4 DEF InsertFails, Untouched
  <2>3. CreatorsHoldFreshJobs'
    BY <1>4, <2>1, OtherCreatorsKept DEF InsertFails, Exists
  <2>4. WritersKnowTheirJob'
    BY <1>0, <1>4, WritersKept DEF InsertFails, Exists
  <2>5. QED
    BY <1>4, <2>2, <2>3, <2>4, ThreadStepKeeps DEF InsertFails
<1>5. ASSUME ScheduleJob(h) PROVE IInv'
  <2>1. PICK j \in Jobs :
           j = creator[h].job /\ Exists(j) /\ worker[j].pc = "none"
    BY <1>0, <1>5 DEF ScheduleJob, CreatorsHoldFreshJobs
  <2>2. GoTo(j, "scheduled") /\ "scheduled" \in Stages
    BY <1>5, <2>1 DEF ScheduleJob, GoTo, Stages
  <2>3. /\ worker'[j].pc = "scheduled"
        /\ worker'[j].stamp = worker[j].stamp
        /\ \A i \in Jobs \ {j} : worker'[i] = worker[i]
    BY <1>0, <2>1, <2>2, WorkerMoves
  <2>4. /\ creator'[h].pc = "done"
        /\ \A g \in Creators \ {h} : creator'[g] = creator[g]
    BY <1>0, <1>5, RequestAnswered DEF ScheduleJob, Replies
  <2>5. \A i \in Jobs \ {j} : Untouched(i)
    BY <1>5, <2>3 DEF ScheduleJob, Untouched
  <2>6. JobInv(j)'
    <3>1. JobInv(j)
      BY <2>1 DEF IInv
    <3>2. /\ worker[j].stamp \in Nat /\ clock[j] \in Nat
          /\ flaggedAt[j] \in Stages
      BY <1>0, <2>1, JobTypes
    <3>3. QED
      BY <1>5, <2>1, <2>3, <3>1, <3>2
         DEF ScheduleJob, JobInv, StatusFollowsTask, Exists, CloudFollowsTask,
             ToldAtTheEnd, FlagWaitsForTask, StampsInOrder,
             FinishedAfterStarted, BeforeStart, BeforeApply, Terraforming
  <2>7. \A i \in Jobs : JobInv(i)'
    BY <1>0, <2>5, <2>6, UntouchedKeeps DEF IInv
  <2>8. CreatorsHoldFreshJobs'
    <3>1. \A g \in Creators \ {h} :
             creator[g].pc = "committed" => creator[g].job # j
      BY <1>0, <1>5, <2>1 DEF CreatorsHoldFreshJobs, ScheduleJob
    <3>2. jobs' = jobs
      BY <1>5 DEF ScheduleJob
    <3>3. QED
      BY <1>0, <2>3, <2>4, <3>1, <3>2 DEF CreatorsHoldFreshJobs, Exists
  <2>9. WritersKnowTheirJob'
    BY <1>0, <1>5, WritersKept DEF ScheduleJob, Exists
  <2>10. InitIsSerial'
    BY <1>0, <1>5, <2>1, <2>3, SerialKept DEF ScheduleJob, IInv
  <2>11. OneJobPerKey'
    BY <1>5 DEF ScheduleJob, IInv, OneJobPerKey, Exists
  <2>12. QED
    BY <2>7, <2>8, <2>9, <2>10, <2>11 DEF IInv
<1>6. QED
  BY <1>1, <1>2, <1>3, <1>4, <1>5 DEF CreateSteps

(* Requests that schedule nothing and store nothing leave the creators be. *)
LEMMA CreatorsKept ==
  ASSUME IInv, creator' = creator,
         \A i \in Jobs : Exists(i) => Exists(i)',
         \A i \in Jobs : worker[i].pc = "none" => worker'[i].pc = "none"
  PROVE  CreatorsHoldFreshJobs'
BY DEF IInv, CreatorsHoldFreshJobs

(* A step that rewrites the row, the flag or the cloud of one job whose    *)
(* task stays where it is.                                                 *)
LEMMA OneRowInv ==
  ASSUME IInv, TypeOK', NEW j \in Jobs, Exists(j), Exists(j)',
         jobs'[j].key = jobs[j].key,
         \A i \in Jobs \ {j} : Untouched(i), JobInv(j)',
         UNCHANGED <<worker, initLock, creator>>, WritersKnowTheirJob'
  PROVE  IInv'
<1>1. \A i \in Jobs : JobInv(i)'
  BY UntouchedKeeps DEF IInv
<1>2. \A i \in Jobs : jobs'[i].key = jobs[i].key /\ (Exists(i)' <=> Exists(i))
  BY DEF Untouched, Exists
<1>3. OneJobPerKey'
  BY <1>2 DEF OneJobPerKey, IInv
<1>4. CreatorsHoldFreshJobs'
  BY <1>2, CreatorsKept
<1>5. InitIsSerial'
  BY DEF IInv, InitIsSerial
<1>6. QED
  BY <1>1, <1>3, <1>4, <1>5 DEF IInv

(* Every step of a cancel request keeps the invariant.                     *)
LEMMA CancelStepInv ==
  ASSUME IInv, TypeOK', NEW h \in Cancellers, CancelSteps(h)
  PROVE  IInv'
<1> USE ConstantsAssumption DEF tables, world
<1>0. /\ TypeOK /\ canceller \in [Cancellers -> Canceller]
      /\ jobs \in [Jobs -> Row] /\ worker \in [Jobs -> Worker]
      /\ clock \in [Jobs -> Nat] /\ flaggedAt \in [Jobs -> Stages]
      /\ canceller[h] \in Canceller
      /\ WritersKnowTheirJob
  BY DEF IInv, TypeOK
<1>1. ASSUME NEW j \in Jobs, ReceiveCancel(h, j) PROVE IInv'
  <2>1. \A i \in Jobs : Untouched(i)
    BY <1>1 DEF ReceiveCancel, Untouched
  <2>2. /\ canceller'[h].job = j
        /\ \A g \in Cancellers \ {h} : canceller'[g] = canceller[g]
    <3>1. PICK s \in {"saw_queued", "saw_running", "done"} :
             canceller' = [canceller EXCEPT ![h] =
                              [canceller[h] EXCEPT !.job = j, !.pc = s]]
      BY <1>1 DEF ReceiveCancel
    <3>2. [canceller[h] EXCEPT !.job = j, !.pc = s].job = j
      BY <1>0 DEF Canceller
    <3>3. QED
      BY <1>0, <3>1, <3>2
  <2>3. WritersKnowTheirJob'
    BY <1>0, <1>1, <2>2 DEF WritersKnowTheirJob, ReceiveCancel, Exists
  <2>4. CreatorsHoldFreshJobs'
    BY <1>1, CreatorsKept DEF ReceiveCancel, Exists
  <2>5. QED
    BY <1>1, <2>1, <2>3, <2>4, ThreadStepKeeps DEF ReceiveCancel
<1>2. ASSUME StampCancel(h) PROVE IInv'
  <2>1. PICK j \in Jobs : j = canceller[h].job /\ Exists(j)
    BY <1>0, <1>2 DEF StampCancel, WritersKnowTheirJob
  <2>2. /\ clock'[j] = clock[j] + 1
        /\ \A i \in Jobs \ {j} : clock'[i] = clock[i]
    BY <1>0, <1>2, <2>1, ClockTicks DEF StampCancel
  <2>3. \A i \in Jobs : Untouched(i)
    BY <1>2, <2>2 DEF StampCancel, Untouched
  <2>4. /\ canceller'[h].job = j
        /\ \A g \in Cancellers \ {h} : canceller'[g] = canceller[g]
    <3>1. canceller' = [canceller EXCEPT ![h] =
             [canceller[h] EXCEPT !.pc = "stamped", !.stamp = Now(j)]]
      BY <1>2, <2>1 DEF StampCancel
    <3>2. [canceller[h] EXCEPT !.pc = "stamped", !.stamp = Now(j)].job = j
      BY <1>0, <2>1 DEF Canceller
    <3>3. QED
      BY <1>0, <3>1, <3>2
  <2>5. WritersKnowTheirJob'
    BY <1>0, <1>2, <2>1, <2>4 DEF WritersKnowTheirJob, StampCancel, Exists
  <2>6. CreatorsHoldFreshJobs'
    BY <1>2, CreatorsKept DEF StampCancel, Exists
  <2>7. QED
    BY <1>2, <2>3, <2>5, <2>6, ThreadStepKeeps DEF StampCancel
<1>3. ASSUME CommitCancel(h) PROVE IInv'
  <2>1. PICK j \in Jobs : j = canceller[h].job /\ Exists(j)
    BY <1>0, <1>3 DEF CommitCancel, WritersKnowTheirJob
  <2>2. /\ canceller'[h].pc = "done"
        /\ \A g \in Cancellers \ {h} : canceller'[g] = canceller[g]
    <3>1. canceller' = [canceller EXCEPT ![h] =
                           [canceller[h] EXCEPT !.pc = "done"]]
      BY <1>3 DEF CommitCancel
    <3>2. [canceller[h] EXCEPT !.pc = "done"].pc = "done"
      BY <1>0 DEF Canceller
    <3>3. QED
      BY <1>0, <3>1, <3>2
  <2>3. CASE FinishedAfterStarted(CancelledRow(h))
    <3>1. /\ jobs'[j].status = "cancelled"
          /\ jobs'[j].started = jobs[j].started
          /\ jobs'[j].key = jobs[j].key
          /\ FinishedAfterStarted(jobs'[j])
          /\ \A i \in Jobs \ {j} : jobs'[i] = jobs[i]
      <4>1. jobs' = [jobs EXCEPT ![j] = CancelledRow(h)]
        BY <1>3, <2>1, <2>3 DEF CommitCancel
      <4>2. jobs[j] \in Row
        BY <1>0
      <4>3. /\ CancelledRow(h).status = "cancelled"
            /\ CancelledRow(h).started = jobs[j].started
            /\ CancelledRow(h).key = jobs[j].key
        BY <2>1, <4>2 DEF CancelledRow, Row
      <4>4. QED
        BY <1>0, <2>3, <4>1, <4>3
    <3>2. \A i \in Jobs \ {j} : Untouched(i)
      BY <1>3, <3>1 DEF CommitCancel, Untouched
    <3>3. JobInv(j)'
      <4>1. JobInv(j)
        BY DEF IInv
      <4>2. QED
        BY <1>3, <2>1, <3>1, <4>1
           DEF CommitCancel, JobInv, StatusFollowsTask, Exists,
               CloudFollowsTask, ToldAtTheEnd, FlagWaitsForTask,
               StampsInOrder, FinishedAfterStarted
    <3>4. \A i \in Jobs : Exists(i) => Exists(i)'
      BY <3>1 DEF Exists
    <3>5. WritersKnowTheirJob'
      <4>1. destroyer \in Jobs \union {NoJob} /\ destroyer' = destroyer
        BY <1>0, <1>3 DEF TypeOK, CommitCancel
      <4>2. QED
        BY <1>0, <2>2, <3>4, <4>1 DEF WritersKnowTheirJob
    <3>6. QED
      BY <1>3, <2>1, <3>1, <3>2, <3>3, <3>4, <3>5, OneRowInv DEF CommitCancel
  <2>4. CASE ~FinishedAfterStarted(CancelledRow(h))
    <3>1. jobs' = jobs
      BY <1>3, <2>4 DEF CommitCancel
    <3>2. \A i \in Jobs : Untouched(i)
      BY <1>3, <3>1 DEF CommitCancel, Untouched
    <3>3. WritersKnowTheirJob'
      BY <1>0, <1>3, <2>2, <3>1 DEF WritersKnowTheirJob, CommitCancel, Exists
    <3>4. CreatorsHoldFreshJobs'
      BY <1>3, <3>1, CreatorsKept DEF CommitCancel, Exists
    <3>5. QED
      BY <1>3, <3>2, <3>3, <3>4, ThreadStepKeeps DEF CommitCancel
  <2>5. QED
    BY <2>3, <2>4
<1>4. ASSUME FlagCancel(h) PROVE IInv'
  <2>1. PICK j \in Jobs : j = canceller[h].job /\ Exists(j)
    BY <1>0, <1>4 DEF FlagCancel, WritersKnowTheirJob
  <2>2. /\ canceller'[h].pc = "done"
        /\ \A g \in Cancellers \ {h} : canceller'[g] = canceller[g]
    <3>1. canceller' = [canceller EXCEPT ![h] =
                           [canceller[h] EXCEPT !.pc = "done"]]
      BY <1>4 DEF FlagCancel
    <3>2. [canceller[h] EXCEPT !.pc = "done"].pc = "done"
      BY <1>0 DEF Canceller
    <3>3. QED
      BY <1>0, <3>1, <3>2
  <2>3. /\ cancelRequested' = cancelRequested \union {j}
        /\ flaggedAt'[j] = IF flaggedAt[j] = "none" THEN worker[j].pc
                                                   ELSE flaggedAt[j]
        /\ \A i \in Jobs \ {j} : flaggedAt'[i] = flaggedAt[i]
    BY <1>0, <1>4, <2>1 DEF FlagCancel
  <2>4. \A i \in Jobs \ {j} : Untouched(i)
    BY <1>4, <2>3 DEF FlagCancel, Untouched
  <2>5. JobInv(j)'
    <3>1. JobInv(j)
      BY DEF IInv
    <3>2. /\ worker[j].pc \in Stages /\ applies[j] \in Nat
          /\ notified[j]["success"] \in Nat /\ notified[j]["failed"] \in Nat
      BY <1>0, JobTypes
    <3>3. UNCHANGED <<jobs, worker, applies, cloud, audited, notified,
                      inventory, clock>>
      BY <1>4 DEF FlagCancel
    <3>4. FlagWaitsForTask(j)'
      BY <2>3, <3>1, <3>2, <3>3
         DEF JobInv, FlagWaitsForTask, CloudFollowsTask, ToldAtTheEnd,
             Terraforming, BeforeApply
    <3>5. QED
      BY <3>1, <3>3, <3>4
         DEF JobInv, StatusFollowsTask, Exists, CloudFollowsTask,
             ToldAtTheEnd, StampsInOrder, FinishedAfterStarted
  <2>6. jobs' = jobs
    BY <1>4 DEF FlagCancel
  <2>7. WritersKnowTheirJob'
    BY <1>0, <1>4, <2>2, <2>6 DEF WritersKnowTheirJob, FlagCancel, Exists
  <2>8. QED
    BY <1>4, <2>1, <2>4, <2>5, <2>6, <2>7, OneRowInv DEF FlagCancel, Exists
<1>5. QED
  BY <1>1, <1>2, <1>3, <1>4 DEF CancelSteps

(* Every step of a credential deletion keeps the invariant.                *)
LEMMA DeleteStepInv ==
  ASSUME IInv, TypeOK', NEW h \in Deleters, DeleteSteps(h)
  PROVE  IInv'
<1> USE DEF tables, world
<1>0. TypeOK /\ jobs \in [Jobs -> Row] /\ WritersKnowTheirJob
  BY DEF IInv, TypeOK
<1>1. /\ UNCHANGED <<notified, audited, inventory, world, cancelRequested,
                     initLock, worker, creator, canceller>>
      /\ \A i \in Jobs : /\ jobs'[i].status = jobs[i].status
                          /\ jobs'[i].key = jobs[i].key
                          /\ jobs'[i].started = jobs[i].started
                          /\ jobs'[i].finished = jobs[i].finished
  <2>1. ASSUME NEW c \in Credentials, CheckDelete(h, c) PROVE <1>1
    BY <2>1 DEF CheckDelete
  <2>2. ASSUME CommitDelete(h) PROVE <1>1
    <3>1. \A i \in Jobs : jobs'[i] \in
             {jobs[i], [jobs[i] EXCEPT !.credential = NoCredential]}
      BY <2>2 DEF CommitDelete
    <3>2. ASSUME NEW i \in Jobs
          PROVE  /\ jobs'[i].status = jobs[i].status
                 /\ jobs'[i].key = jobs[i].key
                 /\ jobs'[i].started = jobs[i].started
                 /\ jobs'[i].finished = jobs[i].finished
      <4>1. jobs[i] \in Row
        BY <1>0
      <4>2. QED
        BY <3>1, <4>1 DEF Row
    <3>3. QED
      BY <2>2, <3>2 DEF CommitDelete
  <2>3. QED
    BY <2>1, <2>2 DEF DeleteSteps
<1>2. \A i \in Jobs : Untouched(i)
  BY <1>1 DEF Untouched
<1>3. \A i \in Jobs : Exists(i) => Exists(i)'
  BY <1>1 DEF Exists
<1>4. QED
  BY <1>0, <1>1, <1>2, <1>3, WritersKept, CreatorsKept, ThreadStepKeeps

(* dev_destroy_job keeps the invariant.                                    *)
LEMMA DestroyInv ==
  ASSUME IInv, TypeOK',
         (\E j \in Jobs : DestroyResource(j)) \/ RecordDestroy
  PROVE  IInv'
<1> USE DEF tables, memory
<1>0. /\ TypeOK /\ WritersKnowTheirJob /\ cloud \in [Jobs -> Clouds]
      /\ jobs \in [Jobs -> Row] /\ clock \in [Jobs -> Nat]
  BY DEF IInv, TypeOK
<1>1. ASSUME NEW j \in Jobs, DestroyResource(j) PROVE IInv'
  <2>1. /\ cloud'[j] = "destroyed"
        /\ \A i \in Jobs \ {j} : cloud'[i] = cloud[i]
    BY <1>0, <1>1 DEF DestroyResource
  <2>2. \A i \in Jobs \ {j} : Untouched(i)
    BY <1>1, <2>1 DEF DestroyResource, Untouched
  <2>3. JobInv(j)'
    <3>1. JobInv(j)
      BY DEF IInv
    <3>2. QED
      BY <1>1, <2>1, <3>1
         DEF DestroyResource, JobInv, StatusFollowsTask, Exists,
             CloudFollowsTask, ToldAtTheEnd, FlagWaitsForTask, StampsInOrder,
             FinishedAfterStarted
  <2>4. Exists(j) /\ jobs' = jobs
    BY <1>1 DEF DestroyResource, Exists
  <2>5. WritersKnowTheirJob'
    BY <1>0, <1>1, <2>4 DEF DestroyResource, WritersKnowTheirJob, Exists
  <2>6. QED
    BY <1>1, <2>2, <2>3, <2>4, <2>5, OneRowInv DEF DestroyResource, Exists
<1>2. ASSUME RecordDestroy PROVE IInv'
  <2>1. PICK j \in Jobs : j = destroyer /\ Exists(j)
    BY <1>0, <1>2 DEF RecordDestroy, WritersKnowTheirJob, TypeOK
  <2>2. Settle(j, "cancelled") /\ Tick(j) /\ "cancelled" \in Terminal
    BY <1>2, <2>1 DEF RecordDestroy, Settle, Terminal
  <2>3. /\ jobs'[j].status = "cancelled"
        /\ jobs'[j].finished = clock[j] + 1
        /\ jobs'[j].started = jobs[j].started
        /\ jobs'[j].key = jobs[j].key
        /\ \A i \in Jobs \ {j} : jobs'[i] = jobs[i]
    BY <1>0, <2>2, JobSettles
  <2>4. /\ clock'[j] = clock[j] + 1
        /\ \A i \in Jobs \ {j} : clock'[i] = clock[i]
    BY <1>0, <2>2, ClockTicks
  <2>5. \A i \in Jobs \ {j} : Untouched(i)
    BY <1>2, <2>3, <2>4 DEF RecordDestroy, Untouched
  <2>6. JobInv(j)'
    <3>1. JobInv(j)
      BY DEF IInv
    <3>2. /\ worker[j].stamp \in Nat /\ clock[j] \in Nat
          /\ jobs[j].started \in Nat
      BY <1>0, JobTypes
    <3>3. QED
      BY <1>2, <2>1, <2>3, <2>4, <3>1, <3>2
         DEF RecordDestroy, JobInv, StatusFollowsTask, Exists,
             CloudFollowsTask, ToldAtTheEnd, FlagWaitsForTask, StampsInOrder,
             FinishedAfterStarted
  <2>7. \A i \in Jobs : Exists(i) => Exists(i)'
    BY <2>3 DEF Exists
  <2>8. WritersKnowTheirJob'
    BY <1>0, <1>2, <2>7 DEF WritersKnowTheirJob, RecordDestroy
  <2>9. QED
    BY <1>2, <2>1, <2>3, <2>5, <2>6, <2>7, <2>8, OneRowInv DEF RecordDestroy
<1>3. QED
  BY <1>1, <1>2

(* A restart of the API process keeps the invariant.                       *)
LEMMA CrashInv ==
  ASSUME IInv, TypeOK', Crash
  PROVE  IInv'
<1> USE ConstantsAssumption DEF tables
<1>0. /\ TypeOK /\ WritersKnowTheirJob /\ OneJobPerKey
      /\ worker \in [Jobs -> Worker]
      /\ creator \in [Creators -> Creator]
      /\ canceller \in [Cancellers -> Canceller]
  BY DEF IInv, TypeOK
<1>1. ASSUME NEW i \in Jobs
      PROVE  /\ worker'[i].pc = IF worker[i].pc \in {"none", "ended"}
                                THEN worker[i].pc ELSE "lost"
             /\ worker'[i].stamp = worker[i].stamp
             /\ worker'[i].result = worker[i].result
  <2>1. worker[i] \in Worker
    BY <1>0
  <2>2. worker'[i] = IF worker[i].pc \in {"none", "ended"} THEN worker[i]
                     ELSE [worker[i] EXCEPT !.pc = "lost"]
    BY DEF Crash
  <2>3. QED
    BY <2>1, <2>2 DEF Worker
<1>2. \A i \in Jobs : cloud'[i] \in {cloud[i], "exists"}
  BY DEF Crash
<1>3. ASSUME NEW i \in Jobs PROVE JobInv(i)'
  <2>1. JobInv(i)
    BY DEF IInv
  <2>2. UNCHANGED <<tables, applies, clock, flaggedAt>>
    BY DEF Crash
  <2>3. QED
    BY <1>1, <1>2, <2>1, <2>2
       DEF JobInv, StatusFollowsTask, Exists, CloudFollowsTask, ToldAtTheEnd,
           FlagWaitsForTask, StampsInOrder, FinishedAfterStarted, BeforeStart,
           BeforeApply, Terraforming
<1>4. OneJobPerKey'
  BY <1>0 DEF Crash, OneJobPerKey, Exists
<1>5. InitIsSerial'
  <2>1. initLock' = NoJob
    BY DEF Crash
  <2>2. \A i \in Jobs : worker'[i].pc # "init"
    BY <1>1
  <2>3. QED
    BY <2>1, <2>2 DEF InitIsSerial
<1>6. CreatorsHoldFreshJobs'
  <2>1. ASSUME NEW h \in Creators PROVE creator'[h].pc \in {"idle", "done"}
    <3>1. creator[h] \in Creator
      BY <1>0
    <3>2. creator'[h] = IF creator[h].pc \in {"idle", "done"} THEN creator[h]
             ELSE [creator[h] EXCEPT !.pc = "done", !.reply = "lost"]
      BY DEF Crash
    <3>3. QED
      BY <3>1, <3>2 DEF Creator
  <2>2. QED
    BY <2>1 DEF CreatorsHoldFreshJobs
<1>7. WritersKnowTheirJob'
  <2>1. ASSUME NEW h \in Cancellers PROVE canceller'[h].pc \in {"idle", "done"}
    <3>1. canceller[h] \in Canceller
      BY <1>0
    <3>2. canceller'[h] = IF canceller[h].pc = "idle" THEN canceller[h]
                          ELSE [canceller[h] EXCEPT !.pc = "done"]
      BY DEF Crash
    <3>3. QED
      BY <3>1, <3>2 DEF Canceller
  <2>2. jobs' = jobs /\ destroyer' = destroyer
    BY DEF Crash
  <2>3. QED
    BY <1>0, <2>1, <2>2 DEF WritersKnowTheirJob, Exists
<1>8. QED
  BY <1>3, <1>4, <1>5, <1>6, <1>7 DEF IInv

(* The strengthening is an invariant of the specification.                 *)
THEOREM InductiveInvariant == Spec => []IInv
<1> USE ConstantsAssumption
<1>1. Init => IInv
  <2> SUFFICES ASSUME Init PROVE IInv
    OBVIOUS
  <2>1. TypeOK
    BY InitTypeOK
  <2>2. OneJobPerKey /\ InitIsSerial
    BY DEF Init, OneJobPerKey, InitIsSerial, Exists, NoRow, NoWorker
  <2>3. CreatorsHoldFreshJobs /\ WritersKnowTheirJob
    BY DEF Init, CreatorsHoldFreshJobs, WritersKnowTheirJob, NewCreator
  <2>4. ASSUME NEW j \in Jobs PROVE JobInv(j)
    BY DEF Init, NoRow, NoWorker, JobInv, StatusFollowsTask, Exists,
             CloudFollowsTask,
             ToldAtTheEnd, FlagWaitsForTask, StampsInOrder,
             FinishedAfterStarted, BeforeStart, BeforeApply, Terraforming
  <2>5. QED
    BY <2>1, <2>2, <2>3, <2>4 DEF IInv
<1>2. IInv /\ [Next]_vars => IInv'
  <2> SUFFICES ASSUME IInv, [Next]_vars PROVE IInv'
    OBVIOUS
  <2>1. TypeOK'
    BY NextTypeOK DEF IInv
  <2>2. CASE Next
    BY <2>1, <2>2, WorkerStepInv, CreateStepInv, CancelStepInv, DeleteStepInv,
       DestroyInv, CrashInv DEF Next
  <2>3. CASE UNCHANGED vars
    BY <2>3 DEF vars, tables, memory, world, IInv, TypeOK, OneJobPerKey,
       InitIsSerial, CreatorsHoldFreshJobs, WritersKnowTheirJob,
             JobInv, StatusFollowsTask, Exists, CloudFollowsTask,
             ToldAtTheEnd, FlagWaitsForTask, StampsInOrder,
             FinishedAfterStarted, BeforeStart, BeforeApply, Terraforming
  <2>4. QED
    BY <2>2, <2>3
<1>3. QED
  BY <1>1, <1>2, PTL DEF Spec

(* Every variable keeps its type.                                          *)
THEOREM TypeCorrect == Spec => []TypeOK
<1>1. IInv => TypeOK
  BY DEF IInv
<1>2. QED
  BY <1>1, InductiveInvariant, PTL

(* However many requests carry a key at once, it has one job.              *)
THEOREM KeyHasOneJob == Spec => []OneJobPerKey
<1>1. IInv => OneJobPerKey
  BY DEF IInv
<1>2. QED
  BY <1>1, InductiveInvariant, PTL

(* terraform apply runs at most once for an idempotency key.               *)
THEOREM KeyAppliesOnce == Spec => []OneApplyPerKey
<1>1. IInv => OneApplyPerKey
  <2> SUFFICES ASSUME IInv, NEW i \in Jobs, NEW j \in Jobs,
                      applies[i] > 0, applies[j] > 0, jobs[i].key = jobs[j].key
               PROVE  i = j /\ applies[j] = 1
    BY DEF OneApplyPerKey
  <2>1. \A n \in Jobs : applies[n] \in Nat /\ worker[n].pc \in Stages
    BY JobTypes DEF IInv
  <2>2. Exists(i) /\ Exists(j)
    BY <2>1 DEF IInv, JobInv, StatusFollowsTask, CloudFollowsTask, BeforeStart
  <2>3. applies[j] = 1
    BY <2>1 DEF IInv, JobInv, CloudFollowsTask
  <2>4. QED
    BY <2>2, <2>3 DEF IInv, OneJobPerKey
<1>2. QED
  BY <1>1, InductiveInvariant, PTL

(* A job is settled once: one notification, one audit event.               *)
THEOREM JobSettledOnce == Spec => []SettledOnce
<1>1. IInv => SettledOnce
  <2> SUFFICES ASSUME IInv, NEW j \in Jobs
               PROVE  /\ audited[j] = notified[j]["success"]
                                      + notified[j]["failed"]
                      /\ audited[j] <= 1
                      /\ jobs[j].status \in {"absent", "queued"}
                            => audited[j] = 0
    BY DEF SettledOnce
  <2>1. QED
    BY DEF IInv, JobInv, StatusFollowsTask, ToldAtTheEnd, Exists, BeforeStart
<1>2. QED
  BY <1>1, InductiveInvariant, PTL

(* A reported success has left something at the cloud provider.            *)
THEOREM ReportedSuccessIsReal == Spec => []SuccessIsReal
<1>1. IInv => SuccessIsReal
  BY DEF IInv, JobInv, ToldAtTheEnd, SuccessIsReal
<1>2. QED
  BY <1>1, InductiveInvariant, PTL

(* A job cancelled before its start was stamped never runs.                *)
THEOREM QueuedCancelSticks == Spec => []CancelledBeforeStartNeverRuns
<1>1. IInv => CancelledBeforeStartNeverRuns
  <2> SUFFICES ASSUME IInv, NEW j \in Jobs, jobs[j].finished # 0,
                      jobs[j].finished < worker[j].stamp
               PROVE  /\ worker[j].pc \in {"starting", "lost"}
                      /\ jobs[j].status # "running"
                      /\ applies[j] = 0 /\ audited[j] = 0
    BY DEF CancelledBeforeStartNeverRuns
  <2>1. /\ jobs[j].started \in Nat /\ jobs[j].finished \in Nat
        /\ worker[j].stamp \in Nat /\ worker[j].pc \in Stages
        /\ applies[j] \in Nat /\ audited[j] \in Nat
    BY JobTypes DEF IInv
  <2>2. jobs[j].started = 0 /\ worker[j].stamp # 0
    BY <2>1 DEF IInv, JobInv, StampsInOrder, FinishedAfterStarted
  <2>3. QED
    BY <2>1, <2>2
       DEF IInv, JobInv, StampsInOrder, Stages, Terraforming, BeforeApply
<1>2. QED
  BY <1>1, InductiveInvariant, PTL

(* A cancel accepted while the job was running is honoured.                *)
THEOREM RunningCancelHonoured == Spec => []AcceptedCancelHonoured
<1>1. IInv => AcceptedCancelHonoured
  BY DEF IInv, JobInv, FlagWaitsForTask, ToldAtTheEnd, AcceptedCancelHonoured,
         Terraforming
<1>2. QED
  BY <1>1, InductiveInvariant, PTL

(* terraform init runs for one job at a time, under the lock.              *)
THEOREM InitRunsSerially == Spec => []InitIsSerial
<1>1. IInv => InitIsSerial
  BY DEF IInv
<1>2. QED
  BY <1>1, InductiveInvariant, PTL

(***************************************************************************)
(* ProvisioningJobs implements JobPromise, for every value of the          *)
(* constants: Init maps to Init, and under the invariant below each step   *)
(* maps to one step of the promise or to none.                             *)
(***************************************************************************)

(***************************************************************************)
(* What the mapping needs beyond IInv: a job's effect happens once, after  *)
(* its start, and only what a successful terraform job has created can be  *)
(* taken away.                                                             *)
(***************************************************************************)
NothingMadeYet(j) ==
    /\ worker[j].pc \in BeforeStart \union BeforeApply
                           \union {"applying", "demo"}
          => cloud[j] = "nothing"
    /\ cloud[j] = "destroyed" => worker[j].pc = "ended"

SuccessWasTold(j) ==
    jobs[j].status = "success" =>
        worker[j].pc = "ended" /\ notified[j]["success"] > 0

DemoStaysDemo(j) ==
    /\ worker[j].pc \in {"starting"} \union Terraforming
          => jobs[j].credential \in {worker[j].credential, NoCredential}
    /\ worker[j].pc = "demo" => worker[j].credential \in DemoCredentials
    /\ cloud[j] = "simulated"
          => jobs[j].credential \in DemoCredentials \union {NoCredential}

PromiseInv(j) ==
    NothingMadeYet(j) /\ SuccessWasTold(j) /\ DemoStaysDemo(j)

PInv == \A j \in Jobs : PromiseInv(j)

(***************************************************************************)
(* The step of the promise a step of one job stands for                    *)
(***************************************************************************)
AtWork == Stages \ {"none", "scheduled", "ended", "lost"}

(* All the mapping and its invariant look at.                              *)
Steady(i) ==
    /\ worker'[i].pc = worker[i].pc
    /\ worker'[i].credential = worker[i].credential
    /\ cloud'[i] = cloud[i] /\ notified'[i] = notified[i]
    /\ jobs'[i].credential \in {jobs[i].credential, NoCredential}
    /\ jobs'[i].status = "absent" <=> jobs[i].status = "absent"
    /\ jobs'[i].status = "success" => jobs[i].status = "success"
    /\ AboutToBeScheduled(i)' <=> AboutToBeScheduled(i)

Silent(j) == cloud'[j] = cloud[j] /\ ToldOf(j)' = ToldOf(j)

MovesAsPromised(j) ==
    \/ PhaseOf(j)' = PhaseOf(j) /\ Silent(j)
    \/ /\ PhaseOf(j) = "absent" /\ PhaseOf(j)' \in {"pending", "closed"}
       /\ Silent(j)
    \/ PhaseOf(j) = "pending" /\ PhaseOf(j)' = "working" /\ Silent(j)
    \/ /\ PhaseOf(j) = "working" /\ PhaseOf(j)' = "working"
       /\ cloud[j] = "nothing" /\ cloud'[j] \in {"exists", "simulated"}
       /\ ToldOf(j)' = ToldOf(j)
    \/ /\ PhaseOf(j) \in {"pending", "working"} /\ PhaseOf(j)' = "closed"
       /\ cloud'[j] = cloud[j]
       /\ \/ ToldOf(j)' = "nothing"
          \/ ToldOf(j)' = "success" /\ cloud[j] \in {"exists", "simulated"}
          \/ ToldOf(j)' = "failed" /\ PhaseOf(j) = "working"
    \/ /\ PhaseOf(j) = "closed" /\ PhaseOf(j)' = "closed"
       /\ ToldOf(j) = "success" /\ ToldOf(j)' = "success"
       /\ cloud[j] \notin {"nothing", "simulated"}
       /\ cloud'[j] = "destroyed"

PromiseStep == PInv' /\ [Promise!Next]_(Promise!vars)

(* The phase of a job, case by case.                                       *)
LEMMA Phases ==
  ASSUME NEW j \in Jobs, worker[j].pc \in Stages
  PROVE  /\ ~Exists(j) => PhaseOf(j) = "absent"
         /\ Exists(j) /\ worker[j].pc = "scheduled" => PhaseOf(j) = "pending"
         /\ Exists(j) /\ worker[j].pc = "none" /\ AboutToBeScheduled(j)
               => PhaseOf(j) = "pending"
         /\ Exists(j) /\ worker[j].pc = "none" /\ ~AboutToBeScheduled(j)
               => PhaseOf(j) = "closed"
         /\ Exists(j) /\ worker[j].pc \in {"ended", "lost"}
               => PhaseOf(j) = "closed"
         /\ Exists(j) /\ worker[j].pc \in AtWork => PhaseOf(j) = "working"
BY DEF PhaseOf, AtWork, Stages

(* A job no step touches keeps its part of the invariant and its image.    *)
LEMMA SteadyKeeps ==
  ASSUME NEW i \in Jobs, PromiseInv(i), Steady(i)
  PROVE  /\ PromiseInv(i)'
         /\ PhaseOf(i)' = PhaseOf(i) /\ Silent(i)
<1>1. NothingMadeYet(i)' /\ SuccessWasTold(i)' /\ DemoStaysDemo(i)'
  BY DEF PromiseInv, Steady, NothingMadeYet, SuccessWasTold, DemoStaysDemo
<1>2. PhaseOf(i)' = PhaseOf(i)
  BY DEF Steady, PhaseOf, Exists
<1>3. Silent(i)
  BY DEF Steady, Silent, ToldOf
<1>4. QED
  BY <1>1, <1>2, <1>3 DEF PromiseInv

(* One job moves as the promise allows, the others do not move: the step   *)
(* is one of the promise, or none.                                         *)
LEMMA OneJobMoves ==
  ASSUME TypeOK, TypeOK', PInv, NEW j \in Jobs,
         \A i \in Jobs \ {j} : Steady(i),
         PromiseInv(j)', MovesAsPromised(j)
  PROVE  PromiseStep
<1> DEFINE phase == [i \in Jobs |-> PhaseOf(i)]
           told  == [i \in Jobs |-> ToldOf(i)]
<1>1. \A i \in Jobs \ {j} : PromiseInv(i)' /\ PhaseOf(i)' = PhaseOf(i)
                              /\ Silent(i)
  BY SteadyKeeps DEF PInv
<1>2. PInv'
  BY <1>1 DEF PInv
<1>3. phase' = [phase EXCEPT ![j] = PhaseOf(j)']
  BY <1>1
<1>4. cloud' = [cloud EXCEPT ![j] = cloud'[j]]
  BY <1>1 DEF Silent, TypeOK
<1>5. told' = [told EXCEPT ![j] = ToldOf(j)']
  BY <1>1 DEF Silent
<1>6. /\ PhaseOf(j)' = PhaseOf(j) => UNCHANGED phase
      /\ cloud'[j] = cloud[j] => UNCHANGED cloud
      /\ ToldOf(j)' = ToldOf(j) => UNCHANGED told
  BY <1>1 DEF Silent, TypeOK
<1>7. [Promise!Next]_(Promise!vars)
  <2>1. CASE PhaseOf(j)' = PhaseOf(j) /\ Silent(j)
    BY <1>6, <2>1 DEF Promise!vars, Silent
  <2>2. CASE /\ PhaseOf(j) = "absent" /\ PhaseOf(j)' \in {"pending", "closed"}
             /\ Silent(j)
    <3>1. Promise!Accept(j)
      BY <1>3, <1>6, <2>2 DEF Promise!Accept, Silent
    <3>2. QED
      BY <3>1 DEF Promise!Next
  <2>3. CASE PhaseOf(j) = "pending" /\ PhaseOf(j)' = "working" /\ Silent(j)
    <3>1. Promise!Begin(j)
      BY <1>3, <1>6, <2>3 DEF Promise!Begin, Silent
    <3>2. QED
      BY <3>1 DEF Promise!Next
  <2>4. CASE /\ PhaseOf(j) = "working" /\ PhaseOf(j)' = "working"
             /\ cloud[j] = "nothing" /\ cloud'[j] \in {"exists", "simulated"}
             /\ ToldOf(j)' = ToldOf(j)
    <3>1. Promise!Provide(j)
      BY <1>4, <1>6, <2>4 DEF Promise!Provide
    <3>2. QED
      BY <3>1 DEF Promise!Next
  <2>5. CASE /\ PhaseOf(j) \in {"pending", "working"} /\ PhaseOf(j)' = "closed"
             /\ cloud'[j] = cloud[j]
             /\ \/ ToldOf(j)' = "nothing"
                \/ /\ ToldOf(j)' = "success"
                   /\ cloud[j] \in {"exists", "simulated"}
                \/ ToldOf(j)' = "failed" /\ PhaseOf(j) = "working"
    <3>1. Promise!Close(j, ToldOf(j)')
      BY <1>3, <1>5, <1>6, <2>5 DEF Promise!Close
    <3>2. QED
      BY <2>5, <3>1 DEF Promise!Next
  <2>6. CASE /\ PhaseOf(j) = "closed" /\ PhaseOf(j)' = "closed"
             /\ ToldOf(j) = "success" /\ ToldOf(j)' = "success"
             /\ cloud[j] \notin {"nothing", "simulated"}
             /\ cloud'[j] = "destroyed"
    <3>1. Promise!Destroy(j)
      BY <1>4, <1>6, <2>6 DEF Promise!Destroy
    <3>2. QED
      BY <3>1 DEF Promise!Next
  <2>7. QED
    BY <2>1, <2>2, <2>3, <2>4, <2>5, <2>6 DEF MovesAsPromised
<1>8. QED
  BY <1>2, <1>7 DEF PromiseStep

(* Nothing the promise is about moves.                                     *)
LEMMA NobodyMoves ==
  ASSUME TypeOK, TypeOK', PInv, \A i \in Jobs : Steady(i)
  PROVE  PromiseStep
<1>1. \A i \in Jobs : PromiseInv(i)' /\ PhaseOf(i)' = PhaseOf(i) /\ Silent(i)
  BY SteadyKeeps DEF PInv
<1>2. UNCHANGED Promise!vars
  BY <1>1 DEF Promise!vars, Silent, TypeOK
<1>3. QED
  BY <1>1, <1>2 DEF PromiseStep, PInv

(***************************************************************************)
(* The background task                                                     *)
(***************************************************************************)

(* The threads are left alone, so nothing changes who will be scheduled,   *)
(* and jobs but one are as they were.                                      *)
LEMMA OthersSteady ==
  ASSUME TypeOK, NEW j \in Jobs, UNCHANGED creator,
         \A i \in Jobs \ {j} :
            /\ worker'[i] = worker[i] /\ cloud'[i] = cloud[i]
            /\ notified'[i] = notified[i] /\ jobs'[i] = jobs[i]
  PROVE  /\ \A i \in Jobs \ {j} : Steady(i)
         /\ AboutToBeScheduled(j)' <=> AboutToBeScheduled(j)
BY DEF Steady, AboutToBeScheduled

(* From one stage of the run to another, with or without an effect.        *)
LEMMA RunGoesOn ==
  ASSUME IInv, PInv, TypeOK', NEW j \in Jobs,
         UNCHANGED <<creator, jobs, notified>>,
         \A i \in Jobs \ {j} : worker'[i] = worker[i] /\ cloud'[i] = cloud[i],
         worker[j].pc \in AtWork, worker'[j].pc \in AtWork,
         worker'[j].credential = worker[j].credential,
         worker'[j].pc = "demo" => worker[j].credential \in DemoCredentials,
         \/ cloud'[j] = cloud[j]
         \/ cloud[j] = "nothing" /\ cloud'[j] = "exists"
         \/ /\ cloud[j] = "nothing" /\ cloud'[j] = "simulated"
            /\ worker[j].credential \in DemoCredentials,
         worker'[j].pc \in BeforeStart \union BeforeApply
                              \union {"applying", "demo"}
            => /\ worker[j].pc \in {"starting"} \union BeforeApply
               /\ cloud'[j] = cloud[j]
  PROVE  PromiseStep
<1>1. TypeOK /\ PromiseInv(j) /\ JobInv(j)
  BY DEF IInv, PInv
<1>2. Exists(j) /\ Exists(j)'
  BY <1>1 DEF JobInv, StatusFollowsTask, AtWork, Exists
<1>3. worker[j].pc \in Stages /\ worker'[j].pc \in Stages
  BY DEF AtWork
<1>4. PhaseOf(j) = "working" /\ PhaseOf(j)' = "working"
  BY <1>2 DEF PhaseOf, AtWork, Stages
<1>5. ToldOf(j)' = ToldOf(j)
  BY DEF ToldOf
<1>6. MovesAsPromised(j)
  BY <1>4, <1>5 DEF MovesAsPromised, Silent
<1>7. NothingMadeYet(j)'
  BY <1>1 DEF PromiseInv, NothingMadeYet, AtWork, Stages, BeforeStart,
     BeforeApply
<1>8. SuccessWasTold(j)'
  BY <1>1 DEF PromiseInv, SuccessWasTold, AtWork
<1>9. DemoStaysDemo(j)'
  BY <1>1 DEF PromiseInv, DemoStaysDemo, NothingMadeYet, AtWork, Stages,
     Terraforming, BeforeApply
<1>10. PromiseInv(j)'
  BY <1>7, <1>8, <1>9 DEF PromiseInv
<1>11. \A i \in Jobs \ {j} : Steady(i)
  BY <1>1, OthersSteady
<1>12. QED
  BY <1>1, <1>6, <1>10, <1>11, OneJobMoves DEF IInv

(* The task ends, in silence or having told its user.                      *)
LEMMA RunEnds ==
  ASSUME IInv, PInv, TypeOK', NEW j \in Jobs,
         UNCHANGED <<creator, cloud>>,
         \A i \in Jobs \ {j} :
            /\ worker'[i] = worker[i] /\ jobs'[i] = jobs[i]
            /\ notified'[i] = notified[i],
         worker[j].pc \in AtWork \union {"scheduled"},
         worker'[j].pc \in {"ended", "lost"},
         jobs'[j].credential = jobs[j].credential,
         \/ UNCHANGED <<notified, jobs>>
         \/ UNCHANGED notified /\ jobs'[j].status \in {"failed", "cancelled"}
         \/ /\ worker[j].pc \in AtWork /\ worker'[j].pc = "ended"
            /\ jobs'[j].status = "failed"
            /\ notified'[j]["failed"] = notified[j]["failed"] + 1
            /\ notified'[j]["success"] = notified[j]["success"]
         \/ /\ worker[j].pc \in AtWork /\ worker'[j].pc = "ended"
            /\ jobs'[j].status = "success" /\ cloud[j] # "nothing"
            /\ notified'[j]["success"] = notified[j]["success"] + 1
  PROVE  PromiseStep
<1>1. TypeOK /\ PromiseInv(j) /\ JobInv(j)
  BY DEF IInv, PInv
<1>2. worker[j].pc \in Stages /\ worker'[j].pc \in Stages
  BY DEF AtWork, Stages
<1>3. Exists(j)
  BY <1>1 DEF JobInv, StatusFollowsTask, AtWork, Exists
<1>4. Exists(j)'
  BY <1>3 DEF Exists
<1>5. PhaseOf(j) = IF worker[j].pc = "scheduled" THEN "pending" ELSE "working"
  BY <1>3 DEF PhaseOf, AtWork, Stages
<1>6. PhaseOf(j)' = "closed"
  BY <1>4 DEF PhaseOf
<1>7. /\ notified[j]["success"] = 0 /\ notified[j]["failed"] = 0
      /\ cloud[j] \in Clouds \ {"destroyed"}
  BY <1>1, JobTypes DEF JobInv, ToldAtTheEnd, PromiseInv, NothingMadeYet,
     AtWork, Stages
<1>8. MovesAsPromised(j)
  BY <1>5, <1>6, <1>7 DEF MovesAsPromised, ToldOf, AtWork, Clouds
<1>9. PromiseInv(j)'
  BY <1>1, <1>7 DEF PromiseInv, NothingMadeYet, SuccessWasTold, DemoStaysDemo,
     BeforeStart, BeforeApply, Terraforming, AtWork
<1>10. \A i \in Jobs \ {j} : Steady(i)
  BY <1>1, OthersSteady
<1>11. QED
  BY <1>1, <1>8, <1>9, <1>10, OneJobMoves

(* Every step of the task of j.                                            *)
LEMMA WorkerStepPromised ==
  ASSUME IInv, PInv, TypeOK', NEW j \in Jobs, WorkerStep(j) \/ TaskRaises(j)
  PROVE  PromiseStep
<1> USE ConstantsAssumption DEF tables, memory, world
<1>0. /\ TypeOK /\ JobInv(j) /\ PromiseInv(j)
      /\ jobs \in [Jobs -> Row] /\ worker \in [Jobs -> Worker]
      /\ clock \in [Jobs -> Nat] /\ audited \in [Jobs -> Nat]
      /\ notified \in [Jobs -> [{"success", "failed"} -> Nat]]
      /\ cloud \in [Jobs -> Clouds]
  BY DEF IInv, PInv, TypeOK
<1>1. ASSUME StartJob(j) PROVE PromiseStep
  <2>1. CASE j \in cancelRequested /\ CancelJob(j) /\ GoTo(j, "ended")
    <3>1. /\ worker'[j].pc = "ended"
          /\ \A i \in Jobs \ {j} : worker'[i] = worker[i]
      BY <1>0, <2>1, WorkerMoves DEF Stages
    <3>2. /\ jobs'[j].status = "cancelled"
          /\ jobs'[j].credential = jobs[j].credential
          /\ \A i \in Jobs \ {j} : jobs'[i] = jobs[i]
      BY <1>0, <2>1, JobSettles DEF CancelJob, Terminal
    <3>3. UNCHANGED <<creator, cloud, notified>> /\ worker[j].pc = "scheduled"
      BY <1>1, <2>1 DEF StartJob, CancelJob
    <3>4. QED
      BY <3>1, <3>2, <3>3, RunEnds
  <2>2. CASE /\ j \notin cancelRequested
             /\ worker' = [worker EXCEPT ![j] =
                   [@ EXCEPT !.pc = "starting", !.stamp = Now(j),
                             !.credential = jobs[j].credential]]
             /\ Tick(j)
             /\ UNCHANGED <<jobs, notified, audited, cancelRequested>>
    <3>1. /\ worker'[j].pc = "starting"
          /\ worker'[j].credential = jobs[j].credential
          /\ \A i \in Jobs \ {j} : worker'[i] = worker[i]
      BY <1>0, <2>2 DEF Worker
    <3>2. /\ UNCHANGED <<creator, cloud, jobs, notified>>
          /\ worker[j].pc = "scheduled"
      BY <1>1, <2>2 DEF StartJob
    <3>3. Exists(j) /\ Exists(j)'
      BY <1>0, <3>2 DEF JobInv, StatusFollowsTask, Exists
    <3>4. PhaseOf(j) = "pending" /\ PhaseOf(j)' = "working"
      BY <3>1, <3>2, <3>3 DEF PhaseOf
    <3>5. MovesAsPromised(j)
      BY <3>2, <3>4 DEF MovesAsPromised, Silent, ToldOf
    <3>6. PromiseInv(j)'
      BY <1>0, <3>1, <3>2
         DEF PromiseInv, NothingMadeYet, SuccessWasTold, DemoStaysDemo,
             BeforeStart, BeforeApply, Terraforming
    <3>7. \A i \in Jobs \ {j} : Steady(i)
      BY <1>0, <3>1, <3>2, OthersSteady
    <3>8. QED
      BY <1>0, <3>5, <3>6, <3>7, OneJobMoves
  <2>3. QED
    BY <1>1, <2>1, <2>2 DEF StartJob
<1>2. ASSUME CommitStart(j) PROVE PromiseStep
  <2>1. CASE FinishedAfterStarted(StartedRow(j))
    <3>1. /\ worker'[j].pc = "checking"
          /\ worker'[j].credential = worker[j].credential
          /\ \A i \in Jobs \ {j} : worker'[i] = worker[i]
      BY <1>0, <1>2, <2>1, WorkerMoves DEF CommitStart, Stages
    <3>2. /\ jobs'[j].status = "running"
          /\ jobs'[j].credential = jobs[j].credential
          /\ \A i \in Jobs \ {j} : jobs'[i] = jobs[i]
      <4>1. jobs' = [jobs EXCEPT ![j] = StartedRow(j)]
        BY <1>2, <2>1 DEF CommitStart
      <4>2. /\ StartedRow(j).status = "running"
            /\ StartedRow(j).credential = jobs[j].credential
        BY <1>0 DEF StartedRow, Row
      <4>3. QED
        BY <1>0, <4>1, <4>2
    <3>3. UNCHANGED <<creator, cloud, notified>> /\ worker[j].pc = "starting"
      BY <1>2 DEF CommitStart
    <3>4. Exists(j) /\ Exists(j)'
      BY <1>0, <3>2, <3>3 DEF JobInv, StatusFollowsTask, Exists
    <3>5. PhaseOf(j) = "working" /\ PhaseOf(j)' = "working"
      BY <3>1, <3>3, <3>4 DEF PhaseOf
    <3>6. MovesAsPromised(j)
      BY <3>3, <3>5 DEF MovesAsPromised, Silent, ToldOf
    <3>7. PromiseInv(j)'
      BY <1>0, <3>1, <3>2, <3>3
         DEF PromiseInv, NothingMadeYet, SuccessWasTold, DemoStaysDemo,
             BeforeStart, BeforeApply, Terraforming
    <3>8. \A i \in Jobs \ {j} : Steady(i)
      BY <1>0, <3>1, <3>2, <3>3, OthersSteady
    <3>9. QED
      BY <1>0, <3>6, <3>7, <3>8, OneJobMoves
  <2>2. CASE ~FinishedAfterStarted(StartedRow(j))
    <3>1. /\ worker'[j].pc = "lost"
          /\ \A i \in Jobs \ {j} : worker'[i] = worker[i]
      BY <1>0, <1>2, <2>2, WorkerMoves DEF CommitStart, Stages
    <3>2. /\ UNCHANGED <<creator, cloud, jobs, notified>>
          /\ worker[j].pc \in AtWork
      BY <1>2, <2>2 DEF CommitStart, AtWork, Stages
    <3>3. QED
      BY <3>1, <3>2, RunEnds
  <2>3. QED
    BY <2>1, <2>2
<1>3. ASSUME FinalizeJob(j, "failed"), GoTo(j, "ended"),
             UNCHANGED <<creator, cloud>>, worker[j].pc \in AtWork
      PROVE  PromiseStep
  <2>1. /\ worker'[j].pc = "ended"
        /\ \A i \in Jobs \ {j} : worker'[i] = worker[i]
    BY <1>0, <1>3, WorkerMoves DEF Stages
  <2>2. /\ jobs'[j].status = "failed"
        /\ jobs'[j].credential = jobs[j].credential
        /\ \A i \in Jobs \ {j} : jobs'[i] = jobs[i]
    BY <1>0, <1>3, JobSettles DEF FinalizeJob, Terminal
  <2>3. /\ notified'[j]["failed"] = notified[j]["failed"] + 1
        /\ notified'[j]["success"] = notified[j]["success"]
        /\ \A i \in Jobs \ {j} : notified'[i] = notified[i]
    BY <1>0, <1>3, JobFinalized
  <2>4. QED
    BY <1>3, <2>1, <2>2, <2>3, RunEnds
<1>4. ASSUME FinalizeJob(j, "success"), GoTo(j, "ended"),
             UNCHANGED <<creator, cloud>>, worker[j].pc \in AtWork,
             cloud[j] # "nothing"
      PROVE  PromiseStep
  <2>1. /\ worker'[j].pc = "ended"
        /\ \A i \in Jobs \ {j} : worker'[i] = worker[i]
    BY <1>0, <1>4, WorkerMoves DEF Stages
  <2>2. /\ jobs'[j].status = "success"
        /\ jobs'[j].credential = jobs[j].credential
        /\ \A i \in Jobs \ {j} : jobs'[i] = jobs[i]
    BY <1>0, <1>4, JobSettles DEF FinalizeJob, Terminal
  <2>3. /\ notified'[j]["success"] = notified[j]["success"] + 1
        /\ \A i \in Jobs \ {j} : notified'[i] = notified[i]
    BY <1>0, <1>4, JobFinalized
  <2>4. QED
    BY <1>4, <2>1, <2>2, <2>3, RunEnds
<1>5. ASSUME CancelJob(j), GoTo(j, "ended"),
             UNCHANGED <<creator, cloud>>, worker[j].pc \in AtWork
      PROVE  PromiseStep
  <2>1. /\ worker'[j].pc = "ended"
        /\ \A i \in Jobs \ {j} : worker'[i] = worker[i]
    BY <1>0, <1>5, WorkerMoves DEF Stages
  <2>2. /\ jobs'[j].status = "cancelled"
        /\ jobs'[j].credential = jobs[j].credential
        /\ \A i \in Jobs \ {j} : jobs'[i] = jobs[i]
    BY <1>0, <1>5, JobSettles DEF CancelJob, Terminal
  <2>3. UNCHANGED notified
    BY <1>5 DEF CancelJob
  <2>4. QED
    BY <1>5, <2>1, <2>2, <2>3, RunEnds
<1>6. ASSUME GoTo(j, "lost"), UNCHANGED <<creator, cloud, jobs, notified>>,
             worker[j].pc \in AtWork \union {"scheduled"}
      PROVE  PromiseStep
  <2>1. /\ worker'[j].pc = "lost"
        /\ \A i \in Jobs \ {j} : worker'[i] = worker[i]
    BY <1>0, <1>6, WorkerMoves DEF Stages
  <2>2. QED
    BY <1>6, <2>1, RunEnds
<1>7. ASSUME NEW res \in Results, RunnerReturns(j, res),
             UNCHANGED <<creator, jobs, notified>>, worker[j].pc \in AtWork,
             \/ UNCHANGED cloud
             \/ /\ worker[j].pc = "applying"
                /\ cloud' = [cloud EXCEPT ![j] = "exists"]
             \/ /\ worker[j].pc = "demo"
                /\ cloud' = [cloud EXCEPT ![j] = "simulated"]
      PROVE  PromiseStep
  <2>1. /\ worker'[j].pc = "finishing"
        /\ worker'[j].credential = worker[j].credential
        /\ \A i \in Jobs \ {j} : worker'[i] = worker[i]
    BY <1>0, <1>7, WorkerReturns
  <2>2. \A i \in Jobs \ {j} : cloud'[i] = cloud[i]
    BY <1>0, <1>7
  <2>3. \/ cloud'[j] = cloud[j]
        \/ cloud[j] = "nothing" /\ cloud'[j] = "exists"
        \/ /\ cloud[j] = "nothing" /\ cloud'[j] = "simulated"
           /\ worker[j].credential \in DemoCredentials
    BY <1>0, <1>7 DEF PromiseInv, NothingMadeYet, DemoStaysDemo
  <2>4. QED
    BY <1>7, <2>1, <2>2, <2>3, RunGoesOn
       DEF AtWork, Stages, BeforeStart, BeforeApply
<1>8. ASSUME NEW s \in AtWork, GoTo(j, s),
             UNCHANGED <<creator, jobs, notified>>, worker[j].pc \in AtWork,
             s = "demo" => worker[j].credential \in DemoCredentials,
             \/ UNCHANGED cloud
             \/ worker[j].pc = "applying" /\ s = "output"
                /\ cloud' = [cloud EXCEPT ![j] = "exists"],
             s # "output" => worker[j].pc \in BeforeApply,
             s # "finishing"
      PROVE  PromiseStep
  <2>1. /\ worker'[j].pc = s
        /\ worker'[j].credential = worker[j].credential
        /\ \A i \in Jobs \ {j} : worker'[i] = worker[i]
    BY <1>0, <1>8, WorkerMoves DEF AtWork
  <2>2. /\ \A i \in Jobs \ {j} : cloud'[i] = cloud[i]
        /\ \/ cloud'[j] = cloud[j]
           \/ cloud[j] = "nothing" /\ cloud'[j] = "exists"
    BY <1>0, <1>8 DEF PromiseInv, NothingMadeYet
  <2>3. s # "output" => cloud'[j] = cloud[j]
    BY <1>8
  <2>4. QED
    BY <1>8, <2>1, <2>2, <2>3, RunGoesOn DEF AtWork, Stages, BeforeStart,
       BeforeApply
<1>9. ASSUME NEW next \in {"planning", "applying"}, CheckCancelThen(j, next),
             UNCHANGED <<creator, jobs, notified, cloud>>,
             worker[j].pc \in {"init", "planning"}
      PROVE  PromiseStep
  <2>1. worker[j].pc \in AtWork \intersect BeforeApply /\ next \in AtWork
    BY <1>9 DEF AtWork, Stages, BeforeApply
  <2>2. CASE j \in cancelRequested
    BY <1>7, <1>9, <2>1, <2>2 DEF CheckCancelThen, Results
  <2>3. CASE j \notin cancelRequested
    <3>1. GoTo(j, next)
      BY <1>9, <2>3 DEF CheckCancelThen
    <3>2. QED
      BY <1>8, <1>9, <2>1, <3>1
  <2>4. QED
    BY <2>2, <2>3
<1>10. ASSUME FailEarly(j) PROVE PromiseStep
  BY <1>3, <1>10 DEF FailEarly, AtWork, Stages
<1>11. ASSUME CredentialVanished(j) PROVE PromiseStep
  BY <1>6, <1>11 DEF CredentialVanished, AtWork, Stages
<1>12. ASSUME BeginRun(j) PROVE PromiseStep
  <2>1. UNCHANGED <<creator, jobs, notified, cloud>>
        /\ worker[j].pc \in AtWork \intersect BeforeApply
    BY <1>12 DEF BeginRun, AtWork, Stages, BeforeApply
  <2>2. CASE worker[j].credential \in DemoCredentials
    BY <1>8, <1>12, <2>1, <2>2 DEF BeginRun, AtWork, Stages
  <2>3. CASE worker[j].credential \notin DemoCredentials
    BY <1>8, <1>12, <2>1, <2>3 DEF BeginRun, AtWork, Stages
  <2>4. QED
    BY <2>2, <2>3
<1>13. ASSUME DemoRun(j) PROVE PromiseStep
  BY <1>7, <1>13 DEF DemoRun, AtWork, Stages, Results
<1>14. ASSUME PrepareWorkspace(j) PROVE PromiseStep
  <2>1. /\ UNCHANGED <<creator, jobs, notified, cloud>>
        /\ worker[j].pc \in AtWork \intersect BeforeApply
        /\ "waiting" \in AtWork
    BY <1>14 DEF PrepareWorkspace, AtWork, Stages, BeforeApply
  <2>2. CASE GoTo(j, "waiting")
    BY <1>8, <2>1, <2>2
  <2>3. CASE RunnerReturns(j, "failed")
    BY <1>7, <2>1, <2>3 DEF Results
  <2>4. QED
    BY <1>14, <2>2, <2>3 DEF PrepareWorkspace
<1>15. ASSUME BeginInit(j) PROVE PromiseStep
  BY <1>8, <1>15 DEF BeginInit, AtWork, Stages, BeforeApply
<1>16. ASSUME EndInit(j) PROVE PromiseStep
  <2>1. /\ UNCHANGED <<creator, jobs, notified, cloud>>
        /\ worker[j].pc = "init" /\ worker[j].pc \in AtWork
    BY <1>16 DEF EndInit, AtWork, Stages
  <2>2. CASE CheckCancelThen(j, "planning")
    BY <1>9, <2>1, <2>2
  <2>3. CASE RunnerReturns(j, "failed")
    BY <1>7, <2>1, <2>3 DEF Results
  <2>4. QED
    BY <1>16, <2>2, <2>3 DEF EndInit
<1>17. ASSUME EndPlan(j) PROVE PromiseStep
  <2>1. /\ UNCHANGED <<creator, jobs, notified, cloud>>
        /\ worker[j].pc = "planning" /\ worker[j].pc \in AtWork
    BY <1>17 DEF EndPlan, AtWork, Stages
  <2>2. CASE CheckCancelThen(j, "applying")
    BY <1>9, <2>1, <2>2
  <2>3. CASE RunnerReturns(j, "failed")
    BY <1>7, <2>1, <2>3 DEF Results
  <2>4. QED
    BY <1>17, <2>2, <2>3 DEF EndPlan
<1>18. ASSUME EndApply(j) PROVE PromiseStep
  <2>1. /\ UNCHANGED <<creator, jobs, notified>>
        /\ worker[j].pc = "applying" /\ worker[j].pc \in AtWork
        /\ "output" \in AtWork
    BY <1>18 DEF EndApply, AtWork, Stages
  <2>2. CASE GoTo(j, "output") /\ cloud' = [cloud EXCEPT ![j] = "exists"]
    BY <1>8, <2>1, <2>2
  <2>3. CASE /\ RunnerReturns(j, "failed")
             /\ cloud' \in {cloud, [cloud EXCEPT ![j] = "exists"]}
    BY <1>7, <2>1, <2>3 DEF Results
  <2>4. QED
    BY <1>18, <2>2, <2>3 DEF EndApply
<1>19. ASSUME EndOutput(j) PROVE PromiseStep
  BY <1>7, <1>19 DEF EndOutput, AtWork, Stages, Results
<1>20. ASSUME FinishJob(j) PROVE PromiseStep
  <2>1. UNCHANGED <<creator, cloud>> /\ worker[j].pc = "finishing"
        /\ worker[j].pc \in AtWork
    BY <1>20 DEF FinishJob, AtWork, Stages
  <2>2. CASE CancelJob(j) /\ GoTo(j, "ended")
    BY <1>5, <2>1, <2>2
  <2>3. CASE FinalizeJob(j, "failed") /\ GoTo(j, "ended")
    BY <1>3, <2>1, <2>3
  <2>4. CASE /\ worker[j].result \in {"created", "created_no_id"}
             /\ FinalizeJob(j, "success") /\ GoTo(j, "ended")
    <3>1. cloud[j] # "nothing"
      BY <1>0, <2>1, <2>4 DEF JobInv, CloudFollowsTask
    <3>2. QED
      BY <1>4, <2>1, <2>4, <3>1
  <2>5. CASE GoTo(j, "lost") /\ UNCHANGED <<jobs, notified>>
    BY <1>6, <2>1, <2>5
  <2>6. QED
    BY <1>20, <2>2, <2>3, <2>4, <2>5 DEF FinishJob
<1>21. ASSUME TaskRaises(j) PROVE PromiseStep
  BY <1>6, <1>21 DEF TaskRaises, AtWork, Stages
<1>22. QED
  BY <1>1, <1>2, <1>10, <1>11, <1>12, <1>13, <1>14, <1>15, <1>16, <1>17,
     <1>18, <1>19, <1>20, <1>21 DEF WorkerStep

(***************************************************************************)
(* The request threads, dev_destroy_job and the restart                    *)
(***************************************************************************)

(* Storing a request: the row of one job appears, nothing else moves.      *)
LEMMA RowAppears ==
  ASSUME IInv, PInv, TypeOK', NEW j \in Jobs,
         UNCHANGED <<worker, cloud, notified>>,
         ~Exists(j), jobs'[j].status \in {"queued", "failed"},
         \A i \in Jobs \ {j} :
            /\ jobs'[i] = jobs[i]
            /\ AboutToBeScheduled(i)' <=> AboutToBeScheduled(i)
  PROVE  PromiseStep
<1>1. TypeOK /\ PromiseInv(j) /\ JobInv(j)
  BY DEF IInv, PInv
<1>2. worker[j].pc = "none"
  BY <1>1 DEF JobInv, StatusFollowsTask
<1>3. PhaseOf(j) = "absent" /\ PhaseOf(j)' \in {"pending", "closed"}
  BY <1>2 DEF PhaseOf, Exists
<1>4. MovesAsPromised(j)
  BY <1>3 DEF MovesAsPromised, Silent, ToldOf
<1>5. PromiseInv(j)'
  BY <1>1, <1>2 DEF PromiseInv, NothingMadeYet, SuccessWasTold, DemoStaysDemo,
     BeforeStart, Terraforming, BeforeApply
<1>6. \A i \in Jobs \ {j} : Steady(i)
  BY DEF Steady
<1>7. QED
  BY <1>1, <1>4, <1>5, <1>6, OneJobMoves

LEMMA CreateStepPromised ==
  ASSUME IInv, PInv, TypeOK', NEW h \in Creators, CreateSteps(h)
  PROVE  PromiseStep
<1> USE ConstantsAssumption DEF tables, memory, world
<1>0. /\ TypeOK /\ CreatorsHoldFreshJobs
      /\ jobs \in [Jobs -> Row] /\ creator \in [Creators -> Creator]
      /\ worker \in [Jobs -> Worker]
  BY DEF IInv, TypeOK
<1>1. ASSUME NEW r \in Replies, Reply(h, r), creator[h].pc # "committed",
             UNCHANGED <<worker, cloud, notified, jobs>>
      PROVE  PromiseStep
  <2>1. \A i \in Jobs : AboutToBeScheduled(i)' <=> AboutToBeScheduled(i)
    BY <1>0, <1>1, RequestAnswered DEF AboutToBeScheduled
  <2>2. \A i \in Jobs : Steady(i)
    BY <1>1, <2>1 DEF Steady
  <2>3. QED
    BY <1>0, <2>2, NobodyMoves
<1>2. ASSUME NEW k \in Keys, NEW p \in Payloads, NEW c \in Credentials,
             ReceiveCreate(h, k, p, c)
      PROVE  PromiseStep
  <2>1. UNCHANGED <<worker, cloud, notified, jobs>> /\ creator[h].pc = "idle"
    BY <1>2 DEF ReceiveCreate
  <2>2. CASE \E r \in Replies : Reply(h, r)
    BY <1>1, <2>1, <2>2
  <2>3. CASE creator' = [creator EXCEPT ![h] =
                [@ EXCEPT !.pc = IF p \in ValidPayloads
                                 THEN "inserting" ELSE "rejecting",
                          !.key = k, !.payload = p, !.credential = c]]
    <3>1. /\ creator'[h].pc # "committed"
          /\ \A g \in Creators \ {h} : creator'[g] = creator[g]
      BY <1>0, <2>3 DEF Creator
    <3>2. \A i \in Jobs : AboutToBeScheduled(i)' <=> AboutToBeScheduled(i)
      BY <2>1, <3>1 DEF AboutToBeScheduled
    <3>3. \A i \in Jobs : Steady(i)
      BY <2>1, <3>2 DEF Steady
    <3>4. QED
      BY <1>0, <3>3, NobodyMoves
  <2>4. QED
    BY <1>2, <2>2, <2>3 DEF ReceiveCreate, Replies
<1>3. ASSUME InsertJob(h) PROVE PromiseStep
  <2>1. PICK j \in Jobs :
           /\ ~Exists(j)
           /\ jobs' = [jobs EXCEPT ![j] = NewRow(h, "queued", 0)]
           /\ creator' = [creator EXCEPT ![h].pc = "committed", ![h].job = j]
    BY <1>3 DEF InsertJob
  <2>2. /\ jobs'[j].status = "queued"
        /\ \A i \in Jobs \ {j} : jobs'[i] = jobs[i]
    BY <1>0, <2>1 DEF NewRow
  <2>3. /\ creator'[h].pc = "committed" /\ creator'[h].job = j
        /\ \A g \in Creators \ {h} : creator'[g] = creator[g]
    BY <1>0, <2>1 DEF Creator
  <2>4. UNCHANGED <<worker, cloud, notified>> /\ creator[h].pc = "inserting"
    BY <1>3 DEF InsertJob
  <2>5. \A i \in Jobs \ {j} : AboutToBeScheduled(i)' <=> AboutToBeScheduled(i)
    BY <2>3, <2>4 DEF AboutToBeScheduled
  <2>6. QED
    BY <2>1, <2>2, <2>4, <2>5, RowAppears
<1>4. ASSUME RecordRejectedJob(h) PROVE PromiseStep
  <2>1. PICK j \in Jobs :
           /\ ~Exists(j)
           /\ jobs' = [jobs EXCEPT ![j] = NewRow(h, "failed", Now(j))]
    BY <1>4 DEF RecordRejectedJob
  <2>2. /\ jobs'[j].status = "failed"
        /\ \A i \in Jobs \ {j} : jobs'[i] = jobs[i]
    BY <1>0, <2>1 DEF NewRow
  <2>3. /\ UNCHANGED <<worker, cloud, notified>>
        /\ creator[h].pc = "rejecting" /\ Reply(h, "invalid")
    BY <1>4 DEF RecordRejectedJob
  <2>4. \A i \in Jobs \ {j} : AboutToBeScheduled(i)' <=> AboutToBeScheduled(i)
    BY <1>0, <2>3, RequestAnswered DEF AboutToBeScheduled, Replies
  <2>5. QED
    BY <2>1, <2>2, <2>3, <2>4, RowAppears
<1>5. ASSUME InsertFails(h) PROVE PromiseStep
  BY <1>1, <1>5 DEF InsertFails, Replies
<1>6. ASSUME ScheduleJob(h) PROVE PromiseStep
  <2>1. PICK j \in Jobs :
           j = creator[h].job /\ Exists(j) /\ worker[j].pc = "none"
    BY <1>0, <1>6 DEF ScheduleJob, CreatorsHoldFreshJobs
  <2>2. /\ creator[h].pc = "committed" /\ Reply(h, "accepted")
        /\ UNCHANGED <<cloud, notified, jobs>> /\ GoTo(j, "scheduled")
    BY <1>6, <2>1 DEF ScheduleJob, GoTo
  <2>3. /\ worker'[j].pc = "scheduled"
        /\ \A i \in Jobs \ {j} : worker'[i] = worker[i]
    BY <1>0, <2>2, WorkerMoves DEF Stages
  <2>4. /\ creator'[h].pc = "done"
        /\ \A g \in Creators \ {h} : creator'[g] = creator[g]
    BY <1>0, <2>2, RequestAnswered DEF Replies
  <2>5. \A i \in Jobs \ {j} : AboutToBeScheduled(i)' <=> AboutToBeScheduled(i)
    BY <2>1, <2>4 DEF AboutToBeScheduled
  <2>6. \A i \in Jobs \ {j} : Steady(i)
    BY <2>2, <2>3, <2>5 DEF Steady
  <2>7. AboutToBeScheduled(j) /\ Exists(j)'
    BY <2>1, <2>2 DEF AboutToBeScheduled, Exists
  <2>8. PhaseOf(j) = "pending" /\ PhaseOf(j)' = "pending"
    BY <2>1, <2>3, <2>7 DEF PhaseOf
  <2>9. MovesAsPromised(j)
    BY <2>2, <2>8 DEF MovesAsPromised, Silent, ToldOf
  <2>10. PromiseInv(j)'
    BY <2>1, <2>2, <2>3 DEF PInv, PromiseInv, NothingMadeYet, SuccessWasTold,
       DemoStaysDemo, BeforeStart, BeforeApply, Terraforming
  <2>11. QED
    BY <1>0, <2>6, <2>9, <2>10, OneJobMoves
<1>7. QED
  BY <1>2, <1>3, <1>4, <1>5, <1>6 DEF CreateSteps

(* Rewriting status and times, or dropping the credential, of stored rows. *)
LEMMA RowsRewritten ==
  ASSUME TypeOK, TypeOK', PInv, UNCHANGED <<worker, cloud, notified, creator>>,
         \A i \in Jobs :
            /\ jobs'[i].credential \in {jobs[i].credential, NoCredential}
            /\ jobs'[i].status = "absent" <=> jobs[i].status = "absent"
            /\ jobs'[i].status = "success" => jobs[i].status = "success"
  PROVE  PromiseStep
<1>1. \A i \in Jobs : AboutToBeScheduled(i)' <=> AboutToBeScheduled(i)
  BY DEF AboutToBeScheduled
<1>2. \A i \in Jobs : Steady(i)
  BY <1>1 DEF Steady
<1>3. QED
  BY <1>2, NobodyMoves

LEMMA CancelStepPromised ==
  ASSUME IInv, PInv, TypeOK', NEW h \in Cancellers, CancelSteps(h)
  PROVE  PromiseStep
<1> USE DEF tables, memory, world
<1>0. TypeOK /\ WritersKnowTheirJob /\ jobs \in [Jobs -> Row]
  BY DEF IInv, TypeOK
<1>1. UNCHANGED <<worker, cloud, notified, creator>>
  BY DEF CancelSteps, ReceiveCancel, StampCancel, CommitCancel, FlagCancel
<1>2. CASE UNCHANGED jobs
  BY <1>0, <1>1, <1>2, RowsRewritten
<1>3. CASE CommitCancel(h)
  <2>1. PICK j \in Jobs : j = canceller[h].job /\ Exists(j)
    BY <1>0, <1>3 DEF CommitCancel, WritersKnowTheirJob
  <2>2. CASE jobs' = [jobs EXCEPT ![j] = CancelledRow(h)]
    <3>1. /\ CancelledRow(h).status = "cancelled"
          /\ CancelledRow(h).credential = jobs[j].credential
      BY <1>0, <2>1 DEF CancelledRow, Row
    <3>2. QED
      BY <1>0, <1>1, <2>1, <2>2, <3>1, RowsRewritten DEF Exists
  <2>3. QED
    BY <1>2, <1>3, <2>1, <2>2 DEF CommitCancel
<1>4. QED
  BY <1>2, <1>3 DEF CancelSteps, ReceiveCancel, StampCancel, FlagCancel

LEMMA DeleteStepPromised ==
  ASSUME IInv, PInv, TypeOK', NEW h \in Deleters, DeleteSteps(h)
  PROVE  PromiseStep
<1> USE DEF tables, memory, world
<1>0. TypeOK /\ jobs \in [Jobs -> Row]
  BY DEF IInv, TypeOK
<1>1. UNCHANGED <<worker, cloud, notified, creator>>
  BY DEF DeleteSteps, CheckDelete, CommitDelete
<1>2. CASE UNCHANGED jobs
  BY <1>0, <1>1, <1>2, RowsRewritten
<1>3. CASE CommitDelete(h)
  <2>1. ASSUME NEW i \in Jobs
        PROVE  /\ jobs'[i].status = jobs[i].status
               /\ jobs'[i].credential \in {jobs[i].credential, NoCredential}
    BY <1>0, <1>3 DEF CommitDelete, Row
  <2>2. QED
    BY <1>0, <1>1, <2>1, RowsRewritten
<1>4. QED
  BY <1>2, <1>3 DEF DeleteSteps, CheckDelete

(* The resource of a successful job goes, its task long over.              *)
LEMMA DestroyPromised ==
  ASSUME IInv, PInv, TypeOK', NEW j \in Jobs, DestroyResource(j)
  PROVE  PromiseStep
<1> USE ConstantsAssumption DEF tables, memory, world
<1>0. TypeOK /\ JobInv(j) /\ PromiseInv(j) /\ cloud \in [Jobs -> Clouds]
  BY DEF IInv, PInv, TypeOK
<1>1. /\ UNCHANGED <<worker, notified, creator, jobs>>
      /\ jobs[j].status = "success"
      /\ jobs[j].credential \in Credentials \ DemoCredentials
      /\ cloud'[j] = "destroyed"
      /\ \A i \in Jobs \ {j} : cloud'[i] = cloud[i]
  BY <1>0 DEF DestroyResource, TypeOK
<1>2. worker[j].pc = "ended" /\ notified[j]["success"] > 0
  BY <1>0, <1>1 DEF PromiseInv, SuccessWasTold
<1>3. cloud[j] \notin {"nothing", "simulated"}
  BY <1>0, <1>1, <1>2 DEF JobInv, ToldAtTheEnd, PromiseInv, DemoStaysDemo
<1>4. PhaseOf(j) = "closed" /\ PhaseOf(j)' = "closed"
  BY <1>1, <1>2 DEF PhaseOf, Exists
<1>5. MovesAsPromised(j)
  BY <1>1, <1>2, <1>3, <1>4 DEF MovesAsPromised, ToldOf
<1>6. PromiseInv(j)'
  BY <1>0, <1>1, <1>2 DEF PromiseInv, NothingMadeYet, SuccessWasTold,
     DemoStaysDemo, BeforeStart, BeforeApply, Terraforming
<1>7. \A i \in Jobs \ {j} : Steady(i)
  BY <1>0, <1>1, OthersSteady
<1>8. QED
  BY <1>0, <1>5, <1>6, <1>7, OneJobMoves

LEMMA RecordDestroyPromised ==
  ASSUME IInv, PInv, TypeOK', RecordDestroy
  PROVE  PromiseStep
<1> USE DEF tables, memory, world
<1>0. /\ TypeOK /\ WritersKnowTheirJob
      /\ jobs \in [Jobs -> Row] /\ clock \in [Jobs -> Nat]
  BY DEF IInv, TypeOK
<1>1. PICK j \in Jobs : j = destroyer /\ Exists(j) /\ Settle(j, "cancelled")
  BY <1>0 DEF RecordDestroy, WritersKnowTheirJob, TypeOK
<1>2. /\ jobs'[j].status = "cancelled"
      /\ jobs'[j].credential = jobs[j].credential
      /\ \A i \in Jobs \ {j} : jobs'[i] = jobs[i]
  BY <1>0, <1>1, JobSettles DEF Terminal
<1>3. UNCHANGED <<worker, cloud, notified, creator>>
  BY DEF RecordDestroy
<1>4. QED
  BY <1>0, <1>1, <1>2, <1>3, RowsRewritten DEF Exists

(* A restart drops whatever was pending or at work, wherever it stood.     *)
LEMMA CrashPromised ==
  ASSUME IInv, PInv, TypeOK', Crash
  PROVE  PromiseStep
<1> USE DEF tables
<1> DEFINE phase == [i \in Jobs |-> PhaseOf(i)]
           told  == [i \in Jobs |-> ToldOf(i)]
           under == {i \in Jobs : phase[i] \in {"pending", "working"}}
<1>0. /\ TypeOK /\ TypeOK' /\ \A i \in Jobs : JobInv(i) /\ PromiseInv(i)
      /\ worker \in [Jobs -> Worker] /\ cloud \in [Jobs -> Clouds]
  BY DEF IInv, PInv, TypeOK
<1>1. UNCHANGED <<jobs, notified>>
  BY DEF Crash
<1>2. ASSUME NEW i \in Jobs PROVE ~AboutToBeScheduled(i)'
  <2>1. ASSUME NEW h \in Creators PROVE creator'[h].pc # "committed"
    <3>1. creator[h] \in Creator
      BY <1>0 DEF TypeOK
    <3>2. creator'[h] = IF creator[h].pc \in {"idle", "done"} THEN creator[h]
                        ELSE [creator[h] EXCEPT !.pc = "done",
                                                !.reply = "lost"]
      BY DEF Crash
    <3>3. QED
      BY <3>1, <3>2 DEF Creator
  <2>2. QED
    BY <2>1 DEF AboutToBeScheduled
<1>3. ASSUME NEW i \in Jobs
      PROVE  /\ worker[i].pc \in {"none", "ended"} => worker'[i] = worker[i]
             /\ worker[i].pc \notin {"none", "ended"} => worker'[i].pc = "lost"
  <2>1. worker[i] \in Worker
    BY <1>0
  <2>2. worker'[i] = IF worker[i].pc \in {"none", "ended"} THEN worker[i]
                     ELSE [worker[i] EXCEPT !.pc = "lost"]
    BY DEF Crash
  <2>3. QED
    BY <2>1, <2>2 DEF Worker
<1>4. PICK made \in SUBSET {i \in Jobs : worker[i].pc = "applying"} :
         cloud' = [i \in Jobs |-> IF i \in made THEN "exists" ELSE cloud[i]]
  BY DEF Crash
<1>5. ASSUME NEW i \in Jobs
      PROVE  PhaseOf(i)' = IF i \in under THEN "closed" ELSE PhaseOf(i)
  <2>1. CASE ~Exists(i)
    BY <1>1, <2>1 DEF PhaseOf, Exists
  <2>2. CASE Exists(i)
    <3>1. Exists(i)' /\ PhaseOf(i)' = "closed"
      BY <1>1, <1>2, <1>3, <2>2 DEF PhaseOf, Exists
    <3>2. PhaseOf(i) \in {"pending", "working", "closed"}
      BY <2>2 DEF PhaseOf
    <3>3. QED
      BY <3>1, <3>2
  <2>3. QED
    BY <2>1, <2>2
<1>6. ASSUME NEW i \in made
      PROVE  phase[i] = "working" /\ cloud[i] = "nothing"
  <2>1. i \in Jobs /\ worker[i].pc = "applying"
    BY <1>4
  <2>2. Exists(i) /\ cloud[i] = "nothing"
    BY <1>0, <2>1
       DEF JobInv, StatusFollowsTask, PromiseInv, NothingMadeYet
  <2>3. QED
    BY <2>1, <2>2 DEF PhaseOf
<1>7. Promise!Restart
  <2>1. phase' = [i \in Jobs |-> IF i \in under THEN "closed" ELSE phase[i]]
    BY <1>5
  <2>2. made \in SUBSET {i \in Jobs :
                          phase[i] = "working" /\ cloud[i] = "nothing"}
    BY <1>4, <1>6
  <2>3. told' = told
    BY <1>1 DEF ToldOf
  <2>4. under \in SUBSET {i \in Jobs : phase[i] \in {"pending", "working"}}
    OBVIOUS
  <2>5. QED
    BY <1>4, <2>1, <2>2, <2>3, <2>4 DEF Promise!Restart
<1>8. ASSUME NEW i \in Jobs PROVE PromiseInv(i)'
  <2>1. /\ cloud'[i] = "exists" \/ cloud'[i] = cloud[i]
        /\ worker'[i].pc = "none" => cloud'[i] = cloud[i]
    BY <1>3, <1>4
  <2>2. NothingMadeYet(i)'
    BY <1>0, <1>3, <2>1 DEF PromiseInv, NothingMadeYet, BeforeStart,
       BeforeApply
  <2>3. SuccessWasTold(i)'
    BY <1>0, <1>1, <1>3 DEF PromiseInv, SuccessWasTold
  <2>4. DemoStaysDemo(i)'
    BY <1>0, <1>1, <1>3, <2>1 DEF PromiseInv, DemoStaysDemo, Terraforming,
       BeforeApply
  <2>5. QED
    BY <2>2, <2>3, <2>4 DEF PromiseInv
<1>9. QED
  BY <1>7, <1>8 DEF PromiseStep, PInv, Promise!Next

(* Init of the service is Init of the promise.                             *)
LEMMA InitPromised == Init => PInv /\ Promise!Init
<1> SUFFICES ASSUME Init PROVE PInv /\ Promise!Init
  OBVIOUS
<1>1. ASSUME NEW j \in Jobs
      PROVE  PhaseOf(j) = "absent" /\ ToldOf(j) = "nothing" /\ PromiseInv(j)
  BY DEF Init, NoRow, NoWorker, PhaseOf, ToldOf, Exists, PromiseInv,
     NothingMadeYet, SuccessWasTold, DemoStaysDemo, Terraforming, BeforeApply
<1>2. QED
  BY <1>1 DEF Init, PInv, Promise!Init

(* Every behaviour of the service, with its races, its faults and its      *)
(* restarts, is one that JobPromise allows: a request is executed at most  *)
(* once, its effect lies between its start and its close, and the user is  *)
(* told once, of a success only if there is something.                     *)
THEOREM ServiceKeepsPromise == Spec => KeepsPromise
<1>1. Init => PInv /\ Promise!Init
  BY InitPromised
<1>2. IInv /\ IInv' /\ PInv /\ [Next]_vars
         => PInv' /\ [Promise!Next]_(Promise!vars)
  <2> SUFFICES ASSUME IInv, IInv', PInv, [Next]_vars PROVE PromiseStep
    BY DEF PromiseStep
  <2>1. TypeOK /\ TypeOK'
    BY DEF IInv
  <2>2. CASE Next
    BY <2>1, <2>2, WorkerStepPromised, CreateStepPromised, CancelStepPromised,
       DeleteStepPromised, DestroyPromised, RecordDestroyPromised,
       CrashPromised DEF Next
  <2>3. CASE UNCHANGED vars
    <3>1. UNCHANGED <<worker, cloud, notified, creator, jobs>>
      BY <2>3 DEF vars, tables, memory, world
    <3>2. QED
      BY <2>1, <3>1, RowsRewritten
  <2>4. QED
    BY <2>2, <2>3
<1>3. QED
  BY <1>1, <1>2, InductiveInvariant, PTL DEF Spec, KeepsPromise, Promise!Spec
=============================================================================
