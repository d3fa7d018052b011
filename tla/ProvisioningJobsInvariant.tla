---------------------- MODULE ProvisioningJobsInvariant ----------------------
(***************************************************************************)
(* The inductive invariant behind the safety properties of                 *)
(* ProvisioningJobs. None of them is inductive as it stands: each depends  *)
(* on where the background task is, and on which thread may still schedule *)
(* or cancel it.                                                           *)
(***************************************************************************)
EXTENDS ProvisioningJobs

BeforeStart == {"none", "scheduled", "starting"}
Terraforming == BeforeApply \union {"applying", "output", "demo", "finishing"}

(* A request thread that has committed its row is the only one that will   *)
(* schedule that row's task, and nothing has scheduled it yet.             *)
CreatorsHoldFreshJobs ==
    /\ \A h \in Creators : creator[h].pc = "committed" =>
          /\ creator[h].job \in Jobs
          /\ Exists(creator[h].job)
          /\ worker[creator[h].job].pc = "none"
    /\ \A g, h \in Creators :
          (/\ creator[g].pc = "committed" /\ creator[h].pc = "committed"
           /\ creator[g].job = creator[h].job) => g = h

(* Whoever is about to write a row has found it stored before.             *)
WritersKnowTheirJob ==
    /\ \A h \in Cancellers :
          canceller[h].pc \in {"saw_queued", "stamped", "saw_running"} =>
             /\ canceller[h].job \in Jobs
             /\ Exists(canceller[h].job)
    /\ destroyer # NoJob => Exists(destroyer)

(* Status of the row against the stage of its task. The converse does not  *)
(* hold: a cancel may overwrite the row at any stage.                      *)
StatusFollowsTask(j) ==
    /\ ~Exists(j) => worker[j].pc = "none"
    /\ jobs[j].status = "queued" => worker[j].pc \in BeforeStart \union {"lost"}

(* Nothing reaches the cloud before terraform apply, which runs once, and  *)
(* a result that will be reported as a success has left something there.   *)
CloudFollowsTask(j) ==
    /\ worker[j].pc \in BeforeStart \union BeforeApply \union {"demo"}
          => applies[j] = 0
    /\ applies[j] <= 1
    /\ worker[j].pc = "output" => cloud[j] # "nothing"
    /\ (/\ worker[j].pc = "finishing"
        /\ worker[j].result \in {"created", "created_no_id"})
          => cloud[j] # "nothing"

(* Only the last step of a task notifies and audits.                       *)
ToldAtTheEnd(j) ==
    /\ worker[j].pc # "ended" => audited[j] = 0
    /\ audited[j] = notified[j]["success"] + notified[j]["failed"]
    /\ audited[j] <= 1
    /\ notified[j]["success"] > 0 => cloud[j] # "nothing"
    /\ j \in inventory => notified[j]["success"] = 1

(* A flag set while the task can still see it stays set until it does.     *)
FlagWaitsForTask(j) ==
    /\ flaggedAt[j] \in Terraforming =>
          /\ notified[j]["success"] = 0
          /\ \/ worker[j].pc \in {"ended", "lost"}
             \/ worker[j].pc \in Terraforming /\ j \in cancelRequested
    /\ flaggedAt[j] \in BeforeApply =>
          /\ applies[j] = 0
          /\ worker[j].pc \notin {"applying", "output"}

(* started_at is the stamp of the task once the start is committed, and    *)
(* only then can the task go on.                                           *)
StampsInOrder(j) ==
    /\ FinishedAfterStarted(jobs[j])
    /\ worker[j].stamp <= clock[j]
    /\ jobs[j].started \in {0, worker[j].stamp}
    /\ worker[j].pc \in {"none", "scheduled"} => worker[j].stamp = 0
    /\ worker[j].pc = "starting" => worker[j].stamp # 0
    /\ worker[j].pc \in Terraforming => jobs[j].started # 0
    /\ worker[j].pc = "ended" => jobs[j].started = worker[j].stamp
    /\ jobs[j].status = "running" => jobs[j].started # 0
    /\ applies[j] > 0 \/ audited[j] > 0 => jobs[j].started = worker[j].stamp

JobInv(j) ==
    /\ StatusFollowsTask(j)
    /\ CloudFollowsTask(j)
    /\ ToldAtTheEnd(j)
    /\ FlagWaitsForTask(j)
    /\ StampsInOrder(j)

(* The strengthening: inductive, and it implies every safety invariant of  *)
(* ProvisioningJobs.                                                       *)
IInv ==
    /\ TypeOK
    /\ OneJobPerKey
    /\ InitIsSerial
    /\ CreatorsHoldFreshJobs
    /\ WritersKnowTheirJob
    /\ \A j \in Jobs : JobInv(j)
=============================================================================
