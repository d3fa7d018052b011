----------------------------- MODULE MCSettling -----------------------------
(* Does what was accepted come to an end?  The three kinds of background   *)
(* task with fair threads and small bounds, one of them in a run; they     *)
(* share no state.                                                         *)
CONSTANTS
    j1, j2, k1, k2, c1, c2, a1, a2, h1, h2, x1, m1, d1, payload,
    nothing     \* no job, no key, ...

VARIABLES
    task,      \* the kind followed, if one is
    (* those of ProvisioningJobs *)
    pJobs, credentials, pNotified, audited, inventory, pCancelRequested, initLock, pWorker,
    pCreator, pCanceller, deleter, cloud, applies, destroyer, clock, pFlaggedAt, pFaults,
    (* those of SyncJobs *)
    sJobs, items, sNotified, sCancelRequested, sWorker, sCreator, sCanceller, settled, sFlaggedAt,
    lateItems, syncFaults,
    (* those of CostIngestion *)
    cRuns, costs, step, mind, lock, told, recent, stored, overrun, cFaults

(* Two requests with keys of their own on a real or on a demo credential,  *)
(* one cancel, no fault and no deletion.                                   *)
P == INSTANCE ProvisioningJobs WITH
        Jobs <- {j1, j2}, Keys <- {k1, k2}, Payloads <- {payload}, ValidPayloads <- {payload},
        Credentials <- {c1, c2}, DemoCredentials <- {c2}, Creators <- {h1, h2}, Cancellers <- {x1},
        Deleters <- {}, NoJob <- nothing, NoKey <- nothing, NoPayload <- nothing,
        NoCredential <- nothing, MaxFaults <- 0,
        jobs <- pJobs, notified <- pNotified, cancelRequested <- pCancelRequested,
        worker <- pWorker, creator <- pCreator, canceller <- pCanceller,
        flaggedAt <- pFlaggedAt, faults <- pFaults

(* One request, two accounts, one cancel; jobs do not wait for each other, *)
(* and the property is one of runs without a fault.                        *)
S == INSTANCE SyncJobs WITH
        Jobs <- {j1}, Accounts <- {a1, a2}, Creators <- {h1}, Cancellers <- {x1},
        NoJob <- nothing, NoAccount <- nothing, MaxSyncFaults <- 0,
        jobs <- sJobs, notified <- sNotified, cancelRequested <- sCancelRequested,
        worker <- sWorker, creator <- sCreator, canceller <- sCanceller, flaggedAt <- sFlaggedAt

(* A manual run and a daily visit, one fault.                              *)
C == INSTANCE CostIngestion WITH
        ManualRuns <- {m1}, DailyRuns <- {d1}, NoRun <- nothing,
        ManualWindows <- {[start |-> 1, end |-> 2]}, DailyWindow <- [start |-> 0, end |-> 2],
        Charged <- {{0, 1}}, CostProvider <- "gcp", MaxFaults <- 1, runs <- cRuns, faults <- cFaults

pVars == <<pJobs, credentials, pNotified, audited, inventory, pCancelRequested, initLock, pWorker,
           pCreator, pCanceller, deleter, cloud, applies, destroyer, clock, pFlaggedAt, pFaults>>
sVars == <<sJobs, items, sNotified, sCancelRequested, sWorker, sCreator, sCanceller, settled,
           sFlaggedAt, lateItems, syncFaults>>
cVars == <<cRuns, costs, step, mind, lock, told, recent, stored, overrun, cFaults>>

TaskInit ==
    /\ task \in {"none", "provisioning", "sync", "costs"}
    /\ P!Init /\ S!SyncInit /\ C!Init
    /\ credentials = {c1} \/ (task = "provisioning" /\ credentials = {c2})

(* Requests and rows are numbered in the order they come; any other        *)
(* numbering is the same execution under other names.                      *)
InOrder(first, second, began(_)) == began(second) => began(first)

TaskNext ==
    \/ /\ task = "provisioning" /\ P!Next /\ UNCHANGED <<task, sVars, cVars>>
       /\ InOrder(h1, h2, LAMBDA h : pCreator'[h].pc # "idle")
       /\ InOrder(j1, j2, LAMBDA j : pJobs'[j].status # "absent")
    \/ task = "sync" /\ S!SyncNext /\ UNCHANGED <<task, pVars, cVars>>
    \/ task = "costs" /\ C!Next /\ UNCHANGED <<task, pVars, sVars>>

TaskFairness == P!Fairness /\ S!SyncFairness /\ C!Fairness

-----------------------------------------------------------------------------
(* Without faults every scheduled provisioning job reaches a final status, *)
(* whatever terraform answers and whoever cancels: nobody waits for ever   *)
(* for the init lock, and no branch of the task forgets to settle the row. *)
JobsSettle == P!ScheduledJobsSettle

(* Without a fault a scheduled synchronisation ends with a final job and   *)
(* final items, so that the user is not kept from synchronising again.     *)
SyncsSettle == S!ScheduledSyncSettles

(* An accepted collection is closed in the end, so that its account may be *)
(* collected again, but for the ways out CostIngestion names.              *)
CollectionsSettle == C!RunsSettle
=============================================================================
