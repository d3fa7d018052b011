------------------------------ MODULE MCTasks -------------------------------
(* The safety of two kinds of background task that share no state, side by *)
(* side: a run follows the synchronisation jobs or the cost collections,   *)
(* chosen at the start.                                                    *)
EXTENDS MCSyncJobs, MCCostIngestion

VARIABLE which

TasksInit == which \in {"sync", "costs"} /\ SyncInit /\ Init

SyncStep == which = "sync" /\ SyncNext /\ UNCHANGED <<which, vars>>
CostStep == which = "costs" /\ Next /\ UNCHANGED <<which, syncVars>>

TasksSpec == TasksInit /\ [][SyncStep \/ CostStep]_<<which, vars, syncVars>>

TasksSymmetry == Symmetry \union Permutations(ManualRuns)
=============================================================================
