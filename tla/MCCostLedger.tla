---------------------------- MODULE MCCostLedger ----------------------------
(* The ledger day by day and, in executions of their own, the background   *)
(* tasks that have to come to an end.                                      *)
EXTENDS CostLedger, MCSettling

CONSTANT none

(* Account 1 is billed in dollars and 3 in won by AWS; 2 is Azure's and    *)
(* collected by hand; nothing may collect account 4.                       *)
MCAccounts == 1 .. 4
MCProvider == <<"aws", "azure", "aws", "gcp">>
MCTeamOf == <<"research", none, "sales", "sales">>
MCBilledIn == <<"USD", "USD", "KRW", "USD">>
MCTeamCurrency == [research |-> "USD", sales |-> "KRW"]

(* Months of four days.                                                    *)
MCMonthLengths == <<4, 4, 4>>

Use(service, amount) == [service |-> service, category |-> "usage", amount |-> amount]
Credit(amount) == [service |-> None, category |-> "credit", amount |-> 0 - amount]
MCCharge ==
    [a \in MCAccounts |->
        CASE a = 1 -> [d \in 0 .. 5 |->
                        CASE d = 2 -> {Use("AmazonEC2", 6), Use("AmazonS3", 1), Credit(1)}
                          [] d = 3 -> {Use("AmazonEC2", 6), Use("AmazonS3", 5)}
                          [] d = 5 -> {}
                          [] OTHER -> {Use("AmazonEC2", 6), Use(None, 1)}]
          [] a = 2 -> [d \in 0 .. 5 |-> {Use("Storage", 3)}]
          [] a = 3 -> [d \in {1, 4} |-> {Use("AmazonS3", 4)}]
          [] a = 4 -> [d \in 0 .. 5 |-> {Use("Compute Engine", 7)}]]

MCOutcomes == {[status |-> "failed", error |-> "COST_SETUP_REQUIRED"]}
MCMinDelta == [USD |-> 3]
MCCustomWindows == {[start |-> 0, end |-> 2], [start |-> 2, end |-> 2]}
MCTeamBudgets ==
    {[id |-> 1, team |-> "research", type |-> "monthly", start |-> 1, end |-> 0, limit |-> 24, currency |-> "USD"],
     [id |-> 2, team |-> "research", type |-> "quarterly", start |-> 4, end |-> 0, limit |-> 5, currency |-> "USD"],
     [id |-> 3, team |-> "sales", type |-> "custom", start |-> 1, end |-> 5, limit |-> 5, currency |-> "KRW"]}

LedgerInit == Init /\ TaskInit
LedgerStep == task = "none" /\ Next /\ UNCHANGED <<task, pVars, sVars, cVars>>
SettlingStep == TaskNext /\ UNCHANGED vars
LedgerSpec ==
    /\ LedgerInit /\ [][LedgerStep \/ SettlingStep]_<<vars, task, pVars, sVars, cVars>>
    /\ TaskFairness
=============================================================================
