------------------------------- MODULE MCDesk -------------------------------
(* The parts of the service that share no state, side by side: a run       *)
(* follows one of them, chosen at the start.  Model values are shared      *)
(* between the parts, so that one symmetry serves them all.                *)
EXTENDS Inventory, TeamDesk, ReviewQueue, AuthSessions, ReportHistory, CloudActions, CostFetch,
        ReportDesk, CredentialDesk, ServiceLine, TLC

VARIABLE which

TeamBudgets == {[id |-> 1, type |-> "custom", start |-> 2, end |-> 3, limit |-> 10]}
TeamOffers ==
    {[type |-> "monthly", start |-> 0, end |-> 9, limit |-> 10], [type |-> "monthly", start |-> 1, end |-> 9, limit |-> 8],
     [type |-> "custom", start |-> 1, end |-> 3, limit |-> 10], [type |-> "custom", start |-> 3, end |-> 4, limit |-> 10]}

ReportPeriods == [DAILY |-> 1, WEEKLY |-> 2]
Delivery(method, email, period) == [method |-> method, email |-> email, period |-> period]
ReportChoices ==
    {Delivery("EMAIL", TRUE, "DAILY"), Delivery("EMAIL", TRUE, "WEEKLY"), Delivery("EMAIL", FALSE, "DAILY"),
     Delivery("WEB", TRUE, "DAILY"), Delivery("WEB", FALSE, "WEEKLY")}
AuthTypes == ("long key" :> "access_key") @@ ("role" :> "assume_role") @@ ("made up" :> "access_key")

Subscription ==
    {[type |-> "microsoft.storage/storageaccounts", name |-> "shop", group |-> "g1"],
     [type |-> "microsoft.cdn/profiles", name |-> "shop", group |-> "g1"],
     [type |-> "microsoft.compute/virtualmachines", name |-> "shop", group |-> "g2"]}
AzureWishes == {[service |-> "storage_account", name |-> "shop"]}

Raw(day, service, charge, amount) ==
    [day |-> day, service |-> service, charge |-> charge, amount |-> amount, currency |-> "USD"]
Bills ==
    {<<{Raw(1, "vm", "Usage", 5), Raw(1, "vm", "Credit", 2), Raw(2, "disk", "Usage", 1)},
       {Raw(2, "vm", "Usage", 5), Raw(2, "vm", "Purchase", 5), Raw(3, "vm", "Usage", 4)}, {}>>,
     <<{Raw(1, "vm", "Usage", 5)}, {Raw(2, "vm", "SavingsPlanNegation", 4)}>>,
     <<{Raw(1, "vm", "regular", 5)},
       {[Raw(2, None, "tax", 1) EXCEPT !.currency = None], Raw(2, "ip", "Usage", None), Raw(1, "ip", "Usage", 3)}>>}

NamePasses == [n \in {"shop", "shop1"} |-> {"label", "compact", "bucket"}] @@ ("Shop_" :> {})
LineChoices ==
    {{"ec2"}, {"s3"}, {"cloudfront"}, {"rds"}, {"vm"}, {"storage_account"}, {"sql_database"}, {"cdn"},
     {"compute_engine"}, {"cloud_sql"}, {"cloud_storage", "cloud_cdn"}}

JobNumbers == <<2, 12>>

DeskInit ==
    /\ which \in {"inventory", "teams", "review", "auth", "reports", "history", "credentials", "cloud", "fetch", "services"}
    /\ Init /\ TeamInit /\ ReviewInit /\ AuthInit /\ MailInit /\ HistoryInit /\ KeyInit /\ CloudInit /\ FetchInit /\ LineInit
    (* what is not followed starts in one state *)
    /\ which # "teams" => teamOf = [a \in Accounts |-> Team]
    /\ which # "review" => detected = {}
    /\ which # "auth" => users # {}
    /\ which # "credentials" => ~demo
    /\ which # "cloud" => bucket.holds = {} /\ parts.ours
    /\ which # "fetch" => fetch.provider = "aws" /\ Len(pages) = 3
    /\ which # "services" => line = {"ec2"}

InventoryStep == which = "inventory" /\ Next /\ UNCHANGED <<which, teamVars, reviewVars, authVars, mailVars, historyVars, keyVars, cloudVars, fetchVars, lineVars>>
TeamsStep == which = "teams" /\ TeamNext /\ UNCHANGED <<which, vars, reviewVars, authVars, mailVars, historyVars, keyVars, cloudVars, fetchVars, lineVars>>
ReviewStep == which = "review" /\ ReviewNext /\ UNCHANGED <<which, vars, teamVars, authVars, mailVars, historyVars, keyVars, cloudVars, fetchVars, lineVars>>
AuthStep == which = "auth" /\ AuthNext /\ UNCHANGED <<which, vars, teamVars, reviewVars, mailVars, historyVars, keyVars, cloudVars, fetchVars, lineVars>>
ReportsStep == which = "reports" /\ MailNext /\ UNCHANGED <<which, vars, teamVars, reviewVars, authVars, historyVars, keyVars, cloudVars, fetchVars, lineVars>>
HistoryStep == which = "history" /\ HistoryNext /\ UNCHANGED <<which, vars, teamVars, reviewVars, authVars, mailVars, keyVars, cloudVars, fetchVars, lineVars>>
KeyringStep == which = "credentials" /\ KeyNext /\ UNCHANGED <<which, vars, teamVars, reviewVars, authVars, mailVars, historyVars, cloudVars, fetchVars, lineVars>>
CloudStep == which = "cloud" /\ CloudNext /\ UNCHANGED <<which, vars, teamVars, reviewVars, authVars, mailVars, historyVars, keyVars, fetchVars, lineVars>>
FetchStep == which = "fetch" /\ FetchNext /\ UNCHANGED <<which, vars, teamVars, reviewVars, authVars, mailVars, historyVars, keyVars, cloudVars, lineVars>>
LineStep == which = "services" /\ LineNext /\ UNCHANGED <<which, vars, teamVars, reviewVars, authVars, mailVars, historyVars, keyVars, cloudVars, fetchVars>>

DeskNext ==
    InventoryStep \/ TeamsStep \/ ReviewStep \/ AuthStep \/ ReportsStep
    \/ HistoryStep \/ KeyringStep \/ CloudStep \/ FetchStep \/ LineStep

DeskSpec == DeskInit /\ [][DeskNext]_<<which, vars, teamVars, reviewVars, authVars, mailVars, historyVars, keyVars, cloudVars, fetchVars, lineVars>>

(* Handlers, visits and keys are interchangeable in every part.             *)
Symmetry == Permutations(Keys) \union Permutations(Syncs) \union Permutations(Handlers)

-----------------------------------------------------------------------------
(* Every value of every part stays what its table or thread can hold,      *)
(* review items within ck_cost_review_items_resolved_consistency.          *)
DeskTypeOK ==
    /\ TypeOK /\ TeamTypeOK /\ ReviewTypeOK /\ AuthTypeOK /\ MailTypeOK
    /\ KeyTypeOK /\ CloudTypeOK /\ FetchTypeOK /\ LineTypeOK
=============================================================================
