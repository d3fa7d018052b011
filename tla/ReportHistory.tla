--------------------------- MODULE ReportHistory ----------------------------
(* The requests that generate the report of one user and one key, and the  *)
(* row of the history they share, while costs are collected.               *)
EXTENDS Integers, FiniteSets

CONSTANT Generations    \* POST /reports requests

ASSUME HistoryAssumption == IsFiniteSet(Generations)

VARIABLES
    posts,          \* the requests
    history,        \* the report_generations row of the key, or none
    collected       \* version of the cost records

historyVars == <<posts, history, collected>>

Never == 0 - 1      \* no snapshot: it could not be computed

(* What a request was answered, the row and its notification in one        *)
(* commit: "done", or "dropped" once the user has deleted the row.         *)
Reported(g) == posts[g].at \in {"done", "dropped"}

HistoryInit ==
    /\ posts = [g \in Generations |-> [at |-> "new", now |-> 0, costs |-> Never, after |-> {}]]
    /\ history = {} /\ collected = 0

-----------------------------------------------------------------------------
Collect ==
    /\ collected < Cardinality(Generations) /\ collected' = collected + 1
    /\ UNCHANGED <<posts, history>>

(* POST /reports: the time is taken first. (after is history: the requests *)
(* that had their answer by then.)                                         *)
BeginGeneration(g) ==
    /\ posts[g].at = "new"
    /\ posts' = [posts EXCEPT ![g] =
           [at |-> "dated", costs |-> Never, now |-> Cardinality({h \in Generations : posts[h].at # "new"}),
            after |-> {h \in Generations : Reported(h)}]]
    /\ UNCHANGED <<history, collected>>

(* Then the figures of the snapshot, and the summary is awaited.           *)
TakeSnapshot(g) ==
    /\ posts[g].at = "dated"
    /\ \E snapshot \in {collected, Never} :
        posts' = [posts EXCEPT ![g].at = "awaiting", ![g].costs = snapshot]
    /\ UNCHANGED <<history, collected>>

UpsertTimeOnly(g) ==        \* changed: a conflict sets generated_at alone
    /\ posts[g].at = "awaiting" /\ posts' = [posts EXCEPT ![g].at = "done"]
    /\ history' = {[generated |-> posts[g].now,
                    costs |-> IF history = {} THEN posts[g].costs ELSE (CHOOSE h \in history : TRUE).costs]}
    /\ collected' = collected

(* The row is inserted or replaced, and announced.                         *)
Upsert(g) ==
    /\ posts[g].at = "awaiting" /\ posts' = [posts EXCEPT ![g].at = "done"]
    /\ history' = {[generated |-> posts[g].now, costs |-> posts[g].costs]}
    /\ collected' = collected

UpsertFails(g) ==
    /\ posts[g].at = "awaiting" /\ posts' = [posts EXCEPT ![g].at = "failed"]
    /\ UNCHANGED <<history, collected>>

DeleteReport ==
    /\ history # {} /\ history' = {}
    /\ posts' = [g \in Generations |->
                    IF posts[g].at = "done" THEN [posts[g] EXCEPT !.at = "dropped"] ELSE posts[g]]
    /\ UNCHANGED collected

HistoryNext ==
    \/ \E g \in Generations : BeginGeneration(g) \/ TakeSnapshot(g) \/ Upsert(g) \/ UpsertFails(g)
    \/ Collect \/ DeleteReport

HistorySpec == HistoryInit /\ [][HistoryNext]_historyVars

-----------------------------------------------------------------------------
(* A request that was answered has left a row, time and figures of one     *)
(* request: its own or one that was not answered before it began - so who  *)
(* generates again sees no report of before (reports.py 158-247). A        *)
(* request under way at that time, with an earlier time and perhaps older  *)
(* figures, may still replace it.                                          *)
AnsweredReportStands ==
    \A h \in Generations : posts[h].at = "done" =>
        \E row \in history, g \in Generations \ posts[h].after :
            posts[g].at = "done" /\ row = [generated |-> posts[g].now, costs |-> posts[g].costs]
=============================================================================
