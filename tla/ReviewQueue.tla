----------------------------- MODULE ReviewQueue -----------------------------
(* The review queue of cost anomalies of one user.  A key names an         *)
(* account, a service and a day; the hook of an ingestion and a manual     *)
(* POST may both queue it, and PATCH requests move its item.  Each session *)
(* serves one request in one transaction.                                  *)
EXTENDS Integers, FiniteSets

CONSTANTS
    Sessions,
    Anomalies,      \* source_key of the anomalies there may be
    Hidden,         \* keys of accounts without a credential: rejected, not listed
    NoSession,
    MaxFailures

Statuses == {"open", "investigating", "resolved"}
Verdicts == {"too_small", "expected"}       \* two of the three resolutions
Null == "null"

VARIABLES
    items,      \* cost_review_items: [key, by, status, resolution, resolvedAt]
    notices,    \* notifications of new items: <<key, session>>
    detected,   \* keys the stored costs make an anomaly now
    work,       \* the sessions
    failures

reviewVars == <<items, notices, detected, work, failures>>

NewWork == [at |-> "new", op |-> "none", keys |-> {}, rows |-> {}, seen |-> {}, answer |-> {}]

ReviewInit ==
    /\ items = {} /\ notices = {} /\ detected \in SUBSET Anomalies
    /\ work = [s \in Sessions |-> NewWork] /\ failures = 0

Item == [key : Anomalies, by : Sessions, status : Statuses, resolution : Verdicts \union {Null},
         resolvedAt : Sessions \union {NoSession}]
NewItem(k, s) ==
    [key |-> k, by |-> s, status |-> "open", resolution |-> Null, resolvedAt |-> NoSession]

KeysOf(rows) == {i.key : i \in rows}
Become(s, w) == work' = [work EXCEPT ![s] = w]
Answer(s, keys) == Become(s, [NewWork EXCEPT !.at = "ended", !.answer = keys])
Kept == <<items, notices, detected, failures>>

(* What the list shows: items whose account still has a credential, those  *)
(* not resolved under "open".                                              *)
Listed(status) ==
    {i \in items : /\ i.key \notin Hidden
                   /\ CASE status = "open" -> i.status # "resolved"
                        [] status = "all" -> TRUE
                        [] OTHER -> i.status = status}

-----------------------------------------------------------------------------
(* New costs are stored: other days are anomalies.                         *)
Recollect ==
    /\ detected' \in SUBSET Anomalies /\ detected' # detected
    /\ \E s \in Sessions : work[s].at = "new"
    /\ UNCHANGED <<items, notices, work, failures>>

(* The hook evaluates every stored day of its account.                     *)
Scan(s) ==
    /\ work[s].at = "new"
    /\ Become(s, [NewWork EXCEPT !.at = "insert", !.op = "scan", !.keys = detected])
    /\ UNCHANGED Kept

(* A POST for a key that is queued answers with its item; otherwise the    *)
(* anomaly is evaluated again, and refused when it is none.                *)
Post(s) ==
    /\ work[s].at = "new"
    /\ \E k \in Anomalies :
        \/ k \in KeysOf(items) /\ Answer(s, {k})
        \/ /\ k \notin KeysOf(items)
           /\ IF k \in detected \ Hidden
              THEN Become(s, [NewWork EXCEPT !.at = "insert", !.op = "post", !.keys = {k}])
              ELSE Answer(s, {})
    /\ UNCHANGED Kept

InsertUnasked(s) ==     \* changed: a key that exists is told again
    /\ work[s].at = "insert"
    /\ Become(s, [work[s] EXCEPT !.at = "commit",
                     !.rows = {NewItem(k, s) : k \in work[s].keys \ KeysOf(items)},
                     !.answer = work[s].keys])
    /\ UNCHANGED Kept

(* create_item_with_notification for each key, behind a savepoint: a key   *)
(* that has been committed is kept as it is, one another session has       *)
(* inserted is waited for.                                                 *)
InsertItems(s) ==
    /\ work[s].at = "insert"
    /\ \A q \in Sessions \ {s} : KeysOf(work[q].rows) \intersect work[s].keys = {}
    /\ Become(s, [work[s] EXCEPT !.at = "commit",
                     !.rows = {NewItem(k, s) : k \in work[s].keys \ KeysOf(items)},
                     !.answer = work[s].keys])
    /\ UNCHANGED Kept

CommitNew(s) ==
    /\ work[s].at = "commit"
    /\ items' = items \union work[s].rows
    /\ notices' = notices \union {<<i.key, s>> : i \in work[s].rows}
    /\ Answer(s, work[s].answer)
    /\ UNCHANGED <<detected, failures>>

(* An exception of the evaluation or the inserts: the hook rolls back and  *)
(* says nothing, the POST answers 500.                                     *)
Raise(s) ==
    /\ work[s].at \in {"insert", "commit"} /\ failures < MaxFailures /\ failures' = failures + 1
    /\ Answer(s, {}) /\ UNCHANGED <<items, notices, detected>>

-----------------------------------------------------------------------------
ReadItem(s) ==
    /\ work[s].at = "new"
    /\ \E i \in items : Become(s, [NewWork EXCEPT !.at = "patch", !.op = "patch", !.seen = {i}])
    /\ UNCHANGED Kept

(* ck_cost_review_items_resolved_consistency.                              *)
Consistent(i) ==
    IF i.status = "resolved" THEN i.resolution # Null /\ i.resolvedAt # NoSession
    ELSE i.resolvedAt = NoSession

(* What the handler makes of the copy it read; Null stands for a field the *)
(* request leaves out.                                                     *)
Patched(seen, status, resolution, s) ==
    LET verdict == IF resolution = Null THEN seen.resolution ELSE resolution
        wanted == IF status = Null THEN seen.status ELSE status
    IN  [seen EXCEPT !.status = wanted, !.resolution = verdict,
            !.resolvedAt = IF wanted # "resolved" THEN NoSession
                           ELSE IF seen.status = "resolved" THEN @ ELSE s]

RowWithAll(row, seen, new) == new       \* changed: every column is written

(* The columns the handler left as it read them are not written.           *)
RowWith(row, seen, new) ==
    [row EXCEPT !.status = IF new.status = seen.status THEN @ ELSE new.status,
                !.resolution = IF new.resolution = seen.resolution THEN @ ELSE new.resolution,
                !.resolvedAt = IF new.resolvedAt = seen.resolvedAt THEN @ ELSE new.resolvedAt]

(* A resolved item is not reopened, and resolving needs a resolution; a    *)
(* row the table's check refuses makes the request fail.                   *)
Patch(s) ==
    /\ work[s].at = "patch"
    /\ \E seen \in work[s].seen, status \in Statuses \union {Null}, resolution \in Verdicts \union {Null} :
        LET new == Patched(seen, status, resolution, s)
            row == CHOOSE i \in items : i.key = seen.key
            written == RowWith(row, seen, new)
            accepted == /\ seen.status = "resolved" => new.status = "resolved"
                        /\ new.status = "resolved" => new.resolution # Null
        IN  \/ /\ accepted /\ Consistent(written)
               /\ items' = (items \ {row}) \union {written}
               /\ Answer(s, {seen.key})
            \/ ~(accepted /\ Consistent(written)) /\ Answer(s, {}) /\ items' = items
    /\ UNCHANGED <<notices, detected, failures>>

ReviewNext ==
    \/ Recollect
    \/ \E s \in Sessions : \/ Scan(s) \/ Post(s) \/ InsertItems(s) \/ CommitNew(s) \/ Raise(s)
                           \/ ReadItem(s) \/ Patch(s)

ReviewSpec == ReviewInit /\ [][ReviewNext]_reviewVars

-----------------------------------------------------------------------------
(* The columns of the table hold what its checks allow.                    *)
ReviewTypeOK ==
    /\ items \subseteq Item /\ \A i \in items : Consistent(i)
    /\ notices \subseteq Anomalies \X Sessions /\ detected \subseteq Anomalies
    /\ work \in [Sessions -> [at : {"new", "insert", "commit", "patch", "ended"},
                              op : {"none", "scan", "post", "patch"}, keys : SUBSET Anomalies,
                              rows : SUBSET Item, seen : SUBSET Item, answer : SUBSET Anomalies]]

(* However many hooks and POSTs see an anomaly at once, it is queued once, *)
(* its notification comes with its item and only then, and an answer that  *)
(* names an item is true: the item is in the list (review.py).             *)
QueuedAndToldOnce ==
    /\ \A i, j \in items : i.key = j.key => i = j
    /\ notices = {<<i.key, i.by>> : i \in items}
    /\ \A s \in Sessions : work[s].at = "ended" => work[s].answer \ Hidden \subseteq KeysOf(Listed("all"))

(* An item that is resolved stays resolved ("종결된 것을 되돌리지 않는다",  *)
(* cost_review.py), although PATCH decides on a copy it read before another *)
(* session resolved it: the check of the table refuses what it would write. *)
ResolvedIsFinal ==
    [][\A i \in items : i.status = "resolved" =>
        \E j \in items' : j.key = i.key /\ j.status = "resolved"]_reviewVars
=============================================================================
