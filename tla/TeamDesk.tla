------------------------------ MODULE TeamDesk ------------------------------
(* The writers of one team's budgets, accounts and currency: requests and  *)
(* the hook a cost ingestion calls, each one session with one transaction. *)
(* A request reads, takes the team's advisory lock if its handler does,    *)
(* writes, announces the thresholds that are passed, and commits.  A       *)
(* budget is [id, type, start, end, limit]; days are numbers.              *)
EXTENDS Integers, FiniteSets, FiniteSetsExt

CONSTANTS
    Requests,       \* sessions, one request each
    Teams, Team,    \* names of teams, the one whose budgets are modelled
    Accounts,       \* cloud accounts
    NoOne,          \* no team (an unassigned account), no holder of the lock
    Offers,         \* [type, start, end, limit] a user may ask for
    Ends, Limits,   \* what a PATCH may set
    FirstBudgets,   \* budgets of the team at the start
    Charges,        \* what the collected costs may add up to
    PeriodDays,     \* length of a calendar period
    MaxCustomDays,  \* longest custom budget
    LastDay, MaxRaises

Thresholds == {80, 100}

VARIABLES
    teams,      \* teams that exist
    budgets,    \* team_budgets of Team, committed
    nextId,     \* the sequence of their ids
    records,    \* team_budget_notifications: [budget, period, threshold]
    alerts,     \* notifications: <<record, request that wrote it>>
    teamOf,     \* cloud_accounts.team_id
    money,      \* [spent, currency] of Team
    lock,       \* pg_advisory_xact_lock of Team
    tx,         \* the sessions
    today, raises

teamVars == <<teams, budgets, nextId, records, alerts, teamOf, money, lock, tx, today, raises>>

(* What a session has read (seen), written (put, gone, moved, currency)    *)
(* and announced (keys) and not committed.                                 *)
NewTx == [at |-> "new", op |-> "none", seen |-> [id |-> 0], put |-> {}, gone |-> {},
          keys |-> {}, moved |-> [a \in {} |-> NoOne], currency |-> NoOne]

TeamInit ==
    /\ teams = {Team} /\ budgets = FirstBudgets /\ nextId = Cardinality(FirstBudgets) + 1
    /\ records = {} /\ alerts = {} /\ lock = NoOne
    /\ teamOf \in [Accounts -> {Team, NoOne}]
    /\ money = [spent |-> 0, currency |-> "USD"]
    /\ tx = [r \in Requests |-> NewTx] /\ today = 0 /\ raises = 0

(* What the constants have to be. The budgets of the start are numbered,   *)
(* apart and well formed, an offer without an end carries one that is      *)
(* never looked at, and NoOne is neither a session nor a team.             *)
BudgetRow == {b \in [id : Nat \ {0}, type : STRING, start : Nat, end : Nat,
               limit : Nat \ {0}] : b.start < b.end}

Apart(bs) ==
    \A b, c \in bs : b.id # c.id =>
        /\ (b.type = "custom" /\ c.type = "custom")
              => ~(b.start < c.end /\ c.start < b.end)
        /\ (b.type # "custom" /\ c.type # "custom") => b.start # c.start

ASSUME TeamAssumption ==
    /\ Team \in Teams /\ NoOne \notin Teams /\ NoOne \notin Requests
    /\ Offers \subseteq [type : STRING, start : Nat, end : Nat,
                         limit : Nat \ {0}]
    /\ \A o \in Offers : o.type # "custom" => o.start < o.end
    /\ Ends \subseteq Nat /\ Limits \subseteq Nat \ {0}
    /\ Charges \subseteq Nat
    /\ PeriodDays \in Nat \ {0} /\ MaxCustomDays \in Nat
    /\ LastDay \in Nat /\ MaxRaises \in Nat
    /\ IsFiniteSet(FirstBudgets) /\ FirstBudgets \subseteq BudgetRow
    /\ \A b \in FirstBudgets : b.id <= Cardinality(FirstBudgets)
    /\ \A b, c \in FirstBudgets : b.id = c.id => b = c
    /\ Apart(FirstBudgets)

Ids(bs) == {b.id : b \in bs}
Chain(bs) == {b \in bs : b.type # "custom"}
View(r) == {b \in budgets : b.id \notin tx[r].gone \union Ids(tx[r].put)} \union tx[r].put
Touched(r) == tx[r].gone \union Ids(tx[r].put)
RowFree(r, id) == \A q \in Requests \ {r} : id \notin Touched(q)
Referenced(r, id) == \E q \in Requests \ {r} : \E k \in tx[q].keys : k.budget = id

TxBecomes(r, t) == tx' = [tx EXCEPT ![r] = t]
Unlock(r) == lock' = IF lock = r THEN NoOne ELSE lock
Close(r) == TxBecomes(r, [NewTx EXCEPT !.at = "ended"]) /\ Unlock(r)

Committed == <<teams, budgets, nextId, records, alerts, teamOf, money, today, raises>>

-----------------------------------------------------------------------------
Window(start, end) == start < end /\ end - start <= MaxCustomDays

Overlap(bs, start, end, except) ==
    {b \in bs : b.type = "custom" /\ b.id # except /\ b.start < end /\ start < b.end}

(* A custom budget must not overlap another, one of the chain must start   *)
(* after the latest.                                                       *)
Admissible(o) ==
    IF o.type = "custom" THEN Window(o.start, o.end) /\ Overlap(budgets, o.start, o.end, 0) = {}
    ELSE \A b \in Chain(budgets) : b.start < o.start

Insert(r, o) ==
    /\ nextId' = nextId + 1
    /\ TxBecomes(r, [tx[r] EXCEPT !.at = "written", !.op = "create",
                       !.put = {[id |-> nextId, type |-> o.type, start |-> o.start,
                                 end |-> o.end, limit |-> o.limit]}])

CreateBudgetUnlocked(r) ==      \* changed: the check is not under the lock
    /\ tx[r].at = "new" /\ Team \in teams
    /\ \E o \in Offers : Admissible(o) /\ Insert(r, o)
    /\ UNCHANGED <<teams, budgets, records, alerts, teamOf, money, lock, today, raises>>

CreateBudget(r) ==
    /\ tx[r].at = "new" /\ Team \in teams /\ lock = NoOne
    /\ \E o \in Offers :
        \/ /\ Admissible(o) /\ lock' = r /\ Insert(r, o)
           /\ UNCHANGED <<teams, budgets, records, alerts, teamOf, money, today, raises>>
        \/ ~Admissible(o) /\ Close(r) /\ UNCHANGED Committed

(* A PATCH reads its budget before it waits for the lock, and decides on   *)
(* that copy; the other budgets are read under the lock.                   *)
ReadForPatch(r) ==
    /\ tx[r].at = "new"
    /\ \E b \in budgets : TxBecomes(r, [tx[r] EXCEPT !.at = "read", !.op = "patch", !.seen = b])
    /\ lock' = lock /\ UNCHANGED Committed

(* Only the columns that differ from the copy are updated, and an update   *)
(* of a row deleted since raises.                                          *)
PatchBudget(r) ==
    LET seen == tx[r].seen
        row == {b \in budgets : b.id = seen.id}
        changed(end, limit) ==
            {[b EXCEPT !.end = IF end = seen.end THEN @ ELSE end,
                       !.limit = IF limit = seen.limit THEN @ ELSE limit] : b \in row}
    IN  /\ tx[r].at = "read" /\ lock = NoOne /\ RowFree(r, seen.id)
        /\ \E end \in Ends \union {seen.end}, limit \in Limits \union {seen.limit} :
            LET allowed ==
                    /\ today < seen.start
                    /\ end # seen.end =>
                        /\ seen.type = "custom" /\ Window(seen.start, end)
                        /\ Overlap(budgets, seen.start, end, seen.id) = {}
            IN  \/ /\ allowed /\ row # {} /\ lock' = r
                   /\ TxBecomes(r, [tx[r] EXCEPT !.at = "evaluated", !.put = changed(end, limit)])
                \/ (~allowed \/ row = {}) /\ Close(r)
        /\ UNCHANGED Committed

(* No lock of the team: only the row's own.                                *)
DeleteBudget(r) ==
    /\ tx[r].at = "new"
    /\ \E b \in budgets :
        /\ RowFree(r, b.id) /\ ~Referenced(r, b.id)
        /\ TxBecomes(r, [tx[r] EXCEPT !.at = "written", !.op = "delete", !.gone = {b.id}])
    /\ lock' = lock /\ UNCHANGED Committed

-----------------------------------------------------------------------------
(* An account already in another team is refused; the others of the team   *)
(* leave it. Only the accounts whose team changes are updated.             *)
PutAccounts(r) ==
    /\ tx[r].at = "new"
    /\ \E t \in teams, wanted \in SUBSET Accounts :
        \/ /\ \A a \in wanted : teamOf[a] \in {NoOne, t}
           /\ TxBecomes(r, [tx[r] EXCEPT !.at = "written",
                  !.op = IF t = Team THEN "put" ELSE "put elsewhere",
                  !.moved = [a \in {a \in wanted : teamOf[a] # t}
                                 \union {a \in Accounts \ wanted : teamOf[a] = t}
                              |-> IF a \in wanted THEN t ELSE NoOne]])
        \/ (\E a \in wanted : teamOf[a] \notin {NoOne, t}) /\ Close(r)
    /\ lock' = lock /\ UNCHANGED Committed

(* The currency of a team whose accounts have collected costs stays.       *)
PatchCurrency(r) ==
    /\ tx[r].at = "new" /\ Team \in teams
    /\ \/ /\ money.spent = 0 \/ \A a \in Accounts : teamOf[a] # Team
          /\ TxBecomes(r, [tx[r] EXCEPT !.at = "written", !.op = "currency", !.currency = "KRW"])
       \/ /\ money.spent # 0 /\ \E a \in Accounts : teamOf[a] = Team
          /\ Close(r)
    /\ lock' = lock /\ UNCHANGED Committed

CreateTeam(r) ==
    /\ tx[r].at = "new"
    /\ \E t \in Teams \ teams : teams' = teams \union {t}
    /\ Close(r)
    /\ UNCHANGED <<budgets, nextId, records, alerts, teamOf, money, today, raises>>

(* Its budgets and their records go with a team, its accounts are          *)
(* unassigned; the rows another session has written are waited for.        *)
DeleteTeam(r) ==
    /\ tx[r].at = "new" /\ Team \in teams
    /\ \A q \in Requests : tx[q].at \notin {"written", "evaluated"}
    /\ teams' = teams \ {Team} /\ budgets' = {} /\ records' = {}
    /\ teamOf' = [a \in Accounts |-> IF teamOf[a] = Team THEN NoOne ELSE teamOf[a]]
    /\ Close(r)
    /\ UNCHANGED <<nextId, alerts, money, today, raises>>

(* An ingestion committed new costs of an account of the team and calls    *)
(* evaluate_for_account.                                                   *)
CollectCosts(r) ==
    /\ tx[r].at = "new" /\ \E a \in Accounts : teamOf[a] = Team
    /\ \E c \in Charges : money' = [money EXCEPT !.spent = c]
    /\ TxBecomes(r, [tx[r] EXCEPT !.at = "written", !.op = "ingest"])
    /\ UNCHANGED <<teams, budgets, nextId, records, alerts, teamOf, lock, today, raises>>

-----------------------------------------------------------------------------
InProgress(bs) ==
    {b \in bs : /\ b.start <= today
                /\ IF b.type = "custom" THEN today < b.end
                   ELSE \A c \in Chain(bs) : b.start < c.start => today < c.start}

Latest(bs) == {b \in bs : \A c \in bs : c.start < b.start \/ (c.start = b.start /\ c.id <= b.id)}

InEffect(bs) ==
    LET customs == {b \in InProgress(bs) : b.type = "custom"}
    IN  IF customs # {} THEN Latest(customs) ELSE Latest(InProgress(bs))

PeriodStart(b) ==
    IF b.type = "custom" THEN b.start ELSE Max({b.start, today - (today % PeriodDays)})

Passed(r) ==
    UNION {{[budget |-> b.id, period |-> PeriodStart(b), threshold |-> p] :
                p \in {p \in Thresholds : 100 * money.spent >= p * b.limit}} :
            b \in InEffect(View(r))}

(* The evaluation is of the team that was written.                         *)
DuePassed(r) == IF tx[r].op = "put elsewhere" THEN {} ELSE Passed(r)

EvaluateAgain(r) ==     \* changed: a threshold is announced whatever the records say
    /\ tx[r].at = "written"
    /\ TxBecomes(r, [tx[r] EXCEPT !.at = "evaluated", !.keys = DuePassed(r)])
    /\ lock' = lock /\ UNCHANGED Committed

(* evaluate_budget_thresholds: a record that exists says the threshold was *)
(* announced; the insert of one that another session has inserted and not  *)
(* committed, or whose budget it is deleting, waits for that session.      *)
Evaluate(r) ==
    /\ tx[r].at = "written"
    /\ \A q \in Requests \ {r} :
        /\ tx[q].keys \intersect DuePassed(r) = {}
        /\ tx[q].gone \intersect {k.budget : k \in DuePassed(r)} = {}
    /\ TxBecomes(r, [tx[r] EXCEPT !.at = "evaluated",
                       !.keys = {k \in DuePassed(r) \ records : k.budget \in Ids(View(r))}])
    /\ lock' = lock /\ UNCHANGED Committed

(* A statement of the evaluation fails: _safe_evaluate swallows it without *)
(* a rollback, and the commit that follows raises.  In the hook of an      *)
(* ingestion the exception is rolled back.                                 *)
EvaluationFails(r) ==
    /\ tx[r].at = "written" /\ raises < MaxRaises /\ raises' = raises + 1
    /\ Close(r)
    /\ UNCHANGED <<teams, budgets, nextId, records, alerts, teamOf, money, today>>

Cascade(ids) == {k \in records : k.budget \notin ids}

Commit(r) ==
    /\ tx[r].at = "evaluated"
    /\ \A b \in Chain(tx[r].put), c \in Chain(budgets) : b.id # c.id => b.start # c.start
    /\ budgets' = View(r)
    /\ records' = Cascade(tx[r].gone) \union tx[r].keys
    /\ alerts' = alerts \union {<<k, r>> : k \in tx[r].keys}
    /\ teamOf' = [a \in Accounts |-> IF a \in DOMAIN tx[r].moved THEN tx[r].moved[a] ELSE teamOf[a]]
    /\ money' = IF tx[r].currency = NoOne THEN money ELSE [money EXCEPT !.currency = tx[r].currency]
    /\ Close(r)
    /\ UNCHANGED <<teams, nextId, today, raises>>

NextDay ==
    /\ today < LastDay /\ today' = today + 1
    /\ \A r \in Requests : tx[r].at \in {"new", "read", "ended"}    \* requests are short
    /\ UNCHANGED <<teams, budgets, nextId, records, alerts, teamOf, money, lock, tx, raises>>

TeamNext ==
    \/ \E r \in Requests :
        \/ CreateBudget(r) \/ ReadForPatch(r) \/ PatchBudget(r) \/ DeleteBudget(r)
        \/ PutAccounts(r) \/ PatchCurrency(r) \/ CreateTeam(r) \/ DeleteTeam(r)
        \/ CollectCosts(r)
        \/ Evaluate(r) \/ EvaluationFails(r) \/ Commit(r)
    \/ NextDay

TeamSpec == TeamInit /\ [][TeamNext]_teamVars

-----------------------------------------------------------------------------
(* The rows hold what their columns may, the lock is held by a session     *)
(* that has written, and the ids are those the sequence has given.         *)
TeamTypeOK ==
    /\ \A b \in budgets : b.id < nextId /\ b.limit > 0 /\ b.start < b.end
    /\ records \subseteq [budget : 1 .. nextId, period : 0 .. LastDay, threshold : Thresholds]
    /\ alerts \subseteq [budget : 1 .. nextId, period : 0 .. LastDay, threshold : Thresholds] \X Requests
    /\ teamOf \in [Accounts -> Teams \union {NoOne}]
    /\ money.currency \in {"USD", "KRW"}
    /\ lock # NoOne => tx[lock].at \in {"written", "evaluated"}
    /\ today \in 0 .. LastDay /\ raises \in 0 .. MaxRaises

(* Whatever requests come at once, two custom budgets of a team never      *)
(* share a day, two of its chain never start on the same day (_lock_team_  *)
(* budgets, teams.py), a PATCH decided on an old copy included.            *)
BudgetsStayApart ==
    /\ \A b \in budgets \ Chain(budgets) : Overlap(budgets, b.start, b.end, b.id) = {}
    /\ \A b, c \in Chain(budgets) : b.start = c.start => b = c

(* A threshold of a budget and period is announced once, by however many   *)
(* evaluations at once, and the record that says so is there exactly when  *)
(* the notification is, as long as the budget exists (notify.py).          *)
AlertedOnce ==
    /\ \A x, y \in alerts : x[1] = y[1] => x = y
    /\ \A k \in records : \E x \in alerts : x[1] = k
    /\ \A x \in alerts : x[1].budget \in Ids(budgets) => x[1] \in records
=============================================================================
