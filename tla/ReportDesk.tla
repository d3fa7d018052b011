----------------------------- MODULE ReportDesk -----------------------------
(* The mail loop of the scheduled reports against the requests that set,   *)
(* change and drop a user's delivery.  A mail is an event: nothing takes   *)
(* it back.                                                                *)
EXTENDS Integers

CONSTANTS
    Users,
    DaysOf,         \* days of a period type
    Deliveries,     \* what a PUT may ask for: [method, email, period]
    LastMailDay, MaxPuts, MaxCrashes

(* A request is validated before it is stored (ReportSettingsIn).          *)
ASSUME MailAssumption ==
    /\ Deliveries \subseteq [method : {"EMAIL", "WEB"}, email : BOOLEAN, period : DOMAIN DaysOf]
    /\ \A period \in DOMAIN DaysOf : DaysOf[period] \in Nat

VARIABLES
    settings,       \* report_delivery_settings, at most one row per user
    nextRow,        \* the sequence of their ids; counts the PUTs, too
    loop,           \* send_due_reports, one at a time
    mails,          \* sent: [row, period, at, kept]
    clock           \* [day, visited, crashes]

mailVars == <<settings, nextRow, loop, mails, clock>>

TicksADay == 2      \* a visit comes at one of two moments of its day
NeverSent == 0 - 1
Idle == [on |-> FALSE, now |-> 0, ids |-> {}, left |-> {}, loaded |-> {}, sending |-> {}]

MailInit ==
    /\ settings = {} /\ nextRow = 1 /\ loop = Idle /\ mails = {}
    /\ clock = [day |-> 0, visited |-> NeverSent, crashes |-> 0]

RowIds(those) == {row.id : row \in those}

-----------------------------------------------------------------------------
(* A PUT to an existing row leaves its lastSent; a DELETE forgets it.      *)
PutSettingsAnew(u) ==       \* changed: a PUT writes a whole new row
    /\ nextRow <= MaxPuts
    /\ \E c \in Deliveries :
        /\ c.method = "EMAIL" => c.email
        /\ settings' = {row \in settings : row.user # u} \union
               {[id |-> IF \E row \in settings : row.user = u
                        THEN (CHOOSE row \in settings : row.user = u).id ELSE nextRow,
                 user |-> u, method |-> c.method, email |-> c.email, period |-> c.period,
                 lastSent |-> NeverSent]}
    /\ nextRow' = nextRow + 1 /\ UNCHANGED <<loop, mails, clock>>

PutSettings(u) ==
    /\ nextRow <= MaxPuts
    /\ \E c \in Deliveries :
        /\ c.method = "EMAIL" => c.email
        /\ settings' =
            IF \E row \in settings : row.user = u
            THEN {IF row.user = u THEN [row EXCEPT !.method = c.method, !.email = c.email, !.period = c.period]
                  ELSE row : row \in settings}
            ELSE settings \union {[id |-> nextRow, user |-> u, method |-> c.method,
                                   email |-> c.email, period |-> c.period, lastSent |-> NeverSent]}
    /\ nextRow' = nextRow + 1 /\ UNCHANGED <<loop, mails, clock>>

DropSettings(u) ==
    /\ \E row \in settings : row.user = u /\ settings' = settings \ {row}
    /\ UNCHANGED <<nextRow, loop, mails, clock>>

-----------------------------------------------------------------------------
(* The cron trigger fires once a day; a day on which the process was down  *)
(* at that hour has no visit.                                              *)
NextMailDay ==
    /\ clock.day < LastMailDay /\ ~loop.on
    /\ clock' = [clock EXCEPT !.day = @ + 1]
    /\ UNCHANGED <<settings, nextRow, loop, mails>>

StartVisit ==
    /\ ~loop.on /\ clock.visited < clock.day
    /\ clock' = [clock EXCEPT !.visited = clock.day]
    /\ \E moment \in 0 .. TicksADay - 1 :
        LET held == {row \in settings : row.method = "EMAIL"}
        IN  loop' = [Idle EXCEPT !.on = TRUE, !.now = TicksADay * clock.day + moment,
                                 !.ids = RowIds(held), !.left = RowIds(held), !.loaded = held]
    /\ UNCHANGED <<settings, nextRow, mails>>

IsDue(row) == row.lastSent = NeverSent \/ loop.now - row.lastSent >= TicksADay * DaysOf[row.period]

(* What the session knows of a row: what it loaded, and once a commit or a *)
(* rollback has expired that, what the table holds.                        *)
Seen(id) ==
    IF id \in RowIds(loop.loaded) THEN {row \in loop.loaded : row.id = id}
    ELSE {row \in settings : row.id = id}

Expired(id) == [loop EXCEPT !.left = @ \ {id}, !.loaded = {}, !.sending = {}]

(* An exception is caught for each row, but the handler reads the row to   *)
(* log it: of a row that is gone that raises again, and the loop ends.     *)
HandledOrEnds(id) ==
    loop' = [Expired(id) EXCEPT !.on = id \in RowIds(settings)]

(* The loop goes on to a row it has left.                                  *)
Reaches(id) == loop.on /\ id \in loop.left /\ loop.sending = {}

Skip(id) ==
    /\ Reaches(id)
    /\ \E row \in Seen(id) : ~IsDue(row) \/ ~row.email
    /\ loop' = [loop EXCEPT !.left = @ \ {id}, !.loaded = @ \union Seen(id)]
    /\ UNCHANGED <<settings, nextRow, mails, clock>>

RowGone(id) ==
    /\ Reaches(id) /\ Seen(id) = {}
    /\ HandledOrEnds(id)
    /\ UNCHANGED <<settings, nextRow, mails, clock>>

SendFails(id) ==
    /\ Reaches(id)
    /\ \E row \in Seen(id) : IsDue(row) /\ row.email
    /\ HandledOrEnds(id)
    /\ UNCHANGED <<settings, nextRow, mails, clock>>

Send(id) ==
    /\ Reaches(id)
    /\ \E row \in Seen(id) :
        /\ IsDue(row) /\ row.email
        /\ mails' = mails \union {[row |-> id, period |-> row.period, at |-> loop.now, kept |-> FALSE]}
    /\ loop' = [loop EXCEPT !.sending = {id}]
    /\ UNCHANGED <<settings, nextRow, clock>>

(* The commit of lastSent, after the mail has left; the row may be gone.   *)
Record(id) ==
    /\ loop.sending = {id} /\ HandledOrEnds(id)
    /\ settings' = {IF row.id = id THEN [row EXCEPT !.lastSent = loop.now] ELSE row : row \in settings}
    /\ mails' = {IF mail.row = id /\ mail.at = loop.now
                 THEN [mail EXCEPT !.kept = id \in RowIds(settings)] ELSE mail : mail \in mails}
    /\ UNCHANGED <<nextRow, clock>>

EndVisit ==
    /\ loop.on /\ loop.left = {} /\ loop' = [loop EXCEPT !.on = FALSE]
    /\ UNCHANGED <<settings, nextRow, mails, clock>>

Crash ==
    /\ loop.on /\ clock.crashes < MaxCrashes
    /\ clock' = [clock EXCEPT !.crashes = @ + 1] /\ loop' = Idle
    /\ UNCHANGED <<settings, nextRow, mails>>

MailNext ==
    \/ \E u \in Users : PutSettings(u) \/ DropSettings(u)
    \/ \E id \in 1 .. MaxPuts :
        Skip(id) \/ RowGone(id) \/ SendFails(id) \/ Send(id) \/ Record(id)
    \/ NextMailDay \/ StartVisit \/ EndVisit \/ Crash

MailSpec == MailInit /\ [][MailNext]_mailVars

-----------------------------------------------------------------------------
(* A row of the settings is known by its id and its user, and the loop     *)
(* knows of rows that were there.                                          *)
MailTypeOK ==
    /\ \A r, s \in settings : r.id = s.id \/ r.user = s.user => r = s
    /\ \A row \in settings : row.id < nextRow /\ (row.method = "EMAIL" => row.email)
    /\ loop.left \subseteq loop.ids /\ loop.sending \subseteq loop.left
    /\ RowIds(loop.loaded) \subseteq loop.ids

(* However users change their delivery and whatever the loop meets, a mail *)
(* of a row comes only a period after the last one that was recorded, the  *)
(* period the loop goes by; the record of a mail may be lost to a death,   *)
(* or to the row being dropped (report_scheduler.py 32-73).                *)
MailsComeInTime ==
    \A m, n \in mails :
        m.row = n.row /\ m.kept /\ m.at < n.at => n.at - m.at >= TicksADay * DaysOf[n.period]

(* Comments of send_due_reports: when one account fails the others still   *)
(* have their turn, and the loop as a whole must not stop. Said of a loop  *)
(* that no death cut short.                                                *)
LoopReachesAll == loop.on \/ loop.left = {}

(* What of that holds: the loop ends before its last row only if one of    *)
(* its rows is gone; a mail that fails costs no other user theirs.         *)
OnlyAGoneRowEndsIt ==
    ~loop.on /\ loop.left # {} => \E id \in loop.ids : id \notin RowIds(settings)
=============================================================================
