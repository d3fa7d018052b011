--------------------------- MODULE CredentialDesk ---------------------------
(* The requests about the credentials of one cloud account.  The cloud is  *)
(* asked in the middle of a request, whose writes are committed after the  *)
(* answer and touch only the columns that differ from what it had read.    *)
(* display_order, labels and scopes are left out: nothing depends on them. *)
EXTENDS Integers, FiniteSets

CONSTANTS
    Handlers, Names, Secrets,
    AuthTypeOf,     \* auth_type of each secret
    SeedSecret,     \* the made-up secret of a demo account
    MaxRows, MaxChanges

(* The tables hold something, be it the demo account's one credential.     *)
ASSUME KeyAssumption == MaxRows \in Nat \ {0} /\ Names # {}

VARIABLES
    demo,           \* does the account belong to a demo user?
    account,        \* the cloud_accounts row exists
    credentials,    \* its rows: [id, name, secret, tag, verified]
    nextCredential,
    handler,        \* the requests
    works,          \* the secrets the cloud accepts
    inUse,          \* credentials of active provisioning jobs and sync items
    lastAudit,      \* by id: the last committed verdict, [secret, result]
    overwritten,    \* given a verdict from a copy whose secret or verdict was outdated
    changes         \* changes of works and inUse so far

keyVars == <<demo, account, credentials, nextCredential, handler, works, inUse, lastAudit, overwritten, changes>>

NoTag == "no auth_type"
CredentialIds(rs) == {row.id : row \in rs}
Unwritten == [id |-> 0, name |-> NoTag, secret |-> SeedSecret, tag |-> NoTag, verified |-> FALSE]
NewHandler == [at |-> "new", op |-> "none", copy |-> Unwritten, row |-> Unwritten, asked |-> FALSE, makes |-> FALSE]

(* seed_demo_data leaves a credential that is verified and opens nothing.  *)
SeedRow(n) == [id |-> 1, name |-> n, secret |-> SeedSecret, tag |-> AuthTypeOf[SeedSecret], verified |-> TRUE]

KeyInit ==
    /\ demo \in BOOLEAN /\ account = demo
    /\ credentials = IF demo THEN {SeedRow(CHOOSE n \in Names : TRUE)} ELSE {}
    /\ nextCredential = IF demo THEN 2 ELSE 1
    /\ handler = [r \in Handlers |-> NewHandler]
    /\ works = Secrets /\ inUse = {} /\ overwritten = {} /\ changes = 0
    /\ lastAudit = [id \in 1 .. MaxRows |-> [secret |-> SeedSecret, result |-> TRUE]]

HandlerBecomes(r, t) == handler' = [handler EXCEPT ![r] = t]
HandlerEnds(r) == HandlerBecomes(r, [handler[r] EXCEPT !.at = "closed"])
World == <<demo, works, inUse, changes>>
KeyTables == <<account, credentials, nextCredential, lastAudit, overwritten>>

Verified(secret) == secret \in works
Audit(id, secret, result) == lastAudit' = [lastAudit EXCEPT ![id] = [secret |-> secret, result |-> result]]

-----------------------------------------------------------------------------
(* POST /credentials/{provider}: the rows are looked up, then inserted     *)
(* (which waits for another session's uncommitted row with the same key),  *)
(* then the cloud is asked, then all is committed.                         *)
CreateLook(r) ==
    /\ handler[r].at = "new" /\ nextCredential <= MaxRows
    /\ \E n \in Names, s \in Secrets :
        IF demo \/ \E row \in credentials : row.name = n THEN HandlerEnds(r)
        ELSE HandlerBecomes(r, [NewHandler EXCEPT !.at = "looked", !.op = "create", !.makes = ~account,
                            !.row = [Unwritten EXCEPT !.name = n, !.secret = s, !.tag = AuthTypeOf[s]]])
    /\ UNCHANGED <<World, KeyTables>>

Uncommitted(r) == {q \in Handlers \ {r} : handler[q].at = "inserted"}

CreateInsert(r) ==
    /\ handler[r].at = "looked" /\ nextCredential <= MaxRows
    /\ \A q \in Uncommitted(r) : handler[q].row.name # handler[r].row.name /\ ~(handler[r].makes /\ handler[q].makes)
    /\ IF (handler[r].makes /\ account) \/ \E row \in credentials : row.name = handler[r].row.name
       THEN HandlerEnds(r) /\ nextCredential' = nextCredential        \* a unique constraint fails
       ELSE /\ nextCredential' = nextCredential + 1
            /\ HandlerBecomes(r, [handler[r] EXCEPT !.at = "inserted", !.row.id = nextCredential,
                                       !.row.verified = Verified(handler[r].row.secret)])
    /\ UNCHANGED <<World, account, credentials, lastAudit, overwritten>>

CreateCommit(r) ==
    /\ handler[r].at = "inserted" /\ HandlerEnds(r)
    /\ account' = TRUE /\ credentials' = credentials \union {handler[r].row}
    /\ Audit(handler[r].row.id, handler[r].row.secret, handler[r].row.verified)
    /\ UNCHANGED <<World, nextCredential, overwritten>>

-----------------------------------------------------------------------------
MergedWhole(row, t) == t.row    \* changed: the whole copy is written back

(* What a commit makes of the row: the columns the request changed in its  *)
(* copy, on top of what the row is now.  A secret is encrypted anew each   *)
(* time it is given, and so always written.                                *)
Replaces(t) == t.op = "patch" /\ t.asked
Merged(row, t) ==
    [c \in DOMAIN row |-> IF t.row[c] = t.copy[c] /\ ~(c = "secret" /\ Replaces(t)) THEN row[c] ELSE t.row[c]]

Outdated(row, t) == row.secret # t.copy.secret \/ row.verified # t.copy.verified

CommitChanges(r) ==
    LET t == handler[r]
        current == {row \in credentials : row.id = t.row.id}
    IN  /\ credentials' = (credentials \ current) \union {Merged(row, t) : row \in current}
        /\ IF t.asked /\ current # {}
           THEN /\ Audit(t.row.id, t.row.secret, t.row.verified)
                /\ overwritten' = (overwritten \ {t.row.id}) \union CredentialIds({row \in current : Outdated(row, t)})
           ELSE UNCHANGED <<lastAudit, overwritten>>
        /\ HandlerEnds(r)

(* PATCH: a new name, new tags, or a new secret, which the cloud is asked  *)
(* about at once and whose auth_type goes over the user's tags.            *)
PatchRead(r) ==
    /\ handler[r].at = "new"
    /\ \E row \in credentials :
        \/ \E n \in Names :
            IF \E other \in credentials : other.id # row.id /\ other.name = n THEN HandlerEnds(r)
            ELSE HandlerBecomes(r, [NewHandler EXCEPT !.at = "changing", !.op = "patch", !.copy = row,
                                !.row = [row EXCEPT !.name = n]])
        \/ \E tag \in {NoTag} \union {AuthTypeOf[s] : s \in Secrets} :
            HandlerBecomes(r, [NewHandler EXCEPT !.at = "changing", !.op = "patch", !.copy = row,
                           !.row = [row EXCEPT !.tag = tag]])
        \/ \E s \in Secrets :
            IF demo THEN HandlerEnds(r)
            ELSE HandlerBecomes(r, [NewHandler EXCEPT !.at = "changing", !.op = "patch", !.copy = row, !.asked = TRUE,
                                !.row = [row EXCEPT !.secret = s, !.tag = AuthTypeOf[s],
                                                    !.verified = Verified(s)]])
    /\ UNCHANGED <<World, KeyTables>>

(* POST verify: the cloud is asked about the secret that was read; a demo  *)
(* credential keeps its verdict.                                           *)
VerifyRead(r) ==
    /\ handler[r].at = "new"
    /\ \E row \in credentials :
        HandlerBecomes(r, [NewHandler EXCEPT !.at = "changing", !.op = "verify", !.copy = row, !.asked = TRUE,
                       !.row = [row EXCEPT !.verified = IF demo THEN @ ELSE Verified(row.secret)]])
    /\ UNCHANGED <<World, KeyTables>>

ChangeCommit(r) ==
    /\ handler[r].at = "changing"
    /\ \A q \in Uncommitted(r) : handler[q].row.name # handler[r].row.name
    /\ IF handler[r].row.name # handler[r].copy.name
          /\ \E other \in credentials : other.id # handler[r].row.id /\ other.name = handler[r].row.name
       THEN HandlerEnds(r) /\ UNCHANGED <<credentials, lastAudit, overwritten>>
       ELSE CommitChanges(r)
    /\ UNCHANGED <<World, account, nextCredential>>

-----------------------------------------------------------------------------
(* DELETE looks for active work first.                                     *)
DeleteLook(r) ==
    /\ handler[r].at = "new"
    /\ \E row \in credentials :
        IF demo \/ row.id \in inUse THEN HandlerEnds(r)
        ELSE HandlerBecomes(r, [NewHandler EXCEPT !.at = "deleting", !.op = "delete", !.row = row])
    /\ UNCHANGED <<World, KeyTables>>

DeleteCommit(r) ==
    /\ handler[r].at = "deleting" /\ HandlerEnds(r)
    /\ credentials' = {row \in credentials : row.id # handler[r].row.id} /\ inUse' = inUse \ {handler[r].row.id}
    /\ UNCHANGED <<demo, works, changes, account, nextCredential, lastAudit, overwritten>>

(* The cloud's owner revokes or restores a secret; jobs start and end.     *)
Turn ==
    /\ changes < MaxChanges /\ changes' = changes + 1
    /\ \/ /\ \E s \in Secrets \ {SeedSecret} : works' = (works \ {s}) \union ({s} \ works)
          /\ inUse' = inUse
       \/ /\ \E row \in credentials : inUse' = (inUse \ {row.id}) \union ({row.id} \ inUse)
          /\ works' = works
    /\ UNCHANGED <<demo, handler, KeyTables>>

KeyNext ==
    \/ \E r \in Handlers :
        \/ CreateLook(r) \/ CreateInsert(r) \/ CreateCommit(r) \/ PatchRead(r) \/ VerifyRead(r)
        \/ ChangeCommit(r) \/ DeleteLook(r) \/ DeleteCommit(r)
    \/ Turn

KeySpec == KeyInit /\ [][KeyNext]_keyVars

-----------------------------------------------------------------------------
KeyTypeOK ==
    /\ \A row, other \in credentials : row.id = other.id \/ row.name = other.name => row = other
    /\ \A row \in credentials : row.id \in 1 .. nextCredential - 1 /\ row.secret \in Secrets \union {SeedSecret}
    /\ credentials # {} => account
    /\ overwritten \union inUse \subseteq 1 .. MaxRows

(* What a credential says of itself is the last verdict the audit holds of *)
(* it, given about the secret it has now, whatever names, tags and secrets *)
(* other requests wrote between its read and its commit - unless that very *)
(* verdict was given to a copy whose secret or verdict another request had *)
(* replaced in between (credentials.py 643-760).                           *)
CredentialSaysWhatItIs ==
    \A row \in credentials :
        row.id \notin overwritten =>
            lastAudit[row.id] = [secret |-> row.secret, result |-> row.verified]

(* "Whatever the user sends as tags, the server's auth_type comes first:   *)
(* the badge rests on it, so user input must not overturn it"              *)
(* (credentials.py 575-576).  A PATCH of the tags alone takes the tags as  *)
(* they come (credential.tags = payload.tags), auth_type and all.          *)
AuthTypeIsServers == \A row \in credentials : row.tag = AuthTypeOf[row.secret]
=============================================================================
