---------------------------- MODULE AuthSessions -----------------------------
(* Accounts and sessions of one e-mail address: sign-up behind a mailed    *)
(* code, login, rotating refresh tokens, logout, password reset and        *)
(* withdrawal.  A request reads in one step and commits in another;        *)
(* withdrawal frees the address, so an account may follow another.         *)
EXTENDS Integers, FiniteSets

CONSTANTS
    Clients,        \* one request each
    MaxAttempts,    \* email_verification_max_attempts
    MaxUsers, MaxTokens, MaxCodes,      \* bounds of the ids given out
    MaxExpiries     \* bound on deadlines that pass

ASSUME AuthAssumption == MaxAttempts \in Nat

VARIABLES
    users,      \* [id, active, holds (the address is its own), password]
    tokens,     \* refresh_tokens: [id, user, revoked, expired]
    codes,      \* email_verifications: none or one [code, attempts, verified, expired]
    resets,     \* password_reset_tokens: [id, user, used, expired]
    requests,   \* what each is doing
    given,      \* ids given out: [user, token, code, reset]
    expiries

authVars == <<users, tokens, codes, resets, requests, given, expiries>>

NewRequest == [at |-> "new", op |-> "none", user |-> 0, row |-> 0, gone |-> {}, old |-> {}, ok |-> FALSE]
First == [id |-> 1, active |-> TRUE, holds |-> TRUE, password |-> 1]

AuthInit ==
    /\ \/ /\ users = {First} /\ tokens = {[id |-> 1, user |-> 1, revoked |-> FALSE, expired |-> FALSE]}
          /\ codes = {} /\ given = [user |-> 1, token |-> 1, code |-> 0, reset |-> 0]
       \/ /\ users = {} /\ tokens = {}
          /\ codes = {[code |-> 1, attempts |-> 0, verified |-> FALSE, expired |-> FALSE]}
          /\ given = [user |-> 0, token |-> 0, code |-> 1, reset |-> 0]
    /\ resets = {} /\ requests = [r \in Clients |-> NewRequest] /\ expiries = 0

Holder == {u \in users : u.holds}
Withdrawn == {u.id : u \in {v \in users : ~v.active}}
Live(t) == ~t.revoked /\ ~t.expired
Replace(set, old, new) == (set \ {old}) \union {new}

RequestBecomes(r, w) == requests' = [requests EXCEPT ![r] = w]
Begin(r, w) == RequestBecomes(r, [w EXCEPT !.at = "read", !.gone = Withdrawn])
Reply(r, w, ok) == RequestBecomes(r, [w EXCEPT !.at = "ended", !.ok = ok])
Refuse(r, user) == Reply(r, [NewRequest EXCEPT !.user = user, !.gone = Withdrawn], FALSE)
Tables == <<users, tokens, codes, resets, given, expiries>>

(* _build_session_data: a new refresh token.                               *)
IssueRefreshToken(user, set) ==
    /\ given.token < MaxTokens
    /\ given' = [given EXCEPT !.token = @ + 1]
    /\ tokens' = set \union {[id |-> given.token + 1, user |-> user, revoked |-> FALSE, expired |-> FALSE]}

-----------------------------------------------------------------------------
(* The password and the status are checked when the user is read; a wrong  *)
(* password and an address nobody holds get the same refusal.              *)
Login(r) ==
    /\ requests[r].at = "new"
    /\ \/ \E u \in Holder : u.active /\ Begin(r, [NewRequest EXCEPT !.op = "login", !.user = u.id])
       \/ Refuse(r, 0)
    /\ UNCHANGED Tables

FinishLogin(r) ==
    /\ requests[r].at = "read" /\ requests[r].op = "login"
    /\ IssueRefreshToken(requests[r].user, tokens)
    /\ Reply(r, requests[r], TRUE)
    /\ UNCHANGED <<users, codes, resets, expiries>>

(* get_current_user: an access token outlives every revocation, so each    *)
(* call reads the user's status.                                           *)
Call(r) ==
    /\ requests[r].at = "new"
    /\ \E u \in users : Reply(r, [NewRequest EXCEPT !.op = "call", !.user = u.id, !.gone = Withdrawn], u.active)
    /\ UNCHANGED Tables

RefreshAnyUser(r) ==    \* changed: only the token is looked at
    /\ requests[r].at = "new"
    /\ \E t \in tokens :
        IF Live(t) THEN Begin(r, [NewRequest EXCEPT !.op = "refresh", !.user = t.user, !.row = t.id])
        ELSE Refuse(r, t.user)
    /\ UNCHANGED Tables

(* A refresh needs a live token of a user who has not withdrawn.           *)
Refresh(r) ==
    /\ requests[r].at = "new"
    /\ \E t \in tokens, u \in users :
        /\ u.id = t.user
        /\ IF Live(t) /\ u.active
           THEN Begin(r, [NewRequest EXCEPT !.op = "refresh", !.user = t.user, !.row = t.id])
           ELSE Refuse(r, t.user)
    /\ UNCHANGED Tables

Rotate(r) ==
    /\ requests[r].at = "read" /\ requests[r].op = "refresh"
    /\ \E t \in tokens : t.id = requests[r].row
                         /\ IssueRefreshToken(t.user, Replace(tokens, t, [t EXCEPT !.revoked = TRUE]))
    /\ Reply(r, requests[r], TRUE)
    /\ UNCHANGED <<users, codes, resets, expiries>>

(* Idempotent: a token that is not there or revoked is logged out too.     *)
Logout(r) ==
    /\ requests[r].at = "new"
    /\ \E t \in tokens : tokens' = Replace(tokens, t, [t EXCEPT !.revoked = TRUE])
    /\ Reply(r, [NewRequest EXCEPT !.op = "logout"], TRUE)
    /\ UNCHANGED <<users, codes, resets, given, expiries>>

(* A withdrawal deletes the credentials and the social accounts, revokes   *)
(* the tokens and gives the address back.  It is refused while a job of    *)
(* the user's is under way, and to the user of the demo.                   *)
ReadForWithdraw(r) ==
    /\ requests[r].at = "new"
    /\ \E u \in users :
        \/ Refuse(r, u.id)
        \/ /\ u.active
           /\ Begin(r, [NewRequest EXCEPT !.op = "withdraw", !.user = u.id,
                           !.old = {t.id : t \in {x \in tokens : x.user = u.id}}])
    /\ UNCHANGED Tables

Withdraw(r) ==
    /\ requests[r].at = "read" /\ requests[r].op = "withdraw"
    /\ users' = {IF u.id = requests[r].user THEN [u EXCEPT !.active = FALSE, !.holds = FALSE, !.password = 0]
                 ELSE u : u \in users}
    /\ tokens' = {IF t.user = requests[r].user THEN [t EXCEPT !.revoked = TRUE] ELSE t : t \in tokens}
    /\ Reply(r, requests[r], TRUE)
    /\ UNCHANGED <<codes, resets, given, expiries>>

-----------------------------------------------------------------------------
(* A code is not sent to an address in use, nor again within the resend    *)
(* interval.  What the row held is remembered: row counts from one the     *)
(* attempts of a row that was there, ok tells that it was verified.        *)
RequestCode(r) ==
    /\ requests[r].at = "new"
    /\ \/ (Holder # {} \/ codes # {}) /\ Refuse(r, 0)   \* in use, or sent a moment ago
       \/ /\ Holder = {} /\ codes = {}
          /\ Begin(r, [NewRequest EXCEPT !.op = "code"])
       \/ /\ Holder = {}
          /\ \E c \in codes : Begin(r, [NewRequest EXCEPT !.op = "code", !.row = c.attempts + 1, !.ok = c.verified])
    /\ UNCHANGED Tables

Fresh(code) == [code |-> code, attempts |-> 0, verified |-> FALSE, expired |-> FALSE]

(* The address has one row: another request may have added it, a sign-up   *)
(* used it up, since it was read.  Of a row that was there the code and    *)
(* its time change, and the attempts and the mark if they were read set.   *)
ReplaceCode(r) ==
    /\ requests[r].at = "read" /\ requests[r].op = "code" /\ given.code < MaxCodes
    /\ IF (requests[r].row = 0) = (codes = {})
       THEN /\ given' = [given EXCEPT !.code = @ + 1]
            /\ codes' = IF codes = {} THEN {Fresh(given.code + 1)}
                        ELSE {[Fresh(given.code + 1) EXCEPT
                                 !.attempts = IF requests[r].row > 1 THEN 0 ELSE c.attempts,
                                 !.verified = c.verified /\ ~requests[r].ok] : c \in codes}
            /\ Reply(r, requests[r], TRUE)
       ELSE Reply(r, requests[r], FALSE) /\ UNCHANGED <<codes, given>>
    /\ UNCHANGED <<users, tokens, resets, expiries>>

(* The code entered is the row's or not; the row read decides.             *)
ReadCode(r) ==
    /\ requests[r].at = "new"
    /\ \E c \in codes :
        IF c.expired \/ c.attempts >= MaxAttempts THEN Refuse(r, 0)
        ELSE \E right \in {0, 1} :
                Begin(r, [NewRequest EXCEPT !.op = "verify", !.row = c.attempts, !.user = right])
    /\ UNCHANGED Tables

(* An update of the one column that changed, to the value computed from    *)
(* what was read, whatever the row holds by now.                           *)
Verify(r) ==
    /\ requests[r].at = "read" /\ requests[r].op = "verify"
    /\ codes' = {IF requests[r].user = 1 THEN [c EXCEPT !.verified = TRUE]
                 ELSE [c EXCEPT !.attempts = requests[r].row + 1] : c \in codes}
    /\ Reply(r, [NewRequest EXCEPT !.op = "verify"], requests[r].user = 1 /\ codes # {})
    /\ UNCHANGED <<users, tokens, resets, given, expiries>>

ReadForSignUp(r) ==
    /\ requests[r].at = "new"
    /\ IF Holder = {} /\ \E c \in codes : c.verified
       THEN Begin(r, [NewRequest EXCEPT !.op = "sign up"]) ELSE Refuse(r, 0)
    /\ UNCHANGED Tables

(* The unique address decides between two sign-ups; the code is used up.   *)
SignUp(r) ==
    /\ requests[r].at = "read" /\ requests[r].op = "sign up" /\ given.user < MaxUsers
    /\ IF Holder = {}
       THEN /\ users' = users \union {[First EXCEPT !.id = given.user + 1]}
            /\ given' = [given EXCEPT !.user = @ + 1]
            /\ codes' = {} /\ Reply(r, requests[r], TRUE)
       ELSE /\ Reply(r, requests[r], FALSE) /\ UNCHANGED <<users, given, codes>>
    /\ UNCHANGED <<tokens, resets, expiries>>

-----------------------------------------------------------------------------
(* The answer is the same whether the address has an account or not.       *)
RequestReset(r) ==
    /\ requests[r].at = "new"
    /\ \/ \E u \in Holder :
            /\ u.active /\ given.reset < MaxCodes
            /\ given' = [given EXCEPT !.reset = @ + 1]
            /\ resets' = resets \union {[id |-> given.reset + 1, user |-> u.id, used |-> FALSE, expired |-> FALSE]}
       \/ Holder = {} /\ UNCHANGED <<given, resets>>
    /\ Reply(r, [NewRequest EXCEPT !.op = "ask reset"], TRUE)
    /\ UNCHANGED <<users, tokens, codes, expiries>>

(* The confirmation reads the link, the user, and the tokens it will       *)
(* revoke.                                                                 *)
ReadReset(r) ==
    /\ requests[r].at = "new"
    /\ \E p \in resets, u \in users :
        /\ u.id = p.user
        /\ IF ~p.used /\ ~p.expired /\ u.active
           THEN Begin(r, [NewRequest EXCEPT !.op = "reset", !.user = u.id, !.row = p.id,
                        !.old = {t.id : t \in {x \in tokens : x.user = u.id /\ ~x.revoked}}])
           ELSE Refuse(r, u.id)
    /\ UNCHANGED Tables

ConfirmPasswordOnly(r) ==   \* changed: the sessions go on
    /\ requests[r].at = "read" /\ requests[r].op = "reset"
    /\ users' = {IF u.id = requests[r].user THEN [u EXCEPT !.password = requests[r].row + 1] ELSE u : u \in users}
    /\ resets' = {IF p.id = requests[r].row THEN [p EXCEPT !.used = TRUE] ELSE p : p \in resets}
    /\ Reply(r, requests[r], TRUE)
    /\ UNCHANGED <<tokens, codes, given, expiries>>

ConfirmReset(r) ==
    /\ requests[r].at = "read" /\ requests[r].op = "reset"
    /\ users' = {IF u.id = requests[r].user THEN [u EXCEPT !.password = requests[r].row + 1] ELSE u : u \in users}
    /\ resets' = {IF p.id = requests[r].row THEN [p EXCEPT !.used = TRUE] ELSE p : p \in resets}
    /\ tokens' = {IF t.id \in requests[r].old THEN [t EXCEPT !.revoked = TRUE] ELSE t : t \in tokens}
    /\ Reply(r, requests[r], TRUE)
    /\ UNCHANGED <<codes, given, expiries>>

(* A deadline passes: of a token, of a code or of the window in which a    *)
(* verified address may sign up, of a reset link.                          *)
TokenExpires ==
    /\ expiries < MaxExpiries /\ expiries' = expiries + 1
    /\ \E t \in tokens : tokens' = Replace(tokens, t, [t EXCEPT !.expired = TRUE])
    /\ UNCHANGED <<users, codes, resets, requests, given>>

CodeExpires ==
    /\ expiries < MaxExpiries /\ expiries' = expiries + 1
    /\ \E c \in codes : codes' \in {{[c EXCEPT !.expired = TRUE]}, {[c EXCEPT !.verified = FALSE]}}
    /\ UNCHANGED <<users, tokens, resets, requests, given>>

ResetExpires ==
    /\ expiries < MaxExpiries /\ expiries' = expiries + 1
    /\ \E p \in resets : resets' = Replace(resets, p, [p EXCEPT !.expired = TRUE])
    /\ UNCHANGED <<users, tokens, codes, requests, given>>

AuthNext ==
    \/ TokenExpires \/ CodeExpires \/ ResetExpires
    \/ \E r \in Clients :
        \/ Login(r) \/ FinishLogin(r) \/ Call(r) \/ Refresh(r) \/ Rotate(r) \/ Logout(r)
        \/ ReadForWithdraw(r) \/ Withdraw(r)
        \/ RequestCode(r) \/ ReplaceCode(r) \/ ReadCode(r) \/ Verify(r) \/ ReadForSignUp(r) \/ SignUp(r)
        \/ RequestReset(r) \/ ReadReset(r) \/ ConfirmReset(r)

AuthSpec == AuthInit /\ [][AuthNext]_authVars

-----------------------------------------------------------------------------
(* Ids are given once, an address has one account and one code, and the    *)
(* attempts stay in their range.                                           *)
AuthTypeOK ==
    /\ \A u, v \in users : (u.id = v.id \/ (u.holds /\ v.holds)) => u = v
    /\ \A t, q \in tokens : t.id = q.id => t = q
    /\ \A p, q \in resets : p.id = q.id => p = q
    /\ Cardinality(codes) <= 1 /\ \A c \in codes : c.attempts \in 0 .. MaxAttempts
    /\ \A t \in tokens \union resets : \E u \in users : u.id = t.user
    /\ \A u \in users : u.active <=> u.holds

(* A request that begins after a withdrawal never succeeds for that user,  *)
(* with an access token that is still valid or with a refresh token a      *)
(* login committed after the withdrawal had revoked the others             *)
(* (get_current_user in deps.py, refresh in routers/auth.py).              *)
WithdrawnIsOut ==
    \A r \in Clients : requests[r].at = "ended" /\ requests[r].ok => requests[r].user \notin requests[r].gone

(* A password reset and a withdrawal end every session there was when they *)
(* looked, and nothing revives one.  A token that a refresh commits between*)
(* a reset's look and its commit is not one of them: it goes on under the  *)
(* new password (confirm_password_reset, withdraw_me).                     *)
OldSessionsEnd ==
    \A r \in Clients : requests[r].at = "ended" /\ requests[r].ok =>
        \A t \in tokens : t.id \in requests[r].old => t.revoked
=============================================================================
