------------------------- MODULE AuthSessionsProofs -------------------------
(***************************************************************************)
(* Safety of AuthSessions for every set of clients, any limit of attempts  *)
(* and any bounds: IInv is inductive, one lemma per kind of step, and      *)
(* implies that a withdrawn user is out and that a reset or a withdrawal   *)
(* ends the sessions it found.                                             *)
(***************************************************************************)
EXTENDS AuthSessions, FiniteSetTheorems, TLAPS

(* The rows of the tables and the requests.                                *)
User == [id : Nat \ {0}, active : BOOLEAN, holds : BOOLEAN, password : Nat]
Token == [id : Nat, user : Nat, revoked : BOOLEAN, expired : BOOLEAN]
Code == [code : Nat, attempts : 0 .. MaxAttempts,
         verified : BOOLEAN, expired : BOOLEAN]
Reset == [id : Nat, user : Nat, used : BOOLEAN, expired : BOOLEAN]
Request == [at : {"new", "read", "ended"},
            op : {"none", "login", "call", "refresh", "logout", "withdraw",
                  "code", "verify", "sign up", "ask reset", "reset"},
            user : Nat, row : Nat, gone : SUBSET Nat, old : SUBSET Nat,
            ok : BOOLEAN]

Typed ==
    /\ users \subseteq User /\ tokens \subseteq Token
    /\ codes \subseteq Code /\ resets \subseteq Reset
    /\ requests \in [Clients -> Request]
    /\ given \in [user : Nat, token : Nat, code : Nat, reset : Nat]

OwnerOf(t) == \E u \in users : u.id = t.user

(* An id names one row and was given by its sequence; an address has one   *)
(* account and one code.                                                   *)
UsersFit ==
    /\ \A u, v \in users : (u.id = v.id \/ (u.holds /\ v.holds)) => u = v
    /\ \A u \in users : u.id <= given.user /\ (u.active <=> u.holds)

TokensFit ==
    /\ \A t, q \in tokens : t.id = q.id => t = q
    /\ \A t \in tokens : t.id <= given.token /\ OwnerOf(t)

ResetsFit ==
    /\ \A p, q \in resets : p.id = q.id => p = q
    /\ \A p \in resets : p.id <= given.reset /\ OwnerOf(p)

OneCode == \A c, d \in codes : c = d

(* What a request knows stays true while it waits to commit: the user it   *)
(* works for had not withdrawn when it began, the tokens it means to       *)
(* revoke are that user's and have been given out, and the attempts it     *)
(* counts from leave one more.                                             *)
RequestFits(r) ==
    LET w == requests[r] IN
    /\ \A i \in w.old : i <= given.token
    /\ w.op \notin {"withdraw", "reset"} => w.old = {}
    /\ w.at = "read" /\ w.op # "verify" => w.user \notin w.gone
    /\ w.at = "read" /\ w.op = "login" => OwnerOf(w)
    /\ w.at = "read" /\ w.op = "verify" => w.row < MaxAttempts
    /\ w.at = "read" /\ w.op = "withdraw" =>
        \A t \in tokens : t.id \in w.old => t.user = w.user
    /\ w.at = "ended" /\ w.ok =>
        /\ w.user \notin w.gone
        /\ \A t \in tokens : t.id \in w.old => t.revoked

IInv ==
    /\ Typed /\ UsersFit /\ TokensFit /\ ResetsFit /\ OneCode
    /\ \A r \in Clients : RequestFits(r)

(***************************************************************************)
(* What the steps have in common                                           *)
(***************************************************************************)

(* Nobody is forgotten, an id keeps its row, and a revoked token stays     *)
(* revoked: the way every step changes the tables.                         *)
TablesGrow ==
    /\ \A u \in users : \E v \in users' : v.id = u.id
    /\ \A q \in tokens' :
        \/ q.id > given.token
        \/ \E t \in tokens : /\ t.id = q.id /\ t.user = q.user
                             /\ t.revoked => q.revoked
    /\ given'.token \in Nat /\ given'.token >= given.token

(* A request nobody serves in a step keeps what it knows.                  *)
LEMMA OthersKeep ==
  ASSUME Typed, TablesGrow, NEW r \in Clients, RequestFits(r),
         requests'[r] = requests[r]
  PROVE  RequestFits(r)'
<1>1. requests[r] \in Request /\ given.token \in Nat
  BY DEF Typed
<1>2. \A i \in requests[r].old : i \in Nat /\ i <= given.token
  BY <1>1 DEF RequestFits, Request
<1>3. \A i \in requests[r].old : i <= given'.token
  BY <1>1, <1>2 DEF TablesGrow
<1>4. OwnerOf(requests[r]) => OwnerOf(requests[r])'
  BY DEF OwnerOf, TablesGrow
<1>5. ASSUME NEW q \in tokens', q.id \in requests[r].old
      PROVE  \E t \in tokens : /\ t.id = q.id /\ t.user = q.user
                               /\ t.revoked => q.revoked
  BY <1>1, <1>2, <1>5 DEF TablesGrow
<1>6. QED
  BY <1>3, <1>4, <1>5 DEF RequestFits

(* One request moves; the others keep what they know.                      *)
LEMMA OneMoves ==
  ASSUME IInv, TablesGrow, NEW r \in Clients, NEW w \in Request,
         RequestBecomes(r, w), RequestFits(r)'
  PROVE  /\ requests' \in [Clients -> Request]
         /\ \A q \in Clients : RequestFits(q)'
<1>1. requests \in [Clients -> Request]
  BY DEF IInv, Typed
<1>2. /\ requests' \in [Clients -> Request]
      /\ \A q \in Clients \ {r} : requests'[q] = requests[q]
  BY <1>1 DEF RequestBecomes
<1>3. ASSUME NEW q \in Clients PROVE RequestFits(q)'
  <2>1. CASE q = r
    BY <2>1
  <2>2. CASE q # r
    BY <1>2, <2>2, OthersKeep DEF IInv
  <2>3. QED
    BY <2>1, <2>2
<1>4. QED
  BY <1>2, <1>3

(* A request becomes what its handler says.                                *)
LEMMA Becomes ==
  ASSUME Typed, NEW r \in Clients, NEW w \in Request, RequestBecomes(r, w)
  PROVE  requests'[r] = w
BY DEF Typed, RequestBecomes

(* A request begins with nothing.                                          *)
LEMMA NewRequestTyped == NewRequest \in Request
BY DEF NewRequest, Request

(* Tables that stay as they are grow.                                      *)
LEMMA NothingGrows ==
  ASSUME Typed, UNCHANGED Tables
  PROVE  TablesGrow
<1>1. given.token \in Nat
  BY DEF Typed
<1>2. users' = users /\ tokens' = tokens /\ given' = given
  BY DEF Tables
<1>3. QED
  BY <1>1, <1>2 DEF TablesGrow

(* A handler that only reads.                                              *)
LEMMA OnlyReads ==
  ASSUME IInv, NEW r \in Clients, NEW w \in Request, RequestBecomes(r, w),
         UNCHANGED Tables, RequestFits(r)'
  PROVE  IInv'
<1>1. TablesGrow
  BY NothingGrows DEF IInv
<1>2. /\ requests' \in [Clients -> Request]
      /\ \A q \in Clients : RequestFits(q)'
  BY <1>1, OneMoves
<1>3. (UsersFit /\ TokensFit /\ ResetsFit /\ OneCode)'
  BY DEF IInv, Tables, UsersFit, TokensFit, ResetsFit, OneCode, OwnerOf
<1>4. Typed'
  BY <1>2 DEF IInv, Typed, Tables
<1>5. QED
  BY <1>2, <1>3, <1>4 DEF IInv

(* A refusal promises nothing.                                             *)
LEMMA RefuseFits ==
  ASSUME IInv, NEW r \in Clients, NEW i \in Nat, Refuse(r, i),
         UNCHANGED Tables
  PROVE  IInv'
<1>1. Withdrawn \subseteq Nat
  BY DEF IInv, Typed, Withdrawn, User
<1>2. PICK w \in Request :
         w = [[NewRequest EXCEPT !.user = i, !.gone = Withdrawn]
                 EXCEPT !.at = "ended", !.ok = FALSE]
  BY <1>1, NewRequestTyped DEF Request
<1>3. w.at = "ended" /\ ~w.ok /\ w.op = "none" /\ w.old = {}
  BY <1>2 DEF NewRequest
<1>4. RequestBecomes(r, w)
  BY <1>2 DEF Refuse, Reply
<1>5. requests'[r] = w
  BY <1>4, Becomes DEF IInv
<1>6. RequestFits(r)'
  BY <1>3, <1>5 DEF RequestFits
<1>7. QED
  BY <1>4, <1>6, OnlyReads

(* A user who is active has not withdrawn.                                 *)
LEMMA ActiveIsIn ==
  ASSUME IInv, NEW u \in users, u.active
  PROVE  u.id \notin Withdrawn /\ u.id \in Nat /\ u.id # 0
BY DEF IInv, Typed, UsersFit, Withdrawn, User

(* A handler reads and goes on to its commit.                              *)
LEMMA BeginFits ==
  ASSUME IInv, NEW r \in Clients, NEW v \in Request, Begin(r, v),
         UNCHANGED Tables,
         v.op # "verify" => v.user \notin Withdrawn,
         \A i \in v.old : i <= given.token,
         v.op \notin {"withdraw", "reset"} => v.old = {},
         v.op = "login" => OwnerOf(v),
         v.op = "verify" => v.row < MaxAttempts,
         v.op = "withdraw" =>
             \A t \in tokens : t.id \in v.old => t.user = v.user
  PROVE  IInv'
<1>1. Withdrawn \subseteq Nat
  BY DEF IInv, Typed, Withdrawn, User
<1>2. PICK w \in Request : w = [v EXCEPT !.at = "read", !.gone = Withdrawn]
  BY <1>1 DEF Request
<1>3. /\ w.at = "read" /\ w.gone = Withdrawn /\ w.op = v.op
      /\ w.user = v.user /\ w.row = v.row /\ w.old = v.old
  BY <1>2 DEF Request
<1>4. RequestBecomes(r, w)
  BY <1>2 DEF Begin
<1>5. requests'[r] = w
  BY <1>4, Becomes DEF IInv
<1>6. users' = users /\ tokens' = tokens /\ given' = given
  BY DEF Tables
<1>7. RequestFits(r)'
  BY <1>3, <1>5, <1>6 DEF RequestFits, OwnerOf
<1>8. QED
  BY <1>4, <1>7, OnlyReads

(* A handler answers: what it says of success has to hold then.            *)
LEMMA ReplyKeeps ==
  ASSUME IInv, TablesGrow, NEW r \in Clients, NEW v \in Request,
         NEW b \in BOOLEAN, Reply(r, v, b),
         \A i \in v.old : i <= given.token,
         v.op \notin {"withdraw", "reset"} => v.old = {},
         b => /\ v.user \notin v.gone
              /\ \A t \in tokens' : t.id \in v.old => t.revoked
  PROVE  /\ requests' \in [Clients -> Request]
         /\ \A q \in Clients : RequestFits(q)'
<1>1. PICK w \in Request : w = [v EXCEPT !.at = "ended", !.ok = b]
  BY DEF Request
<1>2. /\ w.at = "ended" /\ w.ok = b /\ w.op = v.op /\ w.user = v.user
      /\ w.gone = v.gone /\ w.old = v.old
  BY <1>1 DEF Request
<1>3. RequestBecomes(r, w)
  BY <1>1 DEF Reply
<1>4. requests'[r] = w
  BY <1>3, Becomes DEF IInv
<1>5. \A i \in v.old : i <= given'.token
  <2>1. given.token \in Nat /\ \A i \in v.old : i \in Nat
    BY DEF IInv, Typed, Request
  <2>2. QED
    BY <2>1 DEF TablesGrow
<1>6. RequestFits(r)'
  BY <1>2, <1>4, <1>5 DEF RequestFits
<1>7. QED
  BY <1>3, <1>6, OneMoves

(* The tokens change row by row, keeping id and owner and no revocation    *)
(* undone, and at most one is new.                                         *)
LEMMA TokensMapped ==
  ASSUME IInv, NEW F \in [tokens -> Token], NEW N \in SUBSET Token,
         tokens' = {F[t] : t \in tokens} \union N,
         \A t \in tokens : /\ F[t].id = t.id /\ F[t].user = t.user
                           /\ (t.revoked => F[t].revoked),
         \A n \in N : /\ n.id > given.token /\ n.id <= given'.token
                      /\ \E u \in users : u.id = n.user,
         \A m, n \in N : m = n,
         given'.token \in Nat, given'.token >= given.token,
         \A u \in users : \E v \in users' : v.id = u.id
  PROVE  TablesGrow /\ tokens' \subseteq Token /\ TokensFit'
<1>1. tokens \subseteq Token /\ given.token \in Nat
  BY DEF IInv, Typed
<1>2. \A t \in tokens : t.id \in Nat /\ t.id <= given.token /\ OwnerOf(t)
  BY <1>1 DEF IInv, TokensFit, Token
<1>3. \A q \in tokens' : q \in N \/ \E t \in tokens : q = F[t]
  OBVIOUS
<1>4. tokens' \subseteq Token
  BY <1>3
<1>5. \A q \in tokens' : q.id \in Nat /\ q.id <= given'.token /\ OwnerOf(q)'
  BY <1>1, <1>2, <1>3, <1>4 DEF OwnerOf, Token
<1>6. ASSUME NEW p \in tokens', NEW q \in tokens', p.id = q.id
      PROVE  p = q
  <2>1. CASE p \in N \/ q \in N
    BY <1>1, <1>2, <1>3, <1>6, <2>1 DEF Token
  <2>2. CASE p \notin N /\ q \notin N
    BY <1>3, <1>6, <2>2 DEF IInv, TokensFit
  <2>3. QED
    BY <2>1, <2>2
<1>7. TablesGrow
  BY <1>3 DEF TablesGrow
<1>8. QED
  BY <1>4, <1>5, <1>6, <1>7 DEF TokensFit

(* Tokens nobody touches while the users change.                           *)
LEMMA TokensStay ==
  ASSUME IInv, tokens' = tokens, given'.token = given.token,
         \A u \in users : \E v \in users' : v.id = u.id
  PROVE  TablesGrow /\ tokens' \subseteq Token /\ TokensFit'
<1>1. tokens \subseteq Token /\ given.token \in Nat
  BY DEF IInv, Typed
<1>2. TablesGrow
  BY <1>1 DEF TablesGrow
<1>3. TokensFit'
  BY <1>1 DEF IInv, TokensFit, OwnerOf
<1>4. QED
  BY <1>1, <1>2, <1>3

(* The reset links change row by row, keeping id and user.                 *)
LEMMA ResetsMapped ==
  ASSUME IInv, NEW F \in [resets -> Reset],
         resets' = {F[p] : p \in resets}, given' = given,
         \A p \in resets : F[p].id = p.id /\ F[p].user = p.user,
         \A u \in users : \E v \in users' : v.id = u.id
  PROVE  resets' \subseteq Reset /\ ResetsFit'
BY DEF IInv, ResetsFit, OwnerOf

(* The links stay while the users change.                                  *)
LEMMA ResetsStay ==
  ASSUME IInv, resets' = resets, given'.reset = given.reset,
         \A u \in users : \E v \in users' : v.id = u.id
  PROVE  resets' \subseteq Reset /\ ResetsFit'
BY DEF IInv, Typed, ResetsFit, OwnerOf

(* The users change row by row: nobody takes an address or comes back.     *)
LEMMA UsersMapped ==
  ASSUME IInv, NEW F \in [users -> User], users' = {F[u] : u \in users},
         given'.user = given.user,
         \A u \in users : /\ F[u].id = u.id /\ (F[u].holds => u.holds)
                          /\ (F[u].active <=> F[u].holds)
  PROVE  /\ users' \subseteq User /\ UsersFit'
         /\ \A u \in users : \E v \in users' : v.id = u.id
<1>1. \A u \in users : F[u] \in users' /\ F[u].id = u.id
  OBVIOUS
<1>2. \A v \in users' : \E u \in users : v = F[u]
  OBVIOUS
<1>3. UsersFit'
  BY <1>1, <1>2 DEF IInv, UsersFit
<1>4. QED
  BY <1>1, <1>2, <1>3

(* The users stay as they are.                                             *)
LEMMA UsersStay ==
  ASSUME IInv, users' = users, given'.user = given.user
  PROVE  /\ users' \subseteq User /\ UsersFit'
         /\ \A u \in users : \E v \in users' : v.id = u.id
BY DEF IInv, Typed, UsersFit

(***************************************************************************)
(* Login, calls, refresh and logout                                        *)
(***************************************************************************)

(* A login begins only with the active holder of the address.              *)
LEMMA LoginInv ==
  ASSUME IInv, NEW r \in Clients, Login(r)
  PROVE  IInv'
<1>1. UNCHANGED Tables
  BY DEF Login
<1>2. CASE Refuse(r, 0)
  BY <1>1, <1>2, RefuseFits
<1>3. ASSUME NEW u \in Holder, u.active,
             Begin(r, [NewRequest EXCEPT !.op = "login", !.user = u.id])
      PROVE  IInv'
  <2>1. u \in users /\ u.id \notin Withdrawn /\ u.id \in Nat
    BY <1>3, ActiveIsIn DEF Holder
  <2>2. PICK v \in Request :
           v = [NewRequest EXCEPT !.op = "login", !.user = u.id]
    BY <2>1, NewRequestTyped DEF Request
  <2>3. v.op = "login" /\ v.user = u.id /\ v.old = {}
    BY <2>2 DEF NewRequest
  <2>4. OwnerOf(v) /\ Begin(r, v)
    BY <1>3, <2>1, <2>2, <2>3 DEF OwnerOf
  <2>5. QED
    BY <1>1, <2>1, <2>3, <2>4, BeginFits
<1>4. QED
  BY <1>2, <1>3 DEF Login

(* A call succeeds only while the user is active.                          *)
LEMMA CallInv ==
  ASSUME IInv, NEW r \in Clients, Call(r)
  PROVE  IInv'
<1>1. UNCHANGED Tables
  BY DEF Call
<1>2. PICK u \in users :
         Reply(r, [NewRequest EXCEPT !.op = "call", !.user = u.id,
                                     !.gone = Withdrawn], u.active)
  BY DEF Call
<1>3. /\ Withdrawn \subseteq Nat /\ u.id \in Nat /\ u.active \in BOOLEAN
      /\ u.active => u.id \notin Withdrawn
  BY ActiveIsIn DEF IInv, Typed, Withdrawn, User
<1>4. PICK v \in Request :
         v = [NewRequest EXCEPT !.op = "call", !.user = u.id,
                                !.gone = Withdrawn]
  BY <1>3, NewRequestTyped DEF Request
<1>5. /\ v.op = "call" /\ v.user = u.id /\ v.gone = Withdrawn /\ v.old = {}
      /\ Reply(r, v, u.active)
  BY <1>2, <1>4 DEF NewRequest
<1>6. TablesGrow
  BY <1>1, NothingGrows DEF IInv
<1>7. /\ requests' \in [Clients -> Request]
      /\ \A q \in Clients : RequestFits(q)'
  BY <1>3, <1>5, <1>6, ReplyKeeps
<1>8. QED
  BY <1>1, <1>7 DEF IInv, Tables, Typed, UsersFit, TokensFit, ResetsFit,
     OneCode, OwnerOf

(* A refresh begins with a live token of an active user.                   *)
LEMMA RefreshInv ==
  ASSUME IInv, NEW r \in Clients, Refresh(r)
  PROVE  IInv'
<1>1. UNCHANGED Tables
  BY DEF Refresh
<1>2. PICK t \in tokens, u \in users :
         /\ u.id = t.user
         /\ IF Live(t) /\ u.active
            THEN Begin(r, [NewRequest EXCEPT !.op = "refresh",
                              !.user = t.user, !.row = t.id])
            ELSE Refuse(r, t.user)
  BY DEF Refresh
<1>3. t.id \in Nat /\ t.user \in Nat
  BY DEF IInv, Typed, Token
<1>4. CASE ~(Live(t) /\ u.active)
  BY <1>1, <1>2, <1>3, <1>4, RefuseFits
<1>5. CASE Live(t) /\ u.active
  <2>1. u.id \notin Withdrawn
    BY <1>5, ActiveIsIn
  <2>2. PICK v \in Request :
           v = [NewRequest EXCEPT !.op = "refresh",
                   !.user = t.user, !.row = t.id]
    BY <1>3, NewRequestTyped DEF Request
  <2>3. v.op = "refresh" /\ v.user = t.user /\ v.old = {} /\ Begin(r, v)
    BY <1>2, <1>5, <2>2 DEF NewRequest
  <2>4. QED
    BY <1>1, <1>2, <2>1, <2>3, BeginFits
<1>6. QED
  BY <1>4, <1>5

(* A token with the next id goes to a user that exists.                    *)
LEMMA TokenIssued ==
  ASSUME IInv, NEW F \in [tokens -> Token], NEW i \in Nat,
         \A t \in tokens : /\ F[t].id = t.id /\ F[t].user = t.user
                           /\ (t.revoked => F[t].revoked),
         \E u \in users : u.id = i,
         IssueRefreshToken(i, {F[t] : t \in tokens}), users' = users
  PROVE  /\ TablesGrow /\ tokens' \subseteq Token /\ TokensFit'
         /\ given'.user = given.user /\ given'.reset = given.reset
         /\ given' \in [user : Nat, token : Nat, code : Nat, reset : Nat]
         /\ \A q \in tokens' :
              q.id <= given.token => \E t \in tokens : q = F[t]
<1>1. /\ given \in [user : Nat, token : Nat, code : Nat, reset : Nat]
      /\ given.token \in Nat /\ given.token + 1 \in Nat
  BY DEF IInv, Typed
<1>2. given' = [given EXCEPT !.token = @ + 1]
  BY DEF IssueRefreshToken
<1>3. /\ given'.token = given.token + 1 /\ given'.user = given.user
      /\ given'.reset = given.reset
      /\ given' \in [user : Nat, token : Nat, code : Nat, reset : Nat]
  BY <1>1, <1>2
<1>4. PICK n \in Token : n = [id |-> given.token + 1, user |-> i,
                              revoked |-> FALSE, expired |-> FALSE]
  BY <1>1 DEF Token
<1>5. n.id = given.token + 1 /\ n.user = i
  BY <1>4
<1>6. tokens' = {F[t] : t \in tokens} \union {n}
  BY <1>4 DEF IssueRefreshToken
<1>7. \A m \in {n} : /\ m.id > given.token /\ m.id <= given'.token
                     /\ \E u \in users : u.id = m.user
  BY <1>1, <1>3, <1>5
<1>8. TablesGrow /\ tokens' \subseteq Token /\ TokensFit'
  <2>1. PICK N \in SUBSET Token : N = {n}
    OBVIOUS
  <2>2. \A m, q \in N : m = q
    BY <2>1
  <2>3. given'.token \in Nat /\ given'.token >= given.token
    BY <1>1, <1>3
  <2>4. \A u \in users : \E v \in users' : v.id = u.id
    OBVIOUS
  <2>5. tokens' = {F[t] : t \in tokens} \union N
    BY <1>6, <2>1
  <2>6. QED
    BY <1>7, <2>1, <2>2, <2>3, <2>4, <2>5, TokensMapped
<1>9. \A q \in tokens' : q.id <= given.token => \E t \in tokens : q = F[t]
  BY <1>1, <1>5, <1>6
<1>10. QED
  BY <1>3, <1>8, <1>9

(* A login issues a token of the user it read.                             *)
LEMMA FinishLoginInv ==
  ASSUME IInv, NEW r \in Clients, FinishLogin(r)
  PROVE  IInv'
<1> DEFINE F == [t \in tokens |-> t]
           w == requests[r]
<1>1. w \in Request /\ tokens \subseteq Token /\ users' = users
  BY DEF IInv, Typed, FinishLogin
<1>2. /\ w.at = "read" /\ w.op = "login" /\ w.user \notin w.gone
      /\ w.old = {} /\ \E u \in users : u.id = w.user
  BY DEF IInv, RequestFits, FinishLogin, OwnerOf
<1>3. F \in [tokens -> Token] /\ tokens = {F[t] : t \in tokens}
  BY <1>1
<1>4. \A t \in tokens : /\ F[t].id = t.id /\ F[t].user = t.user
                        /\ (t.revoked => F[t].revoked)
  OBVIOUS
<1>5. IssueRefreshToken(w.user, {F[t] : t \in tokens}) /\ Reply(r, w, TRUE)
  BY <1>3 DEF FinishLogin
<1>6. w.user \in Nat
  BY <1>1 DEF Request
<1> HIDE DEF F, w
<1>7. /\ TablesGrow /\ tokens' \subseteq Token /\ TokensFit'
      /\ given'.user = given.user /\ given'.reset = given.reset
      /\ given' \in [user : Nat, token : Nat, code : Nat, reset : Nat]
  BY <1>1, <1>2, <1>3, <1>4, <1>5, <1>6, TokenIssued
<1>8. /\ requests' \in [Clients -> Request]
      /\ \A q \in Clients : RequestFits(q)'
  BY <1>1, <1>2, <1>5, <1>7, ReplyKeeps
<1>9. /\ users' \subseteq User /\ UsersFit'
      /\ resets' \subseteq Reset /\ ResetsFit'
  BY <1>7, UsersStay, ResetsStay DEF FinishLogin
<1>10. codes' = codes
  BY DEF FinishLogin
<1>11. QED
  BY <1>7, <1>8, <1>9, <1>10 DEF IInv, Typed, OneCode

(* A refresh revokes its token and issues the next to the same user.       *)
LEMMA RotateInv ==
  ASSUME IInv, NEW r \in Clients, Rotate(r)
  PROVE  IInv'
<1> DEFINE w == requests[r]
<1>1. w \in Request /\ tokens \subseteq Token /\ users' = users
  BY DEF IInv, Typed, Rotate
<1>2. /\ w.at = "read" /\ w.op = "refresh" /\ w.user \notin w.gone
      /\ w.old = {} /\ Reply(r, w, TRUE)
  BY DEF IInv, RequestFits, Rotate
<1>3. PICK t \in tokens :
         IssueRefreshToken(t.user,
             Replace(tokens, t, [t EXCEPT !.revoked = TRUE]))
  BY DEF Rotate
<1>4. PICK n \in Token : n = [t EXCEPT !.revoked = TRUE]
  BY <1>1 DEF Token
<1>5. n.id = t.id /\ n.user = t.user /\ n.revoked
  BY <1>1, <1>4 DEF Token
<1> DEFINE F == [q \in tokens |-> IF q = t THEN n ELSE q]
<1>6. F \in [tokens -> Token]
  BY <1>1
<1>7. {F[q] : q \in tokens} = Replace(tokens, t, n)
  BY DEF Replace
<1>8. \A q \in tokens : /\ F[q].id = q.id /\ F[q].user = q.user
                        /\ (q.revoked => F[q].revoked)
  BY <1>5
<1>9. t.user \in Nat /\ \E u \in users : u.id = t.user
  BY <1>1 DEF IInv, TokensFit, OwnerOf, Token
<1> HIDE DEF F, w
<1>10. /\ TablesGrow /\ tokens' \subseteq Token /\ TokensFit'
       /\ given'.user = given.user /\ given'.reset = given.reset
       /\ given' \in [user : Nat, token : Nat, code : Nat, reset : Nat]
  BY <1>1, <1>3, <1>4, <1>6, <1>7, <1>8, <1>9, TokenIssued
<1>11. /\ requests' \in [Clients -> Request]
       /\ \A q \in Clients : RequestFits(q)'
  BY <1>1, <1>2, <1>10, ReplyKeeps
<1>12. /\ users' \subseteq User /\ UsersFit'
       /\ resets' \subseteq Reset /\ ResetsFit'
  BY <1>10, UsersStay, ResetsStay DEF Rotate
<1>13. codes' = codes
  BY DEF Rotate
<1>14. QED
  BY <1>10, <1>11, <1>12, <1>13 DEF IInv, Typed, OneCode

(* One token is replaced by one of the same id and owner, no less revoked. *)
LEMMA TokenReplaced ==
  ASSUME IInv, NEW t \in tokens, NEW n \in Token, n.id = t.id,
         n.user = t.user, t.revoked => n.revoked,
         tokens' = Replace(tokens, t, n), users' = users, given' = given
  PROVE  TablesGrow /\ tokens' \subseteq Token /\ TokensFit'
<1> DEFINE F == [q \in tokens |-> IF q = t THEN n ELSE q]
<1>1. F \in [tokens -> Token]
  BY DEF IInv, Typed
<1>2. tokens' = {F[q] : q \in tokens} \union {}
  BY DEF Replace
<1>3. \A q \in tokens : /\ F[q].id = q.id /\ F[q].user = q.user
                        /\ (q.revoked => F[q].revoked)
  OBVIOUS
<1>4. /\ given'.token \in Nat /\ given'.token >= given.token
      /\ \A u \in users : \E v \in users' : v.id = u.id
  BY DEF IInv, Typed
<1> HIDE DEF F
<1>5. PICK N \in SUBSET Token : N = {}
  OBVIOUS
<1>6. QED
  BY <1>1, <1>2, <1>3, <1>4, <1>5, TokensMapped

(* A logout revokes one token.                                             *)
LEMMA LogoutInv ==
  ASSUME IInv, NEW r \in Clients, Logout(r)
  PROVE  IInv'
<1>1. PICK t \in tokens :
         tokens' = Replace(tokens, t, [t EXCEPT !.revoked = TRUE])
  BY DEF Logout
<1>2. UNCHANGED <<users, codes, resets, given, expiries>>
  BY DEF Logout
<1>3. tokens \subseteq Token
  BY DEF IInv, Typed
<1>4. PICK n \in Token : n = [t EXCEPT !.revoked = TRUE]
  BY <1>3 DEF Token
<1>5. n.id = t.id /\ n.user = t.user /\ n.revoked
  BY <1>3, <1>4 DEF Token
<1>6. TablesGrow /\ tokens' \subseteq Token /\ TokensFit'
  BY <1>1, <1>2, <1>4, <1>5, TokenReplaced
<1>7. PICK v \in Request : v = [NewRequest EXCEPT !.op = "logout"]
  BY NewRequestTyped DEF Request
<1>8. /\ v.op = "logout" /\ v.user = 0 /\ v.gone = {} /\ v.old = {}
      /\ Reply(r, v, TRUE)
  BY <1>7 DEF NewRequest, Logout
<1>9. /\ requests' \in [Clients -> Request]
      /\ \A q \in Clients : RequestFits(q)'
  BY <1>6, <1>8, ReplyKeeps
<1>10. /\ users' \subseteq User /\ UsersFit'
       /\ resets' \subseteq Reset /\ ResetsFit'
  BY <1>2, UsersStay, ResetsStay
<1>11. QED
  BY <1>2, <1>6, <1>9, <1>10 DEF IInv, Typed, OneCode

(***************************************************************************)
(* Withdrawal                                                              *)
(***************************************************************************)

(* A withdrawal begins with an active user and takes note of the tokens.   *)
LEMMA ReadForWithdrawInv ==
  ASSUME IInv, NEW r \in Clients, ReadForWithdraw(r)
  PROVE  IInv'
<1>1. UNCHANGED Tables
  BY DEF ReadForWithdraw
<1>2. PICK u \in users :
         \/ Refuse(r, u.id)
         \/ /\ u.active
            /\ Begin(r, [NewRequest EXCEPT !.op = "withdraw", !.user = u.id,
                            !.old = {t.id : t \in {x \in tokens :
                                                     x.user = u.id}}])
  BY DEF ReadForWithdraw
<1>3. u.id \in Nat /\ tokens \subseteq Token
  BY DEF IInv, Typed, User
<1>4. CASE Refuse(r, u.id)
  BY <1>1, <1>3, <1>4, RefuseFits
<1>5. CASE ~Refuse(r, u.id)
  <2>1. u.id \notin Withdrawn
    BY <1>2, <1>5, ActiveIsIn
  <2>2. PICK O \in SUBSET Nat :
           O = {t.id : t \in {x \in tokens : x.user = u.id}}
    BY <1>3 DEF Token
  <2>3. \A i \in O : i <= given.token
    BY <2>2 DEF IInv, TokensFit
  <2>4. \A t \in tokens : t.id \in O => t.user = u.id
    BY <2>2 DEF IInv, TokensFit
  <2>5. PICK v \in Request :
           v = [NewRequest EXCEPT !.op = "withdraw", !.user = u.id,
                                  !.old = O]
    BY <1>3, NewRequestTyped DEF Request
  <2>6. /\ v.op = "withdraw" /\ v.user = u.id /\ v.old = O
        /\ Begin(r, v)
    BY <1>2, <1>5, <2>2, <2>5 DEF NewRequest
  <2>7. QED
    BY <1>1, <2>1, <2>3, <2>4, <2>6, BeginFits
<1>6. QED
  BY <1>4, <1>5

(* A withdrawal revokes every token of the user, the noted ones with them. *)
LEMMA WithdrawInv ==
  ASSUME IInv, NEW r \in Clients, Withdraw(r)
  PROVE  IInv'
<1> DEFINE w == requests[r]
           G == [u \in users |->
                   IF u.id = w.user
                   THEN [u EXCEPT !.active = FALSE, !.holds = FALSE,
                                  !.password = 0]
                   ELSE u]
           F == [t \in tokens |->
                   IF t.user = w.user THEN [t EXCEPT !.revoked = TRUE]
                   ELSE t]
<1>1. /\ w \in Request /\ users \subseteq User /\ tokens \subseteq Token
      /\ given.token \in Nat
  BY DEF IInv, Typed
<1>2. /\ w.at = "read" /\ w.op = "withdraw" /\ w.user \notin w.gone
      /\ Reply(r, w, TRUE)
      /\ UNCHANGED <<codes, resets, given, expiries>>
  BY DEF IInv, RequestFits, Withdraw
<1>3. /\ \A i \in w.old : i <= given.token
      /\ \A t \in tokens : t.id \in w.old => t.user = w.user
  BY <1>2 DEF IInv, RequestFits
<1>4. G \in [users -> User] /\ F \in [tokens -> Token]
  <2>1. G \in [users -> User]
    BY <1>1 DEF User
  <2>2. F \in [tokens -> Token]
    BY <1>1 DEF Token
  <2>3. QED
    BY <2>1, <2>2
<1>5. \A u \in users : /\ G[u].id = u.id /\ (G[u].holds => u.holds)
                       /\ (G[u].active <=> G[u].holds)
  BY <1>1 DEF User, IInv, UsersFit
<1>6. \A t \in tokens : /\ F[t].id = t.id /\ F[t].user = t.user
                        /\ (t.revoked => F[t].revoked)
                        /\ (t.user = w.user => F[t].revoked)
  BY <1>1 DEF Token
<1>7. users' = {G[u] : u \in users}
  BY DEF Withdraw
<1>8. tokens' = {F[t] : t \in tokens} \union {}
  BY DEF Withdraw
<1> HIDE DEF F, G, w
<1>9. /\ users' \subseteq User /\ UsersFit'
      /\ \A u \in users : \E v \in users' : v.id = u.id
  BY <1>2, <1>4, <1>5, <1>7, UsersMapped
<1>10. TablesGrow /\ tokens' \subseteq Token /\ TokensFit'
  <2>1. PICK N \in SUBSET Token : N = {}
    OBVIOUS
  <2>2. given'.token \in Nat /\ given'.token >= given.token
    BY <1>1, <1>2
  <2>3. QED
    BY <1>4, <1>6, <1>8, <1>9, <2>1, <2>2, TokensMapped
<1>11. \A q \in tokens' : q.id \in w.old => q.revoked
  BY <1>3, <1>6, <1>8
<1>12. /\ requests' \in [Clients -> Request]
       /\ \A q \in Clients : RequestFits(q)'
  BY <1>1, <1>2, <1>3, <1>10, <1>11, ReplyKeeps
<1>13. resets' \subseteq Reset /\ ResetsFit'
  BY <1>2, <1>9, ResetsStay
<1>14. QED
  BY <1>2, <1>9, <1>10, <1>12, <1>13 DEF IInv, Typed, OneCode

(***************************************************************************)
(* Codes and sign-up                                                       *)
(***************************************************************************)

(* A step that leaves users, tokens and links alone.                       *)
LEMMA OthersStay ==
  ASSUME IInv, UNCHANGED <<users, tokens, resets>>,
         given'.user = given.user, given'.token = given.token,
         given'.reset = given.reset
  PROVE  /\ TablesGrow
         /\ users' \subseteq User /\ UsersFit'
         /\ tokens' \subseteq Token /\ TokensFit'
         /\ resets' \subseteq Reset /\ ResetsFit'
<1>1. /\ users' \subseteq User /\ UsersFit'
      /\ \A u \in users : \E v \in users' : v.id = u.id
  BY UsersStay
<1>2. QED
  BY <1>1, TokensStay, ResetsStay

(* A request for a code begins without a user.                             *)
LEMMA RequestCodeInv ==
  ASSUME IInv, NEW r \in Clients, RequestCode(r)
  PROVE  IInv'
<1>1. UNCHANGED Tables
  BY DEF RequestCode
<1>2. ASSUME NEW v \in Request, Begin(r, v), v.op = "code", v.user = 0,
             v.old = {}
      PROVE  IInv'
  <2>1. 0 \notin Withdrawn
    BY DEF IInv, Typed, Withdrawn, User
  <2>2. QED
    BY <1>1, <1>2, <2>1, BeginFits
<1>3. CASE Refuse(r, 0)
  BY <1>1, <1>3, RefuseFits
<1>4. CASE Begin(r, [NewRequest EXCEPT !.op = "code"])
  <2>1. PICK v \in Request : v = [NewRequest EXCEPT !.op = "code"]
    BY NewRequestTyped DEF Request
  <2>2. v.op = "code" /\ v.user = 0 /\ v.old = {}
    BY <2>1 DEF NewRequest
  <2>3. QED
    BY <1>2, <1>4, <2>1, <2>2
<1>5. ASSUME NEW c \in codes,
             Begin(r, [NewRequest EXCEPT !.op = "code",
                          !.row = c.attempts + 1, !.ok = c.verified])
      PROVE  IInv'
  <2>1. c.attempts + 1 \in Nat /\ c.verified \in BOOLEAN
    BY AuthAssumption DEF IInv, Typed, Code
  <2>2. PICK v \in Request :
           v = [NewRequest EXCEPT !.op = "code",
                   !.row = c.attempts + 1, !.ok = c.verified]
    BY <2>1, NewRequestTyped DEF Request
  <2>3. v.op = "code" /\ v.user = 0 /\ v.old = {}
    BY <2>2 DEF NewRequest
  <2>4. QED
    BY <1>2, <1>5, <2>2, <2>3
<1>6. QED
  BY <1>3, <1>4, <1>5 DEF RequestCode

(* A new code replaces the row that was read, or is the first.             *)
LEMMA ReplaceCodeInv ==
  ASSUME IInv, NEW r \in Clients, ReplaceCode(r)
  PROVE  IInv'
<1> DEFINE w == requests[r]
<1>1. /\ w \in Request /\ codes \subseteq Code /\ OneCode
      /\ given \in [user : Nat, token : Nat, code : Nat, reset : Nat]
      /\ given.code \in Nat /\ given.code + 1 \in Nat
  BY DEF IInv, Typed
<1>2. /\ w.op = "code" /\ w.old = {} /\ w.user \notin w.gone
      /\ UNCHANGED <<users, tokens, resets, expiries>>
  BY DEF IInv, RequestFits, ReplaceCode
<1>3. PICK b \in BOOLEAN : Reply(r, w, b)
  BY DEF ReplaceCode
<1>4. /\ given' \in [user : Nat, token : Nat, code : Nat, reset : Nat]
      /\ given'.user = given.user /\ given'.token = given.token
      /\ given'.reset = given.reset
  <2>1. given' = given \/ given' = [given EXCEPT !.code = @ + 1]
    BY DEF ReplaceCode
  <2>2. QED
    BY <1>1, <2>1
<1>5. codes' \subseteq Code /\ OneCode'
  <2>1. Fresh(given.code + 1) \in Code
    BY <1>1, AuthAssumption DEF Fresh, Code
  <2>2. CASE codes' = codes
    BY <1>1, <2>2 DEF OneCode
  <2>3. CASE codes' = {Fresh(given.code + 1)}
    BY <2>1, <2>3 DEF OneCode
  <2>4. CASE codes' = {[Fresh(given.code + 1) EXCEPT
                          !.attempts = IF w.row > 1 THEN 0 ELSE c.attempts,
                          !.verified = c.verified /\ ~w.ok] : c \in codes}
    <3> DEFINE New(c) == [Fresh(given.code + 1) EXCEPT
                            !.attempts = IF w.row > 1 THEN 0 ELSE c.attempts,
                            !.verified = c.verified /\ ~w.ok]
    <3>1. ASSUME NEW c \in codes PROVE New(c) \in Code
      <4>1. /\ c.attempts \in 0 .. MaxAttempts /\ c.verified \in BOOLEAN
            /\ 0 \in 0 .. MaxAttempts
        BY <1>1, AuthAssumption DEF Code
      <4>2. PICK n \in 0 .. MaxAttempts :
              n = IF w.row > 1 THEN 0 ELSE c.attempts
        BY <4>1
      <4>3. PICK d \in BOOLEAN : d = (c.verified /\ ~w.ok)
        OBVIOUS
      <4>4. [Fresh(given.code + 1) EXCEPT !.attempts = n, !.verified = d]
              \in Code
        BY <2>1, <4>2, <4>3 DEF Code
      <4>5. QED
        BY <4>2, <4>3, <4>4
    <3>2. codes' = {New(c) : c \in codes}
      BY <2>4
    <3> HIDE DEF New
    <3>3. QED
      BY <1>1, <3>1, <3>2 DEF OneCode
  <2>5. QED
    BY <2>2, <2>3, <2>4 DEF ReplaceCode
<1>6. /\ TablesGrow /\ users' \subseteq User /\ UsersFit'
      /\ tokens' \subseteq Token /\ TokensFit'
      /\ resets' \subseteq Reset /\ ResetsFit'
  BY <1>2, <1>4, OthersStay
<1>7. /\ requests' \in [Clients -> Request]
      /\ \A q \in Clients : RequestFits(q)'
  <2>1. w.at = "read"
    BY DEF ReplaceCode
  <2> HIDE DEF w
  <2>2. QED
    BY <1>1, <1>2, <1>3, <1>6, ReplyKeeps
<1>8. QED
  BY <1>4, <1>5, <1>6, <1>7 DEF IInv, Typed

(* A code is only compared while attempts are left.                        *)
LEMMA ReadCodeInv ==
  ASSUME IInv, NEW r \in Clients, ReadCode(r)
  PROVE  IInv'
<1>1. UNCHANGED Tables
  BY DEF ReadCode
<1>2. CASE Refuse(r, 0)
  BY <1>1, <1>2, RefuseFits
<1>3. ASSUME NEW c \in codes, ~(c.expired \/ c.attempts >= MaxAttempts),
             NEW right \in {0, 1},
             Begin(r, [NewRequest EXCEPT !.op = "verify",
                          !.row = c.attempts, !.user = right])
      PROVE  IInv'
  <2>1. c.attempts \in Nat /\ c.attempts < MaxAttempts /\ right \in Nat
    BY <1>3, AuthAssumption DEF IInv, Typed, Code
  <2>2. PICK v \in Request :
           v = [NewRequest EXCEPT !.op = "verify",
                   !.row = c.attempts, !.user = right]
    BY <2>1, NewRequestTyped DEF Request
  <2>3. /\ v.op = "verify" /\ v.row = c.attempts /\ v.old = {}
        /\ Begin(r, v)
    BY <1>3, <2>2 DEF NewRequest
  <2>4. QED
    BY <1>1, <2>1, <2>3, BeginFits
<1>4. QED
  BY <1>2, <1>3 DEF ReadCode

(* A wrong code counts one attempt more than was read.                     *)
LEMMA VerifyInv ==
  ASSUME IInv, NEW r \in Clients, Verify(r)
  PROVE  IInv'
<1> DEFINE w == requests[r]
<1>1. w \in Request /\ codes \subseteq Code /\ OneCode
  BY DEF IInv, Typed
<1>2. /\ w.row < MaxAttempts
      /\ codes' = {IF w.user = 1 THEN [c EXCEPT !.verified = TRUE]
                   ELSE [c EXCEPT !.attempts = w.row + 1] : c \in codes}
      /\ UNCHANGED <<users, tokens, resets, given, expiries>>
  BY DEF IInv, RequestFits, Verify
<1>3. w.row + 1 \in 0 .. MaxAttempts
  <2>1. w.row \in Nat
    BY <1>1 DEF Request
  <2>2. QED
    BY <1>2, <2>1, AuthAssumption
<1>4. codes' \subseteq Code
  BY <1>1, <1>2, <1>3 DEF Code
<1>5. OneCode'
  BY <1>1, <1>2 DEF OneCode
<1>6. PICK v \in Request : v = [NewRequest EXCEPT !.op = "verify"]
  BY NewRequestTyped DEF Request
<1>7. /\ v.op = "verify" /\ v.user = 0 /\ v.gone = {} /\ v.old = {}
      /\ Reply(r, v, w.user = 1 /\ codes # {})
  BY <1>6 DEF NewRequest, Verify
<1>8. /\ TablesGrow /\ users' \subseteq User /\ UsersFit'
      /\ tokens' \subseteq Token /\ TokensFit'
      /\ resets' \subseteq Reset /\ ResetsFit'
  BY <1>2, OthersStay
<1>9. PICK b \in BOOLEAN : b = (w.user = 1 /\ codes # {})
  OBVIOUS
<1>10. /\ requests' \in [Clients -> Request]
       /\ \A q \in Clients : RequestFits(q)'
  BY <1>7, <1>8, <1>9, ReplyKeeps
<1>11. QED
  BY <1>2, <1>4, <1>5, <1>8, <1>10 DEF IInv, Typed

(* A sign-up begins without a user.                                        *)
LEMMA ReadForSignUpInv ==
  ASSUME IInv, NEW r \in Clients, ReadForSignUp(r)
  PROVE  IInv'
<1>1. UNCHANGED Tables
  BY DEF ReadForSignUp
<1>2. CASE Refuse(r, 0)
  BY <1>1, <1>2, RefuseFits
<1>3. CASE Begin(r, [NewRequest EXCEPT !.op = "sign up"])
  <2>1. PICK v \in Request : v = [NewRequest EXCEPT !.op = "sign up"]
    BY NewRequestTyped DEF Request
  <2>2. v.op = "sign up" /\ v.user = 0 /\ v.old = {} /\ Begin(r, v)
    BY <1>3, <2>1 DEF NewRequest
  <2>3. 0 \notin Withdrawn
    BY DEF IInv, Typed, Withdrawn, User
  <2>4. QED
    BY <1>1, <2>2, <2>3, BeginFits
<1>4. QED
  BY <1>2, <1>3 DEF ReadForSignUp

(* A sign-up adds the one holder of the address, or finds one.             *)
LEMMA SignUpInv ==
  ASSUME IInv, NEW r \in Clients, SignUp(r)
  PROVE  IInv'
<1> DEFINE w == requests[r]
<1>1. w \in Request /\ users \subseteq User
  BY DEF IInv, Typed
<1>2. /\ w.op = "sign up" /\ w.old = {} /\ w.user \notin w.gone
      /\ UNCHANGED <<tokens, resets>>
  BY DEF IInv, RequestFits, SignUp
<1>3. CASE Holder # {}
  <2>1. Reply(r, w, FALSE) /\ UNCHANGED Tables
    BY <1>3 DEF SignUp, Tables
  <2>2. TablesGrow
    BY <2>1, NothingGrows DEF IInv
  <2>3. /\ requests' \in [Clients -> Request]
        /\ \A q \in Clients : RequestFits(q)'
    <3>1. \A i \in w.old : i <= given.token
      BY <1>2
    <3>2. QED
      BY <1>1, <1>2, <2>1, <2>2, <3>1, ReplyKeeps
  <2>4. QED
    BY <2>1, <2>3 DEF IInv, Tables, Typed, UsersFit, TokensFit, ResetsFit,
       OneCode, OwnerOf
<1>4. CASE Holder = {}
  <2>1. /\ given \in [user : Nat, token : Nat, code : Nat, reset : Nat]
        /\ given.user \in Nat /\ given.user + 1 \in Nat \ {0}
        /\ \A u \in users : u.id \in Nat /\ u.id <= given.user /\ ~u.holds
    BY <1>1, <1>4 DEF IInv, Typed, UsersFit, Holder, User
  <2>2. PICK n \in User : n = [First EXCEPT !.id = given.user + 1]
    BY <2>1 DEF First, User
  <2>3. n.id = given.user + 1 /\ n.active /\ n.holds
    BY <2>2 DEF First
  <2>4. /\ users' = users \union {n} /\ codes' = {} /\ Reply(r, w, TRUE)
        /\ given' = [given EXCEPT !.user = @ + 1]
    BY <1>4, <2>2 DEF SignUp
  <2>5. /\ given' \in [user : Nat, token : Nat, code : Nat, reset : Nat]
        /\ given'.user = given.user + 1 /\ given'.token = given.token
        /\ given'.reset = given.reset
    BY <2>1, <2>4
  <2>6. /\ users' \subseteq User
        /\ \A u \in users : \E v \in users' : v.id = u.id
    BY <1>1, <2>4
  <2>7. UsersFit'
    <3>1. \A v \in users' : v = n \/ v \in users
      BY <2>4
    <3>2. \A v \in users' : v.id <= given'.user /\ (v.active <=> v.holds)
      BY <2>1, <2>3, <2>5, <3>1 DEF IInv, UsersFit
    <3>3. ASSUME NEW u \in users', NEW v \in users',
                 u.id = v.id \/ (u.holds /\ v.holds)
          PROVE  u = v
      BY <2>1, <2>3, <3>1, <3>3 DEF IInv, UsersFit
    <3>4. QED
      BY <3>2, <3>3 DEF UsersFit
  <2>8. /\ TablesGrow /\ tokens' \subseteq Token /\ TokensFit'
        /\ resets' \subseteq Reset /\ ResetsFit'
    BY <1>2, <2>5, <2>6, TokensStay, ResetsStay
  <2>9. /\ requests' \in [Clients -> Request]
        /\ \A q \in Clients : RequestFits(q)'
    BY <1>1, <1>2, <2>4, <2>8, ReplyKeeps
  <2>10. QED
    BY <2>4, <2>5, <2>6, <2>7, <2>8, <2>9 DEF IInv, Typed, OneCode
<1>5. QED
  BY <1>3, <1>4

(***************************************************************************)
(* Password reset, deadlines                                               *)
(***************************************************************************)

(* A link is mailed to the holder of the address, or nothing is.           *)
LEMMA RequestResetInv ==
  ASSUME IInv, NEW r \in Clients, RequestReset(r)
  PROVE  IInv'
<1>1. UNCHANGED <<users, tokens, codes>>
  BY DEF RequestReset
<1>2. /\ given \in [user : Nat, token : Nat, code : Nat, reset : Nat]
      /\ given.reset \in Nat /\ given.reset + 1 \in Nat
      /\ users \subseteq User /\ resets \subseteq Reset
  BY DEF IInv, Typed
<1>3. /\ given' \in [user : Nat, token : Nat, code : Nat, reset : Nat]
      /\ given'.user = given.user /\ given'.token = given.token
      /\ resets' \subseteq Reset /\ ResetsFit'
  <2>1. CASE UNCHANGED <<given, resets>>
    BY <1>1, <1>2, <2>1 DEF IInv, ResetsFit, OwnerOf
  <2>2. ASSUME NEW u \in Holder, given' = [given EXCEPT !.reset = @ + 1],
               resets' = resets \union {[id |-> given.reset + 1,
                                         user |-> u.id, used |-> FALSE,
                                         expired |-> FALSE]}
        PROVE  /\ given' \in [user : Nat, token : Nat, code : Nat,
                              reset : Nat]
               /\ given'.user = given.user /\ given'.token = given.token
               /\ resets' \subseteq Reset /\ ResetsFit'
    <3>1. /\ given' \in [user : Nat, token : Nat, code : Nat, reset : Nat]
          /\ given'.user = given.user /\ given'.token = given.token
          /\ given'.reset = given.reset + 1
      BY <1>2, <2>2
    <3>2. u \in users /\ u.id \in Nat
      BY <1>2 DEF Holder, User
    <3>3. PICK n \in Reset :
             n = [id |-> given.reset + 1, user |-> u.id, used |-> FALSE,
                  expired |-> FALSE]
      BY <1>2, <3>2 DEF Reset
    <3>4. n.id = given.reset + 1 /\ n.user = u.id
      BY <3>3
    <3>5. resets' = resets \union {n}
      BY <2>2, <3>3
    <3>6. \A p \in resets : p.id \in Nat /\ p.id <= given.reset
      BY <1>2 DEF IInv, ResetsFit, Reset
    <3>7. \A p \in resets' : p.id <= given'.reset /\ OwnerOf(p)'
      BY <1>1, <1>2, <3>1, <3>2, <3>4, <3>5, <3>6
         DEF IInv, ResetsFit, OwnerOf
    <3>8. \A p, q \in resets' : p.id = q.id => p = q
      BY <1>2, <3>4, <3>5, <3>6 DEF IInv, ResetsFit
    <3>9. QED
      BY <1>2, <3>1, <3>5, <3>7, <3>8 DEF ResetsFit
  <2>3. QED
    BY <2>1, <2>2 DEF RequestReset
<1>4. /\ users' \subseteq User /\ UsersFit'
      /\ \A u \in users : \E v \in users' : v.id = u.id
  BY <1>1, <1>3, UsersStay
<1>5. TablesGrow /\ tokens' \subseteq Token /\ TokensFit'
  BY <1>1, <1>3, <1>4, TokensStay
<1>6. PICK v \in Request : v = [NewRequest EXCEPT !.op = "ask reset"]
  BY NewRequestTyped DEF Request
<1>7. /\ v.op = "ask reset" /\ v.user = 0 /\ v.gone = {} /\ v.old = {}
      /\ Reply(r, v, TRUE)
  BY <1>6 DEF NewRequest, RequestReset
<1>8. /\ requests' \in [Clients -> Request]
      /\ \A q \in Clients : RequestFits(q)'
  BY <1>5, <1>7, ReplyKeeps
<1>9. QED
  BY <1>1, <1>3, <1>4, <1>5, <1>8 DEF IInv, Typed, OneCode

(* A confirmation begins with an active user and takes note of the tokens. *)
LEMMA ReadResetInv ==
  ASSUME IInv, NEW r \in Clients, ReadReset(r)
  PROVE  IInv'
<1>1. UNCHANGED Tables
  BY DEF ReadReset
<1>2. PICK p \in resets, u \in users :
         IF ~p.used /\ ~p.expired /\ u.active
         THEN Begin(r, [NewRequest EXCEPT !.op = "reset", !.user = u.id,
                           !.row = p.id,
                           !.old = {t.id : t \in {x \in tokens :
                                        x.user = u.id /\ ~x.revoked}}])
         ELSE Refuse(r, u.id)
  BY DEF ReadReset
<1>3. u.id \in Nat /\ p.id \in Nat /\ tokens \subseteq Token
  BY DEF IInv, Typed, User, Reset
<1>4. CASE Refuse(r, u.id)
  BY <1>1, <1>3, <1>4, RefuseFits
<1>5. CASE ~Refuse(r, u.id)
  <2>1. u.active
    BY <1>2, <1>5
  <2>2. u.id \notin Withdrawn
    BY <2>1, ActiveIsIn
  <2>3. PICK O \in SUBSET Nat :
           O = {t.id : t \in {x \in tokens : x.user = u.id /\ ~x.revoked}}
    BY <1>3 DEF Token
  <2>4. \A i \in O : i <= given.token
    BY <2>3 DEF IInv, TokensFit
  <2>5. PICK v \in Request :
           v = [NewRequest EXCEPT !.op = "reset", !.user = u.id,
                   !.row = p.id, !.old = O]
    BY <1>3, NewRequestTyped DEF Request
  <2>6. /\ v.op = "reset" /\ v.user = u.id /\ v.old = O
        /\ Begin(r, v)
    BY <1>2, <1>5, <2>3, <2>5 DEF NewRequest
  <2>7. QED
    BY <1>1, <2>2, <2>4, <2>6, BeginFits
<1>6. QED
  BY <1>4, <1>5

(* A confirmation sets the password and revokes the tokens it noted.       *)
LEMMA ConfirmResetInv ==
  ASSUME IInv, NEW r \in Clients, ConfirmReset(r)
  PROVE  IInv'
<1> DEFINE w == requests[r]
           G == [u \in users |-> IF u.id = w.user
                                 THEN [u EXCEPT !.password = w.row + 1]
                                 ELSE u]
           H == [p \in resets |-> IF p.id = w.row
                                  THEN [p EXCEPT !.used = TRUE] ELSE p]
           F == [t \in tokens |-> IF t.id \in w.old
                                  THEN [t EXCEPT !.revoked = TRUE] ELSE t]
<1>1. /\ w \in Request /\ users \subseteq User /\ tokens \subseteq Token
      /\ resets \subseteq Reset /\ given.token \in Nat
  BY DEF IInv, Typed
<1>2. /\ w.op = "reset" /\ w.user \notin w.gone
      /\ \A i \in w.old : i <= given.token
      /\ Reply(r, w, TRUE) /\ UNCHANGED <<codes, given, expiries>>
  BY DEF IInv, RequestFits, ConfirmReset
<1>3. w.row + 1 \in Nat
  <2>1. w.row \in Nat
    BY <1>1 DEF Request
  <2>2. QED
    BY <2>1
<1>4. /\ G \in [users -> User] /\ F \in [tokens -> Token]
      /\ H \in [resets -> Reset]
  <2>1. G \in [users -> User]
    BY <1>1, <1>3 DEF User
  <2>2. F \in [tokens -> Token]
    BY <1>1 DEF Token
  <2>3. H \in [resets -> Reset]
    BY <1>1 DEF Reset
  <2>4. QED
    BY <2>1, <2>2, <2>3
<1>5. \A u \in users : /\ G[u].id = u.id /\ (G[u].holds => u.holds)
                       /\ (G[u].active <=> G[u].holds)
  BY <1>1 DEF User, IInv, UsersFit
<1>6. \A t \in tokens : /\ F[t].id = t.id /\ F[t].user = t.user
                        /\ (t.revoked => F[t].revoked)
                        /\ (t.id \in w.old => F[t].revoked)
  BY <1>1 DEF Token
<1>7. \A p \in resets : H[p].id = p.id /\ H[p].user = p.user
  BY <1>1 DEF Reset
<1>8. /\ users' = {G[u] : u \in users} /\ resets' = {H[p] : p \in resets}
      /\ tokens' = {F[t] : t \in tokens} \union {}
  BY DEF ConfirmReset
<1> HIDE DEF F, G, H, w
<1>9. /\ users' \subseteq User /\ UsersFit'
      /\ \A u \in users : \E v \in users' : v.id = u.id
  BY <1>2, <1>4, <1>5, <1>8, UsersMapped
<1>10. TablesGrow /\ tokens' \subseteq Token /\ TokensFit'
  <2>1. PICK N \in SUBSET Token : N = {}
    OBVIOUS
  <2>2. given'.token \in Nat /\ given'.token >= given.token
    BY <1>1, <1>2
  <2>3. QED
    BY <1>4, <1>6, <1>8, <1>9, <2>1, <2>2, TokensMapped
<1>11. \A q \in tokens' : q.id \in w.old => q.revoked
  BY <1>6, <1>8
<1>12. /\ requests' \in [Clients -> Request]
       /\ \A q \in Clients : RequestFits(q)'
  BY <1>1, <1>2, <1>10, <1>11, ReplyKeeps
<1>13. resets' \subseteq Reset /\ ResetsFit'
  BY <1>2, <1>4, <1>7, <1>8, <1>9, ResetsMapped
<1>14. QED
  BY <1>2, <1>9, <1>10, <1>12, <1>13 DEF IInv, Typed, OneCode

(* A deadline that passes revokes nothing and revives nothing.             *)
LEMMA ExpireInv ==
  ASSUME IInv, TokenExpires \/ CodeExpires \/ ResetExpires
  PROVE  IInv'
<1>1. /\ UNCHANGED <<users, requests, given>>
      /\ tokens \subseteq Token /\ codes \subseteq Code
      /\ resets \subseteq Reset
  BY DEF TokenExpires, CodeExpires, ResetExpires, IInv, Typed
<1>2. /\ users' \subseteq User /\ UsersFit'
      /\ \A u \in users : \E v \in users' : v.id = u.id
  BY <1>1, UsersStay
<1>3. TablesGrow /\ tokens' \subseteq Token /\ TokensFit'
  <2>1. CASE tokens' = tokens
    BY <1>1, <1>2, <2>1, TokensStay
  <2>2. ASSUME NEW t \in tokens,
               tokens' = Replace(tokens, t, [t EXCEPT !.expired = TRUE])
        PROVE  TablesGrow /\ tokens' \subseteq Token /\ TokensFit'
    <3>1. PICK n \in Token : n = [t EXCEPT !.expired = TRUE]
      BY <1>1 DEF Token
    <3>2. n.id = t.id /\ n.user = t.user /\ n.revoked = t.revoked
      BY <1>1, <3>1 DEF Token
    <3>3. QED
      BY <1>1, <2>2, <3>1, <3>2, TokenReplaced
  <2>3. QED
    BY <2>1, <2>2 DEF TokenExpires, CodeExpires, ResetExpires
<1>4. codes' \subseteq Code /\ OneCode'
  <2>1. CASE codes' = codes
    BY <1>1, <2>1 DEF IInv, OneCode
  <2>2. ASSUME NEW c \in codes,
               codes' \in {{[c EXCEPT !.expired = TRUE]},
                           {[c EXCEPT !.verified = FALSE]}}
        PROVE  codes' \subseteq Code /\ OneCode'
    <3>1. /\ [c EXCEPT !.expired = TRUE] \in Code
          /\ [c EXCEPT !.verified = FALSE] \in Code
      BY <1>1 DEF Code
    <3>2. QED
      BY <2>2, <3>1 DEF OneCode
  <2>3. QED
    BY <2>1, <2>2 DEF TokenExpires, CodeExpires, ResetExpires
<1>5. resets' \subseteq Reset /\ ResetsFit'
  <2>1. CASE resets' = resets
    BY <1>1, <1>2, <2>1, ResetsStay
  <2>2. ASSUME NEW p \in resets,
               resets' = Replace(resets, p, [p EXCEPT !.expired = TRUE])
        PROVE  resets' \subseteq Reset /\ ResetsFit'
    <3> DEFINE H == [q \in resets |->
                       IF q = p THEN [p EXCEPT !.expired = TRUE] ELSE q]
    <3>1. /\ H \in [resets -> Reset]
          /\ \A q \in resets : H[q].id = q.id /\ H[q].user = q.user
      BY <1>1 DEF Reset
    <3>2. resets' = {H[q] : q \in resets}
      BY <2>2 DEF Replace
    <3> HIDE DEF H
    <3>3. QED
      BY <1>1, <1>2, <3>1, <3>2, ResetsMapped
  <2>3. QED
    BY <2>1, <2>2 DEF TokenExpires, CodeExpires, ResetExpires
<1>6. \A q \in Clients : RequestFits(q)'
  BY <1>1, <1>3, OthersKeep DEF IInv
<1>7. QED
  BY <1>1, <1>2, <1>3, <1>4, <1>5, <1>6 DEF IInv, Typed

(***************************************************************************)
(* The theorems                                                            *)
(***************************************************************************)

(* The strengthening is an invariant of the specification.                 *)
THEOREM InductiveInvariant == AuthSpec => []IInv
<1>1. AuthInit => IInv
  <2> SUFFICES ASSUME AuthInit PROVE IInv
    OBVIOUS
  <2>1. requests \in [Clients -> Request]
    BY NewRequestTyped DEF AuthInit
  <2>2. \A r \in Clients : RequestFits(r)
    BY DEF AuthInit, NewRequest, RequestFits
  <2>3. CASE /\ users = {First}
             /\ tokens = {[id |-> 1, user |-> 1, revoked |-> FALSE,
                           expired |-> FALSE]}
             /\ codes = {}
             /\ given = [user |-> 1, token |-> 1, code |-> 0, reset |-> 0]
    <3>1. Typed
      BY <2>1, <2>3 DEF AuthInit, First, Typed, User, Token
    <3>2. UsersFit /\ TokensFit /\ ResetsFit /\ OneCode
      BY <2>3 DEF AuthInit, First, UsersFit, TokensFit, ResetsFit, OneCode,
         OwnerOf
    <3>3. QED
      BY <2>2, <3>1, <3>2 DEF IInv
  <2>4. CASE /\ users = {} /\ tokens = {}
             /\ codes = {[code |-> 1, attempts |-> 0, verified |-> FALSE,
                          expired |-> FALSE]}
             /\ given = [user |-> 0, token |-> 0, code |-> 1, reset |-> 0]
    <3>1. codes \subseteq Code
      BY <2>4, AuthAssumption DEF Code
    <3>2. Typed
      BY <2>1, <2>4, <3>1 DEF AuthInit, Typed
    <3>3. UsersFit /\ TokensFit /\ ResetsFit /\ OneCode
      BY <2>4 DEF AuthInit, UsersFit, TokensFit, ResetsFit, OneCode
    <3>4. QED
      BY <2>2, <3>2, <3>3 DEF IInv
  <2>5. QED
    BY <2>3, <2>4 DEF AuthInit
<1>2. IInv /\ [AuthNext]_authVars => IInv'
  <2> SUFFICES ASSUME IInv, [AuthNext]_authVars PROVE IInv'
    OBVIOUS
  <2>1. CASE AuthNext
    BY <2>1, ExpireInv, LoginInv, FinishLoginInv, CallInv, RefreshInv,
       RotateInv, LogoutInv, ReadForWithdrawInv, WithdrawInv,
       RequestCodeInv, ReplaceCodeInv, ReadCodeInv, VerifyInv,
       ReadForSignUpInv, SignUpInv, RequestResetInv, ReadResetInv, ConfirmResetInv DEF AuthNext
  <2>2. CASE UNCHANGED authVars
    BY <2>2 DEF authVars, IInv, Typed, UsersFit, TokensFit, ResetsFit,
       OneCode, OwnerOf, RequestFits
  <2>3. QED
    BY <2>1, <2>2
<1>3. QED
  BY <1>1, <1>2, PTL DEF AuthSpec

(* Ids are given once, an address has one account and one code, and the    *)
(* attempts stay in their range.                                           *)
THEOREM TypeCorrect == AuthSpec => []AuthTypeOK
<1>1. IInv => AuthTypeOK
  <2> SUFFICES ASSUME IInv PROVE AuthTypeOK
    OBVIOUS
  <2>1. Cardinality(codes) <= 1
    <3>1. CASE codes = {}
      BY <3>1, FS_EmptySet
    <3>2. CASE codes # {}
      <4>1. PICK c : codes = {c}
        BY <3>2 DEF IInv, OneCode
      <4>2. QED
        <5>1. Cardinality({c}) = 1
          BY FS_Singleton
        <5>2. QED
          BY <4>1, <5>1
    <3>3. QED
      BY <3>1, <3>2
  <2>2. QED
    BY <2>1 DEF IInv, Typed, UsersFit, TokensFit, ResetsFit, OwnerOf, Code,
       AuthTypeOK
<1>2. QED
  BY <1>1, InductiveInvariant, PTL

(* A request that begins after a withdrawal never succeeds for that user,  *)
(* whatever tokens a login committed after the withdrawal left behind.     *)
THEOREM WithdrawnStayOut == AuthSpec => []WithdrawnIsOut
<1>1. IInv => WithdrawnIsOut
  BY DEF IInv, RequestFits, WithdrawnIsOut
<1>2. QED
  BY <1>1, InductiveInvariant, PTL

(* A reset and a withdrawal end the sessions they found, and no later step *)
(* revives one.                                                            *)
THEOREM SessionsEnd == AuthSpec => []OldSessionsEnd
<1>1. IInv => OldSessionsEnd
  BY DEF IInv, RequestFits, OldSessionsEnd
<1>2. QED
  BY <1>1, InductiveInvariant, PTL
=============================================================================
