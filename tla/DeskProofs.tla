----------------------------- MODULE DeskProofs -----------------------------
(***************************************************************************)
(* Safety of the small components, each by an invariant of its own: the    *)
(* history of reports, the deletions at the providers, the fetch of an     *)
(* account's costs, the mails of the reports, an account's credentials,    *)
(* the review queue of anomalies and the teams with their budgets, for any *)
(* requests, objects, bills, limits, users, secrets, sessions, keys,       *)
(* accounts and days.                                                      *)
(***************************************************************************)
EXTENDS
    ReportHistory, CloudActions, CostFetch, ReportDesk, CredentialDesk,
    ReviewQueue, TeamDesk, FiniteSetTheorems, TLAPS

(***************************************************************************)
(* The history of reports                                                  *)
(***************************************************************************)

PostRecord == [at : {"new", "dated", "awaiting", "done", "failed", "dropped"},
         now : Nat, costs : Int, after : SUBSET Generations]

(* Whoever had an answer when a request began has it now.                  *)
HistoryInv ==
    /\ posts \in [Generations -> PostRecord] /\ collected \in Nat
    /\ \A h, g \in Generations : g \in posts[h].after => Reported(g)
    /\ AnsweredReportStands

LEMMA HistoryStarts == HistoryInit => HistoryInv
BY DEF HistoryInit, HistoryInv, AnsweredReportStands, PostRecord, Never

(* A request with an answer keeps its time and its figures.                *)
LEMMA BeginKeepsHistory ==
  ASSUME HistoryInv, NEW g \in Generations, BeginGeneration(g)
  PROVE  HistoryInv'
<1> DEFINE now == Cardinality({h \in Generations : posts[h].at # "new"})
           early == {h \in Generations : Reported(h)}
           p == [at |-> "dated", costs |-> Never, now |-> now,
                 after |-> early]
<1>1. posts' = [posts EXCEPT ![g] = p] /\ posts[g].at = "new"
      /\ UNCHANGED <<history, collected>>
  BY DEF BeginGeneration
<1>2. now \in Nat
  <2>1. IsFiniteSet({h \in Generations : posts[h].at # "new"})
    BY FS_Subset, HistoryAssumption DEF HistoryAssumption
  <2>2. QED
    BY <2>1, FS_CardinalityType
<1>3. p \in PostRecord /\ p.at = "dated" /\ p.after = early
  BY <1>2 DEF PostRecord, Never
<1> HIDE DEF p, now
<1>4. /\ posts' \in [Generations -> PostRecord] /\ posts'[g] = p
      /\ \A h \in Generations \ {g} : posts'[h] = posts[h]
  BY <1>1, <1>3 DEF HistoryInv
<1>5. ASSUME NEW h \in Generations, NEW f \in Generations,
             f \in posts'[h].after
      PROVE  Reported(f)'
  <2>1. Reported(f)
    BY <1>3, <1>4, <1>5 DEF HistoryInv
  <2>2. QED
    BY <1>1, <1>4, <2>1 DEF Reported
<1>6. AnsweredReportStands'
  BY <1>1, <1>3, <1>4 DEF HistoryInv, AnsweredReportStands
<1>7. QED
  BY <1>1, <1>4, <1>5, <1>6 DEF HistoryInv

(* Before its answer a request only goes on.                               *)
LEMMA GoingOnKeepsHistory ==
  ASSUME HistoryInv, NEW g \in Generations,
         TakeSnapshot(g) \/ UpsertFails(g)
  PROVE  HistoryInv'
<1>1. PICK p \in PostRecord :
        /\ p.at \in {"awaiting", "failed"} /\ p.after = posts[g].after
        /\ posts' = [posts EXCEPT ![g] = p]
  <2>1. posts[g] \in PostRecord
    BY DEF HistoryInv
  <2>2. CASE TakeSnapshot(g)
    <3>1. PICK snapshot \in {collected, Never} :
            posts' = [posts EXCEPT ![g] =
               [posts[g] EXCEPT !.at = "awaiting", !.costs = snapshot]]
      BY <2>2 DEF TakeSnapshot
    <3>2. snapshot \in Int
      BY DEF HistoryInv, Never
    <3>3. LET p == [posts[g] EXCEPT !.at = "awaiting", !.costs = snapshot]
          IN  p \in PostRecord /\ p.at = "awaiting" /\ p.after = posts[g].after
      BY <2>1, <3>2 DEF PostRecord
    <3>4. QED
      BY <3>1, <3>3
  <2>3. CASE UpsertFails(g)
    <3>1. posts' = [posts EXCEPT ![g] = [posts[g] EXCEPT !.at = "failed"]]
      BY <2>3 DEF UpsertFails
    <3>2. LET p == [posts[g] EXCEPT !.at = "failed"]
          IN  p \in PostRecord /\ p.at = "failed" /\ p.after = posts[g].after
      BY <2>1 DEF PostRecord
    <3>3. QED
      BY <3>1, <3>2
  <2>4. QED
    BY <2>2, <2>3
<1>2. /\ posts[g].at \in {"dated", "awaiting"}
      /\ UNCHANGED <<history, collected>>
  BY DEF TakeSnapshot, UpsertFails
<1>3. /\ posts' \in [Generations -> PostRecord] /\ posts'[g] = p
      /\ \A h \in Generations \ {g} : posts'[h] = posts[h]
  BY <1>1 DEF HistoryInv
<1>4. \A h, f \in Generations : f \in posts'[h].after => Reported(f)'
  BY <1>1, <1>2, <1>3 DEF HistoryInv, Reported
<1>5. AnsweredReportStands'
  BY <1>1, <1>2, <1>3 DEF HistoryInv, AnsweredReportStands
<1>6. QED
  BY <1>2, <1>3, <1>4, <1>5 DEF HistoryInv

(* The row of the request that is answered was not there before any other  *)
(* one began.                                                              *)
LEMMA UpsertKeepsHistory ==
  ASSUME HistoryInv, NEW g \in Generations, Upsert(g)
  PROVE  HistoryInv'
<1> DEFINE p == [posts[g] EXCEPT !.at = "done"]
<1>1. /\ posts' = [posts EXCEPT ![g] = p] /\ posts[g].at = "awaiting"
      /\ history' = {[generated |-> posts[g].now, costs |-> posts[g].costs]}
      /\ UNCHANGED collected
  BY DEF Upsert
<1>2. /\ p \in PostRecord /\ p.at = "done" /\ p.after = posts[g].after
      /\ p.now = posts[g].now /\ p.costs = posts[g].costs
  <2>1. posts[g] \in PostRecord
    BY DEF HistoryInv
  <2>2. QED
    BY <2>1 DEF PostRecord
<1> HIDE DEF p
<1>3. /\ posts' \in [Generations -> PostRecord] /\ posts'[g] = p
      /\ \A h \in Generations \ {g} : posts'[h] = posts[h]
  BY <1>1, <1>2 DEF HistoryInv
<1>4. \A h, f \in Generations : f \in posts'[h].after => Reported(f)'
  BY <1>1, <1>2, <1>3 DEF HistoryInv, Reported
<1>5. \A h \in Generations : g \notin posts'[h].after
  BY <1>1, <1>2, <1>3 DEF HistoryInv, Reported
<1>6. AnsweredReportStands'
  BY <1>1, <1>2, <1>3, <1>5 DEF AnsweredReportStands
<1>7. QED
  BY <1>1, <1>3, <1>4, <1>6 DEF HistoryInv

(* A deleted report was nobody's any more.                                 *)
LEMMA DeletionKeepsHistory ==
  ASSUME HistoryInv, DeleteReport
  PROVE  HistoryInv'
<1>1. \A g \in Generations :
        /\ posts'[g] \in PostRecord /\ posts'[g].after = posts[g].after
        /\ posts'[g].at # "done" /\ (Reported(g) => Reported(g)')
  <2> SUFFICES ASSUME NEW g \in Generations
               PROVE  /\ posts'[g] \in PostRecord
                      /\ posts'[g].after = posts[g].after
                      /\ posts'[g].at # "done"
                      /\ Reported(g) => Reported(g)'
    OBVIOUS
  <2>1. posts[g] \in PostRecord
    BY DEF HistoryInv
  <2>2. posts'[g] = IF posts[g].at = "done"
                    THEN [posts[g] EXCEPT !.at = "dropped"] ELSE posts[g]
    BY DEF DeleteReport
  <2>3. CASE posts[g].at = "done"
    BY <2>1, <2>2, <2>3 DEF PostRecord, Reported
  <2>4. CASE posts[g].at # "done"
    BY <2>1, <2>2, <2>4 DEF Reported
  <2>5. QED
    BY <2>3, <2>4
<1>2. posts' = [g \in Generations |-> posts'[g]] /\ UNCHANGED collected
  BY DEF DeleteReport
<1>3. QED
  BY <1>1, <1>2 DEF HistoryInv, AnsweredReportStands

LEMMA HistoryStep == HistoryInv /\ [HistoryNext]_historyVars => HistoryInv'
<1> SUFFICES ASSUME HistoryInv, [HistoryNext]_historyVars PROVE HistoryInv'
  OBVIOUS
<1>1. CASE \E g \in Generations :
             \/ BeginGeneration(g) \/ TakeSnapshot(g)
             \/ Upsert(g) \/ UpsertFails(g)
  BY <1>1, BeginKeepsHistory, GoingOnKeepsHistory, UpsertKeepsHistory
<1>2. CASE Collect
  <2>1. collected' \in Nat /\ UNCHANGED <<posts, history>>
    BY <1>2 DEF Collect, HistoryInv
  <2>2. QED
    BY <2>1 DEF HistoryInv, AnsweredReportStands, Reported
<1>3. CASE DeleteReport
  BY <1>3, DeletionKeepsHistory
<1>4. CASE UNCHANGED historyVars
  BY <1>4 DEF historyVars, HistoryInv, AnsweredReportStands, Reported
<1>5. QED
  BY <1>1, <1>2, <1>3, <1>4 DEF HistoryNext

(* However many requests write the one row of a key at once, and whatever  *)
(* is collected, refused or deleted meanwhile: who was answered finds in   *)
(* the history what one request took that was not over when his began      *)
(* (create_report_generation, reports.py 158-247).                         *)
THEOREM AnsweredReportsStand == HistorySpec => []AnsweredReportStands
<1>1. HistoryInv => AnsweredReportStands
  BY DEF HistoryInv
<1>2. QED
  BY HistoryStarts, HistoryStep, <1>1, PTL DEF HistorySpec

(***************************************************************************)
(* Deletions at the providers                                              *)
(***************************************************************************)

Parts == {CdnChain[i] : i \in 1 .. 4}

PartStates == [live : SUBSET Parts, dying : SUBSET Parts,
               failed : SUBSET Parts, ours : BOOLEAN]

Act == [at : {"new", "bucket", "emptying", "disabling", "deleting",
              "clearing", "found"} \union Ended,
        kind : {"none", "bucket", "dist", "cdn", "azure"}, force : BOOLEAN,
        left : SUBSET Objects, etag : Nat, part : 1 .. 4, waits : BOOLEAN,
        wanted : SUBSET Wanted, found : SUBSET Named]

Typed ==
    /\ act \in [Actions -> Act]
    /\ bucket \in [there : BOOLEAN, holds : SUBSET Objects]
    /\ bucket.holds # {} => bucket.there
    /\ dist \in [there : BOOLEAN, enabled : BOOLEAN, deployed : BOOLEAN,
                 etag : Nat]
    /\ parts \in PartStates
    /\ parts.live \intersect parts.dying = {}
    /\ azure \subseteq Named

(* Where a request is tells what kind it is of; only one that was told to  *)
(* empties a bucket.                                                       *)
PlaceTellsKind(r) ==
    /\ r.at = "new" => r.kind = "none"
    /\ r.at \in {"bucket", "emptying"} => r.kind = "bucket"
    /\ r.at = "emptying" => r.force
    /\ r.at \in {"disabling", "deleting"} => r.kind = "dist"
    /\ r.at = "clearing" => r.kind = "cdn"
    /\ r.at = "found" => r.kind = "azure"

(* The parts a request has sent for are gone, or cannot go; of the last of *)
(* them the operation may be under way.                                    *)
ClearsInOrder(a) ==
    act[a].kind = "cdn" /\ a \notin slow =>
        \A i \in 1 .. 4 : CdnChain[i] \in Standing =>
            /\ act[a].at = "clearing" /\ i <= act[a].part =>
                    Blocked(i) \/ (i = act[a].part /\ act[a].waits)
            /\ act[a].at = "ok" /\ parts.ours => Blocked(i)

(* As long as no operation failed on the rule, it is taken down once: all  *)
(* that goes is sent for by the one request that took it down.             *)
TookIt(a) == act[a].kind = "cdn" /\ act[a].at \in {"clearing", "ok"}

OneChain ==
    CdnChain[1] \notin parts.failed =>
        /\ \A a \in Actions : TookIt(a) => CdnChain[1] \notin parts.live
        /\ \A a, b \in Actions : TookIt(a) /\ TookIt(b) => a = b
        /\ \A i \in 2 .. 4 : CdnChain[i] \in parts.dying =>
                \E a \in Actions : TookIt(a) /\ act[a].part >= i

CloudInv ==
    /\ Typed
    /\ \A a \in Actions : PlaceTellsKind(act[a])
    /\ ContentsGoOnlyWhenForced
    /\ OneChain
    /\ \A a \in Actions : ClearsInOrder(a)

(* What is there at the providers.                                         *)
LEMMA CloudTables ==
  ASSUME CloudInv
  PROVE  /\ bucket \in [there : BOOLEAN, holds : SUBSET Objects]
         /\ bucket.holds # {} => bucket.there
         /\ dist \in [there : BOOLEAN, enabled : BOOLEAN, deployed : BOOLEAN,
                      etag : Nat]
         /\ azure \subseteq Named
BY DEF CloudInv, Typed

LEMMA NewActTyped == NewAct \in Act
BY DEF NewAct, Act

(* The four parts are four.                                                *)
LEMMA PartsDiffer ==
  /\ \A i \in 1 .. 4 : CdnChain[i] \in Parts
  /\ \A i, j \in 1 .. 4 : CdnChain[i] = CdnChain[j] => i = j
<1>1. /\ CdnChain[1] = "forwardingRule" /\ CdnChain[2] = "targetHttpProxy"
      /\ CdnChain[3] = "urlMap" /\ CdnChain[4] = "backendBucket"
  BY DEF CdnChain
<1>2. ASSUME NEW i \in 1 .. 4, NEW j \in 1 .. 4, CdnChain[i] = CdnChain[j]
      PROVE  i = j
  <2>1. i \in {1, 2, 3, 4} /\ j \in {1, 2, 3, 4}
    OBVIOUS
  <2>2. QED
    BY <1>1, <1>2, <2>1
<1>3. QED
  BY <1>2 DEF Parts

LEMMA CloudStarts == CloudInit => CloudInv
<1> SUFFICES ASSUME CloudInit PROVE CloudInv
  OBVIOUS
<1>1. NewAct \in Act
  BY NewActTyped
<1>2. Typed
  BY <1>1 DEF CloudInit, Typed, Parts, PartStates
<1>3. \A a \in Actions : act[a] = NewAct
  BY DEF CloudInit
<1>4. NewAct.at = "new" /\ NewAct.kind = "none"
  BY DEF NewAct
<1>5. parts.dying = {} /\ removed = {}
  BY DEF CloudInit
<1>6. OneChain /\ ContentsGoOnlyWhenForced
  BY <1>3, <1>4, <1>5 DEF OneChain, TookIt, ContentsGoOnlyWhenForced
<1>7. QED
  BY <1>2, <1>3, <1>4, <1>6 DEF CloudInv, PlaceTellsKind, ClearsInOrder

(* A request becomes what its step says; the others stay as they are.      *)
LEMMA OneActs ==
  ASSUME act \in [Actions -> Act], NEW a \in Actions, NEW r \in Act,
         ActionBecomes(a, r)
  PROVE  /\ act' \in [Actions -> Act] /\ act'[a] = r
         /\ \A b \in Actions \ {a} : act'[b] = act[b]
BY DEF ActionBecomes

(* Nothing that is gone comes back: a request that does not move keeps its *)
(* order as long as parts only go and waits are only cut short.            *)
LEMMA OrderStays ==
  ASSUME NEW a \in Actions, ClearsInOrder(a), act'[a] = act[a],
         slow \subseteq slow', parts'.failed = parts.failed,
         parts'.ours = parts.ours, Standing' \subseteq Standing
  PROVE  ClearsInOrder(a)'
<1>1. \A i \in 1 .. 4 : Blocked(i) => Blocked(i)'
  BY DEF Blocked
<1>2. QED
  BY <1>1 DEF ClearsInOrder

(* A step of one request that is not about a load balancer.                *)
LEMMA StepKeepsCloud ==
  ASSUME CloudInv, NEW a \in Actions, NEW r \in Act, ActionBecomes(a, r),
         PlaceTellsKind(r), r.kind = "cdn" => r.at = "PROVIDER_API_ERROR",
         act[a].at # "new" => r.kind = act[a].kind /\ r.force = act[a].force,
         act[a].kind = "cdn" => act[a].at \notin {"clearing", "ok"},
         slow \subseteq slow', parts' = parts,
         bucket' \in [there : BOOLEAN, holds : SUBSET Objects],
         bucket'.holds # {} => bucket'.there,
         dist' \in [there : BOOLEAN, enabled : BOOLEAN, deployed : BOOLEAN,
                   etag : Nat],
         azure' \subseteq Named,
         NEW gone, removed' = removed \union ({a} \X gone),
         gone \intersect Objects # {} => r.kind = "bucket" /\ r.force
  PROVE  CloudInv'
<1>1. /\ act' \in [Actions -> Act] /\ act'[a] = r
      /\ \A b \in Actions \ {a} : act'[b] = act[b]
  BY OneActs DEF CloudInv, Typed
<1>2. Typed'
  BY <1>1 DEF CloudInv, Typed
<1>3. \A b \in Actions : PlaceTellsKind(act'[b])
  BY <1>1 DEF CloudInv
<1>4. ContentsGoOnlyWhenForced'
  <2> SUFFICES ASSUME NEW b \in Actions, NEW o \in Objects,
                      <<b, o>> \in removed'
               PROVE  act'[b].kind = "bucket" /\ act'[b].force
    BY DEF ContentsGoOnlyWhenForced
  <2>1. CASE <<b, o>> \in removed
    <3>1. act[b].kind = "bucket" /\ act[b].force
      BY <2>1 DEF CloudInv, ContentsGoOnlyWhenForced
    <3>2. act[b].at # "new"
      BY <3>1 DEF CloudInv, PlaceTellsKind
    <3>3. QED
      BY <1>1, <3>1, <3>2
  <2>2. CASE <<b, o>> \in {a} \X gone
    BY <1>1, <2>2
  <2>3. QED
    BY <2>1, <2>2
<1>5. \A b \in Actions : ClearsInOrder(b)'
  <2> SUFFICES ASSUME NEW b \in Actions PROVE ClearsInOrder(b)'
    OBVIOUS
  <2>1. CASE b = a
    BY <1>1, <2>1 DEF ClearsInOrder
  <2>2. CASE b # a
    <3>1. Standing' = Standing
      BY DEF Standing
    <3>2. QED
      BY <1>1, <2>2, <3>1, OrderStays DEF CloudInv
  <2>3. QED
    BY <2>1, <2>2
<1>6. OneChain'
  <2>1. /\ ~TookIt(a) /\ ~TookIt(a)'
        /\ \A b \in Actions \ {a} : /\ TookIt(b)' <=> TookIt(b)
                                    /\ act'[b].part = act[b].part
    BY <1>1 DEF TookIt, CloudInv, PlaceTellsKind
  <2>2. QED
    BY <2>1 DEF CloudInv, OneChain
<1>7. QED
  BY <1>2, <1>3, <1>4, <1>5, <1>6 DEF CloudInv

(* A request that ends stays what it was but for its place.                *)
LEMMA EndedTyped ==
  ASSUME NEW r \in Act, NEW what \in Ended
  PROVE  LET e == [r EXCEPT !.at = what]
         IN  /\ e \in Act /\ e.at = what
             /\ e.kind = r.kind /\ e.force = r.force /\ PlaceTellsKind(e)
BY DEF Act, Ended, PlaceTellsKind

LEMMA FailureKeepsCloud ==
  ASSUME CloudInv, NEW a \in Actions, ActionFails(a)
  PROVE  CloudInv'
<1> DEFINE r == [act[a] EXCEPT !.at = "PROVIDER_API_ERROR"]
<1>1. act[a] \in Act
  BY DEF CloudInv, Typed
<1>2. /\ r \in Act /\ r.at = "PROVIDER_API_ERROR" /\ PlaceTellsKind(r)
      /\ r.kind = act[a].kind /\ r.force = act[a].force
  BY <1>1, EndedTyped DEF Ended
<1>3. /\ ActionBecomes(a, r) /\ slow \subseteq slow' /\ parts' = parts
      /\ bucket' = bucket /\ dist' = dist /\ azure' = azure
      /\ removed' = removed \union ({a} \X {})
      /\ act[a].at \notin {"clearing", "ok"}
  BY DEF ActionFails, ActionEnds, Ended
<1> HIDE DEF r
<1>4. QED
  BY <1>2, <1>3, CloudTables, StepKeepsCloud

(* Buckets.                                                                *)
LEMMA AskKeepsCloud ==
  ASSUME CloudInv, NEW a \in Actions, AskBucket(a)
  PROVE  CloudInv'
<1>1. PICK force \in BOOLEAN :
        ActionBecomes(a, [NewAct EXCEPT !.at = "bucket", !.kind = "bucket",
                                        !.force = force])
  BY DEF AskBucket
<1> DEFINE r == [NewAct EXCEPT !.at = "bucket", !.kind = "bucket",
                               !.force = force]
<1>2. NewAct \in Act
  BY NewActTyped
<1>3. r \in Act /\ PlaceTellsKind(r) /\ r.kind = "bucket"
  BY <1>2 DEF Act, PlaceTellsKind
<1>4. /\ ActionBecomes(a, r) /\ slow' = slow /\ parts' = parts
      /\ act[a].at = "new" /\ bucket' = bucket /\ dist' = dist
      /\ azure' = azure /\ removed' = removed \union ({a} \X {})
  BY <1>1 DEF AskBucket
<1> HIDE DEF r
<1>5. QED
  BY <1>3, <1>4, CloudTables, StepKeepsCloud

LEMMA RemoveKeepsCloud ==
  ASSUME CloudInv, NEW a \in Actions, RemoveBucket(a)
  PROVE  CloudInv'
<1> DEFINE holds == bucket.holds
           emptying == [act[a] EXCEPT !.at = "emptying", !.left = holds]
<1>1. act[a] \in Act /\ act[a].kind = "bucket" /\ act[a].at # "new"
  BY DEF RemoveBucket, CloudInv, Typed, PlaceTellsKind
<1>2. /\ slow' = slow /\ parts' = parts /\ dist' = dist
      /\ azure' = azure /\ removed' = removed \union ({a} \X {})
  BY DEF RemoveBucket
<1>3. ASSUME NEW what \in Ended, ActionEnds(a, what),
             bucket' \in [there : BOOLEAN, holds : SUBSET Objects],
             bucket'.holds # {} => bucket'.there
      PROVE  CloudInv'
  <2> DEFINE r == [act[a] EXCEPT !.at = what]
  <2>1. /\ r \in Act /\ PlaceTellsKind(r)
        /\ r.kind = act[a].kind /\ r.force = act[a].force
    BY <1>1, EndedTyped
  <2>2. ActionBecomes(a, r)
    BY <1>3 DEF ActionEnds
  <2> HIDE DEF r
  <2>3. QED
    BY <1>1, <1>2, <1>3, <2>1, <2>2, CloudTables, StepKeepsCloud
<1>4. ASSUME act[a].force, ActionBecomes(a, emptying), bucket' = bucket
      PROVE  CloudInv'
  <2>1. /\ emptying \in Act /\ PlaceTellsKind(emptying)
        /\ emptying.kind = act[a].kind /\ emptying.force = act[a].force
    BY <1>1, <1>4 DEF Act, PlaceTellsKind, CloudInv, Typed
  <2> HIDE DEF emptying
  <2>2. QED
    BY <1>1, <1>2, <1>4, <2>1, CloudTables, StepKeepsCloud
<1>5. CASE ~bucket.there /\ ActionEnds(a, "PROVIDER_API_ERROR")
             /\ bucket' = bucket
  BY <1>3, <1>5 DEF Ended, CloudInv, Typed
<1>6. CASE bucket.holds = {} /\ ActionEnds(a, "ok")
             /\ bucket' = [bucket EXCEPT !.there = FALSE]
  BY <1>3, <1>6 DEF Ended, CloudInv, Typed
<1>7. CASE ~act[a].force /\ ActionEnds(a, "BucketNotEmpty")
             /\ bucket' = bucket
  BY <1>3, <1>7 DEF Ended, CloudInv, Typed
<1>8. QED
  BY <1>1, <1>4, <1>5, <1>6, <1>7 DEF RemoveBucket

LEMMA EmptyKeepsCloud ==
  ASSUME CloudInv, NEW a \in Actions, EmptyBucket(a)
  PROVE  CloudInv'
<1>1. PICK o \in act[a].left :
        /\ ActionBecomes(a, [act[a] EXCEPT !.left = @ \ {o}])
        /\ \/ /\ bucket' = [bucket EXCEPT !.holds = @ \ {o}]
              /\ removed' = removed \union ({a} \X ({o} \cap bucket.holds))
           \/ UNCHANGED <<bucket, removed>>
  BY DEF EmptyBucket
<1> DEFINE r == [act[a] EXCEPT !.left = @ \ {o}]
<1>2. /\ act[a] \in Act /\ act[a].at = "emptying"
      /\ act[a].kind = "bucket" /\ act[a].force
  BY DEF EmptyBucket, CloudInv, Typed, PlaceTellsKind
<1>3. /\ r \in Act /\ PlaceTellsKind(r)
      /\ r.kind = act[a].kind /\ r.force = act[a].force
  BY <1>2 DEF Act, PlaceTellsKind
<1>4. /\ bucket' \in [there : BOOLEAN, holds : SUBSET Objects]
      /\ bucket'.holds # {} => bucket'.there
  BY <1>1 DEF CloudInv, Typed
<1>5. PICK gone : removed' = removed \union ({a} \X gone)
  <2>1. CASE removed' = removed
    <3>1. removed' = removed \union ({a} \X {})
      BY <2>1
    <3>2. QED
      BY <3>1
  <2>2. QED
    BY <1>1, <2>1
<1>6. ActionBecomes(a, r)
  BY <1>1
<1> HIDE DEF r
<1>7. /\ slow' = slow /\ parts' = parts /\ dist' = dist /\ azure' = azure
  BY DEF EmptyBucket
<1>8. QED
  BY <1>2, <1>3, <1>4, <1>5, <1>6, <1>7, CloudTables, StepKeepsCloud

LEMMA RemoveEmptiedKeepsCloud ==
  ASSUME CloudInv, NEW a \in Actions, RemoveEmptied(a)
  PROVE  CloudInv'
<1>1. PICK what \in Ended : ActionEnds(a, what)
  BY DEF RemoveEmptied, Ended
<1> DEFINE r == [act[a] EXCEPT !.at = what]
<1>2. /\ act[a] \in Act /\ act[a].at = "emptying" /\ act[a].kind = "bucket"
  BY DEF RemoveEmptied, CloudInv, Typed, PlaceTellsKind
<1>3. /\ r \in Act /\ PlaceTellsKind(r)
      /\ r.kind = act[a].kind /\ r.force = act[a].force
  BY <1>2, EndedTyped
<1>4. /\ bucket' \in [there : BOOLEAN, holds : SUBSET Objects]
      /\ bucket'.holds # {} => bucket'.there
  <2>1. \/ bucket' = bucket
        \/ bucket' = [bucket EXCEPT !.there = FALSE] /\ bucket.holds = {}
    BY DEF RemoveEmptied
  <2>2. QED
    BY <2>1, CloudTables
<1>5. /\ ActionBecomes(a, r) /\ slow' = slow /\ parts' = parts
      /\ dist' = dist /\ azure' = azure
      /\ removed' = removed \union ({a} \X {})
  BY <1>1 DEF ActionEnds, RemoveEmptied
<1> HIDE DEF r
<1>6. QED
  BY <1>2, <1>3, <1>4, <1>5, CloudTables, StepKeepsCloud
(* Distributions.                                                          *)
LEMMA GetKeepsCloud ==
  ASSUME CloudInv, NEW a \in Actions, GetDistribution(a)
  PROVE  CloudInv'
<1>1. /\ slow' = slow /\ parts' = parts /\ dist' = dist /\ bucket' = bucket
      /\ azure' = azure /\ removed' = removed \union ({a} \X {})
      /\ act[a].at = "new"
  BY DEF GetDistribution
<1>2. NewAct \in Act
  BY NewActTyped
<1>3. CASE ~dist.there
  <2> DEFINE r == [NewAct EXCEPT !.at = "PROVIDER_API_ERROR", !.kind = "dist"]
  <2>1. r \in Act /\ PlaceTellsKind(r) /\ r.kind = "dist"
    BY <1>2 DEF Act, Ended, PlaceTellsKind
  <2>2. ActionBecomes(a, r)
    BY <1>3 DEF GetDistribution
  <2> HIDE DEF r
  <2>3. QED
    BY <1>1, <2>1, <2>2, CloudTables, StepKeepsCloud
<1>4. CASE dist.there
  <2> DEFINE place == IF dist.enabled THEN "disabling" ELSE "deleting"
             r == [NewAct EXCEPT !.at = place, !.kind = "dist",
                                 !.etag = dist.etag]
  <2>1. ActionBecomes(a, r)
    BY <1>4 DEF GetDistribution
  <2>2. place \in {"disabling", "deleting"} /\ dist.etag \in Nat
    BY DEF CloudInv, Typed
  <2> HIDE DEF place
  <2>3. r \in Act /\ PlaceTellsKind(r) /\ r.kind = "dist"
    BY <1>2, <2>2 DEF Act, PlaceTellsKind
  <2> HIDE DEF r
  <2>4. QED
    BY <1>1, <2>1, <2>3, CloudTables, StepKeepsCloud
<1>5. QED
  BY <1>3, <1>4

LEMMA UpdateKeepsCloud ==
  ASSUME CloudInv, NEW a \in Actions,
         UpdateDistribution(a) \/ DeleteDistribution(a)
  PROVE  CloudInv'
<1>1. /\ act[a] \in Act /\ act[a].kind = "dist" /\ act[a].at # "new"
  BY DEF UpdateDistribution, DeleteDistribution, CloudInv, Typed,
         PlaceTellsKind
<1>2. PICK what \in Ended : ActionEnds(a, what)
  BY DEF UpdateDistribution, DeleteDistribution, Ended
<1>3. dist' \in [there : BOOLEAN, enabled : BOOLEAN, deployed : BOOLEAN,
                etag : Nat]
  <2> DEFINE D == [there : BOOLEAN, enabled : BOOLEAN, deployed : BOOLEAN,
                   etag : Nat]
  <2>1. dist \in D
    BY DEF CloudInv, Typed
  <2>2. dist.etag + 1 \in Nat
    BY <2>1
  <2>3. [dist EXCEPT !.there = FALSE] \in D
    BY <2>1, <2>2, Zenon
  <2>4. [dist EXCEPT !.enabled = FALSE, !.deployed = FALSE,
                     !.etag = @ + 1] \in D
    BY <2>1, <2>2, Zenon
  <2> HIDE DEF D
  <2>5. \/ dist' = dist \/ dist' = [dist EXCEPT !.there = FALSE]
        \/ dist' = [dist EXCEPT !.enabled = FALSE, !.deployed = FALSE,
                                !.etag = @ + 1]
    BY ZenonT(30) DEF UpdateDistribution, DeleteDistribution
  <2>6. QED
    BY <2>1, <2>3, <2>4, <2>5 DEF D
<1> DEFINE r == [act[a] EXCEPT !.at = what]
<1>4. /\ r \in Act /\ PlaceTellsKind(r)
      /\ r.kind = act[a].kind /\ r.force = act[a].force
  BY <1>1, EndedTyped
<1>5. /\ ActionBecomes(a, r) /\ slow' = slow /\ parts' = parts
      /\ bucket' = bucket /\ azure' = azure
      /\ removed' = removed \union ({a} \X {})
  BY <1>2 DEF ActionEnds, UpdateDistribution, DeleteDistribution
<1> HIDE DEF r
<1>6. QED
  BY <1>1, <1>3, <1>4, <1>5, CloudTables, StepKeepsCloud

(* Azure: what is found is deleted by its own id, and is no object of a    *)
(* bucket.                                                                 *)
LEMMA FindKeepsCloud ==
  ASSUME CloudInv, NEW a \in Actions, FindResource(a)
  PROVE  CloudInv'
<1>1. /\ slow' = slow /\ parts' = parts /\ dist' = dist /\ bucket' = bucket
      /\ azure' = azure /\ removed' = removed \union ({a} \X {})
      /\ act[a].at = "new"
  BY DEF FindResource
<1>2. PICK wish \in Wanted :
        LET request == [NewAct EXCEPT !.kind = "azure", !.wanted = {wish}]
        IN  \/ ActionBecomes(a, [request EXCEPT !.at = "PROVIDER_API_ERROR"])
            \/ \E res \in Candidates(wish) :
                ActionBecomes(a, [request EXCEPT !.at = "found",
                                                 !.found = {res}])
  BY DEF FindResource
<1> DEFINE request == [NewAct EXCEPT !.kind = "azure", !.wanted = {wish}]
<1>3. request \in Act /\ request.kind = "azure"
  BY NewActTyped DEF Act
<1> HIDE DEF request
<1>4. CASE ActionBecomes(a, [request EXCEPT !.at = "PROVIDER_API_ERROR"])
  <2> DEFINE r == [request EXCEPT !.at = "PROVIDER_API_ERROR"]
  <2>1. r \in Act /\ PlaceTellsKind(r) /\ r.kind = "azure"
    BY <1>3, EndedTyped DEF Ended
  <2>2. ActionBecomes(a, r)
    BY <1>4
  <2> HIDE DEF r
  <2>3. QED
    BY <1>1, <2>1, <2>2, CloudTables, StepKeepsCloud
<1>5. ASSUME NEW res \in Candidates(wish),
             ActionBecomes(a, [request EXCEPT !.at = "found",
                                              !.found = {res}])
      PROVE  CloudInv'
  <2> DEFINE r == [request EXCEPT !.at = "found", !.found = {res}]
  <2>1. res \in Named
    BY DEF Candidates, CloudInv, Typed
  <2>2. r \in Act /\ PlaceTellsKind(r) /\ r.kind = "azure"
    BY <1>3, <2>1 DEF Act, PlaceTellsKind
  <2>3. ActionBecomes(a, r)
    BY <1>5
  <2> HIDE DEF r
  <2>4. QED
    BY <1>1, <2>2, <2>3, CloudTables, StepKeepsCloud
<1>6. QED
  BY <1>2, <1>4, <1>5 DEF request

LEMMA DeleteFoundKeepsCloud ==
  ASSUME CloudInv, NEW a \in Actions, DeleteFound(a)
  PROVE  CloudInv'
<1> DEFINE r == [act[a] EXCEPT !.at = "ok"]
           gone == act[a].found \intersect azure
<1>1. /\ act[a] \in Act /\ act[a].kind = "azure" /\ act[a].at # "new"
  BY DEF DeleteFound, CloudInv, Typed, PlaceTellsKind
<1>2. /\ r \in Act /\ PlaceTellsKind(r)
      /\ r.kind = act[a].kind /\ r.force = act[a].force
  BY <1>1, EndedTyped DEF Ended
<1>3. gone \intersect Objects = {} /\ azure' \subseteq Named
  BY CloudConstants DEF DeleteFound, CloudInv, Typed
<1>4. /\ ActionBecomes(a, r) /\ slow' = slow /\ parts' = parts
      /\ bucket' = bucket /\ dist' = dist
      /\ removed' = removed \union ({a} \X gone)
  BY DEF DeleteFound, ActionEnds
<1> HIDE DEF r, gone
<1>5. QED
  BY <1>1, <1>2, <1>3, <1>4, CloudTables, StepKeepsCloud
(***************************************************************************)
(* The load balancer                                                       *)
(***************************************************************************)

(* A step of a deletion of the load balancer keeps the rest of the         *)
(* invariant, and the order of every other request, as long as parts only  *)
(* go.                                                                     *)
LEMMA ChainKeepsCloud ==
  ASSUME CloudInv, NEW a \in Actions, NEW r \in Act, ActionBecomes(a, r),
         r.kind = "cdn", PlaceTellsKind(r), act[a].kind = "cdn"
                                         \/ act[a].at = "new",
         slow \subseteq slow', parts' \in PartStates,
         parts'.live \intersect parts'.dying = {},
         parts'.failed = parts.failed, parts'.ours = parts.ours,
         Standing' \subseteq Standing,
         UNCHANGED <<bucket, dist, azure, removed>>,
         ClearsInOrder(a)', OneChain'
  PROVE  CloudInv'
<1>1. /\ act' \in [Actions -> Act] /\ act'[a] = r
      /\ \A b \in Actions \ {a} : act'[b] = act[b]
  BY OneActs DEF CloudInv, Typed
<1>2. Typed'
  BY <1>1 DEF CloudInv, Typed
<1>3. \A b \in Actions : PlaceTellsKind(act'[b])
  BY <1>1 DEF CloudInv
<1>4. ContentsGoOnlyWhenForced'
  <2>1. \A o \in Objects : <<a, o>> \notin removed
    BY DEF CloudInv, ContentsGoOnlyWhenForced, PlaceTellsKind
  <2>2. QED
    BY <1>1, <2>1 DEF CloudInv, ContentsGoOnlyWhenForced
<1>5. \A b \in Actions : ClearsInOrder(b)'
  BY <1>1, OrderStays DEF CloudInv
<1>6. QED
  BY <1>2, <1>3, <1>4, <1>5 DEF CloudInv

(* One part is sent for: it goes from those that live to those that go.    *)
LEMMA PartGoes ==
  ASSUME Typed, NEW i \in 1 .. 4, CdnChain[i] \in parts.live,
         parts' = Sent(i)
  PROVE  /\ parts' \in PartStates
         /\ parts'.live \intersect parts'.dying = {}
         /\ parts'.live = parts.live \ {CdnChain[i]}
         /\ parts'.dying = parts.dying \union {CdnChain[i]}
         /\ parts'.failed = parts.failed /\ parts'.ours = parts.ours
         /\ Standing' = Standing
<1> DEFINE p == CdnChain[i]
<1>1. p \in Parts /\ p \in parts.live /\ parts \in PartStates
  BY DEF Parts, Typed
<1>2. parts' = [parts EXCEPT !.live = parts.live \ {p},
                             !.dying = parts.dying \union {p}]
  BY DEF Sent
<1> HIDE DEF p
<1> DEFINE live == parts.live \ {p}
           dying == parts.dying \union {p}
<1>3. /\ parts'.live = live /\ parts'.dying = dying
      /\ parts'.failed = parts.failed /\ parts'.ours = parts.ours
      /\ parts' \in PartStates
  <2>1. live \in SUBSET Parts /\ dying \in SUBSET Parts
    BY <1>1 DEF PartStates
  <2> HIDE DEF live, dying
  <2>2. parts' = [parts EXCEPT !.live = live, !.dying = dying]
    BY <1>2 DEF live, dying
  <2>3. QED
    BY <1>1, <2>1, <2>2 DEF PartStates
<1>4. QED
  BY <1>1, <1>3, CdnChain[i] = p DEF Typed, Standing, p

LEMMA RuleKeepsCloud ==
  ASSUME CloudInv, NEW a \in Actions, DeleteRule(a)
  PROVE  CloudInv'
<1>1. /\ UNCHANGED <<bucket, dist, azure, removed>> /\ slow' = slow
      /\ act[a].at = "new"
  BY DEF DeleteRule
<1>2. CASE CdnChain[1] \notin parts.live
  <2> DEFINE r == [NewAct EXCEPT !.at = "PROVIDER_API_ERROR", !.kind = "cdn"]
  <2>1. /\ r \in Act /\ PlaceTellsKind(r) /\ r.kind = "cdn"
        /\ r.at = "PROVIDER_API_ERROR"
    BY NewActTyped DEF Act, Ended, PlaceTellsKind
  <2>2. ActionBecomes(a, r) /\ parts' = parts
    BY <1>2 DEF DeleteRule
  <2> HIDE DEF r
  <2>3. removed' = removed \union ({a} \X {})
    BY <1>1
  <2>4. QED
    BY <1>1, <2>1, <2>2, <2>3, CloudTables, StepKeepsCloud
<1>3. CASE CdnChain[1] \in parts.live
  <2> DEFINE r == [NewAct EXCEPT !.at = "clearing", !.kind = "cdn",
                                 !.waits = TRUE]
  <2>1. /\ r \in Act /\ PlaceTellsKind(r) /\ r.kind = "cdn"
        /\ r.at = "clearing" /\ r.part = 1 /\ r.waits
    BY NewActTyped DEF Act, PlaceTellsKind, NewAct
  <2>2. ActionBecomes(a, r) /\ parts' = Sent(1)
    BY <1>3 DEF DeleteRule
  <2> HIDE DEF r
  <2>3. /\ parts' \in PartStates
        /\ parts'.live \intersect parts'.dying = {}
        /\ parts'.live = parts.live \ {CdnChain[1]}
        /\ parts'.dying = parts.dying \union {CdnChain[1]}
        /\ parts'.failed = parts.failed /\ parts'.ours = parts.ours
        /\ Standing' = Standing
    BY <1>3, <2>2, PartGoes DEF CloudInv
  <2>4. act'[a] = r /\ \A b \in Actions \ {a} : act'[b] = act[b]
    BY <2>1, <2>2, OneActs DEF CloudInv, Typed
  <2>5. ClearsInOrder(a)'
    BY <2>1, <2>4 DEF ClearsInOrder
  <2>6. OneChain'
    <3> SUFFICES ASSUME CdnChain[1] \notin parts.failed PROVE OneChain'
      BY <2>3 DEF OneChain
    <3>1. \A b \in Actions : ~TookIt(b)
      BY <1>3 DEF CloudInv, OneChain
    <3>2. \A b \in Actions : TookIt(b)' => b = a
      BY <2>4, <3>1 DEF TookIt
    <3>3. \A i \in 2 .. 4 : CdnChain[i] \notin parts'.dying
      BY <2>3, <3>1, PartsDiffer DEF CloudInv, OneChain
    <3>4. QED
      BY <2>3, <3>2, <3>3 DEF OneChain
  <2>7. QED
    BY <1>1, <2>1, <2>2, <2>3, <2>5, <2>6, ChainKeepsCloud
<1>4. QED
  BY <1>2, <1>3

(* A request goes on along the chain, or is answered: it stays the one     *)
(* that took the rule down.                                                *)
LEMMA OneChainGoesOn ==
  ASSUME CloudInv, NEW a \in Actions, NEW r \in Act, ActionBecomes(a, r),
         TookIt(a), r.kind = "cdn", r.at \in {"clearing", "ok"},
         r.part >= act[a].part, parts'.failed = parts.failed,
         parts'.live \subseteq parts.live,
         \A i \in 2 .. 4 : CdnChain[i] \in parts'.dying =>
            CdnChain[i] \in parts.dying \/ i = r.part
  PROVE  OneChain'
<1>1. /\ act'[a] = r /\ \A b \in Actions \ {a} : act'[b] = act[b]
      /\ \A b \in Actions : act[b].part \in Nat
      /\ r.part \in Nat
  BY OneActs DEF CloudInv, Typed, Act
<1>2. /\ \A b \in Actions : TookIt(b)' <=> TookIt(b)
      /\ \A b \in Actions : act'[b].part >= act[b].part
  BY <1>1 DEF TookIt
<1> SUFFICES ASSUME CdnChain[1] \notin parts.failed PROVE OneChain'
  BY DEF OneChain
<1>3. /\ \A b \in Actions : TookIt(b)' => CdnChain[1] \notin parts'.live
      /\ \A b, c \in Actions : TookIt(b)' /\ TookIt(c)' => b = c
  BY <1>2 DEF CloudInv, OneChain
<1>4. ASSUME NEW i \in 2 .. 4, CdnChain[i] \in parts'.dying
      PROVE  \E b \in Actions : TookIt(b)' /\ act'[b].part >= i
  <2>1. CASE i = r.part
    BY <1>1, <1>2, <2>1
  <2>2. CASE CdnChain[i] \in parts.dying
    <3>1. PICK b \in Actions : TookIt(b) /\ act[b].part >= i
      BY <2>2 DEF CloudInv, OneChain
    <3>2. act'[b].part \in Nat /\ act'[b].part >= i
      BY <1>1, <1>2, <3>1
    <3>3. QED
      BY <1>2, <3>1, <3>2
  <2>3. QED
    BY <1>4, <2>1, <2>2
<1>5. QED
  BY <1>3, <1>4 DEF OneChain

(* The next part is sent for once the operation on the one before it has   *)
(* ended, or the wait for it was cut short.                                *)
LEMMA NextKeepsCloud ==
  ASSUME CloudInv, NEW a \in Actions, DeleteNext(a)
  PROVE  CloudInv'
<1> DEFINE i == act[a].part + 1
           accepted == CdnChain[i] \in parts.live /\ ~InUse(i)
           r == [act[a] EXCEPT !.part = i, !.waits = accepted]
<1>1. /\ act[a] \in Act /\ act[a].kind = "cdn" /\ act[a].at = "clearing"
      /\ act[a].part < Last /\ ~act[a].waits /\ SendNext(a)
  BY DEF DeleteNext, CloudInv, Typed, PlaceTellsKind
<1>2. act[a].part \in 1 .. 3 /\ i \in 2 .. 4 /\ i = act[a].part + 1
  BY <1>1 DEF Last, Act
<1>3. accepted \in BOOLEAN
  OBVIOUS
<1>4. /\ ActionBecomes(a, r) /\ slow' = slow
      /\ UNCHANGED <<bucket, dist, azure, removed>>
      /\ parts' = IF accepted THEN Sent(i) ELSE parts
  BY <1>1, Zenon DEF SendNext
<1>5. accepted <=> CdnChain[i] \in parts.live /\ ~InUse(i)
  OBVIOUS
<1> HIDE DEF i, accepted
<1>6. /\ r \in Act /\ r.kind = "cdn" /\ r.at = "clearing"
      /\ r.part = i /\ r.waits = accepted
  <2> DEFINE at == act[a]
             on == [at EXCEPT !.part = i]
  <2>1. at \in Act /\ at.kind = "cdn" /\ at.at = "clearing" /\ i \in 1 .. 4
    BY <1>1, <1>2
  <2> HIDE DEF at
  <2>2. on \in Act /\ on.kind = "cdn" /\ on.at = "clearing" /\ on.part = i
    BY <2>1 DEF Act
  <2>3. r = [on EXCEPT !.waits = accepted]
    BY DEF at
  <2> HIDE DEF on, r
  <2>4. QED
    BY <1>3, <2>2, <2>3 DEF Act
<1> HIDE DEF r
<1>7. PlaceTellsKind(r) /\ TookIt(a)
  BY <1>1, <1>6 DEF PlaceTellsKind, TookIt
<1>8. act'[a] = r
  BY <1>4, <1>6, OneActs DEF CloudInv, Typed
<1>9. a \notin slow => \A j \in 1 .. 4 :
        j < i /\ CdnChain[j] \in Standing => Blocked(j)
  BY <1>1, <1>2 DEF CloudInv, ClearsInOrder
<1>10. /\ parts' \in PartStates
       /\ parts'.live \intersect parts'.dying = {}
       /\ parts'.live \subseteq parts.live
       /\ parts'.dying \subseteq parts.dying \union {CdnChain[i]}
       /\ parts'.failed = parts.failed /\ parts'.ours = parts.ours
       /\ Standing' = Standing
  <2>1. CASE accepted
    BY <1>2, <1>4, <1>5, <2>1, PartGoes DEF CloudInv
  <2>2. CASE ~accepted
    BY <1>4, <2>2 DEF CloudInv, Typed, Standing
  <2>3. QED
    BY <2>1, <2>2
<1>11. ASSUME a \notin slow, ~accepted, CdnChain[i] \in Standing
       PROVE  Blocked(i)
  <2>1. CASE InUse(i)
    <3>1. CdnChain[i - 1] \in Standing /\ i - 1 \in 1 .. 4 /\ i - 1 < i
      BY <1>2, <2>1 DEF InUse
    <3>2. Blocked(i - 1)
      BY <1>9, <1>11, <3>1
    <3>3. QED
      BY <1>2, <3>2 DEF Blocked
  <2>2. CASE ~InUse(i)
    <3>1. CdnChain[i] \in parts.dying
      BY <1>5, <1>11, <2>2 DEF Standing
    <3>2. CdnChain[1] \in parts.failed
      <4> SUFFICES ASSUME CdnChain[1] \notin parts.failed PROVE FALSE
        OBVIOUS
      <4>1. PICK b \in Actions : TookIt(b) /\ act[b].part >= i
        BY <1>2, <3>1 DEF CloudInv, OneChain
      <4>2. b = a
        BY <1>7, <4>1 DEF CloudInv, OneChain
      <4>3. QED
        BY <1>2, <4>1, <4>2
    <3>3. QED
      BY <1>2, <3>2 DEF Blocked
  <2>3. QED
    BY <2>1, <2>2
<1>12. \A j \in 1 .. 4 : Blocked(j) => Blocked(j)'
  BY <1>10 DEF Blocked
<1>13. ClearsInOrder(a)'
  <2> SUFFICES ASSUME a \notin slow, NEW j \in 1 .. 4,
                      CdnChain[j] \in Standing, j <= i
               PROVE  Blocked(j)' \/ (j = i /\ accepted)
    BY <1>4, <1>6, <1>8, <1>10 DEF ClearsInOrder
  <2>1. CASE j < i
    BY <1>9, <1>12, <2>1
  <2>2. CASE j = i
    BY <1>11, <1>12, <2>2
  <2>3. QED
    BY <1>2, <2>1, <2>2
<1>14. OneChain'
  <2>1. r.part >= act[a].part
    BY <1>2, <1>6
  <2>2. \A j \in 2 .. 4 : CdnChain[j] \in parts'.dying =>
            CdnChain[j] \in parts.dying \/ j = r.part
    BY <1>2, <1>6, <1>10, PartsDiffer
  <2>3. QED
    BY <1>4, <1>6, <1>7, <1>10, <2>1, <2>2, OneChainGoesOn
<1>15. QED
  BY <1>1, <1>4, <1>6, <1>7, <1>10, <1>13, <1>14, ChainKeepsCloud

LEMMA GivingUpKeepsCloud ==
  ASSUME CloudInv, NEW a \in Actions, GiveUpWaiting(a)
  PROVE  CloudInv'
<1>1. /\ act[a] \in Act /\ act[a].kind = "cdn" /\ act[a].at = "clearing"
  BY DEF GiveUpWaiting, CloudInv, Typed, PlaceTellsKind
<1>2. /\ slow' = slow \union {a} /\ parts' = parts
      /\ UNCHANGED <<bucket, dist, azure, removed>>
      /\ Standing' = Standing /\ ClearsInOrder(a)'
  BY DEF GiveUpWaiting, Standing, ClearsInOrder
<1>3. PICK r \in Act : /\ ActionBecomes(a, r) /\ PlaceTellsKind(r)
                       /\ r.kind = "cdn" /\ r.at = "clearing"
                       /\ r.part >= act[a].part
  <2>1. CASE ActionBecomes(a, [act[a] EXCEPT !.waits = FALSE])
    <3> DEFINE r == [act[a] EXCEPT !.waits = FALSE]
    <3>1. /\ r \in Act /\ PlaceTellsKind(r) /\ r.kind = "cdn"
          /\ r.at = "clearing" /\ r.part = act[a].part
      BY <1>1 DEF Act, PlaceTellsKind
    <3>2. r.part >= act[a].part
      BY <1>1, <3>1 DEF Act
    <3>3. QED
      BY <2>1, <3>1, <3>2
  <2>2. CASE act[a].part < Last
             /\ ActionBecomes(a, [act[a] EXCEPT !.part = @ + 1])
    <3> DEFINE r == [act[a] EXCEPT !.part = @ + 1]
    <3>1. act[a].part + 1 \in 1 .. 4
      BY <1>1, <2>2 DEF Act, Last
    <3>2. /\ r \in Act /\ PlaceTellsKind(r) /\ r.kind = "cdn"
          /\ r.at = "clearing" /\ r.part = act[a].part + 1
      BY <1>1, <3>1 DEF Act, PlaceTellsKind
    <3>3. r.part >= act[a].part
      BY <1>1, <3>2 DEF Act
    <3>4. QED
      BY <2>2, <3>2, <3>3
  <2>3. QED
    BY <2>1, <2>2 DEF GiveUpWaiting
<1>4. TookIt(a)
  BY <1>1 DEF TookIt
<1>5. OneChain'
  BY <1>2, <1>3, <1>4, OneChainGoesOn
<1>6. QED
  BY <1>1, <1>2, <1>3, <1>5, ChainKeepsCloud DEF CloudInv, Typed

LEMMA ClearedKeepsCloud ==
  ASSUME CloudInv, NEW a \in Actions, ChainCleared(a)
  PROVE  CloudInv'
<1> DEFINE r == [act[a] EXCEPT !.at = "ok"]
<1>1. /\ act[a] \in Act /\ act[a].kind = "cdn" /\ act[a].at = "clearing"
      /\ act[a].part = Last /\ ~act[a].waits
  BY DEF ChainCleared, CloudInv, Typed, PlaceTellsKind
<1>2. /\ r \in Act /\ r.at = "ok" /\ r.kind = "cdn" /\ PlaceTellsKind(r)
  BY <1>1, EndedTyped DEF Ended
<1>3. r.part = act[a].part /\ r.part \in Nat
  BY <1>1 DEF Act
<1>4. /\ ActionBecomes(a, r) /\ slow' = slow /\ parts' = parts
      /\ UNCHANGED <<bucket, dist, azure, removed>>
      /\ Standing' = Standing
  BY DEF ChainCleared, ActionEnds, Standing
<1>5. act'[a] = r
  BY <1>2, <1>4, OneActs DEF CloudInv, Typed
<1> HIDE DEF r
<1>6. a \notin slow /\ parts.ours =>
        \A i \in 1 .. 4 : CdnChain[i] \in Standing => Blocked(i)
  BY <1>1 DEF CloudInv, ClearsInOrder, Last
<1>7. \A i \in 1 .. 4 : Blocked(i) => Blocked(i)'
  BY <1>4 DEF Blocked
<1>8. ClearsInOrder(a)'
  BY <1>2, <1>4, <1>5, <1>6, <1>7 DEF ClearsInOrder
<1>9. TookIt(a)
  BY <1>1 DEF TookIt
<1>10. OneChain'
  BY <1>2, <1>3, <1>4, <1>9, OneChainGoesOn
<1>11. QED
  BY <1>1, <1>2, <1>4, <1>8, <1>10, ChainKeepsCloud DEF CloudInv, Typed

(* An operation ends: its part is gone, or stands and counts as failed.    *)
LEMMA OperationKeepsCloud ==
  ASSUME CloudInv, OperationDone
  PROVE  CloudInv'
<1>1. PICK p \in parts.dying :
        /\ act' = [a \in Actions |->
                      [act[a] EXCEPT !.waits = @ /\ a \notin Awaited(p)]]
        /\ \/ parts' = [parts EXCEPT !.dying = @ \ {p}]
           \/ parts' = [parts EXCEPT !.dying = @ \ {p},
                                     !.live = @ \union {p},
                                     !.failed = @ \union {p}]
  BY DEF OperationDone
<1>2. /\ UNCHANGED <<bucket, dist, azure, removed, slow>>
      /\ act \in [Actions -> Act]
      /\ parts \in PartStates /\ parts.live \intersect parts.dying = {}
  BY DEF OperationDone, CloudInv, Typed
<1>3. /\ parts' \in PartStates /\ parts'.live \intersect parts'.dying = {}
      /\ parts'.ours = parts.ours /\ parts'.dying = parts.dying \ {p}
      /\ \/ parts'.live = parts.live /\ parts'.failed = parts.failed
         \/ /\ parts'.live = parts.live \union {p}
            /\ parts'.failed = parts.failed \union {p}
  BY <1>1, <1>2 DEF PartStates
<1>4. ASSUME NEW a \in Actions
      PROVE  /\ act'[a] \in Act /\ act'[a].at = act[a].at
             /\ act'[a].kind = act[a].kind /\ act'[a].force = act[a].force
             /\ act'[a].part = act[a].part
             /\ act[a].waits /\ CdnChain[act[a].part] # p => act'[a].waits
  <2> DEFINE still == act[a].waits /\ a \notin Awaited(p)
  <2>1. act'[a] = [act[a] EXCEPT !.waits = still]
    BY <1>1
  <2>2. still \in BOOLEAN /\ act[a] \in Act
    BY <1>2
  <2>3. act[a].waits /\ CdnChain[act[a].part] # p => still
    BY DEF Awaited
  <2> HIDE DEF still
  <2>4. QED
    BY <2>1, <2>2, <2>3 DEF Act
<1>5. Typed'
  <2>1. act' \in [Actions -> Act]
    BY <1>1, <1>4
  <2>2. QED
    BY <1>2, <1>3, <2>1 DEF CloudInv, Typed
<1>6. /\ \A a \in Actions : PlaceTellsKind(act'[a])
      /\ ContentsGoOnlyWhenForced'
  BY <1>2, <1>4
     DEF CloudInv, PlaceTellsKind, ContentsGoOnlyWhenForced
<1>7. OneChain'
  <2>1. \A a \in Actions : TookIt(a)' <=> TookIt(a)
    BY <1>4 DEF TookIt
  <2> SUFFICES ASSUME CdnChain[1] \notin parts'.failed PROVE OneChain'
    BY DEF OneChain
  <2>2. /\ CdnChain[1] \notin parts.failed
        /\ CdnChain[1] \in parts'.live => CdnChain[1] \in parts.live
    BY <1>3
  <2>3. QED
    BY <1>3, <1>4, <2>1, <2>2 DEF CloudInv, OneChain
<1>8. ASSUME NEW i \in 1 .. 4, CdnChain[i] \in Standing'
      PROVE  /\ CdnChain[i] \in Standing
             /\ Blocked(i) => Blocked(i)'
             /\ CdnChain[i] # p \/ Blocked(i)'
  <2>1. CdnChain[i] \in Standing /\ (Blocked(i) => Blocked(i)')
    BY <1>3, <1>8 DEF Standing, Blocked
  <2>2. CASE CdnChain[i] = p
    <3>1. p \in parts'.failed
      BY <1>2, <1>3, <1>8, <2>2 DEF Standing
    <3>2. QED
      BY <2>1, <2>2, <3>1 DEF Blocked
  <2>3. QED
    BY <2>1, <2>2
<1>9. ASSUME NEW a \in Actions PROVE ClearsInOrder(a)'
  <2>1. ClearsInOrder(a)
    BY DEF CloudInv
  <2>2. QED
    BY <1>2, <1>3, <1>4, <1>8, <2>1 DEF ClearsInOrder
<1>10. QED
  BY <1>5, <1>6, <1>7, <1>9 DEF CloudInv

(* A step of others: requests stand still.                                 *)
LEMMA WorldKeepsCloud ==
  ASSUME CloudInv, Others \/ UNCHANGED cloudVars
  PROVE  CloudInv'
<1>1. UNCHANGED <<act, parts, azure, removed, slow>>
  BY DEF Others, cloudVars
<1>2. /\ bucket' \in [there : BOOLEAN, holds : SUBSET Objects]
      /\ bucket'.holds # {} => bucket'.there
  <2>1. bucket' = bucket
        \/ /\ bucket.there
           /\ \E o \in Objects :
                bucket' = [bucket EXCEPT !.holds = @ \union {o}]
    BY DEF Others, cloudVars
  <2>2. QED
    BY <2>1 DEF CloudInv, Typed
<1>3. dist' \in [there : BOOLEAN, enabled : BOOLEAN, deployed : BOOLEAN,
                etag : Nat]
  <2> DEFINE D == [there : BOOLEAN, enabled : BOOLEAN, deployed : BOOLEAN,
                   etag : Nat]
  <2>1. dist \in D
    BY DEF CloudInv, Typed
  <2>2. dist.etag + 1 \in Nat
    BY <2>1
  <2>3. [dist EXCEPT !.deployed = ~dist.enabled] \in D
    <3>1. (~dist.enabled) \in BOOLEAN
      BY Zenon
    <3>2. QED
      BY <2>1, <3>1, Zenon
  <2>4. [dist EXCEPT !.enabled = TRUE, !.deployed = FALSE,
                     !.etag = @ + 1] \in D
    BY <2>1, <2>2, Zenon
  <2>5. \/ dist' = dist \/ dist' = [dist EXCEPT !.deployed = ~dist.enabled]
        \/ dist' = [dist EXCEPT !.enabled = TRUE, !.deployed = FALSE,
                                !.etag = @ + 1]
    BY ZenonT(30) DEF Others, cloudVars
  <2>6. QED
    BY <2>1, <2>3, <2>4, <2>5
<1>4. Typed'
  BY <1>1, <1>2, <1>3 DEF CloudInv, Typed
<1>5. \A b \in Actions : ClearsInOrder(b)'
  BY <1>1, OrderStays DEF CloudInv, Standing
<1>6. ContentsGoOnlyWhenForced' /\ OneChain'
  BY <1>1 DEF CloudInv, ContentsGoOnlyWhenForced, OneChain, TookIt
<1>7. QED
  BY <1>1, <1>4, <1>5, <1>6 DEF CloudInv

LEMMA CloudStep == CloudInv /\ [CloudNext]_cloudVars => CloudInv'
<1> SUFFICES ASSUME CloudInv, [CloudNext]_cloudVars PROVE CloudInv'
  OBVIOUS
<1>1. ASSUME NEW a \in Actions,
             ActionFails(a) \/ AskBucket(a) \/ RemoveBucket(a)
             \/ EmptyBucket(a) \/ RemoveEmptied(a)
      PROVE  CloudInv'
  BY <1>1, FailureKeepsCloud, AskKeepsCloud, RemoveKeepsCloud,
     EmptyKeepsCloud, RemoveEmptiedKeepsCloud
<1>2. ASSUME NEW a \in Actions,
             GetDistribution(a) \/ UpdateDistribution(a)
             \/ DeleteDistribution(a) \/ FindResource(a) \/ DeleteFound(a)
      PROVE  CloudInv'
  BY <1>2, GetKeepsCloud, UpdateKeepsCloud, FindKeepsCloud,
     DeleteFoundKeepsCloud
<1>3. ASSUME NEW a \in Actions,
             DeleteRule(a) \/ DeleteNext(a) \/ GiveUpWaiting(a)
             \/ ChainCleared(a)
      PROVE  CloudInv'
  BY <1>3, RuleKeepsCloud, NextKeepsCloud, GivingUpKeepsCloud,
     ClearedKeepsCloud
<1>4. CASE OperationDone
  BY <1>4, OperationKeepsCloud
<1>5. CASE Others \/ UNCHANGED cloudVars
  BY <1>5, WorldKeepsCloud
<1>6. QED
  BY <1>1, <1>2, <1>3, <1>4, <1>5 DEF CloudNext

LEMMA CloudInvariant == CloudSpec => []CloudInv
BY CloudStarts, CloudStep, PTL DEF CloudSpec

(* What requests hold of the cloud, and the cloud of its parts, is of its  *)
(* kind, whatever requests and others do at once.                          *)
THEOREM CloudTypeCorrect == CloudSpec => []CloudTypeOK
<1>1. CloudInv => CloudTypeOK
  BY DEF CloudInv, Typed, CloudTypeOK, Standing, Parts, PartStates, Act
<1>2. QED
  BY CloudInvariant, <1>1, PTL

(* Only a request told to takes anything out of a bucket, with any number  *)
(* of requests and uploads at once (aws.py 201-212, gcp.py 173-190).       *)
THEOREM ContentsStay == CloudSpec => []ContentsGoOnlyWhenForced
<1>1. CloudInv => ContentsGoOnlyWhenForced
  BY DEF CloudInv
<1>2. QED
  BY CloudInvariant, <1>1, PTL

(* Whatever requests run at once: when the deletion of a load balancer     *)
(* that Terraform made is answered and no wait was cut short, what still   *)
(* stands of it is a part whose operation ended in an error, or is behind  *)
(* one (gcp.py 194-278).                                                   *)
THEOREM ChainIsCleared == CloudSpec => []CdnCleansUp
<1>1. CloudInv => CdnCleansUp
  BY DEF CloudInv, ClearsInOrder, CdnCleansUp
<1>2. QED
  BY CloudInvariant, <1>1, PTL

(***************************************************************************)
(* The fetch of an account's costs                                         *)
(***************************************************************************)

Providers == {"aws", "azure", "gcp"}

RowsOf(provider, bill, n) ==
    UNION {Readable(provider, bill[i]) : i \in 1 .. n}

AllRows ==
    UNION {RowsOf(p, bill, Len(bill)) : p \in Providers, bill \in Served}

Fetching ==
    [provider : Providers,
     at : {"new", "turning", "asking", "sent", "measured", "done"},
     pages : Nat, attempts : Nat, calls : Nat,
     rows : SUBSET (Nat \X AllRows)]

(* The pages there are rows of: those before the one asked for, and that   *)
(* one only when a link led back to it.  The first is the only one a link  *)
(* may lead back to: it was asked for without one.                         *)
PagesRead(p, l, links) ==
    IF p = "azure"
    THEN {i \in {1} \union links : i = l => i = 1 /\ 1 \in links}
    ELSE 1 .. l - 1

OfPages(p, entry, seen) == \E i \in seen : entry[2] \in Readable(p, pages[i])

(* Whatever the first n pages hold was read.                               *)
AllOf(p, rows, n) ==
    \A i \in 1 .. n : \A row \in Readable(p, pages[i]) :
        \E entry \in rows : entry[2] = row

NotTwice(p, rows, links) ==
    p \in {"aws", "azure"} =>
        \A entry, other \in rows :
            entry[2].key = other[2].key =>
                \/ entry = other
                \/ /\ p = "azure" /\ 1 \in links /\ entry[2] = other[2]
                   /\ entry[2] \in Readable("azure", pages[1])

ReadInOrder(f, l, links) ==
    f.provider # "gcp" =>
        /\ f.provider = "azure" => 2 .. l \subseteq links
        /\ \A entry \in f.rows :
              OfPages(f.provider, entry, PagesRead(f.provider, l, links))
        /\ AllOf(f.provider, f.rows, l - 1)

WithinLimit(f) == f.provider = "azure" => f.calls <= MaxRequests

Untouched == fetch.provider = "gcp" /\ fetch.at # "done" => fetch.rows = {}

Answered ==
    fetch.at = "done" =>
        /\ result.calls = fetch.calls /\ result.rows \subseteq fetch.rows
        /\ result.error # "none" => result.partial
        /\ ~result.partial =>
            RowsTold = RowsOf(fetch.provider, pages, Len(pages))

FetchInv ==
    /\ fetch \in Fetching /\ pages \in Served
    /\ link \in 1 .. Len(pages) /\ followed \subseteq 1 .. Len(pages)
    /\ WithinLimit(fetch) /\ Untouched /\ Answered
    /\ NotTwice(fetch.provider, fetch.rows, followed)
    /\ fetch.at # "done" =>
        result = Unfinished /\ ReadInOrder(fetch, link, followed)

LEMMA BillIsASequence ==
  ASSUME NEW bill \in Served
  PROVE  /\ Len(bill) \in Nat /\ Len(bill) >= 1
         /\ DOMAIN bill = 1 .. Len(bill)
BY FetchConstants DEF FetchConstants

LEMMA RowsOfGrows ==
  ASSUME NEW p, NEW bill, NEW m \in Int, NEW n \in Int, m <= n
  PROVE  RowsOf(p, bill, m) \subseteq RowsOf(p, bill, n)
<1>1. \A i \in 1 .. m : i \in 1 .. n
  OBVIOUS
<1>2. QED
  BY <1>1 DEF RowsOf

LEMMA RowsOfNext ==
  ASSUME NEW p, NEW bill, NEW n \in Nat, n >= 1
  PROVE  RowsOf(p, bill, n)
            = RowsOf(p, bill, n - 1) \union Readable(p, bill[n])
<1>1. 1 .. n = (1 .. n - 1) \union {n}
  OBVIOUS
<1>2. QED
  BY <1>1 DEF RowsOf

LEMMA RowsOfServed ==
  ASSUME NEW p \in Providers, NEW bill \in Served, NEW n \in 1 .. Len(bill)
  PROVE  /\ RowsOf(p, bill, n) \subseteq AllRows
         /\ Readable(p, bill[n]) \subseteq AllRows
<1>1. RowsOf(p, bill, n) \subseteq RowsOf(p, bill, Len(bill))
  BY BillIsASequence, RowsOfGrows
<1>2. RowsOf(p, bill, Len(bill)) \subseteq AllRows
  BY DEF AllRows
<1>3. Readable(p, bill[n]) \subseteq RowsOf(p, bill, n)
  BY BillIsASequence, RowsOfNext
<1>4. QED
  BY <1>1, <1>2, <1>3

(* BigQuery reads all at once what it could read one by one.               *)
LEMMA AllAtOnce ==
  ASSUME NEW bill \in Served
  PROVE  Readable("gcp", UNION {bill[i] : i \in DOMAIN bill})
            = RowsOf("gcp", bill, Len(bill))
BY BillIsASequence DEF Readable, RowsOf

(* Rows of AWS and Azure have the keys of the raw rows they were made of.  *)
LEMMA KeysTellApart ==
  ASSUME NEW bill \in Served, NEW p \in {"aws", "azure"},
         NEW i \in DOMAIN bill, NEW j \in DOMAIN bill,
         NEW row \in Readable(p, bill[i]),
         NEW other \in Readable(p, bill[j]), row.key = other.key
  PROVE  i = j /\ row = other
<1>1. PICK raw \in bill[i] : row = CostRow(p, raw)
  BY DEF Readable
<1>2. PICK next \in bill[j] : other = CostRow(p, next)
  BY DEF Readable
<1>3. /\ row.key = <<raw.day, raw.service, raw.charge>>
      /\ other.key = <<next.day, next.service, next.charge>>
  BY <1>1, <1>2 DEF CostRow, Key
<1>4. i = j /\ raw = next
  BY <1>3, FetchConstants DEF FetchConstants
<1>5. QED
  BY <1>1, <1>2, <1>4

(* A page that was not read, or the first by a link back to it, is read on *)
(* top of the others.                                                      *)
LEMMA PageRead ==
  ASSUME FetchInv, fetch.at # "done", fetch.provider \in {"aws", "azure"},
         NEW answer \in Nat
  PROVE  LET f == Extended(fetch, answer,
                           Readable(fetch.provider, pages[link]))
         IN  /\ f \in Fetching /\ f.provider = fetch.provider
             /\ f.calls = fetch.calls /\ f.at = fetch.at
             /\ \A entry \in f.rows :
                  \/ OfPages(fetch.provider, entry,
                          PagesRead(fetch.provider, link, followed))
                  \/ entry[2] \in Readable(fetch.provider, pages[link])
             /\ AllOf(fetch.provider, f.rows, link)
             /\ NotTwice(fetch.provider, f.rows, followed)
<1> DEFINE p == fetch.provider
           page == Readable(p, pages[link])
           new == {answer} \X page
           f == Extended(fetch, answer, page)
<1>1. /\ fetch \in Fetching /\ pages \in Served /\ p \in Providers
      /\ link \in 1 .. Len(pages) /\ p # "gcp" /\ p \in {"aws", "azure"}
      /\ followed \subseteq 1 .. Len(pages)
      /\ Len(pages) \in Nat /\ DOMAIN pages = 1 .. Len(pages)
      /\ ReadInOrder(fetch, link, followed)
      /\ NotTwice(p, fetch.rows, followed)
  BY BillIsASequence DEF FetchInv, Providers
<1>2. page \subseteq AllRows
  BY <1>1, RowsOfServed
<1>3. \A entry \in fetch.rows : OfPages(p, entry, PagesRead(p, link, followed))
  BY <1>1 DEF ReadInOrder
<1>4. AllOf(p, fetch.rows, link - 1)
  BY <1>1 DEF ReadInOrder
<1>5. \A entry \in new : entry[2] \in page /\ entry = <<answer, entry[2]>>
  OBVIOUS
<1>6. \A row \in page : <<answer, row>> \in new /\ <<answer, row>>[2] = row
  OBVIOUS
<1>7. new \subseteq Nat \X AllRows
  BY <1>2
<1> HIDE DEF new
<1>8. /\ f \in Fetching /\ f.provider = p /\ f.rows = fetch.rows \union new
      /\ f.calls = fetch.calls /\ f.at = fetch.at
  <2>1. f = [fetch EXCEPT !.rows = @ \union new]
    BY DEF Extended, new
  <2>2. QED
    BY <1>1, <1>7, <2>1 DEF Fetching
<1> HIDE DEF f
<1>9. \A entry \in f.rows : OfPages(p, entry, PagesRead(p, link, followed))
                            \/ entry[2] \in page
  BY <1>3, <1>5, <1>8
<1>10. AllOf(p, f.rows, link)
  <2> SUFFICES ASSUME NEW i \in 1 .. link, NEW row \in Readable(p, pages[i])
               PROVE  \E entry \in f.rows : entry[2] = row
    BY DEF AllOf
  <2>1. CASE i = link
    BY <1>6, <1>8, <2>1
  <2>2. CASE i # link
    <3>1. i \in 1 .. link - 1
      BY <1>1, <2>2
    <3>2. QED
      BY <1>4, <1>8, <3>1 DEF AllOf
  <2>3. QED
    BY <2>1, <2>2
<1>11. NotTwice(p, f.rows, followed)
  <2> DEFINE Same(e, o) ==
               \/ e = o
               \/ /\ p = "azure" /\ 1 \in followed /\ e[2] = o[2]
                  /\ e[2] \in Readable("azure", pages[1])
  <2>1. ASSUME NEW e \in fetch.rows, NEW o \in new, e[2].key = o[2].key
        PROVE  /\ p = "azure" /\ 1 \in followed /\ e[2] = o[2]
               /\ e[2] \in Readable("azure", pages[1])
    <3>1. PICK i \in PagesRead(p, link, followed) :
            e[2] \in Readable(p, pages[i])
      BY <1>3 DEF OfPages
    <3>2. i \in DOMAIN pages /\ link \in DOMAIN pages
      BY <1>1, <3>1 DEF PagesRead
    <3>3. i = link /\ e[2] = o[2]
      BY <1>1, <1>5, <2>1, <3>1, <3>2, KeysTellApart
    <3>4. p = "azure" /\ i = 1 /\ 1 \in followed
      BY <1>1, <3>1, <3>3 DEF PagesRead
    <3>5. QED
      BY <3>1, <3>3, <3>4
  <2>2. ASSUME NEW e \in new, NEW o \in new, e[2].key = o[2].key
        PROVE  e = o
    <3>1. e[2] = o[2]
      BY <1>1, <1>5, <2>2, KeysTellApart
    <3>2. QED
      BY <1>5, <3>1
  <2>3. \A e, o \in fetch.rows : e[2].key = o[2].key => Same(e, o)
    BY <1>1 DEF NotTwice
  <2>4. \A e, o \in f.rows : e[2].key = o[2].key => Same(e, o)
    <3> SUFFICES ASSUME NEW e \in f.rows, NEW o \in f.rows,
                        e[2].key = o[2].key
                 PROVE  Same(e, o)
      OBVIOUS
    <3>1. CASE e \in fetch.rows /\ o \in fetch.rows
      BY <2>3, <3>1
    <3>2. CASE e \in fetch.rows /\ o \in new
      BY <2>1, <3>2
    <3>3. CASE e \in new /\ o \in fetch.rows
      <4>1. /\ p = "azure" /\ 1 \in followed /\ o[2] = e[2]
            /\ o[2] \in Readable("azure", pages[1])
        BY <2>1, <3>3
      <4>2. QED
        BY <4>1
    <3>4. CASE e \in new /\ o \in new
      BY <2>2, <3>4
    <3>5. QED
      BY <1>8, <3>1, <3>2, <3>3, <3>4
  <2>5. QED
    BY <2>4 DEF NotTwice
<1>12. QED
  BY <1>8, <1>9, <1>10, <1>11 DEF f, page

(* All that was read is all there is, once all the pages were.             *)
LEMMA AllIsRead ==
  ASSUME FetchInv, NEW p, NEW rows, link = Len(pages),
         AllOf(p, rows, link),
         \A entry \in rows : \/ OfPages(p, entry, PagesRead(p, link, followed))
                             \/ entry[2] \in Readable(p, pages[link])
  PROVE  {entry[2] : entry \in rows} = RowsOf(p, pages, Len(pages))
<1>1. link \in 1 .. Len(pages) /\ followed \subseteq 1 .. Len(pages)
      /\ Len(pages) \in Nat
  BY BillIsASequence DEF FetchInv
<1>2. ASSUME NEW entry \in rows
      PROVE  \E i \in 1 .. Len(pages) : entry[2] \in Readable(p, pages[i])
  <2>1. CASE OfPages(p, entry, PagesRead(p, link, followed))
    <3>1. PagesRead(p, link, followed) \subseteq 1 .. Len(pages)
      <4>1. CASE p = "azure"
        <5>1. PagesRead(p, link, followed) \subseteq {1} \union followed
          BY <4>1 DEF PagesRead
        <5>2. 1 \in 1 .. Len(pages)
          BY <1>1
        <5>3. QED
          BY <1>1, <5>1, <5>2
      <4>2. CASE p # "azure"
        BY <1>1, <4>2 DEF PagesRead
      <4>3. QED
        BY <4>1, <4>2
    <3>2. QED
      BY <2>1, <3>1 DEF OfPages
  <2>2. QED
    BY <1>1, <2>1
<1>3. QED
  BY <1>2 DEF RowsOf, AllOf

(* How a fetch may end or go on.                                           *)
LEMMA FailureKeepsFetch ==
  ASSUME FetchInv, NEW f \in Fetching, f.provider = fetch.provider,
         WithinLimit(f), NotTwice(f.provider, f.rows, followed),
         NEW error, Fail(f, error), UNCHANGED <<link, followed, pages>>
  PROVE  FetchInv'
<1>1. /\ fetch' \in Fetching /\ fetch'.at = "done"
      /\ fetch'.provider = f.provider /\ fetch'.calls = f.calls
      /\ fetch'.rows = f.rows
  BY DEF Fail, Fetching
<1>2. /\ result'.partial = TRUE /\ result'.calls = f.calls
      /\ result'.rows \subseteq f.rows
  BY DEF Fail
<1>3. Answered'
  BY <1>1, <1>2 DEF Answered
<1>4. WithinLimit(fetch)' /\ Untouched'
  BY <1>1 DEF WithinLimit, Untouched
<1>5. NotTwice(fetch.provider, fetch.rows, followed)'
  BY <1>1 DEF NotTwice
<1>6. QED
  BY <1>1, <1>3, <1>4, <1>5 DEF FetchInv

LEMMA CompletionKeepsFetch ==
  ASSUME FetchInv, NEW f \in Fetching, f.provider = fetch.provider,
         WithinLimit(f), NotTwice(f.provider, f.rows, followed), Complete(f),
         {entry[2] : entry \in f.rows}
            = RowsOf(fetch.provider, pages, Len(pages)),
         UNCHANGED <<link, followed, pages>>
  PROVE  FetchInv'
<1>1. /\ fetch' \in Fetching /\ fetch'.at = "done"
      /\ fetch'.provider = f.provider /\ fetch'.calls = f.calls
      /\ fetch'.rows = f.rows
  BY DEF Complete, Fetching
<1>2. /\ result'.error = "none" /\ result'.calls = f.calls
      /\ result'.rows = f.rows
  BY DEF Complete
<1>3. RowsTold' = RowsOf(fetch.provider, pages, Len(pages))
  BY <1>2 DEF RowsTold
<1>4. RowsTold' = RowsOf(fetch.provider, pages, Len(pages))'
  BY <1>1, <1>3 DEF RowsOf
<1>5. Answered'
  BY <1>1, <1>2, <1>4 DEF Answered
<1>6. WithinLimit(fetch)' /\ Untouched'
  BY <1>1 DEF WithinLimit, Untouched
<1>7. NotTwice(fetch.provider, fetch.rows, followed)'
  BY <1>1 DEF NotTwice
<1>8. QED
  BY <1>1, <1>5, <1>6, <1>7 DEF FetchInv

LEMMA GoingOnKeepsFetch ==
  ASSUME FetchInv, NEW f \in Fetching, f.provider = fetch.provider,
         f.at # "done", fetch.at # "done", fetch' = f, result' = result,
         WithinLimit(f), f.provider = "gcp" => f.rows = {},
         link' \in 1 .. Len(pages), followed' \subseteq 1 .. Len(pages),
         pages' = pages, ReadInOrder(f, link', followed'),
         NotTwice(f.provider, f.rows, followed')
  PROVE  FetchInv'
<1>1. WithinLimit(fetch)' /\ Untouched' /\ Answered'
  BY DEF WithinLimit, Untouched, Answered
<1>2. ReadInOrder(fetch, link, followed)'
  BY DEF ReadInOrder, OfPages, AllOf
<1>3. NotTwice(fetch.provider, fetch.rows, followed)'
  BY DEF NotTwice
<1>4. QED
  BY <1>1, <1>2, <1>3 DEF FetchInv

LEMMA FetchStarts == FetchInit => FetchInv
<1> SUFFICES ASSUME FetchInit PROVE FetchInv
  OBVIOUS
<1>1. /\ fetch \in Fetching /\ fetch.at = "new" /\ fetch.rows = {}
      /\ fetch.calls = 0
  BY DEF FetchInit, Fetching, Providers
<1>2. pages \in Served /\ link = 1 /\ followed = {} /\ result = Unfinished
  BY DEF FetchInit
<1>3. link \in 1 .. Len(pages)
  BY <1>2, BillIsASequence
<1>4. 1 .. link - 1 = {} /\ 2 .. link = {}
  BY <1>2
<1>5. ReadInOrder(fetch, link, followed)
  BY <1>1, <1>4 DEF ReadInOrder, AllOf
<1>6. WithinLimit(fetch) /\ Untouched /\ Answered
      /\ NotTwice(fetch.provider, fetch.rows, followed)
  BY <1>1, FetchConstants
     DEF WithinLimit, Untouched, Answered, NotTwice, FetchConstants
<1>7. QED
  BY <1>1, <1>2, <1>3, <1>5, <1>6 DEF FetchInv

(* Turning to a page, asking for it and waiting reads nothing.             *)
LEMMA SameRowsGoOn ==
  ASSUME FetchInv, NEW f \in Fetching, f.provider = fetch.provider,
         f.at # "done", fetch.at # "done", fetch' = f, result' = result,
         WithinLimit(f), f.rows = fetch.rows,
         UNCHANGED <<link, followed, pages>>
  PROVE  FetchInv'
<1>1. ReadInOrder(f, link', followed')
  BY DEF FetchInv, ReadInOrder
<1>2. f.provider = "gcp" => f.rows = {}
  BY DEF FetchInv, Untouched
<1>3. NotTwice(f.provider, f.rows, followed')
  BY DEF FetchInv
<1>4. QED
  BY <1>1, <1>2, <1>3, GoingOnKeepsFetch DEF FetchInv

LEMMA PlacesTyped ==
  ASSUME NEW f \in Fetching,
         NEW at \in {"new", "turning", "asking", "sent", "measured", "done"}
  PROVE  LET g == [f EXCEPT !.at = at]
             h == [f EXCEPT !.at = at, !.calls = @ + 1]
         IN  /\ g \in Fetching /\ h \in Fetching
             /\ g.at = at /\ h.at = at
             /\ g.provider = f.provider /\ h.provider = f.provider
             /\ g.rows = f.rows /\ h.rows = f.rows
             /\ g.calls = f.calls /\ h.calls = f.calls + 1
<1> DEFINE g == [f EXCEPT !.at = at]
           h == [f EXCEPT !.at = at, !.calls = @ + 1]
<1>1. /\ g \in Fetching /\ g.at = at /\ g.provider = f.provider
      /\ g.rows = f.rows /\ g.calls = f.calls
  BY DEF Fetching
<1>2. f.calls + 1 \in Nat
  BY DEF Fetching
<1>3. h \in Fetching
  BY <1>2 DEF Fetching
<1>4. /\ h.at = at /\ h.provider = f.provider
      /\ h.rows = f.rows /\ h.calls = f.calls + 1
  BY <1>2 DEF Fetching
<1>5. QED
  BY <1>1, <1>3, <1>4
(* Azure: the transport is the one place that sends.                       *)
LEMMA TransportKeepsFetch ==
  ASSUME FetchInv, NEW f \in Fetching, f.provider = "azure",
         fetch.provider = "azure", fetch.at # "done", WithinLimit(f),
         f.rows = fetch.rows, Transport(f),
         UNCHANGED <<link, followed, pages>>
  PROVE  FetchInv'
<1>1. CASE f.calls >= MaxRequests
  BY <1>1, FailureKeepsFetch DEF Transport, FetchInv
<1>2. CASE ~(f.calls >= MaxRequests)
  <2> DEFINE g == [f EXCEPT !.at = "sent", !.calls = @ + 1]
  <2>1. /\ g \in Fetching /\ g.at = "sent" /\ g.provider = "azure"
        /\ g.rows = fetch.rows /\ g.calls = f.calls + 1
    BY PlacesTyped
  <2>2. f.calls + 1 <= MaxRequests
    BY <1>2, FetchConstants DEF FetchConstants, Fetching
  <2>3. fetch' = g /\ result' = result
    BY <1>2 DEF Transport
  <2> HIDE DEF g
  <2>4. WithinLimit(g)
    BY <2>1, <2>2 DEF WithinLimit
  <2>5. QED
    BY <2>1, <2>3, <2>4, SameRowsGoOn
<1>3. QED
  BY <1>1, <1>2

LEMMA AzureAsks ==
  ASSUME FetchInv, pages' = pages, AskAzure \/ Challenged
  PROVE  FetchInv'
<1>1. /\ fetch.provider = "azure" /\ fetch.at # "done"
      /\ fetch \in Fetching /\ WithinLimit(fetch)
      /\ UNCHANGED <<link, followed, pages>>
  BY DEF FetchInv, AskAzure, Challenged
<1>2. CASE Challenged
  BY <1>1, <1>2, TransportKeepsFetch DEF Challenged
<1>3. CASE AskAzure
  <2> DEFINE f == [fetch EXCEPT !.attempts = @ + 1]
  <2>1. /\ f \in Fetching /\ f.provider = "azure" /\ f.rows = fetch.rows
        /\ f.calls = fetch.calls
    BY <1>1 DEF Fetching
  <2>2. Fail(f, "PROVIDER_API_ERROR") \/ Transport(f)
    BY <1>3 DEF AskAzure
  <2> HIDE DEF f
  <2>3. WithinLimit(f)
    BY <1>1, <2>1 DEF WithinLimit
  <2>4. NotTwice(f.provider, f.rows, followed)
    BY <1>1, <2>1 DEF FetchInv
  <2>5. QED
    BY <1>1, <2>1, <2>2, <2>3, <2>4, FailureKeepsFetch, TransportKeepsFetch
<1>4. QED
  BY <1>2, <1>3

LEMMA AzureTurns ==
  ASSUME FetchInv, pages' = pages, NextPage
  PROVE  FetchInv'
<1> DEFINE f == [fetch EXCEPT !.pages = @ + 1, !.attempts = 0]
           g == [f EXCEPT !.at = "asking"]
<1>1. /\ fetch.provider = "azure" /\ fetch.at # "done"
      /\ fetch \in Fetching /\ WithinLimit(fetch)
      /\ UNCHANGED <<link, followed, pages>>
  BY DEF FetchInv, NextPage
<1>2. /\ f \in Fetching /\ f.provider = "azure" /\ f.rows = fetch.rows
      /\ f.calls = fetch.calls
  <2>1. fetch.pages + 1 \in Nat
    BY <1>1 DEF Fetching
  <2>2. f \in Fetching
    BY <1>1, <2>1 DEF Fetching
  <2>3. QED
    BY <1>1, <2>2 DEF Fetching
<1>3. Fail(f, "PROVIDER_API_ERROR") \/ (fetch' = g /\ result' = result)
  BY DEF NextPage
<1> HIDE DEF f
<1>4. /\ g \in Fetching /\ g.at = "asking" /\ g.provider = "azure"
      /\ g.rows = fetch.rows /\ g.calls = fetch.calls
  BY <1>2, PlacesTyped
<1> HIDE DEF g
<1>5. WithinLimit(f) /\ WithinLimit(g)
  BY <1>1, <1>2, <1>4 DEF WithinLimit
<1>6. NotTwice(f.provider, f.rows, followed)
  BY <1>1, <1>2 DEF FetchInv
<1>7. QED
  BY <1>1, <1>2, <1>3, <1>4, <1>5, <1>6, FailureKeepsFetch, SameRowsGoOn

LEMMA AzureWaits ==
  ASSUME FetchInv, pages' = pages, RateLimited
  PROVE  FetchInv'
<1> DEFINE g == [fetch EXCEPT !.at = "asking"]
<1>1. /\ fetch.provider = "azure" /\ fetch.at # "done"
      /\ fetch \in Fetching /\ WithinLimit(fetch)
      /\ UNCHANGED <<link, followed, pages>>
  BY DEF FetchInv, RateLimited
<1>2. \/ Fail(fetch, "PROVIDER_RATE_LIMITED")
      \/ Fail(fetch, "PROVIDER_API_ERROR")
      \/ fetch' = g /\ result' = result
  BY DEF RateLimited
<1>3. /\ g \in Fetching /\ g.at = "asking" /\ g.provider = "azure"
      /\ g.rows = fetch.rows /\ g.calls = fetch.calls
  BY <1>1, PlacesTyped
<1> HIDE DEF g
<1>4. WithinLimit(g)
  BY <1>1, <1>3 DEF WithinLimit
<1>5. NotTwice(fetch.provider, fetch.rows, followed)
  BY DEF FetchInv
<1>6. QED
  BY <1>1, <1>2, <1>3, <1>4, <1>5, FailureKeepsFetch, SameRowsGoOn

(* A link that was not followed leads to the next page, or back to the     *)
(* first.                                                                  *)
LEMMA LinkedInOrder ==
  ASSUME FetchInv, fetch.provider = "azure", fetch.at # "done",
         link # Len(pages), NEW next \in 1 .. link + 1, next \notin followed,
         NEW f \in Fetching, f.provider = "azure",
         \A entry \in f.rows : \/ OfPages("azure", entry,
                                       PagesRead("azure", link, followed))
                               \/ entry[2] \in Readable("azure", pages[link]),
         AllOf("azure", f.rows, link)
  PROVE  /\ next \in 1 .. Len(pages)
         /\ ReadInOrder(f, next, followed \union {next})
<1>1. /\ link \in 1 .. Len(pages) /\ Len(pages) \in Nat
      /\ 2 .. link \subseteq followed
  BY BillIsASequence DEF FetchInv, ReadInOrder
<1>2. next = 1 \/ next = link + 1
  BY <1>1
<1>3. 2 .. next \subseteq followed \union {next}
  BY <1>1, <1>2
<1>4. ASSUME NEW entry \in f.rows
      PROVE  OfPages("azure", entry,
                     PagesRead("azure", next, followed \union {next}))
  <2>1. PagesRead("azure", link, followed) \union {link}
          \subseteq PagesRead("azure", next, followed \union {next})
    <3>1. link \in {1} \union followed
      BY <1>1
    <3>2. {1} \union followed
            \subseteq PagesRead("azure", next, followed \union {next})
      BY <1>1 DEF PagesRead
    <3>3. PagesRead("azure", link, followed) \subseteq {1} \union followed
      BY DEF PagesRead
    <3>4. QED
      BY <3>1, <3>2, <3>3
  <2>2. \E i \in PagesRead("azure", link, followed) \union {link} :
          entry[2] \in Readable("azure", pages[i])
    BY DEF OfPages
  <2>3. QED
    BY <2>1, <2>2 DEF OfPages
<1>5. AllOf("azure", f.rows, next - 1)
  <2>1. next - 1 <= link /\ next - 1 \in Int /\ link \in Int
    BY <1>1
  <2>2. \A i \in 1 .. next - 1 : i \in 1 .. link
    BY <2>1
  <2>3. QED
    BY <2>2 DEF AllOf
<1>6. ReadInOrder(f, next, followed \union {next})
  BY <1>3, <1>4, <1>5, Zenon DEF ReadInOrder
<1>7. QED
  BY <1>1, <1>2, <1>6

LEMMA AzureReceives ==
  ASSUME FetchInv, pages' = pages, PageReceived
  PROVE  FetchInv'
<1> DEFINE f == Extended(fetch, fetch.pages, Readable("azure", pages[link]))
           g == [f EXCEPT !.at = "turning"]
<1>1. /\ fetch.provider = "azure" /\ fetch.at = "sent"
      /\ fetch \in Fetching /\ WithinLimit(fetch) /\ pages \in Served
      /\ link \in 1 .. Len(pages) /\ followed \subseteq 1 .. Len(pages)
      /\ Len(pages) \in Nat /\ fetch.pages \in Nat
      /\ NotTwice(fetch.provider, fetch.rows, followed)
  BY BillIsASequence DEF FetchInv, PageReceived, Fetching
<1>2. \/ Fail(fetch, "PROVIDER_API_ERROR") /\ UNCHANGED <<link, followed>>
      \/ link = Len(pages) /\ Complete(f) /\ UNCHANGED <<link, followed>>
      \/ link # Len(pages) /\ \E next \in 1 .. link + 1 :
            \/ Fail(f, "PROVIDER_API_ERROR") /\ UNCHANGED <<link, followed>>
            \/ /\ next \notin followed
               /\ followed' = followed \union {next} /\ link' = next
               /\ fetch' = g /\ result' = result
  BY DEF PageReceived
<1>3. /\ f \in Fetching /\ f.provider = "azure" /\ f.calls = fetch.calls
      /\ \A entry \in f.rows :
            \/ OfPages("azure", entry, PagesRead("azure", link, followed))
            \/ entry[2] \in Readable("azure", pages[link])
      /\ AllOf("azure", f.rows, link)
      /\ NotTwice("azure", f.rows, followed)
  BY <1>1, PageRead
<1> HIDE DEF f
<1>4. /\ g \in Fetching /\ g.at = "turning" /\ g.provider = "azure"
      /\ g.rows = f.rows /\ g.calls = fetch.calls
  BY <1>3, PlacesTyped
<1> HIDE DEF g
<1>5. WithinLimit(f) /\ WithinLimit(g)
  BY <1>1, <1>3, <1>4 DEF WithinLimit
<1>6. CASE Fail(fetch, "PROVIDER_API_ERROR") /\ UNCHANGED <<link, followed>>
  BY <1>1, <1>6, FailureKeepsFetch
<1>7. CASE link = Len(pages) /\ Complete(f) /\ UNCHANGED <<link, followed>>
  <2>1. {entry[2] : entry \in f.rows} = RowsOf("azure", pages, Len(pages))
    BY <1>3, <1>7, AllIsRead
  <2>2. QED
    BY <1>1, <1>3, <1>5, <1>7, <2>1, CompletionKeepsFetch
<1>8. CASE Fail(f, "PROVIDER_API_ERROR") /\ UNCHANGED <<link, followed>>
  BY <1>1, <1>3, <1>5, <1>8, FailureKeepsFetch
<1>9. ASSUME link # Len(pages), NEW next \in 1 .. link + 1,
             next \notin followed,
             followed' = followed \union {next}, link' = next,
             fetch' = g, result' = result
      PROVE  FetchInv'
  <2>1. /\ next \in 1 .. Len(pages)
        /\ ReadInOrder(f, next, followed \union {next})
    BY <1>1, <1>3, <1>9, LinkedInOrder
  <2>2. ReadInOrder(g, link', followed')
    BY <1>3, <1>4, <1>9, <2>1 DEF ReadInOrder
  <2>3. NotTwice(g.provider, g.rows, followed')
    BY <1>3, <1>4, <1>9 DEF NotTwice
  <2>4. followed' \subseteq 1 .. Len(pages)
    BY <1>1, <1>9, <2>1
  <2>5. QED
    BY <1>1, <1>4, <1>5, <1>9, <2>1, <2>2, <2>3, <2>4, GoingOnKeepsFetch
<1>10. QED
  BY <1>2, <1>6, <1>7, <1>8, <1>9

LEMMA AzureHasNoMore ==
  ASSUME FetchInv, pages' = pages, NoContent
  PROVE  FetchInv'
<1>1. /\ fetch.provider = "azure" /\ fetch.at = "sent"
      /\ fetch \in Fetching /\ WithinLimit(fetch) /\ pages \in Served
      /\ link = Len(pages) /\ pages[link] = {} /\ Complete(fetch)
      /\ NotTwice(fetch.provider, fetch.rows, followed)
      /\ ReadInOrder(fetch, link, followed)
      /\ UNCHANGED <<link, followed, pages>>
  BY DEF FetchInv, NoContent
<1>2. Readable("azure", pages[link]) = {}
  BY <1>1 DEF Readable
<1>3. AllOf("azure", fetch.rows, link)
  <2>1. link \in Nat /\ AllOf("azure", fetch.rows, link - 1)
    BY <1>1, BillIsASequence DEF ReadInOrder
  <2>2. \A i \in 1 .. link : i # link => i \in 1 .. link - 1
    BY <2>1
  <2>3. QED
    BY <1>2, <2>1, <2>2 DEF AllOf
<1>4. \A entry \in fetch.rows :
        OfPages("azure", entry, PagesRead("azure", link, followed))
  BY <1>1 DEF ReadInOrder
<1>5. {entry[2] : entry \in fetch.rows}
        = RowsOf("azure", pages, Len(pages))
  BY <1>1, <1>3, <1>4, AllIsRead
<1>6. QED
  BY <1>1, <1>5, CompletionKeepsFetch

(* AWS reads every page once.                                              *)
LEMMA AwsAsks ==
  ASSUME FetchInv, pages' = pages, AskAws
  PROVE  FetchInv'
<1> DEFINE read == Extended(fetch, fetch.calls, Readable("aws", pages[link]))
           f == [read EXCEPT !.calls = @ + 1]
           g == [f EXCEPT !.at = "turning"]
<1>1. /\ fetch.provider = "aws" /\ fetch.at # "done"
      /\ fetch \in Fetching /\ pages \in Served /\ fetch.calls \in Nat
      /\ link \in 1 .. Len(pages) /\ followed \subseteq 1 .. Len(pages)
      /\ Len(pages) \in Nat /\ followed' = followed
  BY BillIsASequence DEF FetchInv, AskAws, Fetching
<1>2. \/ link = Len(pages) /\ Complete(f) /\ link' = link
      \/ /\ link # Len(pages) /\ fetch' = g /\ link' = link + 1
         /\ result' = result
  BY DEF AskAws
<1>3. /\ read \in Fetching /\ read.provider = "aws"
      /\ \A entry \in read.rows :
            \/ OfPages("aws", entry, PagesRead("aws", link, followed))
            \/ entry[2] \in Readable("aws", pages[link])
      /\ AllOf("aws", read.rows, link)
      /\ NotTwice("aws", read.rows, followed)
  BY <1>1, PageRead
<1> HIDE DEF read
<1>4. f \in Fetching /\ f.provider = "aws" /\ f.rows = read.rows
  BY <1>3 DEF Fetching
<1> HIDE DEF f
<1>5. /\ g \in Fetching /\ g.at = "turning" /\ g.provider = "aws"
      /\ g.rows = read.rows
  BY <1>4, PlacesTyped
<1> HIDE DEF g
<1>6. WithinLimit(f) /\ WithinLimit(g)
  BY <1>4, <1>5 DEF WithinLimit
<1>7. CASE link = Len(pages) /\ Complete(f) /\ link' = link
  <2>1. {entry[2] : entry \in f.rows} = RowsOf("aws", pages, Len(pages))
    BY <1>3, <1>4, <1>7, AllIsRead
  <2>2. QED
    BY <1>1, <1>3, <1>4, <1>6, <1>7, <2>1, CompletionKeepsFetch
<1>8. CASE /\ link # Len(pages) /\ fetch' = g /\ link' = link + 1
           /\ result' = result
  <2>1. link' \in 1 .. Len(pages) /\ link' - 1 = link /\ link \in Nat
    BY <1>1, <1>8
  <2>2. \A i : i \in PagesRead("aws", link, followed) \/ i = link
               => i \in PagesRead("aws", link', followed')
    <3>1. /\ PagesRead("aws", link, followed) = 1 .. link - 1
          /\ PagesRead("aws", link', followed') = 1 .. link' - 1
      BY DEF PagesRead
    <3>2. 1 .. link' - 1 = 1 .. link
      BY <2>1
    <3>3. \A i : i \in 1 .. link - 1 \/ i = link => i \in 1 .. link
      BY <1>1
    <3>4. QED
      BY <3>1, <3>2, <3>3
  <2>3. \A entry \in g.rows :
          OfPages("aws", entry, PagesRead("aws", link', followed'))
    BY <1>3, <1>5, <2>2 DEF OfPages
  <2>4. AllOf("aws", g.rows, link' - 1)
    BY <1>3, <1>5, <2>1
  <2>5. ReadInOrder(g, link', followed')
    BY <1>5, <2>3, <2>4 DEF ReadInOrder
  <2>6. NotTwice(g.provider, g.rows, followed')
    BY <1>1, <1>3, <1>5
  <2>7. QED
    BY <1>1, <1>5, <1>6, <1>8, <2>1, <2>5, <2>6, GoingOnKeepsFetch
<1>9. QED
  BY <1>2, <1>7, <1>8
(* What ends a fetch where it is.                                          *)
LEMMA EndsWhereItIs ==
  ASSUME FetchInv, pages' = pages,
         CannotStart \/ ProviderFails \/ NotConfigured
  PROVE  FetchInv'
<1>1. PICK error : Fail(fetch, error)
  BY DEF CannotStart, ProviderFails, NotConfigured
<1>2. UNCHANGED <<link, followed, pages>>
  BY DEF CannotStart, ProviderFails, NotConfigured
<1>3. QED
  BY <1>1, <1>2, FailureKeepsFetch DEF FetchInv

(* BigQuery's rows are not told apart by their keys alone.                 *)
LEMMA GcpMayRepeat == \A rows : NotTwice("gcp", rows, followed)
BY DEF NotTwice

(* BigQuery: nothing is read before its one query.                         *)
LEMMA GcpMeasures ==
  ASSUME FetchInv, pages' = pages, DryRun
  PROVE  FetchInv'
<1> DEFINE f == [fetch EXCEPT !.calls = @ + 1]
           g == [f EXCEPT !.at = "measured"]
<1>1. /\ fetch.provider = "gcp" /\ fetch.at # "done" /\ fetch \in Fetching
      /\ UNCHANGED <<link, followed, pages>>
  BY DEF FetchInv, DryRun
<1>2. Fail(f, "PROVIDER_API_ERROR") \/ (fetch' = g /\ result' = result)
  BY DEF DryRun
<1>3. f \in Fetching /\ f.provider = "gcp" /\ f.rows = fetch.rows
  BY <1>1 DEF Fetching
<1> HIDE DEF f
<1>4. /\ g \in Fetching /\ g.at = "measured" /\ g.provider = "gcp"
      /\ g.rows = fetch.rows
  BY <1>3, PlacesTyped
<1> HIDE DEF g
<1>5. WithinLimit(f) /\ WithinLimit(g)
  BY <1>3, <1>4 DEF WithinLimit
<1>6. QED
  BY <1>1, <1>2, <1>3, <1>4, <1>5, FailureKeepsFetch, SameRowsGoOn,
     GcpMayRepeat

LEMMA GcpQueries ==
  ASSUME FetchInv, pages' = pages, RunQuery
  PROVE  FetchInv'
<1> DEFINE raws == UNION {pages[i] : i \in DOMAIN pages}
           all == Readable("gcp", raws)
           new == {1} \X all
           f == [Extended(fetch, 1, all) EXCEPT !.calls = @ + 1]
<1>1. /\ fetch.provider = "gcp" /\ fetch.at # "done" /\ fetch \in Fetching
      /\ pages \in Served /\ UNCHANGED <<link, followed, pages>>
      /\ fetch.rows = {}
  BY DEF FetchInv, RunQuery, Untouched
<1>2. Fail(f, "PROVIDER_API_ERROR") \/ Complete(f)
  BY DEF RunQuery
<1>3. all = RowsOf("gcp", pages, Len(pages))
  BY <1>1, AllAtOnce
<1>4. RowsOf("gcp", pages, Len(pages)) \subseteq AllRows
  BY <1>1, BillIsASequence, RowsOfServed DEF Providers
<1> HIDE DEF all
<1>5. new \subseteq Nat \X AllRows /\ {entry[2] : entry \in new} = all
  <2>1. \A row \in all : <<1, row>> \in new /\ <<1, row>>[2] = row
    OBVIOUS
  <2>2. \A entry \in new : entry[2] \in all
    OBVIOUS
  <2>3. new \subseteq Nat \X AllRows
    BY <1>3, <1>4
  <2> HIDE DEF new
  <2>4. QED
    BY <2>1, <2>2, <2>3
<1> HIDE DEF new
<1>6. f \in Fetching /\ f.provider = "gcp" /\ f.rows = new
  <2>1. fetch.calls + 1 \in Nat
    BY <1>1 DEF Fetching
  <2>2. Extended(fetch, 1, all) = [fetch EXCEPT !.rows = new]
    BY <1>1 DEF Extended, new
  <2>3. QED
    BY <1>1, <1>5, <2>1, <2>2 DEF Fetching
<1> HIDE DEF f
<1>7. WithinLimit(f)
  BY <1>6 DEF WithinLimit
<1>8. {entry[2] : entry \in f.rows}
        = RowsOf(fetch.provider, pages, Len(pages))
  BY <1>1, <1>3, <1>5, <1>6
<1>9. QED
  BY <1>1, <1>2, <1>6, <1>7, <1>8, GcpMayRepeat,
     FailureKeepsFetch, CompletionKeepsFetch

LEMMA GcpFails ==
  ASSUME FetchInv, pages' = pages, QueryFails
  PROVE  FetchInv'
<1> DEFINE f == [fetch EXCEPT !.calls = @ + 1]
<1>1. /\ fetch.provider = "gcp" /\ fetch \in Fetching
      /\ UNCHANGED <<link, followed, pages>>
  BY DEF FetchInv, QueryFails
<1>2. PICK error : Fail(f, error)
  BY DEF QueryFails
<1>3. f \in Fetching /\ f.provider = "gcp"
  BY <1>1 DEF Fetching
<1> HIDE DEF f
<1>4. QED
  BY <1>1, <1>2, <1>3, GcpMayRepeat, FailureKeepsFetch DEF WithinLimit

LEMMA FetchStep == FetchInv /\ [FetchNext]_fetchVars => FetchInv'
<1> SUFFICES ASSUME FetchInv, [FetchNext]_fetchVars PROVE FetchInv'
  OBVIOUS
<1>1. CASE UNCHANGED fetchVars
  BY <1>1 DEF fetchVars, FetchInv, Answered, Untouched, WithinLimit,
              ReadInOrder, NotTwice, AllOf, OfPages, RowsTold
<1>2. CASE pages' = pages
           /\ (NextPage \/ AskAzure \/ Challenged \/ RateLimited
               \/ PageReceived \/ NoContent)
  BY <1>2, AzureTurns, AzureAsks, AzureWaits, AzureReceives, AzureHasNoMore
<1>3. CASE pages' = pages
           /\ (AskAws \/ DryRun \/ RunQuery \/ QueryFails)
  BY <1>3, AwsAsks, GcpMeasures, GcpQueries, GcpFails
<1>4. CASE pages' = pages
           /\ (CannotStart \/ ProviderFails \/ NotConfigured)
  BY <1>4, EndsWhereItIs
<1>5. QED
  BY <1>1, <1>2, <1>3, <1>4 DEF FetchNext, Step

LEMMA FetchInvariant == FetchSpec => []FetchInv
BY FetchStarts, FetchStep, PTL DEF FetchSpec

(* The page asked for is one of the bill's, the links followed are too,    *)
(* and an error never carries a complete result, nor rows nobody read.     *)
THEOREM FetchTypeCorrect == FetchSpec => []FetchTypeOK
<1>1. ASSUME FetchInv PROVE FetchTypeOK
  <2>1. DOMAIN pages = 1 .. Len(pages)
    BY <1>1, BillIsASequence DEF FetchInv
  <2>2. /\ result.rows \subseteq fetch.rows
        /\ result.error # "none" => result.partial
    BY <1>1 DEF FetchInv, Answered, Unfinished
  <2>3. QED
    BY <1>1, <2>1, <2>2 DEF FetchInv, FetchTypeOK
<1>2. QED
  BY FetchInvariant, <1>1, PTL

(* However often pages repeat, challenges resend and waits are granted, no *)
(* more is sent than the limit, and all of it is told (azure_cost.py       *)
(* 131-160, 366-400).                                                      *)
THEOREM LimitHolds == FetchSpec => []BudgetHeld
<1>1. FetchInv => BudgetHeld
  BY DEF FetchInv, BudgetHeld, WithinLimit, Answered
<1>2. QED
  BY FetchInvariant, <1>1, PTL

(* A result that is not partial holds every readable row of every page and *)
(* no other, and no result holds two rows of one key - but for the first   *)
(* page's of Azure after a link back to it - for bills of any length, with *)
(* links that lead anywhere before and with any limits (azure_cost.py      *)
(* 295-325, aws_cost.py 95-160).                                           *)
THEOREM EveryRowIsThereOnce == FetchSpec => []EveryRowOnce
<1>1. ASSUME FetchInv PROVE EveryRowOnce
  <2> SUFFICES ASSUME fetch.at = "done" PROVE EveryRowOnce
    BY DEF EveryRowOnce
  <2>1. ~result.partial =>
          RowsTold = UNION {Readable(fetch.provider, pages[i])
                          : i \in DOMAIN pages}
    <3>1. pages \in Served /\ DOMAIN pages = 1 .. Len(pages)
      BY <1>1, BillIsASequence DEF FetchInv
    <3>2. QED
      BY <1>1, <3>1 DEF FetchInv, Answered, RowsOf
  <2>2. result.rows \subseteq fetch.rows
    BY <1>1 DEF FetchInv, Answered
  <2>3. fetch.provider \in {"aws", "azure"} =>
          \A entry, other \in fetch.rows :
              entry[2].key = other[2].key =>
                  \/ entry = other
                  \/ /\ FirstPageAgain /\ entry[2] = other[2]
                     /\ entry[2] \in Readable("azure", pages[1])
    BY <1>1 DEF FetchInv, NotTwice, FirstPageAgain
  <2>4. QED
    BY <2>1, <2>2, <2>3 DEF EveryRowOnce
<1>2. QED
  BY FetchInvariant, <1>1, PTL

(***************************************************************************)
(* The mails of the reports                                                *)
(***************************************************************************)

Setting == [id : Nat, user : Users, method : {"EMAIL", "WEB"},
            email : BOOLEAN, period : DOMAIN DaysOf, lastSent : Int]
Loop == [on : BOOLEAN, now : Nat, ids : SUBSET Nat, left : SUBSET Nat,
         loaded : SUBSET Setting, sending : SUBSET Nat]
Mail == [row : Nat, period : DOMAIN DaysOf, at : Nat, kept : BOOLEAN]

MailTyped ==
    /\ settings \subseteq Setting /\ nextRow \in Nat
    /\ loop \in Loop /\ mails \subseteq Mail
    /\ clock \in [day : Nat, visited : Int, crashes : Int]

(* Ids of rows that were there are never given again.                      *)
IdsAreSpent ==
    /\ \A row \in settings : row.id < nextRow
    /\ \A id \in loop.ids : id < nextRow
    /\ \A mail \in mails : mail.row < nextRow

(* Mails carry the time of their visit, and visits come one after another. *)
VisitsInOrder ==
    /\ clock.visited <= clock.day
    /\ \A mail \in mails : mail.at < TicksADay * (clock.visited + 1)
    /\ loop.on => /\ clock.visited = clock.day
                  /\ loop.now >= TicksADay * clock.visited
                  /\ loop.now < TicksADay * (clock.visited + 1)
                  /\ \A mail \in mails : mail.at <= loop.now

(* A row, and any copy of it, knows of the mails that were recorded.       *)
RowsRemember ==
    \A row \in settings \union loop.loaded, mail \in mails :
        mail.row = row.id /\ mail.kept => mail.at <= row.lastSent

MailInv ==
    /\ MailTyped /\ MailTypeOK /\ IdsAreSpent /\ VisitsInOrder /\ RowsRemember
    /\ loop.sending # {} => loop.on
    /\ MailsComeInTime /\ OnlyAGoneRowEndsIt

LEMMA MailStarts == MailInit => MailInv
<1> SUFFICES ASSUME MailInit PROVE MailInv
  OBVIOUS
<1>1. Idle \in Loop
  BY DEF Idle, Loop
<1>2. MailTyped
  BY <1>1 DEF MailInit, MailTyped, NeverSent
<1>3. QED
  BY <1>2 DEF MailInit, MailInv, Idle, MailTypeOK, RowIds, IdsAreSpent,
       VisitsInOrder, RowsRemember, MailsComeInTime, OnlyAGoneRowEndsIt,
       NeverSent, TicksADay

(* How the loop ends with a row.                                           *)
LEMMA LoopMoves ==
  ASSUME loop \in Loop, NEW id, NEW on \in BOOLEAN
  PROVE  LET ended == [Expired(id) EXCEPT !.on = on]
             off == [loop EXCEPT !.on = FALSE]
         IN  /\ ended \in Loop /\ ended.on = on /\ ended.now = loop.now
             /\ ended.ids = loop.ids /\ ended.left = loop.left \ {id}
             /\ ended.loaded = {} /\ ended.sending = {}
             /\ off \in Loop /\ off.on = FALSE /\ off.now = loop.now
             /\ off.ids = loop.ids /\ off.left = loop.left
             /\ off.loaded = loop.loaded /\ off.sending = loop.sending
BY DEF Expired, Loop

(* Requests change the table alone: what a row remembers stays with it, a  *)
(* new row has an id no mail was sent for.                                 *)
LEMMA TableChangeKeepsMails ==
  ASSUME MailInv, settings' \subseteq Setting, nextRow' \in Nat,
         nextRow <= nextRow', UNCHANGED <<loop, mails, clock>>,
         \A r, s \in settings' : r.id = s.id \/ r.user = s.user => r = s,
         \A row \in settings' :
            /\ row.id < nextRow' /\ (row.method = "EMAIL" => row.email)
            /\ row.id = nextRow
               \/ \E old \in settings :
                    row.id = old.id /\ row.lastSent = old.lastSent
  PROVE  MailInv'
<1>1. MailTyped' /\ IdsAreSpent' /\ VisitsInOrder' /\ MailsComeInTime'
  BY DEF MailInv, MailTyped, IdsAreSpent, VisitsInOrder,
         MailsComeInTime, Loop, Mail
<1>2. MailTypeOK'
  BY DEF MailInv, MailTypeOK, RowIds
<1>3. RowsRemember'
  BY DEF MailInv, MailTyped, RowsRemember, IdsAreSpent, Mail
<1>4. OnlyAGoneRowEndsIt'
  <2> SUFFICES ASSUME ~loop.on, loop.left # {}
               PROVE  \E id \in loop.ids : id \notin RowIds(settings')
    BY DEF OnlyAGoneRowEndsIt, RowIds
  <2>1. PICK id \in loop.ids : id \notin RowIds(settings)
    BY DEF MailInv, OnlyAGoneRowEndsIt
  <2>2. id < nextRow /\ id # nextRow
    BY DEF MailInv, IdsAreSpent, MailTyped, Loop
  <2>3. id \notin RowIds(settings')
    BY <2>1, <2>2 DEF RowIds
  <2>4. QED
    BY <2>3
<1>5. QED
  BY <1>1, <1>2, <1>3, <1>4 DEF MailInv

LEMMA PutKeepsMails ==
  ASSUME MailInv, NEW u \in Users, PutSettings(u)
  PROVE  MailInv'
<1>1. PICK c \in Deliveries :
        /\ c.method = "EMAIL" => c.email
        /\ settings' =
            IF \E row \in settings : row.user = u
            THEN {IF row.user = u
                  THEN [row EXCEPT !.method = c.method, !.email = c.email,
                                   !.period = c.period]
                  ELSE row : row \in settings}
            ELSE settings \union {[id |-> nextRow, user |-> u,
                                  method |-> c.method, email |-> c.email,
                                  period |-> c.period,
                                  lastSent |-> NeverSent]}
  BY DEF PutSettings
<1>2. /\ nextRow' = nextRow + 1 /\ UNCHANGED <<loop, mails, clock>>
      /\ nextRow \in Nat /\ settings \subseteq Setting
  BY DEF PutSettings, MailInv, MailTyped
<1>3. /\ c.method \in {"EMAIL", "WEB"} /\ c.email \in BOOLEAN
      /\ c.period \in DOMAIN DaysOf
  BY MailAssumption DEF MailAssumption
<1>4. /\ \A r, s \in settings : r.id = s.id \/ r.user = s.user => r = s
      /\ \A row \in settings : row.id < nextRow
                              /\ (row.method = "EMAIL" => row.email)
  BY DEF MailInv, MailTypeOK
<1>5. CASE \E row \in settings : row.user = u
  <2> DEFINE New(row) == [row EXCEPT !.method = c.method, !.email = c.email,
                                     !.period = c.period]
  <2>1. \A row \in settings :
          /\ New(row) \in Setting /\ New(row).id = row.id
          /\ New(row).user = row.user /\ New(row).lastSent = row.lastSent
          /\ New(row).method = c.method /\ New(row).email = c.email
    BY <1>2, <1>3 DEF Setting
  <2>2. settings' = {IF row.user = u THEN New(row) ELSE row : row \in settings}
    BY <1>1, <1>5
  <2> HIDE DEF New
  <2>3. \A row \in settings' : \E old \in settings :
          row = IF old.user = u THEN New(old) ELSE old
    BY <2>2
  <2>4. \A row \in settings' :
          /\ row \in Setting /\ (row.method = "EMAIL" => row.email)
          /\ \E old \in settings :
                /\ row.id = old.id /\ row.lastSent = old.lastSent
                /\ row.user = old.user
                /\ row = IF old.user = u THEN New(old) ELSE old
    <3> SUFFICES ASSUME NEW old \in settings,
                        NEW row, row = IF old.user = u THEN New(old) ELSE old
                 PROVE  /\ row \in Setting
                        /\ row.method = "EMAIL" => row.email
                        /\ row.id = old.id /\ row.lastSent = old.lastSent
                        /\ row.user = old.user
      BY <2>3
    <3>1. CASE old.user = u
      <4>1. /\ New(old) \in Setting /\ New(old).id = old.id
            /\ New(old).user = old.user /\ New(old).lastSent = old.lastSent
            /\ (New(old).method = "EMAIL" => New(old).email)
        BY <1>1, <2>1
      <4>2. QED
        BY <3>1, <4>1
    <3>2. CASE old.user # u
      BY <1>2, <1>4, <3>2
    <3>3. QED
      BY <3>1, <3>2
  <2>5. \A r, s \in settings' : r.id = s.id \/ r.user = s.user => r = s
    BY <1>4, <2>4
  <2>6. \A row \in settings' : row.id < nextRow'
    BY <1>2, <1>4, <2>4 DEF Setting
  <2>7. settings' \subseteq Setting /\ nextRow' \in Nat /\ nextRow <= nextRow'
    BY <1>2, <2>4
  <2>8. \A row \in settings' :
          /\ row.id < nextRow' /\ (row.method = "EMAIL" => row.email)
          /\ \E old \in settings :
                row.id = old.id /\ row.lastSent = old.lastSent
    BY <2>4, <2>6
  <2>9. QED
    BY <1>2, <2>5, <2>7, <2>8, TableChangeKeepsMails
<1>6. CASE ~\E row \in settings : row.user = u
  <2> DEFINE new == [id |-> nextRow, user |-> u, method |-> c.method,
                     email |-> c.email, period |-> c.period,
                     lastSent |-> NeverSent]
  <2>1. /\ new \in Setting /\ new.id = nextRow /\ new.user = u
        /\ new.method = "EMAIL" => new.email
    <3>1. new.method = "EMAIL" => new.email
      BY <1>1, Zenon
    <3>2. new \in Setting /\ new.id = nextRow /\ new.user = u
      BY <1>2, <1>3 DEF Setting, NeverSent
    <3>3. QED
      BY <3>1, <3>2
  <2>2. settings' = settings \union {new}
    BY <1>1, <1>6
  <2> HIDE DEF new
  <2>3. \A r, s \in settings' : r.id = s.id \/ r.user = s.user => r = s
    BY <1>2, <1>4, <1>6, <2>1, <2>2 DEF Setting
  <2>4. \A row \in settings' :
          row.id < nextRow' /\ (row.method = "EMAIL" => row.email)
    BY <1>2, <1>4, <2>1, <2>2 DEF Setting
  <2>5. QED
    BY <1>2, <2>1, <2>2, <2>3, <2>4, TableChangeKeepsMails
<1>7. QED
  BY <1>5, <1>6

LEMMA DropKeepsMails ==
  ASSUME MailInv, NEW u \in Users, DropSettings(u)
  PROVE  MailInv'
<1>1. /\ settings' \subseteq settings /\ nextRow' = nextRow
      /\ UNCHANGED <<loop, mails, clock>>
  BY DEF DropSettings
<1>2. QED
  BY <1>1, TableChangeKeepsMails DEF MailInv, MailTyped, MailTypeOK

(* What the session knows of a row is a copy of it, or the row.            *)
LEMMA SeenIsKnown ==
  ASSUME MailInv, NEW id
  PROVE  /\ Seen(id) \subseteq settings \union loop.loaded
         /\ Seen(id) \subseteq Setting
         /\ \A row \in Seen(id) : row.id = id
         /\ Seen(id) = {} => id \notin RowIds(settings)
BY DEF MailInv, MailTyped, Loop, Seen, RowIds

(* The loop leaves a row behind, or ends with it: the table and the mails  *)
(* stay, and it only ends early when that row is gone.                     *)
LEMMA LeavingKeepsMails ==
  ASSUME MailInv, NEW id \in loop.left, loop.on,
         HandledOrEnds(id), UNCHANGED <<settings, nextRow, mails, clock>>
  PROVE  MailInv'
<1> DEFINE on == id \in RowIds(settings)
<1>1. loop \in Loop /\ on \in BOOLEAN
  BY DEF MailInv, MailTyped
<1>2. loop' = [Expired(id) EXCEPT !.on = on]
  BY DEF HandledOrEnds
<1>3. on <=> id \in RowIds(settings)
  OBVIOUS
<1> HIDE DEF on
<1>4. /\ loop' \in Loop /\ loop'.on = on /\ loop'.now = loop.now
      /\ loop'.ids = loop.ids /\ loop'.left = loop.left \ {id}
      /\ loop'.loaded = {} /\ loop'.sending = {}
  BY <1>1, <1>2, LoopMoves
<1>5. MailTyped' /\ IdsAreSpent' /\ MailsComeInTime'
  BY <1>4 DEF MailInv, MailTyped, IdsAreSpent, MailsComeInTime
<1>6. MailTypeOK' /\ RowsRemember'
  BY <1>4 DEF MailInv, MailTypeOK, RowIds, RowsRemember
<1>7. VisitsInOrder'
  BY <1>4 DEF MailInv, VisitsInOrder
<1>8. OnlyAGoneRowEndsIt'
  <2>1. ~on => id \in loop.ids /\ id \notin RowIds(settings)
    BY <1>3 DEF MailInv, MailTypeOK
  <2>2. QED
    BY <1>4, <2>1 DEF OnlyAGoneRowEndsIt, RowIds
<1>9. QED
  BY <1>4, <1>5, <1>6, <1>7, <1>8 DEF MailInv

LEMMA SkipKeepsMails ==
  ASSUME MailInv, NEW id, Skip(id)
  PROVE  MailInv'
<1>1. /\ loop \in Loop /\ id \in loop.left /\ loop.on /\ loop.sending = {}
      /\ UNCHANGED <<settings, nextRow, mails, clock>>
      /\ Seen(id) # {}
  BY DEF Skip, Reaches, MailInv, MailTyped
<1>2. /\ Seen(id) \subseteq settings \union loop.loaded
      /\ Seen(id) \subseteq Setting
      /\ \A row \in Seen(id) : row.id = id
  BY SeenIsKnown
<1>3. loop' = [loop EXCEPT !.left = @ \ {id}, !.loaded = @ \union Seen(id)]
  BY DEF Skip
<1>4. /\ loop' \in Loop /\ loop'.on = loop.on /\ loop'.now = loop.now
      /\ loop'.ids = loop.ids /\ loop'.left = loop.left \ {id}
      /\ loop'.loaded = loop.loaded \union Seen(id)
      /\ loop'.sending = {}
  BY <1>1, <1>2, <1>3 DEF Loop
<1>5. MailTyped' /\ IdsAreSpent' /\ MailsComeInTime' /\ VisitsInOrder'
  BY <1>1, <1>4 DEF MailInv, MailTyped, IdsAreSpent, MailsComeInTime,
     VisitsInOrder
<1>6. MailTypeOK'
  BY <1>1, <1>2, <1>4 DEF MailInv, MailTypeOK, RowIds
<1>7. RowsRemember'
  BY <1>1, <1>2, <1>4 DEF MailInv, RowsRemember
<1>8. OnlyAGoneRowEndsIt'
  BY <1>1, <1>4 DEF OnlyAGoneRowEndsIt
<1>9. QED
  BY <1>4, <1>5, <1>6, <1>7, <1>8 DEF MailInv

LEMMA FailingKeepsMails ==
  ASSUME MailInv, NEW id, RowGone(id) \/ SendFails(id)
  PROVE  MailInv'
BY LeavingKeepsMails DEF RowGone, SendFails, Reaches

(* A mail goes out only to a row that is due, by a copy that remembers     *)
(* every mail recorded before.                                             *)
LEMMA SendKeepsMails ==
  ASSUME MailInv, NEW id, Send(id)
  PROVE  MailInv'
<1>1. PICK row \in Seen(id) :
        /\ IsDue(row)
        /\ mails' = mails \union {[row |-> id, period |-> row.period,
                                   at |-> loop.now, kept |-> FALSE]}
  BY DEF Send
<1>2. /\ loop \in Loop /\ id \in loop.left /\ loop.on
      /\ UNCHANGED <<settings, nextRow, clock>>
      /\ mails \subseteq Mail
  BY DEF Send, Reaches, MailInv, MailTyped
<1>3. /\ row \in settings \union loop.loaded /\ row \in Setting
      /\ row.id = id
  BY SeenIsKnown
<1>4. loop' = [loop EXCEPT !.sending = {id}]
  BY DEF Send
<1>5. /\ loop' \in Loop /\ loop'.on = loop.on /\ loop'.now = loop.now
      /\ loop'.ids = loop.ids /\ loop'.left = loop.left
      /\ loop'.loaded = loop.loaded /\ loop'.sending = {id}
  BY <1>2, <1>4 DEF Loop
<1> DEFINE new == [row |-> id, period |-> row.period, at |-> loop.now,
                   kept |-> FALSE]
<1>6. /\ new \in Mail /\ new.row = id /\ new.at = loop.now
      /\ new.period = row.period /\ new.kept = FALSE
  BY <1>2, <1>3 DEF Mail, Loop, Setting
<1>7. mails' = mails \union {new}
  BY <1>1
<1> HIDE DEF new
<1>8. MailTyped' /\ MailTypeOK'
  BY <1>2, <1>5, <1>6, <1>7 DEF MailInv, MailTyped, MailTypeOK
<1>9. IdsAreSpent' /\ VisitsInOrder'
  <2>1. id < nextRow
    BY <1>2 DEF MailInv, MailTypeOK, IdsAreSpent
  <2>2. IdsAreSpent'
    BY <1>2, <1>5, <1>6, <1>7, <2>1 DEF MailInv, IdsAreSpent
  <2>3. loop.now < TicksADay * (clock.visited + 1) /\ loop.now <= loop.now
    BY <1>2 DEF MailInv, VisitsInOrder, Loop
  <2>4. QED
    BY <1>2, <1>5, <1>6, <1>7, <2>2, <2>3 DEF MailInv, VisitsInOrder
<1>10. RowsRemember'
  BY <1>2, <1>5, <1>6, <1>7 DEF MailInv, RowsRemember
<1>11. MailsComeInTime'
  <2> SUFFICES ASSUME NEW m \in mails', NEW n \in mails',
                      m.row = n.row, m.kept, m.at < n.at
               PROVE  n.at - m.at >= TicksADay * DaysOf[n.period]
    BY DEF MailsComeInTime
  <2>1. m \in mails
    BY <1>6, <1>7
  <2>2. CASE n \in mails
    BY <2>1, <2>2 DEF MailInv, MailsComeInTime
  <2>3. CASE n = new
    <3>1. m.at <= row.lastSent
      BY <1>3, <1>6, <2>1, <2>3 DEF MailInv, RowsRemember
    <3>2. /\ m.at \in Nat /\ row.lastSent \in Int /\ loop.now \in Nat
          /\ DaysOf[row.period] \in Nat
      BY <1>2, <1>3, <2>1, MailAssumption
         DEF Mail, Setting, Loop, MailAssumption
    <3>3. loop.now - row.lastSent >= TicksADay * DaysOf[row.period]
      BY <1>1, <3>1, <3>2 DEF IsDue, NeverSent
    <3>4. QED
      BY <1>6, <2>3, <3>1, <3>2, <3>3 DEF TicksADay
  <2>4. QED
    BY <1>7, <2>2, <2>3
<1>12. OnlyAGoneRowEndsIt'
  BY <1>2, <1>5 DEF OnlyAGoneRowEndsIt
<1>13. QED
  BY <1>2, <1>5, <1>8, <1>9, <1>10, <1>11, <1>12 DEF MailInv

(* The record of a mail: only mails of this visit change, and no mail is   *)
(* later than those.                                                       *)
LEMMA RecordKeepsMails ==
  ASSUME MailInv, NEW id, Record(id)
  PROVE  MailInv'
<1> DEFINE on == id \in RowIds(settings)
           NewRow(row) == [row EXCEPT !.lastSent = loop.now]
           NewMail(mail) == [mail EXCEPT !.kept = on]
<1>1. /\ loop \in Loop /\ on \in BOOLEAN /\ id \in loop.left /\ loop.on
      /\ loop.now \in Nat /\ settings \subseteq Setting /\ mails \subseteq Mail
      /\ UNCHANGED <<nextRow, clock>>
  <2>1. /\ loop \in Loop /\ loop.sending = {id}
        /\ settings \subseteq Setting /\ mails \subseteq Mail
        /\ UNCHANGED <<nextRow, clock>>
    BY DEF Record, MailInv, MailTyped
  <2>2. id \in loop.left /\ loop.on
    BY <2>1 DEF MailInv, MailTypeOK
  <2>3. loop.now \in Nat
    BY <2>1 DEF Loop
  <2>4. QED
    BY <2>1, <2>2, <2>3
<1>2. /\ loop' = [Expired(id) EXCEPT !.on = on]
      /\ settings' = {IF row.id = id THEN NewRow(row) ELSE row :
                   row \in settings}
      /\ mails' = {IF mail.row = id /\ mail.at = loop.now
                   THEN NewMail(mail) ELSE mail : mail \in mails}
  BY DEF Record, HandledOrEnds
<1>3. on <=> id \in RowIds(settings)
  OBVIOUS
<1>4. \A row \in settings :
        LET next == NewRow(row)
        IN  /\ next \in Setting /\ next.id = row.id /\ next.user = row.user
            /\ next.method = row.method /\ next.email = row.email
            /\ next.lastSent = loop.now
  BY <1>1 DEF Setting
<1>5. \A mail \in mails :
        LET next == NewMail(mail)
        IN  /\ next \in Mail /\ next.row = mail.row /\ next.at = mail.at
            /\ next.period = mail.period
  BY <1>1 DEF Mail
<1> HIDE DEF on, NewRow, NewMail
<1>6. /\ loop' \in Loop /\ loop'.on = on /\ loop'.now = loop.now
      /\ loop'.ids = loop.ids /\ loop'.left = loop.left \ {id}
      /\ loop'.loaded = {} /\ loop'.sending = {}
  BY <1>1, <1>2, LoopMoves
<1>7. \A row \in settings' : \E old \in settings :
        row = IF old.id = id THEN NewRow(old) ELSE old
  BY <1>2
<1>8. \A mail \in mails' : \E old \in mails :
        mail = IF old.row = id /\ old.at = loop.now THEN NewMail(old) ELSE old
  BY <1>2
<1>9. \A row \in settings' : row \in Setting /\ \E old \in settings :
        /\ row.id = old.id /\ row.user = old.user
        /\ row.method = old.method /\ row.email = old.email
        /\ row.id = id => row.lastSent = loop.now
        /\ row.id # id => row = old
        /\ row = IF old.id = id THEN NewRow(old) ELSE old
  <2> SUFFICES ASSUME NEW old \in settings,
                      NEW row, row = IF old.id = id THEN NewRow(old) ELSE old
               PROVE  /\ row \in Setting
                      /\ row.id = old.id /\ row.user = old.user
                      /\ row.method = old.method /\ row.email = old.email
                      /\ row.id = id => row.lastSent = loop.now
                      /\ row.id # id => row = old
    BY <1>7
  <2>1. CASE old.id = id
    BY <1>4, <2>1
  <2>2. CASE old.id # id
    BY <1>1, <2>2
  <2>3. QED
    BY <2>1, <2>2
<1>10. \A mail \in mails' : mail \in Mail /\ \E old \in mails :
        /\ mail.row = old.row /\ mail.at = old.at /\ mail.period = old.period
        /\ (mail.row = id /\ mail.at = loop.now) \/ mail = old
  <2> SUFFICES ASSUME NEW old \in mails,
                      NEW mail, mail = IF old.row = id /\ old.at = loop.now
                                       THEN NewMail(old) ELSE old
               PROVE  /\ mail \in Mail
                      /\ mail.row = old.row /\ mail.at = old.at
                      /\ mail.period = old.period
                      /\ (mail.row = id /\ mail.at = loop.now) \/ mail = old
    BY <1>8
  <2>1. CASE old.row = id /\ old.at = loop.now
    BY <1>5, <2>1
  <2>2. CASE ~(old.row = id /\ old.at = loop.now)
    BY <1>1, <2>2
  <2>3. QED
    BY <2>1, <2>2
<1>11. \A mail \in mails : mail.at <= loop.now
  BY <1>1 DEF MailInv, VisitsInOrder
<1>12. MailTyped'
  BY <1>1, <1>6, <1>9, <1>10 DEF MailInv, MailTyped
<1>13. MailTypeOK'
  <2>1. \A r, s \in settings' : r.id = s.id \/ r.user = s.user => r = s
    BY <1>9 DEF MailInv, MailTypeOK
  <2>2. \A row \in settings' :
          row.id < nextRow' /\ (row.method = "EMAIL" => row.email)
    BY <1>1, <1>9 DEF MailInv, MailTypeOK
  <2>3. QED
    BY <1>6, <2>1, <2>2 DEF MailInv, MailTypeOK, RowIds
<1>14. IdsAreSpent' /\ VisitsInOrder'
  <2>1. IdsAreSpent'
    BY <1>1, <1>6, <1>9, <1>10 DEF MailInv, IdsAreSpent
  <2>2. QED
    BY <1>1, <1>6, <1>10, <2>1 DEF MailInv, VisitsInOrder
<1>15. RowsRemember'
  <2> SUFFICES ASSUME NEW row \in settings', NEW mail \in mails',
                      mail.row = row.id, mail.kept
               PROVE  mail.at <= row.lastSent
    BY <1>6 DEF RowsRemember
  <2>1. CASE row.id = id
    BY <1>9, <1>10, <1>11, <2>1
  <2>2. CASE row.id # id
    <3>1. row \in settings /\ mail \in mails
      BY <1>9, <1>10, <2>2
    <3>2. QED
      BY <3>1 DEF MailInv, RowsRemember
  <2>3. QED
    BY <2>1, <2>2
<1>16. MailsComeInTime'
  <2> SUFFICES ASSUME NEW m \in mails', NEW n \in mails',
                      m.row = n.row, m.kept, m.at < n.at
               PROVE  n.at - m.at >= TicksADay * DaysOf[n.period]
    BY DEF MailsComeInTime
  <2>1. PICK late \in mails : n.row = late.row /\ n.at = late.at
                              /\ n.period = late.period
    BY <1>10
  <2>2. /\ late.at <= loop.now /\ late.at \in Nat /\ m.at \in Nat
        /\ loop.now \in Nat
    BY <1>1, <1>10, <1>11 DEF Mail
  <2>3. m.at # loop.now
    BY <2>1, <2>2
  <2>4. m \in mails
    BY <1>10, <2>3
  <2>5. QED
    BY <2>1, <2>4 DEF MailInv, MailsComeInTime
<1>17. OnlyAGoneRowEndsIt'
  <2>1. ~on => id \in loop.ids /\ id \notin RowIds(settings)
    BY <1>1, <1>3 DEF MailInv, MailTypeOK
  <2>2. RowIds(settings') \subseteq RowIds(settings)
    BY <1>9 DEF RowIds
  <2>3. QED
    BY <1>6, <2>1, <2>2 DEF OnlyAGoneRowEndsIt
<1>18. QED
  BY <1>6, <1>12, <1>13, <1>14, <1>15, <1>16, <1>17 DEF MailInv

(* A visit starts with the rows of the day, later than every mail.         *)
LEMMA StartKeepsMails ==
  ASSUME MailInv, StartVisit
  PROVE  MailInv'
<1>1. PICK moment \in 0 .. TicksADay - 1 :
        LET held == {row \in settings : row.method = "EMAIL"}
        IN  loop' = [Idle EXCEPT !.on = TRUE,
                                 !.now = TicksADay * clock.day + moment,
                                 !.ids = RowIds(held), !.left = RowIds(held),
                                 !.loaded = held]
  BY DEF StartVisit
<1> DEFINE held == {row \in settings : row.method = "EMAIL"}
<1>2. /\ ~loop.on /\ clock.visited < clock.day
      /\ clock' = [clock EXCEPT !.visited = clock.day]
      /\ UNCHANGED <<settings, nextRow, mails>>
      /\ settings \subseteq Setting /\ mails \subseteq Mail
      /\ clock \in [day : Nat, visited : Int, crashes : Int]
  BY DEF StartVisit, MailInv, MailTyped
<1>3. /\ clock' \in [day : Nat, visited : Int, crashes : Int]
      /\ clock'.visited = clock.day /\ clock'.day = clock.day
      /\ clock.day \in Nat /\ clock.visited \in Int
  BY <1>2
<1>4. RowIds(held) \subseteq Nat /\ held \subseteq Setting
  BY <1>2 DEF RowIds, Setting
<1>5. TicksADay * clock.day + moment \in Nat
  BY <1>3 DEF TicksADay
<1>6. /\ loop' \in Loop /\ loop'.on /\ loop'.sending = {}
      /\ loop'.now = TicksADay * clock.day + moment
      /\ loop'.ids = RowIds(held) /\ loop'.left = RowIds(held)
      /\ loop'.loaded = held
  <2> HIDE DEF held
  <2>1. loop' = [Idle EXCEPT !.on = TRUE,
                             !.now = TicksADay * clock.day + moment,
                             !.ids = RowIds(held), !.left = RowIds(held),
                             !.loaded = held]
    BY <1>1 DEF held
  <2>2. loop' = [on |-> TRUE, now |-> TicksADay * clock.day + moment,
                 ids |-> RowIds(held), left |-> RowIds(held),
                 loaded |-> held, sending |-> {}]
    BY <2>1 DEF Idle
  <2>3. QED
    BY <1>4, <1>5, <2>2 DEF Loop
<1>7. MailTyped' /\ IdsAreSpent'
  BY <1>2, <1>3, <1>6 DEF MailInv, MailTyped, IdsAreSpent, RowIds
<1>8. MailTypeOK' /\ RowsRemember' /\ MailsComeInTime'
  BY <1>2, <1>6 DEF MailInv, MailTypeOK, RowsRemember, MailsComeInTime
<1>9. VisitsInOrder'
  <2>1. \A mail \in mails : mail.at <= TicksADay * clock.day
    <3> SUFFICES ASSUME NEW mail \in mails
                 PROVE  mail.at <= TicksADay * clock.day
      OBVIOUS
    <3>1. mail.at \in Nat /\ mail.at < TicksADay * (clock.visited + 1)
      BY <1>2 DEF MailInv, VisitsInOrder, Mail
    <3>2. QED
      BY <1>2, <1>3, <3>1 DEF TicksADay
  <2>2. \A mail \in mails : mail.at \in Nat
    BY <1>2 DEF Mail
  <2>3. QED
    BY <1>2, <1>3, <1>5, <1>6, <2>1, <2>2 DEF VisitsInOrder, TicksADay
<1>10. OnlyAGoneRowEndsIt'
  BY <1>6 DEF OnlyAGoneRowEndsIt
<1>11. QED
  BY <1>6, <1>7, <1>8, <1>9, <1>10 DEF MailInv

(* The loop ends, or dies: nothing is sent.                                *)
LEMMA EndKeepsMails ==
  ASSUME MailInv, EndVisit \/ Crash
  PROVE  MailInv'
<1>1. /\ UNCHANGED <<settings, nextRow, mails>>
      /\ clock'.day = clock.day /\ clock'.visited = clock.visited
      /\ clock' \in [day : Nat, visited : Int, crashes : Int]
  BY DEF EndVisit, Crash, MailInv, MailTyped
<1>2. /\ loop' \in Loop /\ ~loop'.on /\ loop'.left = {}
      /\ loop'.ids \subseteq loop.ids /\ loop'.sending = {}
      /\ loop'.loaded \subseteq loop.loaded
      /\ RowIds(loop'.loaded) \subseteq loop'.ids
  <2>1. CASE EndVisit
    <3>1. /\ loop \in Loop /\ loop' = [loop EXCEPT !.on = FALSE]
          /\ loop.left = {} /\ loop.sending = {}
          /\ RowIds(loop.loaded) \subseteq loop.ids
      BY <2>1 DEF EndVisit, MailInv, MailTyped, MailTypeOK
    <3>2. QED
      BY <3>1, LoopMoves
  <2>2. CASE Crash
    BY <2>2 DEF Crash, Idle, Loop, RowIds
  <2>3. QED
    BY <2>1, <2>2
<1>3. QED
  BY <1>1, <1>2 DEF MailInv, MailTyped, MailTypeOK, IdsAreSpent,
     VisitsInOrder, RowsRemember, MailsComeInTime, OnlyAGoneRowEndsIt

LEMMA DayKeepsMails ==
  ASSUME MailInv, NextMailDay
  PROVE  MailInv'
<1>1. /\ ~loop.on /\ UNCHANGED <<settings, nextRow, loop, mails>>
      /\ clock.day \in Nat /\ clock.visited \in Int
      /\ clock'.day = clock.day + 1 /\ clock'.visited = clock.visited
      /\ clock' \in [day : Nat, visited : Int, crashes : Int]
  BY DEF NextMailDay, MailInv, MailTyped
<1>2. QED
  BY <1>1 DEF MailInv, MailTyped, MailTypeOK, IdsAreSpent, RowIds,
     VisitsInOrder, RowsRemember, MailsComeInTime, OnlyAGoneRowEndsIt

LEMMA MailStep == MailInv /\ [MailNext]_mailVars => MailInv'
<1> SUFFICES ASSUME MailInv, [MailNext]_mailVars PROVE MailInv'
  OBVIOUS
<1>1. ASSUME NEW u \in Users, PutSettings(u) \/ DropSettings(u)
      PROVE  MailInv'
  BY <1>1, PutKeepsMails, DropKeepsMails
<1>2. ASSUME NEW id \in 1 .. MaxPuts,
             Skip(id) \/ RowGone(id) \/ SendFails(id) \/ Send(id) \/ Record(id)
      PROVE  MailInv'
  BY <1>2, SkipKeepsMails, FailingKeepsMails, SendKeepsMails, RecordKeepsMails
<1>3. CASE NextMailDay \/ StartVisit \/ EndVisit \/ Crash
  BY <1>3, DayKeepsMails, StartKeepsMails, EndKeepsMails
<1>4. CASE UNCHANGED mailVars
  BY <1>4 DEF mailVars, MailInv, MailTyped, MailTypeOK, IdsAreSpent, RowIds,
     VisitsInOrder, RowsRemember, MailsComeInTime, OnlyAGoneRowEndsIt
<1>5. QED
  BY <1>1, <1>2, <1>3, <1>4 DEF MailNext

LEMMA MailInvariant == MailSpec => []MailInv
BY MailStarts, MailStep, PTL DEF MailSpec

(* A user has one row of settings, a row has one user, and the mail loop   *)
(* knows only of rows there were.                                          *)
THEOREM MailTypeCorrect == MailSpec => []MailTypeOK
<1>1. MailInv => MailTypeOK
  BY DEF MailInv
<1>2. QED
  BY MailInvariant, <1>1, PTL

(* However users change their delivery, whatever fails and whenever the    *)
(* process dies: a recorded mail of a row is followed by another only      *)
(* after the period it goes by (is_due in report_scheduler.py).            *)
THEOREM MailsInTime == MailSpec => []MailsComeInTime
<1>1. MailInv => MailsComeInTime
  BY DEF MailInv
<1>2. QED
  BY MailInvariant, <1>1, PTL

(* A mail that fails never costs another user theirs: only a row that was  *)
(* dropped while the loop ran ends the loop before its last row, in the    *)
(* handler that reads it (send_due_reports).                               *)
THEOREM FailedMailsCostNoOther == MailSpec => []OnlyAGoneRowEndsIt
<1>1. MailInv => OnlyAGoneRowEndsIt
  BY DEF MailInv
<1>2. QED
  BY MailInvariant, <1>1, PTL

(***************************************************************************)
(* The credentials of an account                                           *)
(***************************************************************************)

AnySecret == Secrets \union {SeedSecret}
Tags == {NoTag} \union {AuthTypeOf[s] : s \in AnySecret}
Credential == [id : Nat, name : Names \union {NoTag}, secret : AnySecret,
               tag : Tags, verified : BOOLEAN]
Request == [at : {"new", "closed", "looked", "inserted", "changing",
                  "deleting"},
            op : {"none", "create", "patch", "verify", "delete"},
            copy : Credential, row : Credential,
            asked : BOOLEAN, makes : BOOLEAN]
AuditEntry == [secret : AnySecret, result : BOOLEAN]

KeyTyped ==
    /\ credentials \subseteq Credential /\ nextCredential \in 1 .. MaxRows + 1
    /\ handler \in [Handlers -> Request] /\ account \in BOOLEAN
    /\ lastAudit \in [1 .. MaxRows -> AuditEntry]

(* A request that did not ask the cloud leaves its copy's secret and       *)
(* verdict alone; only a PATCH that asked has another secret.              *)
ChangesInOrder(t) ==
    t.at = "changing" =>
        /\ t.row.id = t.copy.id /\ t.row.id \in 1 .. MaxRows
        /\ ~t.asked => /\ t.row.secret = t.copy.secret
                       /\ t.row.verified = t.copy.verified
        /\ ~Replaces(t) => t.row.secret = t.copy.secret

(* What is inserted and not committed is like no other row.                *)
InsertedApart ==
    \A r \in Handlers : handler[r].at = "inserted" =>
        /\ handler[r].row.id \in 1 .. nextCredential - 1
        /\ \A row \in credentials :
              row.id # handler[r].row.id /\ row.name # handler[r].row.name
        /\ \A q \in Handlers \ {r} : handler[q].at = "inserted" =>
              /\ handler[q].row.id # handler[r].row.id
              /\ handler[q].row.name # handler[r].row.name

HandlersInOrder == \A r \in Handlers : ChangesInOrder(handler[r])

KeyInv ==
    /\ KeyTyped /\ HandlersInOrder /\ InsertedApart
    /\ KeyTypeOK /\ CredentialSaysWhatItIs

LEMMA KeyStarts == KeyInit => KeyInv
<1> SUFFICES ASSUME KeyInit PROVE KeyInv
  OBVIOUS
<1>1. MaxRows \in Nat \ {0} /\ \E n \in Names : TRUE
  BY KeyAssumption DEF KeyAssumption
<1>2. /\ SeedSecret \in AnySecret
      /\ NoTag \in Tags /\ AuthTypeOf[SeedSecret] \in Tags
  BY DEF AnySecret, Tags
<1>3. Unwritten \in Credential
  BY <1>2 DEF Unwritten, Credential
<1>4. NewHandler \in Request /\ NewHandler.at = "new"
  BY <1>3 DEF NewHandler, Request
<1> DEFINE seed == SeedRow(CHOOSE n \in Names : TRUE)
<1>5. /\ seed \in Credential /\ seed.id = 1 /\ seed.secret = SeedSecret
      /\ seed.verified = TRUE /\ seed.tag = AuthTypeOf[SeedSecret]
  <2>1. (CHOOSE n \in Names : TRUE) \in Names
    BY <1>1
  <2>2. QED
    BY <1>2, <2>1 DEF SeedRow, Credential
<1> DEFINE entry == [secret |-> SeedSecret, result |-> TRUE]
<1>6. entry \in AuditEntry
  BY <1>2 DEF AuditEntry
<1>7. /\ credentials = IF demo THEN {seed} ELSE {}
      /\ nextCredential = IF demo THEN 2 ELSE 1
      /\ handler = [r \in Handlers |-> NewHandler]
      /\ lastAudit = [id \in 1 .. MaxRows |-> entry]
      /\ account = demo /\ inUse = {} /\ overwritten = {}
      /\ demo \in BOOLEAN
  BY DEF KeyInit
<1>8. entry = [secret |-> seed.secret, result |-> seed.verified]
  BY <1>5
<1> HIDE DEF seed, entry
<1>9. KeyTyped
  BY <1>1, <1>4, <1>5, <1>6, <1>7 DEF KeyTyped
<1>10. HandlersInOrder /\ InsertedApart
  BY <1>4, <1>7 DEF HandlersInOrder, InsertedApart, ChangesInOrder
<1>11. KeyTypeOK
  BY <1>1, <1>5, <1>7 DEF KeyTypeOK
<1>12. CredentialSaysWhatItIs
  BY <1>1, <1>5, <1>7, <1>8 DEF CredentialSaysWhatItIs
<1>13. QED
  BY <1>9, <1>10, <1>11, <1>12 DEF KeyInv

(* A request that reads and decides leaves the tables alone.               *)
LEMMA ReadingKeepsKeys ==
  ASSUME KeyInv, NEW r \in Handlers, NEW t \in Request,
         t.at # "inserted", ChangesInOrder(t),
         HandlerBecomes(r, t), UNCHANGED KeyTables,
         inUse' \subseteq 1 .. MaxRows
  PROVE  KeyInv'
<1>1. /\ handler \in [Handlers -> Request]
      /\ handler' = [handler EXCEPT ![r] = t]
      /\ UNCHANGED <<account, credentials, nextCredential, lastAudit,
                     overwritten>>
  BY DEF KeyInv, KeyTyped, HandlerBecomes, KeyTables
<1>2. /\ handler' \in [Handlers -> Request] /\ handler'[r] = t
      /\ \A q \in Handlers \ {r} : handler'[q] = handler[q]
  BY <1>1
<1>3. KeyTyped' /\ KeyTypeOK' /\ CredentialSaysWhatItIs'
  BY <1>1, <1>2 DEF KeyInv, KeyTyped, KeyTypeOK, CredentialSaysWhatItIs
<1>4. HandlersInOrder'
  <2>1. \A q \in Handlers : ChangesInOrder(handler'[q])
    BY <1>2 DEF KeyInv, HandlersInOrder
  <2>2. QED
    BY <2>1 DEF HandlersInOrder, ChangesInOrder, Replaces
<1>5. InsertedApart'
  BY <1>1, <1>2 DEF KeyInv, InsertedApart
<1>6. QED
  BY <1>3, <1>4, <1>5 DEF KeyInv

(* What a request becomes when it ends.                                    *)
LEMMA EndedIsInOrder ==
  ASSUME NEW t \in Request
  PROVE  LET ended == [t EXCEPT !.at = "closed"]
         IN  /\ ended \in Request /\ ended.at = "closed"
             /\ ChangesInOrder(ended)
BY DEF Request, ChangesInOrder

LEMMA EndingKeepsKeys ==
  ASSUME KeyInv, NEW r \in Handlers, HandlerEnds(r),
         UNCHANGED KeyTables, inUse' \subseteq 1 .. MaxRows
  PROVE  KeyInv'
<1> DEFINE ended == [handler[r] EXCEPT !.at = "closed"]
<1>1. handler[r] \in Request
  BY DEF KeyInv, KeyTyped
<1>2. /\ ended \in Request /\ ended.at = "closed"
      /\ ChangesInOrder(ended)
  BY <1>1, EndedIsInOrder
<1>3. HandlerBecomes(r, ended)
  BY DEF HandlerEnds
<1> HIDE DEF ended
<1>4. QED
  BY <1>2, <1>3, ReadingKeepsKeys

LEMMA NewIsTyped ==
  /\ Unwritten \in Credential
  /\ NewHandler \in Request
  /\ NewHandler.asked = FALSE /\ NewHandler.makes = FALSE
<1>1. SeedSecret \in AnySecret /\ NoTag \in Tags
  BY DEF AnySecret, Tags
<1>2. Unwritten \in Credential
  BY <1>1 DEF Unwritten, Credential
<1>3. QED
  BY <1>2 DEF NewHandler, Request

LEMMA LookingKeepsKeys ==
  ASSUME KeyInv, NEW r \in Handlers, CreateLook(r)
  PROVE  KeyInv'
<1>1. PICK n \in Names, s \in Secrets :
        IF demo \/ \E row \in credentials : row.name = n THEN HandlerEnds(r)
        ELSE HandlerBecomes(r,
                [NewHandler EXCEPT !.at = "looked", !.op = "create",
                                   !.makes = ~account,
                                   !.row = [Unwritten EXCEPT !.name = n,
                                       !.secret = s, !.tag = AuthTypeOf[s]]])
  BY DEF CreateLook
<1>2. UNCHANGED KeyTables /\ inUse' \subseteq 1 .. MaxRows
  BY DEF CreateLook, World, KeyInv, KeyTypeOK
<1>3. CASE HandlerEnds(r)
  BY <1>2, <1>3, EndingKeepsKeys
<1> DEFINE row == [Unwritten EXCEPT !.name = n, !.secret = s,
                                    !.tag = AuthTypeOf[s]]
           made == [NewHandler EXCEPT !.at = "looked", !.op = "create",
                                      !.makes = ~account, !.row = row]
<1>4. CASE HandlerBecomes(r, made)
  <2>1. row \in Credential
    <3>1. s \in AnySecret /\ AuthTypeOf[s] \in Tags
      BY DEF AnySecret, Tags
    <3>2. Unwritten \in Credential
      BY NewIsTyped
    <3>3. QED
      BY <3>1, <3>2 DEF Credential
  <2> HIDE DEF row
  <2>2. /\ NewHandler \in Request /\ NewHandler.asked = FALSE
        /\ account \in BOOLEAN
    BY NewIsTyped DEF KeyInv, KeyTyped
  <2>3. made \in Request /\ made.at = "looked" /\ made.row = row
    BY <2>1, <2>2 DEF Request
  <2> HIDE DEF made
  <2>4. QED
    BY <1>2, <1>4, <2>1, <2>3, ReadingKeepsKeys
       DEF ChangesInOrder
<1>5. QED
  BY <1>1, <1>3, <1>4

(* A request with its copy of a row, to change it.                         *)
LEMMA CopyingKeepsKeys ==
  ASSUME KeyInv, NEW r \in Handlers, UNCHANGED KeyTables,
         inUse' \subseteq 1 .. MaxRows,
         NEW copy \in credentials, NEW row \in Credential, row.id = copy.id,
         NEW asked \in BOOLEAN, NEW op \in {"patch", "verify"},
         ~asked => row.secret = copy.secret /\ row.verified = copy.verified,
         ~(op = "patch" /\ asked) => row.secret = copy.secret,
         NEW t \in Request, t.at = "changing", t.op = op, t.copy = copy,
         t.row = row, t.asked = asked, HandlerBecomes(r, t)
  PROVE  KeyInv'
<1>1. copy.id \in 1 .. MaxRows
  <2>1. /\ copy.id \in 1 .. nextCredential - 1
        /\ nextCredential \in 1 .. MaxRows + 1 /\ MaxRows \in Nat
    BY KeyAssumption DEF KeyAssumption, KeyInv, KeyTyped, KeyTypeOK
  <2>2. QED
    BY <2>1
<1>2. ChangesInOrder(t)
  BY <1>1 DEF ChangesInOrder, Replaces
<1>3. QED
  BY <1>2, ReadingKeepsKeys

LEMMA PatchReadKeepsKeys ==
  ASSUME KeyInv, NEW r \in Handlers, PatchRead(r)
  PROVE  KeyInv'
<1>1. UNCHANGED KeyTables /\ inUse' \subseteq 1 .. MaxRows
  BY DEF PatchRead, World, KeyInv, KeyTypeOK
<1>2. CASE HandlerEnds(r)
  BY <1>1, <1>2, EndingKeepsKeys
<1>3. credentials \subseteq Credential
  BY DEF KeyInv, KeyTyped
<1>4. ASSUME NEW copy \in credentials, NEW n \in Names,
             HandlerBecomes(r,
                [NewHandler EXCEPT !.at = "changing", !.op = "patch",
                    !.copy = copy, !.row = [copy EXCEPT !.name = n]])
      PROVE  KeyInv'
  <2> DEFINE row == [copy EXCEPT !.name = n]
  <2>1. /\ row \in Credential /\ row.id = copy.id /\ row.secret = copy.secret
        /\ row.verified = copy.verified
    BY <1>3 DEF Credential
  <2> HIDE DEF row
  <2> DEFINE t == [NewHandler EXCEPT !.at = "changing", !.op = "patch",
                                  !.copy = copy, !.row = row]
  <2>2. HandlerBecomes(r, t)
    BY <1>4 DEF row
  <2>3. /\ t \in Request /\ t.at = "changing" /\ t.op = "patch"
        /\ t.copy = copy /\ t.row = row /\ t.asked = FALSE
    BY <1>3, <2>1, NewIsTyped DEF Request
  <2> HIDE DEF t
  <2>4. QED
    BY <1>1, <2>1, <2>2, <2>3, CopyingKeepsKeys
<1>5. ASSUME NEW copy \in credentials,
             NEW tag \in {NoTag} \union {AuthTypeOf[s] : s \in Secrets},
             HandlerBecomes(r,
                [NewHandler EXCEPT !.at = "changing", !.op = "patch",
                    !.copy = copy, !.row = [copy EXCEPT !.tag = tag]])
      PROVE  KeyInv'
  <2> DEFINE row == [copy EXCEPT !.tag = tag]
  <2>1. tag \in Tags
    BY DEF Tags, AnySecret
  <2>2. /\ row \in Credential /\ row.id = copy.id /\ row.secret = copy.secret
        /\ row.verified = copy.verified
    BY <1>3, <2>1 DEF Credential
  <2> HIDE DEF row
  <2> DEFINE t == [NewHandler EXCEPT !.at = "changing", !.op = "patch",
                                  !.copy = copy, !.row = row]
  <2>3. HandlerBecomes(r, t)
    BY <1>5 DEF row
  <2>4. /\ t \in Request /\ t.at = "changing" /\ t.op = "patch"
        /\ t.copy = copy /\ t.row = row /\ t.asked = FALSE
    BY <1>3, <2>2, NewIsTyped DEF Request
  <2> HIDE DEF t
  <2>5. QED
    BY <1>1, <2>2, <2>3, <2>4, CopyingKeepsKeys
<1>6. ASSUME NEW copy \in credentials, NEW s \in Secrets,
             HandlerBecomes(r,
                [NewHandler EXCEPT !.at = "changing", !.op = "patch",
                    !.copy = copy, !.asked = TRUE,
                    !.row = [copy EXCEPT !.secret = s, !.tag = AuthTypeOf[s],
                                         !.verified = Verified(s)]])
      PROVE  KeyInv'
  <2> DEFINE row == [copy EXCEPT !.secret = s, !.tag = AuthTypeOf[s],
                                 !.verified = Verified(s)]
  <2>1. s \in AnySecret /\ AuthTypeOf[s] \in Tags /\ Verified(s) \in BOOLEAN
    BY DEF AnySecret, Tags, Verified
  <2>2. row \in Credential /\ row.id = copy.id
    BY <1>3, <2>1 DEF Credential
  <2> HIDE DEF row
  <2> DEFINE t == [NewHandler EXCEPT !.at = "changing", !.op = "patch",
                                  !.copy = copy, !.asked = TRUE, !.row = row]
  <2>3. HandlerBecomes(r, t)
    BY <1>6 DEF row
  <2>4. /\ t \in Request /\ t.at = "changing" /\ t.op = "patch"
        /\ t.copy = copy /\ t.row = row /\ t.asked = TRUE
    BY <1>3, <2>2, NewIsTyped DEF Request
  <2> HIDE DEF t
  <2>5. QED
    BY <1>1, <2>2, <2>3, <2>4, CopyingKeepsKeys
<1>7. QED
  BY <1>2, <1>4, <1>5, <1>6 DEF PatchRead

LEMMA VerifyReadKeepsKeys ==
  ASSUME KeyInv, NEW r \in Handlers, VerifyRead(r)
  PROVE  KeyInv'
<1>1. UNCHANGED KeyTables /\ inUse' \subseteq 1 .. MaxRows
  BY DEF VerifyRead, World, KeyInv, KeyTypeOK
<1>2. PICK copy \in credentials :
        HandlerBecomes(r,
            [NewHandler EXCEPT !.at = "changing", !.op = "verify",
                !.copy = copy, !.asked = TRUE,
                !.row = [copy EXCEPT !.verified =
                            IF demo THEN @ ELSE Verified(copy.secret)]])
  BY DEF VerifyRead
<1>3. copy \in Credential
  BY DEF KeyInv, KeyTyped
<1> DEFINE verdict == IF demo THEN copy.verified ELSE Verified(copy.secret)
           row == [copy EXCEPT !.verified = verdict]
           t == [NewHandler EXCEPT !.at = "changing", !.op = "verify",
                                   !.copy = copy, !.asked = TRUE, !.row = row]
<1>4. HandlerBecomes(r, t)
  BY <1>2
<1>5. verdict \in BOOLEAN
  <2>1. Verified(copy.secret) \in BOOLEAN
    BY DEF Verified
  <2>2. copy.verified \in BOOLEAN
    BY <1>3 DEF Credential
  <2>3. CASE demo
    BY <2>2, <2>3
  <2>4. CASE ~demo
    BY <2>1, <2>4
  <2>5. QED
    BY <2>3, <2>4
<1> HIDE DEF verdict
<1>6. row \in Credential /\ row.id = copy.id /\ row.secret = copy.secret
  BY <1>3, <1>5 DEF Credential
<1> HIDE DEF row
<1>7. /\ t \in Request /\ t.at = "changing" /\ t.op = "verify"
      /\ t.copy = copy /\ t.row = row /\ t.asked = TRUE
  BY <1>3, <1>6, NewIsTyped DEF Request
<1> HIDE DEF t
<1>8. QED
  BY <1>1, <1>4, <1>6, <1>7, CopyingKeepsKeys

LEMMA DeleteLookKeepsKeys ==
  ASSUME KeyInv, NEW r \in Handlers, DeleteLook(r)
  PROVE  KeyInv'
<1>1. UNCHANGED KeyTables /\ inUse' \subseteq 1 .. MaxRows
  BY DEF DeleteLook, World, KeyInv, KeyTypeOK
<1>2. CASE HandlerEnds(r)
  BY <1>1, <1>2, EndingKeepsKeys
<1>3. ASSUME NEW row \in credentials,
             HandlerBecomes(r, [NewHandler EXCEPT !.at = "deleting",
                                    !.op = "delete", !.row = row])
      PROVE  KeyInv'
  <2> DEFINE t == [NewHandler EXCEPT !.at = "deleting", !.op = "delete",
                                     !.row = row]
  <2>1. row \in Credential
    BY DEF KeyInv, KeyTyped
  <2>2. HandlerBecomes(r, t)
    BY <1>3
  <2>3. t \in Request /\ t.at = "deleting"
    BY <2>1, NewIsTyped DEF Request
  <2> HIDE DEF t
  <2>4. QED
    BY <1>1, <2>2, <2>3, ReadingKeepsKeys DEF ChangesInOrder
<1>4. QED
  BY <1>2, <1>3 DEF DeleteLook

(* An inserted row has an id that was never given, and a name of no other  *)
(* row: neither committed nor on its way.                                  *)
LEMMA InsertingKeepsKeys ==
  ASSUME KeyInv, NEW r \in Handlers, CreateInsert(r)
  PROVE  KeyInv'
<1> DEFINE old == handler[r]
           verdict == Verified(old.row.secret)
           t == [old EXCEPT !.at = "inserted", !.row.id = nextCredential,
                            !.row.verified = verdict]
<1>1. /\ old \in Request /\ old.row \in Credential /\ verdict \in BOOLEAN
      /\ old.at = "looked" /\ nextCredential <= MaxRows
      /\ nextCredential \in 1 .. MaxRows + 1 /\ MaxRows \in Nat
      /\ UNCHANGED <<World, account, credentials, lastAudit, overwritten>>
  BY KeyAssumption
     DEF KeyAssumption, CreateInsert, KeyInv, KeyTyped, Request, Verified
<1>2. CASE HandlerEnds(r) /\ nextCredential' = nextCredential
  BY <1>1, <1>2, EndingKeepsKeys DEF KeyTables, World, KeyInv, KeyTypeOK
<1>3. CASE /\ nextCredential' = nextCredential + 1 /\ HandlerBecomes(r, t)
           /\ \A row \in credentials : row.name # old.row.name
           /\ \A q \in Uncommitted(r) : handler[q].row.name # old.row.name
  <2>1. /\ t \in Request /\ t.at = "inserted" /\ t.row.id = nextCredential
        /\ t.row.name = old.row.name
    <3> HIDE DEF verdict, old
    <3> DEFINE row == [old.row EXCEPT !.id = nextCredential,
                                      !.verified = verdict]
    <3>1. /\ row \in Credential /\ row.id = nextCredential
          /\ row.name = old.row.name
      <4>1. nextCredential \in Nat
        BY <1>1
      <4>2. /\ [old.row EXCEPT !.id = nextCredential] \in Credential
            /\ verdict \in BOOLEAN
        BY <1>1, <4>1 DEF Credential
      <4>3. QED
        BY <1>1, <4>1, <4>2 DEF Credential
    <3>2. /\ t \in Request /\ t.at = "inserted" /\ t.row = row
      BY <1>1, <3>1 DEF Request
    <3>3. QED
      BY <3>1, <3>2
  <2>2. handler' = [handler EXCEPT ![r] = t]
    BY <1>3 DEF HandlerBecomes
  <2> HIDE DEF t, verdict
  <2>3. /\ handler' \in [Handlers -> Request] /\ handler'[r] = t
        /\ \A q \in Handlers \ {r} : handler'[q] = handler[q]
    BY <2>1, <2>2 DEF KeyInv, KeyTyped
  <2>4. ChangesInOrder(t)
    BY <1>1, <2>1 DEF KeyInv, HandlersInOrder, ChangesInOrder
  <2>5. HandlersInOrder'
    <3>1. \A q \in Handlers : ChangesInOrder(handler'[q])
      BY <2>3, <2>4 DEF KeyInv, HandlersInOrder
    <3>2. QED
      BY <3>1 DEF HandlersInOrder, ChangesInOrder, Replaces
  <2>6. KeyTyped'
    BY <1>1, <1>3, <2>3 DEF KeyInv, KeyTyped
  <2>7. KeyTypeOK' /\ CredentialSaysWhatItIs'
    <3>1. UNCHANGED <<account, credentials, lastAudit, overwritten, inUse>>
      BY <1>1 DEF World
    <3>2. \A row \in credentials : row.id \in 1 .. nextCredential' - 1
      BY <1>1, <1>3 DEF KeyInv, KeyTypeOK
    <3>3. QED
      BY <3>1, <3>2 DEF KeyInv, KeyTypeOK, CredentialSaysWhatItIs
  <2>8. InsertedApart'
    <3>1. \A row \in credentials : row.id < nextCredential
      BY <1>1 DEF KeyInv, KeyTypeOK
    <3>2. \A q \in Handlers \ {r} : handler[q].at = "inserted" =>
            /\ handler[q].row.id < nextCredential
            /\ handler[q].row.name # old.row.name
      BY <1>1, <1>3 DEF KeyInv, InsertedApart, Uncommitted
    <3>3. /\ credentials' = credentials
          /\ nextCredential \in 1 .. nextCredential' - 1
          /\ 1 .. nextCredential - 1 \subseteq 1 .. nextCredential' - 1
      BY <1>1, <1>3
    <3>4. ASSUME NEW q \in Handlers, handler'[q].at = "inserted"
          PROVE  /\ handler'[q].row.id \in 1 .. nextCredential' - 1
                 /\ \A row \in credentials' :
                        /\ row.id # handler'[q].row.id
                        /\ row.name # handler'[q].row.name
                 /\ \A p \in Handlers \ {q} : handler'[p].at = "inserted" =>
                        /\ handler'[p].row.id # handler'[q].row.id
                        /\ handler'[p].row.name # handler'[q].row.name
      <4>1. CASE q = r
        BY <1>1, <1>3, <2>1, <2>3, <3>1, <3>2, <3>3, <4>1
      <4>2. CASE q # r
        <5>1. handler'[q] = handler[q] /\ handler[q].at = "inserted"
          BY <2>3, <3>4, <4>2
        <5>2. /\ handler[q].row.id \in 1 .. nextCredential - 1
              /\ \A row \in credentials :
                    /\ row.id # handler[q].row.id
                    /\ row.name # handler[q].row.name
              /\ \A p \in Handlers \ {q} : handler[p].at = "inserted" =>
                    /\ handler[p].row.id # handler[q].row.id
                    /\ handler[p].row.name # handler[q].row.name
          BY <5>1 DEF KeyInv, InsertedApart
        <5>3. /\ handler[q].row.id # nextCredential
              /\ handler[q].row.name # old.row.name
          BY <1>1, <3>2, <4>2, <5>1, <5>2
        <5>4. QED
          BY <2>1, <2>3, <3>3, <4>2, <5>1, <5>2, <5>3
      <4>3. QED
        BY <4>1, <4>2
    <3>5. QED
      BY <3>4 DEF InsertedApart
  <2>9. QED
    BY <2>5, <2>6, <2>7, <2>8 DEF KeyInv
<1>4. QED
  BY <1>2, <1>3 DEF CreateInsert

LEMMA CreateCommitKeepsKeys ==
  ASSUME KeyInv, NEW r \in Handlers, CreateCommit(r)
  PROVE  KeyInv'
<1> DEFINE old == handler[r]
           ended == [old EXCEPT !.at = "closed"]
           new == old.row
           entry == [secret |-> new.secret, result |-> new.verified]
<1>1. /\ old \in Request /\ new \in Credential /\ old.at = "inserted"
      /\ account' = TRUE /\ credentials' = credentials \union {new}
      /\ lastAudit' = [lastAudit EXCEPT ![new.id] = entry]
      /\ handler' = [handler EXCEPT ![r] = ended]
      /\ UNCHANGED <<World, nextCredential, overwritten>>
  BY DEF CreateCommit, KeyInv, KeyTyped, Request, HandlerEnds,
         HandlerBecomes, Audit
<1>2. /\ ended \in Request /\ ended.at = "closed"
      /\ ChangesInOrder(ended)
  BY <1>1, EndedIsInOrder
<1>3. entry \in AuditEntry
  BY <1>1 DEF AuditEntry, Credential
<1>4. /\ new.id \in 1 .. nextCredential - 1
      /\ \A row \in credentials : row.id # new.id /\ row.name # new.name
      /\ \A q \in Handlers \ {r} : handler[q].at = "inserted" =>
            handler[q].row.id # new.id /\ handler[q].row.name # new.name
  BY <1>1 DEF KeyInv, InsertedApart
<1>5. new.id \in 1 .. MaxRows /\ new.secret \in AnySecret
  <2>1. nextCredential \in 1 .. MaxRows + 1 /\ MaxRows \in Nat
    BY KeyAssumption DEF KeyAssumption, KeyInv, KeyTyped
  <2>2. QED
    BY <1>1, <1>4, <2>1 DEF Credential
<1>6. entry = [secret |-> new.secret, result |-> new.verified]
  OBVIOUS
<1> HIDE DEF entry, ended, new, old
<1>7. /\ handler' \in [Handlers -> Request] /\ handler'[r] = ended
      /\ \A q \in Handlers \ {r} : handler'[q] = handler[q]
  BY <1>1, <1>2 DEF KeyInv, KeyTyped
<1>8. /\ lastAudit' \in [1 .. MaxRows -> AuditEntry]
      /\ lastAudit'[new.id] = entry
      /\ \A id \in 1 .. MaxRows \ {new.id} : lastAudit'[id] = lastAudit[id]
  BY <1>1, <1>3, <1>5 DEF KeyInv, KeyTyped
<1>9. KeyTyped'
  BY <1>1, <1>7, <1>8 DEF KeyInv, KeyTyped
<1>10. HandlersInOrder'
  <2>1. \A q \in Handlers : ChangesInOrder(handler'[q])
    BY <1>2, <1>7 DEF KeyInv, HandlersInOrder
  <2>2. QED
    BY <2>1 DEF HandlersInOrder, ChangesInOrder, Replaces
<1>11. InsertedApart'
  BY <1>1, <1>2, <1>4, <1>7 DEF KeyInv, InsertedApart
<1>12. KeyTypeOK'
  BY <1>1, <1>4, <1>5 DEF KeyInv, KeyTypeOK, World, AnySecret
<1>13. CredentialSaysWhatItIs'
  <2> SUFFICES ASSUME NEW row \in credentials', row.id \notin overwritten
               PROVE  lastAudit'[row.id] = [secret |-> row.secret,
                                            result |-> row.verified]
    BY <1>1 DEF CredentialSaysWhatItIs
  <2>1. CASE row = new
    BY <1>4, <1>6, <1>8, <2>1
  <2>2. CASE row \in credentials
    <3>1. row.id \in 1 .. MaxRows \ {new.id}
      <4>1. /\ row.id \in 1 .. nextCredential - 1
            /\ nextCredential \in 1 .. MaxRows + 1 /\ MaxRows \in Nat
        BY <2>2, KeyAssumption DEF KeyAssumption, KeyInv, KeyTyped, KeyTypeOK
      <4>2. QED
        BY <1>4, <2>2, <4>1
    <3>2. lastAudit'[row.id] = lastAudit[row.id]
      BY <1>8, <3>1
    <3>3. QED
      BY <2>2, <3>2 DEF KeyInv, CredentialSaysWhatItIs
  <2>3. QED
    BY <1>1, <2>1, <2>2
<1>14. QED
  BY <1>9, <1>10, <1>11, <1>12, <1>13 DEF KeyInv

(* What is written is column by column the row's or the request's.         *)
LEMMA MergedFields ==
  ASSUME NEW row \in Credential, NEW t \in Request
  PROVE  /\ Merged(row, t) \in Credential
         /\ Merged(row, t).id =
                IF t.row.id = t.copy.id THEN row.id ELSE t.row.id
         /\ Merged(row, t).name =
                IF t.row.name = t.copy.name THEN row.name ELSE t.row.name
         /\ Merged(row, t).secret =
                IF t.row.secret = t.copy.secret /\ ~Replaces(t)
                THEN row.secret ELSE t.row.secret
         /\ Merged(row, t).tag =
                IF t.row.tag = t.copy.tag THEN row.tag ELSE t.row.tag
         /\ Merged(row, t).verified =
                IF t.row.verified = t.copy.verified
                THEN row.verified ELSE t.row.verified
<1>1. /\ DOMAIN row = {"id", "name", "secret", "tag", "verified"}
      /\ t.row \in Credential /\ t.copy \in Credential
  BY DEF Credential, Request
<1> DEFINE m == Merged(row, t)
           Column(c) == IF /\ t.row[c] = t.copy[c]
                           /\ ~(c = "secret" /\ Replaces(t))
                        THEN row[c] ELSE t.row[c]
<1>2. m = [c \in {"id", "name", "secret", "tag", "verified"} |-> Column(c)]
  BY <1>1, Zenon DEF Merged
<1>3. /\ m["id"] = Column("id") /\ m["name"] = Column("name")
      /\ m["secret"] = Column("secret") /\ m["tag"] = Column("tag")
      /\ m["verified"] = Column("verified")
  BY <1>2, Zenon
<1>4. /\ m.id = IF t.row.id = t.copy.id THEN row.id ELSE t.row.id
      /\ m.name = IF t.row.name = t.copy.name THEN row.name ELSE t.row.name
      /\ m.secret = IF t.row.secret = t.copy.secret /\ ~Replaces(t)
                    THEN row.secret ELSE t.row.secret
      /\ m.tag = IF t.row.tag = t.copy.tag THEN row.tag ELSE t.row.tag
      /\ m.verified = IF t.row.verified = t.copy.verified
                      THEN row.verified ELSE t.row.verified
  BY <1>3, Zenon
<1> HIDE DEF m, Column
<1>5. /\ m.id \in Nat /\ m.name \in Names \union {NoTag}
      /\ m.secret \in AnySecret /\ m.tag \in Tags /\ m.verified \in BOOLEAN
  <2>1. \A some \in {row, t.row} :
          /\ some.id \in Nat /\ some.name \in Names \union {NoTag}
          /\ some.secret \in AnySecret /\ some.tag \in Tags
          /\ some.verified \in BOOLEAN
    BY <1>1 DEF Credential
  <2>2. QED
    BY <1>4, <2>1, Zenon
<1>6. m = [id |-> m.id, name |-> m.name, secret |-> m.secret, tag |-> m.tag,
           verified |-> m.verified]
  BY <1>2
<1>7. m \in Credential
  BY <1>5, <1>6, Zenon DEF Credential
<1>8. QED
  BY <1>4, <1>7 DEF m

(* A commit changes the row its request copied, if it is still there: its  *)
(* verdict is the row's if the copy was still the row, and marked if not;  *)
(* without a verdict it leaves the row's secret and verdict what they are. *)
LEMMA ChangeCommitKeepsKeys ==
  ASSUME KeyInv, NEW r \in Handlers, ChangeCommit(r)
  PROVE  KeyInv'
<1> DEFINE t == handler[r]
           id == t.row.id
           current == {row \in credentials : row.id = id}
           entry == [secret |-> t.row.secret, result |-> t.row.verified]
           ended == [t EXCEPT !.at = "closed"]
<1>1. /\ t \in Request /\ t.row \in Credential /\ t.copy \in Credential
      /\ t.at = "changing" /\ t.asked \in BOOLEAN
      /\ UNCHANGED <<World, account, nextCredential>>
      /\ \A q \in Handlers \ {r} : handler[q].at = "inserted" =>
            handler[q].row.name # t.row.name
      /\ credentials \subseteq Credential /\ handler \in [Handlers -> Request]
      /\ lastAudit \in [1 .. MaxRows -> AuditEntry]
  BY DEF ChangeCommit, KeyInv, KeyTyped, Request, Uncommitted
<1>2. /\ id = t.copy.id /\ id \in 1 .. MaxRows
      /\ ~t.asked => /\ t.row.secret = t.copy.secret
                     /\ t.row.verified = t.copy.verified
      /\ ~Replaces(t) => t.row.secret = t.copy.secret
      /\ Replaces(t) => t.asked
  BY <1>1 DEF KeyInv, HandlersInOrder, ChangesInOrder, Replaces
<1>3. CASE HandlerEnds(r)
           /\ UNCHANGED <<credentials, lastAudit, overwritten>>
  BY <1>1, <1>3, EndingKeepsKeys DEF KeyTables, World, KeyInv, KeyTypeOK
<1>4. CASE /\ CommitChanges(r)
           /\ t.row.name # t.copy.name => \A other \in credentials :
                other.id # id => other.name # t.row.name
  <2>1. /\ credentials' = (credentials \ current)
                            \union {Merged(row, t) : row \in current}
        /\ overwritten' =
              IF t.asked /\ current # {}
              THEN (overwritten \ {id})
                     \union CredentialIds({row \in current : Outdated(row, t)})
              ELSE overwritten
        /\ lastAudit' = IF t.asked /\ current # {}
                        THEN [lastAudit EXCEPT ![id] = entry] ELSE lastAudit
        /\ handler' = [handler EXCEPT ![r] = ended]
    BY <1>4 DEF CommitChanges, Audit, HandlerEnds, HandlerBecomes
  <2>2. /\ ended \in Request /\ ended.at = "closed"
        /\ ChangesInOrder(ended)
    BY <1>1, EndedIsInOrder
  <2>3. entry \in AuditEntry
    BY <1>1 DEF AuditEntry, Credential
  <2>4. entry = [secret |-> t.row.secret, result |-> t.row.verified]
    OBVIOUS
  <2> HIDE DEF entry, ended
  <2>5. /\ handler' \in [Handlers -> Request] /\ handler'[r] = ended
        /\ \A q \in Handlers \ {r} : handler'[q] = handler[q]
    BY <1>1, <2>1, <2>2
  <2>6. /\ lastAudit' \in [1 .. MaxRows -> AuditEntry]
        /\ t.asked /\ current # {} => lastAudit'[id] = entry
        /\ ~t.asked => lastAudit' = lastAudit
        /\ \A other \in 1 .. MaxRows \ {id} :
              lastAudit'[other] = lastAudit[other]
    BY <1>1, <1>2, <2>1, <2>3
  <2>7. \A cur \in current :
          LET m == Merged(cur, t)
          IN  /\ cur \in credentials /\ cur.id = id
              /\ m \in Credential /\ m.id = id
              /\ m.name = IF t.row.name = t.copy.name
                          THEN cur.name ELSE t.row.name
              /\ m.secret = IF t.row.secret = t.copy.secret /\ ~Replaces(t)
                            THEN cur.secret ELSE t.row.secret
              /\ m.tag = IF t.row.tag = t.copy.tag THEN cur.tag ELSE t.row.tag
              /\ m.verified = IF t.row.verified = t.copy.verified
                              THEN cur.verified ELSE t.row.verified
    BY <1>1, <1>2, MergedFields
  <2>8. \A row \in credentials' :
          \/ row \in credentials /\ row.id # id
          \/ \E cur \in current : row = Merged(cur, t)
    BY <2>1
  <2>9. \A cur, other \in current : cur = other
    BY DEF KeyInv, KeyTypeOK
  <2>10. ASSUME NEW cur \in current, NEW other \in credentials, other.id # id
         PROVE  other.name # Merged(cur, t).name
    BY <1>4, <2>7, <2>10 DEF KeyInv, KeyTypeOK
  <2>11. KeyTyped'
    BY <1>1, <2>5, <2>6, <2>7, <2>8 DEF KeyInv, KeyTyped
  <2>12. HandlersInOrder'
    <3>1. \A q \in Handlers : ChangesInOrder(handler'[q])
      BY <2>2, <2>5 DEF KeyInv, HandlersInOrder
    <3>2. QED
      BY <3>1 DEF HandlersInOrder, ChangesInOrder, Replaces
  <2>13. InsertedApart'
    <3>1. ASSUME NEW q \in Handlers \ {r}, handler[q].at = "inserted",
                 NEW row \in credentials'
          PROVE  row.id # handler[q].row.id /\ row.name # handler[q].row.name
      <4>1. \A c \in credentials :
              c.id # handler[q].row.id /\ c.name # handler[q].row.name
        BY <3>1 DEF KeyInv, InsertedApart
      <4>2. CASE row \in credentials
        BY <4>1, <4>2
      <4>3. CASE \E cur \in current : row = Merged(cur, t)
        BY <1>1, <2>7, <3>1, <4>1, <4>3
      <4>4. QED
        BY <2>8, <4>2, <4>3
    <3>2. nextCredential' = nextCredential
      BY <1>1
    <3>3. QED
      BY <2>2, <2>5, <3>1, <3>2 DEF KeyInv, InsertedApart
  <2>14. KeyTypeOK'
    <3>1. ASSUME NEW row \in credentials', NEW other \in credentials',
                 row.id = other.id \/ row.name = other.name
          PROVE  row = other
      <4>1. CASE row \in credentials /\ row.id # id
                 /\ other \in credentials /\ other.id # id
        BY <3>1, <4>1 DEF KeyInv, KeyTypeOK
      <4>2. CASE row \in credentials /\ row.id # id
                 /\ \E cur \in current : other = Merged(cur, t)
        BY <2>7, <2>10, <3>1, <4>2
      <4>3. CASE other \in credentials /\ other.id # id
                 /\ \E cur \in current : row = Merged(cur, t)
        BY <2>7, <2>10, <3>1, <4>3
      <4>4. CASE /\ \E cur \in current : row = Merged(cur, t)
                 /\ \E cur \in current : other = Merged(cur, t)
        BY <2>9, <4>4
      <4>5. QED
        BY <2>8, <4>1, <4>2, <4>3, <4>4
    <3>2. ASSUME NEW row \in credentials'
          PROVE  /\ row.id \in 1 .. nextCredential' - 1
                 /\ row.secret \in Secrets \union {SeedSecret}
      <4>1. row \in Credential
        BY <2>11 DEF KeyTyped
      <4>2. row.id \in CredentialIds(credentials)
        BY <2>7, <2>8 DEF CredentialIds
      <4>3. row.id \in 1 .. nextCredential' - 1
        BY <1>1, <4>2 DEF KeyInv, KeyTypeOK, CredentialIds
      <4>4. QED
        BY <4>1, <4>3 DEF Credential, AnySecret
    <3>3. credentials' # {} => account'
      BY <1>1, <2>7, <2>8 DEF KeyInv, KeyTypeOK
    <3>4. overwritten' \subseteq overwritten \union {id}
      BY <2>1 DEF CredentialIds
    <3>5. inUse' = inUse
      BY <1>1 DEF World
    <3>6. overwritten' \union inUse' \subseteq 1 .. MaxRows
      BY <1>2, <3>4, <3>5 DEF KeyInv, KeyTypeOK
    <3>7. QED
      BY <3>1, <3>2, <3>3, <3>6 DEF KeyTypeOK
  <2>15. CredentialSaysWhatItIs'
    <3> SUFFICES ASSUME NEW row \in credentials', row.id \notin overwritten'
                 PROVE  lastAudit'[row.id] = [secret |-> row.secret,
                                              result |-> row.verified]
      BY DEF CredentialSaysWhatItIs
    <3>1. \A c \in credentials : c.id \notin overwritten =>
            lastAudit[c.id] = [secret |-> c.secret, result |-> c.verified]
      BY DEF KeyInv, CredentialSaysWhatItIs
    <3>2. CASE row \in credentials /\ row.id # id
      <4>1. row.id \in 1 .. MaxRows \ {id}
        <5>1. /\ row.id \in 1 .. nextCredential - 1
              /\ nextCredential \in 1 .. MaxRows + 1 /\ MaxRows \in Nat
          BY <3>2, KeyAssumption DEF KeyAssumption, KeyInv, KeyTyped, KeyTypeOK
        <5>2. QED
          BY <3>2, <5>1
      <4>2. lastAudit'[row.id] = lastAudit[row.id]
        BY <2>6, <4>1
      <4>3. row.id \notin overwritten
        BY <2>1, <3>2
      <4>4. QED
        BY <3>1, <3>2, <4>2, <4>3
    <3>3. ASSUME NEW cur \in current, row = Merged(cur, t)
          PROVE  lastAudit'[row.id] = [secret |-> row.secret,
                                       result |-> row.verified]
      <4>1. row.id = id /\ cur.id = id /\ cur \in credentials
        BY <2>7, <3>3
      <4>2. CASE t.asked
        <5>1. cur.secret = t.copy.secret /\ cur.verified = t.copy.verified
          BY <2>1, <4>1, <4>2 DEF CredentialIds, Outdated
        <5>2. row.secret = t.row.secret /\ row.verified = t.row.verified
          BY <1>2, <2>7, <3>3, <5>1, Zenon
        <5>3. lastAudit'[id] = entry
          BY <2>6, <4>2
        <5>4. QED
          BY <2>4, <4>1, <5>2, <5>3
      <4>3. CASE ~t.asked
        <5>1. row.secret = cur.secret /\ row.verified = cur.verified
          BY <1>2, <2>7, <3>3, <4>3, Zenon
        <5>2. lastAudit' = lastAudit /\ overwritten' = overwritten
          BY <2>1, <4>3
        <5>3. QED
          BY <3>1, <4>1, <5>1, <5>2
      <4>4. QED
        BY <4>2, <4>3
    <3>4. QED
      BY <2>8, <3>2, <3>3
  <2>16. QED
    BY <2>11, <2>12, <2>13, <2>14, <2>15 DEF KeyInv
<1>5. QED
  BY <1>3, <1>4 DEF ChangeCommit

LEMMA DeleteCommitKeepsKeys ==
  ASSUME KeyInv, NEW r \in Handlers, DeleteCommit(r)
  PROVE  KeyInv'
<1> DEFINE ended == [handler[r] EXCEPT !.at = "closed"]
<1>1. /\ handler[r] \in Request /\ handler \in [Handlers -> Request]
      /\ handler' = [handler EXCEPT ![r] = ended]
      /\ credentials' \subseteq credentials /\ inUse' \subseteq inUse
      /\ UNCHANGED <<account, nextCredential, lastAudit, overwritten>>
  BY DEF DeleteCommit, KeyInv, KeyTyped, HandlerEnds, HandlerBecomes
<1>2. /\ ended \in Request /\ ended.at = "closed"
      /\ ChangesInOrder(ended)
  BY <1>1, EndedIsInOrder
<1> HIDE DEF ended
<1>3. /\ handler' \in [Handlers -> Request] /\ handler'[r] = ended
      /\ \A q \in Handlers \ {r} : handler'[q] = handler[q]
  BY <1>1, <1>2
<1>4. KeyTyped' /\ KeyTypeOK' /\ CredentialSaysWhatItIs'
  BY <1>1, <1>3 DEF KeyInv, KeyTyped, KeyTypeOK, CredentialSaysWhatItIs
<1>5. HandlersInOrder'
  <2>1. \A q \in Handlers : ChangesInOrder(handler'[q])
    BY <1>2, <1>3 DEF KeyInv, HandlersInOrder
  <2>2. QED
    BY <2>1 DEF HandlersInOrder, ChangesInOrder, Replaces
<1>6. InsertedApart'
  BY <1>1, <1>2, <1>3 DEF KeyInv, InsertedApart
<1>7. QED
  BY <1>4, <1>5, <1>6 DEF KeyInv

(* The invariant speaks of the requests and the tables, and of what is in  *)
(* use only that it has the ids of rows.                                   *)
LEMMA KeysStand ==
  ASSUME KeyInv,
         UNCHANGED <<handler, account, credentials, nextCredential, lastAudit,
                     overwritten>>,
         inUse' \subseteq 1 .. MaxRows
  PROVE  KeyInv'
<1>1. KeyTyped'
  BY DEF KeyInv, KeyTyped
<1>2. HandlersInOrder'
  BY DEF KeyInv, HandlersInOrder, ChangesInOrder, Replaces
<1>3. InsertedApart'
  BY DEF KeyInv, InsertedApart
<1>4. KeyTypeOK'
  BY DEF KeyInv, KeyTypeOK
<1>5. CredentialSaysWhatItIs'
  BY DEF KeyInv, CredentialSaysWhatItIs
<1>6. QED
  BY <1>1, <1>2, <1>3, <1>4, <1>5 DEF KeyInv

(* The world's turns change neither the requests nor what they read.       *)
LEMMA TurnKeepsKeys ==
  ASSUME KeyInv, Turn
  PROVE  KeyInv'
<1>1. /\ UNCHANGED <<handler, account, credentials, nextCredential, lastAudit,
                     overwritten>>
      /\ inUse' \subseteq inUse \union CredentialIds(credentials)
  BY DEF Turn, KeyTables, CredentialIds
<1>2. CredentialIds(credentials) \subseteq 1 .. MaxRows
  <2>1. /\ CredentialIds(credentials) \subseteq 1 .. nextCredential - 1
        /\ nextCredential \in 1 .. MaxRows + 1 /\ MaxRows \in Nat
    BY KeyAssumption
       DEF KeyAssumption, KeyInv, KeyTyped, KeyTypeOK, CredentialIds
  <2>2. QED
    BY <2>1
<1>3. inUse' \subseteq 1 .. MaxRows
  BY <1>1, <1>2 DEF KeyInv, KeyTypeOK
<1>4. QED
  BY <1>1, <1>3, KeysStand

LEMMA KeyStep == KeyInv /\ [KeyNext]_keyVars => KeyInv'
<1> SUFFICES ASSUME KeyInv, [KeyNext]_keyVars PROVE KeyInv'
  OBVIOUS
<1>1. ASSUME NEW r \in Handlers,
             \/ CreateLook(r) \/ CreateInsert(r) \/ CreateCommit(r)
             \/ PatchRead(r) \/ VerifyRead(r) \/ ChangeCommit(r)
             \/ DeleteLook(r) \/ DeleteCommit(r)
      PROVE  KeyInv'
  BY <1>1, LookingKeepsKeys, InsertingKeepsKeys, CreateCommitKeepsKeys,
     PatchReadKeepsKeys, VerifyReadKeepsKeys, ChangeCommitKeepsKeys,
     DeleteLookKeepsKeys, DeleteCommitKeepsKeys
<1>2. CASE Turn
  BY <1>2, TurnKeepsKeys
<1>3. CASE UNCHANGED keyVars
  <2>1. /\ UNCHANGED <<handler, account, credentials, nextCredential,
                       lastAudit, overwritten>>
        /\ inUse' \subseteq 1 .. MaxRows
    BY <1>3 DEF keyVars, KeyTables, KeyInv, KeyTypeOK
  <2>2. QED
    BY <2>1, KeysStand
<1>4. QED
  BY <1>1, <1>2, <1>3 DEF KeyNext

LEMMA KeyInvariant == KeySpec => []KeyInv
BY KeyStarts, KeyStep, PTL DEF KeySpec

(* Two credentials of an account never share an id or a name, and they     *)
(* belong to an account that is there (the unique constraints of           *)
(* models.py, whatever the requests' look-ups saw).                        *)
THEOREM KeyTypeCorrect == KeySpec => []KeyTypeOK
<1>1. KeyInv => KeyTypeOK
  BY DEF KeyInv
<1>2. QED
  BY KeyInvariant, <1>1, PTL

(* Whatever requests meet, and whatever the cloud's owner does between     *)
(* them: a credential says what the audit's last verdict was, on the       *)
(* secret it holds, though names, tags and secrets were written from       *)
(* outdated copies of it - unless that verdict itself was one on a copy    *)
(* whose secret or verdict had been replaced meanwhile (create, patch and  *)
(* verify of routers/credentials.py).                                      *)
THEOREM CredentialsSayWhatTheyAre == KeySpec => []CredentialSaysWhatItIs
<1>1. KeyInv => CredentialSaysWhatItIs
  BY DEF KeyInv
<1>2. QED
  BY KeyInvariant, <1>1, PTL

(***************************************************************************)
(* The review queue of anomalies                                           *)
(***************************************************************************)

Working ==
    [at : {"new", "insert", "commit", "patch", "ended"},
     op : {"none", "scan", "post", "patch"}, keys : SUBSET Anomalies,
     rows : SUBSET Item, seen : SUBSET Item, answer : SUBSET Anomalies]

(* A copy read for a PATCH passed the check of the table when it was read, *)
(* and its key is queued still: no handler deletes an item.                *)
CopiesKeep(s) ==
    \A i \in work[s].seen : Consistent(i) /\ i.key \in KeysOf(items)

(* Rows that are inserted and not committed are the session's own, new and *)
(* of keys that nobody has committed.                                      *)
OwnRows(s) ==
    /\ work[s].at # "commit" => work[s].rows = {}
    /\ \A i \in work[s].rows :
        i.by = s /\ Consistent(i) /\ i.key \notin KeysOf(items)
    /\ \A i, j \in work[s].rows : i.key = j.key => i = j

(* An answer names what is queued, or will be with its commit.             *)
AnswersHold(s) ==
    /\ work[s].at = "ended" => work[s].answer \subseteq KeysOf(items)
    /\ work[s].at = "commit" =>
        work[s].answer \subseteq KeysOf(items) \union KeysOf(work[s].rows)

(* The key of an uncommitted row belongs to one session.                   *)
RowsApart ==
    \A s, q \in Sessions : s # q =>
        KeysOf(work[s].rows) \intersect KeysOf(work[q].rows) = {}

Once == \A i, j \in items : i.key = j.key => i = j
Told == notices = {<<i.key, i.by>> : i \in items}

ReviewInv ==
    /\ ReviewTypeOK /\ Once /\ Told /\ RowsApart
    /\ \A s \in Sessions : CopiesKeep(s) /\ OwnRows(s) /\ AnswersHold(s)

(* A session becomes what its handler says; the others stay as they are.   *)
LEMMA OneBecomes ==
  ASSUME work \in [Sessions -> Working], NEW s \in Sessions, NEW w \in Working,
         Become(s, w)
  PROVE  /\ work' \in [Sessions -> Working] /\ work'[s] = w
         /\ \A q \in Sessions \ {s} : work'[q] = work[q]
BY DEF Become

(* A session begins with nothing.                                          *)
LEMMA NewWorkTyped == NewWork \in Working
BY DEF NewWork, Working

(* A handler that only reads, or ends: it holds no row, its copies are     *)
(* items, and what it answers is queued.                                   *)
LEMMA OnlyReads ==
  ASSUME ReviewInv, NEW s \in Sessions, NEW w \in Working, Become(s, w),
         UNCHANGED <<items, notices>>, detected' \subseteq Anomalies,
         w.rows = {}, w.seen \subseteq items, w.at # "commit",
         w.at = "ended" => w.answer \subseteq KeysOf(items)
  PROVE  ReviewInv'
<1>1. work \in [Sessions -> Working]
  BY DEF ReviewInv, ReviewTypeOK, Working
<1>2. /\ work' \in [Sessions -> Working] /\ work'[s] = w
      /\ \A q \in Sessions \ {s} : work'[q] = work[q]
  BY <1>1, OneBecomes
<1>3. ReviewTypeOK' /\ Once' /\ Told'
  BY <1>2 DEF ReviewInv, ReviewTypeOK, Once, Told, Working, Consistent
<1>4. ASSUME NEW q \in Sessions
      PROVE  (CopiesKeep(q) /\ OwnRows(q) /\ AnswersHold(q))'
  <2>1. CASE q = s
    BY <1>2, <2>1
       DEF ReviewInv, ReviewTypeOK, CopiesKeep, OwnRows, AnswersHold,
           Consistent, KeysOf
  <2>2. CASE q # s
    BY <1>2, <2>2
       DEF ReviewInv, CopiesKeep, OwnRows, AnswersHold, Consistent, KeysOf
  <2>3. QED
    BY <2>1, <2>2
<1>5. RowsApart'
  <2>1. ASSUME NEW p \in Sessions, NEW q \in Sessions, p # q
        PROVE  (KeysOf(work[p].rows) \intersect KeysOf(work[q].rows) = {})'
    <3>1. CASE p = s \/ q = s
      BY <1>2, <2>1, <3>1 DEF KeysOf
    <3>2. CASE p # s /\ q # s
      BY <1>2, <2>1, <3>2 DEF ReviewInv, RowsApart, KeysOf
    <3>3. QED
      BY <3>1, <3>2
  <2>2. QED
    BY <2>1 DEF RowsApart
<1>6. QED
  BY <1>3, <1>4, <1>5 DEF ReviewInv

(* A request is answered.                                                  *)
LEMMA OnlyAnswers ==
  ASSUME ReviewInv, NEW s \in Sessions, NEW K \in SUBSET Anomalies,
         Answer(s, K), UNCHANGED <<items, notices, detected>>,
         K \subseteq KeysOf(items)
  PROVE  ReviewInv'
<1>1. PICK w \in Working : w = [NewWork EXCEPT !.at = "ended", !.answer = K]
  BY NewWorkTyped DEF Working
<1>2. w.at = "ended" /\ w.answer = K /\ w.rows = {} /\ w.seen = {}
  BY <1>1 DEF NewWork
<1>3. Become(s, w)
  BY <1>1 DEF Answer
<1>4. detected' \subseteq Anomalies
  BY DEF ReviewInv, ReviewTypeOK
<1>5. QED
  BY <1>2, <1>3, <1>4, OnlyReads

(* The hook takes every key that is an anomaly now.                        *)
LEMMA ScanInv ==
  ASSUME ReviewInv, NEW s \in Sessions, Scan(s)
  PROVE  ReviewInv'
<1>1. detected \subseteq Anomalies
  BY DEF ReviewInv, ReviewTypeOK
<1>2. PICK w \in Working :
         w = [NewWork EXCEPT !.at = "insert", !.op = "scan",
                             !.keys = detected]
  BY <1>1, NewWorkTyped DEF Working
<1>3. w.at = "insert" /\ w.rows = {} /\ w.seen = {}
  BY <1>2 DEF NewWork
<1>4. Become(s, w) /\ UNCHANGED <<items, notices, detected>>
  BY <1>2 DEF Scan, Kept
<1>5. QED
  BY <1>1, <1>3, <1>4, OnlyReads

(* A POST answers with the queued item, takes the key, or refuses it.      *)
LEMMA PostInv ==
  ASSUME ReviewInv, NEW s \in Sessions, Post(s)
  PROVE  ReviewInv'
<1>1. detected \subseteq Anomalies /\ UNCHANGED <<items, notices, detected>>
  BY DEF ReviewInv, ReviewTypeOK, Post, Kept
<1>2. PICK k \in Anomalies :
        \/ k \in KeysOf(items) /\ Answer(s, {k})
        \/ Become(s, [NewWork EXCEPT !.at = "insert", !.op = "post",
                                     !.keys = {k}])
        \/ Answer(s, {})
  BY DEF Post
<1>3. CASE k \in KeysOf(items) /\ Answer(s, {k})
  BY <1>1, <1>3, OnlyAnswers
<1>4. CASE Answer(s, {})
  BY <1>1, <1>4, OnlyAnswers
<1>5. CASE Become(s, [NewWork EXCEPT !.at = "insert", !.op = "post",
                                     !.keys = {k}])
  <2>1. PICK w \in Working :
           w = [NewWork EXCEPT !.at = "insert", !.op = "post", !.keys = {k}]
    BY NewWorkTyped DEF Working
  <2>2. w.at = "insert" /\ w.rows = {} /\ w.seen = {}
    BY <2>1 DEF NewWork
  <2>3. Become(s, w)
    BY <1>5, <2>1
  <2>4. QED
    BY <1>1, <2>2, <2>3, OnlyReads
<1>6. QED
  BY <1>2, <1>3, <1>4, <1>5

(* The rows are of keys nobody has committed, and the guard waits for the  *)
(* sessions that hold one of them.                                         *)
LEMMA InsertInv ==
  ASSUME ReviewInv, NEW s \in Sessions, InsertItems(s)
  PROVE  ReviewInv'
<1> DEFINE new == work[s].keys \ KeysOf(items)
<1>1. /\ work \in [Sessions -> Working] /\ work[s] \in Working
      /\ UNCHANGED <<items, notices, detected>>
  BY DEF ReviewInv, ReviewTypeOK, Working, InsertItems, Kept
<1>2. PICK R \in SUBSET Item : R = {NewItem(k, s) : k \in new}
  <2>1. \A k \in Anomalies : NewItem(k, s) \in Item
    BY DEF NewItem, Item, Statuses
  <2>2. QED
    BY <1>1, <2>1 DEF Working
<1>3. /\ \A i \in R : /\ i.by = s /\ Consistent(i)
                      /\ i.key \in work[s].keys /\ i.key \notin KeysOf(items)
      /\ \A i, j \in R : i.key = j.key => i = j
      /\ \A k \in new : k \in KeysOf(R)
  <2>1. ASSUME NEW k \in new
        PROVE  /\ NewItem(k, s) \in R /\ NewItem(k, s).key = k
               /\ NewItem(k, s).by = s /\ Consistent(NewItem(k, s))
    BY <1>2 DEF NewItem, Consistent
  <2>2. \A i \in R : i = NewItem(i.key, s) /\ i.key \in new
    BY <1>2, <2>1
  <2>3. QED
    BY <2>1, <2>2 DEF KeysOf
<1>4. PICK w \in Working :
         w = [work[s] EXCEPT !.at = "commit", !.rows = R,
                             !.answer = work[s].keys]
  BY <1>1 DEF Working
<1>5. /\ w.at = "commit" /\ w.rows = R /\ w.seen = work[s].seen
      /\ w.answer = work[s].keys
  BY <1>1, <1>4 DEF Working
<1>6. Become(s, w)
  BY <1>2, <1>4, Zenon DEF InsertItems
<1>7. /\ work' \in [Sessions -> Working] /\ work'[s] = w
      /\ \A q \in Sessions \ {s} : work'[q] = work[q]
  BY <1>1, <1>6, OneBecomes
<1>8. ReviewTypeOK' /\ Once' /\ Told'
  BY <1>1, <1>7 DEF ReviewInv, ReviewTypeOK, Once, Told, Working, Consistent
<1>9. ASSUME NEW q \in Sessions
      PROVE  (CopiesKeep(q) /\ OwnRows(q) /\ AnswersHold(q))'
  <2>1. CASE q = s
    <3>1. CopiesKeep(q)'
      BY <1>1, <1>5, <1>7, <2>1 DEF ReviewInv, CopiesKeep, Consistent, KeysOf
    <3>2. OwnRows(q)'
      BY <1>1, <1>3, <1>5, <1>7, <2>1 DEF OwnRows, Consistent, KeysOf
    <3>3. AnswersHold(q)'
      BY <1>1, <1>3, <1>5, <1>7, <2>1 DEF AnswersHold, KeysOf
    <3>4. QED
      BY <3>1, <3>2, <3>3
  <2>2. CASE q # s
    BY <1>1, <1>7, <2>2
       DEF ReviewInv, CopiesKeep, OwnRows, AnswersHold, Consistent, KeysOf
  <2>3. QED
    BY <2>1, <2>2
<1>10. RowsApart'
  <2>1. \A q \in Sessions \ {s} :
           KeysOf(work[q].rows) \intersect work[s].keys = {}
    BY DEF InsertItems
  <2>2. KeysOf(R) \subseteq work[s].keys
    BY <1>3 DEF KeysOf
  <2>3. ASSUME NEW p \in Sessions, NEW q \in Sessions, p # q
        PROVE  (KeysOf(work[p].rows) \intersect KeysOf(work[q].rows) = {})'
    <3>1. CASE p = s
      BY <1>5, <1>7, <2>1, <2>2, <2>3, <3>1 DEF KeysOf
    <3>2. CASE q = s
      BY <1>5, <1>7, <2>1, <2>2, <2>3, <3>2 DEF KeysOf
    <3>3. CASE p # s /\ q # s
      BY <1>7, <2>3, <3>3 DEF ReviewInv, RowsApart, KeysOf
    <3>4. QED
      BY <3>1, <3>2, <3>3
  <2>4. QED
    BY <2>3 DEF RowsApart
<1>11. QED
  BY <1>8, <1>9, <1>10 DEF ReviewInv

(* The rows and their notifications become visible together.               *)
LEMMA CommitNewInv ==
  ASSUME ReviewInv, NEW s \in Sessions, CommitNew(s)
  PROVE  ReviewInv'
<1>1. /\ work \in [Sessions -> Working] /\ work[s] \in Working
      /\ work[s].at = "commit" /\ detected' = detected
      /\ items' = items \union work[s].rows
      /\ notices' = notices \union {<<i.key, s>> : i \in work[s].rows}
  BY DEF ReviewInv, ReviewTypeOK, Working, CommitNew
<1>2. PICK w \in Working :
         w = [NewWork EXCEPT !.at = "ended", !.answer = work[s].answer]
  BY <1>1, NewWorkTyped DEF Working
<1>3. /\ w.at = "ended" /\ w.rows = {} /\ w.seen = {}
      /\ w.answer = work[s].answer
  BY <1>2 DEF NewWork
<1>4. Become(s, w)
  BY <1>2 DEF CommitNew, Answer
<1>5. /\ work' \in [Sessions -> Working] /\ work'[s] = w
      /\ \A q \in Sessions \ {s} : work'[q] = work[q]
  BY <1>1, <1>4, OneBecomes
<1>6. /\ \A i \in work[s].rows : i.by = s /\ Consistent(i) /\ i \in Item
      /\ \A i, j \in work[s].rows : i.key = j.key => i = j
      /\ \A i \in work[s].rows : i.key \notin KeysOf(items)
  BY <1>1 DEF ReviewInv, OwnRows, Working
<1>7. ReviewTypeOK'
  <2>1. items' \subseteq Item /\ (\A i \in items : Consistent(i))'
    BY <1>1, <1>6 DEF ReviewInv, ReviewTypeOK, Consistent
  <2>2. \A i \in work[s].rows : <<i.key, s>> \in Anomalies \X Sessions
    BY <1>6 DEF Item
  <2>3. notices' \subseteq Anomalies \X Sessions
    BY <1>1, <2>2 DEF ReviewInv, ReviewTypeOK
  <2>4. QED
    BY <1>1, <1>5, <2>1, <2>3 DEF ReviewInv, ReviewTypeOK, Working
<1>8. Once'
  BY <1>1, <1>6 DEF ReviewInv, Once, KeysOf
<1>9. Told'
  BY <1>1, <1>6 DEF ReviewInv, Told
<1>10. KeysOf(items)' = KeysOf(items) \union KeysOf(work[s].rows)
  BY <1>1 DEF KeysOf
<1>11. ASSUME NEW q \in Sessions
       PROVE  (CopiesKeep(q) /\ OwnRows(q) /\ AnswersHold(q))'
  <2>1. CASE q = s
    <3>1. CopiesKeep(q)' /\ OwnRows(q)'
      BY <1>3, <1>5, <2>1 DEF CopiesKeep, OwnRows
    <3>2. AnswersHold(q)'
      BY <1>1, <1>3, <1>5, <1>10, <2>1 DEF ReviewInv, AnswersHold
    <3>3. QED
      BY <3>1, <3>2
  <2>2. CASE q # s
    <3>1. CopiesKeep(q)'
      BY <1>5, <1>10, <2>2 DEF ReviewInv, CopiesKeep, Consistent
    <3>2. \A i \in work[q].rows : i.key \notin KeysOf(work[s].rows)
      BY <2>2 DEF ReviewInv, RowsApart, KeysOf
    <3>3. OwnRows(q)'
      BY <1>5, <1>10, <2>2, <3>2 DEF ReviewInv, OwnRows, Consistent
    <3>4. AnswersHold(q)'
      BY <1>5, <1>10, <2>2 DEF ReviewInv, AnswersHold, KeysOf
    <3>5. QED
      BY <3>1, <3>3, <3>4
  <2>3. QED
    BY <2>1, <2>2
<1>12. RowsApart'
  <2>1. ASSUME NEW p \in Sessions, NEW q \in Sessions, p # q
        PROVE  (KeysOf(work[p].rows) \intersect KeysOf(work[q].rows) = {})'
    <3>1. CASE p = s \/ q = s
      BY <1>3, <1>5, <2>1, <3>1 DEF KeysOf
    <3>2. CASE p # s /\ q # s
      BY <1>5, <2>1, <3>2 DEF ReviewInv, RowsApart, KeysOf
    <3>3. QED
      BY <3>1, <3>2
  <2>2. QED
    BY <2>1 DEF RowsApart
<1>13. QED
  BY <1>7, <1>8, <1>9, <1>11, <1>12 DEF ReviewInv

(* A failure takes the rows back and names nothing.                        *)
LEMMA RaiseInv ==
  ASSUME ReviewInv, NEW s \in Sessions, Raise(s)
  PROVE  ReviewInv'
BY OnlyAnswers DEF Raise

(* A PATCH reads an item that is in the table.                             *)
LEMMA ReadForPatchInv ==
  ASSUME ReviewInv, NEW s \in Sessions, ReadItem(s)
  PROVE  ReviewInv'
<1>1. PICK i \in items : Become(s, [NewWork EXCEPT !.at = "patch",
                                       !.op = "patch", !.seen = {i}])
  BY DEF ReadItem
<1>2. i \in Item /\ detected' \subseteq Anomalies
      /\ UNCHANGED <<items, notices>>
  BY DEF ReviewInv, ReviewTypeOK, ReadItem, Kept
<1>3. PICK w \in Working :
         w = [NewWork EXCEPT !.at = "patch", !.op = "patch", !.seen = {i}]
  BY <1>2, NewWorkTyped DEF Working
<1>4. w.at = "patch" /\ w.rows = {} /\ w.seen = {i}
  BY <1>3 DEF NewWork
<1>5. Become(s, w)
  BY <1>1, <1>3
<1>6. QED
  BY <1>2, <1>4, <1>5, OnlyReads

(* The row a PATCH finds, and what it makes of it: the same key and author,*)
(* a resolved row resolved still. The copy may be older than the row; when *)
(* it was not resolved, a verdict other than "resolved" leaves resolvedAt  *)
(* as it was read, unwritten, and the check refuses the row.               *)
LEMMA PatchedRow ==
  ASSUME NEW row \in Item, NEW seen \in Item, Consistent(row),
         Consistent(seen), NEW s \in Sessions,
         NEW status \in Statuses \union {Null},
         NEW resolution \in Verdicts \union {Null},
         NEW new, new = Patched(seen, status, resolution, s),
         seen.status = "resolved" => new.status = "resolved",
         NEW written, written = RowWith(row, seen, new),
         Consistent(written)
  PROVE  /\ written \in Item /\ written.key = row.key
         /\ written.by = row.by
         /\ row.status = "resolved" => written.status = "resolved"
<1>1. PICK status2 \in Statuses :
         status2 = IF status = Null THEN seen.status ELSE status
  BY DEF Item
<1>2. PICK verdict \in Verdicts \union {Null} :
         verdict = IF resolution = Null THEN seen.resolution ELSE resolution
  BY DEF Item
<1>3. PICK at \in Sessions \union {NoSession} :
         at = IF status2 # "resolved" THEN NoSession
              ELSE IF seen.status = "resolved" THEN seen.resolvedAt ELSE s
  BY DEF Item
<1>4. new = [seen EXCEPT !.status = status2, !.resolution = verdict,
                         !.resolvedAt = at]
  BY <1>1, <1>2, <1>3 DEF Patched
<1>5. new.status = status2 /\ new.resolution = verdict /\ new.resolvedAt = at
  BY <1>4 DEF Item
<1>6. PICK st \in Statuses :
         st = IF new.status = seen.status THEN row.status ELSE new.status
  BY <1>5 DEF Item
<1>7. PICK res \in Verdicts \union {Null} :
         res = IF new.resolution = seen.resolution THEN row.resolution
               ELSE new.resolution
  BY <1>5 DEF Item
<1>8. PICK ra \in Sessions \union {NoSession} :
         ra = IF new.resolvedAt = seen.resolvedAt THEN row.resolvedAt
              ELSE new.resolvedAt
  BY <1>5 DEF Item
<1>9. written = [row EXCEPT !.status = st, !.resolution = res,
                            !.resolvedAt = ra]
  BY <1>6, <1>7, <1>8 DEF RowWith
<1>10. /\ written \in Item /\ written.key = row.key /\ written.by = row.by
       /\ written.status = st /\ written.resolvedAt = ra
  BY <1>9 DEF Item
<1>11. ASSUME row.status = "resolved" PROVE st = "resolved"
  <2>1. CASE seen.status = "resolved"
    BY <1>5, <1>6, <1>11, <2>1
  <2>2. CASE seen.status # "resolved" /\ status2 # "resolved"
    <3>1. at = NoSession /\ seen.resolvedAt = NoSession
      BY <1>3, <2>2 DEF Consistent
    <3>2. ra = row.resolvedAt /\ ra # NoSession
      BY <1>5, <1>8, <1>11, <3>1 DEF Consistent
    <3>3. QED
      BY <1>10, <3>2 DEF Consistent
  <2>3. CASE seen.status # "resolved" /\ status2 = "resolved"
    BY <1>5, <1>6, <2>3
  <2>4. QED
    BY <2>1, <2>2, <2>3
<1>12. QED
  BY <1>10, <1>11

(* What a PATCH comes to: a refusal, or one row written over.              *)
LEMMA PatchWrites ==
  ASSUME ReviewInv, NEW s \in Sessions, Patch(s)
  PROVE  \/ Answer(s, {}) /\ items' = items
         \/ \E row \in items, written \in Item :
              /\ items' = (items \ {row}) \union {written}
              /\ Consistent(written)
              /\ written.key = row.key /\ written.by = row.by
              /\ row.status = "resolved" => written.status = "resolved"
              /\ Answer(s, {row.key})
<1>1. PICK seen \in work[s].seen, status \in Statuses \union {Null},
           resolution \in Verdicts \union {Null} :
        LET new == Patched(seen, status, resolution, s)
            row == CHOOSE i \in items : i.key = seen.key
            written == RowWith(row, seen, new)
            accepted == /\ seen.status = "resolved" => new.status = "resolved"
                        /\ new.status = "resolved" => new.resolution # Null
        IN  \/ /\ accepted /\ Consistent(written)
               /\ items' = (items \ {row}) \union {written}
               /\ Answer(s, {seen.key})
            \/ ~(accepted /\ Consistent(written)) /\ Answer(s, {})
               /\ items' = items
  BY DEF Patch
<1> DEFINE new == Patched(seen, status, resolution, s)
           row == CHOOSE i \in items : i.key = seen.key
           written == RowWith(row, seen, new)
<1>2. seen \in Item /\ Consistent(seen) /\ \E i \in items : i.key = seen.key
  BY DEF ReviewInv, ReviewTypeOK, Working, CopiesKeep, KeysOf
<1>3. row \in items /\ row.key = seen.key
  BY <1>2
<1>4. row \in Item /\ Consistent(row)
  BY <1>3 DEF ReviewInv, ReviewTypeOK
<1>5. CASE /\ seen.status = "resolved" => new.status = "resolved"
           /\ Consistent(written)
           /\ items' = (items \ {row}) \union {written}
           /\ Answer(s, {seen.key})
  <2>1. /\ written \in Item /\ written.key = row.key /\ written.by = row.by
        /\ row.status = "resolved" => written.status = "resolved"
    BY <1>2, <1>4, <1>5, PatchedRow
  <2>2. QED
    BY <1>3, <1>5, <2>1
<1>6. QED
  BY <1>1, <1>5

(* A PATCH writes one row over, or none.                                   *)
LEMMA PatchInv ==
  ASSUME ReviewInv, NEW s \in Sessions, Patch(s)
  PROVE  ReviewInv'
<1>1. /\ work \in [Sessions -> Working] /\ UNCHANGED <<notices, detected>>
      /\ detected \subseteq Anomalies
  BY DEF ReviewInv, ReviewTypeOK, Working, Patch
<1>2. CASE Answer(s, {}) /\ items' = items
  BY <1>1, <1>2, OnlyAnswers
<1>3. ASSUME NEW row \in items, NEW written \in Item,
             items' = (items \ {row}) \union {written},
             Consistent(written),
             written.key = row.key, written.by = row.by,
             Answer(s, {row.key})
      PROVE  ReviewInv'
  <2>1. PICK w \in Working :
           w = [NewWork EXCEPT !.at = "ended", !.answer = {row.key}]
    BY <1>3, NewWorkTyped DEF Working, Item
  <2>2. w.at = "ended" /\ w.rows = {} /\ w.seen = {} /\ w.answer = {row.key}
    BY <2>1 DEF NewWork
  <2>3. Become(s, w)
    BY <1>3, <2>1 DEF Answer
  <2>4. /\ work' \in [Sessions -> Working] /\ work'[s] = w
        /\ \A q \in Sessions \ {s} : work'[q] = work[q]
    BY <1>1, <2>3, OneBecomes
  <2>5. KeysOf(items)' = KeysOf(items)
    BY <1>3 DEF KeysOf
  <2>6. ReviewTypeOK'
    BY <1>1, <1>3, <2>4 DEF ReviewInv, ReviewTypeOK, Working, Consistent
  <2>7. Once'
    BY <1>3 DEF ReviewInv, Once
  <2>8. Told'
    <3>1. {<<i.key, i.by>> : i \in items'} = {<<i.key, i.by>> : i \in items}
      BY <1>3
    <3>2. QED
      BY <1>1, <3>1 DEF ReviewInv, Told
  <2>9. ASSUME NEW q \in Sessions
        PROVE  (CopiesKeep(q) /\ OwnRows(q) /\ AnswersHold(q))'
    <3>1. CASE q = s
      <4>1. row.key \in KeysOf(items)
        BY <1>3 DEF KeysOf
      <4>2. QED
        BY <2>2, <2>4, <2>5, <3>1, <4>1 DEF CopiesKeep, OwnRows, AnswersHold
    <3>2. CASE q # s
      <4>1. work'[q] = work[q]
        BY <2>4, <3>2
      <4>2. CopiesKeep(q) /\ OwnRows(q) /\ AnswersHold(q)
        BY DEF ReviewInv
      <4>3. CopiesKeep(q)'
        BY <2>5, <4>1, <4>2 DEF CopiesKeep, Consistent
      <4>4. OwnRows(q)'
        BY <2>5, <4>1, <4>2 DEF OwnRows, Consistent
      <4>5. AnswersHold(q)'
        BY <2>5, <4>1, <4>2 DEF AnswersHold, KeysOf
      <4>6. QED
        BY <4>3, <4>4, <4>5
    <3>3. QED
      BY <3>1, <3>2
  <2>10. RowsApart'
    <3>1. ASSUME NEW p \in Sessions, NEW q \in Sessions, p # q
          PROVE (KeysOf(work[p].rows) \intersect KeysOf(work[q].rows) = {})'
      <4>1. CASE p = s \/ q = s
        BY <2>2, <2>4, <3>1, <4>1 DEF KeysOf
      <4>2. CASE p # s /\ q # s
        BY <2>4, <3>1, <4>2 DEF ReviewInv, RowsApart, KeysOf
      <4>3. QED
        BY <4>1, <4>2
    <3>2. QED
      BY <3>1 DEF RowsApart
  <2>11. QED
    BY <2>6, <2>7, <2>8, <2>9, <2>10 DEF ReviewInv
<1>4. QED
  BY <1>2, <1>3, PatchWrites

(* What the sessions and the queue are bound by is said of the queue, the  *)
(* notices and the work alone.                                             *)
LEMMA QueueStands ==
  ASSUME ReviewInv, UNCHANGED <<items, notices, work>>,
         detected' \subseteq Anomalies
  PROVE  ReviewInv'
<1>1. ReviewTypeOK'
  BY DEF ReviewInv, ReviewTypeOK, Consistent
<1>2. Once' /\ Told'
  BY DEF ReviewInv, Once, Told
<1>3. RowsApart'
  BY DEF ReviewInv, RowsApart, KeysOf
<1>4. ASSUME NEW s \in Sessions
      PROVE  (CopiesKeep(s) /\ OwnRows(s) /\ AnswersHold(s))'
  <2>1. CopiesKeep(s) /\ OwnRows(s) /\ AnswersHold(s)
    BY DEF ReviewInv
  <2>2. CopiesKeep(s)'
    BY <2>1 DEF CopiesKeep, Consistent, KeysOf
  <2>3. OwnRows(s)'
    BY <2>1 DEF OwnRows, Consistent, KeysOf
  <2>4. AnswersHold(s)'
    BY <2>1 DEF AnswersHold, KeysOf
  <2>5. QED
    BY <2>2, <2>3, <2>4
<1>5. QED
  BY <1>1, <1>2, <1>3, <1>4 DEF ReviewInv

(* Other costs are stored: what is an anomaly changes, the queue does not. *)
LEMMA RecollectInv ==
  ASSUME ReviewInv, Recollect
  PROVE  ReviewInv'
<1>1. UNCHANGED <<items, notices, work>> /\ detected' \subseteq Anomalies
  BY DEF Recollect
<1>2. QED
  BY <1>1, QueueStands

(***************************************************************************)
(* The theorems                                                            *)
(***************************************************************************)

(* The strengthening holds in every state of every execution.              *)
THEOREM ReviewInductive == ReviewSpec => []ReviewInv
<1>1. ReviewInit => ReviewInv
  <2> SUFFICES ASSUME ReviewInit PROVE ReviewInv
    OBVIOUS
  <2>1. work \in [Sessions -> Working] /\ \A s \in Sessions : work[s] = NewWork
    BY NewWorkTyped DEF ReviewInit
  <2>2. QED
    BY <2>1 DEF ReviewInit, NewWork, Working, ReviewInv, ReviewTypeOK, Once,
                Told, RowsApart, CopiesKeep, OwnRows, AnswersHold, KeysOf
<1>2. ReviewInv /\ [ReviewNext]_reviewVars => ReviewInv'
  <2> SUFFICES ASSUME ReviewInv, [ReviewNext]_reviewVars PROVE ReviewInv'
    OBVIOUS
  <2>1. CASE Recollect
    BY <2>1, RecollectInv
  <2>2. ASSUME NEW s \in Sessions,
               \/ Scan(s) \/ Post(s) \/ InsertItems(s) \/ CommitNew(s)
               \/ Raise(s) \/ ReadItem(s) \/ Patch(s)
        PROVE  ReviewInv'
    BY <2>2, ScanInv, PostInv, InsertInv, CommitNewInv, RaiseInv,
       ReadForPatchInv, PatchInv
  <2>3. CASE UNCHANGED reviewVars
    <3>1. UNCHANGED <<items, notices, work>>
          /\ detected' \subseteq Anomalies
      BY <2>3 DEF reviewVars, ReviewInv, ReviewTypeOK
    <3>2. QED
      BY <3>1, QueueStands
  <2>4. QED
    BY <2>1, <2>2, <2>3 DEF ReviewNext
<1>3. QED
  BY <1>1, <1>2, PTL DEF ReviewSpec

(* The columns hold what the checks of the table allow (models.py).        *)
THEOREM ReviewTypeCorrect == ReviewSpec => []ReviewTypeOK
<1>1. ReviewInv => ReviewTypeOK
  BY DEF ReviewInv
<1>2. QED
  BY <1>1, ReviewInductive, PTL

(* However many hooks and POSTs see an anomaly at once, it is queued once, *)
(* told with its item, and an answer that names an item is true.           *)
THEOREM QueuedOnce == ReviewSpec => []QueuedAndToldOnce
<1>1. ReviewInv => QueuedAndToldOnce
  BY DEF ReviewInv, Once, Told, AnswersHold, QueuedAndToldOnce, Listed, KeysOf
<1>2. QED
  BY <1>1, ReviewInductive, PTL

(* A resolved item stays resolved, although a PATCH decides on a copy read *)
(* before another session resolved it.                                     *)
THEOREM VerdictsAreFinal == ReviewSpec => ResolvedIsFinal
<1>1. ASSUME ReviewInv, [ReviewNext]_reviewVars, NEW i \in items,
             i.status = "resolved"
      PROVE  \E j \in items' : j.key = i.key /\ j.status = "resolved"
  <2>1. CASE items \subseteq items'
    BY <1>1, <2>1
  <2>2. CASE \E s \in Sessions : Patch(s)
    BY <1>1, <2>2, PatchWrites
  <2>3. ASSUME NEW s \in Sessions,
               \/ Scan(s) \/ Post(s) \/ InsertItems(s) \/ CommitNew(s)
               \/ Raise(s) \/ ReadItem(s)
        PROVE  items \subseteq items'
    BY <2>3 DEF Scan, Post, InsertItems, CommitNew, Raise, ReadItem, Kept
  <2>4. QED
    BY <1>1, <2>1, <2>2, <2>3 DEF ReviewNext, Recollect, reviewVars
<1>2. ReviewInv /\ [ReviewNext]_reviewVars =>
        [\A i \in items : i.status = "resolved" =>
           \E j \in items' : j.key = i.key /\ j.status = "resolved"]_reviewVars
  BY <1>1
<1>3. QED
  BY <1>2, ReviewInductive, PTL DEF ReviewSpec, ResolvedIsFinal

(***************************************************************************)
(* Teams, budgets and alerts                                               *)
(***************************************************************************)
AlertKey == [budget : Nat \ {0}, period : 0 .. LastDay, threshold : Thresholds]

Moves == UNION {[S -> Teams \union {NoOne}] : S \in SUBSET Accounts}

Tx == [at : {"new", "read", "written", "evaluated", "ended"},
       op : {"none", "create", "patch", "delete", "put", "put elsewhere",
             "currency", "ingest"},
       seen : BudgetRow \union {[id |-> 0]},
       put : SUBSET BudgetRow, gone : SUBSET Nat, keys : SUBSET AlertKey,
       moved : Moves,
       currency : {NoOne, "KRW"}]

TeamTyped ==
    /\ teams \subseteq Teams
    /\ budgets \subseteq BudgetRow
    /\ nextId \in Nat \ {0}
    /\ records \subseteq AlertKey
    /\ alerts \subseteq AlertKey \X Requests
    /\ teamOf \in [Accounts -> Teams \union {NoOne}]
    /\ money \in [spent : Nat, currency : {"USD", "KRW"}]
    /\ lock \in Requests \union {NoOne}
    /\ tx \in [Requests -> Tx]
    /\ today \in 0 .. LastDay
    /\ raises \in 0 .. MaxRaises

(***************************************************************************)
(* What the desk of the teams keeps                                        *)
(***************************************************************************)
(* An id is of one row, and the sequence has given it out.                 *)
IdsAreGiven ==
    /\ \A b, c \in budgets : b.id = c.id => b = c
    /\ \A b \in budgets : b.id < nextId
    /\ \A k \in records : k.budget < nextId
    /\ \A x \in alerts : x[1].budget < nextId

(* What is not committed belongs to a session at work: at most one row,    *)
(* and only the holder of the lock writes one.                             *)
OwnWork(r) ==
    /\ tx[r].at \in {"new", "read", "ended"}
          => tx[r].put = {} /\ tx[r].gone = {}
    /\ tx[r].at # "evaluated" => tx[r].keys = {}
    /\ tx[r].put # {} => lock = r
    /\ lock = r => tx[r].at \in {"written", "evaluated"}
    /\ \A b, c \in tx[r].put : b = c
    /\ tx[r].put = {} \/ tx[r].gone = {}
    /\ \A i \in Touched(r) : i < nextId
    /\ tx[r].at = "read" => tx[r].seen \in BudgetRow /\ tx[r].seen.id < nextId

(* Two sessions never write the same row, nor announce the same threshold. *)
WorkIsApart ==
    \A q, r \in Requests : q # r =>
        /\ Touched(q) \intersect Touched(r) = {}
        /\ tx[q].keys \intersect tx[r].keys = {}

(* The copy a PATCH decides on may be old; its start and its type are not. *)
CopyKnowsRow(r, b) ==
    (tx[r].at = "read" /\ b.id = tx[r].seen.id) =>
        b.start = tx[r].seen.start /\ b.type = tx[r].seen.type

CopiesKnowRows ==
    \A r \in Requests :
        /\ \A b \in budgets : CopyKnowsRow(r, b)
        /\ \A q \in Requests : \A b \in tx[q].put : CopyKnowsRow(r, b)

(* What the holder of the lock will commit fits what is committed, and a   *)
(* row that is there keeps its start and its type.                         *)
PutsFit ==
    \A r \in Requests : \A p \in tx[r].put :
        /\ p.type = "custom" => Overlap(budgets, p.start, p.end, p.id) = {}
        /\ \A b \in budgets : b.id = p.id =>
              b.start = p.start /\ b.type = p.type

(* What is about to be announced was not announced before, and is of a     *)
(* budget that is there or comes in the same commit.                       *)
KeysAreNew ==
    \A r \in Requests : \A k \in tx[r].keys :
        /\ k.budget < nextId
        /\ k.budget \in Ids(budgets) \union Ids(tx[r].put)
        /\ \A q \in Requests : k.budget \notin tx[q].gone
        /\ \A x \in alerts : x[1] # k

(* Nothing was ever announced of a budget that is still to be stored.      *)
AlertsAreOfStored ==
    \A x \in alerts, r \in Requests :
        x[1].budget \in Ids(tx[r].put) => x[1].budget \in Ids(budgets)

TeamInv ==
    /\ TeamTyped
    /\ IdsAreGiven
    /\ \A r \in Requests : OwnWork(r)
    /\ WorkIsApart
    /\ CopiesKnowRows
    /\ PutsFit
    /\ BudgetsStayApart
    /\ KeysAreNew
    /\ AlertsAreOfStored
    /\ AlertedOnce

(***************************************************************************)
(* What a step of a team's session does                                    *)
(***************************************************************************)

(* A session starts and ends with nothing.                                 *)
LEMMA NewTxTyped == NewTx \in Tx /\ [NewTx EXCEPT !.at = "ended"] \in Tx
<1>1. [a \in {} |-> NoOne] \in Moves
  BY DEF Moves
<1>2. NewTx \in Tx
  BY <1>1 DEF NewTx, Tx
<1>3. QED
  BY <1>2 DEF Tx

(* What a session holds.                                                   *)
LEMMA TxParts ==
  ASSUME NEW t \in Tx
  PROVE  /\ t.put \subseteq BudgetRow /\ t.gone \subseteq Nat
         /\ t.keys \subseteq AlertKey
         /\ \A b \in t.put : /\ b.id \in Nat \ {0} /\ b.start \in Nat
                           /\ b.end \in Nat
         /\ \A k \in t.keys : k.budget \in Nat \ {0}
<1>1. t.put \subseteq BudgetRow /\ t.gone \subseteq Nat
      /\ t.keys \subseteq AlertKey
  BY DEF Tx
<1>2. \A b \in BudgetRow : b.id \in Nat \ {0} /\ b.start \in Nat
                         /\ b.end \in Nat
  BY DEF BudgetRow
<1>3. \A k \in AlertKey : k.budget \in Nat \ {0}
  BY DEF AlertKey
<1>4. QED
  BY <1>1, <1>2, <1>3

(* TxBecomes changes one session.                                          *)
LEMMA OneSessionBecomes ==
  ASSUME tx \in [Requests -> Tx], NEW r \in Requests, NEW w \in Tx,
         TxBecomes(r, w)
  PROVE  /\ tx' \in [Requests -> Tx]
         /\ tx'[r] = w
         /\ \A q \in Requests \ {r} : tx'[q] = tx[q]
BY DEF TxBecomes

(* Close leaves the session with nothing and gives the lock back.          *)
LEMMA OneSessionCloses ==
  ASSUME tx \in [Requests -> Tx], NEW r \in Requests, Close(r)
  PROVE  /\ tx' \in [Requests -> Tx]
         /\ tx'[r].at = "ended" /\ tx'[r].put = {} /\ tx'[r].gone = {}
         /\ tx'[r].keys = {}
         /\ \A q \in Requests \ {r} : tx'[q] = tx[q]
         /\ lock' = IF lock = r THEN NoOne ELSE lock
<1>1. [NewTx EXCEPT !.at = "ended"] \in Tx
  BY NewTxTyped
<1>2. /\ tx' \in [Requests -> Tx]
      /\ tx'[r] = [NewTx EXCEPT !.at = "ended"]
      /\ \A q \in Requests \ {r} : tx'[q] = tx[q]
  BY <1>1, OneSessionBecomes DEF Close
<1>3. QED
  BY <1>2 DEF NewTx, Close, Unlock

(* The steps that neither write a row nor announce anything: one session   *)
(* has nothing to commit, the lock is as it was or that session gave it    *)
(* back, and a row it has read is a committed one.                         *)
LEMMA NothingWritten ==
  ASSUME TeamInv, TeamTyped', NEW r \in Requests,
         UNCHANGED <<budgets, records, alerts, nextId>>,
         \A q \in Requests \ {r} : tx'[q] = tx[q],
         tx'[r].put = {}, tx'[r].gone = {}, tx'[r].keys = {},
         tx'[r].at = "read" => tx'[r].seen \in budgets,
         \/ lock # r /\ lock' = lock
         \/ lock = r /\ lock' = NoOne,
         NoOne \notin Requests
  PROVE  TeamInv'
<1> USE DEF TeamInv
<1>1. IdsAreGiven' /\ BudgetsStayApart' /\ AlertedOnce'
  BY DEF IdsAreGiven, BudgetsStayApart, Chain, Overlap, AlertedOnce, Ids
<1>2. ASSUME NEW q \in Requests PROVE OwnWork(q)'
  <2>1. CASE q = r
    BY <2>1 DEF OwnWork, Touched, Ids, TeamTyped, IdsAreGiven
  <2>2. CASE q # r
    BY <2>2 DEF OwnWork, Touched, Ids
  <2>3. QED
    BY <2>1, <2>2
<1>3. WorkIsApart'
  BY DEF WorkIsApart, Touched, Ids
<1>4. CopiesKnowRows'
  <2>1. ASSUME NEW q \in Requests PROVE \A b \in budgets : CopyKnowsRow(q, b)'
    <3>1. CASE q = r
      BY <3>1 DEF CopyKnowsRow, IdsAreGiven
    <3>2. CASE q # r
      BY <3>2 DEF CopyKnowsRow, CopiesKnowRows
    <3>3. QED
      BY <3>1, <3>2
  <2>2. ASSUME NEW q \in Requests, NEW s \in Requests, NEW b \in tx'[s].put
        PROVE  CopyKnowsRow(q, b)'
    <3>1. s # r /\ b \in tx[s].put
      BY <2>2
    <3>2. CASE q = r
      BY <3>1, <3>2 DEF CopyKnowsRow, PutsFit
    <3>3. CASE q # r
      BY <3>1, <3>3 DEF CopyKnowsRow, CopiesKnowRows
    <3>4. QED
      BY <3>2, <3>3
  <2>3. QED
    BY <2>1, <2>2 DEF CopiesKnowRows
<1>5. PutsFit'
  BY DEF PutsFit, Overlap
<1>6. KeysAreNew'
  BY DEF KeysAreNew, Ids
<1>7. AlertsAreOfStored'
  BY DEF AlertsAreOfStored, Ids
<1>8. QED
  BY <1>1, <1>2, <1>3, <1>4, <1>5, <1>6, <1>7

(* Sessions and locks keep their types in every step that changes nothing  *)
(* else of what is typed.                                                  *)
LEMMA SessionsTyped ==
  ASSUME TeamTyped, UNCHANGED Committed, tx' \in [Requests -> Tx],
         lock' \in Requests \union {NoOne}
  PROVE  TeamTyped'
BY DEF TeamTyped, Committed

(* A session that closes and does nothing else.                            *)
LEMMA OnlyCloses ==
  ASSUME TeamInv, NEW r \in Requests, Close(r),
         UNCHANGED <<budgets, records, alerts, nextId>>,
         UNCHANGED Committed \/ TeamTyped'
  PROVE  TeamInv'
<1>1. TeamTyped /\ tx \in [Requests -> Tx] /\ lock \in Requests \union {NoOne}
  BY DEF TeamInv, TeamTyped
<1>2. /\ tx' \in [Requests -> Tx]
      /\ tx'[r].at = "ended" /\ tx'[r].put = {} /\ tx'[r].gone = {}
      /\ tx'[r].keys = {}
      /\ \A q \in Requests \ {r} : tx'[q] = tx[q]
      /\ lock' = IF lock = r THEN NoOne ELSE lock
  BY <1>1, OneSessionCloses
<1>3. TeamTyped'
  BY <1>1, <1>2, SessionsTyped
<1>4. NoOne \notin Requests
  BY TeamAssumption
<1>5. QED
  BY <1>2, <1>3, <1>4, NothingWritten

(***************************************************************************)
(* The requests about teams and budgets                                    *)
(***************************************************************************)

(* A new budget: under the lock, under the next id, where nothing else is. *)
LEMMA CreateBudgetInv ==
  ASSUME TeamInv, NEW r \in Requests, CreateBudget(r)
  PROVE  TeamInv'
<1> USE DEF TeamInv
<1>1. PICK o \in Offers :
        \/ /\ Admissible(o) /\ lock' = r /\ Insert(r, o)
           /\ UNCHANGED <<teams, budgets, records, alerts, teamOf>>
           /\ UNCHANGED <<money, today, raises>>
        \/ ~Admissible(o) /\ Close(r) /\ UNCHANGED Committed
  BY DEF CreateBudget
<1>2. tx[r].at = "new" /\ lock = NoOne
  BY DEF CreateBudget
<1>3. CASE ~Admissible(o) /\ Close(r) /\ UNCHANGED Committed
  BY <1>3, OnlyCloses DEF Committed
<1>4. CASE /\ Admissible(o) /\ lock' = r /\ Insert(r, o)
           /\ UNCHANGED <<teams, budgets, records, alerts, teamOf>>
           /\ UNCHANGED <<money, today, raises>>
  <2>1. /\ o.type \in STRING /\ o.start \in Nat /\ o.end \in Nat
        /\ o.limit \in Nat \ {0}
    BY TeamAssumption
  <2>2. o.start < o.end
    BY <1>4, <2>1, TeamAssumption DEF Admissible, Window
  <2>3. PICK p \in BudgetRow :
           p = [id |-> nextId, type |-> o.type, start |-> o.start,
                end |-> o.end, limit |-> o.limit]
    BY <2>1, <2>2 DEF BudgetRow, TeamTyped
  <2>4. tx \in [Requests -> Tx] /\ tx[r] \in Tx
    BY DEF TeamTyped
  <2>5. [tx[r] EXCEPT !.at = "written", !.op = "create",
                            !.put = {p}] \in Tx
    BY <2>4 DEF Tx
  <2>a. TxBecomes(r, [tx[r] EXCEPT !.at = "written", !.op = "create",
                              !.put = {p}])
    BY <1>4, <2>3 DEF Insert
  <2>6. tx' \in [Requests -> Tx] /\ \A q \in Requests \ {r} : tx'[q] = tx[q]
    BY <2>4, <2>5, <2>a, OneSessionBecomes
  <2>7. /\ tx'[r].at = "written" /\ tx'[r].put = {p}
        /\ tx'[r].gone = {} /\ tx'[r].keys = {}
    <3>1. tx'[r] = [tx[r] EXCEPT !.at = "written", !.op = "create",
                            !.put = {p}]
      BY <2>4, <2>5, <2>a, OneSessionBecomes
    <3>2. QED
      BY <1>2, <2>4, <3>1 DEF Tx, OwnWork
  <2>8. /\ p.id = nextId /\ p.type = o.type /\ p.start = o.start
        /\ p.end = o.end /\ nextId' = nextId + 1 /\ nextId \in Nat
    BY <1>4, <2>3 DEF Insert, TeamTyped
  <2>9. \A q \in Requests : tx[q].put = {}
    BY <1>2, TeamAssumption DEF OwnWork
  <2>10. TeamTyped'
    BY <1>4, <2>6, <2>8 DEF TeamTyped
  <2>11. IdsAreGiven' /\ BudgetsStayApart' /\ AlertedOnce'
    BY <1>4, <2>8 DEF IdsAreGiven, BudgetsStayApart, Chain, Overlap,
       AlertedOnce, Ids, TeamTyped, AlertKey, BudgetRow
  <2>12. ASSUME NEW q \in Requests PROVE OwnWork(q)'
    <3>1. CASE q = r
      BY <1>4, <2>7, <2>8, <3>1 DEF OwnWork, Touched, Ids
    <3>2. CASE q # r
      <4>1. \A i \in Touched(q) : i \in Nat /\ i < nextId
        BY <2>4, <2>9 DEF OwnWork, Touched, Ids, Tx, TeamTyped
      <4>2. tx[q].at = "read" =>
              tx[q].seen \in BudgetRow /\ tx[q].seen.id < nextId
        BY DEF OwnWork
      <4>3. OwnWork(q) /\ Touched(q)' = Touched(q)
        BY <2>6, <3>2 DEF Touched, Ids
      <4>4. QED
        BY <1>2, <1>4, <2>6, <2>8, <2>9, <3>2, <4>1, <4>2, <4>3
           DEF OwnWork, BudgetRow
    <3>3. QED
      BY <3>1, <3>2
  <2>13. WorkIsApart'
    <3>1. \A q \in Requests \ {r} : nextId \notin Touched(q)
      BY <2>8 DEF OwnWork
    <3>2. /\ Touched(r)' = {nextId}
          /\ \A q \in Requests \ {r} : Touched(q)' = Touched(q)
      BY <2>6, <2>7, <2>8 DEF Touched, Ids
    <3>3. QED
      BY <2>6, <2>7, <3>1, <3>2 DEF WorkIsApart
  <2>14. CopiesKnowRows'
    <3>1. ASSUME NEW q \in Requests
          PROVE  \A b \in budgets' : CopyKnowsRow(q, b)'
      BY <1>4, <2>6, <2>7 DEF CopiesKnowRows, CopyKnowsRow
    <3>2. ASSUME NEW q \in Requests PROVE CopyKnowsRow(q, p)'
      BY <2>6, <2>7, <2>8 DEF CopyKnowsRow, OwnWork, BudgetRow
    <3>3. QED
      BY <2>6, <2>7, <2>9, <3>1, <3>2 DEF CopiesKnowRows
  <2>15. PutsFit'
    <3>1. p.type = "custom" => Overlap(budgets, p.start, p.end, p.id) = {}
      <4>1. \A b \in budgets : b.id # 0
        BY DEF TeamTyped, BudgetRow
      <4>2. QED
        BY <1>4, <2>8, <4>1 DEF Admissible, Overlap
    <3>2. \A b \in budgets : b.id # p.id
      BY <2>8 DEF IdsAreGiven, TeamTyped, BudgetRow
    <3>3. QED
      BY <1>4, <2>6, <2>7, <2>9, <3>1, <3>2 DEF PutsFit
  <2>16. KeysAreNew'
    <3>1. ASSUME NEW q \in Requests, NEW k \in tx'[q].keys
          PROVE  /\ k \in tx[q].keys /\ tx'[q].put = tx[q].put
                 /\ k.budget \in Nat
      <4>1. tx'[q] \in Tx
        BY <2>6
      <4>2. k.budget \in Nat
        BY <4>1, TxParts
      <4>3. QED
        BY <2>6, <2>7, <4>2
    <3>2. \A q \in Requests : tx'[q].gone = tx[q].gone
      BY <1>2, <2>6, <2>7 DEF OwnWork
    <3>3. QED
      BY <1>4, <2>8, <3>1, <3>2 DEF KeysAreNew, Ids
  <2>17. AlertsAreOfStored'
    BY <1>4, <2>6, <2>7, <2>8, <2>9
       DEF AlertsAreOfStored, Ids, IdsAreGiven, TeamTyped, AlertKey
  <2>18. QED
    BY <2>10, <2>11, <2>12, <2>13, <2>14, <2>15, <2>16, <2>17
<1>5. QED
  BY <1>1, <1>3, <1>4

(* A PATCH takes its copy of a committed row.                              *)
LEMMA ReadBudgetInv ==
  ASSUME TeamInv, NEW r \in Requests, ReadForPatch(r)
  PROVE  TeamInv'
<1>1. PICK b \in budgets :
         TxBecomes(r, [tx[r] EXCEPT !.at = "read", !.op = "patch", !.seen = b])
  BY DEF ReadForPatch
<1>2. /\ TeamTyped /\ tx \in [Requests -> Tx] /\ tx[r] \in Tx
      /\ b \in BudgetRow
      /\ OwnWork(r) /\ tx[r].at = "new" /\ lock \in Requests \union {NoOne}
      /\ lock' = lock /\ UNCHANGED Committed
  BY DEF TeamInv, TeamTyped, ReadForPatch
<1>3. [tx[r] EXCEPT !.at = "read", !.op = "patch", !.seen = b] \in Tx
  BY <1>2 DEF Tx
<1>4. /\ tx' \in [Requests -> Tx]
      /\ tx'[r] = [tx[r] EXCEPT !.at = "read", !.op = "patch", !.seen = b]
      /\ \A q \in Requests \ {r} : tx'[q] = tx[q]
  BY <1>1, <1>2, <1>3, OneSessionBecomes
<1>5. /\ tx'[r].put = {} /\ tx'[r].gone = {} /\ tx'[r].keys = {}
      /\ tx'[r].seen = b
  BY <1>2, <1>4 DEF Tx, OwnWork
<1>6. TeamTyped'
  BY <1>2, <1>4, SessionsTyped
<1>7. lock # r /\ NoOne \notin Requests
  BY <1>2, TeamAssumption DEF OwnWork
<1>8. QED
  BY <1>2, <1>4, <1>5, <1>6, <1>7, NothingWritten DEF Committed

(* A PATCH writes the row it holds the copy of, as it is now: the lock     *)
(* keeps every other writer of rows away, the row's own a deletion.        *)
LEMMA PatchBudgetInv ==
  ASSUME TeamInv, NEW r \in Requests, PatchBudget(r)
  PROVE  TeamInv'
<1> USE DEF TeamInv
<1>1. /\ tx[r].at = "read" /\ lock = NoOne /\ RowFree(r, tx[r].seen.id)
      /\ UNCHANGED Committed
  BY DEF PatchBudget
<1>2. CASE Close(r)
  BY <1>1, <1>2, OnlyCloses DEF Committed
<1>3. CASE ~Close(r)
  <2>1. /\ tx \in [Requests -> Tx] /\ tx[r] \in Tx /\ tx[r].seen \in BudgetRow
        /\ tx[r].seen.id < nextId /\ tx[r].gone = {} /\ tx[r].keys = {}
        /\ budgets \subseteq BudgetRow
    BY <1>1 DEF TeamTyped, OwnWork
  <2>2. PICK s \in BudgetRow : s = tx[r].seen
    BY <2>1
  <2>a. PICK end \in Ends \union {tx[r].seen.end},
             limit \in Limits \union {tx[r].seen.limit} :
           /\ today < tx[r].seen.start
           /\ end # tx[r].seen.end =>
                /\ tx[r].seen.type = "custom" /\ Window(tx[r].seen.start, end)
                /\ Overlap(budgets, tx[r].seen.start, end, tx[r].seen.id) = {}
           /\ {b \in budgets : b.id = tx[r].seen.id} # {}
           /\ lock' = r
           /\ TxBecomes(r, [tx[r] EXCEPT !.at = "evaluated",
                   !.put = {[b EXCEPT !.end = IF end = tx[r].seen.end
                                              THEN @ ELSE end,
                                      !.limit = IF limit = tx[r].seen.limit
                                                THEN @ ELSE limit] :
                               b \in {b \in budgets : b.id = tx[r].seen.id}}])
    BY <1>3, Zenon DEF PatchBudget
  <2>b. PICK b \in budgets : b.id = s.id
    BY <2>2, <2>a
  <2>3. /\ b.id = s.id /\ lock' = r
        /\ end # s.end => /\ s.type = "custom" /\ Window(s.start, end)
                          /\ Overlap(budgets, s.start, end, s.id) = {}
    BY <2>2, <2>a, <2>b
  <2>4. {x \in budgets : x.id = tx[r].seen.id} = {b}
    BY <2>2, <2>b DEF IdsAreGiven
  <2>5. b \in BudgetRow /\ b.start = s.start /\ b.type = s.type
    BY <1>1, <2>1, <2>2, <2>b DEF CopiesKnowRows, CopyKnowsRow
  <2>6. /\ end \in Nat /\ limit \in Nat \ {0}
        /\ s.end \in Nat /\ s.start \in Nat
        /\ b.end \in Nat /\ b.limit \in Nat \ {0} /\ b.start \in Nat
        /\ b.id \in Nat \ {0} /\ b.start < b.end
    BY <2>2, <2>a, <2>5, TeamAssumption DEF BudgetRow
  <2>c. PICK e \in Nat : /\ e = IF end = tx[r].seen.end THEN b.end ELSE end
                         /\ b.start < e
    BY <2>2, <2>3, <2>5, <2>6 DEF Window
  <2>d. PICK l \in Nat \ {0} :
           l = IF limit = tx[r].seen.limit THEN b.limit ELSE limit
    BY <2>6
  <2>e. [b EXCEPT !.end = e, !.limit = l] \in BudgetRow
    BY <2>5, <2>c DEF BudgetRow
  <2>f. PICK p \in BudgetRow : p = [b EXCEPT !.end = e, !.limit = l]
    BY <2>e
  <2>7. /\ p.id = b.id /\ p.start = b.start /\ p.type = b.type
        /\ p.end = IF end = s.end THEN b.end ELSE end
    BY <2>2, <2>5, <2>c, <2>f DEF BudgetRow
  <2>8. TxBecomes(r, [tx[r] EXCEPT !.at = "evaluated", !.put = {p}])
    <3>1. {[x EXCEPT !.end = IF end = tx[r].seen.end THEN @ ELSE end,
                     !.limit = IF limit = tx[r].seen.limit
                               THEN @ ELSE limit] : x \in {b}}
             = {[b EXCEPT !.end = IF end = tx[r].seen.end
                                  THEN b.end ELSE end,
                          !.limit = IF limit = tx[r].seen.limit
                                    THEN b.limit ELSE limit]}
      OBVIOUS
    <3>2. @ = {p}
      BY <2>c, <2>d, <2>f, Zenon
    <3>3. QED
      BY <2>a, <2>4, <3>1, <3>2, Zenon
  <2>9. [tx[r] EXCEPT !.at = "evaluated", !.put = {p}] \in Tx
    BY <2>1, <2>7 DEF Tx
  <2>10. tx' \in [Requests -> Tx] /\ \A q \in Requests \ {r} : tx'[q] = tx[q]
    BY <2>1, <2>8, <2>9, OneSessionBecomes
  <2>11. /\ tx'[r].at = "evaluated" /\ tx'[r].put = {p}
         /\ tx'[r].gone = {} /\ tx'[r].keys = {}
    <3>1. tx'[r] = [tx[r] EXCEPT !.at = "evaluated", !.put = {p}]
      BY <2>1, <2>8, <2>9, OneSessionBecomes
    <3>2. QED
      BY <2>1, <3>1 DEF Tx
  <2>12. \A q \in Requests : tx[q].put = {}
    BY <1>1, TeamAssumption DEF OwnWork
  <2>13. UNCHANGED <<budgets, records, alerts, nextId>> /\ lock' = r
    BY <1>1, <2>3 DEF Committed
  <2>14. TeamTyped'
    BY <1>1, <2>10, <2>13, SessionsTyped
  <2>15. IdsAreGiven' /\ BudgetsStayApart' /\ AlertedOnce'
    BY <2>13 DEF IdsAreGiven, BudgetsStayApart, Chain, Overlap, AlertedOnce,
       Ids
  <2>16. ASSUME NEW q \in Requests PROVE OwnWork(q)'
    <3>1. CASE q = r
      BY <2>3, <2>7, <2>11, <2>13, <3>1 DEF OwnWork, Touched, Ids, IdsAreGiven
    <3>2. CASE q # r
      BY <1>1, <2>10, <2>12, <2>13, <3>2 DEF OwnWork, Touched, Ids
    <3>3. QED
      BY <3>1, <3>2
  <2>17. WorkIsApart'
    <3>1. \A q \in Requests \ {r} : p.id \notin Touched(q)
      BY <1>1, <2>2, <2>3, <2>7 DEF RowFree
    <3>2. /\ Touched(r)' = {p.id}
          /\ \A q \in Requests \ {r} : Touched(q)' = Touched(q)
      BY <2>10, <2>11 DEF Touched, Ids
    <3>3. QED
      BY <2>10, <2>11, <3>1, <3>2 DEF WorkIsApart
  <2>18. CopiesKnowRows'
    <3>1. ASSUME NEW q \in Requests
          PROVE  \A c \in budgets \union {p} : CopyKnowsRow(q, c)'
      <4>1. CASE q = r
        BY <2>11, <4>1 DEF CopyKnowsRow
      <4>2. CASE q # r
        BY <2>7, <2>10, <4>2 DEF CopiesKnowRows, CopyKnowsRow
      <4>3. QED
        BY <4>1, <4>2
    <3>2. QED
      BY <2>10, <2>11, <2>12, <2>13, <3>1 DEF CopiesKnowRows
  <2>19. PutsFit'
    <3>1. p.type = "custom" => Overlap(budgets, p.start, p.end, p.id) = {}
      <4>1. CASE end = s.end
        BY <2>3, <2>7, <4>1 DEF BudgetsStayApart, Overlap, Chain
      <4>2. CASE end # s.end
        BY <2>3, <2>5, <2>7, <4>2
      <4>3. QED
        BY <4>1, <4>2
    <3>2. \A c \in budgets : c.id = p.id =>
                            c.start = p.start /\ c.type = p.type
      BY <2>3, <2>7 DEF IdsAreGiven
    <3>3. QED
      BY <2>10, <2>11, <2>12, <2>13, <3>1, <3>2 DEF PutsFit
  <2>20. KeysAreNew'
    <3>1. ASSUME NEW q \in Requests, NEW k \in tx'[q].keys
          PROVE  k \in tx[q].keys /\ tx'[q].put = tx[q].put
      BY <2>10, <2>11
    <3>2. \A q \in Requests : tx'[q].gone = tx[q].gone
      BY <2>1, <2>10, <2>11
    <3>3. QED
      BY <2>13, <3>1, <3>2 DEF KeysAreNew, Ids
  <2>21. AlertsAreOfStored'
    BY <2>3, <2>7, <2>10, <2>11, <2>12, <2>13 DEF AlertsAreOfStored, Ids
  <2>22. QED
    BY <2>14, <2>15, <2>16, <2>17, <2>18, <2>19, <2>20, <2>21
<1>4. QED
  BY <1>2, <1>3

(* A deletion takes a row nobody else is writing or announcing.            *)
LEMMA DeleteBudgetInv ==
  ASSUME TeamInv, NEW r \in Requests, DeleteBudget(r)
  PROVE  TeamInv'
<1> USE DEF TeamInv
<1>1. PICK b \in budgets :
        /\ RowFree(r, b.id) /\ ~Referenced(r, b.id)
        /\ TxBecomes(r, [tx[r] EXCEPT !.at = "written", !.op = "delete",
                                     !.gone = {b.id}])
  BY DEF DeleteBudget
<1>2. /\ tx \in [Requests -> Tx] /\ tx[r] \in Tx /\ tx[r].at = "new"
      /\ tx[r].put = {} /\ tx[r].keys = {} /\ tx[r].gone = {} /\ lock # r
      /\ lock' = lock /\ UNCHANGED <<budgets, records, alerts, nextId>>
      /\ UNCHANGED Committed /\ b \in BudgetRow
      /\ b.id \in Nat /\ b.id < nextId
  BY DEF TeamTyped, OwnWork, DeleteBudget, Committed, BudgetRow, IdsAreGiven
<1>3. [tx[r] EXCEPT !.at = "written", !.op = "delete", !.gone = {b.id}] \in Tx
  BY <1>2 DEF Tx
<1>4. tx' \in [Requests -> Tx] /\ \A q \in Requests \ {r} : tx'[q] = tx[q]
  BY <1>1, <1>2, <1>3, OneSessionBecomes
<1>5. /\ tx'[r].at = "written" /\ tx'[r].put = {} /\ tx'[r].gone = {b.id}
      /\ tx'[r].keys = {}
  <2>1. tx'[r] = [tx[r] EXCEPT !.at = "written", !.op = "delete",
                               !.gone = {b.id}]
    BY <1>1, <1>2, <1>3, OneSessionBecomes
  <2>2. QED
    BY <1>2, <2>1 DEF Tx
<1>6. TeamTyped'
  BY <1>2, <1>4, SessionsTyped DEF TeamTyped
<1>7. IdsAreGiven' /\ BudgetsStayApart' /\ AlertedOnce'
  BY <1>2 DEF IdsAreGiven, BudgetsStayApart, Chain, Overlap, AlertedOnce, Ids
<1>8. ASSUME NEW q \in Requests PROVE OwnWork(q)'
  <2>1. CASE q = r
    BY <1>2, <1>5, <2>1 DEF OwnWork, Touched, Ids
  <2>2. CASE q # r
    BY <1>2, <1>4, <2>2 DEF OwnWork, Touched, Ids
  <2>3. QED
    BY <2>1, <2>2
<1>9. WorkIsApart'
  <2>1. /\ Touched(r)' = {b.id}
        /\ \A q \in Requests \ {r} : Touched(q)' = Touched(q)
    BY <1>4, <1>5 DEF Touched, Ids
  <2>2. QED
    BY <1>1, <1>4, <1>5, <2>1 DEF WorkIsApart, RowFree
<1>10. CopiesKnowRows' /\ PutsFit'
  BY <1>2, <1>4, <1>5 DEF CopiesKnowRows, CopyKnowsRow, PutsFit, Overlap
<1>11. KeysAreNew'
  BY <1>1, <1>2, <1>4, <1>5 DEF KeysAreNew, Ids, Referenced
<1>12. AlertsAreOfStored'
  BY <1>2, <1>4, <1>5 DEF AlertsAreOfStored, Ids
<1>13. QED
  BY <1>6, <1>7, <1>8, <1>9, <1>10, <1>11, <1>12

(* The requests about accounts and currency have no row of a budget.       *)
LEMMA PutAccountsInv ==
  ASSUME TeamInv, NEW r \in Requests, PutAccounts(r)
  PROVE  TeamInv'
<1>1. /\ TeamTyped /\ tx \in [Requests -> Tx] /\ tx[r] \in Tx
      /\ tx[r].at = "new"
      /\ tx[r].put = {} /\ tx[r].keys = {} /\ tx[r].gone = {} /\ lock # r
      /\ lock' = lock \/ Close(r)
      /\ UNCHANGED Committed /\ UNCHANGED <<budgets, records, alerts, nextId>>
      /\ lock \in Requests \union {NoOne}
      /\ teams \subseteq Teams /\ teamOf \in [Accounts -> Teams \union {NoOne}]
  BY DEF TeamInv, TeamTyped, OwnWork, PutAccounts, Committed
<1>2. CASE Close(r)
  BY <1>1, <1>2, OnlyCloses
<1>3. CASE ~Close(r)
  <2>1. PICK op \in {"put", "put elsewhere"}, t \in teams,
             wanted \in SUBSET Accounts :
           TxBecomes(r, [tx[r] EXCEPT !.at = "written", !.op = op,
                  !.moved = [a \in {a \in wanted : teamOf[a] # t}
                             \union {a \in Accounts \ wanted : teamOf[a] = t}
                              |-> IF a \in wanted THEN t ELSE NoOne]])
    BY <1>3 DEF PutAccounts
  <2>2. PICK m \in Moves :
           m = [a \in {a \in wanted : teamOf[a] # t}
                          \union {a \in Accounts \ wanted : teamOf[a] = t}
                   |-> IF a \in wanted THEN t ELSE NoOne]
    <3>1. PICK S \in SUBSET Accounts :
             S = {a \in wanted : teamOf[a] # t}
                    \union {a \in Accounts \ wanted : teamOf[a] = t}
      OBVIOUS
    <3>2. [a \in S |-> IF a \in wanted THEN t ELSE NoOne]
             \in [S -> Teams \union {NoOne}]
      BY <1>1
    <3>3. [a \in S |-> IF a \in wanted THEN t ELSE NoOne] \in Moves
      BY <3>2 DEF Moves
    <3>4. QED
      BY <3>1, <3>3
  <2>3. [tx[r] EXCEPT !.at = "written", !.op = op, !.moved = m] \in Tx
    BY <1>1 DEF Tx
  <2>4. TxBecomes(r, [tx[r] EXCEPT !.at = "written", !.op = op, !.moved = m])
    BY <2>1, <2>2, Zenon
  <2>5. tx' \in [Requests -> Tx] /\ \A q \in Requests \ {r} : tx'[q] = tx[q]
    BY <1>1, <2>3, <2>4, OneSessionBecomes
  <2>6. /\ tx'[r].at = "written" /\ tx'[r].put = {} /\ tx'[r].gone = {}
        /\ tx'[r].keys = {}
    <3>1. tx'[r] = [tx[r] EXCEPT !.at = "written", !.op = op, !.moved = m]
      BY <1>1, <2>3, <2>4, OneSessionBecomes
    <3>2. QED
      BY <1>1, <3>1 DEF Tx
  <2>7. TeamTyped' /\ NoOne \notin Requests
    BY <1>1, <1>3, <2>5, SessionsTyped, TeamAssumption
  <2>8. QED
    BY <1>1, <1>3, <2>5, <2>6, <2>7, NothingWritten
<1>4. QED
  BY <1>2, <1>3

(* The PATCH of the team that changes its currency holds no row it wrote of  *)
(* the tables the invariant speaks of.                                       *)
LEMMA PatchCurrencyInv ==
  ASSUME TeamInv, NEW r \in Requests, PatchCurrency(r)
  PROVE  TeamInv'
<1>1. /\ TeamTyped /\ tx \in [Requests -> Tx] /\ tx[r] \in Tx
      /\ tx[r].at = "new"
      /\ tx[r].put = {} /\ tx[r].keys = {} /\ tx[r].gone = {} /\ lock # r
      /\ lock' = lock /\ lock \in Requests \union {NoOne}
      /\ UNCHANGED Committed /\ UNCHANGED <<budgets, records, alerts, nextId>>
  BY DEF TeamInv, TeamTyped, OwnWork, PatchCurrency, Committed
<1>2. CASE Close(r)
  BY <1>1, <1>2, OnlyCloses
<1>3. CASE TxBecomes(r, [tx[r] EXCEPT !.at = "written", !.op = "currency",
                                     !.currency = "KRW"])
  <2>1. [tx[r] EXCEPT !.at = "written", !.op = "currency",
                      !.currency = "KRW"] \in Tx
    BY <1>1 DEF Tx
  <2>2. tx' \in [Requests -> Tx] /\ \A q \in Requests \ {r} : tx'[q] = tx[q]
    BY <1>1, <1>3, <2>1, OneSessionBecomes
  <2>3. /\ tx'[r].at = "written" /\ tx'[r].put = {} /\ tx'[r].gone = {}
        /\ tx'[r].keys = {}
    <3>1. tx'[r] = [tx[r] EXCEPT !.at = "written", !.op = "currency",
                                 !.currency = "KRW"]
      BY <1>1, <1>3, <2>1, OneSessionBecomes
    <3>2. QED
      BY <1>1, <3>1 DEF Tx
  <2>4. TeamTyped' /\ NoOne \notin Requests
    BY <1>1, <2>2, SessionsTyped, TeamAssumption
  <2>5. QED
    BY <1>1, <2>2, <2>3, <2>4, NothingWritten
<1>4. QED
  BY <1>2, <1>3 DEF PatchCurrency

(* A new team starts without a budget.                                       *)
LEMMA CreateTeamInv ==
  ASSUME TeamInv, NEW r \in Requests, CreateTeam(r)
  PROVE  TeamInv'
<1>1. /\ TeamTyped /\ tx \in [Requests -> Tx]
      /\ lock \in Requests \union {NoOne}
      /\ Close(r) /\ UNCHANGED <<budgets, records, alerts, nextId>>
      /\ teams' \subseteq Teams /\ UNCHANGED <<teamOf, money, today, raises>>
  BY DEF TeamInv, TeamTyped, CreateTeam
<1>2. TeamTyped'
  BY <1>1, OneSessionCloses DEF TeamTyped
<1>3. QED
  BY <1>1, <1>2, OnlyCloses

(* The hook of an ingestion: the costs are committed, the session goes on  *)
(* to the evaluation.                                                      *)
LEMMA CollectCostsInv ==
  ASSUME TeamInv, NEW r \in Requests, CollectCosts(r)
  PROVE  TeamInv'
<1>1. /\ TeamTyped /\ tx \in [Requests -> Tx] /\ tx[r] \in Tx
      /\ tx[r].at = "new"
      /\ tx[r].put = {} /\ tx[r].keys = {} /\ tx[r].gone = {} /\ lock # r
      /\ UNCHANGED <<teams, budgets, nextId, records, alerts, teamOf, lock,
                     today, raises>>
      /\ TxBecomes(r, [tx[r] EXCEPT !.at = "written", !.op = "ingest"])
  BY DEF TeamInv, TeamTyped, OwnWork, CollectCosts
<1>2. [tx[r] EXCEPT !.at = "written", !.op = "ingest"] \in Tx
  BY <1>1 DEF Tx
<1>3. tx' \in [Requests -> Tx] /\ \A q \in Requests \ {r} : tx'[q] = tx[q]
  BY <1>1, <1>2, OneSessionBecomes
<1>4. /\ tx'[r].at = "written" /\ tx'[r].put = {} /\ tx'[r].gone = {}
      /\ tx'[r].keys = {}
  <2>1. tx'[r] = [tx[r] EXCEPT !.at = "written", !.op = "ingest"]
    BY <1>1, <1>2, OneSessionBecomes
  <2>2. QED
    BY <1>1, <2>1 DEF Tx
<1>5. money' \in [spent : Nat, currency : {"USD", "KRW"}]
  <2>1. PICK c \in Charges : money' = [money EXCEPT !.spent = c]
    BY DEF CollectCosts
  <2>2. c \in Nat
    BY TeamAssumption
  <2>3. QED
    BY <1>1, <2>1, <2>2 DEF TeamTyped
<1>6. TeamTyped'
  BY <1>1, <1>3, <1>5 DEF TeamTyped
<1>7. NoOne \notin Requests
  BY TeamAssumption
<1>8. QED
  BY <1>1, <1>3, <1>4, <1>6, <1>7, NothingWritten

(* A failed evaluation announces nothing: its transaction is rolled back.    *)
LEMMA EvaluationFailsInv ==
  ASSUME TeamInv, NEW r \in Requests, EvaluationFails(r)
  PROVE  TeamInv'
<1>1. /\ TeamTyped /\ tx \in [Requests -> Tx]
      /\ lock \in Requests \union {NoOne}
      /\ Close(r) /\ UNCHANGED <<budgets, records, alerts, nextId>>
      /\ UNCHANGED <<teams, teamOf, money, today>>
  BY DEF TeamInv, TeamTyped, EvaluationFails
<1>2. raises' \in 0 .. MaxRaises
  BY TeamAssumption DEF TeamInv, TeamTyped, EvaluationFails
<1>3. TeamTyped'
  BY <1>1, <1>2, OneSessionCloses DEF TeamTyped
<1>4. QED
  BY <1>1, <1>3, OnlyCloses

(* A team goes when no session is at work on it: its budgets and records   *)
(* with it, while the notifications stay.                                  *)
LEMMA DeleteTeamInv ==
  ASSUME TeamInv, NEW r \in Requests, DeleteTeam(r)
  PROVE  TeamInv'
<1> USE DEF TeamInv
<1>1. /\ TeamTyped /\ tx \in [Requests -> Tx]
      /\ lock \in Requests \union {NoOne}
      /\ Close(r) /\ budgets' = {} /\ records' = {}
      /\ UNCHANGED <<nextId, alerts, money, today, raises>>
      /\ teams' \subseteq Teams
      /\ teamOf' \in [Accounts -> Teams \union {NoOne}]
  BY DEF TeamTyped, DeleteTeam
<1>2. /\ tx' \in [Requests -> Tx]
      /\ \A q \in Requests \ {r} : tx'[q] = tx[q]
      /\ tx'[r].at = "ended"
      /\ lock' = IF lock = r THEN NoOne ELSE lock
  BY <1>1, OneSessionCloses
<1>3. \A q \in Requests : /\ tx'[q].put = {} /\ tx'[q].gone = {}
                         /\ tx'[q].keys = {}
  <2>1. \A q \in Requests : tx[q].at \in {"new", "read", "ended"}
    BY <1>1 DEF DeleteTeam, Tx
  <2>2. \A q \in Requests : /\ tx[q].put = {} /\ tx[q].gone = {}
                           /\ tx[q].keys = {}
    BY <2>1 DEF OwnWork
  <2>3. QED
    BY <1>1, <1>2, <2>2, OneSessionCloses
<1>4. TeamTyped'
  BY <1>1, <1>2 DEF TeamTyped
<1>5. IdsAreGiven' /\ BudgetsStayApart' /\ AlertedOnce'
  BY <1>1 DEF IdsAreGiven, BudgetsStayApart, Chain, AlertedOnce, Ids
<1>6. ASSUME NEW q \in Requests PROVE OwnWork(q)'
  <2>1. lock # q
    BY DEF DeleteTeam, OwnWork
  <2>2. CASE q = r
    BY <1>1, <1>2, <1>3, <2>1, <2>2, TeamAssumption DEF OwnWork, Touched, Ids
  <2>3. CASE q # r
    BY <1>1, <1>2, <1>3, <2>1, <2>3, TeamAssumption DEF OwnWork, Touched, Ids
  <2>4. QED
    BY <2>2, <2>3
<1>7. WorkIsApart' /\ CopiesKnowRows' /\ PutsFit' /\ KeysAreNew'
        /\ AlertsAreOfStored'
  BY <1>1, <1>3 DEF WorkIsApart, Touched, Ids, CopiesKnowRows, PutsFit,
     KeysAreNew, AlertsAreOfStored
<1>8. QED
  BY <1>4, <1>5, <1>6, <1>7

(***************************************************************************)
(* Their evaluation and commit                                             *)
(***************************************************************************)

(* What an evaluation may announce is of a budget the session sees, in a   *)
(* period that has begun.                                                  *)
LEMMA PassedAreKeys ==
  ASSUME TeamTyped, NEW r \in Requests, NEW k \in DuePassed(r)
  PROVE  k \in AlertKey /\ \E b \in View(r) : k.budget = b.id
<1>1. PICK b \in InEffect(View(r)), p \in Thresholds :
         k = [budget |-> b.id, period |-> PeriodStart(b), threshold |-> p]
  BY DEF DuePassed, Passed
<1>2. b \in View(r) /\ b.start <= today
  BY DEF InEffect, Latest, InProgress
<1>3. View(r) \subseteq BudgetRow
  <2>1. tx[r] \in Tx /\ budgets \subseteq BudgetRow
    BY DEF TeamTyped
  <2>2. QED
    BY <2>1, TxParts DEF View
<1>4. b.id \in Nat \ {0} /\ b.start \in Nat /\ today \in 0 .. LastDay
  BY <1>2, <1>3 DEF BudgetRow, TeamTyped
<1>5. PeriodStart(b) \in 0 .. LastDay
  <2>1. today \in Nat /\ LastDay \in Nat /\ PeriodDays \in Nat \ {0}
    BY <1>4, TeamAssumption
  <2>2. PICK d \in 0 .. today : d = today - (today % PeriodDays)
    <3>1. today % PeriodDays \in 0 .. today
      BY <2>1
    <3>2. QED
      BY <2>1, <3>1
  <2>3. Max({b.start, d}) \in {b.start, d}
    <3>1. \E m \in {b.start, d} : \A y \in {b.start, d} : m >= y
      <4>1. b.start >= d \/ d >= b.start
        BY <1>4
      <4>2. QED
        BY <1>4, <4>1
    <3>2. QED
      BY <3>1 DEF Max
  <2>4. PeriodStart(b) \in {b.start, d}
    BY <2>2, <2>3 DEF PeriodStart
  <2>5. QED
    BY <1>2, <1>4, <2>1, <2>2, <2>4
<1>6. QED
  BY <1>1, <1>2, <1>4, <1>5 DEF AlertKey

(* The evaluation claims the thresholds no record holds, each once.          *)
LEMMA EvaluateInv ==
  ASSUME TeamInv, NEW r \in Requests, Evaluate(r)
  PROVE  TeamInv'
<1> USE DEF TeamInv
<1>1. /\ tx \in [Requests -> Tx] /\ tx[r] \in Tx /\ tx[r].at = "written"
      /\ lock' = lock /\ lock \in Requests \union {NoOne}
      /\ UNCHANGED Committed /\ UNCHANGED <<budgets, records, alerts, nextId>>
  BY DEF TeamTyped, Evaluate, Committed
<1>2. PICK due \in SUBSET AlertKey :
         due = {k \in DuePassed(r) \ records : k.budget \in Ids(View(r))}
  BY PassedAreKeys
<1>3. ASSUME NEW k \in due
      PROVE  /\ k \in DuePassed(r) /\ k \notin records
             /\ k.budget \in Nat \ {0}
             /\ \E b \in View(r) : k.budget = b.id
  BY <1>2, PassedAreKeys DEF AlertKey
<1>4. TxBecomes(r, [tx[r] EXCEPT !.at = "evaluated", !.keys = due])
  BY <1>2, Zenon DEF Evaluate
<1>5. [tx[r] EXCEPT !.at = "evaluated", !.keys = due] \in Tx
  BY <1>1 DEF Tx
<1>6. tx' \in [Requests -> Tx] /\ \A q \in Requests \ {r} : tx'[q] = tx[q]
  BY <1>1, <1>4, <1>5, OneSessionBecomes
<1>7. /\ tx'[r].at = "evaluated" /\ tx'[r].keys = due
      /\ tx'[r].put = tx[r].put /\ tx'[r].gone = tx[r].gone
  <2>1. tx'[r] = [tx[r] EXCEPT !.at = "evaluated", !.keys = due]
    BY <1>1, <1>4, <1>5, OneSessionBecomes
  <2>2. QED
    BY <1>1, <2>1 DEF Tx
<1>8. TeamTyped'
  BY <1>1, <1>6, SessionsTyped
<1>9. IdsAreGiven' /\ BudgetsStayApart' /\ AlertedOnce'
  BY <1>1 DEF IdsAreGiven, BudgetsStayApart, Chain, Overlap, AlertedOnce, Ids
<1>10. \A q \in Requests :
          /\ tx'[q].put = tx[q].put /\ tx'[q].gone = tx[q].gone
          /\ tx'[q].at = "read" => tx'[q] = tx[q]
  BY <1>6, <1>7
<1>11. ASSUME NEW q \in Requests PROVE OwnWork(q)'
  <2>1. Touched(q)' = Touched(q)
    BY <1>10 DEF Touched, Ids
  <2>2. CASE q = r
    BY <1>1, <1>7, <2>1, <2>2 DEF OwnWork
  <2>3. CASE q # r
    BY <1>1, <1>6, <2>1, <2>3 DEF OwnWork
  <2>4. QED
    BY <2>2, <2>3
<1>12. WorkIsApart'
  <2>1. \A q \in Requests : Touched(q)' = Touched(q)
    BY <1>10 DEF Touched, Ids
  <2>2. \A q \in Requests \ {r} : tx[q].keys \intersect due = {}
    BY <1>3 DEF Evaluate
  <2>3. QED
    BY <1>6, <1>7, <2>1, <2>2 DEF WorkIsApart
<1>13. CopiesKnowRows' /\ PutsFit' /\ AlertsAreOfStored'
  BY <1>1, <1>10 DEF CopiesKnowRows, CopyKnowsRow, PutsFit, Overlap,
     AlertsAreOfStored, Ids
<1>14. KeysAreNew'
  <2>1. ASSUME NEW k \in due
        PROVE  /\ k.budget < nextId
               /\ k.budget \in Ids(budgets) \union Ids(tx[r].put)
               /\ \A q \in Requests : k.budget \notin tx[q].gone
               /\ \A x \in alerts : x[1] # k
    <3>1. PICK b \in View(r) : k.budget = b.id
      BY <1>3
    <3>2. \/ b \in budgets /\ b.id \notin tx[r].gone
          \/ b \in tx[r].put
      BY DEF View
    <3>3. k.budget \in Ids(budgets) \union Ids(tx[r].put)
      BY <3>1, <3>2 DEF Ids
    <3>4. k.budget < nextId
      BY <3>1, <3>2 DEF IdsAreGiven, OwnWork, Touched, Ids
    <3>5. k.budget \notin tx[r].gone
      BY <3>1, <3>2 DEF OwnWork
    <3>6. \A q \in Requests \ {r} : k.budget \notin tx[q].gone
      BY <1>3 DEF Evaluate
    <3>7. \A x \in alerts : x[1] # k
      <4>1. SUFFICES ASSUME NEW x \in alerts, x[1] = k PROVE FALSE
        OBVIOUS
      <4>2. x[1].budget \in Ids(budgets)
        BY <3>3, <4>1 DEF AlertsAreOfStored
      <4>3. k \in records
        BY <4>1, <4>2 DEF AlertedOnce
      <4>4. QED
        BY <1>3, <4>3
    <3>8. QED
      BY <3>3, <3>4, <3>5, <3>6, <3>7
  <2>2. ASSUME NEW q \in Requests, NEW k \in tx'[q].keys
        PROVE  \/ q = r /\ k \in due
               \/ q # r /\ k \in tx[q].keys
    <3>1. CASE q = r
      BY <1>7, <3>1
    <3>2. CASE q # r
      BY <1>6, <3>2
    <3>3. QED
      BY <3>1, <3>2
  <2>3. QED
    BY <1>1, <1>7, <1>10, <2>1, <2>2 DEF KeysAreNew, Ids
<1>15. QED
  BY <1>8, <1>9, <1>11, <1>12, <1>13, <1>14

(* The commit: the budgets become what the session sees, its records and   *)
(* its notifications appear together.                                      *)
LEMMA CommitInv ==
  ASSUME TeamInv, NEW r \in Requests, Commit(r)
  PROVE  TeamInv'
<1> USE DEF TeamInv
<1>1. /\ tx \in [Requests -> Tx] /\ tx[r] \in Tx /\ tx[r].at = "evaluated"
      /\ Close(r) /\ UNCHANGED <<teams, nextId, today, raises>>
      /\ lock \in Requests \union {NoOne} /\ budgets \subseteq BudgetRow
      /\ NoOne \notin Requests
      /\ records' = Cascade(tx[r].gone) \union tx[r].keys
      /\ alerts' = alerts \union {<<k, r>> : k \in tx[r].keys}
  BY TeamAssumption DEF TeamTyped, Commit
<1>2. PICK V \in SUBSET BudgetRow : V = View(r)
  BY <1>1, TxParts DEF View
<1>3. budgets' = V
  BY <1>2 DEF Commit
<1>4. \A b : b \in V <=> \/ b \in budgets /\ b.id \notin Touched(r)
                         \/ b \in tx[r].put
  BY <1>2 DEF View, Touched
<1>5. /\ tx' \in [Requests -> Tx] /\ tx'[r].at = "ended"
      /\ tx'[r].put = {} /\ tx'[r].gone = {} /\ tx'[r].keys = {}
      /\ \A q \in Requests \ {r} : tx'[q] = tx[q]
      /\ lock' = IF lock = r THEN NoOne ELSE lock
  BY <1>1, OneSessionCloses
<1>6. ASSUME NEW k \in tx[r].keys
      PROVE  /\ k \in AlertKey /\ k.budget < nextId
             /\ k.budget \in Ids(budgets) \union Ids(tx[r].put)
             /\ k.budget \notin tx[r].gone
             /\ \A x \in alerts : x[1] # k
  BY <1>1, TxParts DEF KeysAreNew
<1>7. \A i \in Ids(V) : i \in Ids(budgets) \/ i \in Ids(tx[r].put)
  BY <1>4 DEF Ids
<1>8. \A i \in Ids(budgets) : i \notin tx[r].gone => i \in Ids(V)
  BY <1>4 DEF Ids, Touched
<1>9. \A i \in Ids(tx[r].put) : i \in Ids(V) /\ i \notin tx[r].gone
  BY <1>4 DEF Ids, OwnWork
<1>10. ASSUME NEW q \in Requests \ {r}, tx[q].put # {}
       PROVE  tx[r].put = {} /\ V \subseteq budgets
  BY <1>4, <1>10 DEF OwnWork
<1>11. TeamTyped'
  <2>1. teamOf' \in [Accounts -> Teams \union {NoOne}]
    <3>1. PICK S \in SUBSET Accounts :
             tx[r].moved \in [S -> Teams \union {NoOne}]
      <4>1. tx[r].moved \in Moves
        BY <1>1 DEF Tx
      <4>2. QED
        BY <4>1 DEF Moves
    <3>2. QED
      BY <3>1 DEF Commit, TeamTyped
  <2>2. money' \in [spent : Nat, currency : {"USD", "KRW"}]
    <3>1. tx[r].currency = NoOne \/ tx[r].currency = "KRW"
      BY <1>1 DEF Tx
    <3>2. QED
      BY <3>1 DEF Commit, TeamTyped
  <2>3. records' \subseteq AlertKey /\ alerts' \subseteq AlertKey \X Requests
    BY <1>1, <1>6 DEF TeamTyped, Cascade
  <2>4. lock' \in Requests \union {NoOne}
    BY <1>1, <1>5
  <2>5. QED
    BY <1>1, <1>2, <1>3, <1>5, <2>1, <2>2, <2>3, <2>4 DEF TeamTyped
<1>12. IdsAreGiven'
  <2>1. \A b, c \in V : b.id = c.id => b = c
    BY <1>4 DEF IdsAreGiven, OwnWork, Touched, Ids
  <2>2. \A b \in V : b.id < nextId
    BY <1>4 DEF IdsAreGiven, OwnWork, Touched, Ids
  <2>3. \A k \in records' : k.budget < nextId
    BY <1>1, <1>6 DEF IdsAreGiven, Cascade
  <2>4. \A x \in alerts' : x[1].budget < nextId
    BY <1>1, <1>6 DEF IdsAreGiven
  <2>5. QED
    BY <1>1, <1>3, <2>1, <2>2, <2>3, <2>4 DEF IdsAreGiven
<1>13. BudgetsStayApart'
  <2>1. ASSUME NEW b \in V, NEW c \in V, b.type = "custom", c.type = "custom",
               b.id # c.id
        PROVE  ~(c.start < b.end /\ b.start < c.end)
    <3>1. CASE b \in budgets /\ c \in budgets
      BY <2>1, <3>1 DEF BudgetsStayApart, Chain, Overlap
    <3>2. CASE b \in tx[r].put /\ c \in budgets
      BY <2>1, <3>2 DEF PutsFit, Overlap
    <3>3. CASE b \in budgets /\ c \in tx[r].put
      BY <2>1, <3>3 DEF PutsFit, Overlap
    <3>4. CASE b \in tx[r].put /\ c \in tx[r].put
      BY <2>1, <3>4 DEF OwnWork
    <3>5. QED
      BY <1>4, <3>1, <3>2, <3>3, <3>4
  <2>2. ASSUME NEW b \in Chain(V), NEW c \in Chain(V), b.start = c.start
        PROVE  b = c
    <3>1. /\ b \in V /\ b.type # "custom" /\ c \in V /\ c.type # "custom"
          /\ \A x \in Chain(tx[r].put), y \in Chain(budgets) :
                x.id # y.id => x.start # y.start
      BY DEF Chain, Commit
    <3>2. CASE b \in budgets /\ c \in budgets
      BY <2>2, <3>1, <3>2 DEF BudgetsStayApart, Chain
    <3>3. CASE b \in tx[r].put /\ c \in tx[r].put
      BY <3>3 DEF OwnWork
    <3>4. CASE b \in tx[r].put /\ c \notin tx[r].put
      BY <1>4, <2>2, <3>1, <3>4 DEF Chain, Touched, Ids
    <3>5. CASE b \notin tx[r].put /\ c \in tx[r].put
      BY <1>4, <2>2, <3>1, <3>5 DEF Chain, Touched, Ids
    <3>6. QED
      BY <1>4, <3>1, <3>2, <3>3, <3>4, <3>5
  <2>3. QED
    BY <1>3, <2>1, <2>2 DEF BudgetsStayApart, Chain, Overlap
<1>14. ASSUME NEW q \in Requests PROVE OwnWork(q)'
  <2>1. CASE q = r
    BY <1>1, <1>5, <2>1 DEF OwnWork, Touched, Ids
  <2>2. CASE q # r
    BY <1>1, <1>5, <2>2 DEF OwnWork, Touched, Ids
  <2>3. QED
    BY <2>1, <2>2
<1>15. WorkIsApart'
  BY <1>5 DEF WorkIsApart, Touched, Ids
<1>16. CopiesKnowRows'
  <2>1. ASSUME NEW q \in Requests, NEW b \in V PROVE CopyKnowsRow(q, b)'
    BY <1>4, <1>5 DEF CopiesKnowRows, CopyKnowsRow
  <2>2. ASSUME NEW q \in Requests, NEW s \in Requests, NEW b \in tx'[s].put
        PROVE  CopyKnowsRow(q, b)'
    BY <1>5 DEF CopiesKnowRows, CopyKnowsRow
  <2>3. QED
    BY <1>3, <2>1, <2>2 DEF CopiesKnowRows
<1>17. PutsFit'
  <2>1. ASSUME NEW q \in Requests, NEW p \in tx'[q].put
        PROVE  q # r /\ p \in tx[q].put /\ V \subseteq budgets
    BY <1>5, <1>10
  <2>2. QED
    BY <1>3, <2>1 DEF PutsFit, Overlap
<1>18. KeysAreNew'
  <2>1. ASSUME NEW q \in Requests, NEW k \in tx'[q].keys
        PROVE  /\ k.budget < nextId
               /\ k.budget \in Ids(V) \union Ids(tx'[q].put)
               /\ \A s \in Requests : k.budget \notin tx'[s].gone
               /\ \A x \in alerts' : x[1] # k
    <3>1. q # r /\ k \in tx[q].keys /\ tx'[q].put = tx[q].put
      BY <1>5
    <3>2. /\ k.budget < nextId
          /\ k.budget \in Ids(budgets) \union Ids(tx[q].put)
          /\ \A s \in Requests : k.budget \notin tx[s].gone
          /\ \A x \in alerts : x[1] # k
      BY <3>1 DEF KeysAreNew
    <3>3. k \notin tx[r].keys
      BY <3>1 DEF WorkIsApart
    <3>4. \A s \in Requests : k.budget \notin tx'[s].gone
      BY <1>5, <3>2
    <3>5. QED
      BY <1>1, <1>8, <3>1, <3>2, <3>3, <3>4
  <2>2. QED
    BY <1>1, <1>3, <2>1 DEF KeysAreNew, Ids
<1>19. AlertsAreOfStored'
  <2>1. ASSUME NEW x \in alerts', NEW q \in Requests,
               x[1].budget \in Ids(tx'[q].put)
        PROVE  x[1].budget \in Ids(V)
    <3>1. q # r /\ x[1].budget \in Ids(tx[q].put) /\ tx[r].put = {}
      BY <1>5, <1>10, <2>1 DEF Ids
    <3>2. x[1].budget \in Ids(budgets)
      BY <1>1, <1>6, <3>1 DEF AlertsAreOfStored, Ids
    <3>3. x[1].budget \notin tx[r].gone
      BY <3>1 DEF WorkIsApart, Touched
    <3>4. QED
      BY <1>8, <3>2, <3>3
  <2>2. QED
    BY <1>3, <2>1 DEF AlertsAreOfStored, Ids
<1>20. AlertedOnce'
  <2>1. ASSUME NEW x \in alerts', NEW y \in alerts', x[1] = y[1] PROVE x = y
    <3>1. CASE x \in alerts /\ y \in alerts
      BY <2>1, <3>1 DEF AlertedOnce
    <3>2. CASE x \notin alerts \/ y \notin alerts
      BY <1>1, <1>6, <2>1, <3>2
    <3>3. QED
      BY <3>1, <3>2
  <2>2. ASSUME NEW k \in records' PROVE \E x \in alerts' : x[1] = k
    <3>1. CASE k \in tx[r].keys
      <4>1. <<k, r>> \in alerts' /\ <<k, r>>[1] = k
        BY <1>1, <3>1
      <4>2. QED
        BY <4>1
    <3>2. CASE k \in records
      BY <1>1, <3>2 DEF AlertedOnce
    <3>3. QED
      BY <1>1, <3>1, <3>2 DEF Cascade
  <2>3. ASSUME NEW x \in alerts', x[1].budget \in Ids(V)
        PROVE  x[1] \in records'
    <3>1. CASE x \in alerts
      <4>1. x[1].budget \in Ids(budgets)
        BY <1>7, <2>3, <3>1 DEF AlertsAreOfStored
      <4>2. x[1] \in records
        BY <3>1, <4>1 DEF AlertedOnce
      <4>3. x[1].budget \notin tx[r].gone
        BY <1>4, <1>9, <2>3 DEF Ids, Touched
      <4>4. QED
        BY <1>1, <4>2, <4>3 DEF Cascade
    <3>2. CASE x \notin alerts
      BY <1>1, <3>2
    <3>3. QED
      BY <3>1, <3>2
  <2>4. QED
    BY <1>3, <2>1, <2>2, <2>3 DEF AlertedOnce, Ids
<1>21. QED
  BY <1>11, <1>12, <1>13, <1>14, <1>15, <1>16, <1>17, <1>18, <1>19, <1>20

(* A day passes.                                                           *)
LEMMA NextDayInv ==
  ASSUME TeamInv, NextDay
  PROVE  TeamInv'
<1> USE DEF TeamInv
<1>1. UNCHANGED <<teams, budgets, nextId, records, alerts, teamOf, money, lock,
                  tx, raises>>
  BY DEF NextDay
<1>2. today' \in 0 .. LastDay
  BY TeamAssumption DEF NextDay, TeamTyped
<1>3. TeamTyped'
  BY <1>1, <1>2 DEF TeamTyped
<1>4. QED
  BY <1>1, <1>3 DEF IdsAreGiven, OwnWork, Touched, Ids, WorkIsApart,
     CopiesKnowRows, CopyKnowsRow, PutsFit, Overlap, BudgetsStayApart, Chain,
     KeysAreNew, AlertsAreOfStored, AlertedOnce

(***************************************************************************)
(* What users see of budgets and alerts                                    *)
(***************************************************************************)

(* The strengthening is an invariant of the specification.                 *)
THEOREM TeamInductive == TeamSpec => []TeamInv
<1>1. TeamInit => TeamInv
  <2> SUFFICES ASSUME TeamInit PROVE TeamInv
    OBVIOUS
  <2>1. Cardinality(FirstBudgets) \in Nat
    BY FS_CardinalityType, TeamAssumption
  <2>2. tx \in [Requests -> Tx]
    BY NewTxTyped DEF TeamInit
  <2>3. \A r \in Requests : /\ tx[r].at = "new" /\ tx[r].put = {}
                            /\ tx[r].gone = {} /\ tx[r].keys = {}
    BY DEF TeamInit, NewTx
  <2>4. TeamTyped
    BY <2>1, <2>2, TeamAssumption DEF TeamInit, TeamTyped
  <2>5. IdsAreGiven
    BY <2>1, TeamAssumption DEF TeamInit, IdsAreGiven, BudgetRow
  <2>6. BudgetsStayApart
    BY TeamAssumption DEF TeamInit, BudgetsStayApart, Chain, Overlap, Apart
  <2>7. \A r \in Requests : OwnWork(r)
    BY <2>3, TeamAssumption DEF TeamInit, OwnWork, Touched, Ids
  <2>8. /\ WorkIsApart /\ CopiesKnowRows /\ PutsFit /\ KeysAreNew
        /\ AlertsAreOfStored /\ AlertedOnce
    BY <2>3 DEF TeamInit, WorkIsApart, Touched, Ids, CopiesKnowRows,
       CopyKnowsRow,
       PutsFit, KeysAreNew, AlertsAreOfStored, AlertedOnce
  <2>9. QED
    BY <2>4, <2>5, <2>6, <2>7, <2>8 DEF TeamInv
<1>2. TeamInv /\ [TeamNext]_teamVars => TeamInv'
  <2> SUFFICES ASSUME TeamInv, [TeamNext]_teamVars PROVE TeamInv'
    OBVIOUS
  <2>1. CASE TeamNext
    BY <2>1, CreateBudgetInv, ReadBudgetInv, PatchBudgetInv, DeleteBudgetInv,
       PutAccountsInv, PatchCurrencyInv, CreateTeamInv, DeleteTeamInv,
       CollectCostsInv, EvaluateInv, EvaluationFailsInv, CommitInv, NextDayInv
       DEF TeamNext
  <2>2. CASE UNCHANGED teamVars
    BY <2>2 DEF teamVars, TeamInv, TeamTyped, IdsAreGiven, OwnWork, Touched,
       Ids, WorkIsApart, CopiesKnowRows, CopyKnowsRow, PutsFit, Overlap,
       BudgetsStayApart, Chain, KeysAreNew, AlertsAreOfStored, AlertedOnce
  <2>3. QED
    BY <2>1, <2>2
<1>3. QED
  BY <1>1, <1>2, PTL DEF TeamSpec

(* Rows hold what their columns may, the lock is held by a session that    *)
(* has written, and the ids are those the sequence has given.              *)
THEOREM TeamTypeCorrect == TeamSpec => []TeamTypeOK
<1>1. TeamInv => TeamTypeOK
  <2> SUFFICES ASSUME TeamInv PROVE TeamTypeOK
    OBVIOUS
  <2>1. TeamTyped /\ IdsAreGiven /\ \A r \in Requests : OwnWork(r)
    BY DEF TeamInv
  <2>2. \A b \in budgets : b.id < nextId /\ b.limit > 0 /\ b.start < b.end
    BY <2>1 DEF TeamTyped, IdsAreGiven, BudgetRow
  <2>3. ASSUME NEW k \in AlertKey, k.budget < nextId
        PROVE  k \in [budget : 1 .. nextId, period : 0 .. LastDay,
                      threshold : Thresholds]
    BY <2>1, <2>3 DEF TeamTyped, AlertKey
  <2>4. records \subseteq [budget : 1 .. nextId, period : 0 .. LastDay,
                           threshold : Thresholds]
    BY <2>1, <2>3 DEF TeamTyped, IdsAreGiven
  <2>5. alerts \subseteq [budget : 1 .. nextId, period : 0 .. LastDay,
                          threshold : Thresholds] \X Requests
    BY <2>1, <2>3 DEF TeamTyped, IdsAreGiven
  <2>6. lock # NoOne => tx[lock].at \in {"written", "evaluated"}
    BY <2>1 DEF TeamTyped, OwnWork
  <2>7. QED
    BY <2>1, <2>2, <2>4, <2>5, <2>6 DEF TeamTyped, TeamTypeOK
<1>2. QED
  BY <1>1, TeamInductive, PTL

(* Whatever requests come at once, no two custom budgets of a team share a *)
(* day and no two of its chain start on the same day.                      *)
THEOREM BudgetsApart == TeamSpec => []BudgetsStayApart
<1>1. TeamInv => BudgetsStayApart
  BY DEF TeamInv
<1>2. QED
  BY <1>1, TeamInductive, PTL

(* A threshold of a budget and a period is announced once, and the record  *)
(* of it lives as long as its budget.                                      *)
THEOREM ThresholdsAnnouncedOnce ==
  TeamSpec => []AlertedOnce
<1>1. TeamInv => AlertedOnce
  BY DEF TeamInv
<1>2. QED
  BY <1>1, TeamInductive, PTL
=============================================================================
