---------------------------- MODULE CloudActions ----------------------------
(* What a delete request does to the cloud where it takes several calls: a *)
(* bucket with contents (S3 and Cloud Storage), a CloudFront distribution, *)
(* a Cloud CDN load balancer, and Azure resources found by their name.     *)
(* Requests run at once, and others use the cloud meanwhile.               *)
EXTENDS Integers, FiniteSets

CONSTANTS
    Actions,        \* delete requests
    Objects,        \* what the bucket may hold
    Named,          \* Azure resources of the subscription: [type, name, group]
    Wanted,         \* what requests ask of Azure: [service, name]
    MaxOthers       \* steps others take

(* An object in a bucket is no resource of the Azure subscription.         *)
ASSUME CloudConstants == Objects \intersect Named = {}

VARIABLES
    act,            \* the requests
    bucket,         \* [there, holds]
    dist,           \* the distribution: [there, enabled, deployed, etag]
    parts,          \* of the load balancer: [live, dying, failed, ours]: what stands, what an
                    \* operation removes, what one failed to remove; is its name Terraform's?
    azure,          \* Azure resources that exist
    removed,        \* <<request, what it has deleted>>
    slow,           \* requests of which a call failed or outlasted its wait
    turns

cloudVars == <<act, bucket, dist, parts, azure, removed, slow, turns>>

(* Each part of the load balancer refers to the next.                      *)
CdnChain == <<"forwardingRule", "targetHttpProxy", "urlMap", "backendBucket">>
Standing == parts.live \union parts.dying
InUse(i) == i > 1 /\ CdnChain[i - 1] \in Standing

NewAct == [at |-> "new", kind |-> "none", force |-> FALSE, left |-> {},
           etag |-> 0, part |-> 1, waits |-> FALSE, wanted |-> {}, found |-> {}]

CloudInit ==
    /\ act = [a \in Actions |-> NewAct]
    /\ bucket \in [there : {TRUE}, holds : SUBSET Objects]
    /\ dist = [there |-> TRUE, enabled |-> TRUE, deployed |-> TRUE, etag |-> 0]
    /\ parts \in [live : {{CdnChain[i] : i \in 1 .. 4}}, dying : {{}}, failed : {{}}, ours : BOOLEAN]
    /\ azure = Named /\ removed = {} /\ slow = {} /\ turns = 0

ActionBecomes(a, r) == act' = [act EXCEPT ![a] = r]
ActionEnds(a, what) == ActionBecomes(a, [act[a] EXCEPT !.at = what])
Ended == {"ok", "BucketNotEmpty", "CloudFrontNotDisabled", "PROVIDER_API_ERROR"}

(* Any call may fail, and ends the request with it.                        *)
ActionFails(a) ==
    /\ act[a].at \notin Ended \union {"new", "clearing"}
    /\ ActionEnds(a, "PROVIDER_API_ERROR") /\ slow' = slow \union {a}
    /\ UNCHANGED <<bucket, dist, parts, azure, removed, turns>>

-----------------------------------------------------------------------------
(* A bucket that is not empty is emptied and tried again, if forced.  What *)
(* is listed is deleted one by one; the answer of a single deletion is not *)
(* looked at.                                                              *)
AskBucket(a) ==
    /\ act[a].at = "new"
    /\ \E force \in BOOLEAN : ActionBecomes(a, [NewAct EXCEPT !.at = "bucket", !.kind = "bucket", !.force = force])
    /\ UNCHANGED <<bucket, dist, parts, azure, removed, slow, turns>>

RemoveBucketUnforced(a) ==      \* changed: the contents go before force is asked for
    /\ act[a].at = "bucket"
    /\ IF bucket.holds = {} THEN bucket' = [bucket EXCEPT !.there = FALSE] /\ ActionEnds(a, "ok")
       ELSE bucket' = bucket /\ ActionBecomes(a, [act[a] EXCEPT !.at = "emptying", !.left = bucket.holds])
    /\ UNCHANGED <<dist, parts, azure, removed, slow, turns>>

RemoveBucket(a) ==
    /\ act[a].at = "bucket"
    /\ \/ /\ ~bucket.there /\ ActionEnds(a, "PROVIDER_API_ERROR") /\ bucket' = bucket
       \/ /\ bucket.there /\ bucket.holds = {} /\ ActionEnds(a, "ok")
          /\ bucket' = [bucket EXCEPT !.there = FALSE]
       \/ /\ bucket.there /\ bucket.holds # {} /\ bucket' = bucket
          /\ IF act[a].force THEN ActionBecomes(a, [act[a] EXCEPT !.at = "emptying", !.left = bucket.holds])
             ELSE ActionEnds(a, "BucketNotEmpty")
    /\ UNCHANGED <<dist, parts, azure, removed, slow, turns>>

EmptyBucket(a) ==
    /\ act[a].at = "emptying"
    /\ \E o \in act[a].left :
        /\ ActionBecomes(a, [act[a] EXCEPT !.left = @ \ {o}])
        /\ \/ /\ bucket' = [bucket EXCEPT !.holds = @ \ {o}]
              /\ removed' = removed \union ({a} \X ({o} \cap bucket.holds))
           \/ UNCHANGED <<bucket, removed>>
    /\ UNCHANGED <<dist, parts, azure, slow, turns>>

RemoveEmptied(a) ==
    /\ act[a].at = "emptying" /\ act[a].left = {}
    /\ IF bucket.there /\ bucket.holds = {}
       THEN ActionEnds(a, "ok") /\ bucket' = [bucket EXCEPT !.there = FALSE]
       ELSE ActionEnds(a, "PROVIDER_API_ERROR") /\ bucket' = bucket
    /\ UNCHANGED <<dist, parts, azure, removed, slow, turns>>

-----------------------------------------------------------------------------
(* A distribution is disabled by one request and deleted by a later one.   *)
GetDistribution(a) ==
    /\ act[a].at = "new"
    /\ IF ~dist.there THEN ActionBecomes(a, [NewAct EXCEPT !.at = "PROVIDER_API_ERROR", !.kind = "dist"])
       ELSE ActionBecomes(a, [NewAct EXCEPT !.at = IF dist.enabled THEN "disabling" ELSE "deleting",
                                     !.kind = "dist", !.etag = dist.etag])
    /\ UNCHANGED <<bucket, dist, parts, azure, removed, slow, turns>>

Matches(a) == dist.there /\ dist.etag = act[a].etag

UpdateDistribution(a) ==
    /\ act[a].at = "disabling"
    /\ IF Matches(a)
       THEN /\ ActionEnds(a, "CloudFrontNotDisabled")
            /\ dist' = [dist EXCEPT !.enabled = FALSE, !.deployed = FALSE, !.etag = @ + 1]
       ELSE ActionEnds(a, "PROVIDER_API_ERROR") /\ dist' = dist
    /\ UNCHANGED <<bucket, parts, azure, removed, slow, turns>>

DeleteDistribution(a) ==
    /\ act[a].at = "deleting"
    /\ \/ Matches(a) /\ dist.deployed /\ ActionEnds(a, "ok") /\ dist' = [dist EXCEPT !.there = FALSE]
       \/ dist.there /\ ~(Matches(a) /\ dist.deployed) /\ ActionEnds(a, "CloudFrontNotDisabled") /\ dist' = dist
       \/ ~dist.there /\ ActionEnds(a, "PROVIDER_API_ERROR") /\ dist' = dist
    /\ UNCHANGED <<bucket, parts, azure, removed, slow, turns>>

-----------------------------------------------------------------------------
(* The forwarding rule, then, if its name ends the way Terraform ends it,  *)
(* the proxy, the map and the backend, each once the operation before is   *)
(* done - with an error or without - or has outlasted the wait.  Only the  *)
(* first call's failure is an error; a refusal of the others is passed     *)
(* over and leaves no operation to wait for.                               *)
Sent(i) == [parts EXCEPT !.live = @ \ {CdnChain[i]}, !.dying = @ \union {CdnChain[i]}]

DeleteRule(a) ==
    /\ act[a].at = "new"
    /\ IF CdnChain[1] \notin parts.live
       THEN ActionBecomes(a, [NewAct EXCEPT !.at = "PROVIDER_API_ERROR", !.kind = "cdn"]) /\ parts' = parts
       ELSE ActionBecomes(a, [NewAct EXCEPT !.at = "clearing", !.kind = "cdn", !.waits = TRUE]) /\ parts' = Sent(1)
    /\ UNCHANGED <<bucket, dist, azure, removed, slow, turns>>

Last == IF parts.ours THEN 4 ELSE 1

SendNext(a) ==
    LET i == act[a].part + 1
        accepted == CdnChain[i] \in parts.live /\ ~InUse(i)
    IN  /\ ActionBecomes(a, [act[a] EXCEPT !.part = i, !.waits = accepted])
        /\ parts' = IF accepted THEN Sent(i) ELSE parts
        /\ UNCHANGED <<bucket, dist, azure, removed, slow, turns>>

DeleteNextAtOnce(a) ==      \* changed: no waiting for the operation before
    act[a].at = "clearing" /\ act[a].part < Last /\ SendNext(a)

DeleteNext(a) == act[a].at = "clearing" /\ act[a].part < Last /\ ~act[a].waits /\ SendNext(a)

(* The wait ends early, or a deletion of the chain cannot be sent.         *)
GiveUpWaiting(a) ==
    /\ act[a].at = "clearing" /\ slow' = slow \union {a}
    /\ \/ act[a].waits /\ ActionBecomes(a, [act[a] EXCEPT !.waits = FALSE])
       \/ act[a].part < Last /\ ~act[a].waits /\ ActionBecomes(a, [act[a] EXCEPT !.part = @ + 1])
    /\ UNCHANGED <<bucket, dist, parts, azure, removed, turns>>

ChainCleared(a) ==
    /\ act[a].at = "clearing" /\ act[a].part = Last /\ ~act[a].waits
    /\ ActionEnds(a, "ok") /\ UNCHANGED <<bucket, dist, parts, azure, removed, slow, turns>>

(* Google Cloud ends an operation: the part is gone, or the operation is   *)
(* DONE with an error and the part stands as before.                       *)
Awaited(p) == {a \in Actions : act[a].at = "clearing" /\ CdnChain[act[a].part] = p}

OperationDone ==
    /\ \E p \in parts.dying :
        /\ act' = [a \in Actions |-> [act[a] EXCEPT !.waits = @ /\ a \notin Awaited(p)]]
        /\ \/ parts' = [parts EXCEPT !.dying = @ \ {p}]
           \/ parts' = [parts EXCEPT !.dying = @ \ {p}, !.live = @ \union {p}, !.failed = @ \union {p}]
    /\ UNCHANGED <<bucket, dist, azure, removed, slow, turns>>

-----------------------------------------------------------------------------
(* Azure: the subscription is listed for the first resource with the name  *)
(* whose type is any of those that can be deleted so; it is deleted by its *)
(* own id.                                                                 *)
DeletableTypes ==
    {"microsoft.storage/storageaccounts", "microsoft.dbformysql/flexibleservers",
     "microsoft.dbforpostgresql/flexibleservers", "microsoft.sql/servers", "microsoft.cdn/profiles"}
ServiceOf(type) ==
    CASE type = "microsoft.storage/storageaccounts" -> "storage_account"
      [] type = "microsoft.cdn/profiles" -> "cdn"
      [] type = "microsoft.compute/virtualmachines" -> "vm"
      [] OTHER -> "sql_database"

Candidates(wanted) == {res \in azure : res.name = wanted.name /\ res.type \in DeletableTypes}

FindResource(a) ==
    /\ act[a].at = "new"
    /\ \E wanted \in Wanted :
        LET request == [NewAct EXCEPT !.kind = "azure", !.wanted = {wanted}]
        IN  \/ Candidates(wanted) = {} /\ ActionBecomes(a, [request EXCEPT !.at = "PROVIDER_API_ERROR"])
            \/ \E res \in Candidates(wanted) :
                ActionBecomes(a, [request EXCEPT !.at = "found", !.found = {res}])
    /\ UNCHANGED <<bucket, dist, parts, azure, removed, slow, turns>>

DeleteFound(a) ==
    /\ act[a].at = "found" /\ ActionEnds(a, "ok")
    /\ azure' = azure \ act[a].found
    /\ removed' = removed \union ({a} \X (act[a].found \cap azure))
    /\ UNCHANGED <<bucket, dist, parts, slow, turns>>

-----------------------------------------------------------------------------
(* Others: an upload, a change in the console, AWS's propagation.          *)
Others ==
    /\ turns < MaxOthers /\ turns' = turns + 1
    /\ \/ /\ bucket.there /\ \E o \in Objects : bucket' = [bucket EXCEPT !.holds = @ \union {o}]
          /\ dist' = dist
       \/ /\ dist.there /\ bucket' = bucket
          /\ dist' \in {[dist EXCEPT !.deployed = ~dist.enabled],
                        [dist EXCEPT !.enabled = TRUE, !.deployed = FALSE, !.etag = @ + 1]}
    /\ UNCHANGED <<act, parts, azure, removed, slow>>

CloudNext ==
    \/ \E a \in Actions :
        \/ ActionFails(a)
        \/ AskBucket(a) \/ RemoveBucket(a) \/ EmptyBucket(a) \/ RemoveEmptied(a)
        \/ GetDistribution(a) \/ UpdateDistribution(a) \/ DeleteDistribution(a)
        \/ DeleteRule(a) \/ DeleteNext(a) \/ GiveUpWaiting(a) \/ ChainCleared(a)
        \/ FindResource(a) \/ DeleteFound(a)
    \/ OperationDone \/ Others

CloudSpec == CloudInit /\ [][CloudNext]_cloudVars

-----------------------------------------------------------------------------
CloudTypeOK ==
    /\ bucket.holds \subseteq Objects /\ (bucket.holds # {} => bucket.there)
    /\ parts.live \cap parts.dying = {} /\ Standing \union parts.failed \subseteq {CdnChain[i] : i \in 1 .. 4}
    /\ azure \subseteq Named
    /\ \A a \in Actions : act[a].left \subseteq Objects /\ act[a].found \subseteq Named

(* Nothing is taken out of a bucket but by a request that was told to,     *)
(* whatever other requests and users do to the bucket meanwhile (aws.py    *)
(* 201-212, gcp.py 173-190).                                               *)
ContentsGoOnlyWhenForced ==
    \A a \in Actions, o \in Objects : <<a, o>> \in removed => act[a].kind = "bucket" /\ act[a].force

(* When the deletion of a Cloud CDN that Terraform made is answered, what  *)
(* is left of the load balancer is a part whose own operation ended in an  *)
(* error, or one behind it that the cloud would not give up while it stood *)
(* - unless a call failed or an operation outlasted the wait.  The parts   *)
(* are asked for in an order the cloud accepts, each after the one that    *)
(* refers to it is gone, while other requests do the same (gcp.py 194-278).*)
Blocked(i) == \E k \in 1 .. i : CdnChain[k] \in parts.failed

CdnCleansUp ==
    \A a \in Actions, i \in 1 .. 4 :
        act[a].kind = "cdn" /\ act[a].at = "ok" /\ a \notin slow /\ parts.ours /\ CdnChain[i] \in Standing => Blocked(i)

(* A request deletes what it was asked to delete: a resource of that name  *)
(* and of that service (azure.py 190: "name and type match").              *)
DeletesWhatWasAsked ==
    \A a \in Actions, res \in Named :
        <<a, res>> \in removed =>
            \E wanted \in act[a].wanted : res.name = wanted.name /\ ServiceOf(res.type) = wanted.service
=============================================================================
