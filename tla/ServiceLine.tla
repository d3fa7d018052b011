------------------------------ MODULE ServiceLine ------------------------------
(* A service from the request to the inventory: jobs that build it, syncs  *)
(* that list it, actions on its rows and what users do in the cloud's own  *)
(* console meanwhile. One account; a job runs to its end in one step, its  *)
(* interleavings are ProvisioningJobs's.                                   *)
EXTENDS Services

CONSTANTS
    Lines,      \* sets of services followed together
    ServiceNames, \* common_spec.name
    Unfit,      \* a name that only a service without a rule of names takes
    Regions,
    JobIds,     \* the ids of the jobs, in order
    Repeated,   \* bound: services of which more than one job is followed
    MaxForeign  \* bound: changes made in the console

(* Azure deletes a storage account, a database and a CDN profile by name   *)
(* alone: no two of the three are in one line (CloudActions's              *)
(* DeletesWhatWasAsked is about what happens when they are).               *)
ASSUME LineAssumption ==
    /\ \A l \in Lines :
        /\ l \subseteq ServiceCodes
        /\ "cloud_cdn" \in l => "cloud_storage" \in l
        /\ \A s, q \in l \intersect ByName : s = q
    /\ ServiceNames # {} /\ Regions # {} /\ MaxForeign \in Nat
    /\ Nothing # "VALIDATION_ERROR" /\ \A r \in Regions : Zone(r) # Nothing

VARIABLES line, jobs, deployed, resourceRows, foreign

lineVars == <<line, jobs, deployed, resourceRows, foreign>>

Whole(service) ==
    [given |-> Runner[service].needs \union Runner[service].may,
     bad |-> {}, unknown |-> FALSE, region |-> CHOOSE r \in Regions : TRUE]

(* Into a group or a bucket that is there already, or into one of its own. *)
PlacesFor(service) == IF service \in Everywhere THEN {Whole(service).region} ELSE Regions
OwnOnes == {{}, {"existing_resource_group_name"}, {"use_existing_resource_group"}, {"existing_bucket"}}
Fine(service) ==
    {[Whole(service) EXCEPT !.region = choice[1], !.given = @ \ choice[2]] :
        choice \in PlacesFor(service) \X OwnOnes}

(* Requests with one thing about them: a field left out or malformed, a    *)
(* field that is not known.                                                *)
Odd(service) ==
    LET whole == Whole(service)
    IN  ({[whole EXCEPT !.given = @ \ {f}] : f \in whole.given} \ Fine(service))
        \union {[whole EXCEPT !.bad = {f}] : f \in whole.given}
        \union {[whole EXCEPT !.unknown = TRUE]}

(* What Azure builds is put into the group it names, or one of the job's.  *)
GroupOf(spec, id) ==
    IF {"existing_resource_group_name", "use_existing_resource_group"} \intersect spec.given # {}
    THEN "group" ELSE ToString(id)

Resource(service, name, region, maker, group) ==
    [service |-> service, name |-> name, id |-> IdOf(service, name, maker, group),
     place |-> PlaceOf(service, region), volume |-> FALSE, maker |-> maker]

Built(job, id) ==
    Resource(job.service, NameOf(job.service, job.name, id), job.spec.region, ToString(id),
             GroupOf(job.spec, id))

(* The bucket a Cloud CDN job makes for itself.                            *)
Bucket(id) ==
    Resource("cloud_storage", "mcp-cdn-" \o ToString(id), "asia", ToString(id), "")

MakesBucket(job) == job.service = "cloud_cdn" /\ "existing_bucket" \notin job.spec.given

-----------------------------------------------------------------------------
(* create_provisioning_job: a request the runner refuses is recorded as a  *)
(* failed job, one it takes runs on what was sent, not on what is stored.  *)
(* Bound: an odd request is followed until its job ends, and no further.   *)
RequestsFor(service) ==
    (ServiceNames \X Fine(service))
    \union IF jobs # <<>> THEN {}
           ELSE {<<CHOOSE n \in ServiceNames : TRUE, spec>> : spec \in Odd(service)} \union {<<Unfit, Whole(service)>>}

Usual == \A j \in DOMAIN jobs : jobs[j].name \in ServiceNames /\ jobs[j].spec \in Fine(jobs[j].service)

Submit ==
    /\ Usual /\ Len(jobs) < Len(JobIds)
    /\ jobs = <<>> \/ line \subseteq Repeated
    /\ \E service \in line : \E request \in RequestsFor(service) :
            LET name == request[1]
                spec == request[2]
                fine == Derives(service, name, spec)
            IN  jobs' = Append(jobs,
                    [service |-> service, name |-> name, spec |-> spec,
                     stored |-> StoredSpec(service, spec), shown |-> {},
                     status |-> IF fine THEN "queued" ELSE "failed",
                     code |-> IF fine THEN Nothing ELSE "VALIDATION_ERROR", refused |-> ~fine])
    /\ UNCHANGED <<line, deployed, resourceRows, foreign>>

Queued == {j \in DOMAIN jobs : jobs[j].status = "queued"}

(* shown: the fields in the file of variables and in the error message.    *)
EndJob(j, status, code, message) ==
    jobs' = [jobs EXCEPT ![j].status = status, ![j].code = code,
                         ![j].shown = message \union FileOf(jobs[j].service, jobs[j].spec)]

RefusedBeforeTerraform(j) ==
    LET job == jobs[j]
    IN  /\ \/ /\ ~Derives(job.service, job.name, job.spec)
              /\ jobs' = [jobs EXCEPT ![j].status = "failed",
                            ![j].code = IF job.service = "vm" THEN "TERRAFORM_ERROR" ELSE "VALIDATION_ERROR"]
           \/ /\ Runner[job.service].lacks # Nothing
              /\ jobs' = [jobs EXCEPT ![j].status = "failed", ![j].code = Runner[job.service].lacks]
        /\ UNCHANGED <<line, deployed, resourceRows, foreign>>

(* terraform names any of the fields in what it prints; it fails when the  *)
(* cloud has such a resource, or for reasons of its own, what it began     *)
(* included.                                                               *)
TerraformFails(j) ==
    LET job == jobs[j]
        r == Built(job, JobIds[j])
        taken == \E s \in deployed : Collide(r, s)
    IN  /\ Derives(job.service, job.name, job.spec)
        /\ EndJob(j, "failed", "TERRAFORM_ERROR", Blotted(job.service, job.spec.given \union AzureSecrets))
        /\ deployed' \in {deployed} \union IF taken THEN {} ELSE {deployed \union {r}}
        /\ UNCHANGED <<line, resourceRows, foreign>>

FreshRow(attrs, r) ==
    [service |-> attrs.service, type |-> attrs.type, external |-> attrs.external, region |-> attrs.region,
     stale |-> FALSE, deleted |-> FALSE, of |-> r, kept |-> FALSE]

(* _create_resource_from_job: a row that is there keeps its type, region   *)
(* and deletion, whatever was built under its key.                         *)
WithBuilt(all, r, region) ==
    LET attrs == Attrs(r, region)
        known == {row \in all : RowKey(row) = RowKey(attrs)}
    IN  (all \ known)
        \union IF known = {}
               THEN {FreshRow(attrs, r)}
               ELSE {[row EXCEPT !.stale = FALSE, !.of = r, !.kept = TRUE] : row \in known}

(* terraform output may fail after an apply that did not: then there is    *)
(* no id and no row.                                                       *)
TerraformBuilds(j) ==
    LET job == jobs[j]
        r == Built(job, JobIds[j])
        made == {r} \union IF MakesBucket(job) THEN {Bucket(JobIds[j])} ELSE {}
        withR == WithBuilt(resourceRows, r, job.spec.region)
    IN  /\ Derives(job.service, job.name, job.spec)
        /\ \A s \in deployed, m \in made : ~Collide(m, s)
        /\ deployed' = deployed \union made
        /\ EndJob(j, "success", Nothing, {})
        /\ resourceRows' \in {resourceRows, IF MakesBucket(job) THEN WithBuilt(withR, Bucket(JobIds[j]), "asia") ELSE withR}
        /\ UNCHANGED <<line, foreign>>

RunFromStored(j) == \* changed: the job runs on what the database kept
    LET job == [jobs[j] EXCEPT !.spec = jobs[j].stored]
    IN  /\ ~Derives(job.service, job.name, job.spec)
        /\ EndJob(j, "failed", "VALIDATION_ERROR", {})
        /\ UNCHANGED <<line, deployed, resourceRows, foreign>>

RunJob(j) == RefusedBeforeTerraform(j) \/ TerraformFails(j) \/ TerraformBuilds(j)

-----------------------------------------------------------------------------
(* One sync: a service that cannot be listed is passed over in silence,    *)
(* and what is not seen becomes stale; of two resources with one key the   *)
(* last listed stands in the row. If they have no row yet, two are added,  *)
(* the flush breaks the unique key and nothing is stored.                  *)
SyncLine ==
    /\ Usual
    /\ \E unlisted \in SUBSET line :
        LET seen == {r \in deployed : r.service \notin unlisted}
            keys == {RowKey(Discovered(r)) : r \in seen}
            stored == {RowKey(row) : row \in resourceRows}
        IN  /\ \A r, q \in seen :
                RowKey(Discovered(r)) = RowKey(Discovered(q)) => r = q \/ RowKey(Discovered(r)) \in stored
            /\ \E last \in {f \in [keys -> seen] : \A k \in keys : RowKey(Discovered(f[k])) = k} :
                resourceRows' =
                    {IF RowKey(row) \in keys
                     THEN [row EXCEPT !.region = Discovered(last[RowKey(row)]).region, !.stale = FALSE,
                                      !.of = last[RowKey(row)], !.kept = FALSE]
                     ELSE [row EXCEPT !.stale = @ \/ ~row.deleted] : row \in resourceRows}
                    \union {FreshRow(Discovered(last[k]), last[k]) : k \in keys \ stored}
    /\ UNCHANGED <<line, jobs, deployed, foreign>>

(* POST /resources/{id}/actions of an action the row offers.               *)
VisibleRows == {row \in resourceRows : ~row.deleted /\ ~row.stale}

ActOnRow(row, action) ==
    /\ Usual /\ row \in VisibleRows
    /\ action \in SupportedActions(row.service, row.type)
    /\ Effect(row, action) = "delete"
    /\ \E r \in Reached(row, deployed) : deployed' = deployed \ {r}
    /\ resourceRows' = (resourceRows \ {row}) \union {[row EXCEPT !.deleted = TRUE]}
    /\ UNCHANGED <<line, jobs, foreign>>

(* In the console a resource is removed, a volume is made, or something    *)
(* of a name and in a place that a job might choose as well.               *)
Console ==
    /\ Usual /\ foreign < MaxForeign
    /\ foreign' = foreign + 1
    /\ \/ \E r \in deployed : deployed' = deployed \ {r}
       \/ /\ "ec2" \in line
          /\ deployed' = deployed \union
                {[Resource("ec2", "volume", "r1", "volume", "") EXCEPT !.volume = TRUE]}
       \/ \E service \in line, name \in ServiceNames, region \in Regions :
             LET r == Resource(service, NameOf(service, name, JobIds[1]), region, "user", "group")
             IN  /\ \A s \in deployed : ~Collide(r, s)
                 /\ deployed' = deployed \union {r}
    /\ UNCHANGED <<line, jobs, resourceRows>>

LineInit ==
    /\ line \in Lines
    /\ jobs = <<>> /\ deployed = {} /\ resourceRows = {} /\ foreign = 0

LineNext ==
    \/ Submit \/ SyncLine \/ Console
    \/ \E j \in Queued : RunJob(j)
    \/ \E row \in resourceRows, action \in {"start", "stop", "delete"} : ActOnRow(row, action)

LineSpec == LineInit /\ [][LineNext]_lineVars

-----------------------------------------------------------------------------
LineTypeOK ==
    /\ line \in Lines
    /\ \A j \in DOMAIN jobs :
        /\ jobs[j].service \in line /\ jobs[j].name \in ServiceNames \union {Unfit}
        /\ jobs[j].status \in {"queued", "failed", "success"}
    /\ \A r \in deployed : r.service \in line
    /\ \A row \in resourceRows : row.service \in line /\ row.of.service \in line
    /\ foreign \in 0..MaxForeign

(* A resource has one row, whoever wrote it first, a job or a sync; and    *)
(* every action such a row offers does what it says, to that resource      *)
(* alone (_resource_attrs in routers/provisioning.py against               *)
(* discover_resources and perform_resource_action of the three providers)  *)
(* - unless another resource has the same key, or a job took over the row  *)
(* of an older resource, whose place it keeps until the next sync.         *)
RowsFindTheirResource ==
    /\ \A a, b \in resourceRows : a.of = b.of => a = b
    /\ \A row \in VisibleRows :
        (row.of \in deployed /\ ~row.kept
            /\ \A r \in deployed : RowKey(Discovered(r)) = RowKey(row) => r = row.of)
        => \A action \in SupportedActions(row.service, row.type) :
               Effect(row, action) = action /\ Reached(row, deployed) = {row.of}

(* What a runner declares sensitive reaches terraform's environment and    *)
(* nothing else: not the stored specification, not the file of variables,  *)
(* not the message of a failure - and still a job that was accepted never  *)
(* fails for want of it (_strip_sensitive, the runners' run, redact).      *)
PasswordGoesOnlyToTheRun ==
    \A j \in DOMAIN jobs :
        /\ Runner[jobs[j].service].sensitive \intersect
             (jobs[j].stored.given \union jobs[j].shown) = {}
        /\ jobs[j].code = "VALIDATION_ERROR" => jobs[j].refused
=============================================================================
