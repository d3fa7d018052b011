------------------------------- MODULE Services -------------------------------
(* The twelve services that can be built: what each runner asks of a       *)
(* request, how it names what it builds, what it keeps to itself; what a   *)
(* job, a sync and an action take the same resource for.                   *)
(* A specification is the set of its provider_spec fields and which of     *)
(* them are malformed; fields with a default need not be there.            *)
EXTENDS Integers, Sequences, FiniteSets, TLC

CONSTANTS
    Passes,     \* [name -> the rules of names it meets]
    Nothing

AwsLacks == "CREDENTIAL_VERIFICATION_FAILED"
AzureSecrets == {"client_secret", "tenant_id", "client_id"}

(* needs: fields without which there is no answer but 422; may: known      *)
(* besides; unchecked: taken as they come; asks: a field that demands      *)
(* another; closed: an unknown field is refused; sensitive: for the run    *)
(* only; hides: what is blotted out of error messages; lacks: the error of *)
(* an incomplete credential, None when terraform finds out.                *)
Ec2 ==
    [provider |-> "aws", rule |-> "label", needs |-> {"instance_type", "region"},
     may |-> {"ami_id", "image", "vpc_id", "subnet_id", "security_group_id"}, unchecked |-> {},
     asks |-> {<<"subnet_id", "vpc_id">>}, closed |-> FALSE,
     sensitive |-> {}, hides |-> {}, lacks |-> AwsLacks]

S3 ==
    [Ec2 EXCEPT !.needs = {"region"}, !.may = {"versioning_enabled"}, !.asks = {}, !.closed = TRUE]

CloudFront ==
    [S3 EXCEPT !.needs = {"origin_domain_name"}, !.may = {}]

Rds ==
    [S3 EXCEPT !.needs = {"region", "engine", "master_password"},
               !.may = {"instance_class", "vpc_id", "security_group_id"},
               !.sensitive = {"master_password"}, !.hides = {"master_password"}]

AzureVm ==
    [provider |-> "azure", rule |-> "any",
     needs |-> {"region", "admin_username", "admin_password"},
     may |-> {"instance_type", "image", "create_public_ip", "existing_resource_group_name",
              "existing_subnet_id", "existing_network_security_group_id"},
     unchecked |-> {"region", "instance_type", "admin_username", "existing_resource_group_name",
                    "existing_subnet_id", "existing_network_security_group_id"},
     asks |-> {}, closed |-> TRUE, sensitive |-> {"admin_password"},
     hides |-> AzureSecrets \union {"admin_password"}, lacks |-> "PROVIDER_AUTHENTICATION_FAILED"]

StorageAccount ==
    [AzureVm EXCEPT !.rule = "compact", !.needs = {"region"}, !.may = {"existing_resource_group_name"},
                    !.unchecked = {"existing_resource_group_name"}, !.sensitive = {},
                    !.hides = AzureSecrets, !.lacks = AwsLacks]

SqlDatabase ==
    [StorageAccount EXCEPT !.rule = "label",
        !.needs = {"region", "engine", "master_username", "master_password"},
        !.may = {"existing_resource_group_name", "existing_vnet_id", "existing_vnet_subnet_cidr"},
        !.unchecked = {"existing_resource_group_name", "existing_vnet_id", "existing_vnet_subnet_cidr"},
        !.sensitive = {"master_password"}, !.hides = AzureSecrets \union {"master_password"}]

AzureCdn ==
    [StorageAccount EXCEPT !.rule = "label", !.needs = {"origin", "sku"},
        !.may = {"resource_group", "use_existing_resource_group", "query_string_caching_behavior",
                 "protocol", "health_probe_path", "compression", "https_redirect"},
        !.unchecked = {"health_probe_path"},
        !.asks = {<<"use_existing_resource_group", "resource_group">>}]

ComputeEngine ==
    [provider |-> "gcp", rule |-> "label", needs |-> {"instance_type", "region"},
     may |-> {"network", "subnetwork", "image"}, unchecked |-> {}, asks |-> {}, closed |-> FALSE,
     sensitive |-> {}, hides |-> {}, lacks |-> Nothing]

CloudSql ==
    [ComputeEngine EXCEPT !.needs = {"region", "engine", "master_password"}, !.may = {"network"},
                          !.sensitive = {"master_password"}, !.hides = {"master_password"}]

CloudStorage ==
    [ComputeEngine EXCEPT !.rule = "bucket", !.needs = {"region", "storage_class"}, !.may = {}]

(* existing_bucket stands for create_bucket = false: only then is the name *)
(* of the bucket looked at, and its owner's word taken.                    *)
CloudCdn ==
    [ComputeEngine EXCEPT !.needs = {"lb_stack_ack"},
        !.may = {"existing_bucket", "backend_bucket_name", "existing_bucket_public_ack"},
        !.unchecked = {"backend_bucket_name", "existing_bucket_public_ack"},
        !.asks = {<<"existing_bucket", "backend_bucket_name">>,
                  <<"existing_bucket", "existing_bucket_public_ack">>}]

Runner ==
    [ec2 |-> Ec2, s3 |-> S3, cloudfront |-> CloudFront, rds |-> Rds,
     vm |-> AzureVm, storage_account |-> StorageAccount, sql_database |-> SqlDatabase, cdn |-> AzureCdn,
     compute_engine |-> ComputeEngine, cloud_sql |-> CloudSql,
     cloud_storage |-> CloudStorage, cloud_cdn |-> CloudCdn]

ServiceCodes == DOMAIN Runner

(* spec: [given, bad, unknown, secret, region].                            *)
Derives(service, name, spec) ==
    LET r == Runner[service]
    IN  /\ r.rule = "any" \/ r.rule \in Passes[name]
        /\ r.needs \subseteq spec.given
        /\ spec.bad \subseteq r.unchecked
        /\ r.closed => ~spec.unknown
        /\ \A pair \in r.asks : pair[1] \in spec.given => pair[2] \in spec.given \ spec.bad

(* What provisioning_jobs.spec_json keeps of a specification.              *)
StoredSpec(service, spec) ==
    [spec EXCEPT !.given = @ \ Runner[service].sensitive, !.bad = @ \ Runner[service].sensitive]

(* The fields that reach terraform.tfvars.json.                            *)
FileOf(service, spec) ==
    spec.given \intersect ((Runner[service].needs \union Runner[service].may) \ Runner[service].sensitive)

Blotted(service, leak) == leak \ Runner[service].hides

-----------------------------------------------------------------------------
FirstOf(n, s) == IF Len(s) <= n THEN s ELSE SubSeq(s, 1, n)
Numbered(name, id) == "mcp-" \o name \o "-" \o ToString(id)

(* The name terraform.tfvars.json gives what is built.                      *)
NameOf(service, name, id) ==
    CASE service \in {"ec2", "cloudfront", "vm"} -> name
      [] service \in {"s3", "rds", "cloud_sql", "cloud_storage"} -> Numbered(name, id)
      [] service = "storage_account" -> FirstOf(24, "mcp" \o name \o ToString(id))
      [] service = "sql_database" -> FirstOf(63, Numbered(name, id))
      [] service = "cdn" -> FirstOf(64, FirstOf(40, Numbered(name, id)) \o "-fd-profile")
      [] service = "compute_engine" -> "mcp-" \o name
      [] service = "cloud_cdn" -> "mcp-" \o name \o "-fwd-rule"

(* The id the cloud gives it: one of its own making, an ARM id, or the name. *)
IdOf(service, name, maker, group) ==
    CASE service \in {"ec2", "cloudfront"} -> maker
      [] Runner[service].provider = "azure" -> group \o "/" \o name
      [] OTHER -> name

Everywhere == {"s3", "cloudfront", "cdn", "cloud_cdn"}     \* no region of their own
Zone(region) == region \o "-a"
PlaceOf(service, region) ==
    CASE service \in Everywhere -> Nothing
      [] service = "compute_engine" -> Zone(region)
      [] OTHER -> region

(* What the cloud does not have twice: a name is global, but in two regions *)
(* of RDS, two zones of Compute Engine and two groups of Azure's VM and CDN. *)
Collide(r, s) ==
    /\ r.service = s.service
    /\ r.id = s.id \/ (r.service \in {"storage_account", "sql_database"} /\ r.name = s.name)
    /\ r.service \in {"rds", "compute_engine"} => r.place = s.place

-----------------------------------------------------------------------------
RowKey(row) == <<row.service, row.external>>

AttrsByRegion(r, region) ==     \* changed: a VM's zone is cut down to its region
    [service |-> r.service, type |-> r.service,
     external |-> IF r.service \in {"ec2", "cloudfront", "vm"} THEN r.id ELSE r.name,
     region |-> IF r.service \in Everywhere THEN Nothing ELSE region]

(* What a job writes into the row of what it built, from terraform's       *)
(* outputs; the type it writes is never taken for that of a volume.        *)
Attrs(r, region) ==
    [service |-> r.service, type |-> r.service,
     external |-> IF r.service \in {"ec2", "cloudfront", "vm"} THEN r.id ELSE r.name,
     region |-> CASE r.service \in Everywhere -> Nothing
                  [] r.service = "compute_engine" -> r.place
                  [] OTHER -> region]

(* What the listings of the three providers say of a resource.             *)
ListedAs(r, external) ==
    [service |-> r.service, type |-> IF r.volume THEN "EBS Volume" ELSE r.service,
     external |-> external, region |-> r.place]

DiscoveredAws(r) == ListedAs(r, IF r.service \in {"ec2", "cloudfront"} THEN r.id ELSE r.name)
DiscoveredGcp(r) == ListedAs(r, r.name)
DiscoveredAzure(r) == ListedAs(r, IF r.service = "vm" THEN r.id ELSE r.name)

Discovered(r) ==
    CASE Runner[r.service].provider = "aws" -> DiscoveredAws(r)
      [] Runner[r.service].provider = "gcp" -> DiscoveredGcp(r)
      [] OTHER -> DiscoveredAzure(r)

SupportedForAll(service, type) ==   \* changed: whatever bears the service's name
    IF service \in {"ec2", "rds", "vm", "compute_engine", "cloud_sql"}
    THEN {"start", "stop", "delete"} ELSE {"delete"}

SupportedActions(service, type) ==
    IF service \in {"rds", "vm", "compute_engine", "cloud_sql"} \/ (service = "ec2" /\ type # "EBS Volume")
    THEN {"start", "stop", "delete"}
    ELSE {"delete"}

(* What the adapters do when the action is one of those supported: AWS     *)
(* deletes a volume and a bucket whatever is asked, Google looks for a VM  *)
(* in its zone, Azure for what is no VM by its name.                       *)
EffectAws(row, action) ==
    IF row.type = "EBS Volume" \/ row.service \in {"s3", "cloudfront"} THEN "delete" ELSE action

EffectGcp(row, action) ==
    IF row.service = "compute_engine" /\ row.region = Nothing THEN "refused"
    ELSE IF row.service \in {"cloud_storage", "cloud_cdn"} THEN "delete"
    ELSE action

EffectAzure(row, action) == IF row.service = "vm" THEN action ELSE "delete"

Effect(row, action) ==
    CASE Runner[row.service].provider = "aws" -> EffectAws(row, action)
      [] Runner[row.service].provider = "gcp" -> EffectGcp(row, action)
      [] OTHER -> EffectAzure(row, action)

ByName == {"storage_account", "sql_database", "cdn"}

Reached(row, deployed) ==
    {r \in deployed :
        /\ r.service = row.service \/ {r.service, row.service} \subseteq ByName
        /\ row.external = IF row.service \in {"ec2", "cloudfront", "vm"} THEN r.id ELSE r.name
        /\ row.service \in {"ec2", "rds", "compute_engine"} => r.place = row.region}
=============================================================================
