------------------------------ MODULE Inventory ------------------------------
(***************************************************************************)
(* The rows of table resources that belong to one cloud account, and the   *)
(* three kinds of writers that keep them: the visit of the account by a    *)
(* sync job, the end of a successful provisioning job, and POST            *)
(* /resources/action with action = delete (start and stop only change the  *)
(* status text of a row). They share nothing but the table: each reads     *)
(* rows, talks to the provider, and commits later, at READ COMMITTED, and  *)
(* the session writes a column only when its value differs from the one it *)
(* had read.                                                               *)
(***************************************************************************)
EXTENDS Naturals, FiniteSets

CONSTANTS
    Keys,        \* provider_resource_key values of the account
    Syncs,       \* visits of the account, one per sync job item
    Builders,    \* provisioning jobs whose apply succeeds
    Actors,      \* threads serving one delete request each
    NoKey,
    MaxOutside,  \* bound on changes made in the provider's own console
    MaxFaults    \* bound on threads that die

ASSUME InventoryConstants ==
    NoKey \notin Keys /\ MaxOutside \in Nat /\ MaxFaults \in Nat

VARIABLES
    cloud,       \* keys of the resources that exist at the provider
    twins,       \* keys that several of them have: one name in two zones
    rows,        \* the row of each key
    audited,     \* keys with a successful resource.delete in audit_events
    sync, builder, actor,
    disturbed,   \* history: visits that something else changed under
    exact,       \* history: nothing changed since an undisturbed full visit
    outside, faults

vars == <<cloud, twins, rows, audited, sync, builder, actor, disturbed,
          exact, outside, faults>>

Row == [stored: BOOLEAN, stale: BOOLEAN, deleted: BOOLEAN]
NoRow == [stored |-> FALSE, stale |-> FALSE, deleted |-> FALSE]
NewRow == [stored |-> TRUE, stale |-> FALSE, deleted |-> FALSE]

Stored == {k \in Keys : rows[k].stored}
Stale == {k \in Keys : rows[k].stale}

(* What GET /resources returns unless asked for stale or deleted rows.     *)
Visible(k) == rows[k].stored /\ ~rows[k].stale /\ ~rows[k].deleted

Visiting == {"looking", "looked", "read"}

TypeOK ==
    /\ cloud \subseteq Keys /\ twins \subseteq cloud
    /\ rows \in [Keys -> Row]
    /\ audited \subseteq Keys
    /\ sync \in [Syncs -> [pc: Visiting \union {"idle", "done", "failed",
                                                "lost"},
                           seen: SUBSET Keys, doubled: SUBSET Keys,
                           known: SUBSET Keys, stale: SUBSET Keys,
                           full: BOOLEAN]]
    /\ builder \in [Builders -> [pc: {"idle", "built", "read", "done", "lost"},
                                 key: Keys \union {NoKey},
                                 known: BOOLEAN, stale: BOOLEAN]]
    /\ actor \in [Actors -> [pc: {"idle", "working", "calling", "done", "lost"},
                             todo: SUBSET Keys, erased: SUBSET Keys,
                             key: Keys \union {NoKey}]]
    /\ disturbed \subseteq Syncs
    /\ exact \in BOOLEAN
    /\ outside \in Nat /\ faults \in Nat

Init ==
    /\ cloud = {} /\ twins = {} /\ audited = {}
    /\ disturbed = {} /\ exact = FALSE
    /\ rows = [k \in Keys |-> NoRow]
    /\ sync = [s \in Syncs |-> [pc |-> "idle", seen |-> {}, doubled |-> {},
                                known |-> {}, stale |-> {}, full |-> FALSE]]
    /\ builder = [b \in Builders |-> [pc |-> "idle", key |-> NoKey,
                                      known |-> FALSE, stale |-> FALSE]]
    /\ actor = [x \in Actors |-> [pc |-> "idle", todo |-> {}, erased |-> {},
                                  key |-> NoKey]]
    /\ outside = 0 /\ faults = 0

(* Something a visit under way has not taken into account has changed.     *)
Disturb ==
    /\ disturbed' = disturbed \union
                       {s \in Syncs : sync[s].pc \in Visiting}
    /\ exact' = FALSE

Undisturbing == UNCHANGED <<disturbed, exact>>

(* One more resource of key k, or one less, at the provider.               *)
Gains(k) ==
    /\ cloud' = cloud \union {k}
    /\ twins' = IF k \in cloud THEN twins \union {k} ELSE twins

Loses(k) ==
    IF k \in twins
    THEN twins' \in {twins, twins \ {k}} /\ UNCHANGED cloud
    ELSE cloud' = cloud \ {k} /\ UNCHANGED twins

(***************************************************************************)
(* A visit of the account: _process_sync_item                              *)
(***************************************************************************)

(* The item is committed as running and the provider is asked.             *)
BeginVisit(s) ==
    /\ sync[s].pc = "idle"
    /\ sync' = [sync EXCEPT ![s].pc = "looking"]
    /\ Undisturbing
    /\ UNCHANGED <<cloud, twins, rows, audited, builder, actor, outside,
                   faults>>

(* discover_resources asks region by region and service by service; of two *)
(* resources of one key each is an entry of the list.                      *)
Discover(s, k) ==
    /\ sync[s].pc = "looking"
    /\ \/ /\ k \in cloud \ sync[s].seen
          /\ sync' = [sync EXCEPT ![s].seen = @ \union {k}]
       \/ /\ k \in (twins \cap sync[s].seen) \ sync[s].doubled
          /\ sync' = [sync EXCEPT ![s].doubled = @ \union {k}]
    /\ Undisturbing
    /\ UNCHANGED <<cloud, twins, rows, audited, builder, actor, outside,
                   faults>>

(* No verified credential, or the provider refuses altogether: the item is *)
(* committed as failed and no row is touched.                              *)
LookFails(s) ==
    /\ sync[s].pc = "looking"
    /\ sync' = [sync EXCEPT ![s].pc = "failed"]
    /\ Undisturbing
    /\ UNCHANGED <<cloud, twins, rows, audited, builder, actor, outside,
                   faults>>

(* An adapter skips what it cannot list, so anything may be missing from a *)
(* visit without an error.                                                 *)
EndLook(s) ==
    /\ sync[s].pc = "looking"
    /\ sync' = [sync EXCEPT ![s].pc = "looked",
                            ![s].full = (sync[s].seen = cloud)]
    /\ Undisturbing
    /\ UNCHANGED <<cloud, twins, rows, audited, builder, actor, outside,
                   faults>>

(* Mutant: the query leaves out the rows that were deleted.                *)
ReadLiveRows(s) ==
    /\ sync[s].pc = "looked"
    /\ sync' = [sync EXCEPT ![s].pc = "read",
             ![s].known = {k \in sync[s].seen \cap Stored : ~rows[k].deleted},
             ![s].stale = sync[s].seen \cap Stale]
    /\ Undisturbing
    /\ UNCHANGED <<cloud, twins, rows, audited, builder, actor, outside,
                   faults>>

(* The query per discovered resource: which rows exist, which are stale.   *)
ReadRows(s) ==
    /\ sync[s].pc = "looked"
    /\ sync' = [sync EXCEPT ![s].pc = "read",
                            ![s].known = sync[s].seen \cap Stored,
                            ![s].stale = sync[s].seen \cap Stale]
    /\ Undisturbing
    /\ UNCHANGED <<cloud, twins, rows, audited, builder, actor, outside,
                   faults>>

(* Mutant: a row that was there is not taken out of the stale ones.        *)
UpsertKeepsStale(s, k) ==
    IF k \in sync[s].known THEN rows[k] ELSE NewRow

(* is_stale = False reaches the table only where it was read as true;      *)
(* deleted_at is left alone.                                               *)
Upserted(s, k) ==
    IF k \notin sync[s].known THEN NewRow
    ELSE IF k \in sync[s].stale THEN [rows[k] EXCEPT !.stale = FALSE]
    ELSE rows[k]

(* Mutant: what was not seen counts as deleted.                            *)
MarkDeleted(k) == [rows[k] EXCEPT !.stale = TRUE, !.deleted = TRUE]

(* _mark_stale_resources, on a row that was not seen.                      *)
MarkStale(k) ==
    IF Visible(k) THEN [rows[k] EXCEPT !.stale = TRUE] ELSE rows[k]

(* UNIQUE (cloud_account_id, provider_resource_key) admits the flush: every *)
(* row it inserts is the only one of its key. Of two resources of one key  *)
(* without a row neither query finds one, as the session does not flush    *)
(* before a query, and both are inserted.                                  *)
Fits(s) ==
    /\ sync[s].seen \cap Stored \subseteq sync[s].known
    /\ sync[s].doubled \subseteq sync[s].known

(* The flush of the upserts, the marking of what was not seen and the      *)
(* status of the item: one commit.                                         *)
StoreSync(s) ==
    /\ sync[s].pc = "read"
    /\ Fits(s)
    /\ rows' = [k \in Keys |-> IF k \in sync[s].seen THEN Upserted(s, k)
                                                     ELSE MarkStale(k)]
    /\ sync' = [sync EXCEPT ![s].pc = "done"]
    /\ disturbed' = disturbed \union
          {t \in Syncs \ {s} : sync[t].pc \in Visiting}
    /\ exact' = (s \notin disturbed /\ sync[s].full)
    /\ UNCHANGED <<cloud, twins, audited, builder, actor, outside, faults>>

(* Somebody inserted one of the rows since the query, or the visit itself  *)
(* inserts two of one key. The exception ends the whole sync job.          *)
SyncCollides(s) ==
    /\ sync[s].pc = "read"
    /\ ~Fits(s)
    /\ sync' = [sync EXCEPT ![s].pc = "lost"]
    /\ Undisturbing
    /\ UNCHANGED <<cloud, twins, rows, audited, builder, actor, outside,
                   faults>>

(***************************************************************************)
(* A provisioning job: terraform apply, then _create_resource_from_job     *)
(***************************************************************************)

(* The apply has created a resource whose identifier terraform outputs. It *)
(* may be the key of another one: a virtual machine of GCP has its name.   *)
BuildResource(b, k) ==
    /\ builder[b].pc = "idle"
    /\ Gains(k)
    /\ builder' = [builder EXCEPT ![b].pc = "built", ![b].key = k]
    /\ Disturb
    /\ UNCHANGED <<rows, audited, sync, actor, outside, faults>>

ReadBuilt(b) ==
    /\ builder[b].pc = "built"
    /\ LET k == builder[b].key
       IN builder' = [builder EXCEPT ![b].pc = "read",
                                     ![b].known = rows[k].stored,
                                     ![b].stale = rows[k].stale]
    /\ Undisturbing
    /\ UNCHANGED <<cloud, twins, rows, audited, sync, actor, outside, faults>>

(* Mutant: the row of the earlier resource is revived.                     *)
StoreBuiltRevives(b) ==
    LET k == builder[b].key
    IN /\ builder[b].pc = "read"
       /\ rows[k].stored => builder[b].known
       /\ rows' = [rows EXCEPT ![k] = NewRow]
       /\ builder' = [builder EXCEPT ![b].pc = "done"]
       /\ Disturb
       /\ UNCHANGED <<cloud, twins, audited, sync, actor, outside, faults>>

(* The row of an earlier resource of that name is reused as it is, but for *)
(* is_stale; deleted_at is left alone.                                     *)
StoreBuilt(b) ==
    LET k == builder[b].key
    IN /\ builder[b].pc = "read"
       /\ rows[k].stored => builder[b].known
       /\ rows' = [rows EXCEPT ![k] =
                      IF ~builder[b].known THEN NewRow
                      ELSE [rows[k] EXCEPT !.stale = rows[k].stale
                                              /\ ~builder[b].stale]]
       /\ builder' = [builder EXCEPT ![b].pc = "done"]
       /\ Disturb
       /\ UNCHANGED <<cloud, twins, audited, sync, actor, outside, faults>>

BuildCollides(b) ==
    /\ builder[b].pc = "read"
    /\ rows[builder[b].key].stored /\ ~builder[b].known
    /\ builder' = [builder EXCEPT ![b].pc = "lost"]
    /\ Undisturbing
    /\ UNCHANGED <<cloud, twins, rows, audited, sync, actor, outside, faults>>

(***************************************************************************)
(* POST /resources/action, action = delete                                 *)
(***************************************************************************)
ReceiveDelete(x, chosen) ==
    /\ actor[x].pc = "idle"
    /\ chosen # {} /\ chosen \subseteq Stored
    /\ actor' = [actor EXCEPT ![x].pc = "working", ![x].todo = chosen]
    /\ Undisturbing
    /\ UNCHANGED <<cloud, twins, rows, audited, sync, builder, outside,
                   faults>>

(* The next item: a row that is deleted or stale by now is rejected. One   *)
(* rejected for its credential has the outcome of a failed call.           *)
CheckItem(x) ==
    /\ actor[x].pc = "working"
    /\ \E k \in actor[x].todo :
          actor' = IF Visible(k)
                   THEN [actor EXCEPT ![x].pc = "calling", ![x].key = k,
                                      ![x].todo = @ \ {k}]
                   ELSE [actor EXCEPT ![x].todo = @ \ {k}]
    /\ Undisturbing
    /\ UNCHANGED <<cloud, twins, rows, audited, sync, builder, outside,
                   faults>>

(* Mutant: the item is forgotten before it is recorded.                    *)
EraseForgotten(x) ==
    /\ actor[x].pc = "calling"
    /\ Loses(actor[x].key)
    /\ actor' = [actor EXCEPT ![x].pc = "working", ![x].key = NoKey,
                              ![x].erased = @ \union {NoKey}]
    /\ Disturb
    /\ UNCHANGED <<rows, audited, sync, builder, outside, faults>>

(* perform_action: the provider deletes, or reports an error (after which  *)
(* the resource may be gone all the same), or finds nothing to delete and  *)
(* calls that a success. The row of a failed item is left alone.           *)
EraseItem(x) ==
    /\ actor[x].pc = "calling"
    /\ LET k == actor[x].key
       IN \/ /\ Loses(k)
             /\ actor' = [actor EXCEPT ![x].pc = "working", ![x].key = NoKey,
                                       ![x].erased = @ \union {k}]
          \/ /\ Loses(k) \/ UNCHANGED <<cloud, twins>>
             /\ actor' = [actor EXCEPT ![x].pc = "working", ![x].key = NoKey]
    /\ IF cloud' = cloud THEN Undisturbing ELSE Disturb
    /\ UNCHANGED <<rows, audited, sync, builder, outside, faults>>

(* The one commit of the request: deleted_at and the audit events of all   *)
(* its items.                                                              *)
CommitDeletes(x) ==
    /\ actor[x].pc = "working" /\ actor[x].todo = {}
    /\ rows' = [k \in Keys |-> IF k \in actor[x].erased
                               THEN [rows[k] EXCEPT !.deleted = TRUE]
                               ELSE rows[k]]
    /\ audited' = audited \union actor[x].erased
    /\ actor' = [actor EXCEPT ![x].pc = "done"]
    /\ IF rows' = rows THEN Undisturbing ELSE Disturb
    /\ UNCHANGED <<cloud, twins, sync, builder, outside, faults>>

(***************************************************************************)
(* The user's own changes at the provider, and threads that die            *)
(***************************************************************************)
ChangeOutside(k) ==
    /\ outside < MaxOutside
    /\ outside' = outside + 1
    /\ Gains(k) \/ (k \in cloud /\ Loses(k))
    /\ Disturb
    /\ UNCHANGED <<rows, audited, sync, builder, actor, faults>>

(* A restart or an exception that nothing catches: whatever the threads    *)
(* had not committed is lost.                                              *)
ThreadsDie ==
    /\ faults < MaxFaults
    /\ faults' = faults + 1
    /\ sync' = [s \in Syncs |-> IF sync[s].pc \in Visiting
                                THEN [sync[s] EXCEPT !.pc = "lost"]
                                ELSE sync[s]]
    /\ builder' = [b \in Builders |-> IF builder[b].pc \in {"built", "read"}
                                      THEN [builder[b] EXCEPT !.pc = "lost"]
                                      ELSE builder[b]]
    /\ actor' = [x \in Actors |-> IF actor[x].pc \in {"working", "calling"}
                                  THEN [actor[x] EXCEPT !.pc = "lost"]
                                  ELSE actor[x]]
    /\ Undisturbing
    /\ UNCHANGED <<cloud, twins, rows, audited, outside>>

Next ==
    \/ \E s \in Syncs :
          \/ BeginVisit(s) \/ LookFails(s) \/ EndLook(s) \/ ReadRows(s)
          \/ StoreSync(s) \/ SyncCollides(s)
          \/ \E k \in Keys : Discover(s, k)
    \/ \E b \in Builders :
          \/ \E k \in Keys : BuildResource(b, k)
          \/ ReadBuilt(b) \/ StoreBuilt(b) \/ BuildCollides(b)
    \/ \E x \in Actors :
          \/ \E chosen \in SUBSET Keys : ReceiveDelete(x, chosen)
          \/ CheckItem(x) \/ EraseItem(x) \/ CommitDeletes(x)
    \/ \E k \in Keys : ChangeOutside(k)
    \/ ThreadsDie

Spec == Init /\ [][Next]_vars

(***************************************************************************)
(* Properties                                                              *)
(***************************************************************************)

(* A visit that nothing interfered with makes the inventory right: what it *)
(* found is listed as present, and whatever else is listed is stale or was *)
(* deleted here. It holds until the next change, whatever the rows were.   *)
UndisturbedSyncIsExact ==
    exact => /\ \A k \in cloud : rows[k].stored /\ ~rows[k].stale
             /\ \A k \in Keys \ cloud : ~Visible(k)

(* A row counts as deleted only by a delete request that the provider      *)
(* carried out, and that request left its audit event in the same commit:  *)
(* no visit and no provisioning job deletes, revives or forgets one.       *)
DeletionIsAudited ==
    \A k \in Keys : rows[k].deleted <=> k \in audited

(* A delete request that was answered has recorded every resource it told  *)
(* its user was deleted, whatever syncs and jobs wrote in the meantime.    *)
AnsweredDeleteIsRecorded ==
    \A x \in Actors : actor[x].pc = "done" =>
        \A k \in actor[x].erased : rows[k].deleted /\ k \in audited

(* A visit that ends in an exception without a fault lost a race, in which *)
(* another visit or a provisioning job inserted a row under it, or it saw  *)
(* two resources of a key that has no row yet. The rows there are, however *)
(* old, deleted or shared by two resources, make no visit fail.            *)
LostToARaceOrTwins ==
    faults = 0 => \A s \in Syncs : sync[s].pc = "lost" =>
        s \in disturbed \/ ~(sync[s].doubled \subseteq sync[s].known)

(* Comment of _create_resource_from_job: the row is there so that the      *)
(* inventory shows the resource at once, without waiting for a sync. Said  *)
(* only while no job and no delete request is between two of its steps.    *)
BuiltIsVisible ==
    /\ \A b \in Builders : builder[b].pc \in {"idle", "done"}
    /\ \A x \in Actors : actor[x].pc \in {"idle", "done"}
    => \A b \in Builders :
          builder[b].key \in cloud => Visible(builder[b].key)
=============================================================================
