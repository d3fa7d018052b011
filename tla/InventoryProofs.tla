--------------------------- MODULE InventoryProofs ---------------------------
(***************************************************************************)
(* Safety of the table of resources. For Inventory, any set of keys,       *)
(* visits, provisioning jobs and delete requests, any number of changes    *)
(* outside and of faults: the four properties of a run depend on one thing *)
(* that none of them says, that what a writer has read of the table is     *)
(* still true of it when it writes, or the writer fails, or it is a visit  *)
(* known as disturbed. For ServiceLine, any of the twelve services with    *)
(* any names, regions and jobs: of one key there is one row, and it bears  *)
(* the key of its resource.                                                *)
(***************************************************************************)
EXTENDS Inventory, ServiceLine, TLAPS

(* No row is ever taken away: what a writer found stored, or deleted, is   *)
(* so for good.                                                            *)
ReadersFoundRows ==
    /\ \A s \in Syncs : sync[s].known \subseteq Stored
    /\ \A b \in Builders :
          /\ builder[b].pc \in {"built", "read"} => builder[b].key \in Keys
          /\ (builder[b].pc = "read" /\ builder[b].known) =>
                rows[builder[b].key].stored
    /\ \A x \in Actors :
          /\ actor[x].erased \subseteq Stored
          /\ actor[x].pc = "calling" => actor[x].key \in Stored

DeletedRowIsStored == \A k \in Keys : rows[k].deleted => rows[k].stored

(* What a visit has read, unless something changed under it, is what there *)
(* is: the resources at the provider if it missed none, and their rows.    *)
ViewIsFresh(s) ==
    s \notin disturbed =>
        /\ (sync[s].pc \in {"looked", "read"} /\ sync[s].full) =>
              sync[s].seen = cloud
        /\ sync[s].pc = "read" => /\ sync[s].known = sync[s].seen \cap Stored
                                  /\ sync[s].stale = sync[s].seen \cap Stale

TableInv ==
    /\ ReadersFoundRows
    /\ DeletedRowIsStored
    /\ DeletionIsAudited
    /\ AnsweredDeleteIsRecorded

ViewInv ==
    /\ \A s \in Syncs : ViewIsFresh(s)
    /\ LostToARaceOrTwins
    /\ UndisturbedSyncIsExact

(* The strengthening: inductive, and it implies the four properties.       *)
IInv == TypeOK /\ TableInv /\ ViewInv

-----------------------------------------------------------------------------
(***************************************************************************)
(* Types                                                                   *)
(***************************************************************************)
Visit == [pc: Visiting \union {"idle", "done", "failed", "lost"},
          seen: SUBSET Keys, doubled: SUBSET Keys, known: SUBSET Keys,
          stale: SUBSET Keys, full: BOOLEAN]
Build == [pc: {"idle", "built", "read", "done", "lost"},
          key: Keys \union {NoKey}, known: BOOLEAN, stale: BOOLEAN]
Deletion == [pc: {"idle", "working", "calling", "done", "lost"},
             todo: SUBSET Keys, erased: SUBSET Keys,
             key: Keys \union {NoKey}]

(* The end of a look remembers whether it missed anything.                 *)
LEMMA LookEnds ==
  ASSUME sync \in [Syncs -> Visit], NEW s \in Syncs, EndLook(s)
  PROVE  /\ sync' \in [Syncs -> Visit]
         /\ sync'[s].pc = "looked"
         /\ sync'[s].full <=> sync[s].seen = cloud
         /\ sync'[s].seen = sync[s].seen /\ sync'[s].known = sync[s].known
         /\ \A t \in Syncs \ {s} : sync'[t] = sync[t]
<1> DEFINE v(c) == [sync[s] EXCEPT !.pc = "looked", !.full = c]
<1>1. ASSUME NEW c \in BOOLEAN
      PROVE  /\ v(c) \in Visit /\ v(c).pc = "looked" /\ v(c).full = c
             /\ v(c).seen = sync[s].seen /\ v(c).known = sync[s].known
  BY DEF Visit, Visiting
<1>2. PICK c \in BOOLEAN : (c <=> sync[s].seen = cloud)
                              /\ sync' = [sync EXCEPT ![s] = v(c)]
  <2>1. sync' = [sync EXCEPT ![s] = v(sync[s].seen = cloud)]
    BY Zenon DEF EndLook
  <2>2. (sync[s].seen = cloud) \in BOOLEAN
    OBVIOUS
  <2>3. QED
    BY <2>1, <2>2, Zenon
<1> HIDE DEF v
<1>3. QED
  BY <1>1, <1>2

(* A provisioning job that finds a row changes nothing of it but is_stale. *)
LEMMA RowIsReused ==
  ASSUME NEW r \in Row, NEW c
  PROVE  LET q == [r EXCEPT !.stale = r.stale /\ ~c]
         IN q \in Row /\ q.stored = r.stored /\ q.deleted = r.deleted
<1>1. ASSUME NEW d \in BOOLEAN
      PROVE  LET q == [r EXCEPT !.stale = d]
             IN q \in Row /\ q.stored = r.stored /\ q.deleted = r.deleted
  BY DEF Row
<1>2. CASE r.stale /\ ~c
  <2>1. (r.stale /\ ~c) = TRUE
    BY <1>2
  <2>2. [r EXCEPT !.stale = r.stale /\ ~c] = [r EXCEPT !.stale = TRUE]
    BY <2>1, Zenon
  <2>3. QED
    BY <1>1, <2>2
<1>3. CASE ~(r.stale /\ ~c)
  <2>1. (r.stale /\ ~c) = FALSE
    BY <1>3
  <2>2. [r EXCEPT !.stale = r.stale /\ ~c] = [r EXCEPT !.stale = FALSE]
    BY <2>1, Zenon
  <2>3. QED
    BY <1>1, <2>2
<1>4. QED
  BY <1>2, <1>3

(* A new row is there, and neither stale nor deleted.                      *)
LEMMA NewRowIsLive ==
  /\ NewRow \in Row /\ NoRow \in Row
  /\ NewRow.stored /\ ~NewRow.stale /\ ~NewRow.deleted
BY DEF NewRow, NoRow, Row

(* What the commit of a visit leaves of each row.                          *)
LEMMA VisitWrites ==
  ASSUME TypeOK, NEW s \in Syncs, StoreSync(s), NEW k \in Keys
  PROVE  /\ rows'[k] \in Row
         /\ k \in sync[s].seen \ sync[s].known =>
               /\ rows'[k].stored /\ ~rows'[k].stale /\ ~rows'[k].deleted
         /\ k \notin sync[s].seen \ sync[s].known =>
               /\ rows'[k].stored = rows[k].stored
               /\ rows'[k].deleted = rows[k].deleted
         /\ k \in sync[s].seen \cap sync[s].known =>
               (rows'[k].stale =>
                   rows[k].stale /\ k \notin sync[s].stale)
         /\ k \notin sync[s].seen =>
               ~rows'[k].stored \/ rows'[k].stale \/ rows'[k].deleted
<1>1. rows[k] \in Row
  BY DEF TypeOK
<1>2. rows'[k] = IF k \in sync[s].seen THEN Upserted(s, k) ELSE MarkStale(k)
  BY DEF StoreSync
<1>3. CASE k \in sync[s].seen \ sync[s].known
  <2>1. rows'[k] = NewRow
    BY <1>2, <1>3 DEF Upserted
  <2>2. QED
    BY <1>1, <1>3, <2>1, NewRowIsLive
<1>4. CASE k \in sync[s].seen \cap sync[s].known \cap sync[s].stale
  <2>1. rows'[k] = [rows[k] EXCEPT !.stale = FALSE]
    BY <1>2, <1>4 DEF Upserted
  <2>2. /\ rows'[k] \in Row /\ rows'[k].stored = rows[k].stored
        /\ rows'[k].deleted = rows[k].deleted /\ ~rows'[k].stale
    BY <1>1, <2>1 DEF Row
  <2>3. QED
    BY <1>4, <2>2
<1>5. CASE k \in (sync[s].seen \cap sync[s].known) \ sync[s].stale
  <2>1. rows'[k] = rows[k]
    BY <1>2, <1>5 DEF Upserted
  <2>2. QED
    BY <1>1, <1>5, <2>1
<1>6. CASE k \notin sync[s].seen /\ Visible(k)
  <2>1. rows'[k] = [rows[k] EXCEPT !.stale = TRUE]
    BY <1>2, <1>6 DEF MarkStale
  <2>2. /\ rows'[k] \in Row /\ rows'[k].stored = rows[k].stored
        /\ rows'[k].deleted = rows[k].deleted /\ rows'[k].stale
    BY <1>1, <2>1 DEF Row
  <2>3. QED
    BY <1>6, <2>2
<1>7. CASE k \notin sync[s].seen /\ ~Visible(k)
  <2>1. rows'[k] = rows[k]
    BY <1>2, <1>7 DEF MarkStale
  <2>2. QED
    BY <1>1, <1>7, <2>1 DEF Visible
<1>8. QED
  BY <1>3, <1>4, <1>5, <1>6, <1>7

(* The type invariant, with the types of the threads named.                *)
LEMMA TypesOf ==
  TypeOK <=> /\ cloud \subseteq Keys /\ twins \subseteq cloud
             /\ rows \in [Keys -> Row]
             /\ audited \subseteq Keys
             /\ sync \in [Syncs -> Visit]
             /\ builder \in [Builders -> Build]
             /\ actor \in [Actors -> Deletion]
             /\ disturbed \subseteq Syncs
             /\ exact \in BOOLEAN
             /\ outside \in Nat /\ faults \in Nat
BY DEF TypeOK, Visit, Build, Deletion

(* What the steps of a visit before its commit leave of it.                *)
LEMMA VisitMoves ==
  ASSUME TypeOK, NEW s \in Syncs
  PROVE  /\ BeginVisit(s) =>
              /\ sync' \in [Syncs -> Visit] /\ sync'[s].pc = "looking"
              /\ sync'[s].known = sync[s].known
              /\ \A t \in Syncs \ {s} : sync'[t] = sync[t]
         /\ LookFails(s) =>
              /\ sync' \in [Syncs -> Visit] /\ sync'[s].pc = "failed"
              /\ sync'[s].known = sync[s].known
              /\ \A t \in Syncs \ {s} : sync'[t] = sync[t]
         /\ ReadRows(s) =>
              /\ sync' \in [Syncs -> Visit] /\ sync'[s].pc = "read"
              /\ sync'[s].seen = sync[s].seen /\ sync'[s].full = sync[s].full
              /\ sync'[s].known = sync[s].seen \cap Stored
              /\ sync'[s].stale = sync[s].seen \cap Stale
              /\ \A t \in Syncs \ {s} : sync'[t] = sync[t]
         /\ SyncCollides(s) =>
              /\ sync' \in [Syncs -> Visit] /\ sync'[s].pc = "lost"
              /\ sync'[s].known = sync[s].known
              /\ sync'[s].doubled = sync[s].doubled
              /\ \A t \in Syncs \ {s} : sync'[t] = sync[t]
         /\ StoreSync(s) =>
              /\ sync' \in [Syncs -> Visit] /\ sync'[s].pc = "done"
              /\ sync'[s].known = sync[s].known
              /\ \A t \in Syncs \ {s} : sync'[t] = sync[t]
         /\ \A k \in Keys : Discover(s, k) =>
              /\ sync' \in [Syncs -> Visit] /\ sync'[s].pc = "looking"
              /\ sync'[s].known = sync[s].known
              /\ \A t \in Syncs \ {s} : sync'[t] = sync[t]
<1>1. sync \in [Syncs -> Visit] /\ sync[s] \in Visit
  BY TypesOf
<1>2. ASSUME NEW p \in Visiting \union {"idle", "done", "failed", "lost"},
             sync' = [sync EXCEPT ![s].pc = p]
      PROVE  /\ sync' \in [Syncs -> Visit] /\ sync'[s].pc = p
             /\ sync'[s].known = sync[s].known
             /\ sync'[s].doubled = sync[s].doubled
             /\ \A t \in Syncs \ {s} : sync'[t] = sync[t]
  BY <1>1, <1>2 DEF Visit
<1>3. ReadRows(s) =>
         /\ sync' \in [Syncs -> Visit] /\ sync'[s].pc = "read"
         /\ sync'[s].seen = sync[s].seen /\ sync'[s].full = sync[s].full
         /\ sync'[s].known = sync[s].seen \cap Stored
         /\ sync'[s].stale = sync[s].seen \cap Stale
         /\ \A t \in Syncs \ {s} : sync'[t] = sync[t]
  <2>1. Stored \subseteq Keys /\ Stale \subseteq Keys
    BY DEF Stored, Stale
  <2>3. sync[s].seen \cap Stored \in SUBSET Keys
        /\ sync[s].seen \cap Stale \in SUBSET Keys
    BY <2>1
  <2>4. ReadRows(s) => sync' = [sync EXCEPT ![s] =
           [sync[s] EXCEPT !.pc = "read", !.known = sync[s].seen \cap Stored,
                           !.stale = sync[s].seen \cap Stale]]
    BY DEF ReadRows
  <2> DEFINE v == [sync[s] EXCEPT !.pc = "read",
                                  !.known = sync[s].seen \cap Stored,
                                  !.stale = sync[s].seen \cap Stale]
  <2>6. /\ v \in Visit /\ v.pc = "read" /\ v.seen = sync[s].seen
        /\ v.full = sync[s].full /\ v.known = sync[s].seen \cap Stored
        /\ v.stale = sync[s].seen \cap Stale
    BY <1>1, <2>3 DEF Visit, Visiting
  <2>7. ReadRows(s) => sync' = [sync EXCEPT ![s] = v]
    BY <2>4
  <2> HIDE DEF v
  <2>8. ReadRows(s) =>
          /\ sync' \in [Syncs -> Visit] /\ sync'[s] = v
          /\ \A t \in Syncs \ {s} : sync'[t] = sync[t]
    BY <1>1, <2>6, <2>7
  <2>9. QED
    BY <2>6, <2>8
<1>4. \A k \in Keys : Discover(s, k) =>
         /\ sync' \in [Syncs -> Visit] /\ sync'[s].pc = "looking"
         /\ sync'[s].known = sync[s].known
         /\ \A t \in Syncs \ {s} : sync'[t] = sync[t]
  BY <1>1 DEF Discover, Visit, Visiting
<1>5. QED
  BY <1>2, <1>3, <1>4
  DEF BeginVisit, LookFails, SyncCollides, StoreSync, Visiting

(* What the steps of a provisioning job leave of it.                       *)
LEMMA BuildMoves ==
  ASSUME TypeOK, NEW b \in Builders
  PROVE  /\ \A k \in Keys : BuildResource(b, k) =>
              /\ builder' \in [Builders -> Build]
              /\ builder'[b].pc = "built" /\ builder'[b].key = k
              /\ \A c \in Builders \ {b} : builder'[c] = builder[c]
         /\ (ReadBuilt(b) /\ builder[b].key \in Keys) =>
              /\ builder' \in [Builders -> Build]
              /\ builder'[b].pc = "read" /\ builder'[b].key = builder[b].key
              /\ builder'[b].known = rows[builder[b].key].stored
              /\ \A c \in Builders \ {b} : builder'[c] = builder[c]
         /\ StoreBuilt(b) =>
              /\ builder' \in [Builders -> Build] /\ builder'[b].pc = "done"
              /\ \A c \in Builders \ {b} : builder'[c] = builder[c]
         /\ BuildCollides(b) =>
              /\ builder' \in [Builders -> Build] /\ builder'[b].pc = "lost"
              /\ \A c \in Builders \ {b} : builder'[c] = builder[c]
<1>1. builder \in [Builders -> Build] /\ builder[b] \in Build
  BY TypesOf
<1>2. ASSUME NEW k \in Keys, BuildResource(b, k)
      PROVE  /\ builder' \in [Builders -> Build]
             /\ builder'[b].pc = "built" /\ builder'[b].key = k
             /\ \A c \in Builders \ {b} : builder'[c] = builder[c]
  <2>1. builder' = [builder EXCEPT ![b].pc = "built", ![b].key = k]
    BY <1>2 DEF BuildResource
  <2>2. QED
    BY <1>1, <2>1 DEF Build
<1>3. ASSUME ReadBuilt(b), builder[b].key \in Keys
      PROVE  /\ builder' \in [Builders -> Build]
             /\ builder'[b].pc = "read" /\ builder'[b].key = builder[b].key
             /\ builder'[b].known = rows[builder[b].key].stored
             /\ \A c \in Builders \ {b} : builder'[c] = builder[c]
  <2>1. rows[builder[b].key].stored \in BOOLEAN
        /\ rows[builder[b].key].stale \in BOOLEAN
    BY <1>3, TypesOf DEF Row
  <2>2. QED
    BY <1>1, <1>3, <2>1 DEF ReadBuilt, Build
<1>4. StoreBuilt(b) =>
         /\ builder' \in [Builders -> Build] /\ builder'[b].pc = "done"
         /\ \A c \in Builders \ {b} : builder'[c] = builder[c]
  BY <1>1 DEF StoreBuilt, Build
<1>5. BuildCollides(b) =>
         /\ builder' \in [Builders -> Build] /\ builder'[b].pc = "lost"
         /\ \A c \in Builders \ {b} : builder'[c] = builder[c]
  BY <1>1 DEF BuildCollides, Build
<1>6. QED
  BY <1>2, <1>3, <1>4, <1>5

(* What the steps of a delete request leave of it.                         *)
LEMMA DeleteMoves ==
  ASSUME TypeOK, NEW x \in Actors
  PROVE  /\ \A chosen \in SUBSET Keys : ReceiveDelete(x, chosen) =>
              /\ actor' \in [Actors -> Deletion] /\ actor'[x].pc = "working"
              /\ actor'[x].erased = actor[x].erased
              /\ \A y \in Actors \ {x} : actor'[y] = actor[y]
         /\ CheckItem(x) =>
              /\ actor' \in [Actors -> Deletion]
              /\ \/ actor'[x].pc = "working"
                 \/ actor'[x].pc = "calling" /\ actor'[x].key \in Stored
              /\ actor'[x].erased = actor[x].erased
              /\ \A y \in Actors \ {x} : actor'[y] = actor[y]
         /\ (EraseItem(x) /\ actor[x].key \in Keys) =>
              /\ actor' \in [Actors -> Deletion] /\ actor'[x].pc = "working"
              /\ actor'[x].erased \subseteq
                    actor[x].erased \union {actor[x].key}
              /\ \A y \in Actors \ {x} : actor'[y] = actor[y]
         /\ CommitDeletes(x) =>
              /\ actor' \in [Actors -> Deletion] /\ actor'[x].pc = "done"
              /\ actor'[x].erased = actor[x].erased
              /\ \A y \in Actors \ {x} : actor'[y] = actor[y]
<1>1. actor \in [Actors -> Deletion] /\ actor[x] \in Deletion
  BY TypesOf
<1>2. ASSUME NEW chosen \in SUBSET Keys, ReceiveDelete(x, chosen)
      PROVE  /\ actor' \in [Actors -> Deletion] /\ actor'[x].pc = "working"
             /\ actor'[x].erased = actor[x].erased
             /\ \A y \in Actors \ {x} : actor'[y] = actor[y]
  <2>1. actor' = [actor EXCEPT ![x].pc = "working", ![x].todo = chosen]
    BY <1>2 DEF ReceiveDelete
  <2>2. QED
    BY <1>1, <2>1 DEF Deletion
<1>3. ASSUME CheckItem(x)
      PROVE  /\ actor' \in [Actors -> Deletion]
             /\ \/ actor'[x].pc = "working"
                \/ actor'[x].pc = "calling" /\ actor'[x].key \in Stored
             /\ actor'[x].erased = actor[x].erased
             /\ \A y \in Actors \ {x} : actor'[y] = actor[y]
  <2>1. actor[x].pc = "working"
    BY <1>3 DEF CheckItem
  <2>2. PICK k \in actor[x].todo :
          actor' = IF Visible(k)
                   THEN [actor EXCEPT ![x].pc = "calling", ![x].key = k,
                                      ![x].todo = @ \ {k}]
                   ELSE [actor EXCEPT ![x].todo = @ \ {k}]
    BY <1>3, Zenon DEF CheckItem
  <2>3. k \in Keys
    BY <1>1 DEF Deletion
  <2>4. CASE Visible(k)
    <3>1. k \in Stored
      BY <2>3, <2>4 DEF Visible, Stored
    <3>2. QED
      BY <1>1, <2>2, <2>3, <2>4, <3>1 DEF Deletion
  <2>5. CASE ~Visible(k)
    BY <1>1, <2>1, <2>2, <2>5 DEF Deletion
  <2>6. QED
    BY <2>4, <2>5
<1>4. ASSUME EraseItem(x), actor[x].key \in Keys
      PROVE  /\ actor' \in [Actors -> Deletion] /\ actor'[x].pc = "working"
             /\ actor'[x].erased \subseteq
                   actor[x].erased \union {actor[x].key}
             /\ \A y \in Actors \ {x} : actor'[y] = actor[y]
  <2>1. \/ actor' = [actor EXCEPT ![x].pc = "working", ![x].key = NoKey,
                                  ![x].erased = @ \union {actor[x].key}]
        \/ actor' = [actor EXCEPT ![x].pc = "working", ![x].key = NoKey]
    BY <1>4 DEF EraseItem
  <2>2. QED
    BY <1>1, <1>4, <2>1 DEF Deletion
<1>5. CommitDeletes(x) =>
         /\ actor' \in [Actors -> Deletion] /\ actor'[x].pc = "done"
         /\ actor'[x].erased = actor[x].erased
         /\ \A y \in Actors \ {x} : actor'[y] = actor[y]
  BY <1>1 DEF CommitDeletes, Deletion
<1>6. QED
  BY <1>2, <1>3, <1>4, <1>5

(* Threads that die keep what they had read and done.                      *)
LEMMA DeathMoves ==
  ASSUME TypeOK, ThreadsDie
  PROVE  /\ sync' \in [Syncs -> Visit]
         /\ \A s \in Syncs : /\ sync'[s].known = sync[s].known
                             /\ sync'[s].pc \notin Visiting
         /\ builder' \in [Builders -> Build]
         /\ \A b \in Builders : builder'[b].pc \notin {"built", "read"}
         /\ actor' \in [Actors -> Deletion]
         /\ \A x \in Actors : /\ actor'[x].erased = actor[x].erased
                              /\ actor'[x].pc # "calling"
                              /\ actor'[x].pc = "done" => actor[x].pc = "done"
<1>1. ASSUME NEW s \in Syncs
      PROVE  /\ sync'[s] \in Visit /\ sync'[s].known = sync[s].known
             /\ sync'[s].pc \notin Visiting
  <2>1. sync[s] \in Visit
    BY TypesOf
  <2>2. QED
    BY <2>1 DEF ThreadsDie, Visit, Visiting
<1>2. ASSUME NEW b \in Builders
      PROVE  builder'[b] \in Build /\ builder'[b].pc \notin {"built", "read"}
  <2>1. builder[b] \in Build
    BY TypesOf
  <2>2. QED
    BY <2>1 DEF ThreadsDie, Build
<1>3. ASSUME NEW x \in Actors
      PROVE  /\ actor'[x] \in Deletion /\ actor'[x].erased = actor[x].erased
             /\ actor'[x].pc # "calling"
             /\ actor'[x].pc = "done" => actor[x].pc = "done"
  <2>1. actor[x] \in Deletion
    BY TypesOf
  <2>2. QED
    BY <2>1 DEF ThreadsDie, Deletion
<1>4. /\ sync' = [s \in Syncs |-> sync'[s]]
      /\ builder' = [b \in Builders |-> builder'[b]]
      /\ actor' = [x \in Actors |-> actor'[x]]
  BY DEF ThreadsDie
<1>5. QED
  BY <1>1, <1>2, <1>3, <1>4

(* Whatever is created or deleted at the provider keeps its keys.          *)
LEMMA CloudMoves ==
  ASSUME cloud \subseteq Keys, twins \subseteq cloud, NEW k \in Keys,
         Gains(k) \/ Loses(k)
  PROVE  cloud' \subseteq Keys /\ twins' \subseteq cloud'
<1>1. CASE Gains(k)
  BY <1>1 DEF Gains
<1>2. CASE Loses(k) /\ k \in twins
  BY <1>2 DEF Loses
<1>3. CASE Loses(k) /\ k \notin twins
  <2>1. cloud' = cloud \ {k} /\ twins' = twins
    BY <1>3 DEF Loses
  <2>2. QED
    BY <1>3, <2>1
<1>4. QED
  BY <1>1, <1>2, <1>3

(* What the commit of a provisioning job leaves of each row.               *)
LEMMA BuiltWrites ==
  ASSUME TypeOK, NEW b \in Builders, StoreBuilt(b), builder[b].key \in Keys
  PROVE  /\ rows' \in [Keys -> Row]
         /\ \A k \in Keys :
               \/ rows'[k].stored = rows[k].stored
                  /\ rows'[k].deleted = rows[k].deleted
               \/ ~rows[k].stored /\ rows'[k].stored /\ ~rows'[k].deleted
<1> DEFINE k == builder[b].key
<1>1. rows[k] \in Row /\ rows \in [Keys -> Row]
  BY TypesOf
<1>2. rows' = [rows EXCEPT ![k] =
                  IF ~builder[b].known THEN NewRow
                  ELSE [rows[k] EXCEPT !.stale = rows[k].stale
                                          /\ ~builder[b].stale]]
      /\ (rows[k].stored => builder[b].known)
  BY DEF StoreBuilt
<1>3. CASE ~builder[b].known
  <2>1. rows' = [rows EXCEPT ![k] = NewRow]
    BY <1>2, <1>3
  <2>2. QED
    BY <1>1, <1>2, <1>3, <2>1, NewRowIsLive
<1>4. CASE builder[b].known
  <2> DEFINE q == [rows[k] EXCEPT !.stale = rows[k].stale
                                               /\ ~builder[b].stale]
  <2>1. rows' = [rows EXCEPT ![k] = q]
    BY <1>2, <1>4
  <2>2. /\ q \in Row /\ q.stored = rows[k].stored
        /\ q.deleted = rows[k].deleted
    BY <1>1, RowIsReused
  <2> HIDE DEF q
  <2>3. QED
    BY <1>1, <2>1, <2>2
<1>5. QED
  BY <1>3, <1>4

(* What the commit of a delete request leaves of each row.                 *)
LEMMA DeleteWrites ==
  ASSUME TypeOK, NEW x \in Actors, CommitDeletes(x)
  PROVE  /\ rows' \in [Keys -> Row]
         /\ \A k \in Keys :
               /\ rows'[k].stored = rows[k].stored
               /\ rows'[k].deleted <=> rows[k].deleted
                                          \/ k \in actor[x].erased
<1>1. ASSUME NEW k \in Keys
      PROVE  /\ rows'[k] \in Row
             /\ rows'[k].stored = rows[k].stored
             /\ rows'[k].deleted <=> rows[k].deleted
                                        \/ k \in actor[x].erased
  <2>1. rows[k] \in Row
    BY TypesOf
  <2>2. rows'[k] = IF k \in actor[x].erased
                   THEN [rows[k] EXCEPT !.deleted = TRUE] ELSE rows[k]
    BY DEF CommitDeletes
  <2>3. CASE k \in actor[x].erased
    BY <2>1, <2>2, <2>3 DEF Row
  <2>4. CASE k \notin actor[x].erased
    BY <2>1, <2>2, <2>4
  <2>5. QED
    BY <2>3, <2>4
<1>2. rows' = [k \in Keys |-> rows'[k]]
  BY DEF CommitDeletes
<1>3. QED
  BY <1>1, <1>2

-----------------------------------------------------------------------------
(***************************************************************************)
(* The table                                                               *)
(***************************************************************************)

(* A step that writes no row, and forgets no row it has found.             *)
LEMMA NoWriteKeepsTable ==
  ASSUME TypeOK, TableInv, UNCHANGED <<rows, audited>>,
         ReadersFoundRows', AnsweredDeleteIsRecorded'
  PROVE  TableInv'
BY DEF TableInv, DeletedRowIsStored, DeletionIsAudited

(* Rows are only added, and what a reader has found stays.                 *)
LEMMA RowsOnlyGrow ==
  ASSUME ReadersFoundRows,
         \A k \in Keys : rows[k].stored => rows'[k].stored,
         \A s \in Syncs : sync'[s].known = sync[s].known,
         \A b \in Builders : \/ builder'[b] = builder[b]
                             \/ builder'[b].pc \notin {"built", "read"},
         \A x \in Actors : /\ actor'[x].erased = actor[x].erased
                           /\ \/ actor'[x] = actor[x]
                              \/ actor'[x].pc # "calling"
  PROVE  ReadersFoundRows'
<1>1. Stored \subseteq Stored'
  BY DEF Stored
<1>2. \A s \in Syncs : sync'[s].known \subseteq Stored'
  BY <1>1 DEF ReadersFoundRows
<1>3. \A b \in Builders :
         /\ builder'[b].pc \in {"built", "read"} => builder'[b].key \in Keys
         /\ (builder'[b].pc = "read" /\ builder'[b].known) =>
               rows'[builder'[b].key].stored
  BY DEF ReadersFoundRows
<1>4. \A x \in Actors :
         /\ actor'[x].erased \subseteq Stored'
         /\ actor'[x].pc = "calling" => actor'[x].key \in Stored'
  BY <1>1 DEF ReadersFoundRows
<1>5. QED
  BY <1>2, <1>3, <1>4 DEF ReadersFoundRows

(* The steps of a visit before its commit write no row.                    *)
LEMMA VisitStepTable ==
  ASSUME TypeOK, TableInv, NEW s \in Syncs,
         \/ BeginVisit(s) \/ LookFails(s) \/ EndLook(s) \/ ReadRows(s)
         \/ SyncCollides(s) \/ \E k \in Keys : Discover(s, k)
  PROVE  TypeOK' /\ TableInv'
<1>1. UNCHANGED <<cloud, twins, rows, audited, builder, actor, outside, faults,
                  disturbed, exact>>
  BY DEF BeginVisit, LookFails, EndLook, ReadRows, SyncCollides, Discover,
         Undisturbing
<1>2. /\ sync' \in [Syncs -> Visit]
      /\ \A t \in Syncs : sync'[t].known \subseteq Stored
  <2>1. /\ sync' \in [Syncs -> Visit]
        /\ \A t \in Syncs \ {s} : sync'[t] = sync[t]
        /\ \/ sync'[s].known = sync[s].known
           \/ sync'[s].known = sync[s].seen \cap Stored
    BY VisitMoves, LookEnds, TypesOf
  <2>2. QED
    BY <2>1 DEF TableInv, ReadersFoundRows
<1>3. TypeOK'
  BY <1>1, <1>2, TypesOf DEF Visit, Build, Deletion, TypeOK
<1>4. Stored' = Stored
  BY <1>1 DEF Stored
<1>5. ReadersFoundRows' /\ AnsweredDeleteIsRecorded'
  BY <1>1, <1>2, <1>4
  DEF TableInv, ReadersFoundRows, AnsweredDeleteIsRecorded
<1>6. QED
  BY <1>1, <1>3, <1>5, NoWriteKeepsTable

(* A visit inserts only rows that are not there: the unique constraint.    *)
LEMMA StoreSyncTable ==
  ASSUME TypeOK, TableInv, NEW s \in Syncs, StoreSync(s)
  PROVE  TypeOK' /\ TableInv'
<1>1. /\ UNCHANGED <<cloud, twins, audited, builder, actor, outside, faults>>
      /\ disturbed' \subseteq Syncs /\ exact' \in BOOLEAN
      /\ sync[s].seen \cap Stored \subseteq sync[s].known
      /\ sync[s].known \subseteq Stored
  BY TypesOf DEF StoreSync, Fits, TableInv, ReadersFoundRows
<1>2. /\ sync' \in [Syncs -> Visit]
      /\ \A t \in Syncs : sync'[t].known = sync[t].known
  BY VisitMoves
<1>3. rows' \in [Keys -> Row]
  <2>1. rows' = [k \in Keys |-> rows'[k]]
    BY DEF StoreSync
  <2>2. QED
    BY <2>1, VisitWrites
<1>4. TypeOK'
  BY <1>1, <1>2, <1>3 DEF TypeOK, Visit
<1>5. ASSUME NEW k \in Keys
      PROVE  \/ /\ rows'[k].stored = rows[k].stored
                /\ rows'[k].deleted = rows[k].deleted
             \/ ~rows[k].stored /\ rows'[k].stored /\ ~rows'[k].deleted
  <2>1. CASE k \in sync[s].seen \ sync[s].known
    <3>1. ~rows[k].stored
      BY <1>1, <2>1 DEF Stored
    <3>2. QED
      BY <2>1, <3>1, VisitWrites
  <2>2. CASE k \notin sync[s].seen \ sync[s].known
    BY <2>2, VisitWrites
  <2>3. QED
    BY <2>1, <2>2
<1>6. ReadersFoundRows'
  BY <1>1, <1>2, <1>5, RowsOnlyGrow DEF TableInv
<1>7. \A k \in Keys : rows'[k].deleted <=> rows[k].deleted
  BY <1>5 DEF TableInv, DeletedRowIsStored
<1>8. DeletedRowIsStored' /\ DeletionIsAudited'
  BY <1>1, <1>5, <1>7 DEF TableInv, DeletedRowIsStored, DeletionIsAudited
<1>9. AnsweredDeleteIsRecorded'
  <2>1. \A x \in Actors : actor[x].erased \subseteq Keys
    BY TypesOf DEF Deletion
  <2>2. QED
    BY <1>1, <1>7, <2>1 DEF TableInv, AnsweredDeleteIsRecorded
<1>10. QED
  BY <1>4, <1>6, <1>8, <1>9 DEF TableInv

(* Nor do the steps of a provisioning job before its commit.               *)
LEMMA BuildStepTable ==
  ASSUME TypeOK, TableInv, NEW b \in Builders,
         \/ \E k \in Keys : BuildResource(b, k)
         \/ ReadBuilt(b) \/ BuildCollides(b)
  PROVE  TypeOK' /\ TableInv'
<1>1. /\ UNCHANGED <<rows, audited, sync, actor, outside, faults>>
      /\ cloud' \subseteq Keys /\ twins' \subseteq cloud'
      /\ disturbed' \subseteq Syncs /\ exact' \in BOOLEAN
  BY TypesOf, CloudMoves
  DEF BuildResource, ReadBuilt, BuildCollides, Disturb, Undisturbing
<1>2. /\ builder' \in [Builders -> Build]
      /\ \A c \in Builders \ {b} : builder'[c] = builder[c]
      /\ \/ builder'[b].pc = "built" /\ builder'[b].key \in Keys
         \/ /\ builder'[b].pc = "read" /\ builder'[b].key \in Keys
            /\ builder'[b].known = rows[builder'[b].key].stored
         \/ builder'[b].pc = "lost"
  <2>1. ReadBuilt(b) => builder[b].key \in Keys
    BY DEF ReadBuilt, TableInv, ReadersFoundRows
  <2>2. QED
    BY <2>1, BuildMoves
<1>3. TypeOK'
  BY <1>1, <1>2 DEF TypeOK, Build
<1>4. Stored' = Stored
  BY <1>1 DEF Stored
<1>5. ReadersFoundRows' /\ AnsweredDeleteIsRecorded'
  BY <1>1, <1>2, <1>4
  DEF TableInv, ReadersFoundRows, AnsweredDeleteIsRecorded
<1>6. QED
  BY <1>1, <1>3, <1>5, NoWriteKeepsTable

(* So does a provisioning job.                                             *)
LEMMA StoreBuiltTable ==
  ASSUME TypeOK, TableInv, NEW b \in Builders, StoreBuilt(b)
  PROVE  TypeOK' /\ TableInv'
<1>1. /\ UNCHANGED <<cloud, twins, audited, sync, actor, outside, faults>>
      /\ disturbed' \subseteq Syncs /\ exact' \in BOOLEAN
      /\ builder[b].key \in Keys
  BY TypesOf DEF StoreBuilt, Disturb, TableInv, ReadersFoundRows
<1>2. /\ builder' \in [Builders -> Build]
      /\ builder'[b].pc = "done"
      /\ \A c \in Builders \ {b} : builder'[c] = builder[c]
  BY BuildMoves
<1>3. /\ rows' \in [Keys -> Row]
      /\ \A k \in Keys :
            \/ rows'[k].stored = rows[k].stored
               /\ rows'[k].deleted = rows[k].deleted
            \/ ~rows[k].stored /\ rows'[k].stored /\ ~rows'[k].deleted
  BY <1>1, BuiltWrites
<1>4. TypeOK'
  BY <1>1, <1>2, <1>3 DEF TypeOK, Build
<1>5. ReadersFoundRows'
  BY <1>1, <1>2, <1>3, RowsOnlyGrow DEF TableInv
<1>6. \A k \in Keys : rows'[k].deleted <=> rows[k].deleted
  BY <1>3 DEF TableInv, DeletedRowIsStored
<1>7. DeletedRowIsStored' /\ DeletionIsAudited'
  BY <1>1, <1>3, <1>6 DEF TableInv, DeletedRowIsStored, DeletionIsAudited
<1>8. AnsweredDeleteIsRecorded'
  <2>1. \A x \in Actors : actor[x].erased \subseteq Keys
    BY TypesOf DEF Deletion
  <2>2. QED
    BY <1>1, <1>6, <2>1 DEF TableInv, AnsweredDeleteIsRecorded
<1>9. QED
  BY <1>4, <1>5, <1>7, <1>8 DEF TableInv

(* Nor those of a delete request.                                          *)
LEMMA DeleteStepTable ==
  ASSUME TypeOK, TableInv, NEW x \in Actors,
         \/ \E chosen \in SUBSET Keys : ReceiveDelete(x, chosen)
         \/ CheckItem(x) \/ EraseItem(x)
  PROVE  TypeOK' /\ TableInv'
<1>1. /\ UNCHANGED <<rows, audited, sync, builder, outside, faults>>
      /\ cloud' \subseteq Keys /\ twins' \subseteq cloud'
      /\ disturbed' \subseteq Syncs /\ exact' \in BOOLEAN
  <2>1. /\ UNCHANGED <<rows, audited, sync, builder, outside, faults>>
        /\ Disturb \/ Undisturbing
        /\ EraseItem(x) \/ UNCHANGED <<cloud, twins>>
    <3>1. CASE \E chosen \in SUBSET Keys : ReceiveDelete(x, chosen)
      BY <3>1 DEF ReceiveDelete
    <3>2. CASE CheckItem(x)
      BY <3>2, Zenon DEF CheckItem
    <3>3. CASE EraseItem(x)
      BY <3>3 DEF EraseItem
    <3>4. QED
      BY <3>1, <3>2, <3>3
  <2>2. EraseItem(x) => Loses(actor[x].key) \/ UNCHANGED <<cloud, twins>>
    BY DEF EraseItem
  <2>3. EraseItem(x) => actor[x].key \in Keys
    BY DEF EraseItem, TableInv, ReadersFoundRows, Stored
  <2>4. \/ UNCHANGED <<cloud, twins>>
        \/ actor[x].key \in Keys /\ Loses(actor[x].key)
    BY <2>1, <2>2, <2>3
  <2>5. cloud' \subseteq Keys /\ twins' \subseteq cloud'
    BY <2>4, CloudMoves DEF TypeOK
  <2>6. QED
    BY <2>1, <2>5, TypesOf DEF Disturb, Undisturbing
<1>2. /\ actor' \in [Actors -> Deletion]
      /\ \A y \in Actors \ {x} : actor'[y] = actor[y]
      /\ actor'[x].erased \subseteq Stored
      /\ \/ actor'[x].pc = "working"
         \/ actor'[x].pc = "calling" /\ actor'[x].key \in Stored
  <2>1. EraseItem(x) => actor[x].key \in Stored
    BY DEF EraseItem, TableInv, ReadersFoundRows
  <2>2. Stored \subseteq Keys
    BY DEF Stored
  <2>3. actor[x].erased \subseteq Stored
    BY DEF TableInv, ReadersFoundRows
  <2>4. QED
    BY <2>1, <2>2, <2>3, DeleteMoves
<1>3. TypeOK'
  BY <1>1, <1>2 DEF TypeOK, Deletion
<1>4. Stored' = Stored
  BY <1>1 DEF Stored
<1>5. ReadersFoundRows' /\ AnsweredDeleteIsRecorded'
  BY <1>1, <1>2, <1>4
  DEF TableInv, ReadersFoundRows, AnsweredDeleteIsRecorded
<1>6. QED
  BY <1>1, <1>3, <1>5, NoWriteKeepsTable

(* The one commit of a delete request.                                     *)
LEMMA CommitDeletesTable ==
  ASSUME TypeOK, TableInv, NEW x \in Actors, CommitDeletes(x)
  PROVE  TypeOK' /\ TableInv'
<1>1. /\ UNCHANGED <<cloud, twins, sync, builder, outside, faults>>
      /\ audited' = audited \union actor[x].erased
      /\ disturbed' \subseteq Syncs /\ exact' \in BOOLEAN
      /\ actor[x].erased \subseteq Stored /\ actor[x].erased \subseteq Keys
  BY TypesOf DEF CommitDeletes, Disturb, Undisturbing, TableInv,
                 ReadersFoundRows, Stored
<1>2. /\ actor' \in [Actors -> Deletion]
      /\ actor'[x].pc = "done" /\ actor'[x].erased = actor[x].erased
      /\ \A y \in Actors \ {x} : actor'[y] = actor[y]
  BY DeleteMoves
<1>3. /\ rows' \in [Keys -> Row]
      /\ \A k \in Keys :
            /\ rows'[k].stored = rows[k].stored
            /\ rows'[k].deleted <=> rows[k].deleted
                                       \/ k \in actor[x].erased
  BY DeleteWrites
<1>4. TypeOK'
  BY <1>1, <1>2, <1>3 DEF TypeOK, Deletion
<1>5. ReadersFoundRows'
  BY <1>1, <1>2, <1>3, RowsOnlyGrow DEF TableInv
<1>6. DeletedRowIsStored' /\ DeletionIsAudited'
  BY <1>1, <1>3
  DEF TableInv, DeletedRowIsStored, DeletionIsAudited, Stored
<1>7. AnsweredDeleteIsRecorded'
  <2>1. \A y \in Actors : actor[y].erased \subseteq Keys
    BY TypesOf DEF Deletion
  <2>2. QED
    BY <1>1, <1>2, <1>3, <2>1 DEF TableInv, AnsweredDeleteIsRecorded
<1>8. QED
  BY <1>4, <1>5, <1>6, <1>7 DEF TableInv

(* What happens outside the table, and threads that die.                   *)
LEMMA OtherStepTable ==
  ASSUME TypeOK, TableInv,
         (\E k \in Keys : ChangeOutside(k)) \/ ThreadsDie
  PROVE  TypeOK' /\ TableInv'
<1>1. CASE \E k \in Keys : ChangeOutside(k)
  <2>1. /\ UNCHANGED <<rows, audited, sync, builder, actor, faults>>
        /\ cloud' \subseteq Keys /\ twins' \subseteq cloud'
        /\ outside' \in Nat
        /\ disturbed' \subseteq Syncs /\ exact' \in BOOLEAN
    <3>1. PICK k \in Keys : ChangeOutside(k)
      BY <1>1
    <3>2. Gains(k) \/ Loses(k)
      BY <3>1 DEF ChangeOutside
    <3>3. cloud' \subseteq Keys /\ twins' \subseteq cloud'
      BY <3>2, CloudMoves DEF TypeOK
    <3>4. /\ UNCHANGED <<rows, audited, sync, builder, actor, faults>>
          /\ outside' = outside + 1 /\ Disturb
      BY <3>1 DEF ChangeOutside
    <3>5. outside' \in Nat
      BY <3>4, TypesOf
    <3>6. disturbed' \subseteq Syncs /\ exact' \in BOOLEAN
      BY <3>4, TypesOf DEF Disturb
    <3>7. QED
      BY <3>3, <3>4, <3>5, <3>6
  <2>2. TypeOK'
    BY <2>1 DEF TypeOK
  <2>3. ReadersFoundRows' /\ AnsweredDeleteIsRecorded'
    BY <2>1 DEF TableInv, ReadersFoundRows, AnsweredDeleteIsRecorded, Stored
  <2>4. QED
    BY <2>1, <2>2, <2>3, NoWriteKeepsTable
<1>2. CASE ThreadsDie
  <2>1. /\ UNCHANGED <<cloud, twins, rows, audited, outside, disturbed, exact>>
        /\ faults' = faults + 1
    BY <1>2 DEF ThreadsDie, Undisturbing
  <2>2. TypeOK'
    BY <1>2, <2>1, DeathMoves, TypesOf
    DEF TypeOK, Visit, Build, Deletion
  <2>3. Stored' = Stored
    BY <2>1 DEF Stored
  <2>4. ReadersFoundRows' /\ AnsweredDeleteIsRecorded'
    BY <1>2, <2>1, <2>3, DeathMoves
    DEF TableInv, ReadersFoundRows, AnsweredDeleteIsRecorded
  <2>5. QED
    BY <2>1, <2>2, <2>4, NoWriteKeepsTable
<1>3. QED
  BY <1>1, <1>2

-----------------------------------------------------------------------------
(***************************************************************************)
(* The visits                                                              *)
(***************************************************************************)

(* Whatever changes the cloud or a row disturbs every visit under way, and *)
(* what the last one made exact.                                           *)
LEMMA DisturbedViews ==
  ASSUME ViewInv, Disturb, UNCHANGED <<sync, faults>>
  PROVE  ViewInv'
<1>1. ASSUME NEW s \in Syncs PROVE ViewIsFresh(s)'
  BY DEF Disturb, ViewIsFresh, Visiting
<1>2. LostToARaceOrTwins'
  BY DEF Disturb, ViewInv, LostToARaceOrTwins
<1>3. UndisturbedSyncIsExact'
  BY DEF Disturb, UndisturbedSyncIsExact
<1>4. QED
  BY <1>1, <1>2, <1>3 DEF ViewInv

(* A step that changes neither leaves them true.                           *)
LEMMA QuietViews ==
  ASSUME ViewInv, UNCHANGED <<cloud, rows, sync, disturbed, exact, faults>>
  PROVE  ViewInv'
<1>1. Stored' = Stored /\ Stale' = Stale
  BY DEF Stored, Stale
<1>2. ASSUME NEW s \in Syncs PROVE ViewIsFresh(s)'
  BY <1>1 DEF ViewInv, ViewIsFresh
<1>3. LostToARaceOrTwins'
  BY DEF ViewInv, LostToARaceOrTwins
<1>4. UndisturbedSyncIsExact'
  BY DEF ViewInv, UndisturbedSyncIsExact, Visible
<1>5. QED
  BY <1>2, <1>3, <1>4 DEF ViewInv

(* The steps of a visit before its commit: what it has read is what there  *)
(* is, and a row that appeared since has disturbed it.                     *)
LEMMA VisitStepViews ==
  ASSUME TypeOK, ViewInv, NEW s \in Syncs,
         \/ BeginVisit(s) \/ LookFails(s) \/ EndLook(s) \/ ReadRows(s)
         \/ SyncCollides(s) \/ \E k \in Keys : Discover(s, k)
  PROVE  ViewInv'
<1>1. UNCHANGED <<cloud, rows, faults, disturbed, exact>>
  BY DEF BeginVisit, LookFails, EndLook, ReadRows, SyncCollides, Discover,
         Undisturbing
<1>2. Stored' = Stored /\ Stale' = Stale
  BY <1>1 DEF Stored, Stale
<1>3. ViewIsFresh(s)
  BY DEF ViewInv
<1>4. \A t \in Syncs \ {s} : sync'[t] = sync[t]
  BY VisitMoves, LookEnds, TypesOf
<1>5. ViewIsFresh(s)'
  <2>1. CASE EndLook(s)
    <3>1. /\ sync'[s].pc = "looked" /\ sync'[s].seen = sync[s].seen
          /\ sync'[s].full <=> sync[s].seen = cloud
      BY <2>1, LookEnds, TypesOf
    <3>2. QED
      BY <1>1, <3>1 DEF ViewIsFresh
  <2>2. CASE ReadRows(s)
    <3>1. /\ sync[s].pc = "looked" /\ sync'[s].pc = "read"
          /\ sync'[s].seen = sync[s].seen /\ sync'[s].full = sync[s].full
          /\ sync'[s].known = sync[s].seen \cap Stored
          /\ sync'[s].stale = sync[s].seen \cap Stale
      <4>1. sync[s].pc = "looked"
        BY <2>2 DEF ReadRows
      <4>2. QED
        BY <2>2, <4>1, VisitMoves
    <3>2. QED
      BY <1>1, <1>2, <1>3, <3>1 DEF ViewIsFresh
  <2>3. CASE ~EndLook(s) /\ ~ReadRows(s)
    <3>1. sync'[s].pc \in {"looking", "failed", "lost"}
      BY <2>3, VisitMoves
    <3>2. QED
      BY <3>1 DEF ViewIsFresh
  <2>4. QED
    BY <2>1, <2>2, <2>3
<1>6. \A t \in Syncs : ViewIsFresh(t)'
  BY <1>1, <1>2, <1>4, <1>5 DEF ViewInv, ViewIsFresh
<1>7. LostToARaceOrTwins'
  <2>1. CASE SyncCollides(s)
    <3>1. s \in disturbed \/ ~(sync[s].doubled \subseteq sync[s].known)
      BY <1>3, <2>1 DEF SyncCollides, Fits, ViewIsFresh
    <3>2. sync'[s].known = sync[s].known /\ sync'[s].doubled = sync[s].doubled
      BY <2>1, VisitMoves
    <3>3. QED
      BY <1>1, <1>4, <3>1, <3>2 DEF ViewInv, LostToARaceOrTwins
  <2>2. CASE ~SyncCollides(s)
    <3>1. sync'[s].pc # "lost"
      BY <2>2, VisitMoves, LookEnds, TypesOf
    <3>2. QED
      BY <1>1, <1>4, <3>1 DEF ViewInv, LostToARaceOrTwins
  <2>3. QED
    BY <2>1, <2>2
<1>8. UndisturbedSyncIsExact'
  BY <1>1 DEF ViewInv, UndisturbedSyncIsExact, Visible
<1>9. QED
  BY <1>6, <1>7, <1>8 DEF ViewInv

(* The commit of a visit disturbs every other one, and makes the table     *)
(* exact if nothing disturbed it and it missed nothing.                    *)
LEMMA StoreSyncViews ==
  ASSUME TypeOK, TableInv, ViewInv, NEW s \in Syncs, StoreSync(s)
  PROVE  ViewInv'
<1>1. /\ UNCHANGED <<cloud, faults>>
      /\ disturbed' = disturbed \union
            {t \in Syncs \ {s} : sync[t].pc \in Visiting}
      /\ exact' <=> (s \notin disturbed /\ sync[s].full)
      /\ sync[s].pc = "read"
  BY DEF StoreSync
<1>2. /\ sync'[s].pc = "done"
      /\ \A t \in Syncs \ {s} : sync'[t] = sync[t]
  BY VisitMoves
<1>3. ASSUME NEW t \in Syncs PROVE ViewIsFresh(t)'
  <2>1. CASE t = s
    BY <1>2, <2>1 DEF ViewIsFresh
  <2>2. CASE t # s
    BY <1>1, <1>2, <2>2 DEF ViewIsFresh, Visiting
  <2>3. QED
    BY <2>1, <2>2
<1>4. LostToARaceOrTwins'
  BY <1>1, <1>2 DEF ViewInv, LostToARaceOrTwins
<1>5. UndisturbedSyncIsExact'
  <2>1. SUFFICES ASSUME exact'
                 PROVE  /\ \A k \in cloud : rows'[k].stored /\ ~rows'[k].stale
                        /\ \A k \in Keys \ cloud : ~Visible(k)'
    BY <1>1 DEF UndisturbedSyncIsExact
  <2>2. /\ sync[s].seen = cloud
        /\ sync[s].known = cloud \cap Stored
        /\ sync[s].stale = cloud \cap Stale
        /\ cloud \subseteq Keys
    BY <1>1, <2>1 DEF ViewInv, ViewIsFresh, TypeOK
  <2>3. ASSUME NEW k \in cloud PROVE rows'[k].stored /\ ~rows'[k].stale
    <3>1. CASE k \in Stored
      <4>1. k \in sync[s].seen \cap sync[s].known /\ rows[k].stored
        BY <2>2, <3>1 DEF Stored
      <4>2. rows[k].stale => k \in sync[s].stale
        BY <2>2 DEF Stale
      <4>3. QED
        BY <2>2, <4>1, <4>2, VisitWrites
    <3>2. CASE k \notin Stored
      BY <2>2, <3>2, VisitWrites
    <3>3. QED
      BY <3>1, <3>2
  <2>4. ASSUME NEW k \in Keys \ cloud PROVE ~Visible(k)'
    BY <2>2, VisitWrites DEF Visible
  <2>5. QED
    BY <2>3, <2>4
<1>6. QED
  BY <1>3, <1>4, <1>5 DEF ViewInv

(* Threads that die are no longer under way.                               *)
LEMMA DeathViews ==
  ASSUME TypeOK, ViewInv, ThreadsDie
  PROVE  ViewInv'
<1>1. /\ UNCHANGED <<cloud, rows, disturbed, exact>>
      /\ faults' = faults + 1 /\ faults \in Nat
  BY DEF ThreadsDie, Undisturbing, TypeOK
<1>2. \A s \in Syncs : ViewIsFresh(s)'
  BY DeathMoves DEF ViewIsFresh, Visiting
<1>3. LostToARaceOrTwins'
  BY <1>1 DEF LostToARaceOrTwins
<1>4. UndisturbedSyncIsExact'
  BY <1>1 DEF ViewInv, UndisturbedSyncIsExact, Visible
<1>5. QED
  BY <1>2, <1>3, <1>4 DEF ViewInv

(* Every other step either disturbs the visits or changes nothing they     *)
(* have read.                                                              *)
LEMMA OtherStepViews ==
  ASSUME TypeOK, ViewInv,
         \/ \E b \in Builders :
               \/ \E k \in Keys : BuildResource(b, k)
               \/ ReadBuilt(b) \/ StoreBuilt(b) \/ BuildCollides(b)
         \/ \E x \in Actors :
               \/ \E chosen \in SUBSET Keys : ReceiveDelete(x, chosen)
               \/ CheckItem(x) \/ EraseItem(x) \/ CommitDeletes(x)
         \/ \E k \in Keys : ChangeOutside(k)
  PROVE  ViewInv'
<1>1. UNCHANGED <<sync, faults>>
  BY DEF BuildResource, ReadBuilt, StoreBuilt, BuildCollides, ReceiveDelete,
         CheckItem, EraseItem, CommitDeletes, ChangeOutside
<1>2. Disturb \/ UNCHANGED <<cloud, rows, disturbed, exact>>
  <2>1. ASSUME NEW b \in Builders,
               \/ \E k \in Keys : BuildResource(b, k)
               \/ ReadBuilt(b) \/ StoreBuilt(b) \/ BuildCollides(b)
        PROVE  Disturb \/ UNCHANGED <<cloud, rows, disturbed, exact>>
    <3>1. CASE \E k \in Keys : BuildResource(b, k)
      BY <3>1 DEF BuildResource
    <3>2. CASE ReadBuilt(b) \/ BuildCollides(b)
      BY <3>2, Zenon DEF ReadBuilt, BuildCollides, Undisturbing
    <3>3. CASE StoreBuilt(b)
      BY <3>3 DEF StoreBuilt
    <3>4. QED
      BY <2>1, <3>1, <3>2, <3>3
  <2>2. ASSUME NEW x \in Actors,
               \/ \E chosen \in SUBSET Keys : ReceiveDelete(x, chosen)
               \/ CheckItem(x) \/ EraseItem(x) \/ CommitDeletes(x)
        PROVE  Disturb \/ UNCHANGED <<cloud, rows, disturbed, exact>>
    <3>1. CASE \E chosen \in SUBSET Keys : ReceiveDelete(x, chosen)
      BY <3>1 DEF ReceiveDelete, Undisturbing
    <3>2. CASE CheckItem(x)
      BY <3>2, Zenon DEF CheckItem, Undisturbing
    <3>3. CASE EraseItem(x) \/ CommitDeletes(x)
      BY <3>3, Zenon DEF EraseItem, CommitDeletes, Undisturbing
    <3>4. QED
      BY <2>2, <3>1, <3>2, <3>3
  <2>3. ASSUME NEW k \in Keys, ChangeOutside(k)
        PROVE  Disturb
    BY <2>3 DEF ChangeOutside
  <2>4. QED
    BY <2>1, <2>2, <2>3
<1>3. QED
  BY <1>1, <1>2, DisturbedViews, QuietViews

-----------------------------------------------------------------------------
(* The invariant is inductive.                                             *)
THEOREM InductiveInvariant == Spec => []IInv
<1>1. Init => IInv
  <2>1. SUFFICES ASSUME Init PROVE IInv
    OBVIOUS
  <2>2. TypeOK
    <3>1. /\ [pc |-> "idle", seen |-> {}, doubled |-> {}, known |-> {},
              stale |-> {}, full |-> FALSE] \in Visit
          /\ [pc |-> "idle", key |-> NoKey, known |-> FALSE,
              stale |-> FALSE] \in Build
          /\ [pc |-> "idle", todo |-> {}, erased |-> {}, key |-> NoKey]
                \in Deletion
      BY DEF Visit, Build, Deletion
    <3>2. QED
      BY <2>1, <3>1, NewRowIsLive, TypesOf DEF Init
  <2>3. /\ \A s \in Syncs : sync[s].pc = "idle" /\ sync[s].known = {}
        /\ \A b \in Builders : builder[b].pc = "idle"
        /\ \A x \in Actors : actor[x].pc = "idle" /\ actor[x].erased = {}
        /\ \A k \in Keys : ~rows[k].deleted
        /\ audited = {} /\ ~exact
    BY <2>1 DEF Init, NoRow
  <2>4. TableInv
    BY <2>3 DEF TableInv, ReadersFoundRows, DeletedRowIsStored,
                DeletionIsAudited, AnsweredDeleteIsRecorded
  <2>5. ViewInv
    BY <2>3 DEF ViewInv, ViewIsFresh, LostToARaceOrTwins,
                UndisturbedSyncIsExact
  <2>6. QED
    BY <2>2, <2>4, <2>5 DEF IInv
<1>2. IInv /\ [Next]_vars => IInv'
  <2>1. SUFFICES ASSUME TypeOK, TableInv, ViewInv, [Next]_vars
                 PROVE  TypeOK' /\ TableInv' /\ ViewInv'
    BY DEF IInv
  <2>2. CASE UNCHANGED vars
    <3>1. UNCHANGED <<cloud, twins, rows, audited, sync, builder, actor, disturbed,
                      exact, outside, faults>>
      BY <2>2 DEF vars
    <3>2. TypeOK'
      BY <2>1, <3>1 DEF TypeOK
    <3>3. TableInv'
      BY <2>1, <3>1 DEF TableInv, ReadersFoundRows, DeletedRowIsStored,
           DeletionIsAudited, AnsweredDeleteIsRecorded, Stored
    <3>4. QED
      BY <2>1, <3>1, <3>2, <3>3, QuietViews
  <2>3. ASSUME NEW s \in Syncs,
               \/ BeginVisit(s) \/ LookFails(s) \/ EndLook(s) \/ ReadRows(s)
               \/ StoreSync(s) \/ SyncCollides(s)
               \/ \E k \in Keys : Discover(s, k)
        PROVE  TypeOK' /\ TableInv' /\ ViewInv'
    BY <2>1, <2>3, VisitStepTable, StoreSyncTable, VisitStepViews,
       StoreSyncViews
  <2>4. ASSUME NEW b \in Builders,
               \/ \E k \in Keys : BuildResource(b, k)
               \/ ReadBuilt(b) \/ StoreBuilt(b) \/ BuildCollides(b)
        PROVE  TypeOK' /\ TableInv' /\ ViewInv'
    BY <2>1, <2>4, BuildStepTable, StoreBuiltTable, OtherStepViews
  <2>5. ASSUME NEW x \in Actors,
               \/ \E chosen \in SUBSET Keys : ReceiveDelete(x, chosen)
               \/ CheckItem(x) \/ EraseItem(x) \/ CommitDeletes(x)
        PROVE  TypeOK' /\ TableInv' /\ ViewInv'
    BY <2>1, <2>5, DeleteStepTable, CommitDeletesTable, OtherStepViews
  <2>6. CASE \E k \in Keys : ChangeOutside(k)
    BY <2>1, <2>6, OtherStepTable, OtherStepViews
  <2>7. CASE ThreadsDie
    BY <2>1, <2>7, OtherStepTable, DeathViews
  <2>8. QED
    BY <2>1, <2>2, <2>3, <2>4, <2>5, <2>6, <2>7 DEF Next
<1>3. QED
  BY <1>1, <1>2, PTL DEF Spec

(* Every reachable state is well typed.                                    *)
THEOREM TypeCorrect == Spec => []TypeOK
<1>1. IInv => TypeOK
  BY DEF IInv
<1>2. QED
  BY <1>1, InductiveInvariant, PTL

(* A row is deleted exactly when a delete request audited it: no visit and *)
(* no provisioning job deletes, revives or forgets one.                    *)
THEOREM DeletionsAreAudited == Spec => []DeletionIsAudited
<1>1. IInv => DeletionIsAudited
  BY DEF IInv, TableInv
<1>2. QED
  BY <1>1, InductiveInvariant, PTL

(* What an answered delete request told its user is in the table for good. *)
THEOREM AnsweredDeletesStay == Spec => []AnsweredDeleteIsRecorded
<1>1. IInv => AnsweredDeleteIsRecorded
  BY DEF IInv, TableInv
<1>2. QED
  BY <1>1, InductiveInvariant, PTL

(* Without a fault a visit fails only where another writer disturbed it,   *)
(* or where it saw two resources of one key that no row had yet.           *)
THEOREM VisitsLoseRacesOrTwins == Spec => []LostToARaceOrTwins
<1>1. IInv => LostToARaceOrTwins
  BY DEF IInv, ViewInv
<1>2. QED
  BY <1>1, InductiveInvariant, PTL

(* An undisturbed visit that missed nothing makes the inventory right, and *)
(* it stays right until the next change.                                   *)
THEOREM UndisturbedVisitsAreExact == Spec => []UndisturbedSyncIsExact
<1>1. IInv => UndisturbedSyncIsExact
  BY DEF IInv, ViewInv
<1>2. QED
  BY <1>1, InductiveInvariant, PTL

-----------------------------------------------------------------------------
(***************************************************************************)
(* The twelve services, from the request to the row                        *)
(***************************************************************************)

(* Requests and jobs, with what a runner keeps to itself kept: what runs   *)
(* was accepted, and only what was refused says so.                        *)
IsSpec(s) == DOMAIN s = {"given", "bad", "unknown", "region"}
IsJob(t) == DOMAIN t = {"service", "name", "spec", "stored", "shown",
                        "status", "code", "refused"}

JobInOrder(t) ==
    /\ IsJob(t) /\ IsSpec(t.spec) /\ t.spec.region \in Regions
    /\ t.service \in line /\ t.name \in ServiceNames \union {Unfit}
    /\ t.status \in {"queued", "failed", "success"}
    /\ Runner[t.service].sensitive \intersect (t.stored.given \union t.shown)
          = {}
    /\ t.code = "VALIDATION_ERROR" => t.refused = TRUE
    /\ t.status = "queued" => Derives(t.service, t.name, t.spec)

(* A resource of a service that is followed; a machine has its zone, a     *)
(* volume is EC2's.                                                        *)
ResourceFits(r) ==
    /\ r.service \in line
    /\ r.service = "compute_engine" => r.place # Nothing
    /\ r.volume => r.service = "ec2"

(* A row bears the key of its resource, and unless a job took it over the  *)
(* place where that resource is.                                           *)
IsRow(w) == DOMAIN w = {"service", "type", "external", "region",
                        "stale", "deleted", "of", "kept"}
RowFits(w) ==
    /\ IsRow(w) /\ ResourceFits(w.of)
    /\ RowKey(w) = RowKey(Discovered(w.of))
    /\ w.type = "EBS Volume" => w.service = "ec2"
    /\ w.kept = FALSE => w.region = w.of.place
    /\ w.kept \in BOOLEAN

(* Of one key there is one row.                                            *)
RowsFit(all) ==
    /\ \A w \in all : RowFits(w)
    /\ \A w, x \in all : RowKey(w) = RowKey(x) => w = x

LineInv ==
    /\ line \in Lines /\ foreign \in 0 .. MaxForeign
    /\ \E T : jobs \in Seq(T)
    /\ \A j \in DOMAIN jobs : JobInOrder(jobs[j])
    /\ \A r \in deployed : ResourceFits(r)
    /\ RowsFit(resourceRows)

(* What the twelve runners have in common: they blot out of an error       *)
(* message what they declare sensitive, and lack no field when a           *)
(* credential is incomplete.                                               *)
IsRunner(k) == {"provider", "sensitive", "hides", "lacks"} \subseteq DOMAIN k
KeepsSecrets(k) ==
    k.sensitive \subseteq k.hides /\ k.lacks # "VALIDATION_ERROR"

LEMMA AwsRunners ==
  \A k \in {Ec2, S3, CloudFront, Rds} : KeepsSecrets(k) /\ k.provider = "aws"
<1>1. /\ IsRunner(Ec2) /\ Ec2.provider = "aws"
      /\ Ec2.sensitive = {}
      /\ Ec2.hides = {} /\ Ec2.lacks = AwsLacks
  BY DEF Ec2, IsRunner
<1>2. /\ IsRunner(S3) /\ S3.provider = "aws"
      /\ S3.sensitive = {}
      /\ S3.hides = {} /\ S3.lacks = AwsLacks
  BY <1>1 DEF S3, IsRunner
<1>3. /\ IsRunner(CloudFront) /\ CloudFront.provider = "aws"
      /\ CloudFront.sensitive = {}
      /\ CloudFront.hides = {} /\ CloudFront.lacks = AwsLacks
  BY <1>2 DEF CloudFront, IsRunner
<1>4. /\ IsRunner(Rds) /\ Rds.provider = "aws"
      /\ Rds.sensitive = {"master_password"}
      /\ Rds.hides = {"master_password"} /\ Rds.lacks = AwsLacks
  BY <1>2 DEF Rds, IsRunner
<1>5. QED
  BY LineAssumption, <1>1, <1>2, <1>3, <1>4
  DEF KeepsSecrets, LineAssumption, AwsLacks

LEMMA AzureRunners ==
  \A k \in {AzureVm, StorageAccount, SqlDatabase, AzureCdn} :
      KeepsSecrets(k) /\ k.provider = "azure"
<1>1. /\ IsRunner(AzureVm) /\ AzureVm.provider = "azure"
      /\ AzureVm.sensitive = {"admin_password"}
      /\ AzureVm.hides = AzureSecrets \union {"admin_password"}
      /\ AzureVm.lacks = "PROVIDER_AUTHENTICATION_FAILED"
  BY DEF AzureVm, IsRunner
<1>2. /\ IsRunner(StorageAccount) /\ StorageAccount.provider = "azure"
      /\ StorageAccount.sensitive = {}
      /\ StorageAccount.hides = AzureSecrets /\ StorageAccount.lacks = AwsLacks
  BY <1>1 DEF StorageAccount, IsRunner
<1>3. /\ IsRunner(SqlDatabase) /\ SqlDatabase.provider = "azure"
      /\ SqlDatabase.sensitive = {"master_password"}
      /\ SqlDatabase.hides = AzureSecrets \union {"master_password"}
      /\ SqlDatabase.lacks = AwsLacks
  BY <1>2 DEF SqlDatabase, IsRunner
<1>4. /\ IsRunner(AzureCdn) /\ AzureCdn.provider = "azure"
      /\ AzureCdn.sensitive = {}
      /\ AzureCdn.hides = AzureSecrets /\ AzureCdn.lacks = AwsLacks
  BY <1>2 DEF AzureCdn, IsRunner
<1>5. QED
  BY LineAssumption, <1>1, <1>2, <1>3, <1>4
  DEF KeepsSecrets, LineAssumption, AwsLacks

LEMMA GoogleRunners ==
  \A k \in {ComputeEngine, CloudSql, CloudStorage, CloudCdn} :
      KeepsSecrets(k) /\ k.provider = "gcp"
<1>1. /\ IsRunner(ComputeEngine) /\ ComputeEngine.provider = "gcp"
      /\ ComputeEngine.sensitive = {}
      /\ ComputeEngine.hides = {} /\ ComputeEngine.lacks = Nothing
  BY DEF ComputeEngine, IsRunner
<1>2. /\ IsRunner(CloudSql) /\ CloudSql.provider = "gcp"
      /\ CloudSql.sensitive = {"master_password"}
      /\ CloudSql.hides = {"master_password"} /\ CloudSql.lacks = Nothing
  BY <1>1 DEF CloudSql, IsRunner
<1>3. /\ IsRunner(CloudStorage) /\ CloudStorage.provider = "gcp"
      /\ CloudStorage.sensitive = {}
      /\ CloudStorage.hides = {} /\ CloudStorage.lacks = Nothing
  BY <1>1 DEF CloudStorage, IsRunner
<1>4. /\ IsRunner(CloudCdn) /\ CloudCdn.provider = "gcp"
      /\ CloudCdn.sensitive = {}
      /\ CloudCdn.hides = {} /\ CloudCdn.lacks = Nothing
  BY <1>1 DEF CloudCdn, IsRunner
<1>5. QED
  BY LineAssumption, <1>1, <1>2, <1>3, <1>4
  DEF KeepsSecrets, LineAssumption, AwsLacks

LEMMA RunnersKeepSecrets ==
  ASSUME NEW service \in ServiceCodes
  PROVE  KeepsSecrets(Runner[service])
BY AwsRunners, AzureRunners, GoogleRunners DEF ServiceCodes, Runner

AwsServices == {"ec2", "s3", "cloudfront", "rds"}
AzureServices == {"vm", "storage_account", "sql_database", "cdn"}
GoogleServices ==
    {"compute_engine", "cloud_sql", "cloud_storage", "cloud_cdn"}
LEMMA Providers ==
  /\ ServiceCodes = AwsServices \union AzureServices \union GoogleServices
  /\ \A s \in AwsServices : Runner[s].provider = "aws"
  /\ \A s \in AzureServices : Runner[s].provider = "azure"
  /\ \A s \in GoogleServices : Runner[s].provider = "gcp"
BY AwsRunners, AzureRunners, GoogleRunners
   DEF ServiceCodes, Runner, AwsServices, AzureServices, GoogleServices

(* What a request may ask.                                                 *)
LEMMA RequestsAreSpecs ==
  ASSUME NEW service, NEW request \in RequestsFor(service)
  PROVE  /\ request[1] \in ServiceNames \union {Unfit}
         /\ IsSpec(request[2]) /\ request[2].region \in Regions
<1> DEFINE whole == Whole(service)
<1>1. IsSpec(whole) /\ whole.region \in Regions
  BY LineAssumption DEF Whole, IsSpec, LineAssumption
<1>2. ASSUME NEW spec \in Fine(service)
      PROVE  IsSpec(spec) /\ spec.region \in Regions
  <2>1. PICK choice \in PlacesFor(service) \X OwnOnes :
          spec = [whole EXCEPT !.region = choice[1],
                               !.given = @ \ choice[2]]
    BY DEF Fine
  <2>2. choice[1] \in Regions
    BY <1>1, <2>1 DEF PlacesFor
  <2> HIDE DEF whole
  <2>3. QED
    BY <1>1, <2>1, <2>2 DEF IsSpec
<1>3. ASSUME NEW spec \in Odd(service)
      PROVE  IsSpec(spec) /\ spec.region \in Regions
  <2>1. \/ \E f : spec = [whole EXCEPT !.given = @ \ {f}]
        \/ \E f : spec = [whole EXCEPT !.bad = {f}]
        \/ spec = [whole EXCEPT !.unknown = TRUE]
    BY DEF Odd
  <2> HIDE DEF whole
  <2>2. QED
    BY <1>1, <2>1 DEF IsSpec
<1>4. CASE request \in ServiceNames \X Fine(service)
  BY <1>2, <1>4
<1>5. CASE request \in {<<CHOOSE n \in ServiceNames : TRUE, spec>> :
                          spec \in Odd(service)}
  <2>1. (CHOOSE n \in ServiceNames : TRUE) \in ServiceNames
    BY LineAssumption DEF LineAssumption
  <2>2. QED
    BY <1>3, <1>5, <2>1
<1>6. CASE request = <<Unfit, whole>>
  BY <1>1, <1>6
<1>7. QED
  BY <1>4, <1>5, <1>6 DEF RequestsFor

(* One more job, or another state of a job.                                *)
LEMMA JobAdded ==
  ASSUME LineInv, NEW t, JobInOrder(t), jobs' = Append(jobs, t), line' = line
  PROVE  /\ \E T : jobs' \in Seq(T)
         /\ \A j \in DOMAIN jobs' : JobInOrder(jobs[j])'
<1>1. PICK T : jobs \in Seq(T)
  BY DEF LineInv
<1> DEFINE U == T \union {t}
<1>2. jobs \in Seq(U) /\ t \in U
  BY <1>1
<1>3. /\ jobs' \in Seq(U)
      /\ \A j \in DOMAIN jobs' : \/ j \in DOMAIN jobs /\ jobs'[j] = jobs[j]
                                 \/ jobs'[j] = t
  BY <1>2
<1>4. \A j \in DOMAIN jobs' : JobInOrder(jobs[j])'
  BY <1>3 DEF LineInv, JobInOrder
<1>5. QED
  BY <1>3, <1>4

LEMMA JobChanged ==
  ASSUME LineInv, NEW j \in DOMAIN jobs, NEW t, JobInOrder(t),
         jobs' = [jobs EXCEPT ![j] = t], line' = line
  PROVE  /\ \E T : jobs' \in Seq(T)
         /\ \A i \in DOMAIN jobs' : JobInOrder(jobs[i])'
<1>1. PICK T : jobs \in Seq(T)
  BY DEF LineInv
<1> DEFINE U == T \union {t}
<1>2. jobs \in Seq(U) /\ t \in U
  BY <1>1
<1>3. /\ jobs' \in Seq(U) /\ DOMAIN jobs' = DOMAIN jobs
      /\ \A i \in DOMAIN jobs' : jobs'[i] = IF i = j THEN t ELSE jobs[i]
  BY <1>2
<1>4. \A i \in DOMAIN jobs' : JobInOrder(jobs[i])'
  BY <1>3 DEF LineInv, JobInOrder
<1>5. QED
  BY <1>3, <1>4

(* What a job stores has lost its passwords.                               *)
LEMMA StoredWithoutSecrets ==
  ASSUME NEW service, NEW spec, IsSpec(spec)
  PROVE  StoredSpec(service, spec).given \intersect Runner[service].sensitive
            = {}
BY DEF StoredSpec, IsSpec

(* Everything but the jobs stays, so does what is said of it.              *)
LEMMA OnlyJobsGoOn ==
  ASSUME LineInv, UNCHANGED <<line, deployed, resourceRows, foreign>>,
         \E T : jobs' \in Seq(T),
         \A j \in DOMAIN jobs' : JobInOrder(jobs[j])'
  PROVE  LineInv'
<1>1. \A r \in deployed' : ResourceFits(r)'
  BY DEF LineInv, ResourceFits
<1>2. RowsFit(resourceRows)'
  BY DEF LineInv, RowsFit, RowFits, ResourceFits
<1>3. QED
  BY <1>1, <1>2 DEF LineInv

LEMMA SubmitKeepsLine ==
  ASSUME LineInv, Submit
  PROVE  LineInv'
<1>1. PICK service \in line :
        \E request \in RequestsFor(service) :
            LET fine == Derives(service, request[1], request[2])
            IN  jobs' = Append(jobs,
                  [service |-> service, name |-> request[1],
                   spec |-> request[2],
                   stored |-> StoredSpec(service, request[2]), shown |-> {},
                   status |-> IF fine THEN "queued" ELSE "failed",
                   code |-> IF fine THEN Nothing ELSE "VALIDATION_ERROR",
                   refused |-> ~fine])
  BY DEF Submit
<1>2. PICK request \in RequestsFor(service) :
        LET fine == Derives(service, request[1], request[2])
        IN  jobs' = Append(jobs,
              [service |-> service, name |-> request[1], spec |-> request[2],
               stored |-> StoredSpec(service, request[2]), shown |-> {},
               status |-> IF fine THEN "queued" ELSE "failed",
               code |-> IF fine THEN Nothing ELSE "VALIDATION_ERROR",
               refused |-> ~fine])
  BY <1>1
<1> DEFINE fine == Derives(service, request[1], request[2])
           stored == StoredSpec(service, request[2])
           t == [service |-> service, name |-> request[1],
                 spec |-> request[2], stored |-> stored, shown |-> {},
                 status |-> IF fine THEN "queued" ELSE "failed",
                 code |-> IF fine THEN Nothing ELSE "VALIDATION_ERROR",
                 refused |-> ~fine]
<1>3. jobs' = Append(jobs, t)
  BY <1>2
<1>4. /\ request[1] \in ServiceNames \union {Unfit}
      /\ IsSpec(request[2]) /\ request[2].region \in Regions
  BY RequestsAreSpecs
<1>5. stored.given \intersect Runner[service].sensitive = {}
  BY <1>4, StoredWithoutSecrets
<1>6. Nothing # "VALIDATION_ERROR"
  BY LineAssumption DEF LineAssumption
<1> HIDE DEF stored
<1>7. JobInOrder(t)
  <2>1. /\ IsJob(t) /\ t.service = service /\ t.name = request[1]
        /\ t.spec = request[2] /\ t.stored = stored /\ t.shown = {}
    BY DEF IsJob
  <2>2. CASE fine
    <3>1. t.status = "queued" /\ t.code = Nothing
      BY <2>2
    <3> HIDE DEF t
    <3>2. QED
      BY <1>4, <1>5, <1>6, <2>1, <2>2, <3>1 DEF JobInOrder
  <2>3. CASE ~fine
    <3>1. t.status = "failed" /\ t.refused = TRUE
      BY <2>3
    <3> HIDE DEF t
    <3>2. QED
      BY <1>4, <1>5, <2>1, <3>1 DEF JobInOrder
  <2>4. QED
    BY <2>2, <2>3
<1> HIDE DEF t
<1>8. UNCHANGED <<line, deployed, resourceRows, foreign>>
  BY DEF Submit
<1>9. QED
  BY <1>3, <1>7, <1>8, JobAdded, OnlyJobsGoOn

(* The end of a job: what is shown has no secret in it.                    *)
LEMMA JobEnds ==
  ASSUME LineInv, line' = line, NEW j \in Queued,
         NEW status \in {"failed", "success"}, NEW code,
         code # "VALIDATION_ERROR", NEW message,
         message \intersect Runner[jobs[j].service].sensitive = {},
         EndJob(j, status, code, message)
  PROVE  /\ \E T : jobs' \in Seq(T)
         /\ \A i \in DOMAIN jobs' : JobInOrder(jobs[i])'
<1> DEFINE shown == message \union FileOf(jobs[j].service, jobs[j].spec)
           t == [jobs[j] EXCEPT !.status = status, !.code = code,
                                !.shown = shown]
<1>1. j \in DOMAIN jobs /\ JobInOrder(jobs[j])
  BY DEF Queued, LineInv
<1>2. jobs' = [jobs EXCEPT ![j] = t]
  BY <1>1 DEF EndJob
<1>3. shown \intersect Runner[jobs[j].service].sensitive = {}
  BY DEF FileOf
<1> HIDE DEF shown
<1>4. /\ IsJob(t) /\ t.service = jobs[j].service /\ t.name = jobs[j].name
      /\ t.spec = jobs[j].spec /\ t.stored = jobs[j].stored
      /\ t.shown = shown /\ t.status = status /\ t.code = code
  BY <1>1 DEF JobInOrder, IsJob
<1> HIDE DEF t
<1>5. JobInOrder(t)
  BY <1>1, <1>3, <1>4 DEF JobInOrder
<1>6. QED
  BY <1>1, <1>2, <1>5, JobChanged

LEMMA RefusalKeepsLine ==
  ASSUME LineInv, NEW j \in Queued, RefusedBeforeTerraform(j)
  PROVE  LineInv'
<1>1. j \in DOMAIN jobs /\ JobInOrder(jobs[j]) /\ jobs[j].status = "queued"
  BY DEF Queued, LineInv
<1>2. jobs[j].service \in ServiceCodes
  BY <1>1, LineAssumption DEF LineInv, JobInOrder, LineAssumption
<1> DEFINE code == Runner[jobs[j].service].lacks
           t == [jobs[j] EXCEPT !.status = "failed", !.code = code]
<1>3. code # "VALIDATION_ERROR"
  BY <1>2, RunnersKeepSecrets DEF KeepsSecrets
<1>4. jobs' = [jobs EXCEPT ![j].status = "failed", ![j].code = code]
  BY <1>1 DEF RefusedBeforeTerraform, JobInOrder
<1> HIDE DEF code
<1>5. jobs' = [jobs EXCEPT ![j] = t]
  BY <1>1, <1>4
<1>6. /\ IsJob(t) /\ t.service = jobs[j].service /\ t.name = jobs[j].name
      /\ t.spec = jobs[j].spec /\ t.stored = jobs[j].stored
      /\ t.shown = jobs[j].shown /\ t.status = "failed" /\ t.code = code
  BY <1>1 DEF JobInOrder, IsJob
<1> HIDE DEF t
<1>7. JobInOrder(t)
  BY <1>1, <1>3, <1>6 DEF JobInOrder
<1>8. UNCHANGED <<line, deployed, resourceRows, foreign>>
  BY DEF RefusedBeforeTerraform
<1>9. QED
  BY <1>1, <1>5, <1>7, <1>8, JobChanged, OnlyJobsGoOn

(***************************************************************************)
(* Resources and their rows                                                *)
(***************************************************************************)

(* What is built or made in the console is of a service that is followed.  *)
LEMMA ResourceMade ==
  ASSUME NEW service \in line, NEW name, NEW region, NEW maker, NEW group,
         region \in Regions \/ service # "compute_engine"
  PROVE  LET r == Resource(service, name, region, maker, group)
         IN  /\ ResourceFits(r) /\ r.place = PlaceOf(service, region)
             /\ r.service = service
<1> DEFINE r == Resource(service, name, region, maker, group)
<1>1. /\ r.service = service /\ r.place = PlaceOf(service, region)
      /\ r.volume = FALSE
  BY DEF Resource
<1>2. service = "compute_engine" => PlaceOf(service, region) # Nothing
  BY LineAssumption DEF PlaceOf, Everywhere, LineAssumption
<1>3. ResourceFits(r)
  BY <1>1, <1>2 DEF ResourceFits
<1>4. QED
  BY <1>1, <1>3

(* The key a sync finds a resource by: the id or the name.                 *)
LEMMA KeyOfResource ==
  ASSUME NEW r, r.service \in ServiceCodes
  PROVE  RowKey(Discovered(r)) =
           <<r.service, IF r.service \in {"ec2", "cloudfront", "vm"}
                        THEN r.id ELSE r.name>>
<1>1. CASE r.service \in AwsServices
  <2>1. Discovered(r) = DiscoveredAws(r)
    BY <1>1, Providers DEF Discovered
  <2>2. RowKey(DiscoveredAws(r)) =
          <<r.service, IF r.service \in {"ec2", "cloudfront", "vm"}
                       THEN r.id ELSE r.name>>
    BY <1>1 DEF DiscoveredAws, ListedAs, RowKey, AwsServices
  <2>3. QED
    BY <2>1, <2>2
<1>2. CASE r.service \in AzureServices
  <2>1. Discovered(r) = DiscoveredAzure(r)
    BY <1>2, Providers DEF Discovered
  <2>2. RowKey(DiscoveredAzure(r)) =
          <<r.service, IF r.service \in {"ec2", "cloudfront", "vm"}
                       THEN r.id ELSE r.name>>
    BY <1>2 DEF DiscoveredAzure, ListedAs, RowKey, AzureServices
  <2>3. QED
    BY <2>1, <2>2
<1>3. CASE r.service \in GoogleServices
  <2>1. Discovered(r) = DiscoveredGcp(r)
    BY <1>3, Providers DEF Discovered
  <2>2. RowKey(DiscoveredGcp(r)) =
          <<r.service, IF r.service \in {"ec2", "cloudfront", "vm"}
                       THEN r.id ELSE r.name>>
    BY <1>3 DEF DiscoveredGcp, ListedAs, RowKey, GoogleServices
  <2>3. QED
    BY <2>1, <2>2
<1>4. QED
  BY <1>1, <1>2, <1>3, Providers

(* A job and a sync take a resource for the same.                          *)
LEMMA KeysAgree ==
  ASSUME NEW r, r.service \in ServiceCodes, NEW region
  PROVE  RowKey(Attrs(r, region)) = RowKey(Discovered(r))
<1>1. RowKey(Attrs(r, region)) =
        <<r.service, IF r.service \in {"ec2", "cloudfront", "vm"}
                     THEN r.id ELSE r.name>>
  BY DEF RowKey, Attrs
<1>2. QED
  BY <1>1, KeyOfResource

LEMMA DiscoveredSays ==
  ASSUME NEW r, r.service \in ServiceCodes
  PROVE  /\ Discovered(r).service = r.service
         /\ Discovered(r).region = r.place
         /\ ~r.volume => Discovered(r).type = r.service
<1>1. PICK external : Discovered(r) = ListedAs(r, external)
  <2>1. Discovered(r) \in {DiscoveredAws(r), DiscoveredGcp(r),
                           DiscoveredAzure(r)}
    BY Providers DEF Discovered
  <2>2. QED
    BY <2>1 DEF DiscoveredAws, DiscoveredGcp, DiscoveredAzure
<1>2. /\ ListedAs(r, external).service = r.service
      /\ ListedAs(r, external).region = r.place
  BY DEF ListedAs
<1>3. ~r.volume => ListedAs(r, external).type = r.service
  BY DEF ListedAs
<1>4. QED
  BY <1>1, <1>2, <1>3

(* A row made of what a job or a listing says of a resource.               *)
LEMMA RowMade ==
  ASSUME NEW r, ResourceFits(r), NEW a,
         RowKey(a) = RowKey(Discovered(r)), a.region = r.place,
         a.type = "EBS Volume" => a.service = "ec2"
  PROVE  /\ RowFits(FreshRow(a, r))
         /\ RowKey(FreshRow(a, r)) = RowKey(Discovered(r))
<1> DEFINE w == FreshRow(a, r)
<1>1. /\ IsRow(w) /\ w.service = a.service /\ w.external = a.external
      /\ w.type = a.type /\ w.region = r.place /\ w.of = r
      /\ w.kept = FALSE
  BY DEF FreshRow, IsRow
<1>2. RowKey(w) = RowKey(a)
  BY <1>1 DEF RowKey
<1> HIDE DEF w
<1>3. RowFits(w)
  BY <1>1, <1>2 DEF RowFits
<1>4. QED
  BY <1>2, <1>3 DEF w

(* A row written by a job.                                                 *)
LEMMA RowsWithBuilt ==
  ASSUME line \in Lines, NEW all, RowsFit(all), NEW r, ResourceFits(r),
         NEW region, r.place = PlaceOf(r.service, region)
  PROVE  RowsFit(WithBuilt(all, r, region))
<1> DEFINE attrs == Attrs(r, region)
           known == {row \in all : RowKey(row) = RowKey(attrs)}
           taken == {[row EXCEPT !.stale = FALSE, !.of = r, !.kept = TRUE] :
                       row \in known}
<1>1. r.service \in ServiceCodes
  BY LineAssumption DEF ResourceFits, LineAssumption
<1>2. RowKey(attrs) = RowKey(Discovered(r))
  BY <1>1, KeysAgree
<1>3. /\ attrs.service = r.service /\ attrs.type = r.service
      /\ attrs.region = r.place
  BY DEF Attrs, PlaceOf
<1>4. WithBuilt(all, r, region) =
        (all \ known) \union IF known = {} THEN {FreshRow(attrs, r)} ELSE taken
  BY DEF WithBuilt
<1>5. r.service # "EBS Volume"
  BY <1>1, Providers DEF AwsServices, AzureServices, GoogleServices
<1> HIDE DEF attrs
<1>6. CASE known = {}
  <2>1. /\ RowFits(FreshRow(attrs, r))
        /\ RowKey(FreshRow(attrs, r)) = RowKey(attrs)
    BY <1>2, <1>3, <1>5, RowMade
  <2>2. WithBuilt(all, r, region) = all \union {FreshRow(attrs, r)}
    BY <1>4, <1>6
  <2>3. QED
    BY <1>6, <2>1, <2>2 DEF RowsFit
<1>7. CASE known # {}
  <2>1. ASSUME NEW w \in taken
        PROVE  RowFits(w) /\ RowKey(w) = RowKey(attrs)
    <3>1. PICK row \in known :
            w = [row EXCEPT !.stale = FALSE, !.of = r, !.kept = TRUE]
      BY <2>1
    <3>2. RowFits(row) /\ RowKey(row) = RowKey(attrs)
      BY DEF RowsFit
    <3>3. /\ IsRow(w) /\ w.service = row.service /\ w.type = row.type
          /\ w.external = row.external /\ w.of = r /\ w.kept = TRUE
      BY <3>1, <3>2 DEF RowFits, IsRow
    <3>4. RowKey(w) = RowKey(row)
      BY <3>3 DEF RowKey
    <3>5. QED
      BY <1>2, <3>2, <3>3, <3>4 DEF RowFits
  <2>2. \A w, x \in taken : w = x
    BY DEF RowsFit
  <2>3. WithBuilt(all, r, region) = (all \ known) \union taken
    BY <1>4, <1>7
  <2> HIDE DEF taken
  <2>4. QED
    BY <2>1, <2>2, <2>3 DEF RowsFit
<1>8. QED
  BY <1>6, <1>7

(* A job that is on its way, and what it builds.                           *)
LEMMA JobBuilds ==
  ASSUME LineInv, NEW j \in Queued, NEW id
  PROVE  LET job == jobs[j]
             r == Built(job, id)
         IN  /\ job.service \in line /\ job.service \in ServiceCodes
             /\ ResourceFits(r)
             /\ r.place = PlaceOf(r.service, job.spec.region)
<1>1. JobInOrder(jobs[j]) /\ line \in Lines
  BY DEF Queued, LineInv
<1>2. /\ jobs[j].service \in line /\ jobs[j].service \in ServiceCodes
      /\ jobs[j].spec.region \in Regions
  BY <1>1, LineAssumption DEF JobInOrder, LineAssumption
<1>3. QED
  BY <1>2, ResourceMade DEF Built

LEMMA BucketMade ==
  ASSUME LineInv, NEW j \in Queued, MakesBucket(jobs[j]), NEW id
  PROVE  /\ ResourceFits(Bucket(id))
         /\ Bucket(id).place = PlaceOf(Bucket(id).service, "asia")
<1>1. JobInOrder(jobs[j]) /\ line \in Lines
  BY DEF Queued, LineInv
<1>2. "cloud_storage" \in line
  BY <1>1, LineAssumption DEF JobInOrder, LineAssumption, MakesBucket
<1>3. ASSUME NEW name, NEW maker, NEW group
      PROVE  LET b == Resource("cloud_storage", name, "asia", maker, group)
             IN  ResourceFits(b) /\ b.place = PlaceOf(b.service, "asia")
  BY <1>2, ResourceMade
<1>4. QED
  BY <1>3 DEF Bucket

LEMMA TerraformFailsKeepsLine ==
  ASSUME LineInv, NEW j \in Queued, TerraformFails(j)
  PROVE  LineInv'
<1> DEFINE job == jobs[j]
           r == Built(job, JobIds[j])
           message == Blotted(job.service, job.spec.given \union AzureSecrets)
<1>1. /\ UNCHANGED <<line, resourceRows, foreign>>
      /\ EndJob(j, "failed", "TERRAFORM_ERROR", message)
      /\ deployed' \subseteq deployed \union {r}
  BY DEF TerraformFails
<1>2. job.service \in ServiceCodes /\ ResourceFits(r)
  BY JobBuilds
<1>3. message \intersect Runner[job.service].sensitive = {}
  BY <1>2, RunnersKeepSecrets DEF KeepsSecrets, Blotted
<1> HIDE DEF message, r
<1>4. /\ \E T : jobs' \in Seq(T)
      /\ \A i \in DOMAIN jobs' : JobInOrder(jobs[i])'
  BY <1>1, <1>3, JobEnds
<1>5. \A q \in deployed' : ResourceFits(q)'
  BY <1>1, <1>2 DEF LineInv, ResourceFits
<1>6. RowsFit(resourceRows)'
  BY <1>1 DEF LineInv, RowsFit, RowFits, ResourceFits
<1>7. QED
  BY <1>1, <1>4, <1>5, <1>6 DEF LineInv

LEMMA TerraformBuildsKeepsLine ==
  ASSUME LineInv, NEW j \in Queued, TerraformBuilds(j)
  PROVE  LineInv'
<1> DEFINE job == jobs[j]
           r == Built(job, JobIds[j])
           b == Bucket(JobIds[j])
           withR == WithBuilt(resourceRows, r, job.spec.region)
<1>1. /\ UNCHANGED <<line, foreign>> /\ EndJob(j, "success", Nothing, {})
      /\ deployed' \subseteq deployed \union {r}
            \union IF MakesBucket(job) THEN {b} ELSE {}
      /\ resourceRows' \in {resourceRows,
            IF MakesBucket(job) THEN WithBuilt(withR, b, "asia") ELSE withR}
  BY DEF TerraformBuilds
<1>2. /\ ResourceFits(r) /\ r.place = PlaceOf(r.service, job.spec.region)
  BY JobBuilds
<1>3. MakesBucket(job) =>
        ResourceFits(b) /\ b.place = PlaceOf(b.service, "asia")
  BY BucketMade
<1>4. /\ \E T : jobs' \in Seq(T)
      /\ \A i \in DOMAIN jobs' : JobInOrder(jobs[i])'
  BY <1>1, JobEnds, LineAssumption DEF LineAssumption
<1> HIDE DEF r, b
<1>5. \A q \in deployed' : ResourceFits(q)'
  BY <1>1, <1>2, <1>3 DEF LineInv, ResourceFits
<1>6. line \in Lines /\ RowsFit(resourceRows)
  BY DEF LineInv
<1>7. RowsFit(withR)
  BY <1>2, <1>6, RowsWithBuilt
<1> HIDE DEF withR
<1>8. MakesBucket(job) => RowsFit(WithBuilt(withR, b, "asia"))
  BY <1>3, <1>6, <1>7, RowsWithBuilt
<1>9. \E all : RowsFit(all) /\ resourceRows' = all
  BY <1>1, <1>6, <1>7, <1>8
<1>10. RowsFit(resourceRows)'
  BY <1>1, <1>9 DEF RowsFit, RowFits, ResourceFits
<1>11. QED
  BY <1>1, <1>4, <1>5, <1>6, <1>10 DEF LineInv

(* A sync: what is listed gets its row, and the last listed stands in it.  *)
LEMMA SyncKeepsLine ==
  ASSUME LineInv, SyncLine
  PROVE  LineInv'
<1>1. PICK unlisted \in SUBSET line :
        LET seen == {r \in deployed : r.service \notin unlisted}
            keys == {RowKey(Discovered(r)) : r \in seen}
        IN  \E last \in {f \in [keys -> seen] :
                           \A k \in keys : RowKey(Discovered(f[k])) = k} :
              resourceRows' =
                {IF RowKey(row) \in keys
                 THEN [row EXCEPT
                         !.region = Discovered(last[RowKey(row)]).region,
                         !.stale = FALSE, !.of = last[RowKey(row)],
                         !.kept = FALSE]
                 ELSE [row EXCEPT !.stale = @ \/ ~row.deleted] :
                   row \in resourceRows}
                \union {FreshRow(Discovered(last[k]), last[k]) :
                          k \in keys \ {RowKey(row) : row \in resourceRows}}
  BY DEF SyncLine
<1> DEFINE seen == {r \in deployed : r.service \notin unlisted}
           keys == {RowKey(Discovered(r)) : r \in seen}
<1>2. PICK last \in [keys -> seen] :
        /\ \A k \in keys : RowKey(Discovered(last[k])) = k
        /\ resourceRows' =
             {IF RowKey(row) \in keys
              THEN [row EXCEPT
                      !.region = Discovered(last[RowKey(row)]).region,
                      !.stale = FALSE, !.of = last[RowKey(row)],
                      !.kept = FALSE]
              ELSE [row EXCEPT !.stale = @ \/ ~row.deleted] :
                row \in resourceRows}
             \union {FreshRow(Discovered(last[k]), last[k]) :
                       k \in keys \ {RowKey(row) : row \in resourceRows}}
  BY <1>1
<1> DEFINE Found(row) == [row EXCEPT
                            !.region = Discovered(last[RowKey(row)]).region,
                            !.stale = FALSE, !.of = last[RowKey(row)],
                            !.kept = FALSE]
           Unseen(row) == [row EXCEPT !.stale = @ \/ ~row.deleted]
           After(row) == IF RowKey(row) \in keys THEN Found(row)
                         ELSE Unseen(row)
           Fresh(k) == FreshRow(Discovered(last[k]), last[k])
<1>3. resourceRows' =
        {After(row) : row \in resourceRows}
        \union {Fresh(k) : k \in keys \ {RowKey(row) : row \in resourceRows}}
  BY <1>2
<1>4. /\ line \in Lines /\ RowsFit(resourceRows)
      /\ \A r \in deployed : ResourceFits(r)
  BY DEF LineInv
<1>5. seen \subseteq deployed
  OBVIOUS
<1> HIDE DEF seen
<1>6. ASSUME NEW k \in keys
      PROVE  /\ ResourceFits(last[k]) /\ RowKey(Discovered(last[k])) = k
             /\ last[k].service \in ServiceCodes
  <2>1. last[k] \in deployed /\ RowKey(Discovered(last[k])) = k
    BY <1>2, <1>5
  <2>2. ResourceFits(last[k])
    BY <1>4, <2>1
  <2>3. QED
    BY <1>4, <2>1, <2>2, LineAssumption DEF ResourceFits, LineAssumption
<1> HIDE DEF keys
<1>7. ASSUME NEW k \in keys
      PROVE  RowFits(Fresh(k)) /\ RowKey(Fresh(k)) = k
  <2> DEFINE r == last[k]
             d == Discovered(r)
  <2>1. /\ ResourceFits(r) /\ RowKey(d) = k /\ r.service \in ServiceCodes
    BY <1>6
  <2>2. /\ d.service = r.service /\ d.region = r.place
        /\ ~r.volume => d.type = r.service
    BY <2>1, DiscoveredSays
  <2>3. d.type = "EBS Volume" => d.service = "ec2"
    <3>1. r.service # "EBS Volume"
      BY <2>1, Providers DEF AwsServices, AzureServices, GoogleServices
    <3>2. r.volume => r.service = "ec2"
      BY <2>1 DEF ResourceFits
    <3>3. QED
      BY <2>2, <3>1, <3>2
  <2> HIDE DEF r, d
  <2>4. RowFits(FreshRow(d, r)) /\ RowKey(FreshRow(d, r)) = k
    BY <2>1, <2>2, <2>3, RowMade DEF d
  <2>5. QED
    BY <2>4 DEF d, r
<1>8. ASSUME NEW row \in resourceRows
      PROVE  RowFits(After(row)) /\ RowKey(After(row)) = RowKey(row)
  <2>1. RowFits(row)
    BY <1>4 DEF RowsFit
  <2>2. CASE RowKey(row) \in keys
    <3> DEFINE r == last[RowKey(row)]
               w == Found(row)
    <3>1. ResourceFits(r) /\ RowKey(Discovered(r)) = RowKey(row)
      BY <1>6, <2>2
    <3>2. Discovered(r).region = r.place
      BY <1>6, <2>2, DiscoveredSays
    <3> HIDE DEF r
    <3>3. /\ IsRow(w) /\ w.service = row.service /\ w.type = row.type
          /\ w.external = row.external /\ w.kept = FALSE
      BY <2>1 DEF RowFits, IsRow
    <3>4. w.region = Discovered(r).region /\ w.of = r
      BY <2>1 DEF RowFits, IsRow, r
    <3>5. After(row) = w
      BY <2>2
    <3> HIDE DEF w, After, Found
    <3>6. RowKey(w) = RowKey(row)
      BY <3>3 DEF RowKey
    <3>7. RowFits(w)
      BY <2>1, <3>1, <3>2, <3>3, <3>4, <3>6 DEF RowFits
    <3>8. QED
      BY <3>5, <3>6, <3>7
  <2>3. CASE RowKey(row) \notin keys
    <3> DEFINE w == Unseen(row)
    <3>1. /\ IsRow(w) /\ w.service = row.service /\ w.type = row.type
          /\ w.external = row.external /\ w.kept = row.kept
          /\ w.region = row.region /\ w.of = row.of
      BY <2>1 DEF RowFits, IsRow
    <3>2. After(row) = w
      BY <2>3
    <3> HIDE DEF w, After, Unseen
    <3>3. RowKey(w) = RowKey(row)
      BY <3>1 DEF RowKey
    <3>4. RowFits(w)
      BY <2>1, <3>1, <3>3 DEF RowFits
    <3>5. QED
      BY <3>2, <3>3, <3>4
  <2>4. QED
    BY <2>2, <2>3
<1> HIDE DEF After, Fresh
<1>9. \A row, other \in resourceRows :
        RowKey(row) = RowKey(other) => row = other
  BY <1>4 DEF RowsFit
<1> DEFINE all == {After(row) : row \in resourceRows}
             \union {Fresh(k) :
                       k \in keys \ {RowKey(row) : row \in resourceRows}}
<1>10. RowsFit(all)
  <2>1. \A w \in all : RowFits(w)
    BY <1>7, <1>8
  <2>2. ASSUME NEW w \in all, NEW x \in all, RowKey(w) = RowKey(x)
        PROVE  w = x
    <3>1. \/ \E row \in resourceRows :
               w = After(row) /\ RowKey(w) = RowKey(row)
          \/ /\ w = Fresh(RowKey(w))
             /\ RowKey(w) \notin {RowKey(row) : row \in resourceRows}
      BY <1>7, <1>8
    <3>2. \/ \E row \in resourceRows :
               x = After(row) /\ RowKey(x) = RowKey(row)
          \/ /\ x = Fresh(RowKey(x))
             /\ RowKey(x) \notin {RowKey(row) : row \in resourceRows}
      BY <1>7, <1>8
    <3>3. QED
      BY <1>9, <2>2, <3>1, <3>2
  <2>3. QED
    BY <2>1, <2>2 DEF RowsFit
<1>11. resourceRows' = all
  BY <1>3
<1>12. UNCHANGED <<line, jobs, deployed, foreign>>
  BY DEF SyncLine
<1> HIDE DEF all
<1>13. RowsFit(resourceRows)'
  BY <1>10, <1>11, <1>12 DEF RowsFit, RowFits, ResourceFits
<1>14. QED
  BY <1>12, <1>13 DEF LineInv, JobInOrder, ResourceFits

(* An action leaves the key, the place and the resource of its row.        *)
LEMMA ActionKeepsLine ==
  ASSUME LineInv, NEW row, NEW action, ActOnRow(row, action)
  PROVE  LineInv'
<1> DEFINE w == [row EXCEPT !.deleted = TRUE]
           all == (resourceRows \ {row}) \union {w}
<1>1. /\ UNCHANGED <<line, jobs, foreign>> /\ row \in resourceRows
      /\ deployed' \subseteq deployed /\ resourceRows' = all
  BY DEF ActOnRow, VisibleRows
<1>2. RowsFit(resourceRows) /\ RowFits(row)
  BY <1>1 DEF LineInv, RowsFit
<1>3. /\ IsRow(w) /\ w.service = row.service /\ w.type = row.type
      /\ w.external = row.external /\ w.kept = row.kept
      /\ w.region = row.region /\ w.of = row.of
  BY <1>2 DEF RowFits, IsRow
<1> HIDE DEF w
<1>4. RowKey(w) = RowKey(row)
  BY <1>3 DEF RowKey
<1>5. RowFits(w)
  BY <1>2, <1>3, <1>4 DEF RowFits
<1>6. RowsFit(all)
  BY <1>1, <1>2, <1>4, <1>5 DEF RowsFit
<1> HIDE DEF all
<1>7. RowsFit(resourceRows)'
  BY <1>1, <1>6 DEF RowsFit, RowFits, ResourceFits
<1>8. QED
  BY <1>1, <1>7 DEF LineInv, JobInOrder, ResourceFits

(* Users of the console make and remove what they like.                    *)
LEMMA ConsoleKeepsLine ==
  ASSUME LineInv, Console
  PROVE  LineInv'
<1> DEFINE v == [Resource("ec2", "volume", "r1", "volume", "")
                   EXCEPT !.volume = TRUE]
<1>1. /\ UNCHANGED <<line, jobs, resourceRows>>
      /\ foreign < MaxForeign /\ foreign' = foreign + 1
  BY DEF Console
<1>2. ASSUME NEW r, ResourceFits(r), deployed' = deployed \union {r}
      PROVE  \A q \in deployed' : ResourceFits(q)'
  BY <1>1, <1>2 DEF LineInv, ResourceFits
<1>3. "ec2" \in line => ResourceFits(v)
  BY DEF ResourceFits, Resource
<1>4. ASSUME NEW service \in line, NEW name, NEW region \in Regions
      PROVE  ResourceFits(Resource(service, NameOf(service, name, JobIds[1]),
                                   region, "user", "group"))
  BY <1>4, ResourceMade
<1> HIDE DEF v
<1>5. \A q \in deployed' : ResourceFits(q)'
  <2>1. CASE \E r \in deployed : deployed' = deployed \ {r}
    BY <1>1, <2>1 DEF LineInv, ResourceFits
  <2>2. CASE "ec2" \in line /\ deployed' = deployed \union {v}
    BY <1>2, <1>3, <2>2
  <2>3. CASE \E service \in line, name \in ServiceNames, region \in Regions :
               deployed' = deployed \union
                 {Resource(service, NameOf(service, name, JobIds[1]), region,
                           "user", "group")}
    BY <1>2, <1>4, <2>3
  <2>4. QED
    BY <2>1, <2>2, <2>3 DEF Console, v
<1>6. foreign' \in 0 .. MaxForeign
  BY <1>1, LineAssumption DEF LineInv, LineAssumption
<1>7. RowsFit(resourceRows)'
  BY <1>1 DEF LineInv, RowsFit, RowFits, ResourceFits
<1>8. QED
  BY <1>1, <1>5, <1>6, <1>7 DEF LineInv, JobInOrder

LEMMA LineStarts == LineInit => LineInv
<1> SUFFICES ASSUME LineInit PROVE LineInv
  OBVIOUS
<1>1. jobs \in Seq({}) /\ DOMAIN jobs = {}
  BY DEF LineInit
<1>2. foreign \in 0 .. MaxForeign
  BY LineAssumption DEF LineInit, LineAssumption
<1>3. QED
  BY <1>1, <1>2 DEF LineInit, LineInv, RowsFit

LEMMA LineStep == LineInv /\ [LineNext]_lineVars => LineInv'
<1> SUFFICES ASSUME LineInv, [LineNext]_lineVars PROVE LineInv'
  OBVIOUS
<1>1. CASE Submit
  BY <1>1, SubmitKeepsLine
<1>2. CASE SyncLine
  BY <1>2, SyncKeepsLine
<1>3. CASE Console
  BY <1>3, ConsoleKeepsLine
<1>4. ASSUME NEW j \in Queued, RunJob(j) PROVE LineInv'
  BY <1>4, RefusalKeepsLine, TerraformFailsKeepsLine, TerraformBuildsKeepsLine
     DEF RunJob
<1>5. ASSUME NEW row \in resourceRows,
             NEW action \in {"start", "stop", "delete"}, ActOnRow(row, action)
      PROVE  LineInv'
  BY <1>5, ActionKeepsLine
<1>6. CASE UNCHANGED lineVars
  <2>1. UNCHANGED <<line, deployed, resourceRows, foreign>> /\ jobs' = jobs
    BY <1>6 DEF lineVars
  <2>2. /\ \E T : jobs' \in Seq(T)
        /\ \A j \in DOMAIN jobs' : JobInOrder(jobs[j])'
    BY <2>1 DEF LineInv, JobInOrder
  <2>3. QED
    BY <2>1, <2>2, OnlyJobsGoOn
<1>7. QED
  BY <1>1, <1>2, <1>3, <1>4, <1>5, <1>6 DEF LineNext

(* The invariant of the services holds in every reachable state: jobs keep *)
(* their passwords to themselves, every resource has the key of its row.   *)
THEOREM LineInductive == LineSpec => []LineInv
<1>1. QED
  BY LineStarts, LineStep, PTL DEF LineSpec

(* What a runner declares sensitive is neither stored nor shown, and a job *)
(* that was accepted is not refused for want of it: _strip_sensitive in    *)
(* routers/provisioning.py, the runners' run and redact.                   *)
THEOREM PasswordsStayInTheRun == LineSpec => []PasswordGoesOnlyToTheRun
<1>1. LineInv => PasswordGoesOnlyToTheRun
  <2> SUFFICES ASSUME LineInv, NEW j \in DOMAIN jobs
               PROVE  /\ Runner[jobs[j].service].sensitive \intersect
                           (jobs[j].stored.given \union jobs[j].shown) = {}
                      /\ jobs[j].code = "VALIDATION_ERROR" => jobs[j].refused
    BY DEF PasswordGoesOnlyToTheRun
  <2>1. JobInOrder(jobs[j])
    BY DEF LineInv
  <2>2. QED
    BY <2>1 DEF JobInOrder
<1>2. QED
  BY <1>1, LineInductive, PTL

(* What a row offers, its provider's adapter does.                         *)
LEMMA SupportedIsDone ==
  ASSUME NEW row, row.service \in ServiceCodes,
         row.type = "EBS Volume" => row.service = "ec2",
         row.service = "compute_engine" => row.region # Nothing,
         NEW action \in SupportedActions(row.service, row.type)
  PROVE  Effect(row, action) = action
<1>1. CASE row.service \in AwsServices
  <2>1. Effect(row, action) = EffectAws(row, action)
    BY <1>1, Providers DEF Effect
  <2>2. QED
    BY <1>1, <2>1 DEF EffectAws, SupportedActions, AwsServices
<1>2. CASE row.service \in AzureServices
  <2>1. Effect(row, action) = EffectAzure(row, action)
    BY <1>2, Providers DEF Effect
  <2>2. QED
    BY <1>2, <2>1 DEF EffectAzure, SupportedActions, AzureServices
<1>3. CASE row.service \in GoogleServices
  <2>1. Effect(row, action) = EffectGcp(row, action)
    BY <1>3, Providers DEF Effect
  <2>2. QED
    BY <1>3, <2>1 DEF EffectGcp, SupportedActions, GoogleServices
<1>4. QED
  BY <1>1, <1>2, <1>3, Providers

(* A row is of its resource's service, and in its place unless a job took  *)
(* it over.                                                                *)
LEMMA RowOfResource ==
  ASSUME line \in Lines, NEW row, RowFits(row)
  PROVE  /\ row.service = row.of.service /\ row.service \in ServiceCodes
         /\ row.external =
               IF row.service \in {"ec2", "cloudfront", "vm"}
               THEN row.of.id ELSE row.of.name
         /\ row.kept = FALSE => row.region = row.of.place
<1>1. row.of.service \in ServiceCodes
  BY LineAssumption DEF RowFits, ResourceFits, LineAssumption
<1>2. RowKey(row) = <<row.service, row.external>>
  BY DEF RowKey
<1>3. RowKey(Discovered(row.of)) =
        <<row.of.service, IF row.of.service \in {"ec2", "cloudfront", "vm"}
                          THEN row.of.id ELSE row.of.name>>
  BY <1>1, KeyOfResource
<1>4. /\ RowKey(row) = RowKey(Discovered(row.of))
      /\ row.kept = FALSE => row.region = row.of.place
  BY DEF RowFits
<1>5. QED
  BY <1>1, <1>2, <1>3, <1>4

(* The adapter reaches the resource whose key and place the row has, and   *)
(* another one only under the same key.                                    *)
LEMMA OneIsReached ==
  ASSUME line \in Lines, NEW row, RowFits(row), row.kept = FALSE,
         NEW objects, \A r \in objects : ResourceFits(r), row.of \in objects,
         \A r \in objects : RowKey(Discovered(r)) = RowKey(row) => r = row.of
  PROVE  Reached(row, objects) = {row.of}
<1> DEFINE External(service, r) ==
             IF service \in {"ec2", "cloudfront", "vm"} THEN r.id ELSE r.name
<1>1. \A r \in objects : r.service \in line /\ r.service \in ServiceCodes
  BY LineAssumption DEF ResourceFits, LineAssumption
<1>2. /\ row.service = row.of.service
      /\ row.external = External(row.service, row.of)
      /\ row.region = row.of.place
  BY RowOfResource
<1>3. row.of \in Reached(row, objects)
  BY <1>2 DEF Reached
<1>4. ASSUME NEW r \in Reached(row, objects) PROVE r = row.of
  <2>1. /\ r \in objects /\ row.external = External(row.service, r)
        /\ r.service = row.service \/ {r.service, row.service} \subseteq ByName
    BY DEF Reached
  <2>2. r.service = row.service
    BY <1>1, <1>2, <2>1, LineAssumption DEF LineAssumption
  <2>3. RowKey(Discovered(r)) = <<r.service, External(r.service, r)>>
    BY <1>1, <2>1, KeyOfResource
  <2>4. RowKey(Discovered(r)) = RowKey(row)
    BY <2>1, <2>2, <2>3 DEF RowKey
  <2>5. QED
    BY <2>1, <2>4
<1>5. QED
  BY <1>3, <1>4

(* A resource has one row, and every action the row offers does what it    *)
(* says to that resource alone: _resource_attrs of provisioning.py against *)
(* discover_resources and perform_resource_action of the three providers.  *)
THEOREM RowsAndResourcesMatch == LineSpec => []RowsFindTheirResource
<1>1. LineInv => RowsFindTheirResource
  <2> SUFFICES ASSUME LineInv PROVE RowsFindTheirResource
    OBVIOUS
  <2>1. ASSUME NEW a \in resourceRows, NEW b \in resourceRows, a.of = b.of
        PROVE  a = b
    <3>1. RowKey(a) = RowKey(b)
      BY <2>1 DEF LineInv, RowsFit, RowFits
    <3>2. QED
      BY <3>1 DEF LineInv, RowsFit
  <2>2. ASSUME NEW row \in VisibleRows, row.of \in deployed, ~row.kept,
               \A r \in deployed :
                  RowKey(Discovered(r)) = RowKey(row) => r = row.of,
               NEW action \in SupportedActions(row.service, row.type)
        PROVE  /\ Effect(row, action) = action
               /\ Reached(row, deployed) = {row.of}
    <3>1. /\ line \in Lines /\ RowFits(row)
          /\ \A r \in deployed : ResourceFits(r)
      BY DEF LineInv, RowsFit, VisibleRows
    <3>2. row.kept = FALSE
      BY <2>2, <3>1 DEF RowFits
    <3>3. Reached(row, deployed) = {row.of}
      BY <2>2, <3>1, <3>2, OneIsReached
    <3>4. /\ row.service = row.of.service /\ row.region = row.of.place
          /\ row.service \in ServiceCodes
      BY <3>1, <3>2, RowOfResource
    <3>5. /\ row.type = "EBS Volume" => row.service = "ec2"
          /\ row.service = "compute_engine" => row.region # Nothing
      BY <3>1, <3>4 DEF RowFits, ResourceFits
    <3>6. QED
      BY <3>3, <3>4, <3>5, SupportedIsDone
  <2>3. QED
    BY <2>1, <2>2 DEF RowsFindTheirResource
<1>2. QED
  BY <1>1, LineInductive, PTL

(* Jobs, resources and rows are of services that are followed, and a job   *)
(* has one of its three statuses.                                          *)
THEOREM LineTyped == LineSpec => []LineTypeOK
<1>1. LineInv => LineTypeOK
  <2> SUFFICES ASSUME LineInv PROVE LineTypeOK
    OBVIOUS
  <2>1. \A j \in DOMAIN jobs :
          /\ jobs[j].service \in line
          /\ jobs[j].name \in ServiceNames \union {Unfit}
          /\ jobs[j].status \in {"queued", "failed", "success"}
    BY DEF LineInv, JobInOrder
  <2>2. \A r \in deployed : r.service \in line
    BY DEF LineInv, ResourceFits
  <2>3. ASSUME NEW row \in resourceRows
        PROVE  row.service \in line /\ row.of.service \in line
    <3>1. RowFits(row) /\ line \in Lines
      BY DEF LineInv, RowsFit
    <3>2. row.of.service \in line
      BY <3>1 DEF RowFits, ResourceFits
    <3>3. QED
      BY <3>1, <3>2, RowOfResource
  <2>4. QED
    BY <2>1, <2>2, <2>3 DEF LineTypeOK, LineInv
<1>2. QED
  BY <1>1, LineInductive, PTL
=============================================================================
