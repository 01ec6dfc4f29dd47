--------------------------- MODULE RuntimeIdentity ---------------------------
(* The embedding identity of a profile shared by several processes: the       *)
(* embedding rows of the graph, the persisted identity (model and maintenance *)
(* epoch), and the processes that initialize, migrate, operate and maintain.  *)
(*                                                                            *)
(* Leases are the atomic ones OperationAdmission implements: graph and cache  *)
(* together, shared or exclusive. A model stands for the model and its        *)
(* dimension, which the embedding child reports and nothing else decides. The *)
(* sqlite-vec index, rebuilt from the rows, is not part of the state, nor are *)
(* the think-claim rows that initialization also recovers (ThinkClaim). A     *)
(* stored epoch is a number: the malformed one that publication reads as 0    *)
(* can only come from outside the program.                                    *)
EXTENDS Naturals

CONSTANTS
  Process,     \* processes that may open the profile
  Model,       \* embedding models a process may be configured with
  NoModel,     \* no row, or no identity published yet
  Node,        \* active nodes with content
  MaxEpoch,    \* bound: no initialization starts at this epoch
  Faults       \* which of the faults below may happen in this instance

AllFaults == {"backup", "embed", "restore", "publish", "death"}

ASSUME IdentityAssumption ==
  /\ NoModel \notin Model
  /\ MaxEpoch \in Nat
  /\ Faults \subseteq AllFaults

VARIABLES
  vector,   \* embeddings: the model each node's stored vector comes from
  meta,     \* hermes_provider_meta: embedding_model and maintenance_epoch
  pc,       \* what each process is doing
  lease,    \* the admission it holds
  cfg,      \* its configured model, which its embedding child serves; none
            \* while the process is down
  epoch,    \* its _runtime_epoch; 0 before the first publication
  ready,    \* its _embedding_identity_ready
  backup    \* the database in the backup of the migration under way: the file
            \* and the path are local to the migration that made it

vars == <<vector, meta, pc, lease, cfg, epoch, ready, backup>>

Rows   == [Node -> Model \cup {NoModel}]
NoRows == [n \in Node |-> NoModel]
Metas  == [model : Model \cup {NoModel}, epoch : Nat]
NoMeta == [model |-> NoModel, epoch |-> 0]

(* The tables of the database this module models, as one value.               *)
Databases == [rows : Rows, meta : Metas]
NoBackup  == [rows |-> NoRows, meta |-> NoMeta]
Modes  == {"none", "sh", "ex"}
Points == {"down", "inspect", "wipe", "embed", "restore", "publish", "published",
           "unready", "up", "turn", "sleep"}

-----------------------------------------------------------------------------
Database == [rows |-> vector, meta |-> meta]

StoredModels == {vector[n] : n \in Node} \ {NoModel}

(* Any of the five comparisons of stored, indexed and persisted identity with *)
(* the configured one; with the dimension part of the model, the stored rows  *)
(* and the persisted identity remain.                                         *)
MigrationRequired(p) ==
  \/ StoredModels # {} /\ StoredModels # {cfg[p]}
  \/ meta.model \notin {NoModel, cfg[p]}

(* _validate_runtime_identity under a fresh admission, whose epoch is the     *)
(* provider's own.                                                            *)
Validate(p) ==
  /\ epoch[p] # 0 => epoch[p] = meta.epoch
  /\ meta.model \in {NoModel, cfg[p]}

(* _migration_postconditions and the count check before it.                   *)
Migrated(p) == \A n \in Node : vector[n] = cfg[p]

Free(p, mode) ==
  \A q \in Process \ {p} : lease[q] = "none" \/ (lease[q] = "sh" /\ mode = "sh")

Acquire(p, mode) == Free(p, mode) /\ lease' = [lease EXCEPT ![p] = mode]
Release(p)       == lease' = [lease EXCEPT ![p] = "none"]
Go(p, point)     == pc' = [pc EXCEPT ![p] = point]

(* The end of a provider or cron job: configuration and leases go with it.    *)
Stop(p) ==
  /\ Go(p, "down")
  /\ cfg' = [cfg EXCEPT ![p] = NoModel]
  /\ ready' = [ready EXCEPT ![p] = FALSE]
  /\ Release(p)

Init ==
  /\ vector \in Rows
  /\ \E m \in Model \cup {NoModel} : \A n \in Node : vector[n] \in {NoModel, m}
  /\ meta = NoMeta
  /\ pc = [p \in Process |-> "down"]
  /\ lease = [p \in Process |-> "none"]
  /\ cfg = [p \in Process |-> NoModel]
  /\ epoch = [p \in Process |-> 0]
  /\ ready = [p \in Process |-> FALSE]
  /\ backup = NoBackup

-----------------------------------------------------------------------------
(* initialize, from the exclusive bootstrap admission to its release.         *)
BeginInitialize(p, m) ==
  /\ pc[p] = "down"
  /\ meta.epoch < MaxEpoch
  /\ Acquire(p, "ex")
  /\ cfg' = [cfg EXCEPT ![p] = m]
  /\ Go(p, "inspect")
  /\ UNCHANGED <<vector, meta, epoch, ready, backup>>

(* Variant: only the persisted identity is compared.                          *)
InspectMetadata(p) ==
  /\ pc[p] = "inspect"
  /\ IF meta.model \notin {NoModel, cfg[p]}
       THEN Go(p, "wipe") /\ backup' = Database
       ELSE Go(p, "publish") /\ UNCHANGED backup
  /\ UNCHANGED <<vector, meta, lease, cfg, epoch, ready>>

(* Nothing to repair, or a backup before anything is destroyed.               *)
Inspect(p) ==
  /\ pc[p] = "inspect"
  /\ IF MigrationRequired(p)
       THEN Go(p, "wipe") /\ backup' = Database
       ELSE Go(p, "publish") /\ UNCHANGED backup
  /\ UNCHANGED <<vector, meta, lease, cfg, epoch, ready>>

(* Inspection raised or create_backup returned None.                          *)
InspectFails(p) ==
  /\ pc[p] = "inspect"
  /\ "backup" \in Faults
  /\ Go(p, "unready")
  /\ UNCHANGED <<vector, meta, lease, cfg, epoch, ready, backup>>

(* migrate_embeddings deletes every row and commits ...                       *)
Wipe(p) ==
  /\ pc[p] = "wipe"
  /\ vector' = NoRows
  /\ Go(p, "embed")
  /\ UNCHANGED <<meta, lease, cfg, epoch, ready, backup>>

(* ... and embed_nodes commits new ones batch by batch (a batch is a node).   *)
EmbedNode(p, n) ==
  /\ pc[p] = "embed"
  /\ vector[n] = NoModel
  /\ vector' = [vector EXCEPT ![n] = cfg[p]]
  /\ UNCHANGED <<meta, pc, lease, cfg, epoch, ready, backup>>

(* embed_nodes is done: it skips a batch that fails, so nodes may be missing. *)
CheckMigration(p) ==
  /\ pc[p] = "embed"
  /\ Migrated(p) \/ "embed" \in Faults
  /\ Go(p, IF Migrated(p) THEN "publish" ELSE "restore")
  /\ backup' = IF Migrated(p) THEN NoBackup ELSE backup
  /\ UNCHANGED <<vector, meta, lease, cfg, epoch, ready>>

(* _restore_embedding_backup copies the whole database back: the rows, and    *)
(* with hermes_provider_meta the identity.                                    *)
Restore(p) ==
  /\ pc[p] = "restore"
  /\ vector' = backup.rows
  /\ meta' = backup.meta
  /\ backup' = NoBackup
  /\ Go(p, "unready")
  /\ UNCHANGED <<lease, cfg, epoch, ready>>

(* The rollback itself fails and is only logged.                              *)
RestoreFails(p) ==
  /\ pc[p] = "restore"
  /\ "restore" \in Faults
  /\ backup' = NoBackup
  /\ Go(p, "unready")
  /\ UNCHANGED <<vector, meta, lease, cfg, epoch, ready>>

(* Variant: a changed identity keeps the epoch.                               *)
NextEpochKept(p) == IF meta.model = NoModel THEN meta.epoch + 1 ELSE meta.epoch

(* The epoch _write_runtime_identity persists: a new one for the first        *)
(* publication and for every change of identity.                              *)
NextEpoch(p) == IF meta.model = cfg[p] THEN meta.epoch ELSE meta.epoch + 1

(* Vec finalization, cache identity, and the transaction that publishes.      *)
Publish(p) ==
  /\ pc[p] = "publish"
  /\ meta' = [model |-> cfg[p], epoch |-> NextEpoch(p)]
  /\ epoch' = [epoch EXCEPT ![p] = NextEpoch(p)]
  /\ Release(p)
  /\ Go(p, "published")
  /\ UNCHANGED <<vector, cfg, ready, backup>>

(* The leases are gone when the provider declares itself ready: by then       *)
(* another process may have migrated the profile to a newer epoch.            *)
FinishReady(p) ==
  /\ pc[p] = "published"
  /\ ready' = [ready EXCEPT ![p] = TRUE]
  /\ Go(p, "up")
  /\ UNCHANGED <<vector, meta, lease, cfg, epoch, backup>>

(* One of those steps raises: initialization fails after the migration has    *)
(* been kept, and nothing restores the backup.                                *)
PublishFails(p) ==
  /\ pc[p] = "publish"
  /\ "publish" \in Faults
  /\ Stop(p)
  /\ UNCHANGED <<vector, meta, epoch, backup>>

(* Identity not ready: the provider runs with keyword recall only.            *)
FinishUnready(p) ==
  /\ pc[p] = "unready"
  /\ ready' = [ready EXCEPT ![p] = FALSE]
  /\ Release(p)
  /\ Go(p, "up")
  /\ UNCHANGED <<vector, meta, cfg, epoch, backup>>

-----------------------------------------------------------------------------
(* Variant: identity is checked when the provider starts and never again.     *)
BeginTurnUnchecked(p) ==
  /\ pc[p] = "up" /\ ready[p]
  /\ Acquire(p, "sh")
  /\ Go(p, "turn")
  /\ UNCHANGED <<vector, meta, cfg, epoch, ready, backup>>

(* A provider operation under _operation_admission: the shared lease first,   *)
(* then the identity check; a stale provider is rejected and changes nothing. *)
BeginTurn(p) ==
  /\ pc[p] = "up" /\ ready[p]
  /\ Validate(p)
  /\ Acquire(p, "sh")
  /\ Go(p, "turn")
  /\ UNCHANGED <<vector, meta, cfg, epoch, ready, backup>>

EndTurn(p) ==
  /\ pc[p] = "turn"
  /\ Release(p)
  /\ Go(p, "up")
  /\ UNCHANGED <<vector, meta, cfg, epoch, ready, backup>>

(* The sleep cron job: both leases exclusively, then the persisted identity   *)
(* must be complete and its own.                                              *)
BeginSleep(p, m) ==
  /\ pc[p] = "down"
  /\ meta.epoch >= 1 /\ meta.model = m
  /\ Acquire(p, "ex")
  /\ cfg' = [cfg EXCEPT ![p] = m]
  /\ Go(p, "sleep")
  /\ UNCHANGED <<vector, meta, epoch, ready, backup>>

EndSleep(p) ==
  /\ pc[p] = "sleep"
  /\ Stop(p)
  /\ UNCHANGED <<vector, meta, epoch, backup>>

(* The embedding of a node written by a turn or repaired by the sleep cycle.  *)
Embed(p, n) ==
  /\ pc[p] \in {"turn", "sleep"}
  /\ vector' = [vector EXCEPT ![n] = cfg[p]]
  /\ UNCHANGED <<meta, pc, lease, cfg, epoch, ready, backup>>

(* shutdown; the epoch attribute outlives it.                                 *)
Shutdown(p) ==
  /\ pc[p] = "up"
  /\ Stop(p)
  /\ UNCHANGED <<vector, meta, epoch, backup>>

(* The process dies, or an interrupt that no handler catches ends the step:   *)
(* its leases go, its committed rows stay.                                    *)
Die(p) ==
  /\ "death" \in Faults
  /\ pc[p] # "down"
  /\ Stop(p)
  /\ epoch' = [epoch EXCEPT ![p] = 0]
  /\ backup' = IF lease[p] = "ex" THEN NoBackup ELSE backup
  /\ UNCHANGED <<vector, meta>>

-----------------------------------------------------------------------------
Initializing(p) ==
  \/ \E m \in Model : BeginInitialize(p, m)
  \/ Inspect(p) \/ InspectFails(p)
  \/ Wipe(p) \/ (\E n \in Node : EmbedNode(p, n)) \/ CheckMigration(p)
  \/ Restore(p) \/ RestoreFails(p)
  \/ Publish(p) \/ PublishFails(p) \/ FinishReady(p) \/ FinishUnready(p)

Operating(p) ==
  \/ BeginTurn(p) \/ EndTurn(p)
  \/ (\E m \in Model : BeginSleep(p, m)) \/ EndSleep(p)
  \/ \E n \in Node : Embed(p, n)

Next == \E p \in Process : Initializing(p) \/ Operating(p) \/ Shutdown(p) \/ Die(p)

Spec == Init /\ [][Next]_vars

-----------------------------------------------------------------------------
TypeOK ==
  /\ vector \in Rows
  /\ meta \in Metas
  /\ pc \in [Process -> Points]
  /\ lease \in [Process -> Modes]
  /\ cfg \in [Process -> Model \cup {NoModel}]
  /\ epoch \in [Process -> Nat]
  /\ ready \in [Process -> BOOLEAN]
  /\ backup \in Databases

InOperation(p) == pc[p] \in {"turn", "sleep"}

(* From admission to release, an operation agrees with the persisted          *)
(* identity: no other process can republish it underneath, and a provider     *)
(* whose epoch was superseded is never let in, not even when the model was    *)
(* changed away and back.                                                     *)
OperationsMatchIdentity ==
  \A p \in Process : InOperation(p) =>
    /\ meta.model = cfg[p]
    /\ pc[p] = "turn" => epoch[p] = meta.epoch

(* The provider has its epoch and has not failed or stopped since.            *)
Published(p) == ready[p] \/ pc[p] = "published"

(* An epoch names one model for all processes, so that comparing epochs is    *)
(* enough to fence a provider off: two providers that run under the same      *)
(* epoch embed with the same model, none has an epoch the profile does not    *)
(* know, and one whose epoch is current has the persisted model. A migration  *)
(* that fails and copies its backup back over the identity, a publication     *)
(* that raises and a restart must not hand out an epoch a second time.        *)
EpochNamesModel ==
  /\ \A p \in Process : Published(p) =>
       /\ epoch[p] <= meta.epoch
       /\ epoch[p] = meta.epoch => cfg[p] = meta.model
  /\ \A p, q \in Process :
       Published(p) /\ Published(q) /\ epoch[p] = epoch[q] => cfg[p] = cfg[q]

(* A process publishes its identity only over rows of its own model, whatever *)
(* state an earlier crash, failed rollback or failed publication left behind. *)
PublishedOverOwnRows ==
  [][\A p \in Process : pc[p] = "publish" /\ pc'[p] = "published" =>
       \A n \in Node : vector[n] \in {NoModel, cfg[p]}]_vars

(* While nobody owns the profile exclusively, the rows are those of the       *)
(* persisted identity: no operation sees or extends a half-published profile. *)
(* Does not hold (README, Disagreements).                                     *)
NoHalfPublishedProfile ==
  \A p \in Process : InOperation(p) =>
    \A n \in Node : vector[n] \in {NoModel, meta.model}
=============================================================================
