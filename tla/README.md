# hermes-cashew in TLA+

A verification development of the `hermes-cashew` memory provider
(`src/plugins/memory/cashew`): what happens when several processes share a
profile, when several threads drive one provider, when a step of several fails,
and when a process dies in the middle. `PROJECT.json` ties every definition to
the lines it models.

## The system

A *profile* is a directory with a SQLite graph, an embedding cache and a
configuration file. A *provider* lives in a host process: the host calls
`initialize`, `sync_turn`, `prefetch`, tools and `shutdown` from several threads.
A *cron process* runs the sleep cycle on the same profile, and an *operator* may
audit or repair it.

| component | state | operations | talks to | what is hard | what makes it correct |
|---|---|---|---|---|---|
| operation admission (`admission.py`, `locking.py`) | flock leases on graph and cache, lease owner, context token | admit (shared, exclusive, cache only), nested admit, transfer, close | every operation of every process | two leases without blocking order, retries, transfer to a thread that outlives the caller, crash | operations run under the leases they need, nobody waits while holding, every call decided |
| embedding identity (`__init__.py`, `migrate_embeddings.py`, `sleep_cron_script.py`) | stored rows, persisted model and epoch, each provider's epoch | bootstrap, backup, migrate, verify, restore, publish, validate | admission, embedding child | several commits, failure and death between them, stale providers | stale providers are fenced, an identity is published only over its own rows |
| think claims (`__init__.py`) | persisted counter and claim | count, claim, run, settle, recover | admission, worker | opaque call with unknown outcome, death with a claim | no replay, no theft, no lost turns |
| provider lifecycle (`__init__.py`, `health.py`, `log_filter.py`) | flags, queue, worker, ledger, supervisor reference, log boundary | initialize, shutdown, sync_turn, worker loop, deferred cleanup | host threads, worker, supervisor callbacks | cancellation, bounded joins, overflow racing the worker, callbacks of old generations | accepted turns accounted for, state outlives its users |
| embedding supervisor (`embedding_process.py`, `embedding_worker.py`) | child process, pipe, request lock, ownership, callbacks | start, encode, terminate, reap, close | provider, child | late answers, close racing a request, threads that cannot start | each request gets its own answer, callbacks after release, close ends |
| warm recall (`__init__.py`) | generation, latest request, slot, staged result, daemon | queue, take, retrieve, stage, consume, session switch | host, sync worker, model gate | results for an old session, request or runtime | nothing stale is staged or served, no request forgotten |
| auxiliary model gate (`config.py`) | shared permits, per-callable flags, backend threads | call, finish, give up, close | warm recall, sync worker | backends that outlive their callers | permits are conserved |
| integrity audit (`integrity.py`, `locking.py`) | private copy, budget of rows, bytes and time, reasons | admit, copy, verify, inspect, report | admission, SQLite files | copying live files, cutoffs anywhere | no cutoff passes for a verdict, a verdict is right |
| integrity repair (`integrity.py`, `_vendor/core/integrity.py`) | transaction, backup, report | back up, repair item by item, judge, verify, commit, verify | admission, SQLite | failing items and savepoints, a commit that raises, death | the report is true, nothing valid is lost, a completed repair leaves a clean index |
| sleep (`_vendor/core/sleep.py`, `permanence.py`, `sleep_adapter.py`) | nodes, embeddings, index, links, cursors, cycle status | select, link, deduplicate, collect, promote, dream, embed orphans | cron script, admission | nine phases that commit on their own, cursors moved before the work | permanence protects, merging keeps memories, the status is true, every node has its turn |
| sessions (`_vendor/core/session.py`, `embeddings.py`, `retrieval.py`) | nodes, embeddings, edges, schema version | open and migrate, turn, think, recall | sync worker, model, encoder | every statement on a connection of its own; select-then-insert | no dangling edges, completed turns embedded, only live nodes recalled, a stamped schema protects |
| configuration store, cron reconciliation, tools, metrics, tracing, benchmarks | files, jobs, reports | – | – | – | not modelled, see below |

## Modules

| module | models |
|---|---|
| `ReadersWriter` | abstract: an operation takes all its leases in one step, under exclusion |
| `OperationAdmission` | `admit_operation` step by step: graph, cache, unwinding, retry, deadline, nesting, transfer, crash |
| `RuntimeIdentity` | the processes of a profile: bootstrap, migration, rollback, publication, turns, sleep, death |
| `ThinkClaim` | the persisted think counter and claim |
| `SyncLifecycle` | one provider: two-phase initialize/shutdown, queue, worker, cleanup threads, ledger, close callbacks, log boundary |
| `EmbeddingSupervisor` | request threads, callers that give up, start and CPU retry, termination, reaper, close, callbacks, and the child |
| `SleepCycle` | `run_sleep_cycle` phase by phase, with turns between cycles |
| `SessionEngine` | schema migration, turns, think cycles, recalls and forgetting, statement by statement under leases |
| `IntegrityAudit` | the audit's copy of the database file and log, its budget, scans and verdict, beside writers |
| `IntegrityRepair` | the repair workflow and the targeted repairs in their savepoints |
| `ModelGate` | the auxiliary model's permits |
| `WarmRecall` | prefetch: host calls, warmup daemon, staging; extends `ModelGate` |
| `MC*` | constants, small profiles and symmetry sets for TLC |
| `IntegrityProofs` | TLAPS theorems about `IntegrityAudit` and `IntegrityRepair` |
| `CycleProofs` | TLAPS theorems about `ThinkClaim` and `SleepCycle` |
| other `*Proofs` | TLAPS theorems about the module of that name |

**How modules compose.** `OperationAdmission` is shown to implement
`ReadersWriter` (`AdmissionIsAtomic`, checked and proved). `RuntimeIdentity`,
`ThinkClaim`, `SessionEngine` and `IntegrityAudit` use exactly that abstraction: a
lease is taken in one step. `WarmRecall` is composed with `ModelGate`: the warmup
daemon and the sync worker are two askers of the same callables, and a callable
belongs to a runtime that may be closed under them. `SyncLifecycle` treats the
persistence of a turn as one step with an outcome and the supervisor as open,
closing, retained (no reaper could be started) or released; the inside of the
former is `SessionEngine`, of the latter `EmbeddingSupervisor`, whose
`CallbackAfterRelease` is what `SyncLifecycle` relies on. `SleepCycle` sees turns
only between cycles, since the cron script holds the exclusive lease.

**State and actions.** Variables are named after the attributes, columns or files
they stand for; each declaration says which. One action is one step that other
threads or processes can interleave with: a non-blocking flock, a commit, a
section under a lock, a queue operation, a frame read from a pipe, a read of an
unlocked attribute. In `SyncLifecycle` the overflow path of `sync_turn` holds the
state lock over three queue operations while the worker drains, so it is three
actions and the lock is visible (`StateLockFree`). In `EmbeddingSupervisor` every
thread has a program counter with a label for each place where a lock is taken,
released or waited for; `_terminate` is a subroutine with a return label, because
`close()` enters it without the request lock. Definitions marked *Variant* or
*A plausible slip* are faulty versions of the definition after them, used to show
that a property can fail; no specification refers to them.

**Abstractions.**

- A model name stands for the model and its dimension. A turn is a number, a
  statement is its node (ids are hashes of contents), a vector is the model that
  made it or `bad`.
- Clocks are gone: a deadline may pass at any point where the code looks at it,
  a bounded wait may expire whenever what it waits for has not happened.
- Death keeps what was committed and drops leases and transactions; this also
  stands for an interrupt outside the `except Exception` clauses.
- In `SyncLifecycle`, partial, uncertain and plain failures of a turn are one
  outcome, since the ledger treats them alike; `SessionEngine` tells them apart.
- In `SleepCycle`, ages, scores and similarities are the constant relations
  `Near` and `Twin`; fitness is computed from the links. Access counts are 0, 1
  and 2 = the permanence threshold. A cycle's capability to write the index is a
  constant of the deployment (`mode.vec`). Every commit of a phase may raise before
  it took effect or, as the code's own comment at `sleep.py:514` warns, after; the
  history variable `changed` counts what a commit that returned has changed.
- In `SessionEngine`, similarity is any choice among the nodes a search can see:
  those of the vec index when it can be read, those with an embeddings row
  otherwise. A node that says nothing but white space (`blank`) is stored and never
  embedded. The count that decides `partial` is the code's: two counts of all rows.
- In `IntegrityAudit`, the database is two pages, one for nodes and one for their
  edges, and a defect is known by the scan that reports it. Both passes are modelled
  scan by scan: a statement or the vec extension may fail (`faulted`), inside a
  guarded block, where it becomes a reason, or outside, where it ends the audit.
- In `IntegrityRepair`, the rows that a capped query without an order returns are
  any choice of that size; a savepoint that cannot be rolled back leaves any subset
  of its kind's rows half-repaired, each after a prefix of its statements.
- In `RuntimeIdentity`, a backup is the whole database, identity rows included. A
  stored epoch that does not parse is left out: nothing in the program writes one.
- In `EmbeddingSupervisor`, a frame is the number of the request it answers.
  `start()` by the binder runs before the supervisor is shared. The gap between
  `_process = None` and `_reaping = False` counts as reaping, and the polite
  shutdown frame is part of the kill.
- In `WarmRecall`, `runtime` stands for everything in a request's identity that
  `initialize()` sets. The close callback of a supervisor whose identity was not
  proved (`__init__.py:989`, `2840`) may clear the embedding generation later; a
  staged result is then not consumed, which is the model's miss.

## Runs

| run | question | bounds | result |
|---|---|---|---|
| `admission` | do nested operations stay covered, does nobody wait while holding, is every call decided, does admission look atomic? | 2 threads, 2 retries, nesting 1 | holds |
| `identity_faults` | can a stale provider operate, an epoch name two models, or a provider start over foreign rows? | 3 processes, 2 models, every fault | holds |
| `think_claim` | can a claim be stolen, an opaque call be replayed, a cycle come a turn early or late? | 3 processes, interval 3, death and commit faults | holds |
| `lifecycle_safety` | does state outlive its users across generations? | 2 host threads, 2 cleaners, 2 generations, 1 turn, failing setups, binds, thread starts and reapers | holds |
| `sync_drain` | is every turn counted once and drained before the sentinel, and is a generation that is shut down released? | 2 host threads, 3 turns, capacity 1, batch 2, 1 generation | holds |
| `supervisor` | does every request get its own answer, and does close end with the owner released before the callbacks? | 1 supervisor, 2 request threads, 2 children, 1 close, every fault | holds |
| `sleep` | does permanence protect, does merging keep memories, does the status keep what was persisted, has every node its turn? | 3 nodes, pages of 2, batches of 1, capped orphans with deletion and uncapped ones with decay, every fault | holds |
| `session` | are there dangling edges, completed turns without embeddings, forgotten nodes in a recall, unprotected nodes under a stamped schema? | 2 workers, 2 statements, 2 operations, vec index, every fault | holds |
| `repair` | is the report true, the backup there, information kept, completed clean? | 3 nodes, damaged profiles of each kind, 2 items, inspections of 1 embedding and 2 active nodes, every fault | holds |
| `audit` | can a cutoff pass for a verdict, or a verdict be wrong about the copy? | a turn and maintenance beside the audit, 1 transaction, profiles with each defect, 14 rows for both passes, byte and time cutoffs, failing statements | holds |
| `warm_recall` | can a stale result be staged or served, a permit be lost or doubled, a request be forgotten? | 2 sessions, 2 runtimes, 3 generations, 1 permit, 2 calls | holds |
| `audit_snapshot` | is the audit's copy a state of the profile when turns run? | 1 turn worker, 3 transactions | violated |

*Why the bounds are enough.* Admission hazards are between a holder and a
contender of two leases. Identity needs an old provider, a migrating one and one
more to change the model back; two models show every comparison. Lifecycle
hazards pair one generation with the next, so two generations and two callers
suffice; queue capacity 1 against 3 turns overflows with and without the worker
interfering. The supervisor needs one child to lose and one to restart into, and
a second request that comes while the first, given up by its caller, still owns
the channel. A non-transitive similarity needs three nodes,
and pages of two then never show the whole graph. Session hazards are between two
writers or a writer and maintenance over one row and one edge. A repair's kinds
are independent of each other except through one row: one row takes every
combination, the others stand before and behind it in the item bound, and
inspections that read fewer rows than there are show what a cap hides. Both passes
of an audit just fit in 14 rows for a profile of one row per table, and do not for
one of two. Warm recall needs an old and a new runtime and a
backend that outlives its caller. Deadlock checking is off where the host may
stop calling, a bound is reached, or the workflow is over.

*Fairness.*
`OperationAdmission!FairSpec` assumes only that a thread inside `admit_operation`
keeps running: no lease is assumed to be released and no body to end.
`SyncLifecycle!FairSpec` assumes that running threads run, that a turn ends (its
waits have timeouts) and that a child told to stop is reaped by whoever waits for
it; nobody is assumed to call `initialize`, `shutdown` or `sync_turn`; `sync_drain`
excludes the failure to start a cleanup thread or a reaper, after which the code
relies on another `shutdown()` or `close()`.
`EmbeddingSupervisor!FairSpec` assumes that running threads run, that bounded
waits expire and that a killed child ends.
`SleepCycle!FairSpec` assumes that the cron job starts cycles again and again and
that a running cycle goes on.
`WarmRecall!FairSpec` assumes that the daemon and a started shutdown go on and
that waits for the model are bounded; no backend is assumed to end.

## Disagreements between the code and its comments

`audit_snapshot` is a run (`SnapshotConsistent`): the comment of `_source_snapshot` takes
the shared lease for exclusion of writers, and turns hold shared leases too. The
copy may pair an old database file with a log that was restarted since.

The following formulas state what a comment or a document says and do **not**
hold of the specifications; each is kept next to the code it is about.

1. `RuntimeIdentity!NoHalfPublishedProfile` (comment at `__init__.py:923`: "This
   prevents a second process from observing a half-published profile"): a
   migration commits in several steps. Death, a failed restore, or a failure
   between migration and publication leaves the old model and epoch over new or
   missing rows, and an older provider of that epoch validates.
2. `ThinkClaim!ThinkRunsEveryInterval` (README: "Runs every `think_interval` sync
   turns"): one cycle without new nodes or edges is settled as `failed`, which
   blocks every later cycle of every process.
3. `SyncLifecycle!NoLostTurn` (comment at `__init__.py:2732`: items in the queue
   "receive a bounded opportunity to persist"): the worker times out on an empty
   queue, a turn is accepted, the gate closes, the worker looks at the gate and
   returns.
4. `SyncLifecycle!ReinitializableAfterShutdown` (`__init__.py:839`: "a provider
   instance may be initialized again after a prior shutdown"): an initializer that
   failed or was cancelled has released the gate but not yet cleared
   `_initializing`; a `shutdown()` there closes the gate and nobody opens it.
5. `SyncLifecycle!ScrubBalanced` (`log_filter.py:239`: "one reversible boundary"):
   the old generation forgets the new one's log-boundary reference.
6. `EmbeddingSupervisor!OneServingGeneration` (comment in `_terminate`: "unsafe to
   publish a replacement until wait() actually reaps this generation"): a reaper
   clears `_reaping` first and looks at `_closed` later, when a new child may
   already serve; it gives the slot back beside that child.
7. `IntegrityRepair!RepairKeepsIdentity` (README: "targeted repairs preserve the
   stored model identity"): a caller may name another embedding model, and both
   verifications compare counts only, so leftovers that match let it through.
8. `SessionEngine!NoCollisionFailure`: two turns that say the same thing both miss
   the row and both insert it; the second raises and the turn fails for good
   although its statement is stored.
9. `SyncLifecycle!RetainedIsRetriable` (`embedding_process.py:621`: "Retain the
   process and owner for a later close() retry"): a bind that fails after its
   supervisor claimed the owner calls `close()` once and raises (`__init__.py:357`);
   if the child outlives that and no reaper starts, the owner stays claimed and the
   provider has no supervisor to close. The provider that has one is no better off
   once its queue is gone: `shutdown()` returns at once and the gate keeps
   `initialize()` out. TLC: the constants of `lifecycle_safety` with one generation.
10. `IntegrityAudit!CutoffIsIncomplete` (README: "a cutoff is reported as
    `audit_incomplete`"): a deadline that interrupts a statement outside the guarded
    blocks of the inspection (`integrity.py:625-630`, `655-668`) ends the audit as
    `unavailable` (`840-845`). It is no verdict (`CutoffReported` holds), but it is
    not reported as a cutoff either. TLC: the constants of `audit_snapshot` with one
    transaction.
11. `SessionEngine!SchemaComplete` (`session.py:222`, `db.py:149`: "applies additive
    column migrations to legacy databases"): a failed `ADD COLUMN` is passed over
    (`session.py:247-250`), the version is stamped, and the fast path keeps every
    later call from trying again. What the stamp does guarantee is
    `StampedIsProtected`. TLC: the constants of `session`.
12. `SessionEngine!CompletedIsSearchable` (`session.py:698`: nodes not embedded "are
    invisible to similarity retrieval"; `embeddings.py:456`: the two ways to search
    "must agree"): a failed write to the vec index is passed over and the embedding
    committed (`embeddings.py:370-383`); later batches skip the node and searches ask
    the index alone. What a completed turn does guarantee is `CompletedIsEmbedded`.
    TLC: the constants of `session`.

Met while modelling and not stated as formulas: `generate_default_config`
(`config.py:938`) looks for the file outside the lock and may overwrite settings
saved in between; a dream whose text exists already replaces the row, and with it
its permanence; a poisoned first batch keeps uncapped orphan passes from the
later ones; an audit demands index rows for decayed nodes that compaction removes;
a `-journal` file is not copied by an audit; a warm hit is served without a lease
and may name nodes forgotten since it was staged; a sleep phase whose commit raises
after it took effect (deduplication, collection, permanence, core memories, dream:
`sleep.py:791`, `935`, `967`, `1018`, `1111`) is not in the progress report, so that
a cycle may report `failed` over a graph that this one commit has changed
(`StatusTruthful` leaves it out; only the cross links are settled by reading).

## Proofs

TLAPS proves the following for every value of the constants that satisfies the
named assumption of the module (`AdmissionAssumption`, `IdentityAssumption`,
`ThinkAssumption`, `LifecycleAssumption`, `SupervisorAssumption`,
`SessionAssumption`, `RepairAssumption`, `AuditAssumption`, `SleepAssumption`,
`GateAssumption`): any number of threads, processes, generations, requests, nodes
and retries, and any set of faults. The assumptions say that bounds are natural
numbers, that request and fault sets contain what the code knows, and that the
stand-in for `None` is no object. Every component has an inductive invariant, a
conjunction of named parts, and a theorem that it holds of every reachable state:
`IInv` and `InductiveInvariant` where a proof module is about one component,
`ThinkInv`, `SleepInv`, `RepairInv` and `AuditInv` (`ThinkInvariant`, ...) where it
is about two. The other theorems follow from it, some with a second invariant on
top. TLC checked the invariants on the run's instance before they were proved.

- **Admission** (`OperationAdmissionProofs`): type correctness,
  `LiveTokenIsProtected`, `NestedIsCovered`, `MaintenanceIsAlone`,
  `NoHoldAndWait`, `NoLeaseUpgrade`, and the refinement of `ReadersWriter`. The
  inductive invariant adds to these how program point, owner and leases of a
  thread belong together (which leases are held while trying, unwinding and in
  the body; that nothing is held without an owner or an attempt) and that held
  leases are pairwise compatible: exclusion is a fact about leases, and becomes
  one about operations only through `LiveTokenIsProtected`.
- **Identity** (`RuntimeIdentityProofs`): type correctness,
  `OperationsMatchIdentity`, `EpochNamesModel`, `PublishedOverOwnRows`. The
  inductive invariant adds that exclusive holders are alone, which program points
  hold which lease, that a process about to publish stands over rows of its own, and
  that while a migration may still be rolled back its backup holds the persisted
  identity: copying it back then takes no epoch back (`BackupHolds`).
- **Think claims** (`CycleProofs`): type correctness with the bound on the
  counter, `LiveClaimKept`, `CycleEveryInterval`, `UnsettledNeverReplayed`. The
  invariant adds that the stored counter and the turns counted since the last cycle
  agree wherever a cycle can be claimed (`CounterAgrees`), that an opaque call not
  settled as completed left a blocking claim (`OpaqueBlocks`), and that whoever is
  thinking is in its cycle (`HolderThinks`).
- **Provider lifecycle** (`SyncLifecycleProofs`): type correctness,
  `WorkerKeepsRuntime`, `OwnedSupervisorKept`, `LedgerMatchesTurns` and
  `SentinelDrains`. None is inductive. For the first two, `RefsKept` ties queue and worker
  reference to the generation; `InitializerKept` says what an initializer may rely
  on at each point (while it builds, no worker is published and a closed gate
  means that it was cancelled); `TearingKept` says that a thread shutting down a
  generation either finds it unchanged, behind a closed gate, or finds another
  one; `OwnerKept` orders the close callbacks by the owner they name, and keeps the
  owner that a failed bind left behind apart from the one the provider refers to.
  The delicate case is a thread that remembered *no* owner and therefore drops
  whatever reference it finds: `ClosingKept` and `Apart` show that there is
  nothing to drop, and that no initializer can be under way, until it has run.
  The other two rest on `LInv`: the queue and the worker's batch together hold
  exactly the queued turns of the generation, each once, and the running turn is
  the first of the batch (`QueueKept`, `BatchKept`); a sentinel stands behind every
  turn and only behind a closed gate, which stays closed as long as the queue is
  there; and the state lock that the overflow path keeps holds the gate open
  (`OverflowKept`), so that the entry it drops is a turn and never the sentinel.
  Then each ledger operation changes the counters as the cardinalities of the
  turns' fates change, and no saturating subtraction meets a zero. The type
  invariant needs both and three bounds of its own: an overflowing `sync_turn`
  still has its turn to make (`LengthsKept`), a thread remembers only generations
  that exist, and an initializer that has not acquired the log boundary yet finds
  fewer references than there are generations (`LocalsBounded`), so that however
  references are forgotten no generation acquires it twice.
- **Embedding supervisor** (`EmbeddingSupervisorProofs`): type correctness,
  `ChannelInSync`, `CallbackAfterRelease`, `NoServiceAfterClose`. The core is
  `ChannelKept`: what may be pending on the pipe is a function of where the holder
  of the request lock is (nothing, at most the hello, one request or its answer),
  and `LockKept` says who the holder is, through the `_terminate` subroutine that
  `close()` also enters without the lock.
- **Warm recall and model gate** (`WarmRecallProofs`): type correctness,
  `StagedIsCurrent`, `HitAnswersQuestion`, `PermitsConserved`. The invariant adds
  that the daemon's request is of this generation only while the provider is up,
  that what is about to be staged was read from the runtime that was asked, and
  that a running backend marks its callable active; the permits are counted with
  the cardinality of the set of backends at work.
- **Sessions** (`SessionEngineProofs`): type correctness, `EdgesHaveEnds`,
  `PartialTruthful`, `CompletedIsEmbedded`, `RecallLive`, `StampedIsProtected`. The
  invariant says which rows a writer relies on at each statement (`RowsThere`),
  that they stay because forgetting needs an exclusive lease (`Leased`), that what
  an encoding left out is still pending (`Embedded`), and that the row count taken
  at the start leaves room for the turn's own rows (`Counted`).
- **Sleep** (`CycleProofs`): type correctness, `PermanentNotDecayed`,
  `ClaimedPairsLinked`, `StatusTruthful`, `MergeKeepsMemory`. `GraphKept` adds to
  permanence that a core memory is permanent while it is active: promoting the same
  core again, from ranks taken before the collection, then changes nothing, and
  whatever a collection removes was not core. `LocalsKept` keeps the page inside
  the active nodes until it is merged and the claimed pairs on disk after a commit
  that raised; `ChangesCounted` says that what a returned commit changed counts as persisted and
  that the first orphan pass, after which a cycle may still be reported as
  unavailable, changes neither nodes nor edges. `MergeKeepsMemory` is proved for
  every order of the cliques by a least counterexample over the greedy recursion
  (every component is part of a clique, no two share a node), and a clique has one
  survivor that resembles all the others and inherits their permanence. The types
  rest on bounds of the pages: a page takes no more rows than the budget has left.
- **Repair** (`IntegrityProofs`): type correctness, `ReportTruthful`,
  `BackupBeforeChange`, `InformationPreserved`, `CompletedIsClean`. The invariant
  adds that the disk is untouched before the commit and the backup was made before it, that only
  requested kinds are repaired, and that the open transaction has lost nothing yet
  (`TxKeeps`), shown kind by kind for the repair of a set of rows and for a repair
  that a savepoint left half-made. `CompletedIsClean` is about counts of capped
  queries: the inspection reads one index row more than embeddings, so an index row
  it has not seen shows as stale and the repair does not report `completed`
  (`CleanIndex`). The other direction has a limit in the code: embeddings and active
  nodes beyond the cap of an inspection are not compared, so that in a larger profile
  a node may be missing from the index after a `completed` repair. The budget of
  items is charged for every row a query returned and never goes below zero
  because a query is limited to what is left of it.
- **Audit** (`IntegrityProofs`): type correctness, `CutoffReported`, `VerdictSound`.
  `CutoffNoted` says that a cutoff stays among the incomplete reasons until the
  report, `ReasonsRight` that without one a reason has a defect or a failed statement
  behind it, and that as long as there is none every defect of the copy is still to
  be scanned: by the first pass what it looks at, by the second the rest.
  About the copy it is proved that it is a state the profile was in, whoever commits,
  as long as no checkpoint moves the log into the file meanwhile
  (`CopiesConsistent`), and that the audit's lease keeps maintenance from doing so,
  hence only a turn can (`OnlyTurnsCheckpoint`). That it does is the finding of
  `audit_snapshot`.

Only model-checked: the liveness properties (`EveryAdmissionDecided`,
`RuntimeReleased`, `ClosedIsReleased`, `EveryNodeSelected`, `QueuedIsHandled`), which
need fairness and ENABLED, out of reach of the installed provers. Every invariant,
every action property and the refinement that a passing run checks is also a theorem.

## Not modelled

- *Configuration store*: one read-modify-write under a file lock and an atomic
  rename; the only concurrent window is the one named above.
- *Cron reconciliation*: lists and edits jobs through the host's interface, whose
  atomicity is not visible in this repository.
- *Tools, metrics, tracing, error tracking, scrubbing text*: formatting and
  reporting.
- *Vendored code the plugin does not call*: the other retrieval modes, traversal,
  tension detection, `start_session`, export, standalone decay, statistics.
- *Ranking, extraction prompts, tags, timestamps*: data no property tells apart.
- *Background dreams, the capability probe of the index, decay-audit trimming* in
  the sleep cycle.
- *Benchmarks, packaging, integration scripts*: outside the running provider.
