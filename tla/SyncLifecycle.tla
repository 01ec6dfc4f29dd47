--------------------------- MODULE SyncLifecycle ---------------------------
(* One CashewMemoryProvider: initialize() and shutdown() called from several  *)
(* host threads, the bounded sync queue with its drop-oldest policy, the      *)
(* worker thread, the deferred-cleanup threads, the outcome ledger, the       *)
(* embedding owner's close callbacks and the log-scrubbing reference count.   *)
(*                                                                            *)
(* Every step that takes _sync_state_lock is atomic, except the overflow path *)
(* of sync_turn, which shares the queue with the unlocked worker and is split *)
(* at each queue operation. Queue 0 / worker 0 / supervisor 0 stand for None; *)
(* otherwise an object is named by the generation that created it.            *)
EXTENDS Naturals, Sequences, FiniteSets, SequencesExt

CONSTANTS
  Caller,      \* host threads that call initialize() and shutdown()
  Cleaner,     \* cleanup threads that may exist at once (bound)
  MaxGen,      \* initializations (bound)
  MaxTurns,    \* calls of sync_turn (bound)
  Capacity,    \* queue maxsize
  Batch,       \* turns a worker iteration drains
  Faults       \* see ASSUME

ASSUME LifecycleAssumption ==
  /\ Caller \cap Cleaner = {}
  /\ MaxGen \in Nat /\ MaxTurns \in Nat
  /\ Capacity \in Nat \ {0} /\ Batch \in Nat \ {0}
  /\ Faults \subseteq {"setup", "startWorker", "startCleaner", "startReaper"}

VARIABLES
  initializing,  \* _initializing
  cancelled,     \* _initialization_cancelled
  gate,          \* _shutdown_started
  gen,           \* _health_generation
  queueRef,      \* _sync_queue
  workerRef,     \* _sync_worker
  ready,         \* configured, writable and identity proved
  health,        \* _health_state
  pending,       \* _shutdown_cleanup_pending is set
  queue,         \* content of the queue: turn numbers and Sentinel
  worker,        \* the worker thread
  overflow,      \* where sync_turn's overflow path is, holding the state lock
  turns,         \* every sync_turn call: its generation and its fate
  ledger,        \* _outcomes
  supRef,        \* _embedding_supervisor
  sup,           \* the process-wide embedding owner
  callbacks,     \* close callbacks registered with it
  firing,        \* close callbacks taken from the list and not yet run
  scrubs,        \* _SCRUB_REFS
  scrubHeld,     \* _log_scrub_acquired
  pc,            \* where each caller and cleaner is
  local          \* its local worker, queue and supervisor

life  == <<initializing, cancelled, gate, gen, queueRef, workerRef, ready, health, pending>>
work  == <<queue, worker, overflow, turns, ledger>>
close == <<supRef, sup, callbacks, firing>>
scrub == <<scrubs, scrubHeld>>
vars  == <<life, work, close, scrub, pc, local>>

(* A supervisor that a provider bound, and one that a failed bind left owned. *)
Bound        == {"open", "closing", "retained"}
Orphaned     == {"reaping", "lost"}
SupervisorAt == {"released"} \cup Bound \cup Orphaned

Actor    == Caller \cup Cleaner
Sentinel == 0
Fates    == {"completed", "failed", "dropped", "rejected"}
NoLocals == [worker |-> 0, queue |-> 0, sup |-> 0, mark |-> FALSE]
NewLedger == [accepted |-> 0, pending |-> 0, inFlight |-> 0,
              done |-> [f \in Fates |-> 0]]

Init ==
  /\ initializing = FALSE /\ cancelled = FALSE /\ gate = FALSE
  /\ gen = 0 /\ queueRef = 0 /\ workerRef = 0
  /\ ready = FALSE /\ health = "uninitialized" /\ pending = FALSE
  /\ queue = <<>> /\ worker = [gen |-> 0, at |-> "none", taken |-> <<>>]
  /\ overflow = "none" /\ turns = <<>> /\ ledger = NewLedger
  /\ supRef = 0 /\ sup = [gen |-> 0, at |-> "released"]
  /\ callbacks = <<>> /\ firing = <<>>
  /\ scrubs = 0 /\ scrubHeld = FALSE
  /\ pc = [a \in Actor |-> "idle"]
  /\ local = [a \in Actor |-> NoLocals]

Go(a, point) == pc' = [pc EXCEPT ![a] = point]

Return(a) == Go(a, "idle") /\ local' = [local EXCEPT ![a] = NoLocals]

StateLockFree == overflow = "none"

WorkerAlive == worker.at \in {"get", "empty", "fill", "next", "turn"}

(* is_alive() of the thread a local variable names.                           *)
Alive(w) == w # 0 /\ worker.gen = w /\ WorkerAlive

-----------------------------------------------------------------------------
(* initialize()                                                               *)

InitClaim(a) ==
  /\ pc[a] = "idle" /\ a \in Caller
  /\ ~initializing /\ StateLockFree
  /\ queueRef = 0 /\ ~gate
  /\ gen < MaxGen
  /\ initializing' = TRUE /\ cancelled' = FALSE
  /\ gen' = gen + 1
  /\ ledger' = NewLedger
  /\ ready' = FALSE /\ health' = "initializing"
  /\ Go(a, "setup")
  /\ UNCHANGED <<gate, queueRef, workerRef, pending, queue, worker, overflow, turns,
                 close, scrub, local>>

(* The fresh queue, and the lifecycle flags of an earlier shutdown reset.     *)
InitSetup(a) ==
  /\ pc[a] = "setup"
  /\ queueRef' = gen /\ queue' = <<>>
  /\ gate' = FALSE
  /\ Go(a, "acquire")
  /\ UNCHANGED <<initializing, cancelled, gen, workerRef, ready, health, pending,
                 worker, overflow, turns, ledger, close, scrub, local>>

InitAcquireScrub(a) ==
  /\ pc[a] = "acquire"
  /\ scrubs' = scrubs + 1
  /\ Go(a, "acquired")
  /\ UNCHANGED <<life, work, close, scrubHeld, local>>

InitHoldScrub(a) ==
  /\ pc[a] = "acquired"
  /\ scrubHeld' = TRUE
  /\ Go(a, "bind")
  /\ UNCHANGED <<life, work, close, scrubs, local>>

(* _bind_upstream_embedding: the supervisor's constructor claims the          *)
(* process-wide owner, its child starts and the provider gets the reference.  *)
InitBind(a) ==
  /\ pc[a] = "bind"
  /\ sup.at = "released"
  /\ sup' = [gen |-> gen, at |-> "open"] /\ supRef' = gen
  /\ Go(a, "identity")
  /\ UNCHANGED <<life, work, callbacks, firing, scrub, local>>

(* The bind fails after the owner was claimed, and the child outlives the     *)
(* close() of its handler: a reaper thread releases the owner later, or no    *)
(* reaper starts and the owner is lost. The provider never sees a reference.  *)
InitBindFails(a) ==
  /\ pc[a] = "bind"
  /\ sup.at = "released"
  /\ "setup" \in Faults
  /\ \/ sup' = [gen |-> gen, at |-> "reaping"]
     \/ "startReaper" \in Faults /\ sup' = [gen |-> gen, at |-> "lost"]
  /\ Go(a, "failed")
  /\ UNCHANGED <<life, work, supRef, callbacks, firing, scrub, local>>

(* close() of an owned supervisor, whose child may outlive it: it is reaped   *)
(* later, or the owner is retained because no reaper could be started.        *)
ClosesOwned ==
  \/ sup' = [sup EXCEPT !.at = "closing"]
  \/ /\ "startReaper" \in Faults /\ sup.at # "closing"
     /\ sup' = [sup EXCEPT !.at = "retained"]

(* An existing WAL on an affected SQLite: no embedding service, no writes.    *)
InitReadOnly(a) ==
  /\ pc[a] = "bind"
  /\ Go(a, "publish")
  /\ UNCHANGED <<life, work, close, scrub, local>>

InitReady(a) ==
  /\ pc[a] = "identity" /\ StateLockFree
  /\ ready' = TRUE
  /\ Go(a, "publish")
  /\ UNCHANGED <<initializing, cancelled, gate, gen, queueRef, workerRef, health, pending,
                 work, close, scrub, local>>

(* The persisted identity was not proved: the embedding service is closed and *)
(* the provider goes on with keyword recall.                                  *)
InitUnready(a) ==
  /\ pc[a] = "identity" /\ StateLockFree
  /\ ClosesOwned
  /\ callbacks' = Append(callbacks, [sup |-> supRef, mark |-> FALSE])
  /\ Go(a, "publish")
  /\ UNCHANGED <<life, work, supRef, firing, scrub, local>>

(* The only place where a worker becomes visible, under the lifecycle lock.   *)
InitPublish(a) ==
  /\ pc[a] = "publish" /\ StateLockFree
  /\ ~cancelled
  /\ workerRef' = gen
  /\ worker' = [gen |-> gen, at |-> "get", taken |-> <<>>]
  /\ IF queueRef = 0 \/ gate
       THEN Go(a, "cancelled") /\ UNCHANGED health
       ELSE Go(a, "finally") /\ health' = IF ready THEN "ready" ELSE "degraded"
  /\ UNCHANGED <<initializing, cancelled, gate, gen, queueRef, ready, pending,
                 queue, overflow, turns, ledger, close, scrub, local>>

(* Thread.start() raises after the attribute was assigned.                    *)
InitStartFails(a) ==
  /\ pc[a] = "publish" /\ StateLockFree
  /\ ~cancelled
  /\ "startWorker" \in Faults
  /\ workerRef' = gen
  /\ worker' = [gen |-> gen, at |-> "unstarted", taken |-> <<>>]
  /\ Go(a, "failed")
  /\ UNCHANGED <<initializing, cancelled, gate, gen, queueRef, ready, health, pending,
                 queue, overflow, turns, ledger, close, scrub, local>>

InitCancelled(a) ==
  /\ pc[a] = "publish"
  /\ cancelled
  /\ Go(a, "cancelled")
  /\ UNCHANGED <<life, work, close, scrub, local>>

(* Configuration, storage or dependency errors, a bind whose close() reaped   *)
(* the child, or an embedding owner that is still claimed.                    *)
InitFails(a) ==
  /\ pc[a] \in {"bind", "identity", "publish"}
  /\ "setup" \in Faults \/ (pc[a] = "bind" /\ sup.at # "released")
  /\ Go(a, "failed")
  /\ UNCHANGED <<life, work, close, scrub, local>>

(* The locked part of both exception handlers.                                *)
InitAbandon(a) ==
  /\ pc[a] \in {"cancelled", "failed"} /\ StateLockFree
  /\ ready' = FALSE /\ queueRef' = 0 /\ queue' = <<>>
  /\ workerRef' = IF pc[a] = "failed" THEN 0 ELSE workerRef
  /\ gate' = TRUE
  /\ health' = IF pc[a] = "failed" THEN "failed" ELSE "stopped"
  /\ local' = [local EXCEPT ![a] = [NoLocals EXCEPT !.sup = supRef]]
  /\ Go(a, "close")
  /\ UNCHANGED <<initializing, cancelled, gen, pending, worker, overflow, turns, ledger,
                 close, scrub>>

InitFinally(a) ==
  /\ pc[a] = "finally"
  /\ initializing' = FALSE /\ cancelled' = FALSE
  /\ Return(a)
  /\ UNCHANGED <<gate, gen, queueRef, workerRef, ready, health, pending,
                 work, close, scrub>>

-----------------------------------------------------------------------------
(* shutdown()                                                                 *)

(* Before a worker is published, shutdown only asks the initializer to stop.  *)
ShutdownCancelsInit(a) ==
  /\ pc[a] = "idle" /\ a \in Caller
  /\ initializing /\ workerRef = 0
  /\ cancelled' = TRUE /\ gate' = TRUE
  /\ UNCHANGED <<initializing, gen, queueRef, workerRef, ready, health, pending,
                 work, close, scrub, pc, local>>

ShutdownRequest(a) ==
  /\ pc[a] = "idle" /\ a \in Caller
  /\ ~(initializing /\ workerRef = 0) /\ StateLockFree
  /\ queueRef # 0 /\ ~gate
  /\ gate' = TRUE /\ health' = "stopping"
  /\ local' = [local EXCEPT ![a] = [NoLocals EXCEPT !.queue = queueRef]]
  /\ Go(a, "sentinel")
  /\ UNCHANGED <<initializing, cancelled, gen, queueRef, workerRef, ready, pending,
                 work, close, scrub>>

(* A later shutdown() takes over a cleanup whose thread could not be started. *)
ShutdownRetry(a) ==
  /\ pc[a] = "idle" /\ a \in Caller
  /\ ~(initializing /\ workerRef = 0) /\ StateLockFree
  /\ queueRef # 0 /\ gate /\ pending
  /\ local' = [local EXCEPT ![a] =
                 [NoLocals EXCEPT !.queue = queueRef, !.worker = workerRef]]
  /\ Go(a, "schedule")
  /\ UNCHANGED <<life, work, close, scrub>>

(* An abandoned queue is read by nobody and has room.                         *)
PostSentinel(a) ==
  /\ pc[a] = "sentinel"
  /\ IF local[a].queue = queueRef
       THEN Len(queue) < Capacity /\ queue' = Append(queue, Sentinel)
       ELSE UNCHANGED queue
  /\ Go(a, "join")
  /\ UNCHANGED <<life, worker, overflow, turns, ledger, close, scrub, local>>

SentinelTimesOut(a) ==
  /\ pc[a] = "sentinel"
  /\ local[a].queue = queueRef /\ Len(queue) >= Capacity
  /\ Go(a, "join")
  /\ UNCHANGED <<life, work, close, scrub, local>>

(* worker = self._sync_worker, read without a lock, and its bounded join.     *)
JoinReturns(a) ==
  /\ pc[a] = "join"
  /\ workerRef # 0 => worker.at # "unstarted" /\ ~Alive(workerRef)
  /\ local' = [local EXCEPT ![a].worker = workerRef]
  /\ Go(a, "clear")
  /\ UNCHANGED <<life, work, close, scrub>>

(* Joining a thread that never started raises out of shutdown().              *)
JoinRaises(a) ==
  /\ pc[a] = "join"
  /\ workerRef # 0 /\ worker.at = "unstarted"
  /\ Go(a, "raised") /\ local' = [local EXCEPT ![a] = NoLocals]
  /\ UNCHANGED <<life, work, close, scrub>>

(* Variant: a timed-out join clears the state at once.                        *)
JoinTimesOutClears(a) ==
  /\ pc[a] = "join"
  /\ Alive(workerRef)
  /\ local' = [local EXCEPT ![a].worker = workerRef]
  /\ Go(a, "clear")
  /\ UNCHANGED <<life, work, close, scrub>>

JoinTimesOut(a) ==
  /\ pc[a] = "join" /\ StateLockFree
  /\ Alive(workerRef)
  /\ local' = [local EXCEPT ![a].worker = workerRef]
  /\ health' = "stopping" /\ pending' = TRUE
  /\ Go(a, "schedule")
  /\ UNCHANGED <<initializing, cancelled, gate, gen, queueRef, workerRef, ready,
                 work, close, scrub>>

(* _schedule_shutdown_cleanup                                                 *)
ScheduleNotNeeded(a) ==
  /\ pc[a] = "schedule"
  /\ ~Alive(local[a].worker)
  /\ Go(a, "clear")
  /\ UNCHANGED <<life, work, close, scrub, local>>

Schedule(a, c) ==
  /\ pc[a] = "schedule"
  /\ Alive(local[a].worker)
  /\ c \in Cleaner /\ pc[c] = "idle"
  /\ pc' = [pc EXCEPT ![a] = "scheduled", ![c] = "joining"]
  /\ local' = [local EXCEPT ![c] = local[a]]
  /\ UNCHANGED <<life, work, close, scrub>>

ScheduleFails(a) ==
  /\ pc[a] = "schedule"
  /\ Alive(local[a].worker)
  /\ "startCleaner" \in Faults
  /\ Return(a)
  /\ UNCHANGED <<life, work, close, scrub>>

Scheduled(a) ==
  /\ pc[a] = "scheduled" /\ StateLockFree
  /\ pending' = IF queueRef = local[a].queue THEN FALSE ELSE pending
  /\ Return(a)
  /\ UNCHANGED <<initializing, cancelled, gate, gen, queueRef, workerRef, ready, health,
                 work, close, scrub>>

(* _clear_state_after_workers_exit: an unbounded join.                        *)
CleanerJoins(c) ==
  /\ pc[c] = "joining"
  /\ ~Alive(local[c].worker)
  /\ Go(c, "clear")
  /\ UNCHANGED <<life, work, close, scrub, local>>

(* The locked part of _clear_runtime_state, for the generation that the       *)
(* thread shut down and no other.                                             *)
OwnsRuntime(a) ==
  /\ queueRef = local[a].queue
  /\ local[a].worker # 0 => workerRef = local[a].worker

ClearState(a) ==
  /\ pc[a] = "clear" /\ StateLockFree
  /\ OwnsRuntime(a)
  /\ queueRef' = 0 /\ queue' = <<>> /\ workerRef' = 0
  /\ pending' = FALSE /\ ready' = FALSE
  /\ health' = "stopping"
  /\ local' = [local EXCEPT ![a].sup = supRef, ![a].mark = TRUE]
  /\ Go(a, "close")
  /\ UNCHANGED <<initializing, cancelled, gate, gen, worker, overflow, turns, ledger,
                 close, scrub>>

ClearStale(a) ==
  /\ pc[a] = "clear" /\ StateLockFree
  /\ ~OwnsRuntime(a)
  /\ Return(a)
  /\ UNCHANGED <<life, work, close, scrub>>

-----------------------------------------------------------------------------
(* Closing the embedding owner and the log boundary                           *)

(* Variant: the callback does not ask whose supervisor was closed.            *)
FinishCloseUnchecked(s, mark) ==
  /\ supRef' = 0
  /\ gate' = IF queueRef # 0 THEN gate ELSE FALSE
  /\ health' = IF queueRef = 0 /\ mark THEN "stopped" ELSE health

(* _finish_embedding_runtime_close(s, mark_stopped); s = 0 for None.          *)
FinishClose(s, mark) ==
  IF s # 0 /\ supRef # s
  THEN UNCHANGED <<supRef, gate, health>>
  ELSE /\ supRef' = 0
       /\ gate' = IF queueRef # 0 THEN gate ELSE FALSE
       /\ health' = IF queueRef = 0 /\ mark THEN "stopped" ELSE health

(* _close_embedding_runtime when nothing is owned any more: _when_closed runs *)
(* the callback at once.                                                      *)
CloseReleased(a) ==
  /\ pc[a] = "close" /\ StateLockFree
  /\ \/ local[a].sup = 0
     \/ sup.gen = local[a].sup /\ sup.at = "released"
     \/ sup.gen > local[a].sup
  /\ FinishClose(local[a].sup, local[a].mark)
  /\ Go(a, "unscrub")
  /\ UNCHANGED <<initializing, cancelled, gen, queueRef, workerRef, ready, pending,
                 work, sup, callbacks, firing, scrub, local>>

CloseOwned(a) ==
  /\ pc[a] = "close"
  /\ sup.gen = local[a].sup /\ sup.at # "released"
  /\ ClosesOwned
  /\ callbacks' = Append(callbacks, [sup |-> local[a].sup, mark |-> local[a].mark])
  /\ Go(a, "unscrub")
  /\ UNCHANGED <<life, work, supRef, firing, scrub, local>>

(* The child was reaped: ownership is released and the callbacks are taken.   *)
SupervisorReleased ==
  /\ sup.at \in {"closing", "reaping"}
  /\ sup' = [sup EXCEPT !.at = "released"]
  /\ firing' = firing \o callbacks /\ callbacks' = <<>>
  /\ UNCHANGED <<life, work, supRef, scrub, pc, local>>

(* Each releasing thread runs its callbacks in the order of registration.     *)
FireCallback ==
  /\ StateLockFree
  /\ \E i \in DOMAIN firing :
       /\ \A j \in 1..(i - 1) : firing[j].sup # firing[i].sup
       /\ FinishClose(firing[i].sup, firing[i].mark)
       /\ firing' = RemoveAt(firing, i)
  /\ UNCHANGED <<initializing, cancelled, gen, queueRef, workerRef, ready, pending,
                 work, sup, callbacks, scrub, pc, local>>

(* An initializer goes on to its finalizer; it never shut a queue down.       *)
AfterScrub(a) ==
  IF local[a].queue = 0 THEN Go(a, "finally") /\ UNCHANGED local ELSE Return(a)

(* if self._log_scrub_acquired: release ...                                   *)
ReleaseScrub(a) ==
  /\ pc[a] = "unscrub"
  /\ IF scrubHeld
       THEN /\ scrubs' = IF scrubs = 0 THEN 0 ELSE scrubs - 1
            /\ Go(a, "forget") /\ UNCHANGED local
       ELSE AfterScrub(a) /\ UNCHANGED scrubs
  /\ UNCHANGED <<life, work, close, scrubHeld>>

(* ... self._log_scrub_acquired = False                                       *)
ForgetScrub(a) ==
  /\ pc[a] = "forget"
  /\ scrubHeld' = FALSE
  /\ AfterScrub(a)
  /\ UNCHANGED <<life, work, close, scrubs>>

-----------------------------------------------------------------------------
(* sync_turn() and the ledger                                                 *)

Turn(fate) == Append(turns, [gen |-> gen, fate |-> fate])

Admit(l) == [l EXCEPT !.accepted = @ + 1, !.pending = @ + 1]
Reject(l) == [l EXCEPT !.done["rejected"] = @ + 1]
DropPending(l) ==
  [l EXCEPT !.pending = IF @ > 0 THEN @ - 1 ELSE 0, !.done["dropped"] = @ + 1]
Start(l) ==
  [l EXCEPT !.pending = IF @ > 0 THEN @ - 1 ELSE 0, !.inFlight = @ + 1]

(* complete, fail, drop_in_flight and reject_in_flight.                       *)
Settle(l, fate) ==
  [l EXCEPT !.inFlight = IF @ > 0 THEN @ - 1 ELSE 0,
            !.accepted = IF fate = "rejected" /\ @ > 0 THEN @ - 1 ELSE @,
            !.done[fate] = @ + 1]

Calling == StateLockFree /\ Len(turns) < MaxTurns

Admissible == ready /\ ~initializing /\ ~gate /\ queueRef # 0

(* A turn that arrives while the provider starts or stops is counted, not     *)
(* queued; before and after that the call does nothing.                       *)
SyncTurnRejected ==
  /\ Calling /\ ~Admissible
  /\ queueRef # 0 /\ (initializing \/ gate)
  /\ turns' = Turn("rejected") /\ ledger' = Reject(ledger)
  /\ UNCHANGED <<life, queue, worker, overflow, close, scrub, pc, local>>

(* Variant: a turn is accepted after the shutdown gate closed.                *)
SyncTurnUngated ==
  /\ Calling /\ ready /\ ~initializing /\ queueRef # 0
  /\ IF Len(queue) < Capacity
       THEN /\ queue' = Append(queue, Len(turns) + 1)
            /\ turns' = Turn("queued") /\ ledger' = Admit(ledger)
            /\ UNCHANGED overflow
       ELSE overflow' = "full" /\ UNCHANGED <<queue, turns, ledger>>
  /\ UNCHANGED <<life, worker, close, scrub, pc, local>>

SyncTurn ==
  /\ Calling /\ Admissible
  /\ IF Len(queue) < Capacity
       THEN /\ queue' = Append(queue, Len(turns) + 1)
            /\ turns' = Turn("queued") /\ ledger' = Admit(ledger)
            /\ UNCHANGED overflow
       ELSE overflow' = "full" /\ UNCHANGED <<queue, turns, ledger>>
  /\ UNCHANGED <<life, worker, close, scrub, pc, local>>

(* Variant: the dropped turn stays pending in the ledger.                     *)
DropOldestUncounted ==
  /\ overflow = "full"
  /\ IF queue # <<>>
       THEN queue' = Tail(queue) /\ turns' = [turns EXCEPT ![Head(queue)].fate = "dropped"]
       ELSE UNCHANGED <<queue, turns>>
  /\ overflow' = "dropped"
  /\ UNCHANGED <<life, worker, ledger, close, scrub, pc, local>>

(* The oldest entry is taken out, unless the worker emptied the queue.        *)
DropOldest ==
  /\ overflow = "full"
  /\ IF queue # <<>>
       THEN /\ queue' = Tail(queue)
            /\ turns' = IF Head(queue) = Sentinel THEN turns
                        ELSE [turns EXCEPT ![Head(queue)].fate = "dropped"]
            /\ ledger' = DropPending(ledger)
       ELSE UNCHANGED <<queue, turns, ledger>>
  /\ overflow' = "dropped"
  /\ UNCHANGED <<life, worker, close, scrub, pc, local>>

PutAfterDrop ==
  /\ overflow = "dropped"
  /\ IF Len(queue) < Capacity
       THEN /\ queue' = Append(queue, Len(turns) + 1)
            /\ turns' = Turn("queued") /\ ledger' = Admit(ledger)
       ELSE turns' = Turn("rejected") /\ ledger' = Reject(ledger) /\ UNCHANGED queue
  /\ overflow' = "none"
  /\ UNCHANGED <<life, worker, close, scrub, pc, local>>

-----------------------------------------------------------------------------
(* _worker_loop()                                                             *)

WorkerAt(point) == worker' = [worker EXCEPT !.at = point]

WorkerGets ==
  /\ worker.at = "get" /\ queue # <<>>
  /\ queue' = Tail(queue)
  /\ worker' = IF Head(queue) = Sentinel
                 THEN [worker EXCEPT !.at = "drained"]
                 ELSE [worker EXCEPT !.at = "fill", !.taken = <<Head(queue)>>]
  /\ UNCHANGED <<life, overflow, turns, ledger, close, scrub, pc, local>>

(* get() timed out; _shutdown_started is read in a later step.                *)
WorkerTimesOut ==
  /\ worker.at = "get" /\ queue = <<>>
  /\ WorkerAt("empty")
  /\ UNCHANGED <<life, queue, overflow, turns, ledger, close, scrub, pc, local>>

(* Variant: only the sentinel ends the worker.                                *)
WorkerIgnoresGate ==
  /\ worker.at = "empty"
  /\ WorkerAt("get")
  /\ UNCHANGED <<life, queue, overflow, turns, ledger, close, scrub, pc, local>>

WorkerChecksGate ==
  /\ worker.at = "empty"
  /\ WorkerAt(IF gate THEN "left" ELSE "get")
  /\ UNCHANGED <<life, queue, overflow, turns, ledger, close, scrub, pc, local>>

(* experimental_batch_sync: more entries, up to a sentinel or an empty queue. *)
WorkerFills ==
  /\ worker.at = "fill"
  /\ IF queue # <<>> /\ Len(worker.taken) < Batch /\ Last(worker.taken) # Sentinel
       THEN /\ queue' = Tail(queue)
            /\ worker' = [worker EXCEPT !.taken = Append(@, Head(queue))]
       ELSE WorkerAt("next") /\ UNCHANGED queue
  /\ UNCHANGED <<life, overflow, turns, ledger, close, scrub, pc, local>>

WorkerStartsTurn ==
  /\ worker.at = "next" /\ StateLockFree
  /\ worker.taken \notin {<<>>, <<Sentinel>>}
  /\ ledger' = Start(ledger)
  /\ turns' = [turns EXCEPT ![Head(worker.taken)].fate = "running"]
  /\ WorkerAt("turn")
  /\ UNCHANGED <<life, queue, overflow, close, scrub, pc, local>>

(* The turn was persisted, failed, was dropped or was refused admission; the  *)
(* ledger hears of it only in the generation that admitted it.                *)
WorkerEndsTurn(fate) ==
  /\ worker.at = "turn" /\ StateLockFree
  /\ turns' = [turns EXCEPT ![Head(worker.taken)].fate = fate]
  /\ ledger' = IF worker.gen = gen THEN Settle(ledger, fate) ELSE ledger
  /\ health' = IF /\ fate = "failed" /\ worker.gen = gen /\ ~gate
                  /\ health \notin {"stopping", "stopped"}
               THEN "degraded" ELSE health
  /\ worker' = [worker EXCEPT !.at = "next", !.taken = Tail(@)]
  /\ UNCHANGED <<initializing, cancelled, gate, gen, queueRef, workerRef, ready, pending,
                 queue, overflow, close, scrub, pc, local>>

WorkerEndsBatch ==
  /\ worker.at = "next"
  /\ worker.taken \in {<<>>, <<Sentinel>>}
  /\ worker' = [worker EXCEPT !.at = IF worker.taken = <<>> THEN "get" ELSE "drained",
                               !.taken = <<>>]
  /\ UNCHANGED <<life, queue, overflow, turns, ledger, close, scrub, pc, local>>

-----------------------------------------------------------------------------
Initialize(a) ==
  \/ InitSetup(a) \/ InitAcquireScrub(a) \/ InitHoldScrub(a)
  \/ InitBind(a) \/ InitBindFails(a) \/ InitReadOnly(a) \/ InitReady(a) \/ InitUnready(a)
  \/ InitPublish(a) \/ InitStartFails(a) \/ InitCancelled(a) \/ InitFails(a)
  \/ InitAbandon(a) \/ InitFinally(a)

Teardown(a) ==
  \/ PostSentinel(a) \/ SentinelTimesOut(a)
  \/ JoinReturns(a) \/ JoinRaises(a) \/ JoinTimesOut(a)
  \/ ScheduleNotNeeded(a) \/ ScheduleFails(a) \/ Scheduled(a)
  \/ (\E c \in Cleaner : Schedule(a, c))
  \/ CleanerJoins(a) \/ ClearState(a) \/ ClearStale(a)
  \/ CloseReleased(a) \/ CloseOwned(a) \/ ReleaseScrub(a) \/ ForgetScrub(a)

Shutdown(a) == ShutdownCancelsInit(a) \/ ShutdownRequest(a) \/ ShutdownRetry(a)

Produce == SyncTurnRejected \/ SyncTurn

Overflow == DropOldest \/ PutAfterDrop

WorkerLoop ==
  \/ WorkerGets \/ WorkerTimesOut \/ WorkerChecksGate \/ WorkerFills
  \/ WorkerStartsTurn \/ (\E fate \in Fates : WorkerEndsTurn(fate)) \/ WorkerEndsBatch

Next ==
  \/ \E a \in Actor : InitClaim(a) \/ Initialize(a) \/ Shutdown(a) \/ Teardown(a)
  \/ SupervisorReleased \/ FireCallback
  \/ Produce \/ Overflow \/ WorkerLoop

Spec == Init /\ [][Next]_vars

(* Threads that run go on running, a turn ends (its calls are bounded by      *)
(* timeouts), and a child told to stop is reaped. Nobody has to call          *)
(* initialize(), shutdown() or sync_turn().                                   *)
FairSpec ==
  /\ Spec
  /\ WF_vars(WorkerLoop) /\ WF_vars(Overflow)
  /\ WF_vars(SupervisorReleased) /\ WF_vars(FireCallback)
  /\ \A a \in Actor : WF_vars(Initialize(a)) /\ WF_vars(Teardown(a))

-----------------------------------------------------------------------------
TypeOK ==
  /\ initializing \in BOOLEAN /\ cancelled \in BOOLEAN /\ gate \in BOOLEAN
  /\ ready \in BOOLEAN /\ pending \in BOOLEAN /\ scrubHeld \in BOOLEAN
  /\ {gen, queueRef, workerRef, supRef} \subseteq 0..MaxGen
  /\ health \in {"uninitialized", "initializing", "ready", "degraded", "stopping",
                 "stopped", "failed"}
  /\ queue \in Seq(0..MaxTurns) /\ Len(queue) <= Capacity
  /\ worker.gen \in 0..MaxGen /\ Len(worker.taken) <= Batch
  /\ overflow \in {"none", "full", "dropped"}
  /\ \A t \in DOMAIN turns : turns[t].gen \in 1..MaxGen
                           /\ turns[t].fate \in Fates \cup {"queued", "running"}
  /\ sup.gen \in 0..MaxGen /\ sup.at \in SupervisorAt
  /\ scrubs \in 0..MaxGen
  /\ local \in [Actor -> [worker : 0..MaxGen, queue : 0..MaxGen, sup : 0..MaxGen,
                          mark : BOOLEAN]]

FatesOf(g, fates) ==
  Cardinality({t \in DOMAIN turns : turns[t].gen = g /\ turns[t].fate \in fates})

(* The health report's work counters are what happened to the turns: none is  *)
(* lost or counted twice by an overflow racing the worker, a rejection at the *)
(* admission boundary or a shutdown, and the saturating subtractions of the   *)
(* ledger never hide a miscount.                                              *)
LedgerMatchesTurns ==
  StateLockFree =>
    /\ \A f \in Fates : ledger.done[f] = FatesOf(gen, {f})
    /\ ledger.pending = FatesOf(gen, {"queued"})
    /\ ledger.inFlight = FatesOf(gen, {"running"})
    /\ ledger.accepted = FatesOf(gen, (Fates \ {"rejected"}) \cup {"queued", "running"})

(* A worker that reached the sentinel had taken every turn accepted before it *)
(* and none was accepted after it or pushed the sentinel out.                 *)
SentinelDrains ==
  worker.at = "drained" => FatesOf(worker.gen, {"queued", "running"}) = 0

(* The state a worker uses (queue, config, database path, model) stays until  *)
(* the thread has really ended, however early the bounded join gave up, and   *)
(* no generation replaces it before.                                          *)
WorkerKeepsRuntime ==
  WorkerAlive => queueRef = worker.gen /\ workerRef = worker.gen /\ gen = worker.gen

(* The provider that bound the embedding process keeps the reference it needs *)
(* to close it until the owner is released: neither a late close callback of  *)
(* an earlier generation, nor one that fires after a bind that failed and     *)
(* left an owner behind, drops the reference to a bound supervisor.           *)
OwnedSupervisorKept == sup.at \in Bound => supRef = sup.gen

(* "Retain the process and owner for a later close() retry": an owner without *)
(* a reaper is held by a thread that closes it or by a provider whose         *)
(* shutdown() will reach it. Does not hold (README, Disagreements).           *)
RetainedIsRetriable ==
  sup.at \in {"retained", "lost"} =>
    \/ supRef = sup.gen /\ queueRef # 0
    \/ \E a \in Actor : local[a].sup = sup.gen

(* Once shutdown was requested of a published generation, its runtime state   *)
(* and its embedding process are eventually released.                         *)
RuntimeReleased ==
  \A g \in 1..MaxGen :
    gate /\ workerRef = g ~> workerRef # g /\ ~(sup.gen = g /\ sup.at # "released")

(* "Items already in the queue remain ahead of the sentinel and receive a     *)
(* bounded opportunity to persist before the worker exits."                   *)
(* Does not hold (README, Disagreements).                                     *)
NoLostTurn ==
  worker.at \in {"drained", "left"} => FatesOf(worker.gen, {"queued"}) = 0

(* "a provider instance may be initialized again after a prior shutdown":     *)
(* the shutdown gate does not stay closed.                                    *)
(* Does not hold (README, Disagreements).                                     *)
ReinitializableAfterShutdown == gate ~> ~gate

(* "Install one reversible boundary for all live Cashew providers": when the  *)
(* only provider is down and idle the boundary is gone.                       *)
(* Does not hold (README, Disagreements).                                     *)
ScrubBalanced ==
  (\A a \in Actor : pc[a] = "idle") /\ queueRef = 0 /\ ~gate => scrubs = 0
=============================================================================
