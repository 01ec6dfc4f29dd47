---------------------------- MODULE WarmRecall ----------------------------
(* Prefetch: after a turn the host queues a warmup; a single daemon thread   *)
(* extracts cues with the auxiliary model, retrieves nodes and stages the    *)
(* result; the next prefetch() consumes it if it is still the answer to the  *)
(* same question.  Session switches, newer requests, shutdown and a new      *)
(* initialize() come in between.  The cue extraction and the sync worker     *)
(* call the auxiliary model through ModelGate.                               *)
(*                                                                           *)
(* A request's identity is [gen, session, runtime, filter]; runtime stands   *)
(* for the database path, the configuration, the epoch and the embedding     *)
(* generation, which all change only with initialize().  Abstracted: query   *)
(* texts and the match between a cue and a query (a hit may happen whenever  *)
(* the identities agree); the retrieval, which is SessionEngine's recall.    *)
EXTENDS ModelGate

CONSTANTS
  Sessions,     \* session ids
  MaxGen,       \* bound on _prefetch_generation
  MaxRuntime    \* bound on initialize() calls

ASSUME WarmAssumption == MaxGen \in Nat /\ MaxRuntime \in Nat /\ {"sync", "warm"} \subseteq Askers

VARIABLES
  phase,     \* "down", "up", "stopping" (_shutdown_started is set)
  runtime,   \* the initialized runtime; its model callable has the same number
  session,   \* _session_id
  gen,       \* _prefetch_generation
  latest,    \* _prefetch_latest_identity
  slot,      \* _prefetch_pending_request
  staged,    \* _prefetch_pending
  worker,    \* the daemon: [at, req, from]
  served     \* the last prefetch(): what it asked for and what it was given

recallVars == <<phase, runtime, session, gen, latest, slot, staged, worker, served>>
vars == <<recallVars, gateVars>>

None == [gen |-> -1, session |-> "none", runtime |-> 0, filter |-> "none"]
Identity(s, g, f) == [gen |-> g, session |-> s, runtime |-> runtime, filter |-> f]
\* A result: the identity it was computed for and the runtime it was read from.
NoResult == [id |-> None, from |-> 0]
NoWorker == [at |-> "none", req |-> None, from |-> 0]

\* The request is the latest, and the same question asked now is the same.
IsCurrent(id) ==
  /\ phase = "up" /\ latest = id
  /\ id = Identity(id.session, gen, id.filter)

Forgotten == latest' = None /\ slot' = None /\ staged' = NoResult

(***************************************************************************)
(* The host's calls                                                        *)
(***************************************************************************)

Initialize(s) ==
  /\ phase = "down" /\ runtime < MaxRuntime
  /\ phase' = "up" /\ runtime' = runtime + 1 /\ session' = s
  /\ UNCHANGED <<gen, latest, slot, staged, worker, served, gateVars>>

\* queue_prefetch replaces the pending request; the worker is started only
\* when there is none alive.
QueuePrefetch(s) ==
  /\ phase = "up" /\ gen < MaxGen
  /\ gen' = gen + 1
  /\ staged' = NoResult
  /\ slot' = Identity(s, gen', "none") /\ latest' = slot'
  /\ worker' = IF worker.at = "none" THEN [NoWorker EXCEPT !.at = "waiting"] ELSE worker
  /\ UNCHANGED <<phase, runtime, session, served, gateVars>>

\* An empty query, or a thread that cannot start: nothing is pending.
QueueNothing(s) ==
  /\ phase = "up" /\ gen < MaxGen
  /\ gen' = gen + 1
  /\ staged' = NoResult
  /\ \/ latest' = None /\ slot' = slot
     \/ worker.at = "none" /\ latest' = Identity(s, gen', "none") /\ slot' = None
  /\ UNCHANGED <<phase, runtime, session, worker, served, gateVars>>

\* A plausible slip: any pending result of the session will do.
ConsumePendingOfSession(s, f) ==
  /\ phase = "up"
  /\ staged' = NoResult
  /\ served' = [asked |-> Identity(s, gen, f),
                got |-> IF staged.id.session = s THEN staged ELSE NoResult]
  /\ UNCHANGED <<phase, runtime, session, gen, latest, slot, worker, gateVars>>

\* prefetch takes the pending result under the lock and keeps it only if its
\* identity is the one of this question; the snapshot of the warm cache is
\* emptied in the same critical section, so nothing outlives one call.
ConsumePending(s, f) ==
  /\ phase = "up"
  /\ staged' = NoResult
  /\ served' = [asked |-> Identity(s, gen, f),
                got |-> IF staged.id = Identity(s, gen, f) THEN staged ELSE NoResult]
  /\ UNCHANGED <<phase, runtime, session, gen, latest, slot, worker, gateVars>>

OnSessionSwitch(s) ==
  /\ phase = "up" /\ gen < MaxGen
  /\ session' = s /\ gen' = gen + 1
  /\ Forgotten
  /\ UNCHANGED <<phase, runtime, worker, served, gateVars>>

ShutdownBegins ==
  /\ phase = "up"
  /\ phase' = "stopping" /\ gen' = gen + 1
  /\ Forgotten
  /\ UNCHANGED <<runtime, session, worker, served, gateVars>>

\* After the joins, whether they succeeded or timed out.
CloseModel ==
  /\ phase = "stopping" /\ runtime \notin closed
  /\ Close(runtime)
  /\ UNCHANGED recallVars

\* Only when every worker has exited.
ClearRuntimeState ==
  /\ phase = "stopping" /\ runtime \in closed /\ worker.at = "none" /\ asking["sync"] = 0
  /\ phase' = "down" /\ gen' = gen + 1
  /\ Forgotten
  /\ UNCHANGED <<runtime, session, worker, served, gateVars>>

(***************************************************************************)
(* The warmup daemon                                                       *)
(***************************************************************************)

Back == worker' = [NoWorker EXCEPT !.at = "waiting"]

TakeRequest ==
  /\ worker.at = "waiting" /\ slot # None
  /\ slot' = None
  /\ worker' = IF IsCurrent(slot) THEN [at |-> "cues", req |-> slot, from |-> 0]
               ELSE [NoWorker EXCEPT !.at = "waiting"]
  /\ UNCHANGED <<phase, runtime, session, gen, latest, staged, served, gateVars>>

\* A plausible slip: an idle worker retires on a timeout.
WorkerRetires ==
  /\ worker.at = "waiting" /\ slot = None
  /\ worker' = [NoWorker EXCEPT !.at = "exiting"]
  /\ UNCHANGED <<phase, runtime, session, gen, latest, slot, staged, served, gateVars>>

\* It leaves its loop at shutdown only ...
WorkerStops ==
  /\ worker.at = "waiting" /\ slot = None /\ phase # "up"
  /\ worker' = [NoWorker EXCEPT !.at = "exiting"]
  /\ UNCHANGED <<phase, runtime, session, gen, latest, slot, staged, served, gateVars>>

\* ... and takes itself off the provider in a second critical section, until
\* which it counts as alive.
WorkerExits ==
  /\ worker.at = "exiting"
  /\ worker' = NoWorker
  /\ UNCHANGED <<phase, runtime, session, gen, latest, slot, staged, served, gateVars>>

\* _extract_prefetch_cues calls the model ...
AskForCues ==
  /\ worker.at = "cues"
  /\ Admit("warm", runtime)
  /\ worker' = [worker EXCEPT !.at = "asking"]
  /\ UNCHANGED <<phase, runtime, session, gen, latest, slot, staged, served>>

\* ... unless it is off, busy, or no call is wanted: the query is the cue.
OwnCue ==
  /\ worker.at = "cues"
  /\ worker' = [worker EXCEPT !.at = "retrieve"]
  /\ UNCHANGED <<phase, runtime, session, gen, latest, slot, staged, served, gateVars>>

CuesReturned ==
  /\ worker.at = "asking"
  /\ Answered("warm") \/ GiveUp("warm")
  /\ worker' = [worker EXCEPT !.at = "retrieve"]
  /\ UNCHANGED <<phase, runtime, session, gen, latest, slot, staged, served>>

\* The checks before each cue; then retrieval under a lease of the runtime.
Retrieve ==
  /\ worker.at = "retrieve"
  /\ IF IsCurrent(worker.req)
     THEN \/ worker' = [worker EXCEPT !.at = "stage", !.from = runtime]
          \/ Back  \* it raises, or finds no node
     ELSE Back
  /\ UNCHANGED <<phase, runtime, session, gen, latest, slot, staged, served, gateVars>>

\* A plausible slip: the check before the cues is taken to be enough.
StageUnchecked ==
  /\ worker.at = "stage"
  /\ staged' = [id |-> worker.req, from |-> worker.from]
  /\ Back
  /\ UNCHANGED <<phase, runtime, session, gen, latest, slot, served, gateVars>>

\* Published only if the same question asked now would be the same; after the
\* runtime was cleared the comparison itself fails, with the same result.
StageResult ==
  /\ worker.at = "stage"
  /\ staged' = IF phase # "down" /\ worker.req = Identity(worker.req.session, gen, worker.req.filter)
               THEN [id |-> worker.req, from |-> worker.from] ELSE staged
  /\ Back
  /\ UNCHANGED <<phase, runtime, session, gen, latest, slot, served, gateVars>>

(***************************************************************************)
(* The sync worker's model calls, and the backends                         *)
(***************************************************************************)

SyncAsks ==
  /\ phase # "down" /\ runtime > 0
  /\ Admit("sync", runtime)
  /\ UNCHANGED recallVars

SyncReturns == (Answered("sync") \/ GiveUp("sync")) /\ UNCHANGED recallVars

BackendEnds(j) == (FinishLocked(j) \/ FinishReleases(j)) /\ UNCHANGED recallVars

---------------------------------------------------------------------------

Init ==
  /\ phase = "down" /\ runtime = 0 /\ session \in Sessions /\ gen = 0
  /\ latest = None /\ slot = None /\ staged = NoResult /\ worker = NoWorker
  /\ served = [asked |-> None, got |-> NoResult]
  /\ GateInit

WorkerSteps ==
  \/ TakeRequest \/ WorkerStops \/ WorkerExits \/ AskForCues \/ OwnCue \/ CuesReturned
  \/ Retrieve \/ StageResult

Next ==
  \/ \E s \in Sessions :
       \/ Initialize(s) \/ QueuePrefetch(s) \/ QueueNothing(s) \/ OnSessionSwitch(s)
       \/ \E f \in {"none", "tag"} : ConsumePending(s, f)
  \/ ShutdownBegins \/ CloseModel \/ ClearRuntimeState
  \/ WorkerSteps
  \/ SyncAsks \/ SyncReturns
  \/ \E j \in Jobs : BackendEnds(j)

\* The daemon runs, waits for the model are bounded, shutdown proceeds; no
\* backend is assumed to end.
FairSpec ==
  /\ Init /\ [][Next]_vars
  /\ WF_vars(WorkerSteps) /\ WF_vars(SyncReturns) /\ WF_vars(CloseModel) /\ WF_vars(ClearRuntimeState)

---------------------------------------------------------------------------

\* Every variable keeps its type, and a thread waits for an admitted job.
TypeOK ==
  /\ phase \in {"down", "up", "stopping"} /\ runtime \in 0..MaxRuntime
  /\ gen \in Nat /\ session \in Sessions
  /\ worker.at \in {"none", "waiting", "cues", "asking", "retrieve", "stage", "exiting"}
  /\ (worker.at = "asking") = (asking["warm"] # 0)
  /\ \A a \in Askers : asking[a] # 0 => job[asking[a]].at # "unused"

\* A staged result belongs to the present: whatever switch, newer request,
\* shutdown or initialize() happened while the daemon worked, what waits for
\* the next prefetch() was computed for the current generation by the current
\* runtime.
StagedIsCurrent ==
  staged # NoResult =>
    /\ phase = "up"
    /\ staged.id = Identity(staged.id.session, gen, staged.id.filter)
    /\ staged.from = runtime

\* A warm hit answers the question asked: same session, same filters, and
\* nodes read from the runtime that answers.
HitAnswersQuestion ==
  served.got # NoResult =>
    /\ served.got.id.session = served.asked.session
    /\ served.got.id.filter = served.asked.filter
    /\ served.got.from = served.asked.runtime

\* A queued warmup is taken up or replaced: no request is left in the slot of
\* a daemon that is about to go.
QueuedIsHandled == (slot # None) ~> (slot = None)
=============================================================================
