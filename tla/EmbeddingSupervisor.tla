------------------------ MODULE EmbeddingSupervisor ------------------------
(***************************************************************************)
(* The embedding supervisors of one process (embedding_process.py) and the *)
(* worker children they start (embedding_worker.py).  A supervisor claims  *)
(* the process-wide _OWNER slot when it is built and gives it back once it *)
(* is closed and its child is reaped.  A request runs on a thread of its   *)
(* own under _request_lock, which outlives a caller that stops waiting;    *)
(* close() may have to terminate the child without that lock.              *)
(***************************************************************************)
EXTENDS Naturals, Sequences

CONSTANTS
  Supervisor,   \* the generations a process builds, one after another
  Request,      \* encode() calls of a generation
  MaxChild,     \* bound: children one generation starts
  MaxClose,     \* bound: close() calls of one generation
  Faults,       \* "exit", "protocol", "reaper", "cleanup", "thread"
  None          \* Python's None

ASSUME SupervisorAssumption ==
  /\ MaxChild \in Nat \ {0}
  /\ MaxClose \in Nat
  /\ None \notin Supervisor \cup Request \cup {"starter", "closer", "cleanup", "hello"}
  /\ None \notin 1..MaxChild
  /\ Request \cap {"starter", "closer", "cleanup", "hello"} = {}
  /\ Faults \subseteq {"exit", "protocol", "reaper", "cleanup", "thread"}

\* The threads that run code of a supervisor (reaper threads are counted in sup).
Thread == {"starter", "closer", "cleanup"} \cup Request

Child == 1..MaxChild

VARIABLES
  owner,    \* _OWNER
  sup,      \* the attributes of each supervisor, see TypeOK
  pc,       \* where each thread is
  loc,      \* its locals: the process _terminate read, where _terminate
            \* returns to, and whether the failure allows a retry on the CPU
  child,    \* each child: not started, loading, ready, told to die, gone
  inbox,    \* requests written to a child and not yet answered
  outbox    \* frames a child wrote and nobody read yet

vars == <<owner, sup, pc, loc, child, inbox, outbox>>

\* EmbeddingFailure, as far as the supervisor tells reasons apart: STARTUP, EXITED
\* and TIMEOUT are transient; CLOSED, BUSY and PROTOCOL are not.
NoLocals == [victim |-> None, ret |-> "idle", transient |-> FALSE]

Fresh == [built |-> FALSE, closed |-> FALSE, closeWaiting |-> FALSE,
          reaping |-> FALSE, process |-> None, socket |-> None, lock |-> None,
          gate |-> None, cpu |-> FALSE, backoff |-> FALSE, accepted |-> {},
          reapers |-> [c \in Child |-> 0], reaped |-> 0, closes |-> 0, kept |-> FALSE,
          released |-> FALSE, callback |-> "none", ran |-> 0]

Init ==
  /\ owner = None
  /\ sup = [s \in Supervisor |-> Fresh]
  /\ pc = [s \in Supervisor |-> [t \in Thread |-> "idle"]]
  /\ loc = [s \in Supervisor |-> [t \in Thread |-> NoLocals]]
  /\ child = [s \in Supervisor |-> [c \in Child |-> "none"]]
  /\ inbox = [s \in Supervisor |-> [c \in Child |-> <<>>]]
  /\ outbox = [s \in Supervisor |-> [c \in Child |-> <<>>]]

Goto(s, t, label) == pc' = [pc EXCEPT ![s][t] = label]

At(s, t, label) == pc[s][t] = label

\* A request thread that ended makes room for the next call.
Ended(t) == IF t \in Request THEN "idle" ELSE "done"

Alive(s, c) == child[s][c] \in {"loading", "ready", "killed"}

\* __init__ and _claim_owner: refused while another supervisor owns the slot.
ClaimOwner(s, cpuDevice) ==
  /\ ~sup[s].built
  /\ owner = None
  /\ owner' = s
  /\ sup' = [sup EXCEPT ![s].built = TRUE, ![s].cpu = cpuDevice]
  /\ UNCHANGED <<pc, loc, child, inbox, outbox>>

-----------------------------------------------------------------------------
(* Calls.  A service call holds the generation gate from its closed check    *)
(* until its encode() returns.                                               *)

\* serve_generation: the gate, then the closed check.  The service is published
\* only after start() succeeded (_bind_profile_embedding_service).
ServeGeneration(s, r) ==
  /\ At(s, "starter", "done")
  /\ sup[s].accepted # {}
  /\ At(s, r, "idle")
  /\ sup[s].gate = None
  /\ ~sup[s].closed
  /\ sup' = [sup EXCEPT ![s].gate = r]
  /\ Goto(s, r, "lock")
  /\ UNCHANGED <<owner, loc, child, inbox, outbox>>

\* encode(): the request lock, within the caller's patience, and the thread.
EncodeBegins(s, r) ==
  /\ At(s, r, "lock")
  /\ \/ /\ sup[s].lock = None
        /\ sup' = [sup EXCEPT ![s].lock = r]
        /\ Goto(s, r, "check")
     \/ /\ sup[s].lock # None
        /\ sup' = [sup EXCEPT ![s].gate = None]
        /\ Goto(s, r, "idle")
  /\ UNCHANGED <<owner, loc, child, inbox, outbox>>

\* The request thread cannot be started: the lock is given back.
ThreadFails(s, r) ==
  /\ "thread" \in Faults
  /\ At(s, r, "lock")
  /\ sup[s].lock = None
  /\ sup' = [sup EXCEPT ![s].gate = None]
  /\ Goto(s, r, "idle")
  /\ UNCHANGED <<owner, loc, child, inbox, outbox>>

\* The caller's wait expires while the request thread goes on with the lock.
CallerGivesUp(s, r) ==
  /\ sup[s].gate = r
  /\ ~At(s, r, "lock")
  /\ sup' = [sup EXCEPT ![s].gate = None]
  /\ UNCHANGED <<owner, pc, loc, child, inbox, outbox>>

\* start(), by the thread that built the supervisor, before anyone else has it.
StartBegins(s) ==
  /\ sup[s].built
  /\ At(s, "starter", "idle")
  /\ sup' = [sup EXCEPT ![s].lock = "starter"]
  /\ Goto(s, "starter", "start")
  /\ UNCHANGED <<owner, loc, child, inbox, outbox>>

\* Enter _terminate, to come back to ret.
CallTerminate(s, t, transient, ret) ==
  /\ loc' = [loc EXCEPT ![s][t] = [victim |-> None, ret |-> ret, transient |-> transient]]
  /\ Goto(s, t, "terminate")

\* Leave _terminate.
Return(s, t) ==
  /\ Goto(s, t, loc[s][t].ret)
  /\ loc' = [loc EXCEPT ![s][t] = [NoLocals EXCEPT !.transient = loc[s][t].transient]]

-----------------------------------------------------------------------------
(* Starting a child.                                                         *)

\* _start: closed or reaping, then the backoff, whose time may have passed or
\* not, then the first attempt.
StartChecks(s, t) ==
  /\ At(s, t, "start")
  /\ \/ ~sup[s].closed /\ ~sup[s].reaping /\ Goto(s, t, "spawn")
     \/ (sup[s].closed \/ sup[s].reaping \/ sup[s].backoff) /\ Goto(s, t, "unlock")
  /\ UNCHANGED <<owner, sup, loc, child, inbox, outbox>>

\* Children the bound still allows: without one, Popen fails.
Unused(s) == {c \in Child : child[s][c] = "none"}

\* _start_once: Popen fails, or the child becomes _process and its channel
\* _socket; only then is _closed looked at.
Spawn(s, t) ==
  /\ At(s, t, "spawn")
  /\ \/ /\ "exit" \in Faults \/ Unused(s) = {}
        /\ loc' = [loc EXCEPT ![s][t].transient = TRUE]
        /\ Goto(s, t, "startFailed")
        /\ UNCHANGED <<sup, child>>
     \/ /\ \E c \in Unused(s) :
             /\ \A d \in Unused(s) : c <= d
             /\ child' = [child EXCEPT ![s][c] = "loading"]
             /\ sup' = [sup EXCEPT ![s].process = c, ![s].socket = c]
        /\ Goto(s, t, "closedCheck")
        /\ UNCHANGED loc
  /\ UNCHANGED <<owner, inbox, outbox>>

ClosedCheck(s, t) ==
  /\ At(s, t, "closedCheck")
  /\ IF sup[s].closed
       THEN CallTerminate(s, t, FALSE, "startFailed")
       ELSE Goto(s, t, "hello") /\ UNCHANGED loc
  /\ UNCHANGED <<owner, sup, child, inbox, outbox>>

\* The frame at the head of the open channel.
Frame(s) ==
  IF sup[s].socket = None \/ outbox[s][sup[s].socket] = <<>> THEN None
  ELSE Head(outbox[s][sup[s].socket])

Consume(s) == outbox' = [outbox EXCEPT ![s][sup[s].socket] = Tail(@)]

\* _receive brings no frame: the deadline or the end of the channel (transient),
\* an invalid frame, or a channel another thread closed, which raises OSError or
\* ValueError as the thread happens to use it.
ReceiveFailure(s) ==
  {TRUE} \cup (IF "protocol" \in Faults \/ sup[s].socket = None THEN {FALSE} ELSE {})

\* A valid hello: the child is accepted; a child that fell back to the CPU
\* settles the launch device.
HelloReceived(s, t) ==
  /\ At(s, t, "hello")
  /\ Frame(s) = "hello"
  /\ Consume(s)
  /\ \E onCpu \in BOOLEAN :
       sup' = [sup EXCEPT ![s].accepted = @ \cup {sup[s].socket},
                          ![s].cpu = @ \/ onCpu]
  /\ Goto(s, t, IF t = "starter" THEN "unlock" ELSE "send")
  /\ UNCHANGED <<owner, loc, child, inbox>>

HelloFails(s, t) ==
  /\ At(s, t, "hello")
  /\ \E transient \in ReceiveFailure(s) : CallTerminate(s, t, transient, "startFailed")
  /\ UNCHANGED <<owner, sup, child, inbox, outbox>>

\* _start: one retry on the CPU, else the failure is recorded.
MayRetryCpu(s, t) ==
  /\ ~sup[s].cpu
  /\ ~sup[s].reaping
  /\ sup[s].process = None
  /\ loc[s][t].transient

StartFailed(s, t) ==
  /\ At(s, t, "startFailed")
  /\ IF MayRetryCpu(s, t)
       THEN /\ sup' = [sup EXCEPT ![s].cpu = TRUE]
            /\ Goto(s, t, "spawn")
       ELSE /\ sup' = [sup EXCEPT ![s].backoff = TRUE]
            /\ Goto(s, t, "unlock")
  /\ loc' = [loc EXCEPT ![s][t] = NoLocals]
  /\ UNCHANGED <<owner, child, inbox, outbox>>

-----------------------------------------------------------------------------
(* One request: _encode_owned on the request thread.                         *)

EncodeChecks(s, r) ==
  /\ At(s, r, "check")
  /\ Goto(s, r, IF sup[s].closed \/ sup[s].reaping THEN "unlock"
                ELSE IF sup[s].process = None THEN "start" ELSE "send")
  /\ UNCHANGED <<owner, sup, loc, child, inbox, outbox>>

Send(s, r) ==
  /\ At(s, r, "send")
  /\ IF sup[s].socket = None
       THEN CallTerminate(s, r, FALSE, "encodeFailed") /\ UNCHANGED inbox
       ELSE /\ inbox' = [inbox EXCEPT ![s][sup[s].socket] = Append(@, r)]
            /\ Goto(s, r, "receive")
            /\ UNCHANGED loc
  /\ UNCHANGED <<owner, sup, child, outbox>>

\* Header and vectors: accepted only when the header names this request.
HeaderMatches(s, r) == Frame(s) = r

Receive(s, r) ==
  /\ At(s, r, "receive")
  /\ Frame(s) # None
  /\ Consume(s)
  /\ IF HeaderMatches(s, r)
       THEN /\ sup' = [sup EXCEPT ![s].backoff = FALSE]
            /\ Goto(s, r, "unlock")
            /\ UNCHANGED loc
       ELSE CallTerminate(s, r, FALSE, "encodeFailed") /\ UNCHANGED sup
  /\ UNCHANGED <<owner, child, inbox>>

\* Variant: the request gives up and leaves the child to the next one.
ReceiveFailsKeepingChild(s, r) ==
  /\ At(s, r, "receive")
  /\ Goto(s, r, "encodeFailed")
  /\ UNCHANGED <<owner, sup, loc, child, inbox, outbox>>

ReceiveFails(s, r) ==
  /\ At(s, r, "receive")
  /\ CallTerminate(s, r, FALSE, "encodeFailed")
  /\ UNCHANGED <<owner, sup, child, inbox, outbox>>

\* After an encode failure the next child is started on the CPU.
EncodeFailed(s, r) ==
  /\ At(s, r, "encodeFailed")
  /\ sup' = [sup EXCEPT ![s].cpu = TRUE, ![s].backoff = TRUE]
  /\ Goto(s, r, "unlock")
  /\ UNCHANGED <<owner, loc, child, inbox, outbox>>

\* The lock is released, then done is set and _close_waiting is looked at.
Unlock(s, t) ==
  /\ At(s, t, "unlock")
  /\ sup' = [sup EXCEPT ![s].lock = None]
  /\ Goto(s, t, "after")
  /\ UNCHANGED <<owner, loc, child, inbox, outbox>>

\* Variant: a request that ends leaves a waiting close to the cleanup thread.
AfterUnlockForgets(s, t) ==
  /\ At(s, t, "after")
  /\ sup' = [sup EXCEPT ![s].gate = IF @ = t THEN None ELSE @]
  /\ Goto(s, t, Ended(t))
  /\ UNCHANGED <<owner, loc, child, inbox, outbox>>

\* A request the caller still waits for is answered: vectors or the failure.
AfterUnlock(s, t) ==
  /\ At(s, t, "after")
  /\ sup' = [sup EXCEPT ![s].gate = IF @ = t THEN None ELSE @]
  /\ Goto(s, t, IF sup[s].closeWaiting THEN "finish" ELSE Ended(t))
  /\ UNCHANGED <<owner, loc, child, inbox, outbox>>

-----------------------------------------------------------------------------
(* Ending a child.                                                           *)

\* _terminate: the channel is closed; unless a reaper has the child, it is
\* signalled.
Terminate(s, t) ==
  /\ At(s, t, "terminate")
  /\ LET p == sup[s].process IN
       IF sup[s].reaping \/ p = None
         THEN Return(s, t) /\ UNCHANGED child
         ELSE /\ loc' = [loc EXCEPT ![s][t].victim = p]
              /\ child' = [child EXCEPT ![s][p] = IF @ = "gone" THEN @ ELSE "killed"]
              /\ Goto(s, t, "wait")
  /\ sup' = [sup EXCEPT ![s].socket = None]
  /\ LET Closed(box) == [c \in Child |-> IF c = sup[s].socket THEN <<>> ELSE box[c]] IN
       /\ inbox' = [inbox EXCEPT ![s] = Closed(@)]
       /\ outbox' = [outbox EXCEPT ![s] = Closed(@)]
  /\ UNCHANGED owner

\* process.wait() returns in time.
Waited(s, t) ==
  /\ At(s, t, "wait")
  /\ child[s][loc[s][t].victim] = "gone"
  /\ sup' = [sup EXCEPT ![s].process = None]
  /\ Return(s, t)
  /\ UNCHANGED <<owner, child, inbox, outbox>>

\* It does not: the child is left to a reaper thread.
WaitExpires(s, t) ==
  /\ At(s, t, "wait")
  /\ child[s][loc[s][t].victim] # "gone"
  /\ sup' = [sup EXCEPT ![s].reaping = TRUE,
                        ![s].reapers[loc[s][t].victim] = @ + 1]
  /\ Return(s, t)
  /\ UNCHANGED <<owner, child, inbox, outbox>>

\* The reaper cannot be started: process and owner are kept, with a warning.
ReaperUnavailable(s, t) ==
  /\ "reaper" \in Faults
  /\ At(s, t, "wait")
  /\ child[s][loc[s][t].victim] # "gone"
  /\ sup' = [sup EXCEPT ![s].reaping = FALSE, ![s].kept = TRUE]
  /\ Return(s, t)
  /\ UNCHANGED <<owner, child, inbox, outbox>>

\* _reap: wait without a limit, then clear.  Every reader of _process and
\* _reaping treats the state between the two assignments as still reaping.
Reap(s, c) ==
  /\ sup[s].reapers[c] > 0
  /\ child[s][c] = "gone"
  /\ sup' = [sup EXCEPT ![s].process = None, ![s].reaping = FALSE,
                        ![s].reapers[c] = @ - 1, ![s].reaped = @ + 1]
  /\ UNCHANGED <<owner, pc, loc, child, inbox, outbox>>

\* _reap's last line: a closed supervisor gives the slot back.
ReaperEnds(s) ==
  /\ sup[s].reaped > 0
  /\ owner' = IF sup[s].closed /\ owner = s THEN None ELSE owner
  /\ sup' = [sup EXCEPT ![s].reaped = @ - 1,
               ![s].released = @ \/ owner' # owner]
  /\ UNCHANGED <<pc, loc, child, inbox, outbox>>

-----------------------------------------------------------------------------
(* Closing.                                                                  *)

\* Variant: close() does not wait for the gate.
CloseBeginsUngated(s) ==
  /\ At(s, "starter", "done")
  /\ pc[s]["closer"] \in {"idle", "done"}
  /\ sup[s].closes < MaxClose
  /\ owner = s
  /\ sup' = [sup EXCEPT ![s].closed = TRUE, ![s].closes = @ + 1]
  /\ Goto(s, "closer", "closeLock")
  /\ UNCHANGED <<owner, loc, child, inbox, outbox>>

\* The provider registers its callback (_when_closed) and calls close(), which
\* waits for the gate, so no service call is under way after it.
CloseBegins(s) ==
  /\ At(s, "starter", "done")
  /\ pc[s]["closer"] \in {"idle", "done"}
  /\ sup[s].closes < MaxClose
  /\ owner = s
  /\ sup[s].gate = None
  /\ sup' = [sup EXCEPT ![s].gate = "closer", ![s].closed = TRUE,
                        ![s].closes = @ + 1, ![s].callback = "queued"]
  /\ Goto(s, "closer", "closeLock")
  /\ UNCHANGED <<owner, loc, child, inbox, outbox>>

\* With the request lock the child is told to stop and terminated; without it,
\* the child is terminated under the feet of the request thread.
CloseLocks(s) ==
  /\ At(s, "closer", "closeLock")
  /\ \/ /\ sup[s].lock = None
        /\ sup' = [sup EXCEPT ![s].lock = "closer"]
        /\ CallTerminate(s, "closer", FALSE, "closeUnlock")
     \/ /\ sup[s].lock # None
        /\ sup' = [sup EXCEPT ![s].closeWaiting = TRUE]
        /\ CallTerminate(s, "closer", FALSE, "startCleanup")
  /\ UNCHANGED <<owner, child, inbox, outbox>>

CloseUnlock(s) ==
  /\ At(s, "closer", "closeUnlock")
  /\ sup' = [sup EXCEPT ![s].lock = None]
  /\ Goto(s, "closer", "release")
  /\ UNCHANGED <<owner, loc, child, inbox, outbox>>

\* The cleanup thread takes over from a close() without the lock (one at a time).
StartCleanup(s) ==
  /\ At(s, "closer", "startCleanup")
  /\ pc[s]["cleanup"] \in {"idle", "done"}
  /\ pc' = [pc EXCEPT ![s]["cleanup"] = "finish", ![s]["closer"] = "done"]
  /\ sup' = [sup EXCEPT ![s].gate = None]
  /\ UNCHANGED <<owner, loc, child, inbox, outbox>>

\* It cannot be started: take the lock if it is free by now, else leave the
\* work to the thread that holds it.
CleanupUnavailable(s) ==
  /\ "cleanup" \in Faults
  /\ At(s, "closer", "startCleanup")
  /\ IF sup[s].lock = None
       THEN /\ sup' = [sup EXCEPT ![s].lock = "closer"]
            /\ CallTerminate(s, "closer", FALSE, "finishUnlock")
       ELSE /\ sup' = [sup EXCEPT ![s].gate = None]
            /\ Goto(s, "closer", "done")
            /\ UNCHANGED loc
  /\ UNCHANGED <<owner, child, inbox, outbox>>

\* _finish_close_after_request, on the cleanup, request or start() thread.
Finish(s, t) ==
  /\ At(s, t, "finish")
  /\ sup[s].lock = None
  /\ sup' = [sup EXCEPT ![s].lock = t]
  /\ CallTerminate(s, t, FALSE, "finishUnlock")
  /\ UNCHANGED <<owner, child, inbox, outbox>>

FinishUnlock(s, t) ==
  /\ At(s, t, "finishUnlock")
  /\ sup' = [sup EXCEPT ![s].lock = None, ![s].closeWaiting = FALSE]
  /\ Goto(s, t, "release")
  /\ UNCHANGED <<owner, loc, child, inbox, outbox>>

\* Nothing left to reap: _release_owner, which only the owner gets past.
ReleaseOwner(s, t) ==
  /\ At(s, t, "release")
  /\ owner' = IF ~sup[s].reaping /\ sup[s].process = None /\ owner = s
                THEN None ELSE owner
  /\ sup' = [sup EXCEPT ![s].gate = IF t = "closer" THEN None ELSE @,
               ![s].released = @ \/ owner' # owner]
  /\ Goto(s, t, Ended(t))
  /\ UNCHANGED <<loc, child, inbox, outbox>>

\* Variant: close() runs the callbacks while the child is still being reaped.
RunCallbacksEarly(s) ==
  /\ sup[s].closed
  /\ sup[s].callback = "queued"
  /\ sup' = [sup EXCEPT ![s].callback = "ran", ![s].ran = @ + 1]
  /\ UNCHANGED <<owner, pc, loc, child, inbox, outbox>>

\* The second half of _release_owner: the event is set and the callbacks run.
RunCallbacks(s) ==
  /\ sup[s].released
  /\ sup[s].callback = "queued"
  /\ sup' = [sup EXCEPT ![s].callback = "ran", ![s].ran = @ + 1]
  /\ UNCHANGED <<owner, pc, loc, child, inbox, outbox>>

-----------------------------------------------------------------------------
(* The worker child: embedding_worker.py.                                    *)

\* The model is loaded and the hello is written.
ChildReady(s, c) ==
  /\ child[s][c] = "loading"
  /\ child' = [child EXCEPT ![s][c] = "ready"]
  /\ outbox' = [outbox EXCEPT ![s][c] = IF sup[s].socket = c THEN <<"hello">> ELSE @]
  /\ UNCHANGED <<owner, sup, pc, loc, inbox>>

\* One encode request is read and its vectors are written.
ChildAnswers(s, c) ==
  /\ child[s][c] = "ready"
  /\ inbox[s][c] # <<>>
  /\ inbox' = [inbox EXCEPT ![s][c] = Tail(@)]
  /\ outbox' = [outbox EXCEPT ![s][c] = Append(@, Head(inbox[s][c]))]
  /\ UNCHANGED <<owner, sup, pc, loc, child>>

\* It fails on its own: the model cannot be loaded, or a request breaks it.
ChildFails(s, c) ==
  /\ "exit" \in Faults
  /\ child[s][c] \in {"loading", "ready"}
  /\ child' = [child EXCEPT ![s][c] = "gone"]
  /\ UNCHANGED <<owner, sup, pc, loc, inbox, outbox>>

\* It ends because it was signalled, told to shut down, or found its channel
\* closed.
ChildEnds(s, c) ==
  /\ child[s][c] = "killed" \/ (Alive(s, c) /\ sup[s].socket # c)
  /\ child' = [child EXCEPT ![s][c] = "gone"]
  /\ UNCHANGED <<owner, sup, pc, loc, inbox, outbox>>

-----------------------------------------------------------------------------

\* The steps of a thread inside a call.
ThreadStep(s, t) ==
  \/ StartChecks(s, t) \/ Spawn(s, t) \/ ClosedCheck(s, t)
  \/ HelloReceived(s, t) \/ HelloFails(s, t) \/ StartFailed(s, t)
  \/ Unlock(s, t) \/ AfterUnlock(s, t)
  \/ Terminate(s, t) \/ Waited(s, t) \/ WaitExpires(s, t) \/ ReaperUnavailable(s, t)
  \/ Finish(s, t) \/ FinishUnlock(s, t) \/ ReleaseOwner(s, t)

RequestStep(s, r) ==
  \/ EncodeBegins(s, r) \/ EncodeChecks(s, r) \/ Send(s, r)
  \/ Receive(s, r) \/ ReceiveFails(s, r) \/ EncodeFailed(s, r)

CloserStep(s) ==
  \/ CloseLocks(s) \/ CloseUnlock(s) \/ StartCleanup(s) \/ CleanupUnavailable(s)

ReaperStep(s) == ReaperEnds(s) \/ \E c \in Child : Reap(s, c)

\* What the hosts of a supervisor ask for, and what befalls it.
Environment(s) ==
  \/ \E d \in BOOLEAN : ClaimOwner(s, d)
  \/ \E r \in Request : ServeGeneration(s, r) \/ ThreadFails(s, r) \/ CallerGivesUp(s, r)
  \/ StartBegins(s) \/ CloseBegins(s)
  \/ \E c \in Child : ChildReady(s, c) \/ ChildAnswers(s, c) \/ ChildFails(s, c)

Next ==
  \E s \in Supervisor :
    \/ Environment(s)
    \/ \E t \in Thread : ThreadStep(s, t)
    \/ \E r \in Request : RequestStep(s, r)
    \/ CloserStep(s) \/ ReaperStep(s) \/ RunCallbacks(s)
    \/ \E c \in Child : ChildEnds(s, c)

Spec == Init /\ [][Next]_vars

(* Threads run, every wait of a thread has a limit, a signalled child dies.   *)
(* Nobody is assumed to call, and no child to answer.                        *)
FairSpec ==
  /\ Spec
  /\ \A s \in Supervisor :
       /\ \A t \in Thread : WF_vars(ThreadStep(s, t))
       /\ \A r \in Request : WF_vars(RequestStep(s, r)) /\ WF_vars(CallerGivesUp(s, r))
       /\ WF_vars(CloserStep(s)) /\ WF_vars(ReaperStep(s)) /\ WF_vars(RunCallbacks(s))
       /\ \A c \in Child : WF_vars(ChildEnds(s, c))

-----------------------------------------------------------------------------
(* Properties.                                                               *)

Label == {"idle", "lock", "check", "start", "spawn", "closedCheck", "hello",
          "startFailed", "send", "receive", "encodeFailed", "unlock", "after",
          "terminate", "wait", "finish", "finishUnlock", "release", "closeLock",
          "closeUnlock", "startCleanup", "done"}

\* The attributes of a supervisor.
Attributes ==
  [built : BOOLEAN, closed : BOOLEAN, closeWaiting : BOOLEAN, reaping : BOOLEAN,
   process : Child \cup {None}, socket : Child \cup {None},
   lock : Thread \cup {None}, gate : Thread \cup {None},
   cpu : BOOLEAN, backoff : BOOLEAN, accepted : SUBSET Child,
   reapers : [Child -> Nat], reaped : Nat, closes : 0..MaxClose, kept : BOOLEAN,
   released : BOOLEAN, callback : {"none", "queued", "ran"}, ran : 0..1]

Locals == [victim : Child \cup {None}, ret : Label, transient : BOOLEAN]

\* Type invariant.
TypeOK ==
  /\ owner \in Supervisor \cup {None}
  /\ sup \in [Supervisor -> Attributes]
  /\ pc \in [Supervisor -> [Thread -> Label]]
  /\ loc \in [Supervisor -> [Thread -> Locals]]
  /\ child \in [Supervisor -> [Child -> {"none", "loading", "ready", "killed", "gone"}]]
  /\ inbox \in [Supervisor -> [Child -> Seq(Request)]]
  /\ outbox \in [Supervisor -> [Child -> Seq(Request \cup {"hello"})]]

\* What the comment in _terminate asks for, "unsafe to publish a replacement until
\* wait() actually reaps this generation": a child whose hello was accepted does
\* not outlive the ownership of its supervisor.  The code does not keep it: a
\* reaper that cleared _reaping looks at _closed only later, when a new child may
\* already serve.
OneServingGeneration ==
  \A s \in Supervisor :
    owner # s => \A c \in sup[s].accepted : child[s][c] = "gone"

\* A request is only ever written to a channel on which nothing is pending: an
\* answer that came too late for one request can never be read by the next
\* (_encode_owned ends the child of every request it gives up).
ChannelInSync ==
  \A s \in Supervisor, r \in Request :
    (At(s, r, "send") /\ sup[s].socket # None)
      => inbox[s][sup[s].socket] = <<>> /\ outbox[s][sup[s].socket] = <<>>

\* No caller gets vectors, or even its failure, from a supervisor that was closed
\* while it waited: close() stands behind the generation gate (serve_generation).
NoServiceAfterClose ==
  [][\A s \in Supervisor, r \in Request :
       (sup[s].gate = r /\ sup'[s].gate # r) => ~sup[s].closed]_vars

\* A closed supervisor gives the process slot back and leaves no child behind,
\* whatever close() raced with and although the cleanup thread may fail to start
\* (unless a reaper could not be started, when close() says it remains pending).
ClosedIsReleased ==
  \A s \in Supervisor :
    sup[s].closed ~> \/ sup[s].kept
                     \/ owner # s /\ \A c \in Child : ~Alive(s, c)

\* The close callback runs, once, and not before the slot is free.
CallbackAfterRelease ==
  \A s \in Supervisor :
    /\ sup[s].ran > 0 => owner # s
    /\ sup[s].callback = "ran" <=> sup[s].ran = 1
=============================================================================
