----------------------------- MODULE ModelGate -----------------------------
(* The auxiliary model's admission (config.py): a callable of a provider     *)
(* runs at most one backend request, all callables of the interpreter share  *)
(* Cap permits, and a request that outlives its caller's wait keeps both     *)
(* until it really ends.  A job is one admitted call with its daemon thread. *)
(*                                                                           *)
(* Abstracted: the prompt, its trimming, and the answer's text.              *)
EXTENDS Integers, FiniteSets

CONSTANTS
  Models,    \* callables, one per initialized runtime
  Askers,    \* threads that call them
  Cap,       \* _MAX_OUTSTANDING_AUXILIARY_CALLS
  MaxJobs    \* bound: calls admitted in a behaviour

ASSUME GateAssumption == Cap \in Nat \ {0} /\ MaxJobs \in Nat

Jobs == 1..MaxJobs

VARIABLES
  outstanding,  \* the shared counter of the gate
  active,       \* callables with _active set
  closed,       \* callables with _closed set
  job,          \* Jobs -> [model, at]: "unused", "running", "ended", "done"
  asking        \* Askers -> the job waited for, or 0

gateVars == <<outstanding, active, closed, job, asking>>

GateInit ==
  /\ outstanding = 0 /\ active = {} /\ closed = {}
  /\ job = [j \in Jobs |-> [model |-> 0, at |-> "unused"]]
  /\ asking = [a \in Askers |-> 0]

NextJob == CHOOSE j \in Jobs : job[j].at = "unused"
JobsLeft == \E j \in Jobs : job[j].at = "unused"

\* Closed, busy or no permit: the call returns the empty text at once.
Skipped(m) == m \in closed \/ m \in active \/ outstanding >= Cap

\* The callable's lock covers both checks and both marks.
Admit(a, m) ==
  /\ ~Skipped(m) /\ JobsLeft /\ asking[a] = 0
  /\ outstanding' = outstanding + 1
  /\ active' = active \cup {m}
  /\ job' = [job EXCEPT ![NextJob] = [model |-> m, at |-> "running"]]
  /\ asking' = [asking EXCEPT ![a] = NextJob]
  /\ UNCHANGED closed

\* _finish, first half, under the callable's lock: the request succeeded,
\* raised, or its thread could not start.
FinishLocked(j) ==
  /\ job[j].at = "running"
  /\ job' = [job EXCEPT ![j].at = "ended"]
  /\ active' = active \ {job[j].model}
  /\ UNCHANGED <<outstanding, closed, asking>>

\* _finish, second half: the permit goes back and the event is set.
FinishReleases(j) ==
  /\ job[j].at = "ended"
  /\ job' = [job EXCEPT ![j].at = "done"]
  /\ outstanding' = outstanding - 1
  /\ UNCHANGED <<active, closed, asking>>

\* A plausible slip: the caller that gives up hands the permit back itself.
GiveUpReleasing(a) ==
  /\ asking[a] # 0 /\ job[asking[a]].at # "done"
  /\ outstanding' = outstanding - 1
  /\ asking' = [asking EXCEPT ![a] = 0]
  /\ UNCHANGED <<active, closed, job>>

\* The wait of _AUXILIARY_DEADLINE_SECONDS expires; the job lives on.
GiveUp(a) ==
  /\ asking[a] # 0 /\ job[asking[a]].at # "done"
  /\ asking' = [asking EXCEPT ![a] = 0]
  /\ UNCHANGED <<outstanding, active, closed, job>>

\* The event is set before the wait expires.
Answered(a) ==
  /\ asking[a] # 0 /\ job[asking[a]].at = "done"
  /\ asking' = [asking EXCEPT ![a] = 0]
  /\ UNCHANGED <<outstanding, active, closed, job>>

Close(m) ==
  /\ closed' = closed \cup {m}
  /\ UNCHANGED <<outstanding, active, job, asking>>

\* Every permit is held by a job whose backend has not been accounted for, no
\* more than Cap of them, and a callable never has two backends at work:
\* whoever gave up waiting, and whatever ends late.
PermitsConserved ==
  /\ outstanding = Cardinality({j \in Jobs : job[j].at \in {"running", "ended"}})
  /\ outstanding <= Cap
  /\ \A i, j \in Jobs : job[i].at = "running" /\ job[j].at = "running"
                        /\ job[i].model = job[j].model => i = j
=============================================================================
