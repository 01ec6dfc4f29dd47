-------------------------- MODULE WarmRecallProofs --------------------------
(* For every number of sessions, callables, permits, generations and          *)
(* runtimes: what is staged is current, a hit answers its question, and the   *)
(* permits of the auxiliary model are conserved.                              *)
EXTENDS WarmRecall, FiniteSetTheorems, TLAPS

Identities == [gen : Int, session : Sessions \cup {"none"}, runtime : 0..MaxRuntime,
               filter : {"none", "tag"}]

GateTyped ==
  /\ outstanding \in Nat
  /\ job \in [Jobs -> [model : 0..MaxRuntime, at : {"unused", "running", "ended", "done"}]]
  /\ asking \in [Askers -> 0..MaxJobs]

RecallTyped ==
  /\ slot \in Identities /\ latest \in Identities
  /\ worker \in [at : {"none", "waiting", "cues", "asking", "retrieve", "stage", "exiting"},
                 req : Identities, from : 0..MaxRuntime]

(* A callable with a running backend is marked active.                        *)
RunningIsActive == \A j \in Jobs : job[j].at = "running" => job[j].model \in active

(* A request in the daemon's hands is of this generation only while the       *)
(* provider is up, and of no later one.                                       *)
RequestNotNewer ==
  worker.at \in {"cues", "asking", "retrieve", "stage"} =>
    worker.req.gen <= gen /\ (worker.req.gen = gen => phase = "up")

(* What is about to be staged was read from the runtime it was asked of.      *)
ReadFromAsked == worker.at = "stage" => worker.from = worker.req.runtime

GateInv == GateTyped /\ RunningIsActive /\ PermitsConserved

IInv ==
  /\ TypeOK /\ RecallTyped /\ RequestNotNewer /\ ReadFromAsked
  /\ StagedIsCurrent /\ HitAnswersQuestion /\ GateInv

-----------------------------------------------------------------------------
(* The gate.                                                                  *)

Held == {j \in Jobs : job[j].at \in {"running", "ended"}}

LEMMA HeldFinite == IsFiniteSet(Held)
<1>1. IsFiniteSet(Jobs)
  BY FS_Interval, GateAssumption DEF Jobs
<1> QED BY <1>1, FS_Subset DEF Held

LEMMA NextJobUnused ==
  ASSUME JobsLeft
  PROVE  NextJob \in Jobs /\ job[NextJob].at = "unused"
BY DEF JobsLeft, NextJob

LEMMA AdmitGate ==
  ASSUME GateInv, NEW a \in Askers, NEW m \in 0..MaxRuntime, Admit(a, m)
  PROVE  GateInv'
<1> DEFINE n == NextJob
<1>1. n \in Jobs /\ job[n].at = "unused"
  BY NextJobUnused DEF Admit
<1> HIDE DEF n
<1>2. /\ outstanding' = outstanding + 1 /\ active' = active \cup {m}
      /\ job' = [job EXCEPT ![n] = [model |-> m, at |-> "running"]]
      /\ asking' = [asking EXCEPT ![a] = n]
      /\ m \notin active /\ ~(outstanding >= Cap)
  BY DEF Admit, Skipped, n
<1>3. GateTyped'
  BY <1>1, <1>2, GateAssumption DEF GateInv, GateTyped, Jobs
<1>4. RunningIsActive'
  BY <1>1, <1>2 DEF GateInv, GateTyped, RunningIsActive
<1>5. Held' = Held \cup {n} /\ n \notin Held
  BY <1>1, <1>2 DEF GateInv, GateTyped, Held
<1>6. Cardinality(Held') = Cardinality(Held) + 1
  BY <1>5, HeldFinite, FS_AddElement
<1>7. outstanding' = Cardinality(Held') /\ outstanding' <= Cap
  BY <1>2, <1>6, GateAssumption DEF GateInv, GateTyped, PermitsConserved, Held
<1>8. \A i, j \in Jobs : job'[i].at = "running" /\ job'[j].at = "running"
                         /\ job'[i].model = job'[j].model => i = j
  BY <1>1, <1>2 DEF GateInv, GateTyped, RunningIsActive, PermitsConserved
<1> QED BY <1>3, <1>4, <1>7, <1>8 DEF GateInv, PermitsConserved, Held

LEMMA FinishLockedGate ==
  ASSUME GateInv, NEW j \in Jobs, FinishLocked(j)
  PROVE  GateInv'
<1>1. /\ job[j].at = "running" /\ job' = [job EXCEPT ![j].at = "ended"]
      /\ active' = active \ {job[j].model} /\ UNCHANGED <<outstanding, closed, asking>>
  BY DEF FinishLocked
<1>2. GateTyped'
  BY <1>1 DEF GateInv, GateTyped
<1>3. RunningIsActive'
  BY <1>1 DEF GateInv, GateTyped, RunningIsActive, PermitsConserved
<1>4. Held' = Held
  BY <1>1 DEF GateInv, GateTyped, Held
<1> QED BY <1>1, <1>2, <1>3, <1>4 DEF GateInv, GateTyped, PermitsConserved, Held

LEMMA FinishReleasesGate ==
  ASSUME GateInv, NEW j \in Jobs, FinishReleases(j)
  PROVE  GateInv'
<1>1. /\ job[j].at = "ended" /\ job' = [job EXCEPT ![j].at = "done"]
      /\ outstanding' = outstanding - 1 /\ UNCHANGED <<active, closed, asking>>
  BY DEF FinishReleases
<1>2. j \in Held /\ Held' = Held \ {j}
  BY <1>1 DEF GateInv, GateTyped, Held
<1>3. Cardinality(Held') = Cardinality(Held) - 1 /\ Cardinality(Held') \in Nat
  <2>1. IsFiniteSet(Held')
    BY <1>2, HeldFinite, FS_RemoveElement
  <2> QED BY <1>2, <2>1, HeldFinite, FS_RemoveElement, FS_CardinalityType
<1>4. outstanding' = Cardinality(Held') /\ outstanding' \in Nat /\ outstanding' <= Cap
  BY <1>1, <1>3, GateAssumption DEF GateInv, GateTyped, PermitsConserved, Held
<1>5. GateTyped'
  BY <1>1, <1>4 DEF GateInv, GateTyped
<1>6. RunningIsActive'
  BY <1>1 DEF GateInv, GateTyped, RunningIsActive
<1> QED BY <1>1, <1>4, <1>5, <1>6 DEF GateInv, GateTyped, PermitsConserved, Held

(* A caller that leaves touches neither permits nor jobs.                     *)
LEMMA LeaveGate ==
  ASSUME GateInv, NEW a \in Askers, GiveUp(a) \/ Answered(a)
  PROVE  GateInv'
<1>1. asking' = [asking EXCEPT ![a] = 0] /\ UNCHANGED <<outstanding, active, job>>
  BY DEF GiveUp, Answered
<1>2. GateTyped'
  BY <1>1, GateAssumption DEF GateInv, GateTyped
<1> QED BY <1>1, <1>2 DEF GateInv, RunningIsActive, PermitsConserved

LEMMA UnchangedGate ==
  ASSUME GateInv, UNCHANGED <<outstanding, active, job, asking>>
  PROVE  GateInv'
BY DEF GateInv, GateTyped, RunningIsActive, PermitsConserved

-----------------------------------------------------------------------------
(* The inductive invariant.                                                   *)

LEMMA InitIInv == Init => IInv
<1> SUFFICES ASSUME Init PROVE IInv
  OBVIOUS
<1>1. TypeOK /\ RecallTyped /\ RequestNotNewer /\ ReadFromAsked
  BY WarmAssumption, GateAssumption
     DEF Init, GateInit, TypeOK, RecallTyped, RequestNotNewer, ReadFromAsked, Identities, None,
         NoWorker
<1>2. StagedIsCurrent /\ HitAnswersQuestion
  BY DEF Init, StagedIsCurrent, HitAnswersQuestion
<1>3. GateTyped /\ RunningIsActive
  BY WarmAssumption, GateAssumption DEF Init, GateInit, GateTyped, RunningIsActive, Jobs
<1>4. PermitsConserved
  <2>1. \A j \in Jobs : job[j].at = "unused"
    BY DEF Init, GateInit
  <2>2. Held = {}
    BY <2>1 DEF Held
  <2>3. Cardinality(Held) = 0
    BY <2>2, FS_EmptySet
  <2> QED BY <2>1, <2>3, GateAssumption DEF Init, GateInit, PermitsConserved, Held
<1> QED BY <1>1, <1>2, <1>3, <1>4 DEF IInv, GateInv

(* The part of the invariant that is not the gate's.                          *)
RecallInv ==
  /\ TypeOK /\ RecallTyped /\ RequestNotNewer /\ ReadFromAsked
  /\ StagedIsCurrent /\ HitAnswersQuestion

(* The host's calls leave the gate alone.                                     *)
LEMMA HostStep ==
  ASSUME IInv, NEW s \in Sessions,
         \/ Initialize(s) \/ QueuePrefetch(s) \/ QueueNothing(s) \/ OnSessionSwitch(s)
         \/ \E f \in {"none", "tag"} : ConsumePending(s, f)
         \/ ShutdownBegins \/ ClearRuntimeState
  PROVE  IInv'
<1> USE WarmAssumption, GateAssumption
    DEF IInv, TypeOK, RecallTyped, RequestNotNewer, ReadFromAsked, StagedIsCurrent,
        HitAnswersQuestion, Identities, Identity, None, NoResult, NoWorker, Forgotten, gateVars
<1>1. GateInv'
  BY UnchangedGate
     DEF Initialize, QueuePrefetch, QueueNothing, OnSessionSwitch, ConsumePending,
         ShutdownBegins, ClearRuntimeState
<1> HIDE DEF IInv
<1>2. CASE Initialize(s)
  <2>1. RecallInv'
    BY <1>2 DEF Initialize, RecallInv, IInv
  <2> QED BY <1>1, <2>1 DEF RecallInv, IInv
<1>3. CASE QueuePrefetch(s)
  <2>1. RecallInv'
    BY <1>3 DEF QueuePrefetch, RecallInv, IInv
  <2> QED BY <1>1, <2>1 DEF RecallInv, IInv
<1>4. CASE QueueNothing(s)
  <2>1. RecallInv'
    BY <1>4 DEF QueueNothing, RecallInv, IInv
  <2> QED BY <1>1, <2>1 DEF RecallInv, IInv
<1>5. CASE OnSessionSwitch(s)
  <2>1. RecallInv'
    BY <1>5 DEF OnSessionSwitch, RecallInv, IInv
  <2> QED BY <1>1, <2>1 DEF RecallInv, IInv
<1>6. ASSUME NEW f \in {"none", "tag"}, ConsumePending(s, f) PROVE IInv'
  <2>1. RecallInv'
    BY <1>6 DEF ConsumePending, RecallInv, IInv
  <2> QED BY <1>1, <2>1 DEF RecallInv, IInv
<1>7. CASE ShutdownBegins
  <2>1. RecallInv'
    BY <1>7 DEF ShutdownBegins, RecallInv, IInv
  <2> QED BY <1>1, <2>1 DEF RecallInv, IInv
<1>8. CASE ClearRuntimeState
  <2>1. RecallInv'
    BY <1>8 DEF ClearRuntimeState, RecallInv, IInv
  <2> QED BY <1>1, <2>1 DEF RecallInv, IInv
<1> QED BY <1>2, <1>3, <1>4, <1>5, <1>6, <1>7, <1>8

(* The daemon's steps between its calls of the model.                         *)
LEMMA DaemonStep ==
  ASSUME IInv,
         \/ TakeRequest \/ WorkerStops \/ WorkerExits \/ OwnCue \/ Retrieve \/ StageResult
  PROVE  IInv'
<1> USE WarmAssumption, GateAssumption
    DEF TypeOK, RecallTyped, RequestNotNewer, ReadFromAsked, StagedIsCurrent,
        HitAnswersQuestion, Identities, Identity, None, NoResult, NoWorker, gateVars
<1>1. GateInv'
  BY UnchangedGate
     DEF IInv, TakeRequest, WorkerStops, WorkerExits, OwnCue, Retrieve, StageResult
<1>2. CASE TakeRequest
  <2>1. RecallInv'
    BY <1>2 DEF TakeRequest, IsCurrent, RecallInv, IInv
  <2> QED BY <1>1, <2>1 DEF RecallInv, IInv
<1>3. CASE WorkerStops
  <2>1. RecallInv'
    BY <1>3 DEF WorkerStops, RecallInv, IInv
  <2> QED BY <1>1, <2>1 DEF RecallInv, IInv
<1>4. CASE WorkerExits
  <2>1. RecallInv'
    BY <1>4 DEF WorkerExits, RecallInv, IInv
  <2> QED BY <1>1, <2>1 DEF RecallInv, IInv
<1>5. CASE OwnCue
  <2>1. RecallInv'
    BY <1>5 DEF OwnCue, RecallInv, IInv
  <2> QED BY <1>1, <2>1 DEF RecallInv, IInv
<1>6. CASE Retrieve
  <2>1. /\ worker.at = "retrieve"
        /\ UNCHANGED <<phase, runtime, session, gen, latest, slot, staged, served, gateVars>>
    BY <1>6 DEF Retrieve
  <2>2. CASE Back
    BY <1>1, <2>1, <2>2 DEF Back, IInv
  <2>3. CASE IsCurrent(worker.req) /\ worker' = [worker EXCEPT !.at = "stage", !.from = runtime]
    <3>1. worker.req.runtime = runtime
      BY <2>3 DEF IsCurrent
    <3>2. /\ worker'.at = "stage" /\ worker'.from = runtime /\ worker'.req = worker.req
          /\ RecallTyped'
      BY <2>1, <2>3 DEF IInv
    <3> QED BY <1>1, <2>1, <3>1, <3>2 DEF IInv
  <2> QED BY <1>6, <2>2, <2>3 DEF Retrieve
<1>7. CASE StageResult
  <2>1. RecallInv'
    BY <1>7 DEF StageResult, Back, RecallInv, IInv
  <2> QED BY <1>1, <2>1 DEF RecallInv, IInv
<1> QED BY <1>2, <1>3, <1>4, <1>5, <1>6, <1>7

(* The calls of the model, by the daemon and by the sync worker.              *)
LEMMA ModelStep ==
  ASSUME IInv,
         \/ AskForCues \/ CuesReturned \/ SyncAsks \/ SyncReturns \/ CloseModel
         \/ \E j \in Jobs : BackendEnds(j)
  PROVE  IInv'
<1> USE WarmAssumption, GateAssumption
    DEF TypeOK, RecallTyped, RequestNotNewer, ReadFromAsked, StagedIsCurrent,
        HitAnswersQuestion, Identities, Identity, recallVars
<1>0. runtime \in 0..MaxRuntime /\ "warm" \in Askers /\ "sync" \in Askers /\ GateInv
  BY DEF IInv
<1>1. CASE AskForCues
  <2>1. GateInv'
    BY <1>0, <1>1, AdmitGate DEF AskForCues
  <2>2. NextJob \in Jobs /\ NextJob # 0
    BY <1>1, NextJobUnused DEF AskForCues, Admit, Jobs
  <2>3. RecallInv'
    BY <1>0, <1>1, <2>2 DEF AskForCues, Admit, RecallInv, IInv, GateInv, GateTyped
  <2> QED BY <2>1, <2>3 DEF RecallInv, IInv
<1>2. CASE CuesReturned
  <2>1. GateInv'
    BY <1>0, <1>2, LeaveGate DEF CuesReturned
  <2>2. RecallInv'
    BY <1>0, <1>2 DEF CuesReturned, GiveUp, Answered, RecallInv, IInv, GateInv, GateTyped
  <2> QED BY <2>1, <2>2 DEF RecallInv, IInv
<1>3. CASE SyncAsks
  <2>1. GateInv'
    BY <1>0, <1>3, AdmitGate DEF SyncAsks
  <2>2. NextJob \in Jobs /\ NextJob # 0
    BY <1>3, NextJobUnused DEF SyncAsks, Admit, Jobs
  <2>3. RecallInv'
    BY <1>0, <1>3, <2>2 DEF SyncAsks, Admit, RecallInv, IInv, GateInv, GateTyped
  <2> QED BY <2>1, <2>3 DEF RecallInv, IInv
<1>4. CASE SyncReturns
  <2>1. GateInv'
    BY <1>0, <1>4, LeaveGate DEF SyncReturns
  <2>2. RecallInv'
    BY <1>0, <1>4 DEF SyncReturns, GiveUp, Answered, RecallInv, IInv, GateInv, GateTyped
  <2> QED BY <2>1, <2>2 DEF RecallInv, IInv
<1>5. CASE CloseModel
  <2>1. GateInv'
    BY <1>0, <1>5, UnchangedGate DEF CloseModel, Close
  <2>2. RecallInv'
    BY <1>5 DEF CloseModel, Close, RecallInv, IInv
  <2> QED BY <2>1, <2>2 DEF RecallInv, IInv
<1>6. ASSUME NEW j \in Jobs, BackendEnds(j) PROVE IInv'
  <2>1. GateInv'
    BY <1>0, <1>6, FinishLockedGate, FinishReleasesGate DEF BackendEnds
  <2>2. /\ UNCHANGED asking
        /\ \A i \in Jobs : job[i].at # "unused" => job'[i].at # "unused"
    BY <1>0, <1>6 DEF BackendEnds, FinishLocked, FinishReleases, GateInv, GateTyped
  <2>3. \A a \in Askers : asking[a] # 0 => asking[a] \in Jobs
    BY <1>0 DEF GateInv, GateTyped, Jobs
  <2>4. RecallInv'
    BY <1>6, <2>2, <2>3 DEF BackendEnds, RecallInv, IInv
  <2> QED BY <2>1, <2>4 DEF RecallInv, IInv
<1> QED BY <1>1, <1>2, <1>3, <1>4, <1>5, <1>6

LEMMA StepIInv == IInv /\ [Next]_vars => IInv'
<1> SUFFICES ASSUME IInv, [Next]_vars PROVE IInv'
  OBVIOUS
<1>1. CASE UNCHANGED vars
  <2>1. GateInv'
    BY <1>1, UnchangedGate DEF vars, gateVars, IInv
  <2>2. RecallInv'
    BY <1>1 DEF vars, gateVars, recallVars, RecallInv, IInv, TypeOK, RecallTyped,
                RequestNotNewer, ReadFromAsked, StagedIsCurrent, HitAnswersQuestion, Identity
  <2> QED BY <2>1, <2>2 DEF RecallInv, IInv
<1>2. CASE Next
  <2>1. PICK s \in Sessions : TRUE
    BY DEF IInv, TypeOK
  <2> QED BY <1>2, <2>1, HostStep, DaemonStep, ModelStep DEF Next, WorkerSteps
<1> QED BY <1>1, <1>2

(* The inductive invariant holds of every reachable state.                    *)
THEOREM InductiveInvariant == FairSpec => []IInv
BY InitIInv, StepIInv, PTL DEF FairSpec

(* The daemon waits for the model exactly while it is asking, for a job that  *)
(* was admitted.                                                              *)
THEOREM TypeCorrect == FairSpec => []TypeOK
<1>1. IInv => TypeOK
  BY DEF IInv
<1> QED BY <1>1, InductiveInvariant, PTL

(* What waits for the next prefetch() was computed for the current            *)
(* generation by the current runtime.                                         *)
THEOREM StagedCurrent == FairSpec => []StagedIsCurrent
<1>1. IInv => StagedIsCurrent
  BY DEF IInv
<1> QED BY <1>1, InductiveInvariant, PTL

(* A warm hit has the session, the filters and the runtime of its question.   *)
THEOREM HitsAnswer == FairSpec => []HitAnswersQuestion
<1>1. IInv => HitAnswersQuestion
  BY DEF IInv
<1> QED BY <1>1, InductiveInvariant, PTL

(* The auxiliary gate's counter is the number of unaccounted backends, at     *)
(* most Cap, and no callable has two at work.                                 *)
THEOREM PermitsKept == FairSpec => []PermitsConserved
<1>1. IInv => PermitsConserved
  BY DEF IInv, GateInv
<1> QED BY <1>1, InductiveInvariant, PTL
=============================================================================
