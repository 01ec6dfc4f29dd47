----------------------------- MODULE ThinkClaim -----------------------------
(* Think cycles of the processes that share a profile: the persisted turn     *)
(* counter and claim (hermes_provider_meta), the worker that claims, runs and *)
(* settles a cycle under one exclusive admission, and the recovery of a dead  *)
(* process's claim by the next initialization. Identity checks are modelled   *)
(* in RuntimeIdentity; counter values that do not parse are left out. A claim *)
(* is named by its process instead of its epoch: a process has one worker, so *)
(* the claim a worker made is the only one of its process it can meet.        *)
EXTENDS Naturals

CONSTANTS
  Process,    \* processes whose provider has a model callable
  NoProcess,  \* no claim was ever made
  Interval,   \* think_interval
  ThinkFaults \* "death" of a process, "commit": a transaction that raises

ASSUME ThinkAssumption ==
  /\ NoProcess \notin Process
  /\ Interval \in Nat \ {0}
  /\ ThinkFaults \subseteq {"death", "commit"}

VARIABLES
  counter,   \* think_counter
  claim,     \* think_claim_state and whose think_claim_epoch it carries
  worker,    \* where the process's worker is
  thinking,  \* the process that holds the exclusive admission, if any
  since,     \* history: turns counted since the last claim
  opaque     \* history: think_cycle calls begun since the last one that was
             \* settled as completed

history   == <<since, opaque>>
thinkVars == <<counter, claim, worker, thinking, since, opaque>>

States   == {"none", "in_flight", "completed", "failed", "uncertain"}
Blocking == {"in_flight", "failed", "uncertain"}

Claims == [state : States, by : Process \cup {NoProcess}]

ThinkInit ==
  /\ counter = 0
  /\ claim = [state |-> "none", by |-> NoProcess]
  /\ worker = [p \in Process |-> "down"]
  /\ thinking = NoProcess
  /\ since = 0 /\ opaque = 0

Go(p, point) == worker' = [worker EXCEPT ![p] = point]

(* Variant: recovery runs without the bootstrap admission.                    *)
InitializeUnlocked(p) ==
  /\ worker[p] = "down"
  /\ claim' = IF claim.state = "in_flight" THEN [claim EXCEPT !.state = "uncertain"]
                                           ELSE claim
  /\ Go(p, "up")
  /\ UNCHANGED <<counter, thinking, history>>

(* _recover_think_claim inside the exclusive bootstrap admission.             *)
Initialize(p) ==
  /\ worker[p] = "down"
  /\ thinking = NoProcess
  /\ claim' = IF claim.state = "in_flight" THEN [claim EXCEPT !.state = "uncertain"]
                                           ELSE claim
  /\ Go(p, "up")
  /\ UNCHANGED <<counter, thinking, history>>

(* The worker persisted a turn under its shared admission and gave it back.   *)
TurnPersisted(p) ==
  /\ worker[p] = "up"
  /\ thinking = NoProcess
  /\ Go(p, "due")
  /\ UNCHANGED <<counter, claim, thinking, history>>

(* Admission is refused at the deadline because another worker thinks, or the *)
(* transaction raises before it changed anything: the turn is not counted.    *)
ThinkDeferred(p) ==
  /\ worker[p] = "due"
  /\ thinking # NoProcess \/ "commit" \in ThinkFaults
  /\ Go(p, "up")
  /\ UNCHANGED <<counter, claim, thinking, history>>

(* An unsettled or unsuccessful claim stops here.                             *)
ThinkBlocked(p) ==
  /\ worker[p] = "due"
  /\ thinking = NoProcess
  /\ claim.state \in Blocking
  /\ Go(p, "up")
  /\ UNCHANGED <<counter, claim, thinking, history>>

CountTurn(p) ==
  /\ worker[p] = "due"
  /\ thinking = NoProcess
  /\ claim.state \notin Blocking
  /\ counter + 1 < Interval
  /\ counter' = counter + 1
  /\ since' = since + 1
  /\ Go(p, "up")
  /\ UNCHANGED <<claim, thinking, opaque>>

(* The committed claim; the counter keeps the turns it is for.                *)
Claim(p) ==
  /\ worker[p] = "due"
  /\ thinking = NoProcess
  /\ counter + 1 >= Interval
  /\ counter' = counter + 1
  /\ claim' = [state |-> "in_flight", by |-> p]
  /\ since' = 0

(* Variant: only a claim in flight blocks.                                    *)
ClaimThinkAgain(p) ==
  /\ claim.state # "in_flight"
  /\ Claim(p)
  /\ thinking' = p
  /\ opaque' = opaque + 1
  /\ Go(p, "think")

(* The claim is committed before the opaque call, which keeps the admission.  *)
ClaimThink(p) ==
  /\ claim.state \notin Blocking
  /\ Claim(p)
  /\ thinking' = p
  /\ opaque' = opaque + 1
  /\ Go(p, "think")

(* The commit raises although it took effect: the call is deferred, and the   *)
(* claim stays.                                                               *)
ClaimRaises(p) ==
  /\ "commit" \in ThinkFaults
  /\ claim.state \notin Blocking
  /\ Claim(p)
  /\ Go(p, "up")
  /\ UNCHANGED <<thinking, opaque>>

(* The counter after a completed cycle, and as a variant with the turn that   *)
(* claimed the cycle left in it.                                              *)
ReducedByOneLess == IF counter >= Interval THEN counter - Interval + 1 ELSE 0
Reduced == IF counter > Interval THEN counter - Interval ELSE 0

(* The cycle ended: progress, none, or an exception. Only the claim this call *)
(* made, and only while it is in flight, is settled.                          *)
SettleThink(p, terminal) ==
  /\ worker[p] = "think"
  /\ IF claim = [state |-> "in_flight", by |-> p]
       THEN /\ claim' = [claim EXCEPT !.state = terminal]
            /\ counter' = IF terminal = "completed" THEN Reduced ELSE counter
            /\ opaque' = IF terminal = "completed" THEN 0 ELSE opaque
       ELSE UNCHANGED <<claim, counter, opaque>>
  /\ thinking' = NoProcess
  /\ Go(p, "up")
  /\ UNCHANGED since

(* The settling transaction raises; the error is logged and the worker goes   *)
(* on with the claim still in flight.                                         *)
SettleFails(p) ==
  /\ worker[p] = "think"
  /\ "commit" \in ThinkFaults
  /\ thinking' = NoProcess
  /\ Go(p, "up")
  /\ UNCHANGED <<counter, claim, history>>

Shutdown(p) ==
  /\ worker[p] = "up"
  /\ Go(p, "down")
  /\ UNCHANGED <<counter, claim, thinking, history>>

Die(p) ==
  /\ "death" \in ThinkFaults
  /\ worker[p] # "down"
  /\ Go(p, "down")
  /\ thinking' = IF thinking = p THEN NoProcess ELSE thinking
  /\ UNCHANGED <<counter, claim, history>>

Work(p) ==
  \/ TurnPersisted(p)
  \/ ThinkDeferred(p) \/ ThinkBlocked(p) \/ CountTurn(p)
  \/ ClaimThink(p) \/ ClaimRaises(p)
  \/ (\E terminal \in {"completed", "failed", "uncertain"} : SettleThink(p, terminal))
  \/ SettleFails(p)

ThinkNext == \E p \in Process : Initialize(p) \/ Work(p) \/ Shutdown(p) \/ Die(p)

ThinkSpec == ThinkInit /\ [][ThinkNext]_thinkVars

(* A worker that has a turn goes on with it; turns may stop coming.           *)
ThinkFairSpec == ThinkSpec /\ \A p \in Process :
              WF_thinkVars(ThinkDeferred(p) \/ ThinkBlocked(p) \/ CountTurn(p) \/ ClaimThink(p)
                      \/ \E terminal \in {"completed", "failed", "uncertain"} :
                           SettleThink(p, terminal))

-----------------------------------------------------------------------------
ThinkTypeOK ==
  /\ counter \in 0..Interval
  /\ claim \in Claims
  /\ worker \in [Process -> {"down", "up", "due", "think"}]
  /\ thinking \in Process \cup {NoProcess}
  /\ since \in 0..Interval
  /\ opaque \in Nat

(* A running cycle keeps the claim it made: no initialization of another      *)
(* process takes it for a dead one's, and no second cycle runs beside it.     *)
LiveClaimKept ==
  \A p \in Process : worker[p] = "think" =>
    thinking = p /\ claim = [state |-> "in_flight", by |-> p]

(* An opaque call that failed or whose outcome is unknown is not replayed:    *)
(* after an unsuccessful cycle, a death during the call, a failed settlement  *)
(* and any number of recoveries, no process begins a second call until one    *)
(* has been settled as completed.                                             *)
UnsettledNeverReplayed == opaque <= 1

(* A cycle is claimed at exactly every think_interval-th turn that is         *)
(* counted: the reduction of the counter at settlement neither carries turns  *)
(* of a completed cycle into the next nor drops turns counted since, and no   *)
(* counted turn passes a due cycle by. Turns deferred by another worker's     *)
(* admission or a failed transaction, and turns behind a blocking claim, are  *)
(* not counted.                                                               *)
CycleEveryInterval ==
  [][IF claim.state # "in_flight" /\ claim'.state = "in_flight"
       THEN since + 1 = Interval
       ELSE since' < Interval]_thinkVars

(* README, think cycles: run every think_interval sync turns. While turns     *)
(* keep coming, cycles do.                                                    *)
(* Does not hold (README, Disagreements).                                     *)
ThinkRunsEveryInterval ==
  []<>(\E p \in Process : worker[p] = "due") => []<>(\E p \in Process : worker[p] = "think")
=============================================================================
