---------------------------- MODULE CycleProofs ----------------------------
(* The two background cycles of a profile: think cycles, which are claimed    *)
(* before they run (session.py, think claims), and the sleep cycle (sleep.py).*)
(*                                                                            *)
(* Think cycles: whatever raises or dies, a claim that is still live is kept, *)
(* a call whose outcome is unknown is never repeated, and a cycle is claimed  *)
(* at every think_interval-th counted turn.                                   *)
(*                                                                            *)
(* Sleep: for every graph, page size, budget and deployment, and wherever the *)
(* cycle raises or dies, permanent nodes are kept, merging loses no memory,   *)
(* claimed pairs are linked, and the reported status is truthful.             *)
EXTENDS SleepCycle, ThinkClaim, FiniteSetTheorems, WellFoundedInduction, TLAPS

-----------------------------------------------------------------------------
(* Think cycles.                                                              *)

(* The exclusive admission is held exactly while a cycle runs.                *)
HolderThinks == thinking # NoProcess => worker[thinking] = "think"

(* The counter is the turns since the last claim, or, until that claim is     *)
(* settled as completed, the interval it was made for.                        *)
CounterAgrees ==
  /\ since < Interval
  /\ IF claim.state \in Blocking THEN counter = Interval /\ since = 0 ELSE counter = since

(* An opaque call not settled as completed keeps the claim blocking.          *)
OpaqueBlocks == opaque <= 1 /\ (opaque = 1 => claim.state \in Blocking)

ThinkInv == ThinkTypeOK /\ LiveClaimKept /\ CounterAgrees /\ OpaqueBlocks /\ HolderThinks

LEMMA ThinkInitInv == ThinkInit => ThinkInv
BY ThinkAssumption
   DEF ThinkInit, ThinkInv, ThinkTypeOK, Claims, States, Blocking, LiveClaimKept, CounterAgrees,
       OpaqueBlocks, HolderThinks

LEMMA ThinkStepInv == ThinkInv /\ [ThinkNext]_thinkVars => ThinkInv'
<1> SUFFICES ASSUME ThinkInv, [ThinkNext]_thinkVars PROVE ThinkInv'
  OBVIOUS
<1> USE ThinkAssumption
        DEF ThinkInv, ThinkTypeOK, Claims, States, Blocking, LiveClaimKept, CounterAgrees,
            OpaqueBlocks, HolderThinks, Go, history
<1>1. ASSUME NEW p \in Process, Initialize(p) PROVE ThinkInv'
  BY <1>1 DEF Initialize
<1>2. ASSUME NEW p \in Process, TurnPersisted(p) PROVE ThinkInv'
  BY <1>2 DEF TurnPersisted
<1>3. ASSUME NEW p \in Process, ThinkDeferred(p) PROVE ThinkInv'
  BY <1>3 DEF ThinkDeferred
<1>4. ASSUME NEW p \in Process, ThinkBlocked(p) PROVE ThinkInv'
  BY <1>4 DEF ThinkBlocked
<1>5. ASSUME NEW p \in Process, CountTurn(p) PROVE ThinkInv'
  BY <1>5 DEF CountTurn
<1>6. ASSUME NEW p \in Process, ClaimThink(p) PROVE ThinkInv'
  BY <1>6 DEF ClaimThink, Claim
<1>7. ASSUME NEW p \in Process, NEW terminal \in {"completed", "failed", "uncertain"}, SettleThink(p, terminal) PROVE ThinkInv'
  BY <1>7 DEF SettleThink, Reduced
<1>8. ASSUME NEW p \in Process, SettleFails(p) PROVE ThinkInv'
  BY <1>8 DEF SettleFails
<1>9. ASSUME NEW p \in Process, Shutdown(p) PROVE ThinkInv'
  BY <1>9 DEF Shutdown
<1>10. ASSUME NEW p \in Process, Die(p) PROVE ThinkInv'
  BY <1>10 DEF Die
<1>11. CASE UNCHANGED thinkVars
  BY <1>11 DEF thinkVars
<1>12. ASSUME NEW p \in Process, ClaimRaises(p) PROVE ThinkInv'
  BY <1>12 DEF ClaimRaises, Claim
<1> QED
  BY <1>1, <1>2, <1>3, <1>4, <1>5, <1>6, <1>7, <1>8, <1>9, <1>10, <1>11, <1>12
     DEF ThinkNext, Work

(* The inductive invariant holds of every reachable state.                    *)
THEOREM ThinkInvariant == ThinkSpec => []ThinkInv
BY ThinkInitInv, ThinkStepInv, PTL DEF ThinkSpec

(* Counter, claim and worker states keep their types; the counter never       *)
(* passes the interval.                                                       *)
THEOREM ThinkTypeCorrect == ThinkSpec => []ThinkTypeOK
<1>1. ThinkInv => ThinkTypeOK
  BY DEF ThinkInv
<1> QED BY <1>1, ThinkInvariant, PTL

(* Recovery by another process never touches the claim of a running cycle.    *)
THEOREM LiveClaims == ThinkSpec => []LiveClaimKept
<1>1. ThinkInv => LiveClaimKept
  BY DEF ThinkInv
<1> QED BY <1>1, ThinkInvariant, PTL

(* No opaque call is begun while an earlier one is not settled as completed,  *)
(* whatever dies, raises and recovers in between.                             *)
THEOREM NeverReplayed == ThinkSpec => []UnsettledNeverReplayed
<1>1. ThinkInv => UnsettledNeverReplayed
  BY DEF ThinkInv, OpaqueBlocks, UnsettledNeverReplayed
<1> QED BY <1>1, ThinkInvariant, PTL

(* A cycle is claimed at exactly every think_interval-th counted turn.        *)
THEOREM CyclesEveryInterval == ThinkSpec => CycleEveryInterval
<1> DEFINE Due == IF claim.state # "in_flight" /\ claim'.state = "in_flight"
                    THEN since + 1 = Interval ELSE since' < Interval
<1>1. ASSUME ThinkInv, [ThinkNext]_thinkVars PROVE Due
  <2>0. ThinkInv'
    BY <1>1, ThinkStepInv
  <2> USE <1>1, ThinkAssumption DEF ThinkInv, ThinkTypeOK, Claims, Blocking, CounterAgrees
  <2>1. since' < Interval
    BY <2>0
  <2>2. ASSUME NEW p \in Process, Claim(p), claim.state \notin Blocking PROVE Due
    BY <2>2 DEF Claim
  <2>3. ASSUME NEW p \in Process, NEW terminal \in {"completed", "failed", "uncertain"},
               SettleThink(p, terminal)
        PROVE  Due
    BY <2>1, <2>3 DEF SettleThink
  <2>4. ASSUME NEW p \in Process, Initialize(p) PROVE Due
    BY <2>1, <2>4 DEF Initialize
  <2>5. ASSUME NEW p \in Process,
               \/ TurnPersisted(p) \/ ThinkDeferred(p) \/ ThinkBlocked(p) \/ CountTurn(p)
               \/ SettleFails(p) \/ Shutdown(p) \/ Die(p)
        PROVE  Due
    <3>1. UNCHANGED claim
      BY <2>5 DEF TurnPersisted, ThinkDeferred, ThinkBlocked, CountTurn, SettleFails,
                  Shutdown, Die
    <3> QED BY <2>1, <3>1
  <2> QED
    BY <1>1, <2>1, <2>2, <2>3, <2>4, <2>5
       DEF ThinkNext, Work, ClaimThink, ClaimRaises, thinkVars
<1>2. ThinkInv /\ [ThinkNext]_thinkVars => [Due]_thinkVars
  BY <1>1
<1> QED BY <1>2, ThinkInvariant, PTL DEF ThinkSpec, CycleEveryInterval

-----------------------------------------------------------------------------
(* The sleep cycle: what every commit keeps.                                  *)

(* What the phases commit: no permanent node decays, and core memories are    *)
(* rows of the graph, permanent while they are active, so that promoting the  *)
(* same core again changes nothing.                                           *)
GraphKept ==
  /\ row \in [Node -> {"absent", "active", "decayed"}]
  /\ perm \subseteq Node /\ core \subseteq Node
  /\ PermanentNotDecayed
  /\ \A n \in core : row[n] # "absent" /\ (row[n] = "active" => n \in perm)

(* The locals of the cycle: the page holds active nodes until they are        *)
(* merged, and claimed pairs are on disk; the orphan passes have none.        *)
LocalsKept ==
  /\ DOMAIN cyc = DOMAIN NoCycle
  /\ cyc.did \in BOOLEAN /\ cyc.second \in BOOLEAN /\ cyc.wrote \in BOOLEAN
  /\ pc \in {"idle", "orphans", "orphans2", "page", "write", "reselect", "finish"} => cyc.claimed = {}
  /\ pc \in {"cross", "dedup"} => cyc.page \subseteq Active
  /\ ClaimedPairsLinked

(* What the commits that returned have changed so far counts as persisted,    *)
(* and nothing has been changed when the page is selected again.              *)
ChangesCounted ==
  /\ pc \in Phase /\ changed \in BOOLEAN
  /\ ~Idle /\ changed => cyc.did
  /\ (pc \in {"orphans", "reselect"} \/ (pc \in {"page", "write"} /\ ~cyc.second)) => ~changed
  /\ StatusTruthful

SleepInv == GraphKept /\ LocalsKept /\ ChangesCounted

LEMMA Fields ==
  /\ DOMAIN NoCycle = {"page", "work", "pending", "claimed", "metrics", "budget", "phases", "at",
                       "rows", "boundary", "second", "wrote", "failed", "did"}
  /\ NoCycle.claimed = {} /\ NoCycle.did = FALSE
  /\ NoCycle.second = FALSE /\ NoCycle.wrote = FALSE
BY DEF NoCycle

LEMMA SleepInitInv == Init => SleepInv
<1> SUFFICES ASSUME Init PROVE SleepInv
  OBVIOUS
<1>1. GraphKept
  BY DEF Init, GraphKept, PermanentNotDecayed, Active
<1>2. LocalsKept
  BY Fields DEF Init, LocalsKept, ClaimedPairsLinked
<1>3. ChangesCounted
  BY DEF Init, ChangesCounted, Idle, StatusTruthful, Phase
<1> QED BY <1>1, <1>2, <1>3 DEF SleepInv

(* A step that leaves nodes and edges alone.                                  *)
LEMMA GraphUnchanged ==
  ASSUME SleepInv, UNCHANGED graph
  PROVE  /\ GraphKept' /\ Active' = Active
         /\ pc' \in {"cross", "dedup"} /\ cyc'.claimed = {} => ClaimedPairsLinked'
BY DEF SleepInv, GraphKept, PermanentNotDecayed, graph, Active, ClaimedPairsLinked

(* The end of a cycle, whatever it reports.                                   *)
LEMMA ReportKeeps ==
  ASSUME SleepInv, ~Idle, UNCHANGED graph, NEW result, Report(result),
         changed' = (changed \/ graph' # graph),
         result \in {"failed", "unavailable"} => ~changed
  PROVE  SleepInv'
<1>1. GraphKept'
  BY GraphUnchanged
<1>2. LocalsKept'
  BY Fields DEF Report, LocalsKept, ClaimedPairsLinked
<1>3. ChangesCounted'
  BY DEF Report, SleepInv, ChangesCounted, Idle, StatusTruthful, Phase
<1> QED BY <1>1, <1>2, <1>3 DEF SleepInv

(* A step within a cycle that commits nothing to nodes and edges.             *)
LEMMA QuietStep ==
  ASSUME SleepInv, ~Idle, UNCHANGED graph, changed' = (changed \/ graph' # graph),
         DOMAIN cyc' = DOMAIN cyc, cyc'.did \in BOOLEAN, cyc'.second \in BOOLEAN,
         cyc'.wrote \in BOOLEAN,
         cyc.did => cyc'.did, pc' \in Phase \ {"idle"},
         pc' \in {"cross", "dedup"} => /\ pc \in {"cross", "dedup"} /\ cyc'.page = cyc.page
                                       /\ cyc'.claimed = cyc.claimed,
         pc' \in {"orphans", "orphans2", "page", "write", "reselect", "finish"} => cyc'.claimed = {},
         (pc' \in {"orphans", "reselect"} \/ (pc' \in {"page", "write"} /\ ~cyc'.second)) => ~changed
  PROVE  SleepInv'
<1>1. GraphKept' /\ Active' = Active
  BY GraphUnchanged
<1>2. LocalsKept'
  BY <1>1 DEF SleepInv, LocalsKept, ClaimedPairsLinked, Complete, Both, graph
<1>3. ChangesCounted'
  BY DEF SleepInv, ChangesCounted, Idle, StatusTruthful
<1> QED BY <1>1, <1>2, <1>3 DEF SleepInv

LEMMA PageOfActive == SelectCycleNodeIds.page \subseteq Active
BY DEF SelectCycleNodeIds, Page, FirstK

LEMMA BeginKeeps == SleepInv /\ Noted(FALSE, BeginCycle) => SleepInv'
<1> SUFFICES ASSUME SleepInv, Noted(FALSE, BeginCycle) PROVE SleepInv'
  OBVIOUS
<1> DEFINE sel == SelectCycleNodeIds
<1>1. /\ Idle /\ UNCHANGED graph /\ status' = "running"
      /\ pc' = IF EnoughNodes(sel.page) THEN "cross" ELSE "orphans"
      /\ cyc' = [NoCycle EXCEPT !.page = sel.page, !.work = Pairs(Near, sel.page),
                                !.budget = OrphanLimit]
      /\ changed' = (pc' = "idle" /\ changed)
  BY DEF Noted, BeginCycle, graph
<1>2. sel.page \subseteq Active
  BY PageOfActive
<1> HIDE DEF sel
<1>3. GraphKept' /\ Active' = Active
  BY <1>1, GraphUnchanged
<1>4. /\ DOMAIN cyc' = DOMAIN NoCycle /\ cyc'.claimed = {} /\ cyc'.did = FALSE
      /\ cyc'.second = FALSE /\ cyc'.wrote = FALSE /\ cyc'.page = sel.page
  BY <1>1, Fields
<1>5. LocalsKept'
  BY <1>1, <1>2, <1>3, <1>4 DEF LocalsKept, ClaimedPairsLinked
<1>6. ChangesCounted'
  BY <1>1, <1>4 DEF ChangesCounted, Idle, StatusTruthful, Phase
<1> QED BY <1>3, <1>5, <1>6 DEF SleepInv

LEMMA BetweenKeeps ==
  ASSUME SleepInv, NEW n \in Node, Noted(FALSE, Remember(n)) \/ Noted(FALSE, Recall(n))
  PROVE  SleepInv'
<1>1. /\ Idle /\ UNCHANGED <<perm, core, derived, links, pc, cyc, status>>
      /\ changed' = (pc' = "idle" /\ changed)
      /\ row' = row \/ (row[n] = "absent" /\ row' = [row EXCEPT ![n] = "active"])
  BY DEF Noted, Remember, Recall
<1>2. GraphKept'
  BY <1>1 DEF SleepInv, GraphKept, PermanentNotDecayed
<1>3. LocalsKept'
  BY <1>1 DEF SleepInv, LocalsKept, ClaimedPairsLinked, Idle
<1>4. ChangesCounted'
  BY <1>1 DEF SleepInv, ChangesCounted, Idle, StatusTruthful
<1> QED BY <1>2, <1>3, <1>4 DEF SleepInv

(* The next lemmas take the steps of a cycle one by one.                      *)
Running == ~Idle /\ changed' = (changed \/ graph' # graph)
Committing(raised) == ~Idle /\ changed' = (changed \/ (graph' # graph /\ ~raised))

LEMMA ReselectKeeps == SleepInv /\ Running /\ Reselect => SleepInv'
<1> SUFFICES ASSUME SleepInv, Running, Reselect PROVE SleepInv'
  OBVIOUS
<1> DEFINE sel == SelectCycleNodeIds
<1>1. /\ pc = "reselect" /\ UNCHANGED graph /\ ~changed /\ cyc.claimed = {}
      /\ DOMAIN cyc = DOMAIN NoCycle /\ cyc.second \in BOOLEAN
      /\ ~Idle /\ changed' = (changed \/ graph' # graph)
  BY DEF Reselect, graph, SleepInv, ChangesCounted, LocalsKept, Running
<1>2. sel.page \subseteq Active
  BY PageOfActive
<1>3. CASE EnoughNodes(sel.page)
  <2>1. /\ pc' = "cross" /\ UNCHANGED status
        /\ cyc' = [cyc EXCEPT !.page = sel.page, !.work = Pairs(Near, sel.page), !.did = cyc.wrote]
    BY <1>3 DEF Reselect
  <2> HIDE DEF sel
  <2>2. GraphKept' /\ Active' = Active
    BY <1>1, GraphUnchanged
  <2>3. /\ DOMAIN cyc' = DOMAIN NoCycle /\ cyc'.claimed = {} /\ cyc'.did = cyc.wrote
        /\ cyc'.second \in BOOLEAN /\ cyc'.page = sel.page /\ cyc'.wrote = cyc.wrote
    BY <1>1, <2>1, Fields
  <2>4. cyc.wrote \in BOOLEAN
    BY DEF SleepInv, LocalsKept
  <2>5. LocalsKept'
    BY <1>2, <2>1, <2>2, <2>3, <2>4 DEF LocalsKept, ClaimedPairsLinked
  <2>6. ChangesCounted'
    BY <1>1, <2>1 DEF ChangesCounted, Idle, StatusTruthful, Phase
  <2> QED BY <2>2, <2>5, <2>6 DEF SleepInv
<1>4. CASE ~EnoughNodes(sel.page)
  <2>1. Report(IF cyc.wrote THEN "partial" ELSE "unavailable")
    BY <1>4 DEF Reselect
  <2> QED BY <1>1, <2>1, ReportKeeps
<1> QED BY <1>3, <1>4

LEMMA ReselectRaisesKeeps == SleepInv /\ Running /\ ReselectRaises => SleepInv'
<1> SUFFICES ASSUME SleepInv, Running, ReselectRaises PROVE SleepInv'
  OBVIOUS
<1> DEFINE result == IF cyc.did THEN "partial" ELSE "failed"
<1>1. UNCHANGED graph /\ Report(result) /\ ~changed
  BY DEF ReselectRaises, Fail, graph, SleepInv, ChangesCounted
<1> HIDE DEF result
<1> QED BY <1>1, ReportKeeps DEF Running

LEMMA WritePairsKeeps == SleepInv /\ Running /\ WritePairs => SleepInv'
<1> SUFFICES ASSUME SleepInv, Running, WritePairs PROVE SleepInv'
  OBVIOUS
<1>1. /\ pc = "cross" /\ UNCHANGED <<durable, pc, status>>
      /\ \E good, work, failed : cyc' = [cyc EXCEPT !.pending = good, !.work = work, !.failed = failed]
  BY DEF WritePairs
<1>2. /\ DOMAIN cyc' = DOMAIN cyc /\ cyc'.did = cyc.did /\ cyc'.second = cyc.second
      /\ cyc'.wrote = cyc.wrote /\ cyc'.claimed = cyc.claimed /\ cyc'.page = cyc.page
  BY <1>1
<1>3. UNCHANGED graph
  BY <1>1 DEF durable, graph
<1> QED BY <1>1, <1>2, <1>3, QuietStep DEF SleepInv, LocalsKept, ChangesCounted, Running, Phase, Idle

(* What a commit writes completes the pairs it was to link.                   *)
LEMMA WrittenComplete ==
  ASSUME NEW p \in cyc.pending, links \cup Written \subseteq links', UNCHANGED derived
  PROVE  Complete(p)'
<1> DEFINE all == UNION {Both(q) : q \in cyc.pending}
           two == Both(p)
<1>1. two \subseteq all
  OBVIOUS
<1>2. Written = all \ derived
  BY DEF Written
<1> HIDE DEF all, two
<1>3. two \subseteq Written \cup derived
  BY <1>1, <1>2
<1>4. Both(p)' = Both(p)
  BY DEF Both
<1> QED BY <1>3, <1>4 DEF Complete, two

LEMMA CompleteStays ==
  ASSUME NEW p, Complete(p), links \subseteq links', UNCHANGED derived
  PROVE  Complete(p)'
BY DEF Complete, Both

(* A commit of cross links, known to have happened or not.                    *)
LEMMA LinksKeep ==
  ASSUME SleepInv, Running, pc = "cross", UNCHANGED <<row, perm, core, derived, pc, status>>,
         NEW happened \in BOOLEAN, links' = IF happened THEN links \cup Written ELSE links,
         DOMAIN cyc' = DOMAIN cyc, cyc'.did = (cyc.did \/ happened), cyc'.second = cyc.second,
         cyc'.wrote = cyc.wrote,
         cyc'.page = cyc.page,
         cyc'.claimed = IF happened THEN cyc.claimed \cup cyc.pending ELSE cyc.claimed
  PROVE  SleepInv'
<1>1. GraphKept' /\ Active' = Active
  BY DEF SleepInv, GraphKept, PermanentNotDecayed, Active
<1>2. \A p \in cyc.claimed : Complete(p)
  BY DEF SleepInv, LocalsKept, ClaimedPairsLinked
<1>3. \A p \in cyc'.claimed : Complete(p)'
  <2>1. links \subseteq links'
    OBVIOUS
  <2>2. \A p \in cyc.claimed : Complete(p)'
    BY <1>2, <2>1, CompleteStays
  <2>3. happened => \A p \in cyc.pending : Complete(p)'
    BY WrittenComplete
  <2> QED BY <2>2, <2>3
<1>4. LocalsKept'
  BY <1>1, <1>3 DEF SleepInv, LocalsKept, ClaimedPairsLinked
<1>5. ~happened => graph' = graph
  BY DEF graph
<1>6. ChangesCounted'
  BY <1>5 DEF SleepInv, LocalsKept, ChangesCounted, Idle, StatusTruthful, Running
<1> QED BY <1>1, <1>4, <1>6 DEF SleepInv

LEMMA CommitPairsKeeps == SleepInv /\ Running /\ CommitPairs => SleepInv'
<1> SUFFICES ASSUME SleepInv, Running, CommitPairs PROVE SleepInv'
  OBVIOUS
<1>1. /\ pc = "cross" /\ UNCHANGED <<row, perm, core, derived, pc, status>>
      /\ links' = links \cup Written
      /\ cyc' = [cyc EXCEPT !.claimed = @ \cup cyc.pending, !.pending = {}, !.did = TRUE]
  BY DEF CommitPairs
<1>2. /\ DOMAIN cyc' = DOMAIN cyc /\ cyc'.did = TRUE /\ cyc'.second = cyc.second
      /\ cyc'.wrote = cyc.wrote /\ cyc'.page = cyc.page /\ cyc'.claimed = cyc.claimed \cup cyc.pending
  BY <1>1, Fields DEF SleepInv, LocalsKept
<1> QED BY <1>1, <1>2, LinksKeep

LEMMA CommitRaisesKeeps == SleepInv /\ Running /\ CommitRaises => SleepInv'
<1> SUFFICES ASSUME SleepInv, Running, CommitRaises PROVE SleepInv'
  OBVIOUS
<1>1. pc = "cross" /\ UNCHANGED <<row, perm, core, derived>>
  BY DEF CommitRaises
<1>2. PICK happened \in BOOLEAN, readable \in BOOLEAN :
        /\ links' = IF happened THEN links \cup Written ELSE links
        /\ IF readable
             THEN /\ cyc' = [cyc EXCEPT
                       !.claimed = IF happened THEN @ \cup cyc.pending ELSE @,
                       !.pending = {}, !.work = {}, !.failed = @ \cup {"cross"},
                       !.did = @ \/ happened]
                  /\ UNCHANGED <<pc, status>>
             ELSE Report("uncertain")
  BY DEF CommitRaises
<1>3. CASE readable
  <2>1. /\ DOMAIN cyc' = DOMAIN cyc /\ cyc'.did = (cyc.did \/ happened) /\ cyc'.second = cyc.second
        /\ cyc'.wrote = cyc.wrote /\ cyc'.page = cyc.page
        /\ cyc'.claimed = IF happened THEN cyc.claimed \cup cyc.pending ELSE cyc.claimed
    BY <1>2, <1>3, Fields DEF SleepInv, LocalsKept
  <2> QED BY <1>1, <1>2, <1>3, <2>1, LinksKeep
<1>4. CASE ~readable
  <2>1. pc' = "idle" /\ cyc' = NoCycle /\ status' = "uncertain"
    BY <1>2, <1>4 DEF Report
  <2>2. GraphKept'
    BY <1>1 DEF SleepInv, GraphKept, PermanentNotDecayed
  <2>3. LocalsKept'
    BY <2>1, Fields DEF LocalsKept, ClaimedPairsLinked
  <2>4. ChangesCounted'
    BY <2>1 DEF SleepInv, Running, ChangesCounted, Idle, StatusTruthful, Phase
  <2> QED BY <2>2, <2>3, <2>4 DEF SleepInv
<1> QED BY <1>3, <1>4

LEMMA CrossLinksDoneKeeps == SleepInv /\ Running /\ CrossLinksDone => SleepInv'
<1> SUFFICES ASSUME SleepInv, Running, CrossLinksDone PROVE SleepInv'
  OBVIOUS
<1>1. pc = "cross" /\ pc' = "dedup" /\ UNCHANGED cyc /\ UNCHANGED graph
  BY DEF CrossLinksDone, durable, graph
<1> QED BY <1>1, QuietStep DEF SleepInv, LocalsKept, Running, Phase

LEMMA QuietDomain ==
  ASSUME SleepInv
  PROVE  {"page", "work", "pending", "claimed", "metrics", "budget", "phases", "at",
          "rows", "boundary", "second", "wrote", "failed", "did"} = DOMAIN cyc
BY Fields DEF SleepInv, LocalsKept

(* A commit of a later phase that keeps the graph's invariant.  It returns    *)
(* and counts what it changes, or it raises; permanence may swallow that.     *)
LEMMA LoudStep ==
  ASSUME SleepInv, NEW raised \in BOOLEAN, Committing(raised), GraphKept',
         NEW next \in {"gc", "permanence", "core", "dream", "orphans2"}, NEW c,
         NEW fails \in BOOLEAN, fails => raised, Returns(fails, next, c),
         DOMAIN c = DOMAIN cyc, c.did \in BOOLEAN, cyc.did => c.did,
         c.second = cyc.second, c.wrote = cyc.wrote, next = "orphans2" => c.claimed = {},
         ~raised /\ ~c.did => UNCHANGED graph
  PROVE  SleepInv'
<1>1. CASE fails
  <2>1. pc' = "idle" /\ cyc' = NoCycle /\ status' = (IF cyc.did THEN "partial" ELSE "failed")
    BY <1>1 DEF Returns, Fail, Report
  <2>2. LocalsKept'
    BY <2>1, Fields DEF LocalsKept, ClaimedPairsLinked
  <2>3. changed' = changed
    BY <1>1 DEF Committing, SleepInv, ChangesCounted
  <2>4. ChangesCounted'
    BY <2>1, <2>3 DEF SleepInv, ChangesCounted, Committing, Idle, StatusTruthful, Phase
  <2> QED BY <2>2, <2>4 DEF SleepInv
<1>2. CASE ~fails
  <2>1. pc' = next /\ cyc' = c /\ UNCHANGED status
    BY <1>2 DEF Returns
  <2>2. LocalsKept'
    BY <2>1 DEF SleepInv, LocalsKept, ClaimedPairsLinked
  <2>3. changed' => c.did
    BY DEF Committing, SleepInv, ChangesCounted
  <2>4. changed' \in BOOLEAN
    BY DEF Committing
  <2>5. ChangesCounted'
    BY <2>1, <2>3, <2>4 DEF ChangesCounted, Idle, StatusTruthful, Phase
  <2> QED BY <2>2, <2>5 DEF SleepInv
<1> QED BY <1>1, <1>2

LEMMA DedupKeeps ==
  ASSUME SleepInv, NEW raised \in BOOLEAN, Committing(raised), Dedup(raised)
  PROVE  SleepInv'
<1>1. PICK losers, rep :
        LET Kept(edges) == {e \in edges : e[1] \notin losers /\ e[2] \notin losers}
            Moved(edges) == {e \in Rewire(edges, rep, losers) : e[1] # e[2]}
        IN /\ row' = [n \in Node |-> IF n \in losers THEN "decayed" ELSE row[n]]
           /\ perm' = perm \ losers
           /\ links' = Kept(links) \cup (Moved(links) \ Kept(derived))
           /\ derived' = Kept(derived) \cup (Moved(derived) \ links')
           /\ Returns(raised, "gc", [cyc EXCEPT !.did = @ \/ losers # {}])
  BY DEF Dedup
<1>2. UNCHANGED core
  BY DEF Dedup
<1> DEFINE c == [cyc EXCEPT !.did = @ \/ losers # {}]
<1>3. GraphKept'
  BY <1>1, <1>2 DEF SleepInv, GraphKept, PermanentNotDecayed
<1>4. losers = {} => UNCHANGED graph
  BY <1>1, <1>2 DEF graph, SleepInv, GraphKept, Rewire
<1>5. /\ DOMAIN c = DOMAIN cyc /\ c.second = cyc.second /\ c.wrote = cyc.wrote
      /\ c.did = (cyc.did \/ losers # {})
  BY QuietDomain
<1>6. Returns(raised, "gc", c)
  BY <1>1
<1> HIDE DEF c
<1> QED BY <1>3, <1>4, <1>5, <1>6, LoudStep DEF SleepInv, LocalsKept

LEMMA GarbageCollectKeeps ==
  ASSUME SleepInv, NEW raised \in BOOLEAN, Committing(raised), GarbageCollect(raised)
  PROVE  SleepInv'
<1>1. PICK sample \in SUBSET Collectable(Metrics) :
        /\ \/ /\ row' = [n \in Node |-> IF n \in sample THEN "absent" ELSE row[n]]
              /\ links' = links \ UNION {Touching(n) : n \in sample}
              /\ derived' = derived \ UNION {Touching(n) : n \in sample}
              /\ core' = core \ sample
           \/ /\ row' = [n \in Node |-> IF n \in sample THEN "decayed" ELSE row[n]]
              /\ UNCHANGED <<links, derived, core>>
        /\ Returns(raised, "permanence", [cyc EXCEPT !.metrics = Metrics, !.did = @ \/ sample # {}])
  BY DEF GarbageCollect
<1>2. UNCHANGED perm
  BY DEF GarbageCollect
<1> DEFINE c == [cyc EXCEPT !.metrics = Metrics, !.did = @ \/ sample # {}]
<1>3. sample \cap perm = {}
  BY <1>1 DEF Collectable
<1>4. GraphKept'
  BY <1>1, <1>2, <1>3 DEF SleepInv, GraphKept, PermanentNotDecayed
<1>5. ASSUME sample = {} PROVE UNCHANGED graph
  <2>1. row' = row
    BY <1>1, <1>5 DEF SleepInv, GraphKept
  <2>2. UNCHANGED <<links, derived, core>>
    BY <1>1, <1>5
  <2> QED BY <1>2, <2>1, <2>2 DEF graph
<1>6. /\ DOMAIN c = DOMAIN cyc /\ c.second = cyc.second /\ c.wrote = cyc.wrote
      /\ c.did = (cyc.did \/ sample # {})
  BY QuietDomain
<1>7. Returns(raised, "permanence", c)
  BY <1>1
<1> HIDE DEF c
<1> QED BY <1>4, <1>5, <1>6, <1>7, LoudStep DEF SleepInv, LocalsKept

LEMMA EvaluatePermanenceKeeps ==
  ASSUME SleepInv, NEW raised \in BOOLEAN, Committing(raised), EvaluatePermanence(raised)
  PROVE  SleepInv'
<1> DEFINE promoted == {n \in Active \ perm : access[n] = 2}
           c == [cyc EXCEPT !.did = @ \/ promoted # {}]
<1>1. /\ perm' = perm \cup promoted /\ UNCHANGED <<row, core, links, derived>>
      /\ Returns(raised, "core", c) \/ (raised /\ Returns(FALSE, "core", cyc))
  BY DEF EvaluatePermanence
<1>2. promoted \subseteq Active
  OBVIOUS
<1> HIDE DEF promoted
<1>3. GraphKept'
  BY <1>1, <1>2 DEF SleepInv, GraphKept, PermanentNotDecayed, Active
<1>4. promoted = {} => UNCHANGED graph
  BY <1>1 DEF graph
<1>5. /\ DOMAIN c = DOMAIN cyc /\ c.second = cyc.second /\ c.wrote = cyc.wrote
      /\ c.did = (cyc.did \/ promoted # {})
  BY QuietDomain
<1> HIDE DEF c
<1>6. CASE Returns(raised, "core", c)
  BY <1>3, <1>4, <1>5, <1>6, LoudStep DEF SleepInv, LocalsKept
<1>7. CASE raised /\ Returns(FALSE, "core", cyc)
  BY <1>3, <1>7, LoudStep DEF SleepInv, LocalsKept
<1> QED BY <1>1, <1>6, <1>7

LEMMA PromoteCoreKeeps ==
  ASSUME SleepInv, NEW raised \in BOOLEAN, Committing(raised), PromoteCoreMemories(raised)
  PROVE  SleepInv'
<1>1. PICK top :
        /\ core' = (core \cap top) \cup ((top \ core) \cap Active)
        /\ perm' = perm \cup ((core \cup top) \cap Active)
        /\ Returns(raised, "dream", [cyc EXCEPT !.metrics = <<>>, !.did = @ \/ top # core])
  BY DEF PromoteCoreMemories
<1>2. UNCHANGED <<row, links, derived>>
  BY DEF PromoteCoreMemories
<1> DEFINE c == [cyc EXCEPT !.metrics = <<>>, !.did = @ \/ top # core]
<1>3. GraphKept'
  BY <1>1, <1>2 DEF SleepInv, GraphKept, PermanentNotDecayed, Active
<1>4. top = core => UNCHANGED graph
  <2>1. core \cap Active \subseteq perm
    BY DEF SleepInv, GraphKept, Active
  <2> QED BY <1>1, <1>2, <2>1 DEF graph
<1>5. /\ DOMAIN c = DOMAIN cyc /\ c.second = cyc.second /\ c.wrote = cyc.wrote
      /\ c.did = (cyc.did \/ top # core)
  BY QuietDomain
<1>6. Returns(raised, "dream", c)
  BY <1>1
<1> HIDE DEF c
<1> QED BY <1>3, <1>4, <1>5, <1>6, LoudStep DEF SleepInv, LocalsKept

LEMMA DreamKeeps ==
  ASSUME SleepInv, NEW raised \in BOOLEAN, Committing(raised), Dream(raised)
  PROVE  SleepInv'
<1>1. UNCHANGED links
  BY DEF Dream
<1>2. ASSUME NEW d \in Dreams, row' = [row EXCEPT ![d] = "active"],
             perm' = perm \ {d}, core' = core \ {d}, NEW c,
             c = [cyc EXCEPT !.claimed = {}, !.did = TRUE], Returns(raised, "orphans2", c)
      PROVE  SleepInv'
  <2>1. GraphKept'
    BY <1>2, SleepAssumption DEF SleepInv, GraphKept, PermanentNotDecayed
  <2>2. /\ DOMAIN c = DOMAIN cyc /\ c.second = cyc.second /\ c.wrote = cyc.wrote
        /\ c.did = TRUE /\ c.claimed = {}
    BY <1>2, QuietDomain
  <2> QED BY <1>2, <2>1, <2>2, LoudStep
<1>3. ASSUME UNCHANGED <<row, perm, core, derived>>, NEW failed, NEW c,
             c = [cyc EXCEPT !.claimed = {}, !.failed = failed], Returns(FALSE, "orphans2", c)
      PROVE  SleepInv'
  <2>1. UNCHANGED graph
    BY <1>1, <1>3 DEF graph
  <2>2. GraphKept'
    BY <2>1, GraphUnchanged
  <2>3. /\ DOMAIN c = DOMAIN cyc /\ c.second = cyc.second /\ c.wrote = cyc.wrote
        /\ c.did = cyc.did /\ c.claimed = {}
    BY <1>3, QuietDomain
  <2> QED BY <1>3, <2>1, <2>2, <2>3, LoudStep DEF SleepInv, LocalsKept
<1> QED BY <1>2, <1>3 DEF Dream

LEMMA NoDreamKeeps == SleepInv /\ Running /\ NoDream => SleepInv'
<1> SUFFICES ASSUME SleepInv, Running, NoDream PROVE SleepInv'
  OBVIOUS
<1>1. pc' = "orphans2" /\ UNCHANGED graph /\ cyc' = [cyc EXCEPT !.claimed = {}]
  BY DEF NoDream, durable, graph
<1>2. /\ DOMAIN cyc' = DOMAIN cyc /\ cyc'.second = cyc.second /\ cyc'.wrote = cyc.wrote
      /\ cyc'.did = cyc.did /\ cyc'.claimed = {}
  BY <1>1, QuietDomain
<1> QED BY <1>1, <1>2, QuietStep DEF SleepInv, LocalsKept, Running, Phase

LEMMA EmbedOrphansKeeps == SleepInv /\ Running /\ EmbedOrphans => SleepInv'
<1> SUFFICES ASSUME SleepInv, Running, EmbedOrphans PROVE SleepInv'
  OBVIOUS
<1>1. pc \in {"orphans", "orphans2"} /\ UNCHANGED graph /\ cyc.claimed = {} /\ (pc = "orphans" => ~changed)
  BY DEF EmbedOrphans, graph, SleepInv, LocalsKept, ChangesCounted
<1>2. CASE UNCHANGED cyc /\ pc' = AfterOrphans(pc = "orphans2")
  BY <1>1, <1>2, QuietStep DEF AfterOrphans, SleepInv, LocalsKept, Running, Phase
<1>3. CASE pc' = "page" /\ cyc' = [cyc EXCEPT !.phases = PhaseOrder, !.at = 0,
                                              !.second = (pc = "orphans2"), !.wrote = FALSE]
  <2>1. /\ DOMAIN cyc' = DOMAIN cyc /\ cyc'.did = cyc.did /\ cyc'.second = (pc = "orphans2")
        /\ cyc'.wrote = FALSE /\ cyc'.claimed = {}
    BY <1>1, <1>3, QuietDomain
  <2> QED BY <1>1, <1>3, <2>1, QuietStep DEF SleepInv, LocalsKept, Running, Phase
<1> QED BY <1>2, <1>3 DEF EmbedOrphans

(* Within an orphan pass.                                                     *)
LEMMA OrphanStep ==
  ASSUME SleepInv, Running, pc \in {"page", "write"}, pc' \in {"page", "write"}, UNCHANGED graph,
         DOMAIN cyc' = DOMAIN cyc, cyc'.did = cyc.did, cyc'.second = cyc.second,
         cyc'.wrote \in BOOLEAN, cyc'.claimed = cyc.claimed
  PROVE  SleepInv'
BY QuietStep DEF SleepInv, LocalsKept, ChangesCounted, Running, Phase

LEMMA NextPhaseKeeps ==
  ASSUME NEW c
  PROVE  /\ DOMAIN NextPhase(c) = DOMAIN c /\ NextPhase(c).did = c.did
         /\ NextPhase(c).second = c.second /\ NextPhase(c).wrote = c.wrote
         /\ NextPhase(c).claimed = c.claimed
BY DEF NextPhase

LEMMA OrphanPageKeeps == SleepInv /\ Running /\ OrphanPage => SleepInv'
<1> SUFFICES ASSUME SleepInv, Running, OrphanPage PROVE SleepInv'
  OBVIOUS
<1>1. pc = "page" /\ pc' \in {"page", "write"} /\ UNCHANGED graph
  BY DEF OrphanPage, graph
<1> DEFINE kind == Head(cyc.phases)
           after == FirstK({n \in Orphans(kind) : n > IF mode.capped THEN cursor[kind] ELSE cyc.at},
                           RowsToTake)
           rows == IF mode.capped /\ after = {} THEN FirstK(Orphans(kind), RowsToTake) ELSE after
           at == IF mode.capped THEN 0 ELSE Max(rows)
           left == IF mode.capped THEN cyc.budget - Cardinality(rows) ELSE cyc.budget
           boundary == mode.capped /\ (after = {} \/ Cardinality(rows) < RowsToTake)
<1>2. CASE rows = {}
  <2>1. cyc' = NextPhase(cyc)
    BY <1>2 DEF OrphanPage
  <2>2. /\ DOMAIN cyc' = DOMAIN cyc /\ cyc'.did = cyc.did /\ cyc'.second = cyc.second
        /\ cyc'.wrote = cyc.wrote /\ cyc'.claimed = cyc.claimed
    BY <2>1, NextPhaseKeeps
  <2> QED BY <1>1, <2>2, OrphanStep DEF SleepInv, LocalsKept
<1>3. CASE rows # {}
  <2>1. cyc' = [cyc EXCEPT !.rows = rows, !.at = at, !.budget = left, !.boundary = boundary]
    BY <1>3 DEF OrphanPage
  <2> HIDE DEF rows, at, left, boundary
  <2>2. /\ DOMAIN cyc' = DOMAIN cyc /\ cyc'.did = cyc.did /\ cyc'.second = cyc.second
        /\ cyc'.wrote = cyc.wrote /\ cyc'.claimed = cyc.claimed
    BY <2>1
  <2> QED BY <1>1, <2>2, OrphanStep DEF SleepInv, LocalsKept
<1> QED BY <1>2, <1>3

LEMMA OrphanWriteKeeps == SleepInv /\ Running /\ OrphanWrite => SleepInv'
<1> SUFFICES ASSUME SleepInv, Running, OrphanWrite PROVE SleepInv'
  OBVIOUS
<1>1. pc = "write" /\ pc' = "page" /\ UNCHANGED graph
  BY DEF OrphanWrite, graph
<1>2. \/ \E failed : cyc' = NextPhase([cyc EXCEPT !.failed = failed])
      \/ \E wrote \in BOOLEAN : \E failed :
           LET c == [cyc EXCEPT !.rows = {}, !.wrote = wrote, !.failed = failed]
           IN cyc' = IF cyc.boundary THEN NextPhase(c) ELSE c
  BY DEF OrphanWrite, SleepInv, LocalsKept
<1>3. ASSUME NEW failed, cyc' = NextPhase([cyc EXCEPT !.failed = failed])
      PROVE  SleepInv'
  <2> DEFINE c == [cyc EXCEPT !.failed = failed]
  <2>1. /\ DOMAIN c = DOMAIN cyc /\ c.did = cyc.did /\ c.second = cyc.second
        /\ c.wrote = cyc.wrote /\ c.claimed = cyc.claimed
    OBVIOUS
  <2>2. cyc' = NextPhase(c)
    BY <1>3
  <2> HIDE DEF c
  <2>3. /\ DOMAIN cyc' = DOMAIN cyc /\ cyc'.did = cyc.did /\ cyc'.second = cyc.second
        /\ cyc'.wrote = cyc.wrote /\ cyc'.claimed = cyc.claimed
    BY <2>1, <2>2, NextPhaseKeeps
  <2> QED BY <1>1, <2>3, OrphanStep DEF SleepInv, LocalsKept
<1>4. ASSUME NEW wrote \in BOOLEAN, NEW failed, NEW c,
             c = [cyc EXCEPT !.rows = {}, !.wrote = wrote, !.failed = failed],
             cyc' = IF cyc.boundary THEN NextPhase(c) ELSE c
      PROVE  SleepInv'
  <2>1. /\ DOMAIN c = DOMAIN cyc /\ c.did = cyc.did /\ c.second = cyc.second
        /\ c.wrote = wrote /\ c.claimed = cyc.claimed
    BY <1>4, QuietDomain
  <2>2. /\ DOMAIN cyc' = DOMAIN cyc /\ cyc'.did = cyc.did /\ cyc'.second = cyc.second
        /\ cyc'.wrote = wrote /\ cyc'.claimed = cyc.claimed
    BY <1>4, <2>1, NextPhaseKeeps
  <2> QED BY <1>1, <2>2, OrphanStep DEF SleepInv, LocalsKept
<1> QED BY <1>2, <1>3, <1>4

LEMMA OrphansDoneKeeps == SleepInv /\ Running /\ OrphansDone => SleepInv'
<1> SUFFICES ASSUME SleepInv, Running, OrphansDone PROVE SleepInv'
  OBVIOUS
<1>1. /\ pc = "page" /\ pc' = AfterOrphans(cyc.second) /\ UNCHANGED graph /\ cyc.claimed = {}
      /\ cyc' = [cyc EXCEPT !.did = @ \/ (cyc.second /\ cyc.wrote)]
  BY DEF OrphansDone, durable, graph, SleepInv, LocalsKept
<1>2. /\ DOMAIN cyc' = DOMAIN cyc /\ cyc'.did = (cyc.did \/ (cyc.second /\ cyc.wrote))
      /\ cyc'.second = cyc.second /\ cyc'.wrote = cyc.wrote /\ cyc'.claimed = {}
  BY <1>1, QuietDomain
<1>3. cyc.did \in BOOLEAN /\ cyc.second \in BOOLEAN /\ cyc.wrote \in BOOLEAN /\ (~cyc.second => ~changed)
  BY <1>1 DEF SleepInv, LocalsKept, ChangesCounted
<1> QED BY <1>1, <1>2, <1>3, QuietStep DEF AfterOrphans, Running, Phase

LEMMA EndKeeps == SleepInv /\ Running /\ (Finish \/ CycleRaises \/ Death) => SleepInv'
<1> SUFFICES ASSUME SleepInv, Running, Finish \/ CycleRaises \/ Death PROVE SleepInv'
  OBVIOUS
<1>1. ~cyc.did => ~changed
  BY DEF SleepInv, ChangesCounted, Running
<1>2. CASE Finish
  <2>1. UNCHANGED graph /\ Report(Outcome)
    BY <1>2 DEF Finish, graph
  <2>2. Outcome \in {"failed", "unavailable"} => ~cyc.did
    BY DEF Outcome
  <2> QED BY <1>1, <2>1, <2>2, ReportKeeps DEF Running
<1>3. CASE CycleRaises
  <2> DEFINE result == IF cyc.did THEN "partial" ELSE "failed"
  <2>1. UNCHANGED graph /\ Report(result) /\ (result \in {"failed", "unavailable"} => ~cyc.did)
    BY <1>3 DEF CycleRaises, Fail, graph, durable
  <2> HIDE DEF result
  <2> QED BY <1>1, <2>1, ReportKeeps DEF Running
<1>4. CASE Death
  <2>1. UNCHANGED graph /\ Report("none")
    BY <1>4 DEF Death, graph, durable
  <2> QED BY <2>1, ReportKeeps DEF Running
<1> QED BY <1>2, <1>3, <1>4

LEMMA SleepStepInv == SleepInv /\ [Next]_vars => SleepInv'
<1> SUFFICES ASSUME SleepInv, [Next]_vars PROVE SleepInv'
  OBVIOUS
<1>1. CASE Noted(FALSE, BeginCycle)
  BY <1>1, BeginKeeps
<1>2. ASSUME NEW n \in Node, Noted(FALSE, Remember(n)) \/ Noted(FALSE, Recall(n)) PROVE SleepInv'
  BY <1>2, BetweenKeeps
<1>3. CASE Noted(FALSE, CycleStep)
  <2>1. CycleStep
    BY <1>3 DEF Noted
  <2>2. ~Idle
    BY <2>1 DEF Idle, CycleStep, Reselect, ReselectRaises, WritePairs, CommitPairs, CommitRaises,
                CrossLinksDone, NoDream, EmbedOrphans, OrphanPage, OrphanWrite, OrphansDone, Finish
  <2>3. Running
    BY <1>3, <2>2 DEF Noted, Running
  <2> QED BY <2>1, <2>3, ReselectKeeps, ReselectRaisesKeeps, WritePairsKeeps, CommitPairsKeeps,
             CommitRaisesKeeps, CrossLinksDoneKeeps, NoDreamKeeps, EmbedOrphansKeeps,
             OrphanPageKeeps, OrphanWriteKeeps, OrphansDoneKeeps, EndKeeps DEF CycleStep
<1>6. ASSUME NEW raised \in Raised, Noted(raised, CommitStep(raised)) PROVE SleepInv'
  <2>1. CommitStep(raised) /\ raised \in BOOLEAN
    BY <1>6 DEF Noted, Raised
  <2>2. ~Idle
    BY <2>1 DEF Idle, CommitStep, Dedup, GarbageCollect, EvaluatePermanence, PromoteCoreMemories,
                Dream
  <2>3. Committing(raised)
    BY <1>6, <2>2 DEF Noted, Committing
  <2> QED BY <2>1, <2>3, DedupKeeps, GarbageCollectKeeps, EvaluatePermanenceKeeps,
             PromoteCoreKeeps, DreamKeeps DEF CommitStep
<1>4. CASE Noted(FALSE, CycleRaises) \/ Noted(FALSE, Death)
  <2>1. Running
    BY <1>4 DEF Noted, Running, CycleRaises, Death
  <2> QED BY <1>4, <2>1, EndKeeps DEF Noted
<1>5. CASE UNCHANGED vars
  <2>1. UNCHANGED graph /\ UNCHANGED <<pc, cyc, status, changed>>
    BY <1>5 DEF vars, durable, graph
  <2>2. GraphKept' /\ Active' = Active
    BY <2>1, GraphUnchanged
  <2>3. LocalsKept'
    BY <2>1, <2>2 DEF SleepInv, LocalsKept, ClaimedPairsLinked, Complete, Both, graph
  <2>4. ChangesCounted'
    BY <2>1 DEF SleepInv, ChangesCounted, Idle, StatusTruthful
  <2> QED BY <2>2, <2>3, <2>4 DEF SleepInv
<1> QED BY <1>1, <1>2, <1>3, <1>4, <1>5, <1>6 DEF Next

(* The inductive invariant of the sleep cycle.                                *)
THEOREM SleepInvariant == Spec => []SleepInv
BY SleepInitInv, SleepStepInv, PTL DEF Spec

(* No permanent node is ever decayed.                                         *)
THEOREM PermanentKept == Spec => []PermanentNotDecayed
<1>1. SleepInv => PermanentNotDecayed
  BY DEF SleepInv, GraphKept
<1> QED BY <1>1, SleepInvariant, PTL

(* Pairs that are claimed as linked have both their edges.                    *)
THEOREM ClaimsLinked == Spec => []ClaimedPairsLinked
<1>1. SleepInv => ClaimedPairsLinked
  BY DEF SleepInv, LocalsKept
<1> QED BY <1>1, SleepInvariant, PTL

(* A cycle that reports failed or unavailable changed the graph by no commit  *)
(* that returned.                                                             *)
THEOREM StatusesTruthful == Spec => []StatusTruthful
<1>1. SleepInv => StatusTruthful
  BY DEF SleepInv, ChangesCounted
<1> QED BY <1>1, SleepInvariant, PTL

-----------------------------------------------------------------------------
(* Merging.  The components are built clique by clique: induction over the    *)
(* order in which the cliques are taken.                                      *)

LEMMA NatOrder ==
  \E R : IsWellFoundedOn(R, Nat) /\ \A x, y \in Nat : y < x => <<y, x>> \in R
<1> DEFINE R == OpToRel(<, Nat)
<1>1. IsWellFoundedOn(R, Nat)
  BY NatLessThanWellFounded
<1>2. \A x, y \in Nat : y < x => <<y, x>> \in R
  BY DEF OpToRel
<1> HIDE DEF R
<1> QED BY <1>1, <1>2, Zenon

LEMMA LeastNatural ==
  ASSUME NEW S, S \subseteq Nat, S # {}
  PROVE  \E m \in S : \A k \in S : m <= k
<1>1. PICK R : IsWellFoundedOn(R, Nat) /\ \A x, y \in Nat : y < x => <<y, x>> \in R
  BY NatOrder
<1>2. PICK m \in S : \A k \in S : <<k, m>> \notin R
  BY <1>1, WFMin
<1>3. ASSUME NEW k \in S PROVE m <= k
  <2>1. m \in Nat /\ k \in Nat
    OBVIOUS
  <2>2. ~(k < m)
    BY <1>1, <1>2, <2>1
  <2> QED BY <2>1, <2>2
<1> QED BY <1>3

(* A set with 0 that is closed under successor holds every number.            *)
LEMMA Induction ==
  ASSUME NEW T, 0 \in T, \A n \in Nat : n \in T => n + 1 \in T
  PROVE  Nat \subseteq T
<1> SUFFICES ASSUME Nat \ T # {} PROVE FALSE
  OBVIOUS
<1>1. PICK m \in Nat \ T : \A k \in Nat \ T : m <= k
  BY LeastNatural
<1>2. m # 0 /\ m - 1 \in Nat /\ ~(m <= m - 1) /\ (m - 1) + 1 = m
  BY <1>1
<1>3. m - 1 \in T
  BY <1>1, <1>2
<1> QED BY <1>1, <1>2, <1>3

(* The recursive function of GreedyComponents, over the first n cliques.      *)
Greedy(f, order, n) == f = [k \in 0..n |-> IF k = 0 THEN {} ELSE Take(f[k - 1], order[k])]

LEMMA GreedyExists ==
  ASSUME NEW order, NEW n \in Nat
  PROVE  \E f : Greedy(f, order, n)
<1> DEFINE T == {m \in Nat : \E f : Greedy(f, order, m)}
<1>1. 0 \in T
  <2> DEFINE g == [k \in 0..0 |-> {}]
  <2>1. Greedy(g, order, 0)
    BY DEF Greedy
  <2> QED BY <2>1
<1>2. ASSUME NEW m \in Nat, m \in T PROVE m + 1 \in T
  <2>1. PICK f : Greedy(f, order, m)
    BY <1>2
  <2> DEFINE g == [k \in 0..(m + 1) |-> IF k <= m THEN f[k] ELSE Take(f[m], order[m + 1])]
  <2>2. ASSUME NEW k \in 0..(m + 1) PROVE g[k] = IF k = 0 THEN {} ELSE Take(g[k - 1], order[k])
    <3>1. CASE k = 0
      BY <2>1, <3>1 DEF Greedy
    <3>2. CASE k # 0 /\ k <= m
      <4>1. k \in 0..m /\ k - 1 \in 0..(m + 1) /\ k - 1 <= m
        BY <3>2
      <4>2. g[k] = f[k] /\ g[k - 1] = f[k - 1]
        BY <3>2, <4>1
      <4>3. f[k] = Take(f[k - 1], order[k])
        BY <2>1, <3>2, <4>1 DEF Greedy
      <4> QED BY <3>2, <4>2, <4>3
    <3>3. CASE k = m + 1
      <4>1. k # 0 /\ k - 1 = m /\ ~(k <= m) /\ m \in 0..(m + 1)
        BY <3>3
      <4>2. g[k] = Take(f[m], order[k]) /\ g[m] = f[m]
        BY <3>3, <4>1
      <4> QED BY <4>1, <4>2
    <3> QED BY <3>1, <3>2, <3>3
  <2>3. DOMAIN g = 0..(m + 1) /\ g = [k \in 0..(m + 1) |-> g[k]]
    OBVIOUS
  <2> HIDE DEF g
  <2>4. Greedy(g, order, m + 1)
    BY <2>2, <2>3 DEF Greedy
  <2> QED BY <2>4
<1> HIDE DEF T
<1>3. n \in T
  BY <1>1, <1>2, Induction
<1> QED BY <1>3 DEF T

(* Components share no node.                                                  *)
Disjoint(comps) == \A C, D \in comps : C # D => C \cap D = {}

LEMMA TakeKeeps ==
  ASSUME NEW page, NEW taken, NEW C, Disjoint(taken), C \subseteq page, IsClique(C),
         \A D \in taken : D \subseteq page /\ IsClique(D)
  PROVE  /\ Disjoint(Take(taken, C))
         /\ \A D \in Take(taken, C) : D \subseteq page /\ IsClique(D)
<1> DEFINE left == C \ UNION taken
<1>1. \A D \in taken : left \cap D = {}
  OBVIOUS
<1>2. left \subseteq page /\ IsClique(left)
  BY DEF IsClique
<1>3. Take(taken, C) \in {taken, taken \cup {left}}
  BY DEF Take
<1> HIDE DEF left
<1> QED BY <1>1, <1>2, <1>3 DEF Disjoint

LEMMA GreedyKeeps ==
  ASSUME NEW page, NEW cliques, NEW order \in Seq(cliques),
         \A C \in cliques : C \subseteq page /\ IsClique(C)
  PROVE  /\ Disjoint(GreedyComponents(order))
         /\ \A C \in GreedyComponents(order) : C \subseteq page /\ IsClique(C)
<1> DEFINE n == Len(order)
           f == CHOOSE g : Greedy(g, order, n)
           Good(comps) == Disjoint(comps) /\ \A C \in comps : C \subseteq page /\ IsClique(C)
           T == {k \in Nat : k <= n => Good(f[k])}
<1>1. n \in Nat
  OBVIOUS
<1>2. GreedyComponents(order) = f[n]
  BY DEF GreedyComponents, Greedy
<1>3. Greedy(f, order, n)
  BY <1>1, GreedyExists, Zenon
<1> HIDE DEF f
<1> HIDE DEF n
<1>4. /\ f[0] = {}
      /\ \A k \in Nat : k + 1 <= n => f[k + 1] = Take(f[k], order[k + 1])
  <2>1. f = [k \in 0..n |-> IF k = 0 THEN {} ELSE Take(f[k - 1], order[k])]
    BY <1>3 DEF Greedy
  <2>2. \A k \in 0..n : f[k] = IF k = 0 THEN {} ELSE Take(f[k - 1], order[k])
    BY <2>1, Zenon
  <2>3. f[0] = {}
    BY <1>1, <2>2
  <2>4. ASSUME NEW k \in Nat, k + 1 <= n PROVE f[k + 1] = Take(f[k], order[k + 1])
    <3>1. k + 1 \in 0..n /\ k + 1 # 0 /\ (k + 1) - 1 = k
      BY <1>1, <2>4
    <3>2. f[k + 1] = Take(f[(k + 1) - 1], order[k + 1])
      BY <2>2, <3>1
    <3> QED BY <3>1, <3>2
  <2> QED BY <2>3, <2>4
<1>5. 0 \in T
  BY <1>4 DEF Disjoint
<1>6. ASSUME NEW k \in Nat, k \in T PROVE k + 1 \in T
  <2>1. CASE k + 1 <= n
    <3>1. k <= n /\ k + 1 \in 1..n
      BY <1>1, <2>1
    <3>2. order[k + 1] \in cliques
      BY <3>1 DEF n
    <3>3. Good(f[k])
      BY <1>6, <3>1
    <3>4. Good(Take(f[k], order[k + 1]))
      <4> DEFINE taken == f[k]
                 C == order[k + 1]
      <4>1. C \subseteq page /\ IsClique(C)
        BY <3>2
      <4>2. Disjoint(taken) /\ \A D \in taken : D \subseteq page /\ IsClique(D)
        BY <3>3
      <4> HIDE DEF taken, C
      <4>3. Good(Take(taken, C))
        BY <4>1, <4>2, TakeKeeps
      <4> QED BY <4>3 DEF taken, C
    <3>5. f[k + 1] = Take(f[k], order[k + 1])
      BY <1>4, <2>1
    <3> QED BY <3>4, <3>5
  <2>2. CASE ~(k + 1 <= n)
    BY <2>2
  <2> QED BY <2>1, <2>2
<1> HIDE DEF T
<1>7. n \in T
  BY <1>1, <1>5, <1>6, Induction
<1>8. Good(f[n])
  BY <1>1, <1>7 DEF T
<1> QED BY <1>2, <1>8

(* The components of a page are disjoint cliques of twins.                    *)
LEMMA ComponentsAreCliques ==
  ASSUME NEW page \in SUBSET Node, NEW comps \in DedupComponents(page)
  PROVE  /\ Disjoint(comps)
         /\ \A C \in comps : C \subseteq page /\ IsClique(C)
<1> DEFINE cliques == MaximalCliques(page)
           n == Cardinality(cliques)
<1>1. \A C \in cliques : C \subseteq page /\ IsClique(C)
  BY DEF MaximalCliques
<1>2. IsFiniteSet(cliques)
  <2>1. IsFiniteSet(Node)
    BY FS_Interval, SleepAssumption DEF Node
  <2>2. IsFiniteSet(SUBSET page)
    BY <2>1, FS_Subset, FS_SUBSET
  <2>3. cliques \subseteq SUBSET page
    BY <1>1
  <2> QED BY <2>2, <2>3, FS_Subset
<1>3. n \in Nat
  BY <1>2, FS_CardinalityType
<1>4. PICK order \in SizeOrders(cliques) : comps = GreedyComponents(order)
  BY DEF DedupComponents
<1>5. order \in [1..n -> cliques]
  BY <1>4 DEF SizeOrders, SetToSeqs
<1> HIDE DEF n, cliques
<1>6. order \in Seq(cliques)
  BY <1>3, <1>5
<1> QED BY <1>1, <1>4, <1>6, GreedyKeeps

(* A merged node has an active twin, permanent if it was permanent itself.    *)
THEOREM MergesKeepMemory == Spec => MergeKeepsMemory
<1> DEFINE Kept == pc = "dedup" =>
             \A n \in Node : (row[n] = "active" /\ row'[n] = "decayed") =>
               \E k \in Node : /\ AreTwins(n, k) /\ row'[k] = "active"
                               /\ n \in perm => k \in perm'
<1>1. ASSUME SleepInv, [Next]_vars PROVE Kept
  <2> SUFFICES ASSUME pc = "dedup", NEW n \in Node, row[n] = "active", row'[n] = "decayed"
               PROVE  \E k \in Node : /\ AreTwins(n, k) /\ row'[k] = "active"
                                      /\ n \in perm => k \in perm'
    OBVIOUS
  <2>1. \E raised \in Raised : Dedup(raised)
    BY <1>1 DEF Next, Noted, CycleStep, CommitStep, BeginCycle, Remember, Recall, Idle, CycleRaises,
                Death, durable, vars, Reselect, ReselectRaises, WritePairs, CommitPairs, CommitRaises,
                CrossLinksDone, GarbageCollect, EvaluatePermanence, PromoteCoreMemories, Dream,
                NoDream, EmbedOrphans, OrphanPage, OrphanWrite, OrphansDone, Finish
  <2>2. PICK comps \in DedupComponents(cyc.page) : \E keeper \in [comps -> Node] :
          /\ \A C \in comps : keeper[C] \in Keepers(C)
          /\ row' = [m \in Node |-> IF m \in UNION {C \ {keeper[C]} : C \in comps}
                                      THEN "decayed" ELSE row[m]]
          /\ perm' = perm \ UNION {C \ {keeper[C]} : C \in comps}
    BY <2>1 DEF Dedup
  <2>3. PICK keeper \in [comps -> Node] :
          /\ \A C \in comps : keeper[C] \in Keepers(C)
          /\ row' = [m \in Node |-> IF m \in UNION {C \ {keeper[C]} : C \in comps}
                                      THEN "decayed" ELSE row[m]]
          /\ perm' = perm \ UNION {C \ {keeper[C]} : C \in comps}
    BY <2>2
  <2> DEFINE losers == UNION {C \ {keeper[C]} : C \in comps}
  <2>4. cyc.page \subseteq Active /\ Active \subseteq Node
    BY <1>1 DEF SleepInv, LocalsKept, Active
  <2>5. Disjoint(comps) /\ \A C \in comps : C \subseteq cyc.page /\ IsClique(C)
    BY <2>4, ComponentsAreCliques
  <2>6. n \in losers
    BY <2>3
  <2>7. PICK C \in comps : n \in C /\ n # keeper[C]
    BY <2>6
  <2>8. /\ keeper[C] \in C
        /\ C \cap perm # {} => keeper[C] \in perm
    BY <2>3, <2>7 DEF Keepers
  <2>9. keeper[C] \notin losers
    <3> SUFFICES ASSUME NEW D \in comps, keeper[C] \in D \ {keeper[D]} PROVE FALSE
      OBVIOUS
    <3>1. C # D
      OBVIOUS
    <3>2. C \cap D = {}
      BY <2>5, <3>1 DEF Disjoint
    <3> QED BY <2>8, <3>2
  <2>10. AreTwins(n, keeper[C])
    BY <2>5, <2>7, <2>8 DEF IsClique
  <2> HIDE DEF losers
  <2>11. row'[keeper[C]] = "active" /\ keeper[C] \in Node
    <3>1. keeper[C] \in Node /\ row[keeper[C]] = "active"
      BY <2>4, <2>5, <2>8 DEF Active
    <3>2. row' = [m \in Node |-> IF m \in losers THEN "decayed" ELSE row[m]]
      BY <2>3 DEF losers
    <3> QED BY <2>9, <3>1, <3>2
  <2>12. n \in perm => keeper[C] \in perm'
    <3>1. perm' = perm \ losers
      BY <2>3 DEF losers
    <3> QED BY <2>7, <2>8, <2>9, <3>1
  <2> QED BY <2>10, <2>11, <2>12
<1>2. SleepInv /\ [Next]_vars => [Kept]_vars
  BY <1>1
<1> QED BY <1>2, SleepInvariant, PTL DEF Spec, MergeKeepsMemory

-----------------------------------------------------------------------------
(* Types.                                                                     *)

LEMMA NodeFinite == N \in Nat /\ Node \subseteq Nat /\ Node \subseteq 0..N /\ IsFiniteSet(Node)
BY FS_Interval, SleepAssumption DEF Node

LEMMA MaxOfNodes ==
  ASSUME NEW S, S \subseteq Node, S # {}
  PROVE  Max(S) \in S /\ \A m \in S : m <= Max(S)
<1> DEFINE gaps == {N - m : m \in S}
<1>0. N \in Nat /\ \A m \in S : m \in Nat /\ m <= N
  BY SleepAssumption DEF Node
<1>1. gaps \subseteq Nat /\ gaps # {}
  <2>1. \A m \in S : N - m \in Nat
    BY <1>0
  <2> QED BY <2>1
<1>2. PICK g \in gaps : \A h \in gaps : g <= h
  BY <1>1, LeastNatural
<1>3. PICK x \in S : g = N - x
  BY <1>2
<1>4. \A m \in S : x >= m
  <2> SUFFICES ASSUME NEW m \in S PROVE x >= m
    OBVIOUS
  <2>1. N - m \in gaps
    OBVIOUS
  <2>2. g <= N - m
    BY <1>2, <2>1
  <2> HIDE DEF gaps
  <2> QED BY <1>3, <1>0, <2>2
<1>5. Max(S) \in S /\ \A m \in S : Max(S) >= m
  BY <1>4 DEF Max
<1> QED BY <1>5 DEF Node

(* A page holds at most as many rows as it may.                               *)
LEMMA FirstKBounded ==
  ASSUME NEW S, S \subseteq Node, NEW k \in Nat
  PROVE  /\ FirstK(S, k) \subseteq S /\ IsFiniteSet(FirstK(S, k))
         /\ Cardinality(FirstK(S, k)) \in 0..k
<1> DEFINE F == FirstK(S, k)
<1>1. F \subseteq S
  BY DEF FirstK
<1>2. IsFiniteSet(S) /\ IsFiniteSet(F)
  BY <1>1, NodeFinite, FS_Subset
<1>3. CASE F = {}
  BY <1>1, <1>2, <1>3, FS_EmptySet
<1>4. CASE F # {}
  <2> DEFINE last == Max(F)
             below == {m \in S : m < last}
             rest == F \ {last}
  <2>1. last \in F /\ \A m \in F : m <= last
    BY <1>1, <1>4, MaxOfNodes
  <2>2. Cardinality(below) < k
    BY <2>1 DEF FirstK
  <2>3. rest \subseteq below
    <3> SUFFICES ASSUME NEW m \in rest PROVE m \in below
      OBVIOUS
    <3> HIDE DEF F, last
    <3>1. m \in S /\ m \in Nat /\ last \in Nat /\ m <= last /\ m # last
      BY <1>1, <2>1, NodeFinite
    <3> QED BY <3>1
  <2>4. IsFiniteSet(below) /\ Cardinality(below) \in Nat
    <3>1. below \subseteq S
      OBVIOUS
    <3> QED BY <1>2, <3>1, FS_Subset, FS_CardinalityType
  <2> HIDE DEF below, rest, last, F
  <2>5. IsFiniteSet(rest) /\ Cardinality(rest) \in Nat /\ Cardinality(rest) <= Cardinality(below)
    BY <2>3, <2>4, FS_Subset, FS_CardinalityType
  <2>6. Cardinality(F) = Cardinality(rest) + 1
    <3>1. F = rest \cup {last} /\ last \notin rest
      BY <2>1 DEF rest
    <3> QED BY <2>5, <3>1, FS_AddElement
  <2>7. Cardinality(F) \in 0..k
    BY <2>2, <2>4, <2>5, <2>6
  <2> QED BY <1>1, <1>2, <2>7 DEF F
<1> QED BY <1>3, <1>4

(* The locals and the tables, each with its type.                             *)
TablesTyped ==
  /\ row \in [Node -> {"absent", "active", "decayed"}]
  /\ perm \subseteq Node /\ core \subseteq Node /\ emb \subseteq Node /\ vec \subseteq Node
  /\ access \in [Node -> 0..2]
  /\ derived \subseteq Node \X Node /\ links \subseteq Node \X Node

CursorsTyped ==
  /\ cursor \in [{"page", "ordinary", "repair"} -> 0..N]
  /\ parity \in {0, 1} /\ mode \in Modes

LocalsTyped ==
  /\ DOMAIN cyc = DOMAIN NoCycle
  /\ cyc.budget \in 0..OrphanLimit /\ cyc.page \subseteq Node /\ cyc.rows \subseteq Node
  /\ cyc.work \subseteq Pair /\ cyc.pending \subseteq Pair /\ cyc.claimed \subseteq Pair
  /\ pc \in {"page", "write"} => cyc.phases \in Seq({"ordinary", "repair"})
  /\ pc = "write" => cyc.phases # <<>>

StageTyped ==
  /\ pc \in Phase
  /\ status \in {"none", "running", "completed", "partial", "failed", "unavailable", "uncertain"}

SleepTypes == TablesTyped /\ CursorsTyped /\ LocalsTyped /\ StageTyped

LEMMA TypesImplyTypeOK == SleepTypes => TypeOK
BY DEF SleepTypes, TablesTyped, CursorsTyped, LocalsTyped, StageTyped, TypeOK

LEMMA NoCycleTyped ==
  /\ NoCycle.budget = 0 /\ NoCycle.page = {} /\ NoCycle.rows = {} /\ NoCycle.work = {}
  /\ NoCycle.pending = {} /\ NoCycle.claimed = {}
BY DEF NoCycle

LEMMA InitTypes == Init => SleepTypes
<1> SUFFICES ASSUME Init PROVE SleepTypes
  OBVIOUS
<1>1. TablesTyped
  BY DEF Init, TablesTyped, Active
<1>2. CursorsTyped
  BY SleepAssumption DEF Init, CursorsTyped
<1>3. LocalsTyped
  BY SleepAssumption, NoCycleTyped DEF Init, LocalsTyped
<1>4. StageTyped
  BY DEF Init, StageTyped, Phase
<1> QED BY <1>1, <1>2, <1>3, <1>4 DEF SleepTypes

LEMMA ReportTypes ==
  ASSUME NEW result, Report(result),
         result \in {"none", "completed", "partial", "failed", "unavailable", "uncertain"}
  PROVE  LocalsTyped' /\ StageTyped'
BY SleepAssumption, NoCycleTyped DEF Report, LocalsTyped, StageTyped, Phase

(* Selecting a page moves the cursor to one of its nodes.                     *)
LEMMA SelectTyped ==
  ASSUME TablesTyped, CursorsTyped
  PROVE  /\ SelectCycleNodeIds.page \subseteq Node
         /\ SelectCycleNodeIds.cursor \in [{"page", "ordinary", "repair"} -> 0..N]
<1> DEFINE S == Active \cap emb
           c == cursor["page"]
           page == Page(S, c, mode.limit)
           wrapped == {n \in page : n <= c}
<1>1. S \subseteq Node /\ c \in 0..N
  BY DEF Active, CursorsTyped
<1>2. page \subseteq S
  BY DEF Page, FirstK
<1> HIDE DEF S, c, page
<1>3. page # {} => Max(page) \in 0..N
  <2>1. page # {} => Max(page) \in page
    BY <1>1, <1>2, MaxOfNodes
  <2> QED BY <1>1, <1>2, <2>1, NodeFinite
<1>4. wrapped # {} => Max(wrapped) \in 0..N
  <2>1. wrapped \subseteq page
    OBVIOUS
  <2> HIDE DEF wrapped
  <2>2. wrapped # {} => Max(wrapped) \in wrapped
    BY <1>1, <1>2, <2>1, MaxOfNodes
  <2> QED BY <1>1, <1>2, <2>1, <2>2, NodeFinite
<1>5. LastOf(page, c) \in 0..N
  BY <1>1, <1>3, <1>4 DEF LastOf
<1>6. /\ SelectCycleNodeIds.page = page
      /\ SelectCycleNodeIds.cursor = [cursor EXCEPT !["page"] = LastOf(page, c)]
  BY DEF SelectCycleNodeIds, page, S, c
<1> QED BY <1>1, <1>2, <1>5, <1>6 DEF CursorsTyped

LEMMA BeginTypes == SleepTypes /\ BeginCycle /\ UNCHANGED mode => SleepTypes'
<1> SUFFICES ASSUME SleepTypes, BeginCycle, UNCHANGED mode PROVE SleepTypes'
  OBVIOUS
<1> DEFINE sel == SelectCycleNodeIds
<1>1. sel.page \subseteq Node /\ sel.cursor \in [{"page", "ordinary", "repair"} -> 0..N]
  BY SelectTyped DEF SleepTypes
<1>2. /\ UNCHANGED <<row, perm, core, access, emb, vec, derived, links, parity>>
      /\ cursor' = sel.cursor /\ status' = "running" /\ pc' \in {"cross", "orphans"}
      /\ cyc' = [NoCycle EXCEPT !.page = sel.page, !.work = Pairs(Near, sel.page),
                                !.budget = OrphanLimit]
  BY DEF BeginCycle
<1>3. Pairs(Near, sel.page) \subseteq Pair
  BY SleepAssumption DEF Pairs
<1> HIDE DEF sel
<1>4. /\ DOMAIN cyc' = DOMAIN NoCycle /\ cyc'.budget = OrphanLimit /\ cyc'.page = sel.page
      /\ cyc'.work = Pairs(Near, sel.page) /\ cyc'.rows = {} /\ cyc'.pending = {} /\ cyc'.claimed = {}
  BY <1>2, Fields, NoCycleTyped
<1>5. LocalsTyped'
  BY <1>1, <1>2, <1>3, <1>4, SleepAssumption DEF LocalsTyped
<1> QED BY <1>1, <1>2, <1>5 DEF SleepTypes, TablesTyped, CursorsTyped, StageTyped, Phase

LEMMA BetweenTypes ==
  ASSUME SleepTypes, NEW n \in Node, Remember(n) \/ Recall(n), UNCHANGED mode
  PROVE  SleepTypes'
<1>1. UNCHANGED <<perm, core, derived, links, cursor, parity, mode, pc, cyc, status>>
  BY DEF Remember, Recall
<1>2. TablesTyped'
  <2>1. CASE Remember(n)
    BY <1>1, <2>1 DEF Remember, SleepTypes, TablesTyped
  <2>2. CASE Recall(n)
    <3>1. access[n] + 1 \in 0..2
      BY <2>2 DEF Recall, SleepTypes, TablesTyped
    <3> DEFINE a == access[n] + 1
    <3>2. access' = [access EXCEPT ![n] = a] /\ UNCHANGED <<row, emb, vec>>
      BY <2>2 DEF Recall
    <3> HIDE DEF a
    <3>3. a \in 0..2
      BY <3>1 DEF a
    <3> QED BY <1>1, <3>2, <3>3 DEF SleepTypes, TablesTyped
  <2> QED BY <2>1, <2>2
<1> QED BY <1>1, <1>2 DEF SleepTypes, CursorsTyped, LocalsTyped, StageTyped

(* A step that keeps tables, cursors and the reported status.                 *)
LEMMA LocalStep ==
  ASSUME SleepTypes, UNCHANGED <<durable, mode, status>>, pc' \in Phase, LocalsTyped'
  PROVE  SleepTypes'
BY DEF SleepTypes, durable, TablesTyped, CursorsTyped, StageTyped

LEMMA ReselectTypes == SleepTypes /\ Reselect /\ UNCHANGED mode => SleepTypes'
<1> SUFFICES ASSUME SleepTypes, Reselect, UNCHANGED mode PROVE SleepTypes'
  OBVIOUS
<1> DEFINE sel == SelectCycleNodeIds
<1>1. sel.page \subseteq Node /\ sel.cursor \in [{"page", "ordinary", "repair"} -> 0..N]
  BY SelectTyped DEF SleepTypes
<1>2. /\ UNCHANGED <<row, perm, core, access, emb, vec, derived, links, parity>>
      /\ cursor' = sel.cursor
  BY DEF Reselect
<1>3. TablesTyped' /\ CursorsTyped'
  BY <1>1, <1>2 DEF SleepTypes, TablesTyped, CursorsTyped
<1>4. CASE EnoughNodes(sel.page)
  <2>1. /\ pc' = "cross" /\ UNCHANGED status
        /\ cyc' = [cyc EXCEPT !.page = sel.page, !.work = Pairs(Near, sel.page), !.did = cyc.wrote]
    BY <1>4 DEF Reselect
  <2>2. Pairs(Near, sel.page) \subseteq Pair
    BY SleepAssumption DEF Pairs
  <2> HIDE DEF sel
  <2>3. /\ DOMAIN cyc' = DOMAIN cyc /\ cyc'.budget = cyc.budget /\ cyc'.page = sel.page
        /\ cyc'.work = Pairs(Near, sel.page) /\ cyc'.rows = cyc.rows
        /\ cyc'.pending = cyc.pending /\ cyc'.claimed = cyc.claimed
    BY <2>1, Fields DEF SleepTypes, LocalsTyped
  <2>4. LocalsTyped'
    BY <1>1, <2>1, <2>2, <2>3 DEF SleepTypes, LocalsTyped
  <2> QED BY <1>3, <2>1, <2>4 DEF SleepTypes, StageTyped, Phase
<1>5. CASE ~EnoughNodes(sel.page)
  <2>1. Report(IF cyc.wrote THEN "partial" ELSE "unavailable")
    BY <1>5 DEF Reselect
  <2>2. LocalsTyped' /\ StageTyped'
    BY <2>1, ReportTypes
  <2> QED BY <1>3, <2>2 DEF SleepTypes
<1> QED BY <1>4, <1>5

LEMMA ReselectRaisesTypes == SleepTypes /\ ReselectRaises /\ UNCHANGED mode => SleepTypes'
<1> SUFFICES ASSUME SleepTypes, ReselectRaises, UNCHANGED mode PROVE SleepTypes'
  OBVIOUS
<1> DEFINE sel == SelectCycleNodeIds
<1>1. sel.cursor \in [{"page", "ordinary", "repair"} -> 0..N]
  BY SelectTyped DEF SleepTypes
<1>2. /\ UNCHANGED <<row, perm, core, access, emb, vec, derived, links, parity>>
      /\ cursor' = sel.cursor /\ Report(IF cyc.did THEN "partial" ELSE "failed")
  BY DEF ReselectRaises, Fail
<1> HIDE DEF sel
<1>3. TablesTyped' /\ CursorsTyped'
  BY <1>1, <1>2 DEF SleepTypes, TablesTyped, CursorsTyped
<1>4. LocalsTyped' /\ StageTyped'
  BY <1>2, ReportTypes
<1> QED BY <1>3, <1>4 DEF SleepTypes

LEMMA WritePairsTypes == SleepTypes /\ WritePairs /\ UNCHANGED mode => SleepTypes'
<1> SUFFICES ASSUME SleepTypes, WritePairs, UNCHANGED mode PROVE SleepTypes'
  OBVIOUS
<1>1. PICK good, work, failed :
        /\ good \subseteq cyc.work /\ work \subseteq cyc.work
        /\ cyc' = [cyc EXCEPT !.pending = good, !.work = work, !.failed = failed]
  <2>1. PICK tried \in (SUBSET cyc.work) \ {{}} :
        \E bad \in (IF "pair" \in Faults THEN SUBSET tried ELSE {{}}) :
          LET good == {p \in tried \ bad : ~Complete(p)}
          IN cyc' = [cyc EXCEPT
               !.pending = good,
               !.work = IF Cardinality(good) + Cardinality(cyc.claimed) = MaxEdges
                          THEN {} ELSE @ \ tried,
               !.failed = IF bad = {} THEN @ ELSE @ \cup {"cross"}]
    BY DEF WritePairs
  <2>2. PICK bad :
          LET good == {p \in tried \ bad : ~Complete(p)}
          IN cyc' = [cyc EXCEPT
               !.pending = good,
               !.work = IF Cardinality(good) + Cardinality(cyc.claimed) = MaxEdges
                          THEN {} ELSE @ \ tried,
               !.failed = IF bad = {} THEN @ ELSE @ \cup {"cross"}]
    BY <2>1
  <2> DEFINE good == {p \in tried \ bad : ~Complete(p)}
             work == IF Cardinality(good) + Cardinality(cyc.claimed) = MaxEdges
                       THEN {} ELSE cyc.work \ tried
             failed == IF bad = {} THEN cyc.failed ELSE cyc.failed \cup {"cross"}
  <2>3. good \subseteq cyc.work /\ work \subseteq cyc.work
    OBVIOUS
  <2>4. cyc' = [cyc EXCEPT !.pending = good, !.work = work, !.failed = failed]
    BY <2>2
  <2> HIDE DEF good, work, failed
  <2> QED BY <2>3, <2>4
<1>2. pc = "cross" /\ UNCHANGED <<durable, pc, status>>
  BY DEF WritePairs
<1>3. /\ DOMAIN cyc' = DOMAIN cyc /\ cyc'.budget = cyc.budget /\ cyc'.page = cyc.page
      /\ cyc'.work = work /\ cyc'.rows = cyc.rows /\ cyc'.pending = good /\ cyc'.claimed = cyc.claimed
  BY <1>1, Fields DEF SleepTypes, LocalsTyped
<1>4. LocalsTyped'
  BY <1>1, <1>2, <1>3 DEF SleepTypes, LocalsTyped
<1> QED BY <1>2, <1>4, LocalStep DEF Phase

LEMMA CommitTypes == SleepTypes /\ (CommitPairs \/ CommitRaises) /\ UNCHANGED mode => SleepTypes'
<1> SUFFICES ASSUME SleepTypes, CommitPairs \/ CommitRaises, UNCHANGED mode PROVE SleepTypes'
  OBVIOUS
<1>1. /\ pc = "cross" /\ UNCHANGED <<row, perm, core, access, emb, vec, derived, cursor, parity>>
      /\ links' \in {links, links \cup Written}
  BY DEF CommitPairs, CommitRaises
<1>2. Written \subseteq Node \X Node
  <2> SUFFICES ASSUME NEW p \in cyc.pending PROVE Both(p) \subseteq Node \X Node
    BY DEF Written
  <2>1. p \in Node \X Node
    BY DEF SleepTypes, LocalsTyped, Pair
  <2> QED BY <2>1 DEF Both
<1>3. TablesTyped' /\ CursorsTyped'
  BY <1>1, <1>2 DEF SleepTypes, TablesTyped, CursorsTyped
<1>4. ASSUME UNCHANGED <<pc, status>>, NEW claimed \in {cyc.claimed, cyc.claimed \cup cyc.pending},
             NEW work \in {cyc.work, {}}, NEW failed, NEW did,
             cyc' = [cyc EXCEPT !.claimed = claimed, !.pending = {}, !.work = work,
                                !.failed = failed, !.did = did]
      PROVE  SleepTypes'
  <2>1. /\ DOMAIN cyc' = DOMAIN cyc /\ cyc'.budget = cyc.budget /\ cyc'.page = cyc.page
        /\ cyc'.work = work /\ cyc'.rows = cyc.rows /\ cyc'.pending = {} /\ cyc'.claimed = claimed
    BY <1>4, Fields DEF SleepTypes, LocalsTyped
  <2>2. LocalsTyped'
    BY <1>1, <1>4, <2>1 DEF SleepTypes, LocalsTyped
  <2> QED BY <1>3, <1>4, <2>2 DEF SleepTypes, StageTyped
<1>5. CASE CommitPairs
  <2>1. /\ UNCHANGED <<pc, status>>
        /\ cyc' = [cyc EXCEPT !.claimed = cyc.claimed \cup cyc.pending, !.pending = {}, !.did = TRUE]
    BY <1>5 DEF CommitPairs
  <2>2. cyc' = [cyc EXCEPT !.claimed = cyc.claimed \cup cyc.pending, !.pending = {},
                           !.work = cyc.work, !.failed = cyc.failed, !.did = TRUE]
    BY <2>1, Fields DEF SleepTypes, LocalsTyped
  <2> QED BY <1>4, <2>1, <2>2
<1>6. CASE CommitRaises
  <2>1. \/ LocalsTyped' /\ StageTyped'
        \/ \E happened \in BOOLEAN :
             /\ UNCHANGED <<pc, status>>
             /\ cyc' = [cyc EXCEPT
                   !.claimed = IF happened THEN @ \cup cyc.pending ELSE @,
                   !.pending = {}, !.work = {}, !.failed = @ \cup {"cross"}, !.did = @ \/ happened]
    BY <1>6, ReportTypes DEF CommitRaises
  <2>2. ASSUME NEW happened \in BOOLEAN, UNCHANGED <<pc, status>>,
               cyc' = [cyc EXCEPT
                   !.claimed = IF happened THEN @ \cup cyc.pending ELSE @,
                   !.pending = {}, !.work = {}, !.failed = @ \cup {"cross"}, !.did = @ \/ happened]
        PROVE  SleepTypes'
    <3> DEFINE claimed == IF happened THEN cyc.claimed \cup cyc.pending ELSE cyc.claimed
               failed == cyc.failed \cup {"cross"}
               did == cyc.did \/ happened
               work == {}
    <3>1. cyc' = [cyc EXCEPT !.claimed = claimed, !.pending = {}, !.work = work,
                             !.failed = failed, !.did = did]
      BY <2>2
    <3>2. claimed \in {cyc.claimed, cyc.claimed \cup cyc.pending} /\ work \in {cyc.work, {}}
      OBVIOUS
    <3> HIDE DEF claimed, failed, did, work
    <3> QED BY <1>4, <2>2, <3>1, <3>2
  <2> QED BY <1>3, <2>1, <2>2 DEF SleepTypes
<1> QED BY <1>5, <1>6

(* The later phases change no type of the cycle's locals: page, rows, work and *)
(* budget stay, claimed pairs stay or are dropped.                             *)
LEMMA LaterLocals ==
  ASSUME SleepTypes, UNCHANGED <<status, cursor, parity, mode>>, TablesTyped',
         pc' \in Phase \ {"page", "write"}, DOMAIN cyc' = DOMAIN cyc, cyc'.budget = cyc.budget,
         cyc'.page = cyc.page, cyc'.rows = cyc.rows, cyc'.work = cyc.work,
         cyc'.pending = cyc.pending, cyc'.claimed \in {{}, cyc.claimed}
  PROVE  SleepTypes'
<1>1. LocalsTyped'
  BY DEF SleepTypes, LocalsTyped
<1> QED BY <1>1 DEF SleepTypes, CursorsTyped, StageTyped

(* A phase that commits returns or fails.                                      *)
LEMMA ReturnTypes ==
  ASSUME SleepTypes, UNCHANGED <<cursor, parity, mode>>, TablesTyped', NEW raised \in BOOLEAN,
         NEW next \in Phase \ {"page", "write"}, NEW c, Returns(raised, next, c),
         DOMAIN c = DOMAIN cyc, c.budget = cyc.budget, c.page = cyc.page, c.rows = cyc.rows,
         c.work = cyc.work, c.pending = cyc.pending, c.claimed \in {{}, cyc.claimed}
  PROVE  SleepTypes'
<1>1. CASE raised
  <2>1. Report(IF cyc.did THEN "partial" ELSE "failed")
    BY <1>1 DEF Returns, Fail
  <2>2. LocalsTyped' /\ StageTyped'
    BY <2>1, ReportTypes
  <2> QED BY <2>2 DEF SleepTypes, CursorsTyped
<1>2. CASE ~raised
  <2>1. pc' = next /\ cyc' = c /\ UNCHANGED status
    BY <1>2 DEF Returns
  <2> QED BY <2>1, LaterLocals
<1> QED BY <1>1, <1>2

LEMMA DedupTypes ==
  ASSUME SleepTypes, NEW raised \in BOOLEAN, Dedup(raised), UNCHANGED mode
  PROVE  SleepTypes'
<1>1. PICK comps \in DedupComponents(cyc.page) : \E keeper \in [comps -> Node] :
        LET losers == UNION {C \ {keeper[C]} : C \in comps}
            rep == [n \in Node |-> IF n \in losers
                      THEN keeper[CHOOSE C \in comps : n \in C] ELSE n]
            Kept(edges) == {e \in edges : e[1] \notin losers /\ e[2] \notin losers}
            Moved(edges) == {e \in Rewire(edges, rep, losers) : e[1] # e[2]}
        IN /\ row' = [n \in Node |-> IF n \in losers THEN "decayed" ELSE row[n]]
           /\ perm' = perm \ losers
           /\ links' = Kept(links) \cup (Moved(links) \ Kept(derived))
           /\ derived' = Kept(derived) \cup (Moved(derived) \ links')
           /\ Returns(raised, "gc", [cyc EXCEPT !.did = @ \/ losers # {}])
  BY ZenonT(60) DEF Dedup
<1>2. PICK keeper \in [comps -> Node] :
        LET losers == UNION {C \ {keeper[C]} : C \in comps}
            rep == [n \in Node |-> IF n \in losers
                      THEN keeper[CHOOSE C \in comps : n \in C] ELSE n]
            Kept(edges) == {e \in edges : e[1] \notin losers /\ e[2] \notin losers}
            Moved(edges) == {e \in Rewire(edges, rep, losers) : e[1] # e[2]}
        IN /\ row' = [n \in Node |-> IF n \in losers THEN "decayed" ELSE row[n]]
           /\ perm' = perm \ losers
           /\ links' = Kept(links) \cup (Moved(links) \ Kept(derived))
           /\ derived' = Kept(derived) \cup (Moved(derived) \ links')
           /\ Returns(raised, "gc", [cyc EXCEPT !.did = @ \/ losers # {}])
  BY <1>1
<1> DEFINE losers == UNION {C \ {keeper[C]} : C \in comps}
           rep == [n \in Node |-> IF n \in losers
                     THEN keeper[CHOOSE C \in comps : n \in C] ELSE n]
<1>3. rep \in [Node -> Node]
  <2> SUFFICES ASSUME NEW n \in Node, n \in losers PROVE keeper[CHOOSE C \in comps : n \in C] \in Node
    OBVIOUS
  <2>1. \E C \in comps : n \in C
    OBVIOUS
  <2>2. (CHOOSE C \in comps : n \in C) \in comps
    BY <2>1
  <2> QED BY <2>2
<1>4. /\ row' = [n \in Node |-> IF n \in losers THEN "decayed" ELSE row[n]]
      /\ perm' = perm \ losers
      /\ links' \subseteq links \cup Rewire(links, rep, losers)
      /\ derived' \subseteq derived \cup Rewire(derived, rep, losers)
      /\ Returns(raised, "gc", [cyc EXCEPT !.did = cyc.did \/ losers # {}])
  BY <1>2
<1>5. UNCHANGED <<core, access, emb, vec, cursor, parity>>
  BY DEF Dedup
<1> HIDE DEF losers, rep
<1>6. ASSUME NEW edges, edges \subseteq Node \X Node
      PROVE  Rewire(edges, rep, losers) \subseteq Node \X Node
  BY <1>3, <1>6 DEF Rewire
<1>7. links' \subseteq Node \X Node /\ derived' \subseteq Node \X Node
  <2>1. links \subseteq Node \X Node /\ derived \subseteq Node \X Node
    BY DEF SleepTypes, TablesTyped
  <2>2. Rewire(links, rep, losers) \subseteq Node \X Node /\ Rewire(derived, rep, losers) \subseteq Node \X Node
    BY <1>6, <2>1
  <2> QED BY <1>4, <2>1, <2>2
<1>8. TablesTyped'
  BY <1>4, <1>5, <1>7 DEF SleepTypes, TablesTyped
<1> DEFINE c == [cyc EXCEPT !.did = cyc.did \/ losers # {}]
<1>9. /\ DOMAIN c = DOMAIN cyc /\ c.budget = cyc.budget /\ c.page = cyc.page
      /\ c.rows = cyc.rows /\ c.work = cyc.work /\ c.pending = cyc.pending
      /\ c.claimed = cyc.claimed
  OBVIOUS
<1>10. Returns(raised, "gc", c)
  BY <1>4
<1> HIDE DEF c
<1> QED BY <1>5, <1>8, <1>9, <1>10, ReturnTypes DEF Phase

LEMMA GarbageCollectTypes ==
  ASSUME SleepTypes, NEW raised \in BOOLEAN, GarbageCollect(raised), UNCHANGED mode
  PROVE  SleepTypes'
<1>1. PICK sample \in SUBSET Collectable(Metrics) :
        /\ \/ /\ row' = [n \in Node |-> IF n \in sample THEN "absent" ELSE row[n]]
              /\ emb' = emb \ sample /\ core' = core \ sample
              /\ links' = links \ UNION {Touching(n) : n \in sample}
              /\ derived' = derived \ UNION {Touching(n) : n \in sample}
           \/ /\ row' = [n \in Node |-> IF n \in sample THEN "decayed" ELSE row[n]]
              /\ UNCHANGED <<emb, links, derived, core>>
        /\ Returns(raised, "permanence", [cyc EXCEPT !.metrics = Metrics, !.did = @ \/ sample # {}])
  BY DEF GarbageCollect
<1>2. UNCHANGED <<perm, access, vec, cursor, parity>>
  BY DEF GarbageCollect
<1>3. TablesTyped'
  BY <1>1, <1>2 DEF SleepTypes, TablesTyped
<1> DEFINE c == [cyc EXCEPT !.metrics = Metrics, !.did = @ \/ sample # {}]
<1>4. /\ DOMAIN c = DOMAIN cyc /\ c.budget = cyc.budget /\ c.page = cyc.page
      /\ c.rows = cyc.rows /\ c.work = cyc.work /\ c.pending = cyc.pending
      /\ c.claimed = cyc.claimed
  OBVIOUS
<1>5. Returns(raised, "permanence", c)
  BY <1>1
<1> HIDE DEF c
<1> QED BY <1>2, <1>3, <1>4, <1>5, ReturnTypes DEF Phase

LEMMA PromotionTypes ==
  ASSUME SleepTypes, NEW raised \in BOOLEAN, UNCHANGED mode,
         EvaluatePermanence(raised) \/ PromoteCoreMemories(raised)
  PROVE  SleepTypes'
<1>1. UNCHANGED <<row, access, emb, vec, derived, links, cursor, parity>>
  BY DEF EvaluatePermanence, PromoteCoreMemories
<1>2. perm' \subseteq perm \cup Active /\ core' \subseteq core \cup Active
  BY DEF EvaluatePermanence, PromoteCoreMemories
<1>3. TablesTyped'
  BY <1>1, <1>2 DEF SleepTypes, TablesTyped, Active
<1>4. CASE EvaluatePermanence(raised)
  <2> DEFINE did == cyc.did \/ {n \in Active \ perm : access[n] = 2} # {}
             c == [cyc EXCEPT !.did = did]
  <2>1. Returns(raised, "core", c) \/ Returns(FALSE, "core", cyc)
    BY <1>4 DEF EvaluatePermanence
  <2> HIDE DEF did
  <2>2. /\ DOMAIN c = DOMAIN cyc /\ c.budget = cyc.budget /\ c.page = cyc.page
        /\ c.rows = cyc.rows /\ c.work = cyc.work /\ c.pending = cyc.pending
        /\ c.claimed = cyc.claimed
    OBVIOUS
  <2> HIDE DEF c
  <2> QED BY <1>1, <1>3, <2>1, <2>2, ReturnTypes DEF Phase
<1>5. CASE PromoteCoreMemories(raised)
  <2>1. PICK top \in TopSets(cyc.metrics) :
          Returns(raised, "dream", [cyc EXCEPT !.metrics = <<>>, !.did = @ \/ top # core])
    BY <1>5 DEF PromoteCoreMemories
  <2> DEFINE c == [cyc EXCEPT !.metrics = <<>>, !.did = @ \/ top # core]
  <2>2. /\ DOMAIN c = DOMAIN cyc /\ c.budget = cyc.budget /\ c.page = cyc.page
        /\ c.rows = cyc.rows /\ c.work = cyc.work /\ c.pending = cyc.pending
        /\ c.claimed = cyc.claimed
    OBVIOUS
  <2>3. Returns(raised, "dream", c)
    BY <2>1
  <2> HIDE DEF c
  <2> QED BY <1>1, <1>3, <2>2, <2>3, ReturnTypes DEF Phase
<1> QED BY <1>4, <1>5

LEMMA DreamTypes ==
  ASSUME SleepTypes, NEW raised \in BOOLEAN, Dream(raised), UNCHANGED mode
  PROVE  SleepTypes'
<1>1. UNCHANGED <<emb, vec, links, cursor, parity>>
  BY DEF Dream
<1>2. TablesTyped'
  <2>1. ASSUME NEW p \in cyc.claimed, NEW d \in Dreams,
               row' = [row EXCEPT ![d] = "active"], perm' = perm \ {d}, core' = core \ {d},
               access' = [access EXCEPT ![d] = 0],
               derived' = derived \cup ({<<p[1], d>>, <<p[2], d>>} \ links)
        PROVE  TablesTyped'
    <3>1. p[1] \in Node /\ p[2] \in Node /\ d \in Node
      BY SleepAssumption DEF SleepTypes, LocalsTyped, Pair
    <3>2. row' \in [Node -> {"absent", "active", "decayed"}] /\ access' \in [Node -> 0..2]
      BY <2>1, <3>1 DEF SleepTypes, TablesTyped
    <3>3. derived' \subseteq Node \X Node
      BY <2>1, <3>1 DEF SleepTypes, TablesTyped
    <3> QED BY <1>1, <2>1, <3>2, <3>3 DEF SleepTypes, TablesTyped
  <2>2. CASE UNCHANGED <<row, perm, core, access, derived>>
    BY <1>1, <2>2 DEF SleepTypes, TablesTyped
  <2> QED BY <2>1, <2>2 DEF Dream
<1>3. ASSUME NEW c, NEW fails \in BOOLEAN, NEW did, NEW failed, Returns(fails, "orphans2", c),
             \/ c = [cyc EXCEPT !.claimed = {}, !.did = did]
             \/ c = [cyc EXCEPT !.claimed = {}, !.failed = failed]
      PROVE  SleepTypes'
  <2>1. /\ DOMAIN c = DOMAIN cyc /\ c.budget = cyc.budget /\ c.page = cyc.page
        /\ c.rows = cyc.rows /\ c.work = cyc.work /\ c.pending = cyc.pending
        /\ c.claimed = {}
    BY <1>3, Fields DEF SleepTypes, LocalsTyped
  <2> QED BY <1>1, <1>2, <1>3, <2>1, ReturnTypes DEF Phase
<1> DEFINE told == [cyc EXCEPT !.claimed = {}, !.did = TRUE]
           failed == IF cyc.claimed = {} THEN cyc.failed ELSE cyc.failed \cup {"phase"}
           quiet == [cyc EXCEPT !.claimed = {}, !.failed = failed]
<1>4. Returns(raised, "orphans2", told) \/ Returns(FALSE, "orphans2", quiet)
  BY DEF Dream
<1>5. ASSUME Returns(raised, "orphans2", told) PROVE SleepTypes'
  BY <1>3, <1>5
<1>6. ASSUME Returns(FALSE, "orphans2", quiet) PROVE SleepTypes'
  <2> HIDE DEF failed
  <2> QED BY <1>3, <1>6
<1> QED BY <1>4, <1>5, <1>6

LEMMA NoDreamTypes == SleepTypes /\ NoDream /\ UNCHANGED mode => SleepTypes'
<1> SUFFICES ASSUME SleepTypes, NoDream, UNCHANGED mode PROVE SleepTypes'
  OBVIOUS
<1>1. pc' = "orphans2" /\ UNCHANGED <<durable, status>> /\ cyc' = [cyc EXCEPT !.claimed = {}]
  BY DEF NoDream
<1>2. /\ DOMAIN cyc' = DOMAIN cyc /\ cyc'.budget = cyc.budget /\ cyc'.page = cyc.page
      /\ cyc'.rows = cyc.rows /\ cyc'.work = cyc.work /\ cyc'.pending = cyc.pending
      /\ cyc'.claimed = {}
  BY <1>1, Fields DEF SleepTypes, LocalsTyped
<1>3. TablesTyped'
  BY <1>1 DEF SleepTypes, TablesTyped, durable
<1> QED BY <1>1, <1>2, <1>3, LaterLocals DEF Phase, durable

LEMMA EmbedOrphansTypes == SleepTypes /\ EmbedOrphans /\ UNCHANGED mode => SleepTypes'
<1> SUFFICES ASSUME SleepTypes, EmbedOrphans, UNCHANGED mode PROVE SleepTypes'
  OBVIOUS
<1>1. UNCHANGED <<row, perm, core, access, emb, vec, derived, links, cursor, status>>
  BY DEF EmbedOrphans
<1>2. parity' \in {0, 1}
  BY DEF EmbedOrphans, SleepTypes, CursorsTyped
<1>3. TablesTyped' /\ CursorsTyped'
  BY <1>1, <1>2 DEF SleepTypes, TablesTyped, CursorsTyped
<1>4. CASE UNCHANGED cyc /\ pc' = AfterOrphans(pc = "orphans2")
  BY <1>1, <1>3, <1>4 DEF AfterOrphans, SleepTypes, LocalsTyped, StageTyped, Phase
<1>5. CASE pc' = "page" /\ cyc' = [cyc EXCEPT !.phases = PhaseOrder, !.at = 0,
                                              !.second = (pc = "orphans2"), !.wrote = FALSE]
  <2>1. PhaseOrder \in Seq({"ordinary", "repair"})
    <3>1. <<"ordinary">> \in Seq({"ordinary", "repair"})
      OBVIOUS
    <3>2. <<"repair", "ordinary">> \in Seq({"ordinary", "repair"})
      OBVIOUS
    <3>3. <<"ordinary", "repair">> \in Seq({"ordinary", "repair"})
      OBVIOUS
    <3> QED BY <3>1, <3>2, <3>3 DEF PhaseOrder
  <2> DEFINE phases == PhaseOrder
             second == pc = "orphans2"
  <2>2. cyc' = [cyc EXCEPT !.phases = phases, !.at = 0, !.second = second, !.wrote = FALSE]
    BY <1>5
  <2> HIDE DEF phases, second
  <2>3. /\ DOMAIN cyc' = DOMAIN cyc /\ cyc'.budget = cyc.budget /\ cyc'.page = cyc.page
        /\ cyc'.rows = cyc.rows /\ cyc'.work = cyc.work /\ cyc'.pending = cyc.pending
        /\ cyc'.claimed = cyc.claimed /\ cyc'.phases = phases
    BY <2>2, Fields DEF SleepTypes, LocalsTyped
  <2>4. LocalsTyped'
    BY <1>5, <2>1, <2>3 DEF SleepTypes, LocalsTyped, phases
  <2> QED BY <1>1, <1>3, <1>5, <2>4 DEF SleepTypes, StageTyped, Phase
<1> QED BY <1>4, <1>5 DEF EmbedOrphans

LEMMA CrossLinksDoneTypes == SleepTypes /\ CrossLinksDone /\ UNCHANGED mode => SleepTypes'
BY LocalStep DEF CrossLinksDone, SleepTypes, LocalsTyped, Phase

LEMMA OrphansAreNodes == \A kind : Orphans(kind) \subseteq Node
BY DEF Orphans, Active

LEMMA NextPhaseFields ==
  ASSUME NEW c, DOMAIN c = DOMAIN NoCycle
  PROVE  /\ DOMAIN NextPhase(c) = DOMAIN NoCycle /\ NextPhase(c).budget = c.budget
         /\ NextPhase(c).page = c.page /\ NextPhase(c).rows = {} /\ NextPhase(c).work = c.work
         /\ NextPhase(c).pending = c.pending /\ NextPhase(c).claimed = c.claimed
         /\ NextPhase(c).phases = Tail(c.phases)
BY Fields DEF NextPhase

(* The rest of a phase is given up: the next one begins.                      *)
LEMMA NextPhaseTypes ==
  ASSUME LocalsTyped, NEW c, pc \in {"page", "write"}, pc' = "page", cyc.phases # <<>>,
         DOMAIN c = DOMAIN NoCycle, c.budget = cyc.budget, c.page = cyc.page, c.work = cyc.work,
         c.pending = cyc.pending, c.claimed = cyc.claimed, c.phases = cyc.phases,
         cyc' = NextPhase(c)
  PROVE  LocalsTyped'
<1>1. cyc.phases \in Seq({"ordinary", "repair"}) /\ cyc.phases # <<>>
  BY DEF LocalsTyped
<1>2. Tail(cyc.phases) \in Seq({"ordinary", "repair"})
  BY <1>1
<1>3. /\ DOMAIN cyc' = DOMAIN NoCycle /\ cyc'.budget = cyc.budget /\ cyc'.page = cyc.page
      /\ cyc'.rows = {} /\ cyc'.work = cyc.work /\ cyc'.pending = cyc.pending
      /\ cyc'.claimed = cyc.claimed /\ cyc'.phases = Tail(cyc.phases)
  BY NextPhaseFields
<1> QED BY <1>2, <1>3 DEF LocalsTyped

(* A capped cycle never takes more rows than its budget has left.             *)
LEMMA RowsWithinBudget ==
  ASSUME SleepTypes
  PROVE  RowsToTake \in Nat /\ (mode.capped => RowsToTake <= cyc.budget)
<1>1. cyc.budget \in Nat /\ OrphanBatch \in Nat
  BY SleepAssumption DEF SleepTypes, LocalsTyped
<1>2. Min({OrphanBatch, cyc.budget}) \in Nat /\ Min({OrphanBatch, cyc.budget}) <= cyc.budget
  <2> DEFINE b == cyc.budget
             least == IF OrphanBatch <= b THEN OrphanBatch ELSE b
  <2> HIDE DEF b
  <2>1. b \in Nat /\ OrphanBatch \in Nat
    BY <1>1 DEF b
  <2>2. least \in {OrphanBatch, b} /\ \A y \in {OrphanBatch, b} : least <= y
    BY <2>1
  <2> HIDE DEF least
  <2>3. Min({OrphanBatch, b}) \in {OrphanBatch, b} /\ \A y \in {OrphanBatch, b} : Min({OrphanBatch, b}) <= y
    BY <2>2 DEF Min
  <2>4. Min({OrphanBatch, b}) \in Nat /\ Min({OrphanBatch, b}) <= b
    BY <2>1, <2>3
  <2> QED BY <2>4 DEF b
<1> QED BY <1>1, <1>2 DEF RowsToTake

LEMMA OrphanPageTypes == SleepTypes /\ OrphanPage /\ UNCHANGED mode => SleepTypes'
<1> SUFFICES ASSUME SleepTypes, OrphanPage, UNCHANGED mode PROVE SleepTypes'
  OBVIOUS
<1>1. /\ pc = "page" /\ cyc.phases # <<>>
      /\ UNCHANGED <<row, perm, core, access, emb, vec, derived, links, parity, status>>
  BY DEF OrphanPage
<1> DEFINE kind == Head(cyc.phases)
           todo == Orphans(kind)
           later == {n \in todo : n > IF mode.capped THEN cursor[kind] ELSE cyc.at}
           after == FirstK(later, RowsToTake)
           rows == IF mode.capped /\ after = {} THEN FirstK(todo, RowsToTake) ELSE after
           at == IF mode.capped THEN 0 ELSE Max(rows)
           left == IF mode.capped THEN cyc.budget - Cardinality(rows) ELSE cyc.budget
           boundary == mode.capped /\ (after = {} \/ Cardinality(rows) < RowsToTake)
<1>2. kind \in {"ordinary", "repair"}
  <2>1. cyc.phases \in Seq({"ordinary", "repair"}) /\ cyc.phases # <<>>
    BY <1>1 DEF SleepTypes, LocalsTyped
  <2> QED BY <2>1
<1>3. TablesTyped'
  BY <1>1 DEF SleepTypes, TablesTyped
<1>4. CASE rows = {}
  <2>1. cyc' = NextPhase(cyc) /\ UNCHANGED <<pc, cursor>>
    BY <1>4 DEF OrphanPage
  <2> HIDE DEF rows
  <2>2. LocalsTyped'
    BY <1>1, <2>1, NextPhaseTypes DEF SleepTypes, LocalsTyped
  <2> QED BY <1>1, <1>3, <2>1, <2>2 DEF SleepTypes, CursorsTyped, StageTyped
<1>5. CASE rows # {}
  <2>1. /\ cyc' = [cyc EXCEPT !.rows = rows, !.at = at, !.budget = left, !.boundary = boundary]
        /\ cursor' = IF mode.capped THEN [cursor EXCEPT ![kind] = Max(rows)] ELSE cursor
        /\ pc' = "write"
    BY <1>5 DEF OrphanPage
  <2>2. RowsToTake \in Nat /\ (mode.capped => RowsToTake <= cyc.budget)
    BY RowsWithinBudget
  <2>3. todo \subseteq Node /\ later \subseteq Node
    BY OrphansAreNodes
  <2>4. rows \subseteq Node /\ Cardinality(rows) \in 0..RowsToTake
    <3> HIDE DEF todo, later
    <3> QED BY <2>2, <2>3, FirstKBounded
  <2> HIDE DEF kind, todo, later, after, rows, at, boundary
  <2>5. Max(rows) \in 0..N
    <3>1. Max(rows) \in rows
      BY <1>5, <2>4, MaxOfNodes
    <3> QED BY <2>4, <3>1, NodeFinite
  <2>6. cyc.budget \in 0..OrphanLimit /\ OrphanLimit \in Nat
    BY SleepAssumption DEF SleepTypes, LocalsTyped
  <2>7. left \in 0..OrphanLimit
    <3> DEFINE b == cyc.budget
               c == Cardinality(rows)
               t == RowsToTake
    <3>1. b \in 0..OrphanLimit /\ OrphanLimit \in Nat /\ c \in 0..t /\ t \in Nat /\ (mode.capped => t <= b)
      BY <2>2, <2>4, <2>6
    <3>2. left = IF mode.capped THEN b - c ELSE b
      BY DEF left
    <3> HIDE DEF b, c, t
    <3> QED BY <3>1, <3>2
  <2> HIDE DEF left
  <2>8. CursorsTyped'
    BY <1>1, <1>2, <2>1, <2>5 DEF SleepTypes, CursorsTyped
  <2>9. /\ DOMAIN cyc' = DOMAIN cyc /\ cyc'.budget = left /\ cyc'.page = cyc.page
        /\ cyc'.rows = rows /\ cyc'.work = cyc.work /\ cyc'.pending = cyc.pending
        /\ cyc'.claimed = cyc.claimed /\ cyc'.phases = cyc.phases
    BY <2>1, Fields DEF SleepTypes, LocalsTyped
  <2>10. LocalsTyped'
    BY <1>1, <2>1, <2>4, <2>7, <2>9 DEF SleepTypes, LocalsTyped
  <2> QED BY <1>1, <1>3, <2>1, <2>8, <2>10 DEF SleepTypes, StageTyped, Phase
<1> QED BY <1>4, <1>5

LEMMA OrphanWriteTypes == SleepTypes /\ OrphanWrite /\ UNCHANGED mode => SleepTypes'
<1> SUFFICES ASSUME SleepTypes, OrphanWrite, UNCHANGED mode PROVE SleepTypes'
  OBVIOUS
<1>1. /\ pc = "write" /\ pc' = "page" /\ cyc.phases # <<>>
      /\ UNCHANGED <<row, perm, core, access, derived, links, cursor, parity, status>>
  BY DEF OrphanWrite, SleepTypes, LocalsTyped
<1>2. emb' \subseteq emb \cup cyc.rows /\ vec' \subseteq vec \cup cyc.rows
  BY DEF OrphanWrite
<1>3. TablesTyped'
  BY <1>1, <1>2 DEF SleepTypes, TablesTyped, LocalsTyped
<1>4. \/ \E failed : cyc' = NextPhase([cyc EXCEPT !.failed = failed])
      \/ \E wrote, failed :
           LET c == [cyc EXCEPT !.rows = {}, !.wrote = wrote, !.failed = failed]
           IN cyc' = IF cyc.boundary THEN NextPhase(c) ELSE c
  BY DEF OrphanWrite
<1>5. ASSUME NEW failed, NEW c, c = [cyc EXCEPT !.failed = failed], cyc' = NextPhase(c)
      PROVE  LocalsTyped'
  <2>1. /\ DOMAIN c = DOMAIN NoCycle /\ c.budget = cyc.budget /\ c.page = cyc.page
        /\ c.work = cyc.work /\ c.pending = cyc.pending /\ c.claimed = cyc.claimed
        /\ c.phases = cyc.phases
    BY <1>5, Fields DEF SleepTypes, LocalsTyped
  <2>2. cyc' = NextPhase(c)
    BY <1>5
  <2> QED BY <1>1, <2>1, <2>2, NextPhaseTypes DEF SleepTypes
<1>6. ASSUME NEW wrote, NEW failed, NEW c,
             c = [cyc EXCEPT !.rows = {}, !.wrote = wrote, !.failed = failed],
             cyc' = IF cyc.boundary THEN NextPhase(c) ELSE c
      PROVE  LocalsTyped'
  <2>1. /\ DOMAIN c = DOMAIN NoCycle /\ c.budget = cyc.budget /\ c.page = cyc.page
        /\ c.work = cyc.work /\ c.pending = cyc.pending /\ c.claimed = cyc.claimed
        /\ c.phases = cyc.phases /\ c.rows = {}
    BY <1>6, Fields DEF SleepTypes, LocalsTyped
  <2>2. CASE cyc' = NextPhase(c)
    BY <1>1, <2>1, <2>2, NextPhaseTypes DEF SleepTypes
  <2>3. CASE cyc' = c
    BY <1>1, <2>1, <2>3 DEF SleepTypes, LocalsTyped
  <2> QED BY <1>6, <2>2, <2>3
<1>7. LocalsTyped'
  BY <1>4, <1>5, <1>6
<1> QED BY <1>1, <1>3, <1>7 DEF SleepTypes, CursorsTyped, StageTyped, Phase

LEMMA OrphansDoneTypes == SleepTypes /\ OrphansDone /\ UNCHANGED mode => SleepTypes'
<1> SUFFICES ASSUME SleepTypes, OrphansDone, UNCHANGED mode PROVE SleepTypes'
  OBVIOUS
<1> DEFINE did == cyc.did \/ (cyc.second /\ cyc.wrote)
<1>1. /\ pc' \in {"finish", "reselect"} /\ UNCHANGED <<durable, status>>
      /\ cyc' = [cyc EXCEPT !.did = did]
  BY DEF OrphansDone, AfterOrphans
<1> HIDE DEF did
<1>2. /\ DOMAIN cyc' = DOMAIN cyc /\ cyc'.budget = cyc.budget /\ cyc'.page = cyc.page
      /\ cyc'.rows = cyc.rows /\ cyc'.work = cyc.work /\ cyc'.pending = cyc.pending
      /\ cyc'.claimed = cyc.claimed
  BY <1>1
<1>3. TablesTyped'
  BY <1>1 DEF SleepTypes, TablesTyped, durable
<1> QED BY <1>1, <1>2, <1>3, LaterLocals DEF Phase, durable

LEMMA EndTypes == SleepTypes /\ (Finish \/ CycleRaises \/ Death) /\ UNCHANGED mode => SleepTypes'
<1> SUFFICES ASSUME SleepTypes, Finish \/ CycleRaises \/ Death, UNCHANGED mode PROVE SleepTypes'
  OBVIOUS
<1>1. /\ UNCHANGED <<row, perm, core, access, emb, derived, links, cursor, parity>>
      /\ vec' \subseteq vec
  BY DEF Finish, CycleRaises, Death, durable
<1>2. TablesTyped' /\ CursorsTyped'
  BY <1>1 DEF SleepTypes, TablesTyped, CursorsTyped
<1>3. Report(Outcome) \/ Report(IF cyc.did THEN "partial" ELSE "failed") \/ Report("none")
  BY DEF Finish, CycleRaises, Fail, Death
<1>4. Outcome \in {"none", "completed", "partial", "failed", "unavailable", "uncertain"}
  BY DEF Outcome
<1>5. LocalsTyped' /\ StageTyped'
  BY <1>3, <1>4, ReportTypes
<1> QED BY <1>2, <1>5 DEF SleepTypes

LEMMA SleepStepTypes == SleepTypes /\ [Next]_vars => SleepTypes'
<1> SUFFICES ASSUME SleepTypes, [Next]_vars PROVE SleepTypes'
  OBVIOUS
<1>1. CASE Noted(FALSE, BeginCycle)
  BY <1>1, BeginTypes DEF Noted
<1>2. ASSUME NEW n \in Node, Noted(FALSE, Remember(n)) \/ Noted(FALSE, Recall(n)) PROVE SleepTypes'
  BY <1>2, BetweenTypes DEF Noted
<1>3. CASE Noted(FALSE, CycleStep)
  <2>1. CycleStep /\ UNCHANGED mode
    BY <1>3 DEF Noted
  <2> QED BY <2>1, ReselectTypes, ReselectRaisesTypes, WritePairsTypes, CommitTypes,
             CrossLinksDoneTypes, NoDreamTypes, EmbedOrphansTypes, OrphanPageTypes,
             OrphanWriteTypes, OrphansDoneTypes, EndTypes DEF CycleStep
<1>6. ASSUME NEW raised \in Raised, Noted(raised, CommitStep(raised)) PROVE SleepTypes'
  <2>1. CommitStep(raised) /\ raised \in BOOLEAN /\ UNCHANGED mode
    BY <1>6 DEF Noted, Raised
  <2> QED BY <2>1, DedupTypes, GarbageCollectTypes, PromotionTypes, DreamTypes DEF CommitStep
<1>4. CASE Noted(FALSE, CycleRaises) \/ Noted(FALSE, Death)
  BY <1>4, EndTypes DEF Noted
<1>5. CASE UNCHANGED vars
  BY <1>5 DEF vars, durable, SleepTypes, TablesTyped, CursorsTyped, LocalsTyped, StageTyped
<1> QED BY <1>1, <1>2, <1>3, <1>4, <1>5, <1>6 DEF Next

(* Type correctness.  The orphan budget never runs below zero although a page *)
(* is charged to it before its rows are tried, and every cursor stays on a    *)
(* node (or at the beginning) whatever was collected in between.              *)
THEOREM SleepTypeCorrect == Spec => []TypeOK
<1>1. Init => SleepTypes
  BY InitTypes
<1>2. SleepTypes /\ [Next]_vars => SleepTypes'
  BY SleepStepTypes
<1>3. SleepTypes => TypeOK
  BY TypesImplyTypeOK
<1> QED BY <1>1, <1>2, <1>3, PTL DEF Spec
=============================================================================
