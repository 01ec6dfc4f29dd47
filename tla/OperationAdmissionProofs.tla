---------------------- MODULE OperationAdmissionProofs ----------------------
(* For every number of threads and processes, every set of requests and every *)
(* bound: admission is type correct, live tokens are protected, maintenance   *)
(* is alone, nothing is held while waiting, no lease is upgraded, and the     *)
(* two-step admission implements the atomic one.                              *)
EXTENDS OperationAdmission, TLAPS

(* flock grants no conflicting pair of leases.                                *)
LeasesExclude ==
  \A t, u \in Thread : t # u =>
    /\ graphLease[t] = "ex" => graphLease[u] = "none"
    /\ cacheLease[t] = "ex" => cacheLease[u] = "none"

(* What each program point says of the thread's leases and lease owner.       *)
PointsAgree ==
  \A t \in Thread :
    /\ pc[t] = "idle" => owner[t] # "open"
    /\ pc[t] = "idle" /\ owner[t] = "none" => Unwound(t)
    /\ pc[t] = "tryGraph" => Unwound(t) /\ owner[t] = "none" /\ req[t].graph
    /\ pc[t] = "tryCache" => /\ cacheLease[t] = "none"
                             /\ graphLease[t] = GraphMode(req[t])
                             /\ owner[t] = "none"
                             /\ req[t].cache
    /\ pc[t] \in {"unwind", "raise"} => owner[t] = "none"
    /\ pc[t] = "body" => owner[t] # "none"

(* Nested admissions exist only inside a body and passed the nested checks.   *)
NestingAgrees ==
  \A t \in Thread :
    /\ pc[t] # "body" => nest[t] = << >>
    /\ \A i \in 1..Len(nest[t]) : NestedAdmissible(Token(req[t]), nest[t][i])

IInv == TypeOK /\ LeasesExclude /\ PointsAgree /\ LiveTokenIsProtected /\ NestingAgrees

(* The modes of a request are modes, and a request without a store has none.  *)
LEMMA ModeFacts ==
  ASSUME NEW r \in Requests
  PROVE  /\ GraphMode(r) \in Modes
         /\ CacheMode(r) \in Modes
         /\ FirstStep(r) \in {"tryGraph", "tryCache"}
         /\ r.graph \in BOOLEAN
         /\ r.cache \in BOOLEAN
         /\ r.graph <=> GraphMode(r) # "none"
         /\ r.cache <=> CacheMode(r) # "none"
         /\ ~r.graph => r.cache
BY AdmissionAssumption
   DEF GraphMode, CacheMode, CacheExclusive, FirstStep, Modes

(* The token of a request has the request's stores and identity, and its      *)
(* flags are the modes the leases were taken in.                              *)
LEMMA TokenFacts ==
  ASSUME NEW r \in Requests
  PROVE  /\ Token(r).graph = r.graph
         /\ Token(r).cache = r.cache
         /\ Token(r).identity = r.identity
         /\ Token(r).exclusive <=> GraphMode(r) = "ex"
         /\ r.cache => (Token(r).cacheExclusive <=> CacheMode(r) = "ex")
BY AdmissionAssumption
   DEF Token, GraphMode, CacheMode, CacheExclusive

(* A nested request that passed the checks asks for no more than its parent   *)
(* holds.                                                                     *)
LEMMA NestedNeedsNoMore ==
  ASSUME NEW r \in Requests, NEW n \in Requests,
         NestedAdmissible(Token(r), n)
  PROVE  /\ Covers(GraphMode(r), GraphMode(n))
         /\ Covers(CacheMode(r), CacheMode(n))
         /\ n.identity \in {NoIdentity, r.identity}
         /\ GraphMode(n) = "ex" => GraphMode(r) = "ex"
         /\ CacheMode(n) = "ex" => CacheMode(r) = "ex"
<1>1. /\ n.graph = r.graph
      /\ n.cache = r.cache
      /\ n.identity # NoIdentity => n.identity = r.identity
      /\ n.cacheExclusive => Token(r).cacheExclusive
      /\ n.exclusive => GraphMode(r) = "ex"
  BY TokenFacts DEF NestedAdmissible
<1>2. r \in [graph : BOOLEAN, cache : BOOLEAN, exclusive : BOOLEAN,
             cacheExclusive : BOOLEAN, identity : Identity \cup {NoIdentity}]
      /\ n \in [graph : BOOLEAN, cache : BOOLEAN, exclusive : BOOLEAN,
             cacheExclusive : BOOLEAN, identity : Identity \cup {NoIdentity}]
  BY AdmissionAssumption
<1>3. GraphMode(n) = "ex" => GraphMode(r) = "ex"
  BY <1>1, <1>2 DEF GraphMode
<1>4. CacheMode(n) = "ex" => CacheMode(r) = "ex"
  BY <1>1, <1>2, TokenFacts DEF GraphMode, CacheMode, CacheExclusive
<1>5. /\ GraphMode(n) = "none" <=> GraphMode(r) = "none"
      /\ CacheMode(n) = "none" <=> CacheMode(r) = "none"
  BY <1>1, <1>2 DEF GraphMode, CacheMode
<1>6. /\ GraphMode(r) \in Modes /\ GraphMode(n) \in Modes
      /\ CacheMode(r) \in Modes /\ CacheMode(n) \in Modes
  BY ModeFacts
<1> QED BY <1>1, <1>3, <1>4, <1>5, <1>6 DEF Covers, Modes

LEMMA InitIInv == Init => IInv
BY AdmissionAssumption
   DEF Init, IInv, TypeOK, LeasesExclude, PointsAgree, LiveTokenIsProtected,
       NestingAgrees, Points, Modes, Owners, Live, Unwound

LEMMA StepTypeOK == TypeOK /\ [Next]_vars => TypeOK'
<1> SUFFICES ASSUME TypeOK, [Next]_vars PROVE TypeOK'
  OBVIOUS
<1> USE AdmissionAssumption DEF TypeOK, Points, Modes, Owners
<1>1. ASSUME NEW t \in Thread, NEW r \in Requests, Request(t, r) PROVE TypeOK'
  BY <1>1, ModeFacts DEF Request
<1>2. ASSUME NEW t \in Thread, GraphGranted(t) PROVE TypeOK'
  <2>1. GraphMode(req[t]) \in {"none", "sh", "ex"}
    BY ModeFacts
  <2>2. CASE req[t].cache
    BY <1>2, <2>1, <2>2 DEF GraphGranted
  <2>3. CASE ~req[t].cache
    <3>1. EnterBody(t) /\ graphLease' = [graphLease EXCEPT ![t] = GraphMode(req[t])]
          /\ UNCHANGED <<req, cacheLease, nest>>
      BY <1>2, <2>3 DEF GraphGranted
    <3> QED BY <2>1, <3>1 DEF EnterBody
  <2> QED BY <2>2, <2>3
<1>3. ASSUME NEW t \in Thread, GraphContended(t) PROVE TypeOK'
  BY <1>3 DEF GraphContended
<1>4. ASSUME NEW t \in Thread, CacheGranted(t) PROVE TypeOK'
  <2>1. CacheMode(req[t]) \in {"none", "sh", "ex"}
    BY ModeFacts
  <2> QED BY <1>4, <2>1 DEF CacheGranted, EnterBody
<1>5. ASSUME NEW t \in Thread, CacheContended(t) PROVE TypeOK'
  BY <1>5 DEF CacheContended
<1>6. ASSUME NEW t \in Thread, LockError(t) PROVE TypeOK'
  BY <1>6 DEF LockError
<1>7. ASSUME NEW t \in Thread, ReleaseCache(t) \/ ReleaseGraph(t) PROVE TypeOK'
  BY <1>7 DEF ReleaseCache, ReleaseGraph
<1>8. ASSUME NEW t \in Thread, Retry(t) PROVE TypeOK'
  <2>1. FirstStep(req[t]) \in {"tryGraph", "tryCache"}
    BY ModeFacts
  <2> QED BY <1>8, <2>1 DEF Retry
<1>9. ASSUME NEW t \in Thread, DeadlineExceeded(t) PROVE TypeOK'
  BY <1>9 DEF DeadlineExceeded
<1>10. ASSUME NEW t \in Thread, NEW r \in Requests, NestedAdmit(t, r) PROVE TypeOK'
  <2>1. Append(nest[t], r) \in Seq(Requests)
    OBVIOUS
  <2> QED BY <1>10, <2>1 DEF NestedAdmit
<1>11. ASSUME NEW t \in Thread, NestedExit(t) PROVE TypeOK'
  <2>1. SubSeq(nest[t], 1, Len(nest[t]) - 1) \in Seq(Requests)
    BY <1>11 DEF NestedExit
  <2> QED BY <1>11, <2>1 DEF NestedExit
<1>12. ASSUME NEW t \in Thread, Transfer(t) \/ BodyExit(t) \/ ReceiverClose(t) PROVE TypeOK'
  BY <1>12 DEF Transfer, BodyExit, ReceiverClose
<1>13. ASSUME NEW P \in Process, Crash(P) PROVE TypeOK'
  BY <1>13 DEF Crash
<1>14. CASE UNCHANGED vars
  BY <1>14 DEF vars
<1> QED
  BY <1>1, <1>2, <1>3, <1>4, <1>5, <1>6, <1>7, <1>8, <1>9, <1>10, <1>11, <1>12,
     <1>13, <1>14 DEF Next, Attempt

(* A lease is granted only when it conflicts with no other.                   *)
LEMMA StepLeasesExclude == IInv /\ [Next]_vars => LeasesExclude'
<1> SUFFICES ASSUME IInv, [Next]_vars PROVE LeasesExclude'
  OBVIOUS
<1> USE DEF IInv, TypeOK, LeasesExclude, Modes, Grantable
<1>1. ASSUME NEW t \in Thread, NEW r \in Requests, Request(t, r) PROVE LeasesExclude'
  BY <1>1 DEF Request
<1>2. ASSUME NEW t \in Thread, GraphGranted(t) PROVE LeasesExclude'
  BY <1>2 DEF GraphGranted, EnterBody
<1>3. ASSUME NEW t \in Thread, GraphContended(t) PROVE LeasesExclude'
  BY <1>3 DEF GraphContended
<1>4. ASSUME NEW t \in Thread, CacheGranted(t) PROVE LeasesExclude'
  BY <1>4 DEF CacheGranted, EnterBody
<1>5. ASSUME NEW t \in Thread, CacheContended(t) PROVE LeasesExclude'
  BY <1>5 DEF CacheContended
<1>6. ASSUME NEW t \in Thread, LockError(t) PROVE LeasesExclude'
  BY <1>6 DEF LockError
<1>7. ASSUME NEW t \in Thread, ReleaseCache(t) PROVE LeasesExclude'
  BY <1>7 DEF ReleaseCache, Unwinding
<1>8. ASSUME NEW t \in Thread, ReleaseGraph(t) PROVE LeasesExclude'
  BY <1>8 DEF ReleaseGraph, Unwinding
<1>9. ASSUME NEW t \in Thread, Retry(t) PROVE LeasesExclude'
  BY <1>9 DEF Retry
<1>10. ASSUME NEW t \in Thread, DeadlineExceeded(t) PROVE LeasesExclude'
  BY <1>10 DEF DeadlineExceeded
<1>11. ASSUME NEW t \in Thread, NEW r \in Requests, NestedAdmit(t, r) PROVE LeasesExclude'
  BY <1>11 DEF NestedAdmit
<1>12. ASSUME NEW t \in Thread, NestedExit(t) PROVE LeasesExclude'
  BY <1>12 DEF NestedExit
<1>13. ASSUME NEW t \in Thread, Transfer(t) PROVE LeasesExclude'
  BY <1>13 DEF Transfer
<1>14. ASSUME NEW t \in Thread, BodyExit(t) PROVE LeasesExclude'
  BY <1>14 DEF BodyExit
<1>15. ASSUME NEW t \in Thread, ReceiverClose(t) PROVE LeasesExclude'
  BY <1>15 DEF ReceiverClose
<1>16. ASSUME NEW P \in Process, Crash(P) PROVE LeasesExclude'
  BY <1>16 DEF Crash
<1>17. CASE UNCHANGED vars
  BY <1>17 DEF vars
<1> QED
  BY <1>1, <1>2, <1>3, <1>4, <1>5, <1>6, <1>7, <1>8, <1>9,
     <1>10, <1>11, <1>12, <1>13, <1>14, <1>15, <1>16, <1>17 DEF Next, Attempt

(* Each program point's claim about leases and owner survives every step.     *)
LEMMA StepPointsAgree == IInv /\ [Next]_vars => PointsAgree'
<1> SUFFICES ASSUME IInv, [Next]_vars PROVE PointsAgree'
  OBVIOUS
<1> USE DEF IInv, TypeOK, PointsAgree, Unwound, Points, Owners, Modes
<1>1. ASSUME NEW t \in Thread, NEW r \in Requests, Request(t, r) PROVE PointsAgree'
  BY <1>1, ModeFacts DEF Request, FirstStep, GraphMode
<1>2. ASSUME NEW t \in Thread, GraphGranted(t) PROVE PointsAgree'
  BY <1>2 DEF GraphGranted, EnterBody
<1>3. ASSUME NEW t \in Thread, GraphContended(t) PROVE PointsAgree'
  BY <1>3 DEF GraphContended
<1>4. ASSUME NEW t \in Thread, CacheGranted(t) PROVE PointsAgree'
  BY <1>4 DEF CacheGranted, EnterBody
<1>5. ASSUME NEW t \in Thread, CacheContended(t) PROVE PointsAgree'
  BY <1>5 DEF CacheContended
<1>6. ASSUME NEW t \in Thread, LockError(t) PROVE PointsAgree'
  BY <1>6 DEF LockError
<1>7. ASSUME NEW t \in Thread, ReleaseCache(t) PROVE PointsAgree'
  BY <1>7 DEF ReleaseCache, Unwinding
<1>8. ASSUME NEW t \in Thread, ReleaseGraph(t) PROVE PointsAgree'
  BY <1>8 DEF ReleaseGraph, Unwinding
<1>9. ASSUME NEW t \in Thread, Retry(t) PROVE PointsAgree'
  BY <1>9, ModeFacts DEF Retry, FirstStep, GraphMode
<1>10. ASSUME NEW t \in Thread, DeadlineExceeded(t) PROVE PointsAgree'
  BY <1>10 DEF DeadlineExceeded
<1>11. ASSUME NEW t \in Thread, NEW r \in Requests, NestedAdmit(t, r) PROVE PointsAgree'
  BY <1>11 DEF NestedAdmit
<1>12. ASSUME NEW t \in Thread, NestedExit(t) PROVE PointsAgree'
  BY <1>12 DEF NestedExit
<1>13. ASSUME NEW t \in Thread, Transfer(t) PROVE PointsAgree'
  BY <1>13 DEF Transfer
<1>14. ASSUME NEW t \in Thread, BodyExit(t) PROVE PointsAgree'
  BY <1>14 DEF BodyExit
<1>15. ASSUME NEW t \in Thread, ReceiverClose(t) PROVE PointsAgree'
  BY <1>15 DEF ReceiverClose
<1>16. ASSUME NEW P \in Process, Crash(P) PROVE PointsAgree'
  BY <1>16 DEF Crash
<1>17. CASE UNCHANGED vars
  BY <1>17 DEF vars
<1> QED
  BY <1>1, <1>2, <1>3, <1>4, <1>5, <1>6, <1>7, <1>8, <1>9,
     <1>10, <1>11, <1>12, <1>13, <1>14, <1>15, <1>16, <1>17 DEF Next, Attempt

(* Only closing the owner or the death of the process lets a lease go.        *)
LEMMA StepLiveTokenIsProtected == IInv /\ [Next]_vars => LiveTokenIsProtected'
<1> SUFFICES ASSUME IInv, [Next]_vars PROVE LiveTokenIsProtected'
  OBVIOUS
<1> USE DEF IInv, TypeOK, PointsAgree, LiveTokenIsProtected, Live, Unwound, Points, Owners
<1>1. ASSUME NEW t \in Thread, NEW r \in Requests, Request(t, r) PROVE LiveTokenIsProtected'
  BY <1>1, ModeFacts DEF Request
<1>2. ASSUME NEW t \in Thread, GraphGranted(t) PROVE LiveTokenIsProtected'
  BY <1>2, ModeFacts DEF GraphGranted, EnterBody
<1>3. ASSUME NEW t \in Thread, GraphContended(t) PROVE LiveTokenIsProtected'
  BY <1>3 DEF GraphContended
<1>4. ASSUME NEW t \in Thread, CacheGranted(t) PROVE LiveTokenIsProtected'
  BY <1>4, ModeFacts DEF CacheGranted, EnterBody
<1>5. ASSUME NEW t \in Thread, CacheContended(t) PROVE LiveTokenIsProtected'
  BY <1>5 DEF CacheContended
<1>6. ASSUME NEW t \in Thread, LockError(t) PROVE LiveTokenIsProtected'
  BY <1>6 DEF LockError
<1>7. ASSUME NEW t \in Thread, ReleaseCache(t) PROVE LiveTokenIsProtected'
  BY <1>7 DEF ReleaseCache, Unwinding
<1>8. ASSUME NEW t \in Thread, ReleaseGraph(t) PROVE LiveTokenIsProtected'
  BY <1>8 DEF ReleaseGraph, Unwinding
<1>9. ASSUME NEW t \in Thread, Retry(t) PROVE LiveTokenIsProtected'
  BY <1>9 DEF Retry
<1>10. ASSUME NEW t \in Thread, DeadlineExceeded(t) PROVE LiveTokenIsProtected'
  BY <1>10 DEF DeadlineExceeded
<1>11. ASSUME NEW t \in Thread, NEW r \in Requests, NestedAdmit(t, r) PROVE LiveTokenIsProtected'
  BY <1>11 DEF NestedAdmit
<1>12. ASSUME NEW t \in Thread, NestedExit(t) PROVE LiveTokenIsProtected'
  BY <1>12 DEF NestedExit
<1>13. ASSUME NEW t \in Thread, Transfer(t) PROVE LiveTokenIsProtected'
  BY <1>13 DEF Transfer
<1>14. ASSUME NEW t \in Thread, BodyExit(t) PROVE LiveTokenIsProtected'
  BY <1>14 DEF BodyExit
<1>15. ASSUME NEW t \in Thread, ReceiverClose(t) PROVE LiveTokenIsProtected'
  BY <1>15 DEF ReceiverClose
<1>16. ASSUME NEW P \in Process, Crash(P) PROVE LiveTokenIsProtected'
  BY <1>16 DEF Crash
<1>17. CASE UNCHANGED vars
  BY <1>17 DEF vars
<1> QED
  BY <1>1, <1>2, <1>3, <1>4, <1>5, <1>6, <1>7, <1>8, <1>9,
     <1>10, <1>11, <1>12, <1>13, <1>14, <1>15, <1>16, <1>17 DEF Next, Attempt

(* A request is replaced only outside a body, where nothing is nested.        *)
LEMMA StepNestingAgrees == IInv /\ [Next]_vars => NestingAgrees'
<1> SUFFICES ASSUME IInv, [Next]_vars PROVE NestingAgrees'
  OBVIOUS
<1> USE DEF IInv, TypeOK, NestingAgrees, Points, Owners
<1>1. ASSUME NEW t \in Thread, NEW r \in Requests, Request(t, r) PROVE NestingAgrees'
  BY <1>1 DEF Request
<1>2. ASSUME NEW t \in Thread, GraphGranted(t) PROVE NestingAgrees'
  BY <1>2 DEF GraphGranted, EnterBody
<1>3. ASSUME NEW t \in Thread, GraphContended(t) PROVE NestingAgrees'
  BY <1>3 DEF GraphContended
<1>4. ASSUME NEW t \in Thread, CacheGranted(t) PROVE NestingAgrees'
  BY <1>4 DEF CacheGranted, EnterBody
<1>5. ASSUME NEW t \in Thread, CacheContended(t) PROVE NestingAgrees'
  BY <1>5 DEF CacheContended
<1>6. ASSUME NEW t \in Thread, LockError(t) PROVE NestingAgrees'
  BY <1>6 DEF LockError
<1>7. ASSUME NEW t \in Thread, ReleaseCache(t) PROVE NestingAgrees'
  BY <1>7 DEF ReleaseCache, Unwinding
<1>8. ASSUME NEW t \in Thread, ReleaseGraph(t) PROVE NestingAgrees'
  BY <1>8 DEF ReleaseGraph, Unwinding
<1>9. ASSUME NEW t \in Thread, Retry(t) PROVE NestingAgrees'
  BY <1>9 DEF Retry
<1>10. ASSUME NEW t \in Thread, DeadlineExceeded(t) PROVE NestingAgrees'
  BY <1>10 DEF DeadlineExceeded
<1>11. ASSUME NEW t \in Thread, NEW r \in Requests, NestedAdmit(t, r) PROVE NestingAgrees'
  BY <1>11 DEF NestedAdmit
<1>12. ASSUME NEW t \in Thread, NestedExit(t) PROVE NestingAgrees'
  BY <1>12 DEF NestedExit
<1>13. ASSUME NEW t \in Thread, Transfer(t) PROVE NestingAgrees'
  BY <1>13 DEF Transfer
<1>14. ASSUME NEW t \in Thread, BodyExit(t) PROVE NestingAgrees'
  BY <1>14 DEF BodyExit
<1>15. ASSUME NEW t \in Thread, ReceiverClose(t) PROVE NestingAgrees'
  BY <1>15 DEF ReceiverClose
<1>16. ASSUME NEW P \in Process, Crash(P) PROVE NestingAgrees'
  BY <1>16 DEF Crash
<1>17. CASE UNCHANGED vars
  BY <1>17 DEF vars
<1> QED
  BY <1>1, <1>2, <1>3, <1>4, <1>5, <1>6, <1>7, <1>8, <1>9,
     <1>10, <1>11, <1>12, <1>13, <1>14, <1>15, <1>16, <1>17 DEF Next, Attempt

(* The inductive invariant holds of every reachable state.                    *)
THEOREM InductiveInvariant == Spec => []IInv
<1>1. IInv /\ [Next]_vars => IInv'
  <2>1. IInv => TypeOK
    BY DEF IInv
  <2> QED
    BY <2>1, StepTypeOK, StepLeasesExclude, StepPointsAgree, StepLiveTokenIsProtected,
       StepNestingAgrees DEF IInv
<1> QED BY <1>1, InitIInv, PTL DEF Spec

(* Every variable of the admission loop keeps its type.                       *)
THEOREM TypeCorrect == Spec => []TypeOK
<1>1. IInv => TypeOK
  BY DEF IInv
<1> QED BY <1>1, InductiveInvariant, PTL

(* The leases of a live token are held whatever retries, transfers and        *)
(* crashes of other processes do.                                             *)
THEOREM LiveTokensProtected == Spec => []LiveTokenIsProtected
<1>1. IInv => LiveTokenIsProtected
  BY DEF IInv
<1> QED BY <1>1, InductiveInvariant, PTL

(* What the nested checks of admit_operation let through never exceeds the    *)
(* parent's leases or identity.                                               *)
THEOREM NestedCovered == Spec => []NestedIsCovered
<1>1. ASSUME IInv PROVE NestedIsCovered
  <2> SUFFICES ASSUME NEW t \in Thread, Live(t), NEW i \in 1..Len(nest[t])
               PROVE  /\ Covers(graphLease[t], GraphMode(nest[t][i]))
                      /\ Covers(cacheLease[t], CacheMode(nest[t][i]))
                      /\ nest[t][i].identity \in {NoIdentity, req[t].identity}
    BY DEF NestedIsCovered
  <2>1. req[t] \in Requests /\ nest[t][i] \in Requests
    BY <1>1 DEF IInv, TypeOK
  <2>2. NestedAdmissible(Token(req[t]), nest[t][i])
    BY <1>1 DEF IInv, NestingAgrees
  <2>3. graphLease[t] = GraphMode(req[t]) /\ cacheLease[t] = CacheMode(req[t])
    BY <1>1 DEF IInv, LiveTokenIsProtected
  <2> QED BY <2>1, <2>2, <2>3, NestedNeedsNoMore
<1> QED BY <1>1, InductiveInvariant, PTL

(* An exclusive operation, nested or not, shares its store with no other live *)
(* operation of any thread or process.                                        *)
THEOREM MaintenanceAlone == Spec => []MaintenanceIsAlone
<1>1. ASSUME IInv PROVE MaintenanceIsAlone
  <2> SUFFICES ASSUME NEW t \in Thread, NEW u \in Thread, t # u, Live(t),
                      NEW r \in Running(t)
               PROVE  /\ GraphMode(r) = "ex" => ~UsesGraph(u)
                      /\ CacheMode(r) = "ex" => ~UsesCache(u)
    BY DEF MaintenanceIsAlone
  <2>1. req[t] \in Requests /\ req[u] \in Requests
    BY <1>1 DEF IInv, TypeOK
  <2>2. /\ graphLease[t] = GraphMode(req[t])
        /\ cacheLease[t] = CacheMode(req[t])
        /\ Live(u) => /\ graphLease[u] = GraphMode(req[u])
                      /\ cacheLease[u] = CacheMode(req[u])
    BY <1>1 DEF IInv, LiveTokenIsProtected
  <2>3. /\ GraphMode(r) = "ex" => GraphMode(req[t]) = "ex"
        /\ CacheMode(r) = "ex" => CacheMode(req[t]) = "ex"
    <3>1. CASE r = req[t]
      BY <3>1
    <3>2. ASSUME NEW i \in 1..Len(nest[t]), r = nest[t][i]
          PROVE  /\ GraphMode(r) = "ex" => GraphMode(req[t]) = "ex"
                 /\ CacheMode(r) = "ex" => CacheMode(req[t]) = "ex"
      <4>1. r \in Requests /\ NestedAdmissible(Token(req[t]), r)
        BY <1>1, <3>2 DEF IInv, TypeOK, NestingAgrees
      <4> QED BY <2>1, <4>1, NestedNeedsNoMore
    <3> QED BY <3>1, <3>2 DEF Running
  <2>4. /\ graphLease[t] = "ex" => graphLease[u] = "none"
        /\ cacheLease[t] = "ex" => cacheLease[u] = "none"
    BY <1>1 DEF IInv, LeasesExclude
  <2> QED BY <2>1, <2>2, <2>3, <2>4, ModeFacts DEF UsesGraph, UsesCache
<1> QED BY <1>1, InductiveInvariant, PTL

(* A thread between two attempts holds no lease, so no set of threads can     *)
(* wait for each other in a circle.                                           *)
THEOREM NothingHeldWhileWaiting == Spec => []NoHoldAndWait
<1>1. IInv => NoHoldAndWait
  BY DEF IInv, PointsAgree, NoHoldAndWait
<1> QED BY <1>1, InductiveInvariant, PTL

(* No step changes the mode of a lease that is held.                          *)
THEOREM LeasesNeverUpgraded == Spec => NoLeaseUpgrade
<1> DEFINE Keeps == \A t \in Thread :
       /\ graphLease[t] # "none" => graphLease'[t] \in {"none", graphLease[t]}
       /\ cacheLease[t] # "none" => cacheLease'[t] \in {"none", cacheLease[t]}
<1>1. ASSUME IInv, [Next]_vars PROVE Keeps
  <2> USE <1>1 DEF IInv, TypeOK, PointsAgree, Unwound
  <2>1. ASSUME NEW t \in Thread, GraphGranted(t) PROVE Keeps
    BY <2>1 DEF GraphGranted
  <2>2. ASSUME NEW t \in Thread, CacheGranted(t) PROVE Keeps
    BY <2>2 DEF CacheGranted
  <2>3. ASSUME NEW t \in Thread, ReleaseCache(t) \/ ReleaseGraph(t) PROVE Keeps
    BY <2>3 DEF ReleaseCache, ReleaseGraph
  <2>4. ASSUME NEW P \in Process, Crash(P) PROVE Keeps
    BY <2>4 DEF Crash
  <2>5. ASSUME UNCHANGED <<graphLease, cacheLease>> PROVE Keeps
    BY <2>5
  <2>6. ASSUME NEW t \in Thread,
               \/ \E r \in Requests : Request(t, r) \/ NestedAdmit(t, r)
               \/ GraphContended(t) \/ CacheContended(t) \/ LockError(t)
               \/ Retry(t) \/ DeadlineExceeded(t)
               \/ NestedExit(t) \/ Transfer(t) \/ BodyExit(t) \/ ReceiverClose(t)
        PROVE  UNCHANGED <<graphLease, cacheLease>>
    BY <2>6 DEF Request, NestedAdmit, GraphContended, CacheContended, LockError,
                Retry, DeadlineExceeded, NestedExit, Transfer, BodyExit, ReceiverClose
  <2> QED BY <1>1, <2>1, <2>2, <2>3, <2>4, <2>5, <2>6 DEF Next, Attempt, vars
<1>2. IInv /\ [Next]_vars => [Keeps]_vars
  BY <1>1
<1> QED BY <1>2, InductiveInvariant, PTL DEF Spec, NoLeaseUpgrade

-----------------------------------------------------------------------------
(* A step that leaves liveness and requests of live tokens alone is invisible *)
(* to the atomic specification.                                               *)
LEMMA InvisibleStep ==
  ASSUME \A t \in Thread : Live(t)' <=> Live(t),
         \A t \in Thread : Live(t) => req'[t] = req[t]
  PROVE  [t \in Thread |-> Admitted(t)]' = [t \in Thread |-> Admitted(t)]
<1>1. ASSUME NEW t \in Thread PROVE Admitted(t)' = Admitted(t)
  BY <1>1 DEF Admitted
<1> QED BY <1>1

(* The steps on which a token becomes live, and the leases it then has.       *)
LEMMA EnteringStep ==
  ASSUME IInv, IInv', NEW t \in Thread,
         ~Live(t), Live(t)', UNCHANGED req,
         \A u \in Thread \ {t} : owner'[u] = owner[u]
  PROVE  Atomic!Next
<1> DEFINE lease == Admitted(t)'
           adm == [u \in Thread |-> Admitted(u)]
<1>1. req[t] \in Requests
  BY DEF IInv, TypeOK
<1>2. lease = [s \in {"graph", "cache"} |->
                 IF s = "graph" THEN GraphMode(req[t]) ELSE CacheMode(req[t])]
  BY DEF Admitted
<1>3. lease \in [{"graph", "cache"} -> Atomic!Modes]
  BY <1>1, <1>2, ModeFacts DEF Atomic!Modes, Modes
<1>4. adm[t] = Atomic!NoLease
  BY DEF Admitted, Atomic!NoLease
<1>5. lease # Atomic!NoLease
  <2>1. lease["graph"] # "none" \/ lease["cache"] # "none"
    BY <1>1, <1>2, ModeFacts
  <2>2. Atomic!NoLease["graph"] = "none" /\ Atomic!NoLease["cache"] = "none"
    BY DEF Atomic!NoLease
  <2> QED BY <2>1, <2>2
<1>6. ASSUME NEW u \in Thread, NEW s \in {"graph", "cache"}
      PROVE  Atomic!Compatible(lease[s], adm[u][s])
  <2>1. CASE ~Live(u)
    BY <2>1 DEF Admitted, Atomic!Compatible
  <2>2. CASE Live(u)
    <3>1. u # t /\ Live(u)'
      BY <2>2 DEF Live
    <3>2. req[u] \in Requests
      BY DEF IInv, TypeOK
    <3>3. adm[u][s] = IF s = "graph" THEN GraphMode(req[u]) ELSE CacheMode(req[u])
      BY <2>2 DEF Admitted
    <3>4. /\ graphLease'[u] = GraphMode(req[u]) /\ cacheLease'[u] = CacheMode(req[u])
          /\ graphLease'[t] = GraphMode(req[t]) /\ cacheLease'[t] = CacheMode(req[t])
      BY <3>1 DEF IInv, LiveTokenIsProtected
    <3>5. /\ graphLease'[t] = "ex" => graphLease'[u] = "none"
          /\ cacheLease'[t] = "ex" => cacheLease'[u] = "none"
          /\ graphLease'[u] = "ex" => graphLease'[t] = "none"
          /\ cacheLease'[u] = "ex" => cacheLease'[t] = "none"
      BY <3>1 DEF IInv, LeasesExclude
    <3>6. /\ GraphMode(req[t]) \in Modes /\ CacheMode(req[t]) \in Modes
          /\ GraphMode(req[u]) \in Modes /\ CacheMode(req[u]) \in Modes
      BY <1>1, <3>2, ModeFacts
    <3>7. CASE s = "graph"
      BY <1>2, <3>3, <3>4, <3>5, <3>6, <3>7 DEF Atomic!Compatible, Modes
    <3>8. CASE s = "cache"
      BY <1>2, <3>3, <3>4, <3>5, <3>6, <3>8 DEF Atomic!Compatible, Modes
    <3> QED BY <3>7, <3>8
  <2> QED BY <2>1, <2>2
<1>7. adm' = [adm EXCEPT ![t] = lease]
  <2>1. ASSUME NEW u \in Thread, u # t PROVE Admitted(u)' = Admitted(u)
    BY <2>1 DEF Admitted, Live
  <2> QED BY <2>1
<1>8. Atomic!Enter(t, lease)
  BY <1>4, <1>5, <1>6, <1>7 DEF Atomic!Enter
<1> QED BY <1>3, <1>8 DEF Atomic!Next

(* The steps on which tokens stop being live.                                 *)
LEMMA LeavingStep ==
  ASSUME NEW P \in SUBSET Thread, UNCHANGED req,
         \A t \in P : ~Live(t)',
         \A t \in Thread \ P : owner'[t] = owner[t]
  PROVE  Atomic!Next
<1> DEFINE adm == [u \in Thread |-> Admitted(u)]
<1>1. ASSUME NEW t \in P PROVE Admitted(t)' = Atomic!NoLease
  BY <1>1 DEF Admitted, Atomic!NoLease
<1>2. ASSUME NEW t \in Thread \ P PROVE Admitted(t)' = Admitted(t)
  BY <1>2 DEF Admitted, Live
<1>3. adm' = [t \in Thread |-> IF t \in P THEN Atomic!NoLease ELSE adm[t]]
  BY <1>1, <1>2
<1> QED BY <1>3 DEF Atomic!Next, Atomic!Leave

(* The two-step, retried and transferable admission implements atomic         *)
(* admission to both stores.                                                  *)
THEOREM AdmissionRefines == Spec => AdmissionIsAtomic
<1> DEFINE adm == [t \in Thread |-> Admitted(t)]
<1>1. Init => Atomic!Init
  BY DEF Init, Atomic!Init, Atomic!NoLease, Admitted, Live
<1>2. ASSUME IInv, IInv', [Next]_vars PROVE Atomic!Next \/ adm' = adm
  <2>1. ASSUME NEW t \in Thread, NEW r \in Requests, Request(t, r) PROVE adm' = adm
    <3>1. ~Live(t)
      <4>1. req[t] \in Requests
        BY <1>2 DEF IInv, TypeOK
      <4> QED BY <1>2, <2>1, <4>1, ModeFacts DEF Request, IInv, LiveTokenIsProtected
    <3>2. \A u \in Thread : Live(u)' <=> Live(u)
      BY <1>2, <2>1, <3>1 DEF Request, Live, IInv, TypeOK
    <3>3. \A u \in Thread : u # t => req'[u] = req[u]
      BY <1>2, <2>1 DEF Request, IInv, TypeOK
    <3> QED BY <3>1, <3>2, <3>3, InvisibleStep
  <2>2. ASSUME NEW t \in Thread, GraphGranted(t) PROVE Atomic!Next \/ adm' = adm
    <3>1. CASE req[t].cache
      <4>1. UNCHANGED <<req, owner>>
        BY <2>2, <3>1 DEF GraphGranted
      <4> QED BY <4>1, InvisibleStep DEF Live
    <3>2. CASE ~req[t].cache
      <4>1. ~Live(t) /\ Live(t)' /\ UNCHANGED req
            /\ \A u \in Thread \ {t} : owner'[u] = owner[u]
        BY <1>2, <2>2, <3>2 DEF GraphGranted, EnterBody, Live, IInv, TypeOK, PointsAgree
      <4> QED BY <1>2, <4>1, EnteringStep
    <3> QED BY <3>1, <3>2
  <2>3. ASSUME NEW t \in Thread, CacheGranted(t) PROVE Atomic!Next
    <3>1. ~Live(t) /\ Live(t)' /\ UNCHANGED req
          /\ \A u \in Thread \ {t} : owner'[u] = owner[u]
      BY <1>2, <2>3 DEF CacheGranted, EnterBody, Live, IInv, TypeOK, PointsAgree
    <3> QED BY <1>2, <3>1, EnteringStep
  <2>4. ASSUME NEW t \in Thread, BodyExit(t) \/ ReceiverClose(t)
        PROVE  Atomic!Next \/ adm' = adm
    <3>1. CASE owner[t] = "open" \/ ReceiverClose(t)
      <4>1. UNCHANGED req /\ (\A u \in {t} : ~Live(u)')
            /\ \A u \in Thread \ {t} : owner'[u] = owner[u]
        BY <1>2, <2>4, <3>1 DEF BodyExit, ReceiverClose, Live, IInv, TypeOK
      <4> QED BY <4>1, LeavingStep
    <3>2. CASE owner[t] # "open" /\ BodyExit(t)
      <4>1. UNCHANGED req /\ \A u \in Thread : owner'[u] = owner[u]
        BY <1>2, <3>2 DEF BodyExit, IInv, TypeOK
      <4> QED BY <4>1, InvisibleStep DEF Live
    <3> QED BY <2>4, <3>1, <3>2
  <2>5. ASSUME NEW t \in Thread, Transfer(t) PROVE adm' = adm
    <3>1. UNCHANGED req /\ \A u \in Thread : Live(u)' <=> Live(u)
      BY <1>2, <2>5 DEF Transfer, Live, IInv, TypeOK
    <3> QED BY <3>1, InvisibleStep
  <2>6. ASSUME NEW P \in Process, Crash(P) PROVE Atomic!Next
    <3>1. P \in SUBSET Thread
      BY AdmissionAssumption
    <3>2. UNCHANGED req /\ (\A t \in P : ~Live(t)')
          /\ \A t \in Thread \ P : owner'[t] = owner[t]
      BY <2>6, <3>1 DEF Crash, Live
    <3> QED BY <3>1, <3>2, LeavingStep
  <2>7. ASSUME UNCHANGED <<req, owner>> PROVE adm' = adm
    BY <2>7, InvisibleStep DEF Live
  <2>8. ASSUME NEW t \in Thread,
               \/ \E r \in Requests : NestedAdmit(t, r)
               \/ GraphContended(t) \/ CacheContended(t) \/ LockError(t)
               \/ ReleaseCache(t) \/ ReleaseGraph(t)
               \/ Retry(t) \/ DeadlineExceeded(t) \/ NestedExit(t)
        PROVE  UNCHANGED <<req, owner>>
    BY <2>8 DEF NestedAdmit, GraphContended, CacheContended, LockError, ReleaseCache,
                ReleaseGraph, Retry, DeadlineExceeded, NestedExit
  <2> QED BY <1>2, <2>1, <2>2, <2>3, <2>4, <2>5, <2>6, <2>7, <2>8 DEF Next, Attempt, vars
<1>3. IInv /\ IInv' /\ [Next]_vars => [Atomic!Next]_adm
  BY <1>2
<1> QED
  BY <1>1, <1>3, InductiveInvariant, PTL DEF Spec, AdmissionIsAtomic, Atomic!Spec
=============================================================================
