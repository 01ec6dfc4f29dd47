------------------------- MODULE OperationAdmission -------------------------
(* Graph and cache admission (admission.py) over the advisory file leases of  *)
(* locking.py. Threads of several processes compete for two flock leases, the *)
(* graph's and the embedding cache's, in shared or exclusive mode. An attempt *)
(* takes graph then cache without blocking; an attempt that meets contention  *)
(* gives everything back before it sleeps; after the deadline it raises.      *)
EXTENDS Naturals, Sequences

CONSTANTS
  Thread,       \* threads that may admit an operation
  Process,      \* sets of threads: the threads that die together
  Requests,     \* the argument records admit_operation is called with
  Identity,     \* model, dimension, epoch and generation of a provider
  NoIdentity,   \* the caller states no identity
  MaxRetries,   \* bound: attempts after the first within one deadline
  MaxNesting    \* bound: depth of nested admissions of one thread

ASSUME AdmissionAssumption ==
  /\ Process \subseteq SUBSET Thread
  /\ NoIdentity \notin Identity
  /\ MaxRetries \in Nat
  /\ MaxNesting \in Nat
  /\ Requests \subseteq
       {r \in [graph : BOOLEAN, cache : BOOLEAN, exclusive : BOOLEAN,
               cacheExclusive : BOOLEAN, identity : Identity \cup {NoIdentity}] :
          r.graph \/ r.cache}

VARIABLES
  pc,           \* where each thread is in admit_operation
  req,          \* the arguments of each thread's outermost admission
  left,         \* attempts left before the deadline
  graphLease,   \* mode of the flock the thread's ExitStack holds on the graph
  cacheLease,   \* ... and on the cache
  owner,        \* the AdmissionLeaseOwner: none, open, transferred, closed
  nest          \* nested admissions inside the body, innermost last

vars == <<pc, req, left, graphLease, cacheLease, owner, nest>>

Modes  == {"none", "sh", "ex"}
Points == {"idle", "tryGraph", "tryCache", "unwind", "raise", "body"}
Owners == {"none", "open", "transferred", "closed"}

-----------------------------------------------------------------------------
(* The modes a request takes each lease in. A cache-only request takes the    *)
(* cache exclusively for either flag.                                         *)
GraphMode(r) ==
  IF r.graph THEN (IF r.exclusive THEN "ex" ELSE "sh") ELSE "none"

CacheExclusive(r) == r.cacheExclusive \/ (~r.graph /\ r.exclusive)

CacheMode(r) ==
  IF r.cache THEN (IF CacheExclusive(r) THEN "ex" ELSE "sh") ELSE "none"

(* The flags the OperationAdmission token records for nested admissions.      *)
Token(r) == [r EXCEPT !.exclusive = r.graph /\ r.exclusive,
                      !.cacheExclusive = CacheExclusive(r)]

(* Variant: the two lease-upgrade checks left out.                            *)
NestedAdmissibleUpgrade(parent, r) ==
  /\ r.graph = parent.graph
  /\ r.cache = parent.cache
  /\ r.identity # NoIdentity => r.identity = parent.identity

(* The checks of the nested branch: same stores, no other identity, no lease  *)
(* upgrade.                                                                   *)
NestedAdmissible(parent, r) ==
  /\ r.graph = parent.graph
  /\ r.cache = parent.cache
  /\ r.identity # NoIdentity => r.identity = parent.identity
  /\ r.cacheExclusive => parent.cacheExclusive
  /\ r.exclusive => parent.exclusive

(* flock(LOCK_SH | LOCK_NB) and flock(LOCK_EX | LOCK_NB): every descriptor is *)
(* opened anew, so the leases of one process conflict with each other too.    *)
Grantable(lease, mode) ==
  \A u \in Thread : lease[u] = "none" \/ (lease[u] = "sh" /\ mode = "sh")

FirstStep(r) == IF r.graph THEN "tryGraph" ELSE "tryCache"

-----------------------------------------------------------------------------
Init ==
  /\ pc = [t \in Thread |-> "idle"]
  /\ req \in [Thread -> Requests]
  /\ left = [t \in Thread |-> MaxRetries]
  /\ graphLease = [t \in Thread |-> "none"]
  /\ cacheLease = [t \in Thread |-> "none"]
  /\ owner = [t \in Thread |-> "none"]
  /\ nest = [t \in Thread |-> << >>]

(* A call from a thread with no current admission. The thread has finished    *)
(* closing its previous stack; a lease it transferred must have been closed   *)
(* by the receiver (bound: one outstanding transfer per thread).              *)
Request(t, r) ==
  /\ pc[t] = "idle"
  /\ graphLease[t] = "none" /\ cacheLease[t] = "none"
  /\ pc' = [pc EXCEPT ![t] = FirstStep(r)]
  /\ req' = [req EXCEPT ![t] = r]
  /\ owner' = [owner EXCEPT ![t] = "none"]
  /\ UNCHANGED <<left, graphLease, cacheLease, nest>>

(* Entering the body builds the lease owner and publishes the token; the      *)
(* deadline is over with the loop.                                            *)
EnterBody(t) ==
  /\ pc' = [pc EXCEPT ![t] = "body"]
  /\ owner' = [owner EXCEPT ![t] = "open"]
  /\ left' = [left EXCEPT ![t] = MaxRetries]

(* Variant: the token is published before the cache lease is obtained.        *)
GraphGrantedEarly(t) ==
  /\ pc[t] = "tryGraph"
  /\ Grantable(graphLease, GraphMode(req[t]))
  /\ graphLease' = [graphLease EXCEPT ![t] = GraphMode(req[t])]
  /\ pc' = [pc EXCEPT ![t] = IF req[t].cache THEN "tryCache" ELSE "body"]
  /\ owner' = [owner EXCEPT ![t] = "open"]
  /\ UNCHANGED <<req, left, cacheLease, nest>>

GraphGranted(t) ==
  /\ pc[t] = "tryGraph"
  /\ Grantable(graphLease, GraphMode(req[t]))
  /\ graphLease' = [graphLease EXCEPT ![t] = GraphMode(req[t])]
  /\ IF req[t].cache
       THEN pc' = [pc EXCEPT ![t] = "tryCache"] /\ UNCHANGED <<left, owner>>
       ELSE EnterBody(t)
  /\ UNCHANGED <<req, cacheLease, nest>>

GraphContended(t) ==
  /\ pc[t] = "tryGraph"
  /\ ~Grantable(graphLease, GraphMode(req[t]))
  /\ pc' = [pc EXCEPT ![t] = "unwind"]
  /\ UNCHANGED <<req, left, graphLease, cacheLease, owner, nest>>

CacheGranted(t) ==
  /\ pc[t] = "tryCache"
  /\ Grantable(cacheLease, CacheMode(req[t]))
  /\ cacheLease' = [cacheLease EXCEPT ![t] = CacheMode(req[t])]
  /\ EnterBody(t)
  /\ UNCHANGED <<req, graphLease, nest>>

CacheContended(t) ==
  /\ pc[t] = "tryCache"
  /\ ~Grantable(cacheLease, CacheMode(req[t]))
  /\ pc' = [pc EXCEPT ![t] = "unwind"]
  /\ UNCHANGED <<req, left, graphLease, cacheLease, owner, nest>>

(* Opening the lock file or flock itself fails with another errno.            *)
LockError(t) ==
  /\ pc[t] \in {"tryGraph", "tryCache"}
  /\ pc' = [pc EXCEPT ![t] = "raise"]
  /\ UNCHANGED <<req, left, graphLease, cacheLease, owner, nest>>

(* stack.close(): descriptors are released in reverse order of acquisition,   *)
(* by the thread that unwinds or by whoever closes the lease owner.           *)
Unwinding(t) == pc[t] \in {"unwind", "raise"} \/ owner[t] = "closed"

ReleaseCache(t) ==
  /\ Unwinding(t)
  /\ cacheLease[t] # "none"
  /\ cacheLease' = [cacheLease EXCEPT ![t] = "none"]
  /\ UNCHANGED <<pc, req, left, graphLease, owner, nest>>

ReleaseGraph(t) ==
  /\ Unwinding(t)
  /\ cacheLease[t] = "none"
  /\ graphLease[t] # "none"
  /\ graphLease' = [graphLease EXCEPT ![t] = "none"]
  /\ UNCHANGED <<pc, req, left, cacheLease, owner, nest>>

Unwound(t) == graphLease[t] = "none" /\ cacheLease[t] = "none"

(* Variants: the stack is not closed before the sleep; the deadline is        *)
(* computed anew for every attempt.                                           *)
RetryHolding(t) ==
  /\ pc[t] = "unwind"
  /\ left[t] > 0
  /\ left' = [left EXCEPT ![t] = @ - 1]
  /\ pc' = [pc EXCEPT ![t] = FirstStep(req[t])]
  /\ UNCHANGED <<req, graphLease, cacheLease, owner, nest>>

RetryForever(t) ==
  /\ pc[t] = "unwind" /\ Unwound(t)
  /\ pc' = [pc EXCEPT ![t] = FirstStep(req[t])]
  /\ UNCHANGED <<req, left, graphLease, cacheLease, owner, nest>>

(* The monotonic clock may pass the deadline after any attempt, and has       *)
(* passed it when no attempt is left.                                         *)
Retry(t) ==
  /\ pc[t] = "unwind" /\ Unwound(t)
  /\ left[t] > 0
  /\ left' = [left EXCEPT ![t] = @ - 1]
  /\ pc' = [pc EXCEPT ![t] = FirstStep(req[t])]
  /\ UNCHANGED <<req, graphLease, cacheLease, owner, nest>>

DeadlineExceeded(t) ==
  /\ pc[t] \in {"unwind", "raise"} /\ Unwound(t)
  /\ pc' = [pc EXCEPT ![t] = "idle"]
  /\ left' = [left EXCEPT ![t] = MaxRetries]
  /\ UNCHANGED <<req, graphLease, cacheLease, owner, nest>>

-----------------------------------------------------------------------------
(* A nested call with a current token yields the parent when the checks hold  *)
(* and otherwise raises without touching anything.                            *)
NestedAdmit(t, r) ==
  /\ pc[t] = "body"
  /\ Len(nest[t]) < MaxNesting
  /\ NestedAdmissible(Token(req[t]), r)
  /\ nest' = [nest EXCEPT ![t] = Append(@, r)]
  /\ UNCHANGED <<pc, req, left, graphLease, cacheLease, owner>>

NestedExit(t) ==
  /\ nest[t] # << >>
  /\ nest' = [nest EXCEPT ![t] = SubSeq(@, 1, Len(@) - 1)]
  /\ UNCHANGED <<pc, req, left, graphLease, cacheLease, owner>>

(* AdmissionLeaseOwner.transfer: refused once transferred or closed.          *)
Transfer(t) ==
  /\ pc[t] = "body"
  /\ owner[t] = "open"
  /\ owner' = [owner EXCEPT ![t] = "transferred"]
  /\ UNCHANGED <<pc, req, left, graphLease, cacheLease, nest>>

(* The end of the with-block: the token is reset, and the owner closed unless *)
(* it was transferred.                                                        *)
BodyExit(t) ==
  /\ pc[t] = "body"
  /\ nest[t] = << >>
  /\ pc' = [pc EXCEPT ![t] = "idle"]
  /\ owner' = [owner EXCEPT ![t] = IF @ = "open" THEN "closed" ELSE @]
  /\ UNCHANGED <<req, left, graphLease, cacheLease, nest>>

(* AdmissionLeaseOwner.close by the worker the lease was transferred to.      *)
ReceiverClose(t) ==
  /\ owner[t] = "transferred"
  /\ owner' = [owner EXCEPT ![t] = "closed"]
  /\ UNCHANGED <<pc, req, left, graphLease, cacheLease, nest>>

(* A process dies: the kernel drops its descriptors; its threads start anew.  *)
Crash(P) ==
  /\ pc' = [t \in Thread |-> IF t \in P THEN "idle" ELSE pc[t]]
  /\ graphLease' = [t \in Thread |-> IF t \in P THEN "none" ELSE graphLease[t]]
  /\ cacheLease' = [t \in Thread |-> IF t \in P THEN "none" ELSE cacheLease[t]]
  /\ owner' = [t \in Thread |-> IF t \in P THEN "none" ELSE owner[t]]
  /\ nest' = [t \in Thread |-> IF t \in P THEN << >> ELSE nest[t]]
  /\ UNCHANGED <<req, left>>

-----------------------------------------------------------------------------
(* The steps a thread takes on its own once it has called admit_operation.    *)
Attempt(t) ==
  \/ GraphGranted(t) \/ GraphContended(t)
  \/ CacheGranted(t) \/ CacheContended(t)
  \/ LockError(t)
  \/ ReleaseCache(t) \/ ReleaseGraph(t)
  \/ Retry(t) \/ DeadlineExceeded(t)

Next ==
  \/ \E t \in Thread :
       \/ \E r \in Requests : Request(t, r) \/ NestedAdmit(t, r)
       \/ Attempt(t)
       \/ NestedExit(t) \/ Transfer(t) \/ BodyExit(t) \/ ReceiverClose(t)
  \/ \E P \in Process : Crash(P)

Spec == Init /\ [][Next]_vars

(* No lease, no body and no crash is assumed to end: a thread that called     *)
(* admit_operation keeps running, and that is all.                            *)
FairSpec == Spec /\ \A t \in Thread : WF_vars(Attempt(t))

-----------------------------------------------------------------------------
TypeOK ==
  /\ pc \in [Thread -> Points]
  /\ req \in [Thread -> Requests]
  /\ left \in [Thread -> 0..MaxRetries]
  /\ graphLease \in [Thread -> Modes]
  /\ cacheLease \in [Thread -> Modes]
  /\ owner \in [Thread -> Owners]
  /\ nest \in [Thread -> Seq(Requests)]

(* A token stands for leases as long as nobody closed its owner.              *)
Live(t) == owner[t] \in {"open", "transferred"}

Covers(held, wanted) == wanted = "none" \/ held = "ex" \/ held = wanted

(* While the owner of an admission is open, with the caller or with the       *)
(* thread it was transferred to, exactly the leases of the request are held:  *)
(* no path through retry, unwinding, transfer or a crash drops one early.     *)
LiveTokenIsProtected ==
  \A t \in Thread : Live(t) =>
    /\ graphLease[t] = GraphMode(req[t])
    /\ cacheLease[t] = CacheMode(req[t])

(* A nested operation runs under leases at least as strong as the ones it     *)
(* asked for, and under the identity it stated.                               *)
NestedIsCovered ==
  \A t \in Thread : Live(t) => \A i \in 1..Len(nest[t]) :
    /\ Covers(graphLease[t], GraphMode(nest[t][i]))
    /\ Covers(cacheLease[t], CacheMode(nest[t][i]))
    /\ nest[t][i].identity \in {NoIdentity, req[t].identity}

(* Maintenance is alone: while a thread runs an operation that is exclusive   *)
(* on the graph (or the cache), itself or nested, no other live operation     *)
(* uses that store.                                                           *)
UsesGraph(t) == Live(t) /\ req[t].graph
UsesCache(t) == Live(t) /\ req[t].cache
Running(t)   == {req[t]} \cup {nest[t][i] : i \in 1..Len(nest[t])}

MaintenanceIsAlone ==
  \A t, u \in Thread : t # u /\ Live(t) =>
    \A r \in Running(t) :
      /\ GraphMode(r) = "ex" => ~UsesGraph(u)
      /\ CacheMode(r) = "ex" => ~UsesCache(u)

(* A thread that sleeps before its next attempt, or that has given up, holds  *)
(* nothing another process may be waiting for.                                *)
NoHoldAndWait ==
  \A t \in Thread :
    /\ pc[t] = "tryGraph" => Unwound(t)
    /\ pc[t] = "tryCache" => cacheLease[t] = "none"
    /\ pc[t] = "idle" /\ owner[t] = "none" => Unwound(t)

(* No lease is ever upgraded or downgraded in place.                          *)
NoLeaseUpgrade ==
  [][\A t \in Thread :
       /\ graphLease[t] # "none" => graphLease'[t] \in {"none", graphLease[t]}
       /\ cacheLease[t] # "none" => cacheLease'[t] \in {"none", cacheLease[t]}]_vars

(* Every call of admit_operation is decided, whatever the other threads do    *)
(* with their leases: it enters the body or it raises.                        *)
EveryAdmissionDecided ==
  \A t \in Thread :
    pc[t] \in {"tryGraph", "tryCache", "unwind", "raise"} ~> pc[t] \in {"body", "idle"}

-----------------------------------------------------------------------------
(* The two-step, retried, transferable admission implements an atomic one.    *)
Admitted(t) ==
  [s \in {"graph", "cache"} |->
     IF Live(t) THEN (IF s = "graph" THEN GraphMode(req[t]) ELSE CacheMode(req[t]))
                ELSE "none"]

Atomic == INSTANCE ReadersWriter WITH
            Op <- Thread, Store <- {"graph", "cache"},
            admitted <- [t \in Thread |-> Admitted(t)]

(* To every other operation, graph-then-cache admission looks like one step   *)
(* that takes both leases at once.                                            *)
AdmissionIsAtomic == Atomic!Spec
=============================================================================
