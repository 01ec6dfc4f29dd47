------------------------ MODULE SyncLifecycleProofs ------------------------
(***************************************************************************)
(* Proofs about SyncLifecycle: the state a worker uses outlives it, the    *)
(* provider never drops the reference to an embedding process it owns, the *)
(* ledger counts every turn once and a worker that reached the sentinel    *)
(* left none behind, for any number of host threads, cleanup threads,      *)
(* generations and turns and any queue and batch size.                     *)
(***************************************************************************)
EXTENDS SyncLifecycle, FiniteSetTheorems, TLAPS

-----------------------------------------------------------------------------
(* Where an actor may be.                                                    *)

\* initialize() before it made the worker visible: with no queue yet, and with one.
Opening == {"setup"}
Building == {"acquire", "acquired", "bind", "identity", "publish"}

\* initialize() until it published the worker or abandoned the generation.
Unsettled == Opening \cup Building \cup {"cancelled", "failed"}

\* shutdown() and the cleanup threads until they cleared the state.
Tearing == {"sentinel", "join", "schedule", "scheduled", "joining", "clear"}

Closing == {"close", "unscrub", "forget"}

Point == {"idle", "raised", "finally"} \cup Unsettled \cup Tearing \cup Closing

WorkerPoint ==
  {"none", "unstarted", "get", "empty", "fill", "next", "turn", "drained", "left"}

\* The thread inside initialize().
Initializer(a) ==
  \/ pc[a] \in Unsettled \cup {"finally"}
  \/ pc[a] \in Closing /\ local[a].queue = 0

-----------------------------------------------------------------------------
(* The inductive invariant.                                                  *)

Callback == [sup : Nat, mark : BOOLEAN]

Typed ==
  /\ initializing \in BOOLEAN /\ cancelled \in BOOLEAN /\ gate \in BOOLEAN
  /\ pending \in BOOLEAN
  /\ gen \in Nat /\ queueRef \in Nat /\ workerRef \in Nat /\ supRef \in Nat
  /\ worker.gen \in Nat /\ worker.at \in WorkerPoint
  /\ worker = [gen |-> worker.gen, at |-> worker.at, taken |-> worker.taken]
  /\ sup \in [gen : Nat, at : SupervisorAt]
  /\ callbacks \in Seq(Callback) /\ firing \in Seq(Callback)
  /\ pc \in [Actor -> Point]
  /\ local \in [Actor -> [worker : Nat, queue : Nat, sup : Nat, mark : BOOLEAN]]

\* The references name the current generation or nothing.
RefsKept ==
  /\ queueRef \in {0, gen} /\ workerRef \in {0, queueRef}
  /\ WorkerAlive => worker.gen = workerRef /\ workerRef # 0
  /\ queueRef # 0 /\ workerRef = 0 =>
       initializing /\ \E a \in Actor : pc[a] \in Unsettled
  /\ pending => workerRef # 0 /\ worker.at # "unstarted"

\* The reference to the embedding owner, and the callbacks on their way.
OwnerKept ==
  /\ sup.gen <= gen /\ supRef <= gen
  /\ sup.at # "released" => sup.gen # 0
  /\ sup.at \in Bound => supRef = sup.gen
  /\ sup.at \in Orphaned => supRef # sup.gen
  /\ \A i \in DOMAIN callbacks : callbacks[i].sup \in 1..sup.gen
  /\ \A i \in DOMAIN firing :
       /\ firing[i].sup \in 1..sup.gen
       /\ sup.at # "released" => firing[i].sup # sup.gen

\* The thread inside initialize().
InitializerKept(a) ==
  /\ Initializer(a) => initializing
  /\ pc[a] \in Opening => queueRef = 0
  /\ pc[a] \in Building => queueRef = gen /\ workerRef = 0 /\ (gate => cancelled)
  /\ pc[a] \in Opening \cup Building => gen # 0
  /\ pc[a] \in {"setup", "acquire", "acquired", "bind"} => sup.gen < gen /\ supRef # gen
  /\ pc[a] = "identity" => sup.gen = gen /\ sup.at = "open"
  /\ pc[a] = "cancelled" => workerRef = 0
  /\ pc[a] = "failed" => workerRef = 0 \/ worker.at = "unstarted"

\* A thread that shuts a generation down, as long as it is the current one.
TearingKept(a) ==
  /\ pc[a] \in Tearing => local[a].queue \in 1..gen
  /\ pc[a] \in Tearing /\ queueRef = local[a].queue =>
       /\ gate /\ workerRef # 0
       /\ pc[a] \in {"schedule", "joining"} => local[a].worker = queueRef
       /\ pc[a] \in {"schedule", "joining", "clear"} => worker.at # "unstarted"
       /\ pc[a] = "clear" => ~WorkerAlive

\* A thread that closes no embedding owner would drop any reference it finds.
ClosesNothing(a) == pc[a] = "close" /\ local[a].sup = 0

ClosingKept(a) ==
  /\ pc[a] = "close" => local[a].sup <= gen
  /\ pc[a] = "close" /\ sup.at \in Orphaned => local[a].sup # sup.gen
  /\ ClosesNothing(a) =>
       /\ sup.at \notin Bound /\ supRef = 0 /\ queueRef = 0
       /\ local[a].queue # 0 => gate

\* Two threads.
Apart(a, b) ==
  /\ ~(Initializer(a) /\ Initializer(b))
  /\ ClosesNothing(a) => pc[b] \notin Unsettled /\ ~ClosesNothing(b)
  /\ pc[a] = "close" /\ pc[b] \in Unsettled => local[a].sup # gen
  /\ pc[a] \in Tearing /\ pc[b] \in Opening => local[a].queue # gen

IInv ==
  /\ Typed /\ RefsKept /\ OwnerKept
  /\ \A a \in Actor : InitializerKept(a) /\ TearingKept(a) /\ ClosingKept(a)
  /\ \A a, b \in Actor : a # b => Apart(a, b)
-----------------------------------------------------------------------------
(* Sequences of callbacks.                                                   *)

LEMMA AppendElements ==
  ASSUME NEW S, NEW s \in Seq(S), NEW x \in S
  PROVE  /\ Append(s, x) \in Seq(S)
         /\ \A i \in DOMAIN Append(s, x) :
              Append(s, x)[i] = x \/ \E j \in DOMAIN s : Append(s, x)[i] = s[j]
  OBVIOUS

LEMMA ConcatElements ==
  ASSUME NEW S, NEW s \in Seq(S), NEW t \in Seq(S)
  PROVE  /\ s \o t \in Seq(S)
         /\ \A i \in DOMAIN (s \o t) :
              \/ \E j \in DOMAIN s : (s \o t)[i] = s[j]
              \/ \E j \in DOMAIN t : (s \o t)[i] = t[j]
<1>1. s \o t \in Seq(S) OBVIOUS
<1>2. ASSUME NEW i \in DOMAIN (s \o t)
      PROVE  \/ \E j \in DOMAIN s : (s \o t)[i] = s[j]
             \/ \E j \in DOMAIN t : (s \o t)[i] = t[j]
  <2>1. i \in 1..(Len(s) + Len(t)) BY <1>2
  <2>2. CASE i <= Len(s) BY <2>1, <2>2
  <2>3. CASE i > Len(s)
    <3>1. i - Len(s) \in DOMAIN t /\ (s \o t)[i] = t[i - Len(s)] BY <2>1, <2>3
    <3> QED BY <3>1
  <2> QED BY <2>1, <2>2, <2>3
<1> QED BY <1>1, <1>2

LEMMA RemoveAtElements ==
  ASSUME NEW S, NEW s \in Seq(S), NEW n \in DOMAIN s
  PROVE  /\ RemoveAt(s, n) \in Seq(S)
         /\ \A i \in DOMAIN RemoveAt(s, n) : \E j \in DOMAIN s : RemoveAt(s, n)[i] = s[j]
<1> DEFINE u == SubSeq(s, 1, n - 1)
           v == SubSeq(s, n + 1, Len(s))
<1>1. u \in Seq(S) /\ \A i \in DOMAIN u : \E j \in DOMAIN s : u[i] = s[j]
  <2>1. n - 1 \in 0..Len(s) OBVIOUS
  <2>2. u \in Seq(S) /\ Len(u) = n - 1 /\ \A i \in 1..(n - 1) : u[i] = s[i] BY <2>1
  <2>3. ASSUME NEW i \in DOMAIN u PROVE u[i] = s[i] /\ i \in DOMAIN s
    BY <2>1, <2>2, <2>3
  <2> HIDE DEF u
  <2> QED BY <2>2, <2>3
<1>2. v \in Seq(S) /\ \A i \in DOMAIN v : \E j \in DOMAIN s : v[i] = s[j]
  <2>1. v \in Seq(S) /\ Len(v) = Len(s) - n /\ \A i \in 1..(Len(s) - n) : v[i] = s[n + i]
    OBVIOUS
  <2>2. ASSUME NEW i \in DOMAIN v PROVE v[i] = s[n + i] /\ n + i \in DOMAIN s
    BY <2>1, <2>2
  <2> QED BY <2>1, <2>2
<1>3. RemoveAt(s, n) = u \o v BY DEF RemoveAt
<1> HIDE DEF u, v
<1> QED BY <1>1, <1>2, <1>3, ConcatElements

-----------------------------------------------------------------------------
(* Frames.                                                                   *)

Locals == [worker : Nat, queue : Nat, sup : Nat, mark : BOOLEAN]

\* What a step of actor a to l with locals w does to the actors.
Moves(a, l, w) ==
  pc' = [pc EXCEPT ![a] = l] /\ local' = [local EXCEPT ![a] = w]

LEMMA Moved ==
  ASSUME Typed, NEW a \in Actor, NEW l \in Point, NEW w \in Locals, Moves(a, l, w)
  PROVE  /\ pc' \in [Actor -> Point] /\ local' \in [Actor -> Locals]
         /\ pc'[a] = l /\ local'[a] = w
         /\ \A b \in Actor \ {a} : pc'[b] = pc[b] /\ local'[b] = local[b]
  BY DEF Typed, Moves, Locals

\* The invariant's view of the shared state.
shared == <<initializing, cancelled, gate, gen, queueRef, workerRef, worker, supRef, sup,
            callbacks, firing>>

\* A step of one actor that leaves the shared state alone, closes nothing and
\* does not begin to initialize.
LEMMA ActorMoves ==
  ASSUME IInv, NEW a \in Actor, NEW l \in Point, NEW w \in Locals, Moves(a, l, w),
         UNCHANGED shared, pending' \in BOOLEAN,
         ~pending => ~pending' \/ (workerRef # 0 /\ worker.at # "unstarted"),
         Initializer(a)' => Initializer(a),
         l \in Unsettled <=> pc[a] \in Unsettled,
         l \notin {"setup", "close"},
         l \in Tearing => \/ pc[a] \in Tearing /\ w.queue = local[a].queue
                          \/ queueRef # 0 /\ w.queue = queueRef,
         InitializerKept(a)', TearingKept(a)'
  PROVE  IInv'
<1>0. Typed /\ RefsKept /\ OwnerKept BY DEF IInv
<1>1. /\ pc' \in [Actor -> Point] /\ local' \in [Actor -> Locals]
      /\ pc'[a] = l /\ local'[a] = w
      /\ \A b \in Actor \ {a} : pc'[b] = pc[b] /\ local'[b] = local[b]
  BY <1>0, Moved
<1>2. Typed' BY <1>0, <1>1 DEF Typed, shared, Locals
<1>3. RefsKept'
  <2>1. (\E b \in Actor : pc[b] \in Unsettled) => \E b \in Actor : pc'[b] \in Unsettled
    BY <1>1
  <2> QED BY <1>0, <2>1 DEF RefsKept, shared, WorkerAlive
<1>4. OwnerKept' BY <1>0 DEF OwnerKept, shared
<1>5. ASSUME NEW b \in Actor PROVE InitializerKept(b)' /\ TearingKept(b)' /\ ClosingKept(b)'
  <2>1. CASE b = a
    BY <1>1, <2>1 DEF ClosingKept, ClosesNothing
  <2>2. CASE b # a
    <3>1. pc'[b] = pc[b] /\ local'[b] = local[b] BY <1>1, <2>2
    <3>2. InitializerKept(b) /\ TearingKept(b) /\ ClosingKept(b) BY DEF IInv
    <3> QED BY <3>1, <3>2 DEF InitializerKept, TearingKept, ClosingKept, ClosesNothing,
               Initializer, shared, WorkerAlive
  <2> QED BY <2>1, <2>2
<1>6. ASSUME NEW b \in Actor, NEW c \in Actor, b # c PROVE Apart(b, c)'
  <2>1. Apart(b, c) /\ InitializerKept(b) /\ InitializerKept(c) BY <1>6 DEF IInv
  <2>2. Initializer(b)' => Initializer(b)
    BY <1>1 DEF Initializer
  <2>3. Initializer(c)' => Initializer(c)
    BY <1>1 DEF Initializer
  <2>4. /\ pc'[c] \in Unsettled => pc[c] \in Unsettled
        /\ pc'[c] \in Opening => pc[c] \in Opening
    BY <1>1 DEF Opening
  <2>5. /\ ClosesNothing(b)' => ClosesNothing(b)
        /\ ClosesNothing(c)' => ClosesNothing(c)
        /\ pc'[b] = "close" => pc[b] = "close" /\ local'[b] = local[b]
    BY <1>1 DEF ClosesNothing
  <2>6. pc'[b] \in Tearing /\ pc[c] \in Opening => local'[b].queue # gen
    <3>1. CASE b = a
      BY <1>1, <2>1, <3>1 DEF Apart, InitializerKept
    <3>2. CASE b # a
      BY <1>1, <2>1, <3>2 DEF Apart
    <3> QED BY <3>1, <3>2
  <2> QED BY <2>1, <2>2, <2>3, <2>4, <2>5, <2>6 DEF Apart, shared
<1> QED BY <1>2, <1>3, <1>4, <1>5, <1>6 DEF IInv

\* A step of a producer, or of nobody.
LEMMA NothingMoves ==
  ASSUME IInv, UNCHANGED shared, UNCHANGED <<pending, pc, local>>
  PROVE  IInv'
<1>1. Typed' BY DEF IInv, Typed, shared
<1>2. RefsKept' BY DEF IInv, RefsKept, shared, WorkerAlive
<1>3. OwnerKept' BY DEF IInv, OwnerKept, shared
<1>4. ASSUME NEW a \in Actor PROVE InitializerKept(a)' /\ TearingKept(a)' /\ ClosingKept(a)'
  <2>1. InitializerKept(a) /\ TearingKept(a) /\ ClosingKept(a) BY DEF IInv
  <2> QED BY <2>1 DEF InitializerKept, TearingKept, ClosingKept, ClosesNothing, Initializer,
             shared, WorkerAlive
<1>5. ASSUME NEW a \in Actor, NEW b \in Actor, a # b PROVE Apart(a, b)'
  <2>1. Apart(a, b) BY <1>5 DEF IInv
  <2> QED BY <2>1 DEF Apart, Initializer, ClosesNothing, shared
<1> QED BY <1>1, <1>2, <1>3, <1>4, <1>5 DEF IInv

\* A step of the running worker, which keeps its generation.
LEMMA WorkMoves ==
  ASSUME IInv,
         UNCHANGED <<initializing, cancelled, gate, gen, queueRef, workerRef, pending,
                     supRef, sup, callbacks, firing, pc, local>>,
         NEW p \in WorkerPoint, NEW t,
         worker' = [gen |-> worker.gen, at |-> p, taken |-> t],
         WorkerAlive, p # "unstarted"
  PROVE  IInv'
<1>0. Typed /\ RefsKept /\ OwnerKept BY DEF IInv
<1>1. Typed' BY <1>0 DEF Typed
<1>2. RefsKept' BY <1>0 DEF RefsKept
<1>3. OwnerKept' BY <1>0 DEF OwnerKept
<1>4. ASSUME NEW a \in Actor PROVE InitializerKept(a)' /\ TearingKept(a)' /\ ClosingKept(a)'
  <2>1. InitializerKept(a) /\ TearingKept(a) /\ ClosingKept(a) BY DEF IInv
  <2>2. InitializerKept(a)'
    BY <1>0, <2>1 DEF InitializerKept, Initializer, RefsKept, WorkerAlive
  <2>3. TearingKept(a)' BY <2>1 DEF TearingKept
  <2>4. ClosingKept(a)' BY <2>1 DEF ClosingKept, ClosesNothing
  <2> QED BY <2>2, <2>3, <2>4
<1>5. ASSUME NEW a \in Actor, NEW b \in Actor, a # b PROVE Apart(a, b)'
  <2>1. Apart(a, b) BY <1>5 DEF IInv
  <2> QED BY <2>1 DEF Apart, Initializer, ClosesNothing
<1> QED BY <1>1, <1>2, <1>3, <1>4, <1>5 DEF IInv

-----------------------------------------------------------------------------
(* Steps of one actor.                                                       *)

LEMMA ActorTyped ==
  ASSUME IInv, NEW a \in Actor
  PROVE  /\ local[a] \in Locals /\ pc[a] \in Point /\ NoLocals \in Locals
         /\ local = [local EXCEPT ![a] = local[a]]
         /\ pending \in BOOLEAN
  BY DEF IInv, Typed, Locals, NoLocals

\* initialize() goes on with the queue it made.
LEMMA BuildingMoves ==
  ASSUME IInv, NEW a \in Actor, pc[a] \in Building,
         NEW l \in {"acquired", "bind", "publish", "cancelled", "failed"},
         Go(a, l), UNCHANGED local,
         l \in {"acquired", "bind"} => pc[a] \in {"acquire", "acquired"},
         UNCHANGED shared, UNCHANGED <<pending, queue>>
  PROVE  IInv'
<1>1. /\ local[a] \in Locals /\ local = [local EXCEPT ![a] = local[a]]
      /\ pending \in BOOLEAN /\ Typed
  BY ActorTyped DEF IInv
<1>2. Moves(a, l, local[a]) BY <1>1 DEF Moves, Go
<1>3. /\ l \in Point /\ l \in Unsettled /\ l \notin Opening \cup Tearing \cup {"setup", "close"}
      /\ l # "identity" /\ pc[a] \in Unsettled
  BY DEF Point, Unsettled, Building, Tearing, Opening
<1>4. pc'[a] = l /\ local'[a] = local[a] BY <1>1, <1>2, <1>3, Moved
<1>5. Initializer(a) /\ InitializerKept(a) BY <1>3 DEF Initializer, IInv
<1>6. InitializerKept(a)'
  BY <1>3, <1>4, <1>5 DEF InitializerKept, shared, Initializer, Building
<1>7. TearingKept(a)' BY <1>3, <1>4 DEF TearingKept
<1> QED BY <1>1, <1>2, <1>3, <1>4, <1>5, <1>6, <1>7, ActorMoves

LEMMA InitScrubStep ==
  ASSUME IInv, NEW a \in Actor, InitAcquireScrub(a) \/ InitHoldScrub(a)
  PROVE  IInv'
<1>1. CASE InitAcquireScrub(a)
  BY <1>1, BuildingMoves DEF InitAcquireScrub, Building, life, work, close, shared
<1>2. CASE InitHoldScrub(a)
  BY <1>2, BuildingMoves DEF InitHoldScrub, Building, life, work, close, shared
<1> QED BY <1>1, <1>2

LEMMA InitGoesOnStep ==
  ASSUME IInv, NEW a \in Actor,
         InitReadOnly(a) \/ InitReady(a) \/ InitCancelled(a) \/ InitFails(a)
  PROVE  IInv'
<1>1. CASE InitReadOnly(a)
  BY <1>1, BuildingMoves DEF InitReadOnly, Building, life, work, close, shared
<1>2. CASE InitReady(a)
  BY <1>2, BuildingMoves DEF InitReady, Building, life, work, close, shared
<1>3. CASE InitCancelled(a)
  BY <1>3, BuildingMoves DEF InitCancelled, Building, life, work, close, shared
<1>4. CASE InitFails(a)
  BY <1>4, BuildingMoves DEF InitFails, Building, life, work, close, shared
<1> QED BY <1>1, <1>2, <1>3, <1>4

\* shutdown() or a cleanup thread goes on.
LEMMA TearingMoves ==
  ASSUME IInv, NEW a \in Actor, pc[a] \in Tearing,
         NEW l \in Tearing, NEW w \in Locals, Moves(a, l, w), w.queue = local[a].queue,
         UNCHANGED shared, pending' \in BOOLEAN,
         ~pending => ~pending' \/ (workerRef # 0 /\ worker.at # "unstarted"),
         queueRef = w.queue =>
           /\ l \in {"schedule", "joining"} => w.worker = queueRef
           /\ l \in {"schedule", "joining", "clear"} => worker.at # "unstarted"
           /\ l = "clear" => ~WorkerAlive
  PROVE  IInv'
<1>1. Typed /\ TearingKept(a) BY DEF IInv
<1>2. l \in Point /\ l \notin Unsettled \cup {"setup", "close", "finally"} \cup Closing
      /\ pc[a] \notin Unsettled
  BY DEF Point, Unsettled, Building, Tearing, Opening, Closing
<1>3. pc'[a] = l /\ local'[a] = w BY <1>1, <1>2, Moved
<1>4. ~Initializer(a)' BY <1>2, <1>3 DEF Initializer
<1>5. InitializerKept(a)' BY <1>2, <1>3, <1>4 DEF InitializerKept, Unsettled, Building, Opening
<1>6. TearingKept(a)' BY <1>1, <1>3 DEF TearingKept, shared, WorkerAlive
<1> QED BY <1>1, <1>2, <1>3, <1>4, <1>5, <1>6, ActorMoves

\* An actor that shuts nothing down any more returns.
LEMMA ActorReturns ==
  ASSUME IInv, NEW a \in Actor, pc[a] \notin Unsettled,
         NEW l \in {"idle", "raised"}, NEW w \in Locals, Moves(a, l, w),
         UNCHANGED shared, pending' \in BOOLEAN, pending' => pending, UNCHANGED queue
  PROVE  IInv'
<1>1. Typed BY DEF IInv, Typed
<1>2. l \in Point /\ l \notin Unsettled \cup {"setup", "close", "finally"} \cup Closing \cup Tearing
  BY DEF Point, Unsettled, Building, Tearing, Opening, Closing
<1>3. pc'[a] = l /\ local'[a] = w BY <1>1, <1>2, Moved
<1>4. ~Initializer(a)' BY <1>2, <1>3 DEF Initializer
<1>5. InitializerKept(a)' BY <1>2, <1>3, <1>4 DEF InitializerKept, Unsettled, Building, Opening
<1>6. TearingKept(a)' BY <1>2, <1>3 DEF TearingKept
<1> QED BY <1>1, <1>2, <1>3, <1>4, <1>5, <1>6, ActorMoves

LEMMA SentinelStep ==
  ASSUME IInv, NEW a \in Actor, PostSentinel(a) \/ SentinelTimesOut(a)
  PROVE  IInv'
<1>0. /\ local[a] \in Locals /\ local = [local EXCEPT ![a] = local[a]]
      /\ pending \in BOOLEAN
  BY ActorTyped
<1>1. /\ pc[a] = "sentinel" /\ Moves(a, "join", local[a]) /\ UNCHANGED shared
      /\ UNCHANGED pending
  BY <1>0 DEF PostSentinel, SentinelTimesOut, Moves, Go, shared, life, work, close
<1>2. "join" \in Tearing \ {"schedule", "joining", "clear"} /\ "sentinel" \in Tearing
  BY DEF Tearing
<1> QED BY <1>0, <1>1, <1>2, TearingMoves

\* The bounded join: the worker it saw is the current one's, or the generation is
\* over.
LEMMA JoinStep ==
  ASSUME IInv, NEW a \in Actor, JoinReturns(a) \/ JoinRaises(a)
  PROVE  IInv'
<1>0. /\ local[a] \in Locals /\ NoLocals \in Locals /\ pc[a] = "join"
      /\ pending \in BOOLEAN /\ Typed /\ RefsKept /\ TearingKept(a)
  BY ActorTyped DEF IInv, JoinReturns, JoinRaises
<1>1. CASE JoinReturns(a)
  <2> DEFINE w == [local[a] EXCEPT !.worker = workerRef]
  <2>1. w \in Locals /\ w.queue = local[a].queue BY <1>0 DEF Locals, Typed
  <2>2. Moves(a, "clear", w) /\ UNCHANGED shared /\ UNCHANGED <<pending, queue>>
    BY <1>0, <1>1 DEF JoinReturns, Moves, Go, shared, life, work, close, Typed
  <2>3. "clear" \in Tearing /\ "join" \in Tearing BY DEF Tearing
  <2>4. queueRef = w.queue => worker.at # "unstarted" /\ ~WorkerAlive
    BY <1>0, <1>1, <2>1, <2>3 DEF JoinReturns, TearingKept, RefsKept, Alive
  <2> HIDE DEF w
  <2> QED BY <1>0, <2>1, <2>2, <2>3, <2>4, TearingMoves
<1>2. CASE JoinRaises(a)
  <2>1. Moves(a, "raised", NoLocals) /\ UNCHANGED shared /\ UNCHANGED <<pending, queue>>
    BY <1>2 DEF JoinRaises, Moves, Go, shared, life, work, close
  <2>2. pc[a] \notin Unsettled BY <1>0 DEF Unsettled, Opening, Building
  <2> QED BY <1>0, <2>1, <2>2, ActorReturns
<1> QED BY <1>1, <1>2

LEMMA JoinTimesOutStep ==
  ASSUME IInv, NEW a \in Actor, JoinTimesOut(a)
  PROVE  IInv'
<1> DEFINE w == [local[a] EXCEPT !.worker = workerRef]
<1>0. /\ local[a] \in Locals /\ pc[a] = "join" /\ Alive(workerRef)
      /\ Typed /\ RefsKept /\ TearingKept(a)
  BY ActorTyped DEF IInv, JoinTimesOut
<1>1. w \in Locals /\ w.queue = local[a].queue /\ w.worker = workerRef
  BY <1>0 DEF Locals, Typed
<1>2. Moves(a, "schedule", w) /\ UNCHANGED shared /\ UNCHANGED queue /\ pending' = TRUE
  BY <1>0 DEF JoinTimesOut, Moves, Go, shared, work, close, Typed
<1>3. /\ "schedule" \in Tearing /\ "join" \in Tearing
      /\ "schedule" # "joining" /\ "schedule" # "clear"
  BY DEF Tearing
<1>4. workerRef # 0 /\ worker.at # "unstarted" BY <1>0 DEF Alive, WorkerAlive
<1>5. workerRef = queueRef BY <1>0, <1>4 DEF RefsKept
<1> HIDE DEF w
<1> QED BY <1>0, <1>1, <1>2, <1>3, <1>4, <1>5, TearingMoves

\* _schedule_shutdown_cleanup without a thread to start, and the unbounded join.
LEMMA UnneededStep ==
  ASSUME IInv, NEW a \in Actor, ScheduleNotNeeded(a) \/ CleanerJoins(a)
  PROVE  IInv'
<1>0. /\ local[a] \in Locals /\ local = [local EXCEPT ![a] = local[a]]
      /\ pending \in BOOLEAN /\ RefsKept /\ TearingKept(a)
  BY ActorTyped DEF IInv
<1>1. /\ pc[a] \in {"schedule", "joining"} /\ ~Alive(local[a].worker)
      /\ Moves(a, "clear", local[a]) /\ UNCHANGED shared /\ UNCHANGED <<pending, queue>>
  BY <1>0 DEF ScheduleNotNeeded, CleanerJoins, Moves, Go, shared, life, work, close
<1>2. "clear" \in Tearing /\ pc[a] \in Tearing BY <1>1 DEF Tearing
<1>3. queueRef = local[a].queue => worker.at # "unstarted" /\ ~WorkerAlive
  BY <1>0, <1>1, <1>2 DEF TearingKept, RefsKept, Alive
<1> QED BY <1>0, <1>1, <1>2, <1>3, TearingMoves

LEMMA GivesUpStep ==
  ASSUME IInv, NEW a \in Actor, ScheduleFails(a) \/ Scheduled(a) \/ ClearStale(a)
  PROVE  IInv'
<1>0. NoLocals \in Locals /\ pending \in BOOLEAN BY ActorTyped
<1>1. /\ pc[a] \in {"schedule", "scheduled", "clear"} /\ Moves(a, "idle", NoLocals)
      /\ UNCHANGED shared /\ UNCHANGED queue /\ (pending' = pending \/ pending' = FALSE)
  BY DEF ScheduleFails, Scheduled, ClearStale, Return, Moves, Go, shared, life, work, close
<1>2. pc[a] \notin Unsettled BY <1>1 DEF Unsettled, Opening, Building
<1>3. pending' \in BOOLEAN /\ (pending' => pending)
  <2>1. CASE pending' = pending BY <1>0, <2>1
  <2>2. CASE pending' = FALSE BY <2>2
  <2> QED BY <1>1, <2>1, <2>2
<1> QED BY <1>0, <1>1, <1>2, <1>3, ActorReturns

\* A later shutdown() finds a worker that was started.
LEMMA ShutdownRetryStep ==
  ASSUME IInv, NEW a \in Actor, ShutdownRetry(a)
  PROVE  IInv'
<1> DEFINE w == [NoLocals EXCEPT !.queue = queueRef, !.worker = workerRef]
           l == "schedule"
<1>0. Typed /\ RefsKept /\ pending \in BOOLEAN
      /\ pc[a] = "idle"
  BY DEF IInv, Typed, ShutdownRetry
<1>1. w \in Locals /\ w.queue = queueRef /\ w.worker = workerRef
  BY <1>0 DEF Typed, Locals, NoLocals
<1>2. Moves(a, l, w) /\ UNCHANGED shared /\ UNCHANGED <<pending, queue>>
  BY DEF ShutdownRetry, Moves, Go, shared, life, work, close
<1>3. /\ l \in Point /\ l \in Tearing /\ l \notin {"clear", "setup", "close", "finally"}
      /\ l \notin Unsettled \cup Closing /\ pc[a] \notin Unsettled
  BY <1>0 DEF Point, Unsettled, Building, Tearing, Opening, Closing
<1>4. queueRef # 0 /\ queueRef = gen /\ workerRef = queueRef /\ worker.at # "unstarted" /\ gate
  BY <1>0 DEF ShutdownRetry, RefsKept
<1> HIDE DEF w, l
<1>5. pc'[a] = l /\ local'[a] = w BY <1>0, <1>1, <1>2, <1>3, Moved
<1>6. ~Initializer(a)' BY <1>3, <1>5 DEF Initializer
<1>7. InitializerKept(a)' BY <1>3, <1>5, <1>6 DEF InitializerKept, Unsettled, Building, Opening
<1>8. local'[a].queue \in 1..gen BY <1>0, <1>1, <1>4, <1>5 DEF Typed
<1>9. TearingKept(a)' BY <1>1, <1>2, <1>3, <1>4, <1>5, <1>8 DEF TearingKept, shared
<1> QED BY <1>0, <1>1, <1>2, <1>3, <1>4, <1>6, <1>7, <1>9, ActorMoves

\* The log boundary: an initializer goes on to its finalizer, anyone else returns.
LEMMA ScrubStep ==
  ASSUME IInv, NEW a \in Actor, ReleaseScrub(a) \/ ForgetScrub(a)
  PROVE  IInv'
<1>0. /\ local[a] \in Locals /\ NoLocals \in Locals /\ local = [local EXCEPT ![a] = local[a]]
      /\ pending \in BOOLEAN /\ Typed /\ InitializerKept(a)
  BY ActorTyped DEF IInv
<1>1. /\ pc[a] \in {"unscrub", "forget"} /\ UNCHANGED shared /\ UNCHANGED <<pending, queue>>
      /\ \/ Moves(a, "forget", local[a])
         \/ Moves(a, "finally", local[a]) /\ local[a].queue = 0
         \/ Moves(a, "idle", NoLocals)
  BY <1>0 DEF ReleaseScrub, ForgetScrub, AfterScrub, Return, Moves, Go, shared, life, work,
              close
<1>2. pc[a] \notin Unsettled /\ pc[a] \in Closing
  BY <1>1 DEF Unsettled, Opening, Building, Closing
<1>3. CASE Moves(a, "idle", NoLocals) BY <1>0, <1>1, <1>2, <1>3, ActorReturns
<1>4. ASSUME NEW l \in {"forget", "finally"}, Moves(a, l, local[a]),
             l = "finally" => local[a].queue = 0
      PROVE  IInv'
  <2>1. /\ l \in Point /\ l \notin Unsettled \cup Tearing \cup {"setup", "close"}
        /\ "finally" \notin Closing
    BY <1>4 DEF Point, Unsettled, Building, Tearing, Opening, Closing
  <2>2. pc'[a] = l /\ local'[a] = local[a] BY <1>0, <1>4, <2>1, Moved
  <2>3. Initializer(a)' => Initializer(a)
    BY <1>2, <1>4, <2>1, <2>2 DEF Initializer
  <2>4. InitializerKept(a)'
    BY <1>0, <1>1, <2>1, <2>2, <2>3 DEF InitializerKept, Unsettled, Building, Opening, shared
  <2>5. TearingKept(a)' BY <2>1, <2>2 DEF TearingKept
  <2> QED BY <1>0, <1>1, <1>2, <1>4, <2>1, <2>2, <2>3, <2>4, <2>5, ActorMoves
<1> QED BY <1>1, <1>3, <1>4

-----------------------------------------------------------------------------
(* Steps of an actor that change the shared state.                           *)

\* What the parts of the invariant say of the other actors follows one by one.
LEMMA Gathered ==
  ASSUME Typed', RefsKept', OwnerKept',
         \A a \in Actor : InitializerKept(a)' /\ TearingKept(a)' /\ ClosingKept(a)',
         \A a, b \in Actor : a # b => Apart(a, b)'
  PROVE  IInv'
  BY DEF IInv

\* initialize() begins when no generation is left and the gate is open: nobody is
\* inside it, and nobody is about to close nothing.
LEMMA InitClaimStep ==
  ASSUME IInv, NEW a \in Actor, InitClaim(a)
  PROVE  IInv'
<1> DEFINE l == "setup"
<1>0. /\ Typed /\ RefsKept /\ OwnerKept
      /\ \A b \in Actor : InitializerKept(b) /\ TearingKept(b) /\ ClosingKept(b)
      /\ local[a] \in Locals /\ local = [local EXCEPT ![a] = local[a]]
  BY ActorTyped DEF IInv
<1>1. /\ pc[a] = "idle" /\ ~initializing /\ queueRef = 0 /\ ~gate
      /\ initializing' = TRUE /\ cancelled' = FALSE /\ gen' = gen + 1
      /\ UNCHANGED <<gate, queueRef, workerRef, pending, queue, worker, supRef, sup,
                     callbacks, firing, local>>
      /\ pc' = [pc EXCEPT ![a] = l]
  BY DEF InitClaim, Go, close
<1>2. l \in Point /\ l \in Unsettled /\ l \in Opening
      /\ l \notin Building \cup Tearing \cup Closing
      /\ l \notin {"finally", "close", "identity", "cancelled", "failed"}
  BY DEF Point, Unsettled, Building, Tearing, Opening, Closing
<1>3. /\ pc' \in [Actor -> Point] /\ local' \in [Actor -> Locals]
      /\ pc'[a] = l
      /\ \A b \in Actor \ {a} : pc'[b] = pc[b] /\ local'[b] = local[b]
  BY <1>0, <1>1, <1>2, Moved DEF Moves
<1>4. workerRef = 0 /\ ~WorkerAlive /\ ~pending
  BY <1>0, <1>1 DEF RefsKept
<1>5. \A b \in Actor : ~Initializer(b)
  BY <1>0, <1>1 DEF InitializerKept
<1>6. \A b \in Actor : ~ClosesNothing(b)
  BY <1>0, <1>1, <1>5 DEF ClosingKept, ClosesNothing, Initializer, Closing
<1> HIDE DEF l
<1>7. gen \in Nat /\ gen' \in Nat /\ gen < gen' /\ gen' # 0 BY <1>0, <1>1 DEF Typed
<1>8. Typed' BY <1>0, <1>1, <1>3, <1>7 DEF Typed, Locals
<1>9. RefsKept' BY <1>1, <1>4 DEF RefsKept, WorkerAlive
<1>10. sup.gen \in Nat /\ supRef \in Nat /\ sup.gen <= gen /\ supRef <= gen BY <1>0 DEF Typed, OwnerKept
<1>11. OwnerKept' BY <1>0, <1>1, <1>7, <1>10 DEF OwnerKept
<1>12. ASSUME NEW b \in Actor PROVE InitializerKept(b)' /\ TearingKept(b)' /\ ClosingKept(b)'
  <2>1. CASE b = a
    BY <1>1, <1>2, <1>3, <1>7, <1>10, <2>1
    DEF InitializerKept, TearingKept, ClosingKept, ClosesNothing
  <2>2. CASE b # a
    <3>1. pc'[b] = pc[b] /\ local'[b] = local[b] BY <1>3, <2>2
    <3>2. pc[b] \notin Unsettled /\ ~Initializer(b)' /\ ~ClosesNothing(b)'
      BY <1>5, <1>6, <3>1 DEF Initializer, ClosesNothing
    <3>3. InitializerKept(b)' BY <3>1, <3>2 DEF InitializerKept, Unsettled, Opening, Building
    <3>4. TearingKept(b)'
      BY <1>0, <1>1, <1>7, <3>1 DEF TearingKept
    <3>5. local[b].sup \in Nat BY <1>0 DEF Typed
    <3>6. ClosingKept(b)' BY <1>0, <1>1, <1>7, <3>1, <3>2, <3>5 DEF ClosingKept
    <3> QED BY <3>3, <3>4, <3>6
  <2> QED BY <2>1, <2>2
<1>13. ASSUME NEW b \in Actor, NEW c \in Actor, b # c PROVE Apart(b, c)'
  <2>1. Initializer(b)' => b = a BY <1>3, <1>5 DEF Initializer
  <2>2. Initializer(c)' => c = a BY <1>3, <1>5 DEF Initializer
  <2>3. ~ClosesNothing(b)' BY <1>2, <1>3, <1>6 DEF ClosesNothing
  <2>4. pc'[b] = "close" => local'[b].sup # gen'
    <3>1. CASE b = a BY <1>2, <1>3, <3>1
    <3>2. CASE b # a
      <4>1. local[b].sup \in Nat /\ pc'[b] = pc[b] /\ local'[b] = local[b]
        BY <1>0, <1>3, <3>2 DEF Typed
      <4>2. pc[b] = "close" => local[b].sup <= gen BY <1>0 DEF ClosingKept
      <4> QED BY <1>7, <4>1, <4>2
    <3> QED BY <3>1, <3>2
  <2>5. pc'[b] \in Tearing => local'[b].queue # gen'
    <3>1. CASE b = a BY <1>2, <1>3, <3>1
    <3>2. CASE b # a
      <4>1. pc'[b] = pc[b] /\ local'[b] = local[b] BY <1>3, <3>2
      <4> QED BY <1>0, <1>7, <4>1 DEF TearingKept
    <3> QED BY <3>1, <3>2
  <2> QED BY <1>13, <2>1, <2>2, <2>3, <2>4, <2>5 DEF Apart
<1> QED BY <1>8, <1>9, <1>11, <1>12, <1>13, Gathered

\* The new queue belongs to nobody who is shutting an older one down.
LEMMA InitSetupStep ==
  ASSUME IInv, NEW a \in Actor, InitSetup(a)
  PROVE  IInv'
<1> DEFINE l == "acquire"
<1>0. /\ Typed /\ RefsKept /\ OwnerKept
      /\ \A b \in Actor : InitializerKept(b) /\ TearingKept(b) /\ ClosingKept(b)
      /\ \A b, c \in Actor : b # c => Apart(b, c)
      /\ local[a] \in Locals /\ local = [local EXCEPT ![a] = local[a]]
  BY ActorTyped DEF IInv
<1>1. /\ pc[a] = "setup" /\ queueRef' = gen /\ queue' = <<>> /\ gate' = FALSE
      /\ UNCHANGED <<initializing, cancelled, gen, workerRef, pending, worker, supRef, sup,
                     callbacks, firing, local>>
      /\ pc' = [pc EXCEPT ![a] = l]
  BY DEF InitSetup, Go, close
<1>2. /\ l \in Point /\ l \in Unsettled /\ l \in Building /\ l = "acquire"
      /\ l \notin Opening \cup Tearing \cup Closing
      /\ l \notin {"finally", "close", "identity", "cancelled", "failed"}
  BY DEF Point, Unsettled, Building, Tearing, Opening, Closing
<1>3. /\ pc' \in [Actor -> Point] /\ local' \in [Actor -> Locals]
      /\ pc'[a] = l
      /\ \A b \in Actor \ {a} : pc'[b] = pc[b] /\ local'[b] = local[b]
  BY <1>0, <1>1, <1>2, Moved DEF Moves
<1>4. /\ pc[a] \in Opening /\ pc[a] \in Unsettled /\ Initializer(a)
      /\ initializing /\ queueRef = 0 /\ gen # 0 /\ sup.gen < gen /\ supRef # gen
  BY <1>0, <1>1 DEF Opening, Unsettled, Initializer, InitializerKept
<1>5. workerRef = 0 /\ ~WorkerAlive /\ ~pending BY <1>0, <1>4 DEF RefsKept
<1> HIDE DEF l
<1>7. Typed' BY <1>0, <1>1, <1>3 DEF Typed, Locals
<1>8. RefsKept' BY <1>1, <1>2, <1>3, <1>4, <1>5 DEF RefsKept, WorkerAlive
<1>9. OwnerKept' BY <1>0, <1>1 DEF OwnerKept
<1>10. ASSUME NEW b \in Actor, b # a
       PROVE  /\ pc'[b] = pc[b] /\ local'[b] = local[b]
              /\ pc[b] \notin Unsettled /\ ~Initializer(b)' /\ ~ClosesNothing(b)'
              /\ pc[b] \in Tearing => local[b].queue # gen
  <2>1. Apart(a, b) /\ Apart(b, a) BY <1>0, <1>10
  <2>2. pc'[b] = pc[b] /\ local'[b] = local[b] BY <1>3, <1>10
  <2>3. ~Initializer(b) /\ ~ClosesNothing(b) /\ (pc[b] \in Tearing => local[b].queue # gen)
    BY <1>4, <2>1 DEF Apart
  <2> QED BY <2>2, <2>3 DEF Initializer, ClosesNothing
<1>11. ASSUME NEW b \in Actor PROVE InitializerKept(b)' /\ TearingKept(b)' /\ ClosingKept(b)'
  <2>1. CASE b = a
    BY <1>1, <1>2, <1>3, <1>4, <1>5, <2>1
    DEF InitializerKept, TearingKept, ClosingKept, ClosesNothing
  <2>2. CASE b # a
    <3>1. InitializerKept(b)' BY <1>10, <2>2 DEF InitializerKept, Unsettled, Opening, Building
    <3>2. TearingKept(b)' BY <1>0, <1>1, <1>10, <2>2 DEF TearingKept
    <3>3. ClosingKept(b)' BY <1>0, <1>1, <1>10, <2>2 DEF ClosingKept
    <3> QED BY <3>1, <3>2, <3>3
  <2> QED BY <2>1, <2>2
<1>12. ASSUME NEW b \in Actor, NEW c \in Actor, b # c PROVE Apart(b, c)'
  <2>1. Apart(b, c) BY <1>0, <1>12
  <2>2. ~ClosesNothing(b)' BY <1>2, <1>3, <1>10 DEF ClosesNothing
  <2>3. pc'[c] \notin Opening BY <1>2, <1>3, <1>10 DEF Unsettled
  <2>4. pc'[b] = "close" => pc[b] = "close" /\ local'[b] = local[b] /\ b # a
    BY <1>2, <1>3
  <2>5. pc'[c] \in Unsettled => c = a BY <1>10
  <2>6. ~(Initializer(b)' /\ Initializer(c)') BY <1>10, <1>12
  <2>7. pc'[b] = "close" /\ c = a => local'[b].sup # gen'
    BY <1>1, <1>4, <2>1, <2>4 DEF Apart
  <2> QED BY <2>2, <2>3, <2>5, <2>6, <2>7 DEF Apart
<1> QED BY <1>7, <1>8, <1>9, <1>11, <1>12, Gathered

-----------------------------------------------------------------------------
(* The same for the rest of initialize().                                    *)

\* A step of one actor that does not enter initialize() keeps the threads apart.
LEMMA ApartMoves ==
  ASSUME IInv, NEW a \in Actor, NEW l \in Point, NEW w \in Locals, Moves(a, l, w),
         UNCHANGED gen,
         Initializer(a)' => Initializer(a),
         l \in Unsettled => pc[a] \in Unsettled,
         l \notin Opening,
         l = "close" => \A b \in Actor \ {a} : pc[b] \notin Unsettled /\ ~ClosesNothing(b),
         l \in Tearing => \A b \in Actor : pc[b] \notin Opening
  PROVE  \A b, c \in Actor : b # c => Apart(b, c)'
<1>0. Typed BY DEF IInv
<1>1. /\ pc'[a] = l /\ local'[a] = w
      /\ \A b \in Actor \ {a} : pc'[b] = pc[b] /\ local'[b] = local[b]
  BY <1>0, Moved
<1>2. SUFFICES ASSUME NEW b \in Actor, NEW c \in Actor, b # c PROVE Apart(b, c)'
  OBVIOUS
<1>3. Apart(b, c) BY <1>2 DEF IInv
<1>4. /\ Initializer(b)' => Initializer(b)
      /\ Initializer(c)' => Initializer(c)
  BY <1>1 DEF Initializer
<1>5. /\ pc'[c] \in Unsettled => pc[c] \in Unsettled
      /\ pc'[c] \in Opening => pc[c] \in Opening /\ c # a
  BY <1>1
<1>6. CASE b = a
  <2>1. c # a /\ pc'[c] = pc[c] /\ local'[c] = local[c] BY <1>1, <1>2, <1>6
  <2>2. pc'[b] = "close" => pc'[c] \notin Unsettled /\ ~ClosesNothing(c)'
    BY <1>1, <1>6, <2>1 DEF ClosesNothing
  <2>3. pc'[b] \in Tearing => pc'[c] \notin Opening BY <1>1, <1>6, <2>1
  <2> QED BY <1>3, <1>4, <2>2, <2>3 DEF Apart, ClosesNothing
<1>7. CASE b # a /\ c = a
  <2>1. pc'[b] = pc[b] /\ local'[b] = local[b] BY <1>1, <1>7
  <2>2. ClosesNothing(b) => pc'[c] # "close"
    BY <1>1, <1>7
  <2> QED BY <1>3, <1>4, <1>5, <2>1, <2>2 DEF Apart, ClosesNothing
<1>8. CASE b # a /\ c # a
  <2>1. pc'[b] = pc[b] /\ local'[b] = local[b] /\ pc'[c] = pc[c] /\ local'[c] = local[c]
    BY <1>1, <1>8
  <2> QED BY <1>3, <1>4, <2>1 DEF Apart, ClosesNothing
<1> QED BY <1>6, <1>7, <1>8

\* Nobody else is inside initialize() while actor a is, and nobody is about to drop
\* the reference to the embedding owner.
LEMMA Alone ==
  ASSUME IInv, NEW a \in Actor, Initializer(a), NEW b \in Actor \ {a}
  PROVE  /\ ~Initializer(b) /\ pc[b] \notin Unsettled
         /\ pc[a] \in Unsettled => ~ClosesNothing(b)
<1>1. Apart(a, b) /\ Apart(b, a) BY DEF IInv
<1> QED BY <1>1 DEF Apart, Initializer

\* initialize() before it published a worker: nobody shuts this generation down yet.
LEMMA BuildingSteps ==
  ASSUME IInv, NEW a \in Actor, pc[a] \in Building,
         NEW l \in {"identity", "publish", "finally", "failed"},
         Go(a, l), UNCHANGED local,
         UNCHANGED <<initializing, cancelled, gate, gen, queueRef, pending, queue>>,
         sup' = sup \/ sup'.gen = gen,
         Typed', RefsKept', OwnerKept', InitializerKept(a)'
  PROVE  IInv'
<1>1. /\ local[a] \in Locals /\ local = [local EXCEPT ![a] = local[a]] /\ Typed
      /\ \A b \in Actor : InitializerKept(b) /\ TearingKept(b) /\ ClosingKept(b)
  BY ActorTyped DEF IInv
<1>2. Moves(a, l, local[a]) BY <1>1 DEF Moves, Go
<1>3. /\ l \in Point /\ l \notin Opening \cup Tearing \cup {"setup", "close"}
      /\ pc[a] \in Unsettled
  BY DEF Point, Unsettled, Building, Tearing, Opening
<1>4. /\ pc'[a] = l /\ local'[a] = local[a]
      /\ \A b \in Actor \ {a} : pc'[b] = pc[b] /\ local'[b] = local[b]
  BY <1>1, <1>2, <1>3, Moved
<1>5. Initializer(a) BY <1>3 DEF Initializer
<1>6. \A b \in Actor \ {a} : ~Initializer(b) /\ pc[b] \notin Unsettled /\ ~ClosesNothing(b)
  BY <1>3, <1>5, Alone
<1>7. workerRef = 0 BY <1>1 DEF InitializerKept
<1>8. ASSUME NEW b \in Actor PROVE InitializerKept(b)' /\ TearingKept(b)' /\ ClosingKept(b)'
  <2>1. CASE b = a BY <1>3, <1>4, <2>1 DEF TearingKept, ClosingKept, ClosesNothing
  <2>2. CASE b # a
    <3>1. /\ pc'[b] = pc[b] /\ local'[b] = local[b]
          /\ pc[b] \notin Unsettled /\ ~Initializer(b)' /\ ~ClosesNothing(b)'
      BY <1>4, <1>6, <2>2 DEF Initializer, ClosesNothing
    <3>2. InitializerKept(b)' BY <3>1 DEF InitializerKept, Unsettled, Opening, Building
    <3>3. TearingKept(b)' BY <1>1, <1>7, <3>1 DEF TearingKept
    <3>4. Apart(b, a) BY <2>2 DEF IInv
    <3>5. ClosingKept(b)' BY <1>1, <1>3, <3>1, <3>4 DEF ClosingKept, Apart
    <3> QED BY <3>2, <3>3, <3>5
  <2> QED BY <2>1, <2>2
<1>9. \A b, c \in Actor : b # c => Apart(b, c)'
  BY <1>1, <1>2, <1>3, <1>5, ApartMoves
<1> QED BY <1>8, <1>9, Gathered

\* The reference and the owner change together; older callbacks name older owners.
LEMMA InitBindStep ==
  ASSUME IInv, NEW a \in Actor, InitBind(a)
  PROVE  IInv'
<1> DEFINE l == "identity"
<1>0. Typed /\ RefsKept /\ OwnerKept /\ InitializerKept(a) /\ local[a] \in Locals
      /\ local = [local EXCEPT ![a] = local[a]]
  BY ActorTyped DEF IInv
<1>1. /\ pc[a] = "bind" /\ Go(a, l) /\ UNCHANGED local
      /\ sup' = [gen |-> gen, at |-> "open"] /\ supRef' = gen
      /\ UNCHANGED <<initializing, cancelled, gate, gen, queueRef, workerRef, pending, queue,
                     worker, callbacks, firing>>
  BY DEF InitBind, life, work
<1>2. /\ l \in Point /\ l \in Unsettled /\ l \in Building /\ l = "identity"
      /\ l \notin Opening /\ pc[a] \in Building /\ pc[a] \in Unsettled
  BY <1>1 DEF Point, Unsettled, Building, Opening
<1>3. Moves(a, l, local[a]) BY <1>0, <1>1 DEF Moves, Go
<1>4. pc' \in [Actor -> Point] /\ pc'[a] = l BY <1>0, <1>2, <1>3, Moved
<1>5. gen \in Nat /\ gen # 0 /\ sup.gen \in Nat /\ sup.gen < gen /\ queueRef = gen
      /\ workerRef = 0 /\ initializing /\ (gate => cancelled)
  BY <1>0, <1>1, <1>2 DEF InitializerKept, Typed, Initializer
<1>6. sup' \in [gen : Nat, at : SupervisorAt] /\ sup'.gen = gen /\ sup'.at = "open"
      /\ sup'.at \notin Orphaned
  BY <1>1, <1>5 DEF SupervisorAt, Bound, Orphaned
<1> HIDE DEF l
<1>7. Typed' BY <1>0, <1>1, <1>4, <1>5, <1>6 DEF Typed
<1>8. RefsKept' BY <1>0, <1>1, <1>2, <1>4, <1>5 DEF RefsKept, WorkerAlive
<1>9. OwnerKept' BY <1>0, <1>1, <1>5, <1>6 DEF OwnerKept, Typed
<1>10. InitializerKept(a)'
  BY <1>1, <1>2, <1>4, <1>5, <1>6 DEF InitializerKept
<1> QED BY <1>1, <1>2, <1>7, <1>8, <1>9, <1>10, BuildingSteps

\* A bind that failed: the owner names this generation, the reference an older one.
LEMMA InitBindFailsStep ==
  ASSUME IInv, NEW a \in Actor, InitBindFails(a)
  PROVE  IInv'
<1> DEFINE l == "failed"
<1>0. Typed /\ RefsKept /\ OwnerKept /\ InitializerKept(a) /\ local[a] \in Locals
      /\ local = [local EXCEPT ![a] = local[a]]
  BY ActorTyped DEF IInv
<1>1. /\ pc[a] = "bind" /\ sup.at = "released" /\ Go(a, l) /\ UNCHANGED local
      /\ \/ sup' = [gen |-> gen, at |-> "reaping"] \/ sup' = [gen |-> gen, at |-> "lost"]
      /\ UNCHANGED <<initializing, cancelled, gate, gen, queueRef, workerRef, pending, queue,
                     worker, supRef, callbacks, firing>>
  BY DEF InitBindFails, life, work
<1>2. /\ l \in Point /\ l \in Unsettled /\ l \notin Building /\ l = "failed"
      /\ l \notin Opening /\ pc[a] \in Building /\ pc[a] \in Unsettled
  BY <1>1 DEF Point, Unsettled, Building, Opening
<1>3. Moves(a, l, local[a]) BY <1>0, <1>1 DEF Moves, Go
<1>4. pc' \in [Actor -> Point] /\ pc'[a] = l BY <1>0, <1>2, <1>3, Moved
<1>5. gen \in Nat /\ gen # 0 /\ sup.gen \in Nat /\ sup.gen < gen /\ queueRef = gen
      /\ workerRef = 0 /\ initializing
  BY <1>0, <1>1, <1>2 DEF InitializerKept, Typed, Initializer
<1>6. /\ sup' \in [gen : Nat, at : SupervisorAt] /\ sup'.gen = gen
      /\ sup'.at \notin Bound /\ sup'.at # "released"
  BY <1>1, <1>5 DEF SupervisorAt, Bound, Orphaned
<1>7. supRef # gen BY <1>0, <1>1, <1>2 DEF InitializerKept
<1> HIDE DEF l
<1>8. Typed' BY <1>0, <1>1, <1>4, <1>5, <1>6 DEF Typed
<1>9. RefsKept' BY <1>0, <1>1, <1>2, <1>4, <1>5 DEF RefsKept, WorkerAlive
<1>10. OwnerKept' BY <1>0, <1>1, <1>5, <1>6, <1>7 DEF OwnerKept, Typed
<1>11. InitializerKept(a)'
  BY <1>1, <1>2, <1>4, <1>5, <1>6 DEF InitializerKept
<1> QED BY <1>1, <1>2, <1>6, <1>8, <1>9, <1>10, <1>11, BuildingSteps

\* close() of an owned supervisor keeps its generation and its binding.
LEMMA ClosesBound ==
  ASSUME Typed, ClosesOwned
  PROVE  /\ sup' \in [gen : Nat, at : SupervisorAt] /\ sup'.gen = sup.gen
         /\ sup'.at \in Bound /\ sup'.at \notin Orphaned /\ sup'.at # "released"
  BY DEF Typed, ClosesOwned, SupervisorAt, Bound, Orphaned

\* The owner is this generation's own, and the callback names it.
LEMMA InitUnreadyStep ==
  ASSUME IInv, NEW a \in Actor, InitUnready(a)
  PROVE  IInv'
<1> DEFINE l == "publish"
           x == [sup |-> supRef, mark |-> FALSE]
<1>0. Typed /\ RefsKept /\ OwnerKept /\ InitializerKept(a) /\ local[a] \in Locals
      /\ local = [local EXCEPT ![a] = local[a]]
  BY ActorTyped DEF IInv
<1>1. /\ pc[a] = "identity" /\ Go(a, l) /\ UNCHANGED local
      /\ ClosesOwned /\ callbacks' = Append(callbacks, x)
      /\ UNCHANGED <<initializing, cancelled, gate, gen, queueRef, workerRef, pending, queue,
                     worker, supRef, firing>>
  BY DEF InitUnready, life, work
<1>2. /\ l \in Point /\ l \in Unsettled /\ l \in Building /\ l = "publish"
      /\ l \notin Opening /\ pc[a] \in Building /\ pc[a] \in Unsettled
  BY <1>1 DEF Point, Unsettled, Building, Opening
<1>3. Moves(a, l, local[a]) BY <1>0, <1>1 DEF Moves, Go
<1>4. pc' \in [Actor -> Point] /\ pc'[a] = l BY <1>0, <1>2, <1>3, Moved
<1>5. gen \in Nat /\ gen # 0 /\ sup.gen = gen /\ sup.at = "open" /\ queueRef = gen
      /\ workerRef = 0 /\ initializing /\ (gate => cancelled) /\ supRef = gen
  BY <1>0, <1>1, <1>2 DEF InitializerKept, Typed, Initializer, OwnerKept, Bound
<1>6. /\ sup' \in [gen : Nat, at : SupervisorAt] /\ sup'.gen = gen
      /\ sup'.at \in Bound /\ sup'.at \notin Orphaned
  BY <1>0, <1>1, <1>5, ClosesBound
<1>7. x \in Callback /\ x.sup = gen BY <1>5 DEF Callback
<1> HIDE DEF l, x
<1>8. /\ callbacks' \in Seq(Callback)
      /\ \A i \in DOMAIN callbacks' :
           callbacks'[i] = x \/ \E j \in DOMAIN callbacks : callbacks'[i] = callbacks[j]
  <2>1. callbacks \in Seq(Callback) /\ callbacks' = Append(callbacks, x)
    BY <1>0, <1>1 DEF Typed
  <2> QED BY <1>7, <2>1, AppendElements
<1>9. Typed' BY <1>0, <1>1, <1>4, <1>6, <1>8 DEF Typed
<1>10. RefsKept' BY <1>0, <1>1, <1>2, <1>4, <1>5 DEF RefsKept, WorkerAlive
<1>11. \A i \in DOMAIN callbacks' : callbacks'[i].sup \in 1..gen
  BY <1>0, <1>5, <1>7, <1>8 DEF OwnerKept
<1>12. OwnerKept' BY <1>0, <1>1, <1>5, <1>6, <1>11 DEF OwnerKept
<1>13. InitializerKept(a)'
  BY <1>1, <1>2, <1>4, <1>5 DEF InitializerKept
<1> QED BY <1>1, <1>2, <1>6, <1>9, <1>10, <1>12, <1>13, BuildingSteps

\* The queue and the open gate of the generation are still there: the worker is
\* started for good, or Thread.start() raised.
LEMMA InitPublishStep ==
  ASSUME IInv, NEW a \in Actor, InitPublish(a) \/ InitStartFails(a)
  PROVE  IInv'
<1>0. Typed /\ RefsKept /\ OwnerKept /\ InitializerKept(a) /\ local[a] \in Locals
      /\ local = [local EXCEPT ![a] = local[a]]
  BY ActorTyped DEF IInv
<1>1. /\ pc[a] = "publish" /\ ~cancelled /\ UNCHANGED local /\ workerRef' = gen
      /\ UNCHANGED <<initializing, cancelled, gate, gen, queueRef, pending, queue,
                     supRef, sup, callbacks, firing>>
  BY DEF InitPublish, InitStartFails, close
<1>2. pc[a] \in Building /\ pc[a] \in Unsettled
  BY <1>1 DEF Unsettled, Building, Opening
<1>3. gen \in Nat /\ gen # 0 /\ queueRef = gen /\ workerRef = 0 /\ initializing /\ ~gate
  BY <1>0, <1>1, <1>2 DEF InitializerKept, Typed, Initializer
<1>4. \E l \in {"finally", "failed"}, p \in {"get", "unstarted"} :
        /\ Go(a, l) /\ worker' = [gen |-> gen, at |-> p, taken |-> <<>>]
        /\ l = "failed" <=> p = "unstarted"
  BY <1>3 DEF InitPublish, InitStartFails
<1>5. PICK l \in {"finally", "failed"}, p \in {"get", "unstarted"} :
        /\ Go(a, l) /\ worker' = [gen |-> gen, at |-> p, taken |-> <<>>]
        /\ l = "failed" <=> p = "unstarted"
  BY <1>4
<1>6. /\ l \in Point /\ l \in Unsettled \cup {"finally"} /\ l # "identity" /\ l # "cancelled"
      /\ l \notin Opening \cup Building \cup {"setup", "acquire", "acquired", "bind"}
      /\ p \in WorkerPoint
  BY DEF Point, Unsettled, Building, Opening, WorkerPoint
<1>7. Moves(a, l, local[a]) BY <1>0, <1>1, <1>5 DEF Moves, Go
<1>8. pc' \in [Actor -> Point] /\ pc'[a] = l BY <1>0, <1>6, <1>7, Moved
<1>9. /\ worker'.gen = gen /\ worker'.at = p
      /\ worker' = [gen |-> worker'.gen, at |-> worker'.at, taken |-> worker'.taken]
  BY <1>3, <1>5, <1>6
<1>10. Typed' BY <1>0, <1>1, <1>3, <1>6, <1>8, <1>9 DEF Typed
<1>11. ~pending BY <1>0, <1>3 DEF RefsKept
<1>12. RefsKept' BY <1>1, <1>3, <1>9, <1>11 DEF RefsKept
<1>13. OwnerKept' BY <1>0, <1>1 DEF OwnerKept
<1>14. InitializerKept(a)'
  BY <1>1, <1>3, <1>5, <1>6, <1>8, <1>9 DEF InitializerKept
<1> QED BY <1>1, <1>2, <1>5, <1>10, <1>12, <1>13, <1>14, BuildingSteps

\* Both exception handlers: the generation is over, no worker runs in it.
LEMMA InitAbandonStep ==
  ASSUME IInv, NEW a \in Actor, InitAbandon(a)
  PROVE  IInv'
<1> DEFINE l == "close"
           w == [NoLocals EXCEPT !.sup = supRef]
<1>0. /\ Typed /\ RefsKept /\ OwnerKept
      /\ \A b \in Actor : InitializerKept(b) /\ TearingKept(b) /\ ClosingKept(b)
  BY DEF IInv
<1>1. /\ pc[a] \in {"cancelled", "failed"} /\ queueRef' = 0 /\ queue' = <<>> /\ gate' = TRUE
      /\ (pc[a] = "failed" /\ workerRef' = 0) \/ (pc[a] = "cancelled" /\ workerRef' = workerRef)
      /\ Moves(a, l, w)
      /\ UNCHANGED <<initializing, cancelled, gen, pending, worker, supRef, sup, callbacks,
                     firing>>
  BY DEF InitAbandon, Moves, Go, close
<1>2. /\ l \in Point /\ l \in Closing /\ l = "close"
      /\ l \notin Unsettled \cup Tearing \cup {"finally"} /\ l \notin Opening \cup Building
      /\ pc[a] \in Unsettled
  BY <1>1 DEF Point, Unsettled, Building, Tearing, Opening, Closing
<1>3. w \in Locals /\ w.queue = 0 /\ w.sup = supRef BY <1>0 DEF Locals, NoLocals, Typed
<1>4. Initializer(a) /\ initializing
  BY <1>0, <1>2 DEF Initializer, InitializerKept
<1>5. workerRef' = 0 /\ ~WorkerAlive /\ ~pending
  BY <1>0, <1>1 DEF InitializerKept, RefsKept, WorkerAlive
<1> HIDE DEF l, w
<1>6. /\ pc' \in [Actor -> Point] /\ local' \in [Actor -> Locals]
      /\ pc'[a] = l /\ local'[a] = w
      /\ \A b \in Actor \ {a} : pc'[b] = pc[b] /\ local'[b] = local[b]
  BY <1>0, <1>1, <1>2, <1>3, Moved
<1>7. \A b \in Actor \ {a} : ~Initializer(b) /\ pc[b] \notin Unsettled /\ ~ClosesNothing(b)
  BY <1>2, <1>4, Alone
<1>9. Typed' BY <1>0, <1>1, <1>5, <1>6 DEF Typed, Locals
<1>10. RefsKept' BY <1>1, <1>5 DEF RefsKept, WorkerAlive
<1>11. OwnerKept' BY <1>0, <1>1 DEF OwnerKept
<1>12. ASSUME NEW b \in Actor PROVE InitializerKept(b)' /\ TearingKept(b)' /\ ClosingKept(b)'
  <2>1. CASE b = a
    <3>1. InitializerKept(a)'
      BY <1>1, <1>2, <1>4, <1>6 DEF InitializerKept, Unsettled, Opening, Building
    <3>2. TearingKept(a)' BY <1>2, <1>6 DEF TearingKept
    <3>3. ClosingKept(a)'
      BY <1>0, <1>1, <1>3, <1>6
      DEF ClosingKept, ClosesNothing, OwnerKept, Typed, Bound, Orphaned
    <3> QED BY <2>1, <3>1, <3>2, <3>3
  <2>2. CASE b # a
    <3>1. /\ pc'[b] = pc[b] /\ local'[b] = local[b]
          /\ pc[b] \notin Unsettled /\ ~Initializer(b)' /\ ~ClosesNothing(b)'
      BY <1>6, <1>7, <2>2 DEF Initializer, ClosesNothing
    <3>2. InitializerKept(b)' BY <3>1 DEF InitializerKept, Unsettled, Opening, Building
    <3>3. TearingKept(b)' BY <1>0, <1>1, <3>1 DEF TearingKept
    <3>4. ClosingKept(b)' BY <1>0, <1>1, <3>1 DEF ClosingKept
    <3> QED BY <3>2, <3>3, <3>4
  <2> QED BY <2>1, <2>2
<1>13. \A b, c \in Actor : b # c => Apart(b, c)'
  BY <1>1, <1>2, <1>3, <1>4, <1>7, ApartMoves
<1> QED BY <1>9, <1>10, <1>11, <1>12, <1>13, Gathered

\* The finalizer: no generation is half built.
LEMMA InitFinallyStep ==
  ASSUME IInv, NEW a \in Actor, InitFinally(a)
  PROVE  IInv'
<1> DEFINE l == "idle"
<1>0. /\ Typed /\ RefsKept /\ OwnerKept /\ NoLocals \in Locals
      /\ \A b \in Actor : InitializerKept(b) /\ TearingKept(b) /\ ClosingKept(b)
  BY ActorTyped DEF IInv
<1>1. /\ pc[a] = "finally" /\ initializing' = FALSE /\ cancelled' = FALSE
      /\ Moves(a, l, NoLocals)
      /\ UNCHANGED <<gate, gen, queueRef, workerRef, pending, queue, worker, supRef, sup,
                     callbacks, firing>>
  BY DEF InitFinally, Return, Moves, Go, work, close
<1>2. /\ l \in Point /\ l \notin Unsettled \cup Tearing \cup Closing \cup {"finally"}
      /\ l # "close" /\ l \notin Opening \cup Building /\ pc[a] \notin Unsettled
  BY <1>1 DEF Point, Unsettled, Building, Tearing, Opening, Closing
<1> HIDE DEF l
<1>3. /\ pc' \in [Actor -> Point] /\ local' \in [Actor -> Locals] /\ pc'[a] = l
      /\ \A b \in Actor \ {a} : pc'[b] = pc[b] /\ local'[b] = local[b]
  BY <1>0, <1>1, <1>2, Moved
<1>4. Initializer(a) BY <1>1 DEF Initializer
<1>5. \A b \in Actor \ {a} : ~Initializer(b) /\ pc[b] \notin Unsettled
  BY <1>4, Alone
<1>6. \A b \in Actor : pc[b] \notin Unsettled /\ ~Initializer(b)'
  BY <1>2, <1>3, <1>5 DEF Initializer
<1>7. Typed' BY <1>0, <1>1, <1>3 DEF Typed, Locals
<1>8. RefsKept' BY <1>0, <1>1, <1>6 DEF RefsKept, WorkerAlive
<1>9. OwnerKept' BY <1>0, <1>1 DEF OwnerKept
<1>10. ASSUME NEW b \in Actor PROVE InitializerKept(b)' /\ TearingKept(b)' /\ ClosingKept(b)'
  <2>1. CASE b = a
    <3>1. InitializerKept(a)'
      BY <1>2, <1>3, <1>6 DEF InitializerKept, Unsettled, Opening, Building
    <3>2. TearingKept(a)' BY <1>2, <1>3 DEF TearingKept
    <3>3. ClosingKept(a)' BY <1>2, <1>3 DEF ClosingKept, ClosesNothing
    <3> QED BY <2>1, <3>1, <3>2, <3>3
  <2>2. CASE b # a
    <3>1. pc'[b] = pc[b] /\ local'[b] = local[b] BY <1>3, <2>2
    <3>2. InitializerKept(b)' BY <1>6, <3>1 DEF InitializerKept, Unsettled, Opening, Building
    <3>3. TearingKept(b)' BY <1>0, <1>1, <3>1 DEF TearingKept, WorkerAlive
    <3>4. ClosingKept(b)' BY <1>0, <1>1, <3>1 DEF ClosingKept, ClosesNothing
    <3> QED BY <3>2, <3>3, <3>4
  <2> QED BY <2>1, <2>2
<1>11. \A b, c \in Actor : b # c => Apart(b, c)'
  <2>1. ~Initializer(a)' BY <1>6
  <2> QED BY <1>0, <1>1, <1>2, <2>1, ApartMoves
<1> QED BY <1>7, <1>8, <1>9, <1>10, <1>11, Gathered

-----------------------------------------------------------------------------
(* shutdown() and the closing of the embedding owner.                        *)

\* Before a worker is published shutdown() only leaves a request.
LEMMA ShutdownCancelsInitStep ==
  ASSUME IInv, NEW a \in Actor, ShutdownCancelsInit(a)
  PROVE  IInv'
<1>0. /\ Typed /\ RefsKept /\ OwnerKept
      /\ \A b \in Actor : InitializerKept(b) /\ TearingKept(b) /\ ClosingKept(b)
      /\ \A b, c \in Actor : b # c => Apart(b, c)
  BY DEF IInv
<1>1. /\ cancelled' = TRUE /\ gate' = TRUE
      /\ UNCHANGED <<initializing, gen, queueRef, workerRef, pending, queue, worker, supRef,
                     sup, callbacks, firing, pc, local>>
  BY DEF ShutdownCancelsInit, work, close
<1>2. Typed' BY <1>0, <1>1 DEF Typed
<1>3. RefsKept' BY <1>0, <1>1 DEF RefsKept, WorkerAlive
<1>4. OwnerKept' BY <1>0, <1>1 DEF OwnerKept
<1>5. ASSUME NEW b \in Actor PROVE InitializerKept(b)' /\ TearingKept(b)' /\ ClosingKept(b)'
  <2>1. InitializerKept(b)' BY <1>0, <1>1 DEF InitializerKept, Initializer
  <2>2. TearingKept(b)' BY <1>0, <1>1 DEF TearingKept, WorkerAlive
  <2>3. ClosingKept(b)' BY <1>0, <1>1 DEF ClosingKept, ClosesNothing
  <2> QED BY <2>1, <2>2, <2>3
<1>6. ASSUME NEW b \in Actor, NEW c \in Actor, b # c PROVE Apart(b, c)'
  BY <1>0, <1>1, <1>6 DEF Apart, Initializer, ClosesNothing
<1> QED BY <1>2, <1>3, <1>4, <1>5, <1>6, Gathered

\* The gate closes over a generation whose worker was published.
LEMMA ShutdownRequestStep ==
  ASSUME IInv, NEW a \in Actor, ShutdownRequest(a)
  PROVE  IInv'
<1> DEFINE l == "sentinel"
           w == [NoLocals EXCEPT !.queue = queueRef]
<1>0. /\ Typed /\ RefsKept /\ OwnerKept
      /\ \A b \in Actor : InitializerKept(b) /\ TearingKept(b) /\ ClosingKept(b)
  BY DEF IInv
<1>1. /\ pc[a] = "idle" /\ ~(initializing /\ workerRef = 0) /\ queueRef # 0
      /\ gate' = TRUE /\ Moves(a, l, w)
      /\ UNCHANGED <<initializing, cancelled, gen, queueRef, workerRef, pending, queue, worker,
                     supRef, sup, callbacks, firing>>
  BY DEF ShutdownRequest, Moves, Go, work, close
<1>2. /\ l \in Point /\ l \in Tearing /\ l \notin {"schedule", "joining", "clear"}
      /\ l \notin Unsettled \cup Closing \cup {"finally"} /\ l # "close"
      /\ l \notin Opening \cup Building
  BY DEF Point, Unsettled, Building, Tearing, Opening, Closing
<1>3. w \in Locals /\ w.queue = queueRef BY <1>0 DEF Locals, NoLocals, Typed
<1>4. workerRef # 0 /\ queueRef = gen /\ gen \in 1..gen BY <1>0, <1>1 DEF RefsKept, Typed
<1> HIDE DEF l, w
<1>5. /\ pc' \in [Actor -> Point] /\ local' \in [Actor -> Locals]
      /\ pc'[a] = l /\ local'[a] = w
      /\ \A b \in Actor \ {a} : pc'[b] = pc[b] /\ local'[b] = local[b]
  BY <1>0, <1>1, <1>2, <1>3, Moved
<1>6. \A b \in Actor : pc[b] \notin Opening \cup Building
  BY <1>0, <1>1, <1>4 DEF InitializerKept
<1>7. Typed' BY <1>0, <1>1, <1>5 DEF Typed, Locals
<1>8. RefsKept' BY <1>0, <1>1, <1>4 DEF RefsKept, WorkerAlive
<1>9. OwnerKept' BY <1>0, <1>1 DEF OwnerKept
<1>10. ~Initializer(a)' BY <1>2, <1>5 DEF Initializer
<1>11. ASSUME NEW b \in Actor PROVE InitializerKept(b)' /\ TearingKept(b)' /\ ClosingKept(b)'
  <2>1. CASE b = a
    <3>1. InitializerKept(a)'
      BY <1>2, <1>5, <1>10 DEF InitializerKept, Unsettled, Opening, Building
    <3>2. TearingKept(a)' BY <1>1, <1>2, <1>3, <1>4, <1>5 DEF TearingKept
    <3>3. ClosingKept(a)' BY <1>2, <1>5 DEF ClosingKept, ClosesNothing
    <3> QED BY <2>1, <3>1, <3>2, <3>3
  <2>2. CASE b # a
    <3>1. pc'[b] = pc[b] /\ local'[b] = local[b] BY <1>5, <2>2
    <3>2. InitializerKept(b)'
      BY <1>0, <1>1, <1>6, <3>1 DEF InitializerKept, Initializer
    <3>3. TearingKept(b)' BY <1>0, <1>1, <3>1 DEF TearingKept, WorkerAlive
    <3>4. ClosingKept(b)' BY <1>0, <1>1, <3>1 DEF ClosingKept, ClosesNothing
    <3> QED BY <3>2, <3>3, <3>4
  <2> QED BY <2>1, <2>2
<1>12. \A b, c \in Actor : b # c => Apart(b, c)'
  BY <1>1, <1>2, <1>3, <1>6, <1>10, ApartMoves
<1> QED BY <1>7, <1>8, <1>9, <1>11, <1>12, Gathered

\* The cleanup thread takes the locals of the thread that started it.
LEMMA ScheduleStep ==
  ASSUME IInv, NEW a \in Actor, NEW c \in Cleaner, Schedule(a, c)
  PROVE  IInv'
<1> DEFINE l == "scheduled"
           m == "joining"
<1>0. /\ Typed /\ RefsKept /\ OwnerKept /\ c \in Actor
      /\ \A b \in Actor : InitializerKept(b) /\ TearingKept(b) /\ ClosingKept(b)
      /\ \A b, d \in Actor : b # d => Apart(b, d)
  BY DEF IInv, Actor
<1>1. /\ pc[a] = "schedule" /\ pc[c] = "idle" /\ c # a
      /\ pc' = [pc EXCEPT ![a] = l, ![c] = m]
      /\ local' = [local EXCEPT ![c] = local[a]]
      /\ UNCHANGED shared /\ UNCHANGED <<pending, queue>>
  BY DEF Schedule, shared, life, work, close
<1>2. /\ {l, m, pc[a]} \subseteq Tearing /\ {l, m} \subseteq Point
      /\ {l, m} \cap (Unsettled \cup Closing \cup {"finally", "close"}) = {}
      /\ {l, m} \cap (Opening \cup Building) = {}
      /\ pc[a] \in {"schedule", "joining"} /\ pc[a] \in {"schedule", "joining", "clear"}
      /\ l \notin {"schedule", "joining", "clear"} /\ m # "clear"
      /\ pc[a] \notin Unsettled /\ pc[c] \notin Unsettled
  BY <1>1 DEF Point, Unsettled, Building, Tearing, Opening, Closing
<1> HIDE DEF l, m
<1>3. /\ pc' \in [Actor -> Point] /\ local' \in [Actor -> Locals]
      /\ pc'[a] = l /\ pc'[c] = m /\ local'[a] = local[a] /\ local'[c] = local[a]
      /\ \A b \in Actor \ {a, c} : pc'[b] = pc[b] /\ local'[b] = local[b]
  BY <1>0, <1>1, <1>2 DEF Typed, Locals
<1>4. Typed' BY <1>0, <1>1, <1>3 DEF Typed, shared, Locals
<1>5. RefsKept'
  <2>1. (\E b \in Actor : pc[b] \in Unsettled) => \E b \in Actor : pc'[b] \in Unsettled
    BY <1>2, <1>3
  <2> QED BY <1>0, <1>1, <2>1 DEF RefsKept, shared, WorkerAlive
<1>6. OwnerKept' BY <1>0, <1>1 DEF OwnerKept, shared
<1>7. ASSUME NEW b \in {a, c} PROVE InitializerKept(b)' /\ TearingKept(b)' /\ ClosingKept(b)'
  <2>1. pc'[b] \in {l, m} /\ local'[b] = local[a] BY <1>3, <1>7
  <2>2. ~Initializer(b)' BY <1>2, <2>1 DEF Initializer
  <2>3. InitializerKept(b)' BY <1>2, <2>1, <2>2 DEF InitializerKept, Unsettled, Opening, Building
  <2>4. TearingKept(b)' BY <1>0, <1>1, <1>2, <2>1 DEF TearingKept, shared
  <2>5. ClosingKept(b)' BY <1>2, <2>1 DEF ClosingKept, ClosesNothing
  <2> QED BY <2>3, <2>4, <2>5
<1>8. ASSUME NEW b \in Actor \ {a, c}
      PROVE  InitializerKept(b)' /\ TearingKept(b)' /\ ClosingKept(b)'
  <2>1. pc'[b] = pc[b] /\ local'[b] = local[b] BY <1>3
  <2>2. InitializerKept(b) /\ TearingKept(b) /\ ClosingKept(b) BY <1>0
  <2> QED BY <1>1, <2>1, <2>2 DEF InitializerKept, TearingKept, ClosingKept, ClosesNothing,
             Initializer, shared, WorkerAlive
<1>9. ASSUME NEW b \in Actor, NEW d \in Actor, b # d PROVE Apart(b, d)'
  <2>1. Apart(b, d) /\ (a # d => Apart(a, d)) BY <1>0, <1>9
  <2>2. /\ Initializer(b)' => Initializer(b)
        /\ Initializer(d)' => Initializer(d)
    BY <1>2, <1>3 DEF Initializer
  <2>3. pc'[d] \in Unsettled \cup Opening => pc'[d] = pc[d] /\ d # a
    BY <1>2, <1>3
  <2>4. /\ ClosesNothing(b)' => ClosesNothing(b)
        /\ ClosesNothing(d)' => ClosesNothing(d)
        /\ pc'[b] = "close" => pc[b] = "close" /\ local'[b] = local[b]
    BY <1>2, <1>3 DEF ClosesNothing
  <2>5. pc'[b] \in Tearing /\ pc'[d] \in Opening => local'[b].queue # gen
    <3>1. CASE b \in {a, c}
      <4>1. local'[b] = local[a] BY <1>3, <3>1
      <4> QED BY <1>2, <2>1, <2>3, <4>1 DEF Apart
    <3>2. CASE b \notin {a, c}
      <4>1. local'[b] = local[b] /\ pc'[b] = pc[b] BY <1>3, <3>2
      <4> QED BY <2>1, <2>3, <4>1 DEF Apart
    <3> QED BY <3>1, <3>2
  <2> QED BY <1>1, <2>1, <2>2, <2>3, <2>4, <2>5 DEF Apart, shared
<1> QED BY <1>4, <1>5, <1>6, <1>7, <1>8, <1>9, Gathered

\* The state of a generation goes when its worker has ended, and nobody is building
\* the next one.
LEMMA ClearStateStep ==
  ASSUME IInv, NEW a \in Actor, ClearState(a)
  PROVE  IInv'
<1> DEFINE l == "close"
           w == [local[a] EXCEPT !.sup = supRef, !.mark = TRUE]
<1>0. /\ Typed /\ RefsKept /\ OwnerKept /\ local[a] \in Locals
      /\ \A b \in Actor : InitializerKept(b) /\ TearingKept(b) /\ ClosingKept(b)
  BY ActorTyped DEF IInv
<1>1. /\ pc[a] = "clear" /\ queueRef = local[a].queue
      /\ queueRef' = 0 /\ queue' = <<>> /\ workerRef' = 0 /\ pending' = FALSE
      /\ pc' = [pc EXCEPT ![a] = l]
      /\ UNCHANGED <<initializing, cancelled, gate, gen, worker, supRef, sup, callbacks, firing>>
  BY DEF ClearState, OwnsRuntime, Go, close
<1>2. local' = [local EXCEPT ![a] = w]
  BY <1>0 DEF ClearState, Typed
<1>3. /\ l \in Point /\ l \in Closing /\ l = "close"
      /\ l \notin Unsettled \cup Tearing \cup {"finally"} /\ l \notin Opening \cup Building
      /\ pc[a] \in Tearing /\ pc[a] \in {"schedule", "joining", "clear"}
  BY <1>1 DEF Point, Unsettled, Building, Tearing, Opening, Closing
<1>4. /\ local[a].queue \in 1..gen /\ gate /\ workerRef # 0 /\ worker.at # "unstarted"
      /\ ~WorkerAlive /\ queueRef # 0
  BY <1>0, <1>1, <1>3 DEF TearingKept, Typed
<1>5. w \in Locals /\ w.queue = local[a].queue /\ w.sup = supRef
  BY <1>0 DEF Locals, Typed
<1>6. \A b \in Actor : pc[b] \notin Unsettled /\ ~ClosesNothing(b)
  BY <1>0, <1>4 DEF InitializerKept, ClosingKept, Unsettled
<1> HIDE DEF l, w
<1>7. Moves(a, l, w) BY <1>1, <1>2 DEF Moves
<1>8. /\ pc' \in [Actor -> Point] /\ local' \in [Actor -> Locals]
      /\ pc'[a] = l /\ local'[a] = w
      /\ \A b \in Actor \ {a} : pc'[b] = pc[b] /\ local'[b] = local[b]
  BY <1>0, <1>3, <1>5, <1>7, Moved
<1>10. Typed' BY <1>0, <1>1, <1>8 DEF Typed, Locals
<1>11. RefsKept' BY <1>1, <1>4 DEF RefsKept, WorkerAlive
<1>12. OwnerKept' BY <1>0, <1>1 DEF OwnerKept
<1>13. ~Initializer(a)' BY <1>3, <1>4, <1>5, <1>8 DEF Initializer
<1>14. ASSUME NEW b \in Actor PROVE InitializerKept(b)' /\ TearingKept(b)' /\ ClosingKept(b)'
  <2>1. CASE b = a
    <3>1. InitializerKept(a)'
      BY <1>3, <1>8, <1>13 DEF InitializerKept, Unsettled, Opening, Building
    <3>2. TearingKept(a)' BY <1>3, <1>8 DEF TearingKept
    <3>3. ClosingKept(a)'
      BY <1>0, <1>1, <1>4, <1>5, <1>8
      DEF ClosingKept, ClosesNothing, OwnerKept, Typed, Bound, Orphaned
    <3> QED BY <2>1, <3>1, <3>2, <3>3
  <2>2. CASE b # a
    <3>1. pc'[b] = pc[b] /\ local'[b] = local[b] /\ pc[b] \notin Unsettled /\ ~ClosesNothing(b)'
      BY <1>6, <1>8, <2>2 DEF ClosesNothing
    <3>2. InitializerKept(b)'
      BY <1>0, <1>1, <3>1 DEF InitializerKept, Initializer, Unsettled, Opening, Building
    <3>3. TearingKept(b)' BY <1>0, <1>1, <3>1 DEF TearingKept
    <3>4. ClosingKept(b)' BY <1>0, <1>1, <3>1 DEF ClosingKept
    <3> QED BY <3>2, <3>3, <3>4
  <2> QED BY <2>1, <2>2
<1>15. \A b, c \in Actor : b # c => Apart(b, c)'
  BY <1>1, <1>3, <1>5, <1>6, <1>7, <1>13, ApartMoves
<1> QED BY <1>10, <1>11, <1>12, <1>14, <1>15, Gathered

\* _finish_embedding_runtime_close drops the reference only to an owner that was
\* released, and opens the gate only when no generation is left.
LEMMA FinishCloseKeeps ==
  ASSUME IInv, NEW s \in Nat, NEW m, FinishClose(s, m), UNCHANGED queueRef,
         s # 0 /\ supRef = s => sup.at \notin Bound,
         s = 0 => sup.at \notin Bound
  PROVE  /\ supRef' \in Nat /\ gate' \in BOOLEAN
         /\ supRef' = supRef \/ (supRef' = 0 /\ sup.at \notin Bound)
         /\ gate' => gate
         /\ gate' # gate => queueRef = 0 /\ (s # 0 => supRef # 0)
<1>1. supRef \in Nat /\ gate \in BOOLEAN BY DEF IInv, Typed
<1>2. CASE s # 0 /\ supRef # s BY <1>1, <1>2 DEF FinishClose
<1>3. CASE ~(s # 0 /\ supRef # s)
  <2>1. supRef' = 0 /\ sup.at \notin Bound BY <1>3 DEF FinishClose
  <2>2. CASE queueRef # 0
    <3>1. gate' = gate BY <1>3, <2>2 DEF FinishClose
    <3> QED BY <1>1, <2>1, <3>1
  <2>3. CASE queueRef = 0
    <3>1. gate' = FALSE BY <1>3, <2>3 DEF FinishClose
    <3> QED BY <1>1, <1>3, <2>1, <2>3, <3>1
  <2> QED BY <2>2, <2>3
<1> QED BY <1>2, <1>3

\* What the closing of an owner leaves of the invariant of one actor.
LEMMA ClosingKeepsActor ==
  ASSUME IInv, NEW b \in Actor, pc'[b] = pc[b], local'[b] = local[b],
         UNCHANGED <<initializing, cancelled, gen, queueRef, workerRef, worker, sup>>,
         supRef' = supRef \/ supRef' = 0, gate' \in BOOLEAN, gate' => gate,
         gate' # gate => queueRef = 0 /\ ~ClosesNothing(b)
  PROVE  InitializerKept(b)' /\ TearingKept(b)' /\ ClosingKept(b)'
<1>0. InitializerKept(b) /\ TearingKept(b) /\ ClosingKept(b) /\ gate \in BOOLEAN
  BY DEF IInv, Typed
<1>1. InitializerKept(b)' BY <1>0 DEF InitializerKept, Initializer, Opening, Building
<1>2. TearingKept(b)'
  <2>1. CASE gate' = gate BY <1>0, <2>1 DEF TearingKept, WorkerAlive
  <2>2. CASE gate' # gate
    <3>1. pc[b] \in Tearing => local[b].queue \in 1..gen /\ queueRef # local[b].queue
      BY <1>0, <2>2 DEF TearingKept
    <3> QED BY <1>0, <3>1 DEF TearingKept
  <2> QED BY <2>1, <2>2
<1>3. ClosingKept(b)'
  <2>1. CASE gate' = gate BY <1>0, <2>1 DEF ClosingKept, ClosesNothing
  <2>2. CASE gate' # gate BY <1>0, <2>2 DEF ClosingKept, ClosesNothing
  <2> QED BY <2>1, <2>2
<1> QED BY <1>1, <1>2, <1>3

LEMMA CloseReleasedStep ==
  ASSUME IInv, NEW a \in Actor, CloseReleased(a)
  PROVE  IInv'
<1> DEFINE l == "unscrub"
           s == local[a].sup
<1>0. /\ Typed /\ RefsKept /\ OwnerKept /\ local[a] \in Locals
      /\ local = [local EXCEPT ![a] = local[a]]
      /\ \A b \in Actor : InitializerKept(b) /\ TearingKept(b) /\ ClosingKept(b)
  BY ActorTyped DEF IInv
<1>1. /\ pc[a] = "close" /\ FinishClose(s, local[a].mark)
      /\ s = 0 \/ (sup.gen = s /\ sup.at = "released") \/ sup.gen > s
      /\ Go(a, l)
      /\ UNCHANGED <<initializing, cancelled, gen, queueRef, workerRef, pending, queue, worker,
                     sup, callbacks, firing, local>>
  BY DEF CloseReleased, work
<1>2. s \in Nat /\ sup.gen \in Nat BY <1>0 DEF Locals, Typed
<1>3. s = 0 => ClosesNothing(a) /\ sup.at \notin Bound
  BY <1>0, <1>1 DEF ClosingKept, ClosesNothing
<1>4. s # 0 /\ supRef = s => sup.at \notin Bound
  BY <1>0, <1>1, <1>2 DEF OwnerKept, Bound
<1>5. /\ l \in Point /\ l \in Closing /\ l # "close" /\ l \notin Unsettled \cup Tearing \cup {"finally"}
      /\ l \notin Opening \cup Building /\ pc[a] \in Closing /\ pc[a] \notin Unsettled
  BY <1>1 DEF Point, Unsettled, Building, Tearing, Opening, Closing
<1> HIDE DEF l, s
<1>6. /\ supRef' \in Nat /\ gate' \in BOOLEAN
      /\ supRef' = supRef \/ (supRef' = 0 /\ sup.at \notin Bound)
      /\ gate' => gate
      /\ gate' # gate => queueRef = 0 /\ (s # 0 => supRef # 0)
  BY <1>1, <1>2, <1>3, <1>4, FinishCloseKeeps
<1>7. Moves(a, l, local[a]) BY <1>0, <1>1 DEF Moves, Go
<1>8. /\ pc' \in [Actor -> Point] /\ local' \in [Actor -> Locals]
      /\ pc'[a] = l /\ local'[a] = local[a]
      /\ \A b \in Actor \ {a} : pc'[b] = pc[b] /\ local'[b] = local[b]
  BY <1>0, <1>5, <1>7, Moved
<1>9. Typed' BY <1>0, <1>1, <1>6, <1>8 DEF Typed, Locals
<1>10. RefsKept'
  <2>1. (\E b \in Actor : pc[b] \in Unsettled) => \E b \in Actor : pc'[b] \in Unsettled
    BY <1>5, <1>8
  <2> QED BY <1>0, <1>1, <2>1 DEF RefsKept, WorkerAlive
<1>11. OwnerKept' BY <1>0, <1>1, <1>2, <1>6 DEF OwnerKept, Typed, Orphaned
<1>12. Initializer(a)' => Initializer(a) BY <1>5, <1>8 DEF Initializer
<1>13. ASSUME NEW b \in Actor PROVE InitializerKept(b)' /\ TearingKept(b)' /\ ClosingKept(b)'
  <2>1. CASE b = a
    <3>1. InitializerKept(a)'
      BY <1>0, <1>1, <1>5, <1>8, <1>12 DEF InitializerKept, Unsettled, Opening, Building
    <3>2. TearingKept(a)' BY <1>5, <1>8 DEF TearingKept
    <3>3. ClosingKept(a)' BY <1>5, <1>8 DEF ClosingKept, ClosesNothing
    <3> QED BY <2>1, <3>1, <3>2, <3>3
  <2>2. CASE b # a
    <3>1. pc'[b] = pc[b] /\ local'[b] = local[b] BY <1>8, <2>2
    <3>2. gate' # gate => ~ClosesNothing(b)
      <4>1. CASE s = 0
        <5>1. Apart(a, b) BY <2>2 DEF IInv
        <5> QED BY <1>3, <4>1, <5>1 DEF Apart
      <4>2. CASE s # 0 BY <1>0, <1>6, <4>2 DEF ClosingKept
      <4> QED BY <4>1, <4>2
    <3> QED BY <1>1, <1>6, <3>1, <3>2, ClosingKeepsActor
  <2> QED BY <2>1, <2>2
<1>14. \A b, c \in Actor : b # c => Apart(b, c)'
  BY <1>0, <1>1, <1>5, <1>7, <1>12, ApartMoves
<1> QED BY <1>9, <1>10, <1>11, <1>13, <1>14, Gathered

\* An owner that is not released is the one the thread remembered: nobody is
\* building on it.
LEMMA CloseOwnedStep ==
  ASSUME IInv, NEW a \in Actor, CloseOwned(a)
  PROVE  IInv'
<1> DEFINE l == "unscrub"
           x == [sup |-> local[a].sup, mark |-> local[a].mark]
<1>0. /\ Typed /\ RefsKept /\ OwnerKept /\ local[a] \in Locals
      /\ local = [local EXCEPT ![a] = local[a]]
      /\ \A b \in Actor : InitializerKept(b) /\ TearingKept(b) /\ ClosingKept(b)
  BY ActorTyped DEF IInv
<1>1. /\ pc[a] = "close" /\ sup.gen = local[a].sup /\ sup.at # "released"
      /\ ClosesOwned /\ callbacks' = Append(callbacks, x)
      /\ Go(a, l)
      /\ UNCHANGED <<initializing, cancelled, gate, gen, queueRef, workerRef, pending, queue,
                     worker, supRef, firing, local>>
  BY DEF CloseOwned, life, work
<1>2. /\ sup' \in [gen : Nat, at : SupervisorAt]
      /\ sup'.gen = sup.gen /\ sup'.at \in Bound /\ sup'.at \notin Orphaned
      /\ sup.at \in Bound /\ sup.gen \in Nat /\ sup.gen # 0
  <2>1. sup.at \in SupervisorAt /\ sup.gen \in Nat BY <1>0 DEF Typed
  <2>2. sup.at \notin Orphaned BY <1>0, <1>1 DEF ClosingKept
  <2> QED BY <1>0, <1>1, <2>1, <2>2, ClosesBound DEF OwnerKept, SupervisorAt
<1>3. x \in Callback /\ x.sup = sup.gen BY <1>0, <1>1 DEF Callback, Locals
<1>4. /\ l \in Point /\ l \in Closing /\ l # "close" /\ l \notin Unsettled \cup Tearing \cup {"finally"}
      /\ l \notin Opening \cup Building /\ pc[a] \in Closing /\ pc[a] \notin Unsettled
  BY <1>1 DEF Point, Unsettled, Building, Tearing, Opening, Closing
<1> HIDE DEF l, x
<1>5. Moves(a, l, local[a]) BY <1>0, <1>1 DEF Moves, Go
<1>6. /\ pc' \in [Actor -> Point] /\ local' \in [Actor -> Locals]
      /\ pc'[a] = l /\ local'[a] = local[a]
      /\ \A b \in Actor \ {a} : pc'[b] = pc[b] /\ local'[b] = local[b]
  BY <1>0, <1>4, <1>5, Moved
<1>7. /\ callbacks' \in Seq(Callback)
      /\ \A i \in DOMAIN callbacks' :
           callbacks'[i] = x \/ \E j \in DOMAIN callbacks : callbacks'[i] = callbacks[j]
  <2>1. callbacks \in Seq(Callback) /\ callbacks' = Append(callbacks, x)
    BY <1>0, <1>1 DEF Typed
  <2> QED BY <1>3, <2>1, AppendElements
<1>8. Typed' BY <1>0, <1>1, <1>2, <1>6, <1>7 DEF Typed, Locals
<1>9. RefsKept'
  <2>1. (\E b \in Actor : pc[b] \in Unsettled) => \E b \in Actor : pc'[b] \in Unsettled
    BY <1>4, <1>6
  <2> QED BY <1>0, <1>1, <2>1 DEF RefsKept, WorkerAlive
<1>10. \A i \in DOMAIN callbacks' : callbacks'[i].sup \in 1..sup.gen
  BY <1>0, <1>2, <1>3, <1>7 DEF OwnerKept
<1>11. OwnerKept' BY <1>0, <1>1, <1>2, <1>10 DEF OwnerKept
<1>12. Initializer(a)' => Initializer(a) BY <1>4, <1>6 DEF Initializer
<1>13. ASSUME NEW b \in Actor PROVE InitializerKept(b)' /\ TearingKept(b)' /\ ClosingKept(b)'
  <2>1. CASE b = a
    <3>1. InitializerKept(a)'
      BY <1>0, <1>1, <1>4, <1>6, <1>12 DEF InitializerKept, Unsettled, Opening, Building
    <3>2. TearingKept(a)' BY <1>4, <1>6 DEF TearingKept
    <3>3. ClosingKept(a)' BY <1>4, <1>6 DEF ClosingKept, ClosesNothing
    <3> QED BY <2>1, <3>1, <3>2, <3>3
  <2>2. CASE b # a
    <3>1. pc'[b] = pc[b] /\ local'[b] = local[b] /\ Apart(a, b) BY <1>6, <2>2 DEF IInv
    <3>2. ~ClosesNothing(b) BY <1>0, <1>2 DEF ClosingKept
    <3>3. pc[b] # "identity"
      <4>1. "identity" \in Unsettled BY DEF Unsettled, Building
      <4> QED BY <1>0, <1>1, <3>1, <4>1 DEF Apart, InitializerKept
    <3>4. InitializerKept(b)'
      BY <1>0, <1>1, <1>2, <3>1, <3>3 DEF InitializerKept, Initializer
    <3>5. TearingKept(b)' BY <1>0, <1>1, <3>1 DEF TearingKept, WorkerAlive
    <3>6. ClosingKept(b)' BY <1>0, <1>1, <1>2, <3>1, <3>2 DEF ClosingKept, ClosesNothing
    <3> QED BY <3>4, <3>5, <3>6
  <2> QED BY <2>1, <2>2
<1>14. \A b, c \in Actor : b # c => Apart(b, c)'
  BY <1>0, <1>1, <1>4, <1>5, <1>12, ApartMoves
<1> QED BY <1>8, <1>9, <1>11, <1>13, <1>14, Gathered

\* The child was reaped: the callbacks on their way name this owner or an older one.
LEMMA SupervisorReleasedStep ==
  ASSUME IInv, SupervisorReleased
  PROVE  IInv'
<1>0. /\ Typed /\ RefsKept /\ OwnerKept
      /\ \A b \in Actor : InitializerKept(b) /\ TearingKept(b) /\ ClosingKept(b)
      /\ \A b, c \in Actor : b # c => Apart(b, c)
  BY DEF IInv
<1>1. /\ sup.at \in {"closing", "reaping"} /\ sup' = [sup EXCEPT !.at = "released"]
      /\ firing' = firing \o callbacks /\ callbacks' = <<>>
      /\ UNCHANGED <<initializing, cancelled, gate, gen, queueRef, workerRef, pending, worker,
                     supRef, pc, local>>
  BY DEF SupervisorReleased, life, work
<1>2. /\ sup' \in [gen : Nat, at : SupervisorAt]
      /\ sup'.gen = sup.gen /\ sup'.at = "released"
      /\ sup'.at \notin Bound \cup Orphaned
  BY <1>0, <1>1 DEF Typed, SupervisorAt, Bound, Orphaned
<1>3. /\ firing' \in Seq(Callback)
      /\ \A i \in DOMAIN firing' :
           \/ \E j \in DOMAIN firing : firing'[i] = firing[j]
           \/ \E j \in DOMAIN callbacks : firing'[i] = callbacks[j]
  <2>1. firing \in Seq(Callback) /\ callbacks \in Seq(Callback) /\ firing' = firing \o callbacks
    BY <1>0, <1>1 DEF Typed
  <2>2. ASSUME NEW s \in Seq(Callback), NEW t \in Seq(Callback), NEW r, r = s \o t
        PROVE  /\ r \in Seq(Callback)
               /\ \A i \in DOMAIN r : \/ \E j \in DOMAIN s : r[i] = s[j]
                                     \/ \E j \in DOMAIN t : r[i] = t[j]
    <3>1. /\ s \o t \in Seq(Callback)
          /\ \A i \in DOMAIN (s \o t) : \/ \E j \in DOMAIN s : (s \o t)[i] = s[j]
                                       \/ \E j \in DOMAIN t : (s \o t)[i] = t[j]
      BY ConcatElements
    <3> QED BY <2>2, <3>1, Zenon
  <2> QED BY <2>1, <2>2
<1>4. callbacks' \in Seq(Callback) /\ DOMAIN callbacks' = {} BY <1>1
<1>5. Typed' BY <1>0, <1>1, <1>2, <1>3, <1>4 DEF Typed
<1>6. RefsKept' BY <1>0, <1>1 DEF RefsKept, WorkerAlive
<1>7. \A i \in DOMAIN firing' : firing'[i].sup \in 1..sup.gen
  BY <1>0, <1>3 DEF OwnerKept
<1>8. OwnerKept' BY <1>0, <1>1, <1>2, <1>4, <1>7 DEF OwnerKept
<1>9. ASSUME NEW b \in Actor PROVE InitializerKept(b)' /\ TearingKept(b)' /\ ClosingKept(b)'
  <2>1. InitializerKept(b)' BY <1>0, <1>1, <1>2 DEF InitializerKept, Initializer
  <2>2. TearingKept(b)' BY <1>0, <1>1 DEF TearingKept, WorkerAlive
  <2>3. ClosingKept(b)' BY <1>0, <1>1, <1>2 DEF ClosingKept, ClosesNothing
  <2> QED BY <2>1, <2>2, <2>3
<1>10. ASSUME NEW b \in Actor, NEW c \in Actor, b # c PROVE Apart(b, c)'
  BY <1>0, <1>1, <1>10 DEF Apart, Initializer, ClosesNothing
<1> QED BY <1>5, <1>6, <1>8, <1>9, <1>10, Gathered

\* A callback runs for an owner that was released, however late.
LEMMA FireCallbackStep ==
  ASSUME IInv, FireCallback
  PROVE  IInv'
<1>0. /\ Typed /\ RefsKept /\ OwnerKept
      /\ \A b \in Actor : InitializerKept(b) /\ TearingKept(b) /\ ClosingKept(b)
      /\ \A b, c \in Actor : b # c => Apart(b, c)
  BY DEF IInv
<1>1. PICK i \in DOMAIN firing :
        FinishClose(firing[i].sup, firing[i].mark) /\ firing' = RemoveAt(firing, i)
  BY DEF FireCallback
<1>2. UNCHANGED <<initializing, cancelled, gen, queueRef, workerRef, pending, worker, sup,
                  callbacks, pc, local>>
  BY DEF FireCallback, work
<1> DEFINE s == firing[i].sup
<1>3. s \in Nat /\ s # 0 /\ (sup.at # "released" => s # sup.gen)
  <2>1. s \in 1..sup.gen /\ sup.gen \in Nat /\ (sup.at # "released" => s # sup.gen)
    BY <1>0 DEF OwnerKept, Typed
  <2> QED BY <2>1
<1>4. supRef = s => sup.at \notin Bound BY <1>0, <1>3 DEF OwnerKept, Bound
<1>5. FinishClose(s, firing[i].mark) BY <1>1
<1> HIDE DEF s
<1>6. /\ supRef' \in Nat /\ gate' \in BOOLEAN
      /\ supRef' = supRef \/ (supRef' = 0 /\ sup.at \notin Bound)
      /\ gate' => gate
      /\ gate' # gate => queueRef = 0 /\ (s # 0 => supRef # 0)
  BY <1>2, <1>3, <1>4, <1>5, FinishCloseKeeps
<1>7. /\ firing' \in Seq(Callback)
      /\ \A k \in DOMAIN firing' : \E j \in DOMAIN firing : firing'[k] = firing[j]
  <2>1. firing \in Seq(Callback) BY <1>0 DEF Typed
  <2> QED BY <1>1, <2>1, RemoveAtElements
<1>8. Typed' BY <1>0, <1>2, <1>6, <1>7 DEF Typed
<1>9. RefsKept' BY <1>0, <1>2 DEF RefsKept, WorkerAlive
<1>10. \A k \in DOMAIN firing' :
         firing'[k].sup \in 1..sup.gen /\ (sup.at # "released" => firing'[k].sup # sup.gen)
  BY <1>0, <1>7 DEF OwnerKept
<1>11. OwnerKept' BY <1>0, <1>2, <1>6, <1>10 DEF OwnerKept, Typed
<1>12. ASSUME NEW b \in Actor PROVE InitializerKept(b)' /\ TearingKept(b)' /\ ClosingKept(b)'
  <2>1. pc'[b] = pc[b] /\ local'[b] = local[b] BY <1>2
  <2>2. gate' # gate => ~ClosesNothing(b) BY <1>0, <1>3, <1>6 DEF ClosingKept
  <2> QED BY <1>2, <1>6, <2>1, <2>2, ClosingKeepsActor
<1>13. ASSUME NEW b \in Actor, NEW c \in Actor, b # c PROVE Apart(b, c)'
  BY <1>0, <1>2, <1>13 DEF Apart, Initializer, ClosesNothing
<1> QED BY <1>8, <1>9, <1>11, <1>12, <1>13, Gathered

-----------------------------------------------------------------------------
(* sync_turn() and the worker.                                               *)

LEMMA ProducerStep ==
  ASSUME IInv, Produce \/ Overflow
  PROVE  IInv'
<1>1. UNCHANGED shared /\ UNCHANGED <<pending, pc, local>>
  BY DEF Produce, Overflow, SyncTurnRejected, SyncTurn, DropOldest, PutAfterDrop, life, close,
         shared
<1> QED BY <1>1, NothingMoves

\* Every step of the loop but the last leaves a running worker; none starts one.
LEMMA WorkerStep ==
  ASSUME IInv, WorkerLoop
  PROVE  IInv'
<1>1. UNCHANGED <<initializing, cancelled, gate, gen, queueRef, workerRef, pending,
                  supRef, sup, callbacks, firing, pc, local>>
  BY DEF WorkerLoop, WorkerGets, WorkerTimesOut, WorkerChecksGate, WorkerFills,
         WorkerStartsTurn, WorkerEndsTurn, WorkerEndsBatch, life, close
<1>2. WorkerAlive
  BY DEF WorkerLoop, WorkerGets, WorkerTimesOut, WorkerChecksGate, WorkerFills,
         WorkerStartsTurn, WorkerEndsTurn, WorkerEndsBatch, WorkerAlive
<1>3. worker = [gen |-> worker.gen, at |-> worker.at, taken |-> worker.taken]
  BY DEF IInv, Typed
<1>4. \E p \in {"get", "empty", "fill", "next", "turn", "drained", "left"} : \E t :
        worker' = [gen |-> worker.gen, at |-> p, taken |-> t]
  <2>1. CASE WorkerGets BY <1>3, <2>1 DEF WorkerGets
  <2>2. CASE WorkerTimesOut BY <1>3, <2>2 DEF WorkerTimesOut, WorkerAt
  <2>3. CASE WorkerChecksGate BY <1>3, <2>3 DEF WorkerChecksGate, WorkerAt
  <2>4. CASE WorkerFills BY <1>3, <2>4 DEF WorkerFills, WorkerAt
  <2>5. CASE WorkerStartsTurn BY <1>3, <2>5 DEF WorkerStartsTurn, WorkerAt
  <2>6. CASE \E fate \in Fates : WorkerEndsTurn(fate) BY <1>3, <2>6 DEF WorkerEndsTurn
  <2>7. CASE WorkerEndsBatch BY <1>3, <2>7 DEF WorkerEndsBatch
  <2> QED BY <2>1, <2>2, <2>3, <2>4, <2>5, <2>6, <2>7 DEF WorkerLoop
<1>5. PICK p \in {"get", "empty", "fill", "next", "turn", "drained", "left"} : \E t :
        worker' = [gen |-> worker.gen, at |-> p, taken |-> t]
  BY <1>4
<1>6. PICK t : worker' = [gen |-> worker.gen, at |-> p, taken |-> t] BY <1>5
<1>7. p \in WorkerPoint /\ p # "unstarted" BY DEF WorkerPoint
<1> QED BY <1>1, <1>2, <1>6, <1>7, WorkMoves

-----------------------------------------------------------------------------
(* The invariant, and what it says.                                          *)

LEMMA InitKept == Init => IInv
<1> SUFFICES ASSUME Init PROVE IInv OBVIOUS
<1>1. /\ "idle" \in Point
      /\ "idle" \notin Unsettled \cup Tearing \cup Closing \cup {"finally", "close"}
      /\ "none" \in WorkerPoint
  BY DEF Point, Unsettled, Opening, Building, Tearing, Closing, WorkerPoint
<1>2. pc \in [Actor -> Point] /\ \A a \in Actor : pc[a] = "idle" BY <1>1 DEF Init
<1>3. local \in [Actor -> Locals] BY DEF Init, Locals, NoLocals
<1>4. Typed
  <2>1. worker.gen = 0 /\ worker.at = "none" /\ worker.taken = <<>>
        /\ worker = [gen |-> 0, at |-> "none", taken |-> <<>>]
    BY DEF Init
  <2>2. callbacks \in Seq(Callback) /\ firing \in Seq(Callback) BY DEF Init
  <2>3. sup \in [gen : Nat, at : SupervisorAt] BY DEF Init, SupervisorAt
  <2>4. worker.gen \in Nat /\ worker.at \in WorkerPoint BY <1>1, <2>1
  <2>5. worker = [gen |-> worker.gen, at |-> worker.at, taken |-> worker.taken] BY <2>1
  <2> QED BY <1>2, <1>3, <2>2, <2>3, <2>4, <2>5 DEF Typed, Init, Locals
<1>5. RefsKept BY DEF Init, RefsKept, WorkerAlive
<1>6. OwnerKept
  <2>1. DOMAIN callbacks = {} /\ DOMAIN firing = {} BY DEF Init
  <2> QED BY <2>1 DEF Init, OwnerKept, Bound, Orphaned
<1>7. ASSUME NEW a \in Actor PROVE InitializerKept(a) /\ TearingKept(a) /\ ClosingKept(a)
  <2>1. ~Initializer(a) /\ ~ClosesNothing(a) BY <1>1, <1>2 DEF Initializer, ClosesNothing
  <2>2. InitializerKept(a) BY <1>1, <1>2, <2>1 DEF InitializerKept, Unsettled, Opening, Building
  <2>3. TearingKept(a) BY <1>1, <1>2 DEF TearingKept
  <2>4. ClosingKept(a) BY <1>2, <2>1 DEF ClosingKept
  <2> QED BY <2>2, <2>3, <2>4
<1>8. ASSUME NEW a \in Actor, NEW b \in Actor PROVE Apart(a, b)
  BY <1>1, <1>2 DEF Apart, Initializer, ClosesNothing
<1> QED BY <1>4, <1>5, <1>6, <1>7, <1>8 DEF IInv

LEMMA InitializeStep ==
  ASSUME IInv, NEW a \in Actor, InitClaim(a) \/ Initialize(a)
  PROVE  IInv'
  BY InitClaimStep, InitSetupStep, InitScrubStep, InitBindStep, InitBindFailsStep,
     InitGoesOnStep, InitUnreadyStep, InitPublishStep, InitAbandonStep, InitFinallyStep DEF Initialize

LEMMA ShutdownStep ==
  ASSUME IInv, NEW a \in Actor, Shutdown(a)
  PROVE  IInv'
  BY ShutdownCancelsInitStep, ShutdownRequestStep, ShutdownRetryStep DEF Shutdown

LEMMA TeardownStep ==
  ASSUME IInv, NEW a \in Actor, Teardown(a)
  PROVE  IInv'
<1>1. CASE \E c \in Cleaner : Schedule(a, c) BY <1>1, ScheduleStep
<1>2. CASE ~\E c \in Cleaner : Schedule(a, c)
  BY <1>2, SentinelStep, JoinStep, JoinTimesOutStep, UnneededStep, GivesUpStep, ClearStateStep,
     CloseReleasedStep, CloseOwnedStep, ScrubStep DEF Teardown
<1> QED BY <1>1, <1>2

(* The inductive invariant of SyncLifecycle holds in every reachable state:  *)
(* the references of the provider name its current generation or nothing,    *)
(* one thread at most is inside initialize(), a thread that shuts a          *)
(* generation down finds it as it left it or not at all, and only a thread   *)
(* that remembered no embedding owner may drop a reference it does not know. *)
THEOREM InductiveInvariant == Spec => []IInv
<1>1. IInv /\ [Next]_vars => IInv'
  <2> SUFFICES ASSUME IInv, [Next]_vars PROVE IInv' OBVIOUS
  <2>1. CASE UNCHANGED vars
    <3>1. UNCHANGED shared /\ UNCHANGED <<pending, pc, local>>
      BY <2>1 DEF vars, life, work, close, shared
    <3> QED BY <3>1, NothingMoves
  <2>2. ASSUME NEW a \in Actor,
               InitClaim(a) \/ Initialize(a) \/ Shutdown(a) \/ Teardown(a)
        PROVE  IInv'
    BY <2>2, InitializeStep, ShutdownStep, TeardownStep
  <2>3. CASE SupervisorReleased \/ FireCallback
    BY <2>3, SupervisorReleasedStep, FireCallbackStep
  <2>4. CASE Produce \/ Overflow \/ WorkerLoop BY <2>4, ProducerStep, WorkerStep
  <2> QED BY <2>1, <2>2, <2>3, <2>4 DEF Next
<1> QED BY InitKept, <1>1, PTL DEF Spec

(* The queue, the configuration and the worker reference stay as long as the *)
(* worker thread runs, however early the bounded join of shutdown() gave up, *)
(* and initialize() starts no generation before it has ended.                *)
THEOREM RuntimeOutlivesWorker == Spec => []WorkerKeepsRuntime
<1>1. IInv => WorkerKeepsRuntime BY DEF IInv, RefsKept, WorkerKeepsRuntime
<1> QED BY InductiveInvariant, <1>1, PTL

(* A provider that bound the embedding process keeps the reference it needs  *)
(* to close it: neither a late close callback of an earlier generation nor a *)
(* thread that closed nothing drops it, whichever binds failed before and    *)
(* left the process-wide owner claimed.                                      *)
THEOREM OwnerNeverForgotten == Spec => []OwnedSupervisorKept
<1>1. IInv => OwnedSupervisorKept BY DEF IInv, OwnerKept, OwnedSupervisorKept
<1> QED BY InductiveInvariant, <1>1, PTL

-----------------------------------------------------------------------------
(* The second invariant: every turn is accounted for. First, sequences of    *)
(* queue entries and what the ledger counts.                                 *)

Waiting == {"queued", "running"}
TurnRec == [gen : Nat, fate : Fates \cup Waiting]

\* How many turns of generation g have a fate in F.
Count(s, g, F) == Cardinality({t \in DOMAIN s : s[t].gen = g /\ s[t].fate \in F})

\* No turn twice, and nothing but sentinels behind a sentinel.
Line(s) ==
  \A i, j \in DOMAIN s : i < j =>
    /\ s[i] = Sentinel => s[j] = Sentinel
    /\ s[i] = s[j] => s[i] = Sentinel

SentinelLast(s) == \A i \in DOMAIN s : s[i] = Sentinel => i = Len(s)

LEMMA LineEmpty ==
  /\ <<>> \in Seq(Nat) /\ Line(<<>>) /\ SentinelLast(<<>>) /\ ToSet(<<>>) = {}
  BY DEF Line, SentinelLast, ToSet

LEMMA LineSingle ==
  ASSUME NEW x \in Nat
  PROVE  /\ <<x>> \in Seq(Nat) /\ Line(<<x>>) /\ SentinelLast(<<x>>) /\ ToSet(<<x>>) = {x}
         /\ <<x>> # <<>> /\ <<x>>[1] = x
<1>1. DOMAIN <<x>> = {1} /\ <<x>>[1] = x /\ Len(<<x>>) = 1 /\ <<x>> \in Seq(Nat) OBVIOUS
<1> QED BY <1>1 DEF Line, SentinelLast, ToSet

LEMMA LineTail ==
  ASSUME NEW s \in Seq(Nat), s # <<>>, Line(s)
  PROVE  /\ Head(s) = s[1] /\ Head(s) \in Nat /\ Tail(s) \in Seq(Nat) /\ Line(Tail(s))
         /\ ToSet(s) = {Head(s)} \cup ToSet(Tail(s))
         /\ Head(s) \in ToSet(Tail(s)) => Head(s) = Sentinel
         /\ Head(s) = Sentinel => ToSet(Tail(s)) \subseteq {Sentinel}
         /\ SentinelLast(s) => SentinelLast(Tail(s)) /\ (Head(s) = Sentinel => s = <<Sentinel>>)
<1> DEFINE u == Tail(s)
<1>1. /\ Len(s) \in Nat /\ Len(s) > 0 /\ Head(s) = s[1] /\ s[1] \in Nat
      /\ u \in Seq(Nat) /\ Len(u) = Len(s) - 1 /\ \A i \in 1..(Len(s) - 1) : u[i] = s[i + 1]
  OBVIOUS
<1> HIDE DEF u
<1>2. DOMAIN s = 1..Len(s) /\ DOMAIN u = 1..(Len(s) - 1) BY <1>1
<1>3. \A i \in DOMAIN u : u[i] = s[i + 1] /\ i + 1 \in DOMAIN s /\ 1 < i + 1 BY <1>1, <1>2
<1>4. 1 \in DOMAIN s BY <1>1, <1>2
<1>5. Line(u)
  <2> SUFFICES ASSUME NEW i \in DOMAIN u, NEW j \in DOMAIN u, i < j
               PROVE  /\ u[i] = Sentinel => u[j] = Sentinel
                      /\ u[i] = u[j] => u[i] = Sentinel
    BY DEF Line
  <2>1. i + 1 \in DOMAIN s /\ j + 1 \in DOMAIN s /\ i + 1 < j + 1 BY <1>1, <1>2, <1>3
  <2> QED BY <1>3, <2>1 DEF Line
<1>6. ToSet(s) = {s[1]} \cup ToSet(u)
  <2>1. ASSUME NEW i \in DOMAIN s PROVE s[i] \in {s[1]} \cup ToSet(u)
    <3>1. CASE i = 1 BY <3>1
    <3>2. CASE i # 1
      <4>1. i - 1 \in 1..(Len(s) - 1) /\ (i - 1) + 1 = i BY <1>1, <1>2, <3>2
      <4>2. u[i - 1] = s[i] BY <1>1, <4>1
      <4> QED BY <1>2, <4>1, <4>2 DEF ToSet
    <3> QED BY <3>1, <3>2
  <2> QED BY <1>3, <1>4, <2>1 DEF ToSet
<1>7. \A i \in DOMAIN u : u[i] = s[1] => s[1] = Sentinel BY <1>3, <1>4 DEF Line
<1>8. \A i \in DOMAIN u : s[1] = Sentinel => u[i] = Sentinel BY <1>3, <1>4 DEF Line
<1>9. ASSUME SentinelLast(s) PROVE SentinelLast(u) /\ (s[1] = Sentinel => s = <<Sentinel>>)
  <2>1. ASSUME NEW i \in DOMAIN u, u[i] = Sentinel PROVE i = Len(u)
    <3>1. i + 1 = Len(s) BY <1>3, <1>9, <2>1 DEF SentinelLast
    <3> QED BY <1>1, <1>2, <3>1
  <2>2. ASSUME s[1] = Sentinel PROVE s = <<Sentinel>>
    <3>1. Len(s) = 1 BY <1>4, <1>9, <2>2 DEF SentinelLast
    <3> QED BY <2>2, <3>1
  <2> QED BY <2>1, <2>2 DEF SentinelLast
<1> QED BY <1>1, <1>5, <1>6, <1>7, <1>8, <1>9 DEF ToSet, u

LEMMA LineAppend ==
  ASSUME NEW s \in Seq(Nat), Line(s), NEW x \in Nat,
         x = Sentinel \/ (x \notin ToSet(s) /\ Sentinel \notin ToSet(s))
  PROVE  /\ Append(s, x) \in Seq(Nat) /\ Line(Append(s, x))
         /\ ToSet(Append(s, x)) = ToSet(s) \cup {x}
         /\ Append(s, x) # <<>>
         /\ s # <<>> => Append(s, x)[1] = s[1]
         /\ Sentinel \notin ToSet(s) => SentinelLast(Append(s, x))
<1> DEFINE u == Append(s, x)
<1>1. /\ Len(s) \in Nat /\ u \in Seq(Nat) /\ Len(u) = Len(s) + 1 /\ u[Len(s) + 1] = x
      /\ \A i \in 1..Len(s) : u[i] = s[i]
  OBVIOUS
<1> HIDE DEF u
<1>2. DOMAIN s = 1..Len(s) /\ DOMAIN u = 1..(Len(s) + 1) BY <1>1
<1>3. ASSUME NEW i \in DOMAIN u
      PROVE  \/ i \in DOMAIN s /\ u[i] = s[i] /\ i <= Len(s)
             \/ i = Len(s) + 1 /\ u[i] = x
  <2>1. i \in Nat /\ (i \in 1..Len(s) \/ i = Len(s) + 1) BY <1>1, <1>2
  <2>2. CASE i \in 1..Len(s)
    <3>1. i <= Len(s) /\ i \in DOMAIN s BY <1>1, <1>2, <2>2
    <3>2. u[i] = s[i] BY <1>1, <2>2
    <3> QED BY <3>1, <3>2
  <2>3. CASE i = Len(s) + 1 BY <1>1, <2>3
  <2> QED BY <2>1, <2>2, <2>3
<1>4. ToSet(u) = ToSet(s) \cup {x}
  <2>1. \A i \in DOMAIN s : i \in DOMAIN u /\ u[i] = s[i] BY <1>1, <1>2
  <2>2. Len(s) + 1 \in DOMAIN u /\ u[Len(s) + 1] = x BY <1>1, <1>2
  <2> QED BY <1>3, <2>1, <2>2 DEF ToSet
<1>5. Line(u)
  <2> SUFFICES ASSUME NEW i \in DOMAIN u, NEW j \in DOMAIN u, i < j
               PROVE  /\ u[i] = Sentinel => u[j] = Sentinel
                      /\ u[i] = u[j] => u[i] = Sentinel
    BY DEF Line
  <2>1. i \in DOMAIN s /\ u[i] = s[i] BY <1>1, <1>2, <1>3
  <2>2. CASE j \in DOMAIN s /\ u[j] = s[j] BY <2>1, <2>2 DEF Line
  <2>3. CASE j = Len(s) + 1 /\ u[j] = x BY <2>1, <2>3 DEF ToSet
  <2> QED BY <1>3, <2>2, <2>3
<1>6. u # <<>> BY <1>1
<1>7. s # <<>> => u[1] = s[1] BY <1>1
<1>8. Sentinel \notin ToSet(s) => SentinelLast(u)
  BY <1>1, <1>3 DEF ToSet, SentinelLast
<1> QED BY <1>1, <1>4, <1>5, <1>6, <1>7, <1>8 DEF u

-----------------------------------------------------------------------------
LEMMA CountFinite ==
  ASSUME NEW S, NEW s \in Seq(S), NEW g, NEW F
  PROVE  /\ IsFiniteSet({t \in DOMAIN s : s[t].gen = g /\ s[t].fate \in F})
         /\ Count(s, g, F) \in Nat
<1>1. IsFiniteSet(1..Len(s)) BY FS_Interval
<1>2. IsFiniteSet(DOMAIN s) BY <1>1
<1>3. {t \in DOMAIN s : s[t].gen = g /\ s[t].fate \in F} \subseteq DOMAIN s OBVIOUS
<1>4. IsFiniteSet({t \in DOMAIN s : s[t].gen = g /\ s[t].fate \in F}) BY <1>2, <1>3, FS_Subset
<1> QED BY <1>4, FS_CardinalityType DEF Count

\* One turn more.
LEMMA CountGrows ==
  ASSUME NEW s \in Seq(TurnRec), NEW h \in Nat, NEW f \in Fates \cup Waiting, NEW g, NEW F
  PROVE  LET u == Append(s, [gen |-> h, fate |-> f]) IN
         /\ (h = g /\ f \in F) => Count(u, g, F) = Count(s, g, F) + 1
         /\ ~(h = g /\ f \in F) => Count(u, g, F) = Count(s, g, F)
<1> DEFINE x == [gen |-> h, fate |-> f]
           u == Append(s, x)
           A == {t \in DOMAIN s : s[t].gen = g /\ s[t].fate \in F}
           B == {t \in DOMAIN u : u[t].gen = g /\ u[t].fate \in F}
           n == Len(s) + 1
<1>1. x.gen = h /\ x.fate = f /\ x \in TurnRec BY DEF TurnRec
<1> HIDE DEF x
<1>2. /\ DOMAIN u = DOMAIN s \cup {n} /\ n \notin DOMAIN s /\ u[n] = x
      /\ \A t \in DOMAIN s : u[t] = s[t]
  BY <1>1
<1>3. IsFiniteSet(A) BY CountFinite
<1>4. n \notin A BY <1>2
<1> HIDE DEF u
<1>5. CASE h = g /\ f \in F
  <2>1. B = A \cup {n} BY <1>1, <1>2, <1>5
  <2> QED BY <1>3, <1>4, <1>5, <2>1, FS_AddElement DEF Count, u, x
<1>6. CASE ~(h = g /\ f \in F)
  <2>1. B = A BY <1>1, <1>2, <1>6
  <2> QED BY <1>6, <2>1 DEF Count, u, x
<1> QED BY <1>5, <1>6

\* What changing the fate of one turn does to the sequence.
Changed(s, t, f) == [s EXCEPT ![t].fate = f]

LEMMA ChangedTurn ==
  ASSUME NEW s \in Seq(TurnRec), NEW t \in DOMAIN s, NEW f \in Fates \cup Waiting
  PROVE  /\ Changed(s, t, f) \in Seq(TurnRec)
         /\ DOMAIN Changed(s, t, f) = DOMAIN s /\ Len(Changed(s, t, f)) = Len(s)
         /\ Changed(s, t, f)[t].gen = s[t].gen /\ Changed(s, t, f)[t].fate = f
         /\ \A i \in DOMAIN s \ {t} : Changed(s, t, f)[i] = s[i]
<1> DEFINE x == [s[t] EXCEPT !.fate = f]
           u == [s EXCEPT ![t] = x]
<1>1. s[t] \in TurnRec OBVIOUS
<1>2. x \in TurnRec /\ x.gen = s[t].gen /\ x.fate = f BY <1>1 DEF TurnRec
<1>3. Changed(s, t, f) = u BY DEF Changed
<1> HIDE DEF x
<1>4. /\ u \in Seq(TurnRec) /\ DOMAIN u = DOMAIN s /\ Len(u) = Len(s) /\ u[t] = x
      /\ \A i \in DOMAIN s \ {t} : u[i] = s[i]
  BY <1>2
<1> QED BY <1>2, <1>3, <1>4

LEMMA CountChanges ==
  ASSUME NEW s \in Seq(TurnRec), NEW t \in DOMAIN s, NEW f \in Fates \cup Waiting, NEW F
  PROVE  LET old == Count(s, s[t].gen, F)
             new == Count(Changed(s, t, f), s[t].gen, F)
         IN /\ (s[t].fate \in F /\ f \notin F) => old = new + 1
            /\ (s[t].fate \notin F /\ f \in F) => new = old + 1
            /\ (s[t].fate \in F <=> f \in F) => new = old
            /\ old \in Nat /\ new \in Nat
<1> DEFINE u == Changed(s, t, f)
           g == s[t].gen
           A == {i \in DOMAIN s : s[i].gen = g /\ s[i].fate \in F}
           B == {i \in DOMAIN u : u[i].gen = g /\ u[i].fate \in F}
<1>1. /\ u \in Seq(TurnRec) /\ DOMAIN u = DOMAIN s /\ u[t].gen = g /\ u[t].fate = f
      /\ \A i \in DOMAIN s \ {t} : u[i] = s[i]
  BY ChangedTurn
<1> HIDE DEF u
<1>0. g = s[t].gen OBVIOUS
<1> HIDE DEF g
<1>2. IsFiniteSet(A) /\ IsFiniteSet(B) /\ Count(s, g, F) \in Nat /\ Count(u, g, F) \in Nat
  <2>1. IsFiniteSet(A) /\ Count(s, g, F) \in Nat BY CountFinite
  <2>2. IsFiniteSet(B) /\ Count(u, g, F) \in Nat BY <1>1, CountFinite
  <2> QED BY <2>1, <2>2
<1>3. CASE s[t].fate \in F /\ f \notin F
  <2>1. A = B \cup {t} /\ t \notin B BY <1>0, <1>1, <1>3
  <2> QED BY <1>2, <1>3, <2>1, FS_AddElement DEF Count, u, g
<1>4. CASE s[t].fate \notin F /\ f \in F
  <2>1. B = A \cup {t} /\ t \notin A BY <1>0, <1>1, <1>4
  <2> QED BY <1>2, <1>4, <2>1, FS_AddElement DEF Count, u, g
<1>5. CASE s[t].fate \in F <=> f \in F
  <2>1. A = B BY <1>0, <1>1, <1>5
  <2> QED BY <1>2, <1>5, <2>1 DEF Count, u, g
<1> QED BY <1>2, <1>3, <1>4, <1>5 DEF u, g

\* The turns of generation g with the fate f.
Fated(s, g, f) == {t \in DOMAIN s : s[t].gen = g /\ s[t].fate = f}

-----------------------------------------------------------------------------
(* The ledger counts the turns of one generation.                            *)

Ledger == [accepted : Nat, pending : Nat, inFlight : Nat, done : [Fates -> Nat]]

Kept == (Fates \ {"rejected"}) \cup Waiting

Tallies(l, s, g) ==
  /\ \A f \in Fates : l.done[f] = Count(s, g, {f})
  /\ l.pending = Count(s, g, {"queued"})
  /\ l.inFlight = Count(s, g, {"running"})
  /\ l.accepted = Count(s, g, Kept)

LEMMA LedgerAdmits ==
  ASSUME NEW l \in Ledger, NEW s \in Seq(TurnRec), NEW g \in Nat, Tallies(l, s, g),
         NEW u, u = Append(s, [gen |-> g, fate |-> "queued"])
  PROVE  Admit(l) \in Ledger /\ Tallies(Admit(l), u, g)
<1>1. /\ Admit(l) \in Ledger /\ Admit(l).accepted = l.accepted + 1
      /\ Admit(l).pending = l.pending + 1 /\ Admit(l).inFlight = l.inFlight
      /\ Admit(l).done = l.done
  <2> DEFINE n == l.accepted + 1
             m == l.pending + 1
  <2>1. n \in Nat /\ m \in Nat BY DEF Ledger
  <2>2. Admit(l) = [l EXCEPT !.accepted = n, !.pending = m] BY DEF Admit, Ledger
  <2>3. n = l.accepted + 1 /\ m = l.pending + 1 OBVIOUS
  <2> HIDE DEF n, m
  <2> QED BY <2>1, <2>2, <2>3 DEF Ledger
<1>2. \A F : /\ "queued" \in F => Count(u, g, F) = Count(s, g, F) + 1
             /\ "queued" \notin F => Count(u, g, F) = Count(s, g, F)
  BY CountGrows DEF Waiting
<1>3. \A f \in Fates : "queued" \notin {f} BY DEF Fates
<1>4. "queued" \in Kept /\ "queued" \notin {"running"} BY DEF Kept, Waiting
<1> QED BY <1>1, <1>2, <1>3, <1>4 DEF Tallies

LEMMA LedgerRejects ==
  ASSUME NEW l \in Ledger, NEW s \in Seq(TurnRec), NEW g \in Nat, Tallies(l, s, g),
         NEW u, u = Append(s, [gen |-> g, fate |-> "rejected"])
  PROVE  Reject(l) \in Ledger /\ Tallies(Reject(l), u, g)
<1>1. /\ Reject(l) \in Ledger /\ Reject(l).accepted = l.accepted
      /\ Reject(l).pending = l.pending /\ Reject(l).inFlight = l.inFlight
      /\ \A f \in Fates : Reject(l).done[f] = IF f = "rejected" THEN l.done[f] + 1 ELSE l.done[f]
  <2> DEFINE n == l.done["rejected"] + 1
             d == [l.done EXCEPT !["rejected"] = n]
  <2>1. n \in Nat /\ l.done \in [Fates -> Nat] BY DEF Ledger, Fates
  <2>2. Reject(l) = [l EXCEPT !.done = d] BY DEF Reject, Ledger
  <2>3. n = l.done["rejected"] + 1 OBVIOUS
  <2> HIDE DEF n
  <2>4. d \in [Fates -> Nat] /\ \A f \in Fates : d[f] = IF f = "rejected" THEN n ELSE l.done[f]
    BY <2>1
  <2> HIDE DEF d
  <2> QED BY <2>2, <2>3, <2>4 DEF Ledger
<1>2. \A F : /\ "rejected" \in F => Count(u, g, F) = Count(s, g, F) + 1
             /\ "rejected" \notin F => Count(u, g, F) = Count(s, g, F)
  BY CountGrows DEF Fates
<1>3. "rejected" \notin Kept /\ "rejected" \notin {"running"} /\ "rejected" \notin {"queued"}
  BY DEF Kept, Waiting
<1> QED BY <1>1, <1>2, <1>3 DEF Tallies

\* A turn that waited or ran gets the fate f.
LEMMA LedgerChange ==
  ASSUME NEW s \in Seq(TurnRec), NEW t \in DOMAIN s,
         NEW f \in Fates \cup Waiting, NEW u, u = Changed(s, t, f), NEW g, g = s[t].gen, NEW F
  PROVE  /\ (s[t].fate \in F /\ f \notin F) => Count(s, g, F) = Count(u, g, F) + 1
         /\ (s[t].fate \notin F /\ f \in F) => Count(u, g, F) = Count(s, g, F) + 1
         /\ (s[t].fate \in F <=> f \in F) => Count(u, g, F) = Count(s, g, F)
         /\ Count(s, g, F) \in Nat /\ Count(u, g, F) \in Nat
  BY CountChanges

LEMMA LedgerDrops ==
  ASSUME NEW l \in Ledger, NEW s \in Seq(TurnRec), NEW t \in DOMAIN s, NEW g, g = s[t].gen,
         s[t].fate = "queued", Tallies(l, s, g), NEW u, u = Changed(s, t, "dropped")
  PROVE  DropPending(l) \in Ledger /\ Tallies(DropPending(l), u, g)
<1>1. /\ DropPending(l) \in Ledger /\ DropPending(l).accepted = l.accepted
      /\ DropPending(l).pending = (IF l.pending > 0 THEN l.pending - 1 ELSE 0)
      /\ DropPending(l).inFlight = l.inFlight
      /\ \A f \in Fates :
           DropPending(l).done[f] = IF f = "dropped" THEN l.done[f] + 1 ELSE l.done[f]
  <2> DEFINE n == l.done["dropped"] + 1
             d == [l.done EXCEPT !["dropped"] = n]
             p == IF l.pending > 0 THEN l.pending - 1 ELSE 0
  <2>1. n \in Nat /\ l.done \in [Fates -> Nat] /\ p \in Nat BY DEF Ledger, Fates
  <2>2. DropPending(l) = [l EXCEPT !.pending = p, !.done = d] BY DEF DropPending, Ledger
  <2>3. n = l.done["dropped"] + 1 /\ p = (IF l.pending > 0 THEN l.pending - 1 ELSE 0) OBVIOUS
  <2> HIDE DEF n
  <2>4. d \in [Fates -> Nat] /\ \A f \in Fates : d[f] = IF f = "dropped" THEN n ELSE l.done[f]
    BY <2>1
  <2> HIDE DEF d, p
  <2> QED BY <2>1, <2>2, <2>3, <2>4 DEF Ledger
<1>2. ASSUME NEW F
      PROVE  /\ ("queued" \in F /\ "dropped" \notin F) => Count(s, g, F) = Count(u, g, F) + 1
             /\ ("queued" \notin F /\ "dropped" \in F) => Count(u, g, F) = Count(s, g, F) + 1
             /\ ("queued" \in F <=> "dropped" \in F) => Count(u, g, F) = Count(s, g, F)
             /\ Count(s, g, F) \in Nat /\ Count(u, g, F) \in Nat
  <2> DEFINE f == "dropped"
  <2>1. f \in Fates \cup Waiting /\ u = Changed(s, t, f) BY DEF Fates, Waiting
  <2> HIDE DEF f
  <2>2. /\ (s[t].fate \in F /\ f \notin F) => Count(s, g, F) = Count(u, g, F) + 1
        /\ (s[t].fate \notin F /\ f \in F) => Count(u, g, F) = Count(s, g, F) + 1
        /\ (s[t].fate \in F <=> f \in F) => Count(u, g, F) = Count(s, g, F)
        /\ Count(s, g, F) \in Nat /\ Count(u, g, F) \in Nat
    BY <2>1, LedgerChange
  <2> QED BY <2>2 DEF f
<1>3. /\ \A f \in Fates : "queued" \notin {f}
      /\ "queued" \in Kept /\ "dropped" \in Kept
  BY DEF Kept, Waiting, Fates
<1>4. DropPending(l).pending = Count(u, g, {"queued"})
  <2>1. Count(s, g, {"queued"}) = Count(u, g, {"queued"}) + 1 BY <1>2
  <2>2. Count(u, g, {"queued"}) \in Nat BY <1>2
  <2> QED BY <1>1, <2>1, <2>2 DEF Tallies
<1>5. Count(u, g, {"running"}) = Count(s, g, {"running"}) BY <1>2
<1>6. Count(u, g, Kept) = Count(s, g, Kept) BY <1>2, <1>3
<1>7. ASSUME NEW f \in Fates PROVE DropPending(l).done[f] = Count(u, g, {f})
  <2>1. l.done[f] = Count(s, g, {f}) /\ "queued" \notin {f} BY <1>3 DEF Tallies
  <2>2. CASE f = "dropped"
    <3>1. Count(u, g, {f}) = Count(s, g, {f}) + 1 BY <1>2, <2>1, <2>2
    <3> QED BY <1>1, <2>1, <2>2, <3>1
  <2>3. CASE f # "dropped"
    <3>1. Count(u, g, {f}) = Count(s, g, {f}) BY <1>2, <2>1, <2>3
    <3> QED BY <1>1, <2>1, <2>3, <3>1
  <2> QED BY <2>2, <2>3
<1> QED BY <1>1, <1>4, <1>5, <1>6, <1>7 DEF Tallies

LEMMA LedgerStarts ==
  ASSUME NEW l \in Ledger, NEW s \in Seq(TurnRec), NEW t \in DOMAIN s, NEW g, g = s[t].gen,
         s[t].fate = "queued", Tallies(l, s, g), NEW u, u = Changed(s, t, "running")
  PROVE  Start(l) \in Ledger /\ Tallies(Start(l), u, g)
<1>1. /\ Start(l) \in Ledger /\ Start(l).accepted = l.accepted
      /\ Start(l).pending = (IF l.pending > 0 THEN l.pending - 1 ELSE 0)
      /\ Start(l).inFlight = l.inFlight + 1
      /\ Start(l).done = l.done
  <2> DEFINE n == l.inFlight + 1
             p == IF l.pending > 0 THEN l.pending - 1 ELSE 0
  <2>1. n \in Nat /\ p \in Nat BY DEF Ledger
  <2>2. Start(l) = [l EXCEPT !.pending = p, !.inFlight = n] BY DEF Start, Ledger
  <2>3. n = l.inFlight + 1 /\ p = (IF l.pending > 0 THEN l.pending - 1 ELSE 0) OBVIOUS
  <2> HIDE DEF n, p
  <2> QED BY <2>1, <2>2, <2>3 DEF Ledger
<1>2. ASSUME NEW F
      PROVE  /\ ("queued" \in F /\ "running" \notin F) => Count(s, g, F) = Count(u, g, F) + 1
             /\ ("queued" \notin F /\ "running" \in F) => Count(u, g, F) = Count(s, g, F) + 1
             /\ ("queued" \in F <=> "running" \in F) => Count(u, g, F) = Count(s, g, F)
             /\ Count(s, g, F) \in Nat /\ Count(u, g, F) \in Nat
  <2> DEFINE f == "running"
  <2>1. f \in Fates \cup Waiting /\ u = Changed(s, t, f) BY DEF Fates, Waiting
  <2> HIDE DEF f
  <2>2. /\ (s[t].fate \in F /\ f \notin F) => Count(s, g, F) = Count(u, g, F) + 1
        /\ (s[t].fate \notin F /\ f \in F) => Count(u, g, F) = Count(s, g, F) + 1
        /\ (s[t].fate \in F <=> f \in F) => Count(u, g, F) = Count(s, g, F)
        /\ Count(s, g, F) \in Nat /\ Count(u, g, F) \in Nat
    BY <2>1, LedgerChange
  <2> QED BY <2>2 DEF f
<1>3. /\ \A f \in Fates : "queued" \notin {f} /\ "running" \notin {f}
      /\ "queued" \in Kept /\ "running" \in Kept
  BY DEF Kept, Waiting, Fates
<1>4. Start(l).pending = Count(u, g, {"queued"})
  <2>1. Count(s, g, {"queued"}) = Count(u, g, {"queued"}) + 1 BY <1>2
  <2>2. Count(u, g, {"queued"}) \in Nat BY <1>2
  <2> QED BY <1>1, <2>1, <2>2 DEF Tallies
<1>5. Count(u, g, {"running"}) = Count(s, g, {"running"}) + 1 BY <1>2
<1>6. Count(u, g, Kept) = Count(s, g, Kept) BY <1>2, <1>3
<1>7. ASSUME NEW f \in Fates PROVE Start(l).done[f] = Count(u, g, {f})
  BY <1>1, <1>2, <1>3 DEF Tallies
<1> QED BY <1>1, <1>4, <1>5, <1>6, <1>7 DEF Tallies

LEMMA LedgerSettles ==
  ASSUME NEW l \in Ledger, NEW s \in Seq(TurnRec), NEW t \in DOMAIN s, NEW g, g = s[t].gen,
         s[t].fate = "running", Tallies(l, s, g), NEW f \in Fates, NEW u, u = Changed(s, t, f)
  PROVE  Settle(l, f) \in Ledger /\ Tallies(Settle(l, f), u, g)
<1> DEFINE m == Settle(l, f)
<1>1. /\ m \in Ledger
      /\ m.accepted = (IF f = "rejected" /\ l.accepted > 0 THEN l.accepted - 1 ELSE l.accepted)
      /\ m.pending = l.pending
      /\ m.inFlight = (IF l.inFlight > 0 THEN l.inFlight - 1 ELSE 0)
      /\ \A e \in Fates : m.done[e] = IF e = f THEN l.done[e] + 1 ELSE l.done[e]
  <2> DEFINE n == l.done[f] + 1
             d == [l.done EXCEPT ![f] = n]
             p == IF l.inFlight > 0 THEN l.inFlight - 1 ELSE 0
             q == IF f = "rejected" /\ l.accepted > 0 THEN l.accepted - 1 ELSE l.accepted
  <2>1. n \in Nat /\ l.done \in [Fates -> Nat] /\ p \in Nat /\ q \in Nat BY DEF Ledger
  <2>2. m = [l EXCEPT !.inFlight = p, !.accepted = q, !.done = d] BY DEF Settle, Ledger
  <2>3. /\ n = l.done[f] + 1 /\ p = (IF l.inFlight > 0 THEN l.inFlight - 1 ELSE 0)
        /\ q = (IF f = "rejected" /\ l.accepted > 0 THEN l.accepted - 1 ELSE l.accepted)
    OBVIOUS
  <2> HIDE DEF n
  <2>4. d \in [Fates -> Nat] /\ \A e \in Fates : d[e] = IF e = f THEN n ELSE l.done[e]
    BY <2>1
  <2> HIDE DEF d, p, q, m
  <2> QED BY <2>1, <2>2, <2>3, <2>4 DEF Ledger
<1> HIDE DEF m
<1>2. ASSUME NEW F
      PROVE  /\ ("running" \in F /\ f \notin F) => Count(s, g, F) = Count(u, g, F) + 1
             /\ ("running" \notin F /\ f \in F) => Count(u, g, F) = Count(s, g, F) + 1
             /\ ("running" \in F <=> f \in F) => Count(u, g, F) = Count(s, g, F)
             /\ Count(s, g, F) \in Nat /\ Count(u, g, F) \in Nat
  <2>1. f \in Fates \cup Waiting BY DEF Fates, Waiting
  <2> QED BY <2>1, LedgerChange
<1>3. /\ \A e \in Fates : "running" \notin {e}
      /\ "running" \in Kept /\ (f \notin Kept <=> f = "rejected")
      /\ f \notin {"running"} /\ f \notin {"queued"}
  BY DEF Kept, Waiting, Fates
<1>4. m.inFlight = Count(u, g, {"running"})
  <2>1. Count(s, g, {"running"}) = Count(u, g, {"running"}) + 1 BY <1>2, <1>3
  <2>2. Count(u, g, {"running"}) \in Nat BY <1>2
  <2> QED BY <1>1, <2>1, <2>2 DEF Tallies
<1>5. Count(u, g, {"queued"}) = Count(s, g, {"queued"}) BY <1>2, <1>3
<1>6. m.accepted = Count(u, g, Kept)
  <2>1. CASE f = "rejected"
    <3>1. Count(s, g, Kept) = Count(u, g, Kept) + 1 BY <1>2, <1>3, <2>1
    <3>2. Count(u, g, Kept) \in Nat BY <1>2
    <3> QED BY <1>1, <2>1, <3>1, <3>2 DEF Tallies
  <2>2. CASE f # "rejected"
    <3>1. Count(s, g, Kept) = Count(u, g, Kept) BY <1>2, <1>3, <2>2
    <3> QED BY <1>1, <2>2, <3>1 DEF Tallies
  <2> QED BY <2>1, <2>2
<1>7. ASSUME NEW e \in Fates PROVE m.done[e] = Count(u, g, {e})
  <2>1. l.done[e] = Count(s, g, {e}) /\ "running" \notin {e} BY <1>3 DEF Tallies
  <2>2. CASE e = f
    <3>1. Count(u, g, {e}) = Count(s, g, {e}) + 1 BY <1>2, <2>1, <2>2
    <3> QED BY <1>1, <2>1, <2>2, <3>1
  <2>3. CASE e # f
    <3>1. Count(u, g, {e}) = Count(s, g, {e}) BY <1>2, <2>1, <2>3
    <3> QED BY <1>1, <2>1, <2>3, <3>1
  <2> QED BY <2>2, <2>3
<1>8. Tallies(m, u, g) BY <1>1, <1>4, <1>5, <1>6, <1>7 DEF Tallies
<1> QED BY <1>1, <1>8 DEF m

-----------------------------------------------------------------------------
(* The second inductive invariant: where the turns are.                      *)

\* The turns in a sequence of entries.
Entries(s) == ToSet(s) \ {Sentinel}

\* The entries of its batch that the worker has not begun.
Rest == IF worker.at = "turn" THEN Tail(worker.taken) ELSE worker.taken

NoneWaits(g) == Fated(turns, g, "queued") = {} /\ Fated(turns, g, "running") = {}

Shaped ==
  /\ turns \in Seq(TurnRec) /\ \A t \in DOMAIN turns : turns[t].gen <= gen
  /\ queue \in Seq(Nat) /\ worker.taken \in Seq(Nat) /\ worker.gen <= gen
  /\ ledger \in Ledger

\* sync_turn() holds the state lock on its overflow path, so no shutdown began.
OverflowKept == overflow # "none" => ~gate /\ queueRef # 0 /\ ~initializing

QueueKept ==
  /\ queueRef = 0 => queue = <<>>
  /\ Line(queue)
  /\ Entries(queue) \subseteq Fated(turns, gen, "queued")
  /\ Sentinel \in ToSet(queue) => gate

\* A running worker: every waiting turn of the generation is in the queue or
\* in its batch, once, and the only running one is the first of its batch.
BatchKept ==
  WorkerAlive =>
    /\ worker.at \in {"get", "empty"} => worker.taken = <<>>
    /\ worker.at \in {"fill", "turn"} => worker.taken # <<>>
    /\ Line(worker.taken) /\ SentinelLast(worker.taken)
    /\ Fated(turns, gen, "queued") = Entries(queue) \cup Entries(Rest)
    /\ Fated(turns, gen, "running") = IF worker.at = "turn" THEN {worker.taken[1]} ELSE {}
    /\ Entries(queue) \cap Entries(worker.taken) = {}
    /\ Sentinel \in ToSet(worker.taken) => gate /\ ToSet(queue) \subseteq {Sentinel}

DrainKept ==
  /\ worker.at = "drained" =>
       NoneWaits(worker.gen) /\ (worker.gen = gen /\ queueRef # 0 => gate)
  /\ \A a \in Actor : pc[a] = "setup" => worker.gen # gen /\ NoneWaits(gen)
  /\ workerRef = 0 /\ queueRef # 0 => NoneWaits(gen)

LInv ==
  /\ Shaped /\ OverflowKept /\ QueueKept /\ BatchKept /\ DrainKept
  /\ Tallies(ledger, turns, gen)
\* 0 is nobody's turn.
LEMMA FatedTurns ==
  ASSUME Shaped, NEW g, NEW f
  PROVE  Sentinel \notin Fated(turns, g, f) /\ Fated(turns, g, f) \subseteq DOMAIN turns
<1>1. Sentinel \notin DOMAIN turns BY DEF Shaped, Sentinel
<1> QED BY <1>1 DEF Fated

LEMMA RefsAlive ==
  ASSUME IInv
  PROVE  /\ WorkerAlive => workerRef # 0 /\ queueRef # 0 /\ worker.gen = gen
         /\ queueRef # 0 /\ workerRef = 0 => initializing
         /\ gen \in Nat /\ queueRef \in Nat /\ workerRef \in Nat /\ worker.gen \in Nat
         /\ gate \in BOOLEAN /\ initializing \in BOOLEAN
         /\ \A a \in Actor : pc[a] = "setup" => queueRef = 0 /\ initializing
<1>1. \A a \in Actor : InitializerKept(a) BY DEF IInv
<1>2. "setup" \in Opening /\ "setup" \in Unsettled BY DEF Opening, Unsettled
<1>3. \A a \in Actor : pc[a] = "setup" => queueRef = 0 /\ initializing
  BY <1>1, <1>2 DEF InitializerKept, Initializer
<1> QED BY <1>3 DEF IInv, Typed, RefsKept

\* A step that leaves the queue, the worker and the ledger alone.
LEMMA WorkKept ==
  ASSUME LInv, IInv, IInv', UNCHANGED work, UNCHANGED <<gen, queueRef, workerRef>>,
         gate' => gate \/ overflow = "none",
         gate => gate' \/ queueRef = 0,
         initializing' => initializing,
         \A a \in Actor : pc'[a] = "setup" => pc[a] = "setup"
  PROVE  LInv'
<1>0. /\ Shaped /\ OverflowKept /\ QueueKept /\ BatchKept /\ DrainKept
      /\ Tallies(ledger, turns, gen)
  BY DEF LInv
<1>1. /\ UNCHANGED <<queue, worker, overflow, turns, ledger, gen, queueRef, workerRef>>
  BY DEF work
<1>2. Shaped' BY <1>0, <1>1 DEF Shaped
<1>3. OverflowKept' BY <1>0, <1>1 DEF OverflowKept
<1>4. QueueKept'
  <2>1. queue = <<>> => ToSet(queue) = {} BY LineEmpty
  <2> QED BY <1>0, <1>1, <2>1 DEF QueueKept
<1>5. BatchKept' BY <1>0, <1>1, RefsAlive DEF BatchKept, WorkerAlive, Rest
<1>6. DrainKept' BY <1>0, <1>1 DEF DrainKept, NoneWaits
<1>7. Tallies(ledger, turns, gen)' BY <1>0, <1>1
<1> QED BY <1>2, <1>3, <1>4, <1>5, <1>6, <1>7 DEF LInv

\* The queue and the worker reference are dropped together.
LEMMA WorkForgotten ==
  ASSUME LInv, IInv, IInv', UNCHANGED <<worker, overflow, turns, ledger, gen>>,
         queueRef' = 0, queue' = <<>>, overflow = "none",
         \A a \in Actor : pc'[a] = "setup" => pc[a] = "setup"
  PROVE  LInv'
<1>0. /\ Shaped /\ OverflowKept /\ QueueKept /\ BatchKept /\ DrainKept
      /\ Tallies(ledger, turns, gen)
  BY DEF LInv
<1>1. ~WorkerAlive'
  <2>1. WorkerAlive' => queueRef' # 0 BY DEF IInv, RefsKept
  <2> QED BY <2>1
<1>2. queue' \in Seq(Nat) /\ Line(queue') /\ ToSet(queue') = {} BY LineEmpty
<1>3. Shaped' BY <1>0, <1>2 DEF Shaped
<1>4. OverflowKept' BY DEF OverflowKept
<1>5. QueueKept' BY <1>2 DEF QueueKept, Entries
<1>6. BatchKept' BY <1>1 DEF BatchKept
<1>7. DrainKept' BY <1>0 DEF DrainKept, NoneWaits
<1>8. Tallies(ledger, turns, gen)' BY <1>0
<1> QED BY <1>3, <1>4, <1>5, <1>6, <1>7, <1>8 DEF LInv

\* A new generation begins with no turn and a ledger of zeros.
LEMMA LedgerBegins ==
  ASSUME NEW s \in Seq(TurnRec), NEW g, \A t \in DOMAIN s : s[t].gen # g
  PROVE  NewLedger \in Ledger /\ Tallies(NewLedger, s, g) /\ \A f : Fated(s, g, f) = {}
<1>1. ASSUME NEW F PROVE Count(s, g, F) = 0
  <2>1. {t \in DOMAIN s : s[t].gen = g /\ s[t].fate \in F} = {} OBVIOUS
  <2> QED BY <2>1, FS_EmptySet DEF Count
<1>2. \A f : Fated(s, g, f) = {} BY DEF Fated
<1>3. /\ NewLedger \in Ledger /\ NewLedger.accepted = 0 /\ NewLedger.pending = 0
      /\ NewLedger.inFlight = 0 /\ \A f \in Fates : NewLedger.done[f] = 0
  BY DEF NewLedger, Ledger
<1> QED BY <1>1, <1>2, <1>3 DEF Tallies

LEMMA InitClaimCounts ==
  ASSUME LInv, IInv, IInv', NEW a \in Actor, InitClaim(a)
  PROVE  LInv'
<1>0. /\ Shaped /\ OverflowKept /\ QueueKept /\ BatchKept /\ DrainKept
  BY DEF LInv
<1>1. /\ queueRef = 0 /\ overflow = "none" /\ gen' = gen + 1 /\ ledger' = NewLedger
      /\ UNCHANGED <<gate, queueRef, workerRef, queue, worker, overflow, turns>>
  BY DEF InitClaim, StateLockFree
<1>2. gen \in Nat /\ worker.gen \in Nat /\ ~WorkerAlive BY <1>1, RefsAlive
<1>3. turns \in Seq(TurnRec) /\ \A t \in DOMAIN turns : turns[t].gen \in Nat
  <2>1. turns \in Seq(TurnRec) BY <1>0 DEF Shaped
  <2>2. \A t \in DOMAIN turns : turns[t] \in TurnRec BY <2>1
  <2> QED BY <2>1, <2>2 DEF TurnRec
<1>4. \A t \in DOMAIN turns : turns[t].gen <= gen' /\ turns[t].gen # gen'
  BY <1>0, <1>1, <1>2, <1>3 DEF Shaped
<1>5. /\ NewLedger \in Ledger /\ Tallies(NewLedger, turns, gen')
      /\ \A f : Fated(turns, gen', f) = {}
  BY <1>3, <1>4, LedgerBegins
<1>6. queue = <<>> /\ ToSet(queue) = {} BY <1>0, <1>1, LineEmpty DEF QueueKept
<1>7. worker.gen <= gen' /\ worker.gen # gen' BY <1>0, <1>1, <1>2 DEF Shaped
<1>8. Shaped' BY <1>0, <1>1, <1>4, <1>5, <1>7 DEF Shaped
<1>9. OverflowKept' BY <1>1 DEF OverflowKept
<1>10. QueueKept' BY <1>0, <1>1, <1>6 DEF QueueKept, Entries
<1>11. BatchKept' BY <1>1, <1>2 DEF BatchKept, WorkerAlive
<1>12. DrainKept' BY <1>0, <1>1, <1>5, <1>7 DEF DrainKept, NoneWaits
<1>13. Tallies(ledger, turns, gen)' BY <1>1, <1>5
<1> QED BY <1>8, <1>9, <1>10, <1>11, <1>12, <1>13 DEF LInv

LEMMA InitSetupCounts ==
  ASSUME LInv, IInv, IInv', NEW a \in Actor, InitSetup(a)
  PROVE  LInv'
<1>0. /\ Shaped /\ OverflowKept /\ QueueKept /\ BatchKept /\ DrainKept
      /\ Tallies(ledger, turns, gen)
  BY DEF LInv
<1>1. /\ pc[a] = "setup" /\ queue' = <<>>
      /\ UNCHANGED <<initializing, gen, workerRef, worker, overflow, turns, ledger>>
  BY DEF InitSetup
<1>2. queueRef = 0 /\ ~WorkerAlive BY <1>1, RefsAlive
<1>3. overflow = "none" BY <1>0, <1>2 DEF OverflowKept
<1>4. queue' \in Seq(Nat) /\ Line(queue') /\ ToSet(queue') = {} BY <1>1, LineEmpty
<1>5. worker.gen # gen /\ NoneWaits(gen) BY <1>0, <1>1 DEF DrainKept
<1>6. \A b \in Actor : pc'[b] = "setup" => pc[b] = "setup"
  BY DEF InitSetup, Go, IInv, Typed
<1>7. Shaped' BY <1>0, <1>1, <1>4 DEF Shaped
<1>8. OverflowKept' BY <1>1, <1>3 DEF OverflowKept
<1>9. QueueKept' BY <1>1, <1>4 DEF QueueKept, Entries
<1>10. BatchKept' BY <1>1, <1>2 DEF BatchKept, WorkerAlive
<1>11. DrainKept' BY <1>0, <1>1, <1>5, <1>6 DEF DrainKept, NoneWaits
<1>12. Tallies(ledger, turns, gen)' BY <1>0, <1>1
<1> QED BY <1>7, <1>8, <1>9, <1>10, <1>11, <1>12 DEF LInv

\* The worker starts where no turn waits.
LEMMA InitPublishCounts ==
  ASSUME LInv, IInv, IInv', NEW a \in Actor, InitPublish(a) \/ InitStartFails(a)
  PROVE  LInv'
<1>0. /\ Shaped /\ OverflowKept /\ QueueKept /\ BatchKept /\ DrainKept
      /\ Tallies(ledger, turns, gen)
  BY DEF LInv
<1>1. /\ pc[a] = "publish" /\ overflow = "none" /\ workerRef' = gen
      /\ UNCHANGED <<initializing, gate, gen, queueRef, queue, overflow, turns, ledger>>
  BY DEF InitPublish, InitStartFails, StateLockFree
<1>2. /\ worker'.gen = gen /\ worker'.at \in {"get", "unstarted"} /\ worker'.taken = <<>>
  BY DEF InitPublish, InitStartFails
<1>3. queueRef = gen /\ workerRef = 0 /\ gen # 0 /\ gen \in Nat
  <2>1. "publish" \in Building BY DEF Building
  <2> QED BY <1>1, <2>1 DEF IInv, InitializerKept, Typed
<1>4. NoneWaits(gen) BY <1>0, <1>3 DEF DrainKept
<1>5. Entries(queue) = {} BY <1>0, <1>4 DEF QueueKept, NoneWaits
<1>6. /\ worker'.taken \in Seq(Nat) /\ Line(worker'.taken) /\ SentinelLast(worker'.taken)
      /\ ToSet(worker'.taken) = {}
  BY <1>2, LineEmpty
<1>7. \A b \in Actor : pc'[b] = "setup" => pc[b] = "setup"
  BY DEF InitPublish, InitStartFails, Go, IInv, Typed
<1>8. pc[a] # "setup" /\ \A b \in Actor : pc'[b] # "setup"
  BY <1>1, <1>3, <1>7, RefsAlive
<1>9. Shaped' BY <1>0, <1>1, <1>2, <1>3, <1>6 DEF Shaped
<1>10. OverflowKept' BY <1>1 DEF OverflowKept
<1>11. QueueKept' BY <1>0, <1>1 DEF QueueKept
<1>12. BatchKept'
  <2>1. Rest' = worker'.taken BY <1>2 DEF Rest
  <2> QED BY <1>1, <1>2, <1>4, <1>5, <1>6, <2>1 DEF BatchKept, NoneWaits, Entries
<1>13. DrainKept' BY <1>1, <1>2, <1>3, <1>8 DEF DrainKept
<1>14. Tallies(ledger, turns, gen)' BY <1>0, <1>1
<1> QED BY <1>9, <1>10, <1>11, <1>12, <1>13, <1>14 DEF LInv

\* The sentinel goes behind every turn, after the gate was closed.
LEMMA PostSentinelCounts ==
  ASSUME LInv, IInv, IInv', NEW a \in Actor, PostSentinel(a)
  PROVE  LInv'
<1>0. /\ Shaped /\ OverflowKept /\ QueueKept /\ BatchKept /\ DrainKept
      /\ Tallies(ledger, turns, gen)
  BY DEF LInv
<1>1. /\ pc[a] = "sentinel"
      /\ UNCHANGED <<initializing, gate, gen, queueRef, workerRef, worker, overflow, turns,
                     ledger>>
  BY DEF PostSentinel, life
<1>2. \A b \in Actor : pc'[b] = "setup" => pc[b] = "setup"
  BY DEF PostSentinel, Go, IInv, Typed
<1>3. CASE local[a].queue = queueRef
  <2>1. queue' = Append(queue, Sentinel) BY <1>3 DEF PostSentinel
  <2>2. gate /\ queueRef # 0
    <3>1. "sentinel" \in Tearing BY DEF Tearing
    <3>2. gate /\ local[a].queue \in 1..gen BY <1>1, <1>3, <3>1 DEF IInv, TearingKept
    <3> QED BY <1>3, <3>2
  <2>3. /\ queue' \in Seq(Nat) /\ Line(queue') /\ ToSet(queue') = ToSet(queue) \cup {Sentinel}
    <3>1. queue \in Seq(Nat) /\ Line(queue) /\ Sentinel \in Nat
      BY <1>0 DEF Shaped, QueueKept, Sentinel
    <3> QED BY <2>1, <3>1, LineAppend
  <2>4. Entries(queue') = Entries(queue) BY <2>3 DEF Entries
  <2>5. Shaped' BY <1>0, <1>1, <2>3 DEF Shaped
  <2>6. OverflowKept' BY <1>0, <1>1 DEF OverflowKept
  <2>7. QueueKept' BY <1>0, <1>1, <2>2, <2>3, <2>4 DEF QueueKept
  <2>8. BatchKept' BY <1>0, <1>1, <2>3, <2>4 DEF BatchKept, WorkerAlive, Rest
  <2>9. DrainKept' BY <1>0, <1>1, <1>2 DEF DrainKept, NoneWaits
  <2>10. Tallies(ledger, turns, gen)' BY <1>0, <1>1
  <2> QED BY <2>5, <2>6, <2>7, <2>8, <2>9, <2>10 DEF LInv
<1>4. CASE local[a].queue # queueRef
  <2>1. UNCHANGED queue BY <1>4 DEF PostSentinel
  <2> QED BY <1>1, <1>2, <2>1, WorkKept DEF work
<1> QED BY <1>3, <1>4
-----------------------------------------------------------------------------
(* sync_turn() on the ledger.                                                *)

\* Every entry is a turn that was made.
LEMMA EntriesMade ==
  ASSUME Shaped, QueueKept, BatchKept
  PROVE  /\ Entries(queue) \subseteq DOMAIN turns
         /\ WorkerAlive => Entries(worker.taken) \subseteq DOMAIN turns
<1>1. Entries(queue) \subseteq DOMAIN turns BY FatedTurns DEF QueueKept
<1>2. ASSUME WorkerAlive PROVE Entries(worker.taken) \subseteq DOMAIN turns
  <2>1. Entries(Rest) \subseteq DOMAIN turns BY <1>2, FatedTurns DEF BatchKept
  <2>2. CASE worker.at # "turn" BY <2>1, <2>2 DEF Rest
  <2>3. CASE worker.at = "turn"
    <3>1. /\ worker.taken \in Seq(Nat) /\ worker.taken # <<>> /\ Line(worker.taken)
          /\ worker.taken[1] \in Fated(turns, gen, "running")
      BY <1>2, <2>3 DEF Shaped, BatchKept
    <3>2. ToSet(worker.taken) = {worker.taken[1]} \cup ToSet(Tail(worker.taken))
      BY <3>1, LineTail
    <3>3. worker.taken[1] \in DOMAIN turns BY <3>1, FatedTurns
    <3> QED BY <2>1, <2>3, <3>2, <3>3 DEF Rest, Entries
  <2> QED BY <2>2, <2>3
<1> QED BY <1>1, <1>2

\* A turn of this generation goes on from queued or running.
LEMMA TurnChanges ==
  ASSUME turns \in Seq(TurnRec), NEW t \in DOMAIN turns, turns[t].gen = gen,
         NEW f \in Fates \cup Waiting, turns' = Changed(turns, t, f)
  PROVE  /\ turns' \in Seq(TurnRec) /\ DOMAIN turns' = DOMAIN turns
         /\ turns'[t].gen = gen /\ \A i \in DOMAIN turns \ {t} : turns'[i] = turns[i]
         /\ Fated(turns', gen, f) = Fated(turns, gen, f) \cup {t}
         /\ f # "queued" => Fated(turns', gen, "queued") = Fated(turns, gen, "queued") \ {t}
         /\ f # "running" => Fated(turns', gen, "running") = Fated(turns, gen, "running") \ {t}
         /\ \A g, e : g # gen => Fated(turns', g, e) = Fated(turns, g, e)
<1>1. /\ turns' \in Seq(TurnRec) /\ DOMAIN turns' = DOMAIN turns
      /\ turns'[t].gen = gen /\ \A i \in DOMAIN turns \ {t} : turns'[i] = turns[i]
  BY ChangedTurn
<1>2. turns'[t].fate = f BY ChangedTurn
<1>3. Fated(turns', gen, f) = Fated(turns, gen, f) \cup {t} BY <1>1, <1>2 DEF Fated
<1>4. ASSUME NEW e, e # f PROVE Fated(turns', gen, e) = Fated(turns, gen, e) \ {t}
  BY <1>1, <1>2, <1>4 DEF Fated
<1>5. ASSUME NEW g, NEW e, g # gen PROVE Fated(turns', g, e) = Fated(turns, g, e)
  BY <1>1, <1>5 DEF Fated
<1> QED BY <1>1, <1>3, <1>4, <1>5

\* A turn is made and named after its place.
LEMMA TurnMade ==
  ASSUME turns \in Seq(TurnRec), gen \in Nat, NEW f \in Fates \cup Waiting, turns' = Turn(f),
         NEW n, n = Len(turns) + 1
  PROVE  /\ turns' \in Seq(TurnRec) /\ DOMAIN turns' = DOMAIN turns \cup {n}
         /\ n \notin DOMAIN turns /\ n \in Nat /\ n # Sentinel
         /\ turns'[n].gen = gen /\ \A t \in DOMAIN turns : turns'[t] = turns[t]
         /\ Fated(turns', gen, f) = Fated(turns, gen, f) \cup {n}
         /\ \A h, e : h # gen \/ e # f => Fated(turns', h, e) = Fated(turns, h, e)
<1> DEFINE x == [gen |-> gen, fate |-> f]
<1>1. x.gen = gen /\ x.fate = f /\ x \in TurnRec BY DEF TurnRec
<1>2. turns' = Append(turns, x) BY DEF Turn
<1> HIDE DEF x
<1>3. /\ turns' \in Seq(TurnRec) /\ DOMAIN turns' = DOMAIN turns \cup {n}
      /\ n \notin DOMAIN turns /\ n \in Nat /\ n # Sentinel
      /\ turns'[n] = x /\ \A t \in DOMAIN turns : turns'[t] = turns[t]
  BY <1>1, <1>2 DEF Sentinel
<1>4. Fated(turns', gen, f) = Fated(turns, gen, f) \cup {n} BY <1>1, <1>3 DEF Fated
<1>5. ASSUME NEW h, NEW e, h # gen \/ e # f PROVE Fated(turns', h, e) = Fated(turns, h, e)
  BY <1>1, <1>3, <1>5 DEF Fated
<1> QED BY <1>1, <1>3, <1>4, <1>5

LEMMA AdmitCounts ==
  ASSUME LInv, IInv, IInv', ~gate, queueRef # 0, ~initializing,
         turns' = Turn("queued"), ledger' = Admit(ledger),
         queue' = Append(queue, Len(turns) + 1), overflow' = "none",
         UNCHANGED <<initializing, gate, gen, queueRef, workerRef, worker, pc>>
  PROVE  LInv'
<1> DEFINE n == Len(turns) + 1
<1>0. /\ Shaped /\ OverflowKept /\ QueueKept /\ BatchKept /\ DrainKept
      /\ Tallies(ledger, turns, gen) /\ turns \in Seq(TurnRec) /\ ledger \in Ledger
      /\ gen \in Nat
  BY RefsAlive DEF LInv, Shaped
<1>1. turns' = Append(turns, [gen |-> gen, fate |-> "queued"]) BY DEF Turn
<1>2. /\ turns' \in Seq(TurnRec) /\ DOMAIN turns' = DOMAIN turns \cup {n}
      /\ n \notin DOMAIN turns /\ n \in Nat /\ n # Sentinel
      /\ turns'[n].gen = gen /\ \A t \in DOMAIN turns : turns'[t] = turns[t]
      /\ Fated(turns', gen, "queued") = Fated(turns, gen, "queued") \cup {n}
      /\ \A h, e : h # gen \/ e # "queued" => Fated(turns', h, e) = Fated(turns, h, e)
  <2>1. "queued" \in Fates \cup Waiting /\ n = Len(turns) + 1 BY DEF Waiting
  <2> HIDE DEF n
  <2> QED BY <1>0, <2>1, TurnMade
<1>3. Admit(ledger) \in Ledger /\ Tallies(Admit(ledger), turns', gen)
  BY <1>0, <1>1, LedgerAdmits
<1>4. queue' = Append(queue, n) OBVIOUS
<1> HIDE DEF n
<1>5. Sentinel \notin ToSet(queue) BY <1>0 DEF QueueKept
<1>6. /\ Entries(queue) \subseteq DOMAIN turns
      /\ WorkerAlive => Entries(worker.taken) \subseteq DOMAIN turns
  BY <1>0, EntriesMade
<1>7. /\ queue' \in Seq(Nat) /\ Line(queue') /\ ToSet(queue') = ToSet(queue) \cup {n}
  <2>1. queue \in Seq(Nat) /\ Line(queue) BY <1>0 DEF Shaped, QueueKept
  <2>2. n \notin ToSet(queue) BY <1>2, <1>6 DEF Entries
  <2> QED BY <1>2, <1>4, <1>5, <2>1, <2>2, LineAppend
<1>8. Entries(queue') = Entries(queue) \cup {n} BY <1>2, <1>7 DEF Entries
<1>9. Shaped'
  <2>1. ASSUME NEW t \in DOMAIN turns' PROVE turns'[t].gen <= gen
    <3>1. CASE t = n BY <1>0, <1>2, <3>1
    <3>2. CASE t \in DOMAIN turns BY <1>0, <1>2, <3>2 DEF Shaped
    <3> QED BY <1>2, <3>1, <3>2
  <2> QED BY <1>0, <1>2, <1>3, <1>7, <2>1 DEF Shaped
<1>10. OverflowKept' BY DEF OverflowKept
<1>11. QueueKept' BY <1>0, <1>2, <1>5, <1>7, <1>8 DEF QueueKept
<1>12. BatchKept'
  <2> SUFFICES ASSUME WorkerAlive PROVE BatchKept' BY DEF BatchKept, WorkerAlive
  <2>1. Sentinel \notin ToSet(worker.taken) BY <1>0 DEF BatchKept
  <2>2. n \notin Entries(worker.taken) BY <1>2, <1>6
  <2>3. Fated(turns', gen, "running") = Fated(turns, gen, "running") BY <1>2
  <2>4. Rest' = Rest BY DEF Rest
  <2> QED BY <1>0, <1>2, <1>8, <2>1, <2>2, <2>3, <2>4 DEF BatchKept, WorkerAlive
<1>13. DrainKept'
  <2>1. worker.at = "drained" => worker.gen # gen BY <1>0 DEF DrainKept
  <2>2. worker.gen # gen /\ NoneWaits(worker.gen) => NoneWaits(worker.gen)'
    BY <1>2 DEF NoneWaits
  <2>3. workerRef # 0 /\ \A a \in Actor : pc[a] # "setup" BY RefsAlive
  <2> QED BY <1>0, <2>1, <2>2, <2>3 DEF DrainKept
<1>14. Tallies(ledger, turns, gen)' BY <1>3
<1> QED BY <1>9, <1>10, <1>11, <1>12, <1>13, <1>14 DEF LInv

LEMMA RejectCounts ==
  ASSUME LInv, IInv, IInv', turns' = Turn("rejected"), ledger' = Reject(ledger),
         overflow' = "none",
         UNCHANGED <<initializing, gate, gen, queueRef, workerRef, worker, queue, pc>>
  PROVE  LInv'
<1> DEFINE n == Len(turns) + 1
<1>0. /\ Shaped /\ OverflowKept /\ QueueKept /\ BatchKept /\ DrainKept
      /\ Tallies(ledger, turns, gen) /\ turns \in Seq(TurnRec) /\ ledger \in Ledger
      /\ gen \in Nat
  BY RefsAlive DEF LInv, Shaped
<1>1. turns' = Append(turns, [gen |-> gen, fate |-> "rejected"]) BY DEF Turn
<1>2. /\ turns' \in Seq(TurnRec) /\ DOMAIN turns' = DOMAIN turns \cup {n}
      /\ turns'[n].gen = gen /\ \A t \in DOMAIN turns : turns'[t] = turns[t]
      /\ \A h, e : h # gen \/ e # "rejected" => Fated(turns', h, e) = Fated(turns, h, e)
  <2>1. "rejected" \in Fates \cup Waiting /\ n = Len(turns) + 1 BY DEF Fates
  <2> HIDE DEF n
  <2> QED BY <1>0, <2>1, TurnMade
<1>3. Reject(ledger) \in Ledger /\ Tallies(Reject(ledger), turns', gen)
  BY <1>0, <1>1, LedgerRejects
<1> HIDE DEF n
<1>4. \A h : /\ Fated(turns', h, "queued") = Fated(turns, h, "queued")
             /\ Fated(turns', h, "running") = Fated(turns, h, "running")
  BY <1>2
<1>5. Shaped'
  <2>1. ASSUME NEW t \in DOMAIN turns' PROVE turns'[t].gen <= gen
    <3>1. CASE t = n BY <1>0, <1>2, <3>1
    <3>2. CASE t \in DOMAIN turns BY <1>0, <1>2, <3>2 DEF Shaped
    <3> QED BY <1>2, <3>1, <3>2
  <2> QED BY <1>0, <1>2, <1>3, <2>1 DEF Shaped
<1>6. OverflowKept' BY DEF OverflowKept
<1>7. QueueKept' BY <1>0, <1>4 DEF QueueKept
<1>8. BatchKept' BY <1>0, <1>4 DEF BatchKept, WorkerAlive, Rest
<1>9. DrainKept' BY <1>0, <1>4 DEF DrainKept, NoneWaits
<1>10. Tallies(ledger, turns, gen)' BY <1>3
<1> QED BY <1>5, <1>6, <1>7, <1>8, <1>9, <1>10 DEF LInv

\* The oldest entry is no sentinel: the gate is open while the lock is held.
LEMMA DropCounts ==
  ASSUME LInv, IInv, IInv', overflow # "none", queue # <<>>,
         queue' = Tail(queue), ledger' = DropPending(ledger),
         turns' = (IF Head(queue) = Sentinel THEN turns
                   ELSE [turns EXCEPT ![Head(queue)].fate = "dropped"]),
         UNCHANGED <<initializing, gate, gen, queueRef, workerRef, worker, pc>>
  PROVE  LInv'
<1> DEFINE h == Head(queue)
<1>0. /\ Shaped /\ OverflowKept /\ QueueKept /\ BatchKept /\ DrainKept
      /\ Tallies(ledger, turns, gen) /\ turns \in Seq(TurnRec) /\ ledger \in Ledger
      /\ ~gate /\ queueRef # 0 /\ ~initializing
  BY DEF LInv, Shaped, OverflowKept
<1>1. /\ queue' \in Seq(Nat) /\ Line(queue') /\ ToSet(queue) = {h} \cup ToSet(queue')
      /\ h \in ToSet(queue') => h = Sentinel
  <2>1. queue \in Seq(Nat) /\ Line(queue) BY <1>0 DEF Shaped, QueueKept
  <2> QED BY <2>1, LineTail
<1>2. Sentinel \notin ToSet(queue) /\ h # Sentinel BY <1>0, <1>1 DEF QueueKept
<1>3. /\ Entries(queue) = {h} \cup Entries(queue') /\ h \notin Entries(queue')
      /\ h \in Entries(queue)
  BY <1>1, <1>2 DEF Entries
<1>4. turns' = Changed(turns, h, "dropped") BY <1>2 DEF Changed
<1> HIDE DEF h
<1>5. h \in DOMAIN turns /\ turns[h].gen = gen /\ turns[h].fate = "queued"
  BY <1>0, <1>3 DEF QueueKept, Fated
<1>6. /\ turns' \in Seq(TurnRec) /\ DOMAIN turns' = DOMAIN turns
      /\ turns'[h].gen = gen /\ \A t \in DOMAIN turns \ {h} : turns'[t] = turns[t]
      /\ Fated(turns', gen, "queued") = Fated(turns, gen, "queued") \ {h}
      /\ Fated(turns', gen, "running") = Fated(turns, gen, "running") \ {h}
      /\ \A g, e : g # gen => Fated(turns', g, e) = Fated(turns, g, e)
  <2>1. "dropped" \in Fates \cup Waiting BY DEF Fates
  <2> QED BY <1>0, <1>4, <1>5, <2>1, TurnChanges
<1>7. h \notin Fated(turns, gen, "running") BY <1>5 DEF Fated
<1>8. DropPending(ledger) \in Ledger /\ Tallies(DropPending(ledger), turns', gen)
  BY <1>0, <1>4, <1>5, LedgerDrops
<1>9. Shaped' BY <1>0, <1>1, <1>5, <1>6, <1>8 DEF Shaped
<1>10. OverflowKept' BY <1>0 DEF OverflowKept
<1>11. QueueKept' BY <1>0, <1>1, <1>2, <1>3, <1>6 DEF QueueKept
<1>12. BatchKept'
  <2> SUFFICES ASSUME WorkerAlive PROVE BatchKept' BY DEF BatchKept, WorkerAlive
  <2>1. Sentinel \notin ToSet(worker.taken) BY <1>0 DEF BatchKept
  <2>2. h \notin Entries(worker.taken) BY <1>0, <1>3 DEF BatchKept
  <2>3. h \notin Entries(Rest)
    <3>1. CASE worker.at # "turn" BY <2>2, <3>1 DEF Rest
    <3>2. CASE worker.at = "turn"
      <4>1. worker.taken \in Seq(Nat) /\ worker.taken # <<>> /\ Line(worker.taken)
        BY <1>0, <3>2 DEF Shaped, BatchKept
      <4>2. ToSet(Tail(worker.taken)) \subseteq ToSet(worker.taken) BY <4>1, LineTail
      <4> QED BY <2>2, <3>2, <4>2 DEF Rest, Entries
    <3> QED BY <3>1, <3>2
  <2>4. Rest' = Rest BY DEF Rest
  <2>5. Fated(turns', gen, "running") = Fated(turns, gen, "running")
    <3>1. Fated(turns', gen, "running") = Fated(turns, gen, "running") \ {h} BY <1>6
    <3> QED BY <1>7, <3>1
  <2>6. Fated(turns', gen, "queued") = Entries(queue') \cup Entries(Rest)
    <3>1. Fated(turns, gen, "queued") = Entries(queue) \cup Entries(Rest)
      BY <1>0 DEF BatchKept
    <3> QED BY <1>3, <1>6, <2>3, <3>1
  <2>7. Entries(queue') \cap Entries(worker.taken) = {}
    <3>1. Entries(queue) \cap Entries(worker.taken) = {} BY <1>0 DEF BatchKept
    <3> QED BY <1>3, <3>1
  <2> QED BY <1>0, <2>1, <2>4, <2>5, <2>6, <2>7 DEF BatchKept, WorkerAlive
<1>13. DrainKept'
  <2>1. worker.at = "drained" => worker.gen # gen BY <1>0 DEF DrainKept
  <2>2. worker.gen # gen /\ NoneWaits(worker.gen) => NoneWaits(worker.gen)'
    BY <1>6 DEF NoneWaits
  <2>3. workerRef # 0 /\ \A a \in Actor : pc[a] # "setup" BY <1>0, RefsAlive
  <2> QED BY <1>0, <2>1, <2>2, <2>3 DEF DrainKept
<1>14. Tallies(ledger, turns, gen)' BY <1>8
<1> QED BY <1>9, <1>10, <1>11, <1>12, <1>13, <1>14 DEF LInv

\* sync_turn() keeps the lock, or lets it go, with nothing done.
LEMMA OverflowMoves ==
  ASSUME LInv, IInv, IInv', ~gate, queueRef # 0, ~initializing,
         UNCHANGED <<life, queue, worker, turns, ledger, pc>>
  PROVE  LInv'
<1>0. /\ Shaped /\ QueueKept /\ BatchKept /\ DrainKept /\ Tallies(ledger, turns, gen)
  BY DEF LInv
<1>1. UNCHANGED <<initializing, gate, gen, queueRef, workerRef>> BY DEF life
<1>2. Shaped' BY <1>0, <1>1 DEF Shaped
<1>3. OverflowKept' BY <1>1 DEF OverflowKept
<1>4. QueueKept' BY <1>0, <1>1 DEF QueueKept
<1>5. BatchKept' BY <1>0, <1>1 DEF BatchKept, WorkerAlive, Rest
<1>6. DrainKept' BY <1>0, <1>1 DEF DrainKept, NoneWaits
<1>7. Tallies(ledger, turns, gen)' BY <1>0, <1>1
<1> QED BY <1>2, <1>3, <1>4, <1>5, <1>6, <1>7 DEF LInv

LEMMA ProducerCounts ==
  ASSUME LInv, IInv, IInv', Produce \/ Overflow
  PROVE  LInv'
<1>1. /\ UNCHANGED <<life, worker, pc>>
      /\ UNCHANGED <<initializing, gate, gen, queueRef, workerRef, worker, pc>>
  BY DEF Produce, Overflow, SyncTurnRejected, SyncTurn, DropOldest, PutAfterDrop, life
<1>2. CASE SyncTurnRejected
  BY <1>1, <1>2, RejectCounts DEF SyncTurnRejected, Calling, StateLockFree
<1>3. CASE SyncTurn
  <2>1. ~gate /\ queueRef # 0 /\ ~initializing /\ overflow = "none"
    BY <1>3 DEF SyncTurn, Calling, StateLockFree, Admissible
  <2>2. CASE Len(queue) < Capacity
    BY <1>1, <1>3, <2>1, <2>2, AdmitCounts DEF SyncTurn
  <2>3. CASE ~(Len(queue) < Capacity)
    BY <1>1, <1>3, <2>1, <2>3, OverflowMoves DEF SyncTurn
  <2> QED BY <2>2, <2>3
<1>4. ASSUME overflow # "none" PROVE ~gate /\ queueRef # 0 /\ ~initializing
  BY <1>4 DEF LInv, OverflowKept
<1>5. CASE DropOldest
  <2>1. CASE queue # <<>> BY <1>1, <1>5, <2>1, DropCounts DEF DropOldest
  <2>2. CASE queue = <<>> BY <1>1, <1>4, <1>5, <2>2, OverflowMoves DEF DropOldest
  <2> QED BY <2>1, <2>2
<1>6. CASE PutAfterDrop
  <2>1. CASE Len(queue) < Capacity
    BY <1>1, <1>4, <1>6, <2>1, AdmitCounts DEF PutAfterDrop
  <2>2. CASE ~(Len(queue) < Capacity)
    BY <1>1, <1>6, <2>2, RejectCounts DEF PutAfterDrop
  <2> QED BY <2>1, <2>2
<1> QED BY <1>2, <1>3, <1>5, <1>6 DEF Produce, Overflow
-----------------------------------------------------------------------------
(* The worker on the ledger.                                                 *)

\* A running worker works in the current generation, after initialize() set up.
LEMMA WorkerFrame ==
  ASSUME LInv, IInv, IInv', WorkerAlive, worker'.gen = worker.gen,
         UNCHANGED <<initializing, gate, gen, queueRef, workerRef, overflow, pc>>,
         Shaped', QueueKept', BatchKept', Tallies(ledger, turns, gen)',
         worker'.at = "drained" => NoneWaits(gen)' /\ gate
  PROVE  LInv'
<1>1. /\ workerRef # 0 /\ queueRef # 0 /\ worker.gen = gen
      /\ \A a \in Actor : pc[a] # "setup"
  BY RefsAlive
<1>2. OverflowKept' BY DEF LInv, OverflowKept
<1>3. NoneWaits(worker.gen)' <=> NoneWaits(gen)' BY <1>1 DEF NoneWaits
<1>4. DrainKept' BY <1>1, <1>3 DEF DrainKept
<1> QED BY <1>2, <1>4 DEF LInv

LEMMA WorkerFields ==
  ASSUME IInv, WorkerLoop
  PROVE  /\ WorkerAlive
         /\ UNCHANGED <<initializing, gate, gen, queueRef, workerRef, overflow, pc>>
         /\ worker = [gen |-> worker.gen, at |-> worker.at, taken |-> worker.taken]
<1>1. UNCHANGED <<initializing, gate, gen, queueRef, workerRef, overflow, pc>>
  BY DEF WorkerLoop, WorkerGets, WorkerTimesOut, WorkerChecksGate, WorkerFills,
         WorkerStartsTurn, WorkerEndsTurn, WorkerEndsBatch, life
<1>2. WorkerAlive
  BY DEF WorkerLoop, WorkerGets, WorkerTimesOut, WorkerChecksGate, WorkerFills,
         WorkerStartsTurn, WorkerEndsTurn, WorkerEndsBatch, WorkerAlive
<1> QED BY <1>1, <1>2 DEF IInv, Typed

\* The head of the queue goes to the worker.
LEMMA HeadTaken ==
  ASSUME Shaped, QueueKept, queue # <<>>, queue' = Tail(queue),
         UNCHANGED <<gate, gen, queueRef, turns>>, queueRef # 0
  PROVE  /\ queue' \in Seq(Nat) /\ Head(queue) \in Nat /\ QueueKept'
         /\ ToSet(queue) = {Head(queue)} \cup ToSet(queue')
         /\ Head(queue) # Sentinel =>
              /\ Entries(queue) = {Head(queue)} \cup Entries(queue')
              /\ Head(queue) \notin ToSet(queue')
         /\ Head(queue) = Sentinel =>
              Entries(queue) = {} /\ ToSet(queue') \subseteq {Sentinel} /\ gate
<1> DEFINE h == Head(queue)
<1>1. /\ queue' \in Seq(Nat) /\ h \in Nat /\ Line(queue')
      /\ ToSet(queue) = {h} \cup ToSet(queue')
      /\ h \in ToSet(queue') => h = Sentinel
      /\ h = Sentinel => ToSet(queue') \subseteq {Sentinel}
  <2>1. queue \in Seq(Nat) /\ Line(queue) BY DEF Shaped, QueueKept
  <2> QED BY <2>1, LineTail
<1> HIDE DEF h
<1>2. QueueKept' BY <1>1 DEF QueueKept, Entries
<1>3. h # Sentinel => Entries(queue) = {h} \cup Entries(queue') /\ h \notin ToSet(queue')
  BY <1>1 DEF Entries
<1>4. h = Sentinel => Entries(queue) = {} /\ gate BY <1>1 DEF Entries, QueueKept
<1> QED BY <1>1, <1>2, <1>3, <1>4 DEF h

LEMMA WorkerGetsCounts ==
  ASSUME LInv, IInv, IInv', WorkerGets
  PROVE  LInv'
<1> DEFINE h == Head(queue)
<1>0. /\ Shaped /\ QueueKept /\ BatchKept /\ Tallies(ledger, turns, gen)
  BY DEF LInv
<1>1. /\ WorkerAlive
      /\ UNCHANGED <<initializing, gate, gen, queueRef, workerRef, overflow, pc>>
      /\ worker = [gen |-> worker.gen, at |-> worker.at, taken |-> worker.taken]
  BY WorkerFields DEF WorkerLoop
<1>2. /\ worker.at = "get" /\ queue # <<>> /\ queue' = Tail(queue) /\ queueRef # 0
      /\ UNCHANGED <<turns, ledger>>
  BY <1>1, RefsAlive DEF WorkerGets
<1>3. /\ queue' \in Seq(Nat) /\ h \in Nat /\ QueueKept'
      /\ ToSet(queue) = {h} \cup ToSet(queue')
      /\ h # Sentinel => Entries(queue) = {h} \cup Entries(queue') /\ h \notin ToSet(queue')
      /\ h = Sentinel => Entries(queue) = {} /\ ToSet(queue') \subseteq {Sentinel} /\ gate
  BY <1>0, <1>1, <1>2, HeadTaken
<1>4. /\ worker.taken = <<>> /\ ToSet(worker.taken) = {}
      /\ Fated(turns, gen, "queued") = Entries(queue) /\ Fated(turns, gen, "running") = {}
  <2>1. worker.taken = <<>> /\ Rest = worker.taken BY <1>0, <1>1, <1>2 DEF BatchKept, Rest
  <2>2. ToSet(worker.taken) = {} BY <2>1, LineEmpty
  <2> QED BY <1>0, <1>1, <1>2, <2>1, <2>2 DEF BatchKept, Entries
<1>5. CASE h = Sentinel
  <2>1. worker' = [gen |-> worker.gen, at |-> "drained", taken |-> <<>>]
    BY <1>1, <1>4, <1>5 DEF WorkerGets
  <2>2. worker'.gen = worker.gen /\ worker'.at = "drained" /\ worker'.taken = <<>> BY <2>1
  <2>3. Shaped' BY <1>0, <1>1, <1>2, <1>3, <1>4, <2>2 DEF Shaped
  <2>4. BatchKept' BY <2>2 DEF BatchKept, WorkerAlive
  <2>5. NoneWaits(gen)' BY <1>1, <1>2, <1>3, <1>4, <1>5 DEF NoneWaits
  <2> QED BY <1>0, <1>1, <1>2, <1>3, <1>5, <2>2, <2>3, <2>4, <2>5, WorkerFrame
<1>6. CASE h # Sentinel
  <2>1. worker' = [gen |-> worker.gen, at |-> "fill", taken |-> <<h>>]
    BY <1>1, <1>6 DEF WorkerGets
  <2>2. worker'.gen = worker.gen /\ worker'.at = "fill" /\ worker'.taken = <<h>> BY <2>1
  <2> HIDE DEF h
  <2>3. /\ worker'.taken \in Seq(Nat) /\ Line(worker'.taken) /\ SentinelLast(worker'.taken)
        /\ ToSet(worker'.taken) = {h} /\ worker'.taken # <<>>
    BY <1>3, <2>2, LineSingle
  <2>4. Shaped' BY <1>0, <1>1, <1>2, <1>3, <2>2, <2>3 DEF Shaped
  <2>5. Rest' = worker'.taken BY <2>2 DEF Rest
  <2>6. BatchKept'
    BY <1>1, <1>2, <1>3, <1>4, <1>6, <2>2, <2>3, <2>5 DEF BatchKept, Entries
  <2> QED BY <1>0, <1>1, <1>2, <1>3, <2>2, <2>4, <2>6, WorkerFrame
<1> QED BY <1>5, <1>6

LEMMA WorkerWaitsCounts ==
  ASSUME LInv, IInv, IInv', WorkerTimesOut \/ WorkerChecksGate
  PROVE  LInv'
<1>0. /\ Shaped /\ QueueKept /\ BatchKept /\ Tallies(ledger, turns, gen)
  BY DEF LInv
<1>1. /\ WorkerAlive
      /\ UNCHANGED <<initializing, gate, gen, queueRef, workerRef, overflow, pc>>
      /\ worker = [gen |-> worker.gen, at |-> worker.at, taken |-> worker.taken]
  BY WorkerFields DEF WorkerLoop
<1>2. worker.at \in {"get", "empty"} /\ UNCHANGED <<queue, turns, ledger>>
  BY DEF WorkerTimesOut, WorkerChecksGate
<1>3. /\ worker'.gen = worker.gen /\ worker'.at \in {"get", "empty", "left"}
      /\ worker'.taken = worker.taken
  BY <1>1 DEF WorkerTimesOut, WorkerChecksGate, WorkerAt
<1>4. Shaped' BY <1>0, <1>1, <1>2, <1>3 DEF Shaped
<1>5. QueueKept' BY <1>0, <1>1, <1>2 DEF QueueKept
<1>6. BatchKept'
  <2>1. Rest' = Rest /\ worker.at # "turn" /\ worker'.at # "turn" BY <1>2, <1>3 DEF Rest
  <2> QED BY <1>0, <1>1, <1>2, <1>3, <2>1 DEF BatchKept
<1> QED BY <1>0, <1>1, <1>2, <1>3, <1>4, <1>5, <1>6, WorkerFrame

LEMMA WorkerFillsCounts ==
  ASSUME LInv, IInv, IInv', WorkerFills
  PROVE  LInv'
<1> DEFINE h == Head(queue)
<1>0. /\ Shaped /\ QueueKept /\ BatchKept /\ Tallies(ledger, turns, gen)
  BY DEF LInv
<1>1. /\ WorkerAlive
      /\ UNCHANGED <<initializing, gate, gen, queueRef, workerRef, overflow, pc>>
      /\ worker = [gen |-> worker.gen, at |-> worker.at, taken |-> worker.taken]
  BY WorkerFields DEF WorkerLoop
<1>2. worker.at = "fill" /\ queueRef # 0 /\ UNCHANGED <<turns, ledger>>
  BY <1>1, RefsAlive DEF WorkerFills
<1>3. /\ worker.taken \in Seq(Nat) /\ worker.taken # <<>> /\ Line(worker.taken)
      /\ SentinelLast(worker.taken) /\ Rest = worker.taken
      /\ Fated(turns, gen, "queued") = Entries(queue) \cup Entries(worker.taken)
      /\ Fated(turns, gen, "running") = {}
      /\ Entries(queue) \cap Entries(worker.taken) = {}
      /\ Sentinel \in ToSet(worker.taken) => gate /\ ToSet(queue) \subseteq {Sentinel}
  <2>1. Rest = worker.taken BY <1>2 DEF Rest
  <2> QED BY <1>0, <1>1, <1>2, <2>1 DEF Shaped, BatchKept
<1>4. CASE queue # <<>> /\ Len(worker.taken) < Batch /\ Last(worker.taken) # Sentinel
  <2>1. /\ queue' = Tail(queue)
        /\ worker' = [gen |-> worker.gen, at |-> "fill", taken |-> Append(worker.taken, h)]
    BY <1>1, <1>2, <1>4 DEF WorkerFills
  <2>2. /\ worker'.gen = worker.gen /\ worker'.at = "fill"
        /\ worker'.taken = Append(worker.taken, h)
    BY <2>1
  <2>3. /\ queue' \in Seq(Nat) /\ h \in Nat /\ QueueKept'
        /\ ToSet(queue) = {h} \cup ToSet(queue')
        /\ h # Sentinel => Entries(queue) = {h} \cup Entries(queue') /\ h \notin ToSet(queue')
        /\ h = Sentinel => Entries(queue) = {} /\ ToSet(queue') \subseteq {Sentinel} /\ gate
    BY <1>0, <1>1, <1>2, <1>4, <2>1, HeadTaken
  <2> HIDE DEF h
  <2>4. Sentinel \notin ToSet(worker.taken)
    <3>1. ASSUME NEW i \in DOMAIN worker.taken, worker.taken[i] = Sentinel PROVE FALSE
      <4>1. i = Len(worker.taken) BY <1>3, <3>1 DEF SentinelLast
      <4> QED BY <1>4, <3>1, <4>1 DEF Last
    <3> QED BY <3>1 DEF ToSet
  <2>5. h # Sentinel => h \notin ToSet(worker.taken) BY <1>3, <2>3 DEF Entries
  <2>6. /\ worker'.taken \in Seq(Nat) /\ Line(worker'.taken) /\ SentinelLast(worker'.taken)
        /\ ToSet(worker'.taken) = ToSet(worker.taken) \cup {h} /\ worker'.taken # <<>>
    BY <1>3, <2>2, <2>3, <2>4, <2>5, LineAppend
  <2>7. Shaped' BY <1>0, <1>1, <1>2, <2>2, <2>3, <2>6 DEF Shaped
  <2>8. Rest' = worker'.taken BY <2>2 DEF Rest
  <2>9. /\ Entries(queue) \cup Entries(worker.taken) = Entries(queue') \cup Entries(worker'.taken)
        /\ Entries(queue') \cap Entries(worker'.taken) = {}
    <3>1. CASE h = Sentinel BY <1>3, <2>3, <2>6, <3>1 DEF Entries
    <3>2. CASE h # Sentinel BY <1>3, <2>3, <2>6, <3>2 DEF Entries
    <3> QED BY <3>1, <3>2
  <2>10. Sentinel \in ToSet(worker'.taken) => gate /\ ToSet(queue') \subseteq {Sentinel}
    BY <2>3, <2>4, <2>6
  <2>11. BatchKept'
    BY <1>1, <1>2, <1>3, <2>2, <2>6, <2>8, <2>9, <2>10 DEF BatchKept
  <2> QED BY <1>0, <1>1, <1>2, <2>2, <2>3, <2>7, <2>11, WorkerFrame
<1>5. CASE ~(queue # <<>> /\ Len(worker.taken) < Batch /\ Last(worker.taken) # Sentinel)
  <2>1. /\ queue' = queue
        /\ worker' = [gen |-> worker.gen, at |-> "next", taken |-> worker.taken]
    BY <1>1, <1>5 DEF WorkerFills, WorkerAt
  <2>2. worker'.gen = worker.gen /\ worker'.at = "next" /\ worker'.taken = worker.taken
    BY <2>1
  <2>3. Shaped' BY <1>0, <1>1, <1>2, <2>1, <2>2 DEF Shaped
  <2>4. QueueKept' BY <1>0, <1>1, <1>2, <2>1 DEF QueueKept
  <2>5. Rest' = worker.taken BY <2>2 DEF Rest
  <2>6. BatchKept' BY <1>1, <1>2, <1>3, <2>1, <2>2, <2>5 DEF BatchKept
  <2> QED BY <1>0, <1>1, <1>2, <2>2, <2>3, <2>4, <2>6, WorkerFrame
<1> QED BY <1>4, <1>5

LEMMA WorkerStartsCounts ==
  ASSUME LInv, IInv, IInv', WorkerStartsTurn
  PROVE  LInv'
<1> DEFINE h == Head(worker.taken)
           t == Tail(worker.taken)
<1>0. /\ Shaped /\ QueueKept /\ BatchKept /\ Tallies(ledger, turns, gen)
      /\ turns \in Seq(TurnRec) /\ ledger \in Ledger
  BY DEF LInv, Shaped
<1>1. /\ WorkerAlive
      /\ UNCHANGED <<initializing, gate, gen, queueRef, workerRef, overflow, pc>>
      /\ worker = [gen |-> worker.gen, at |-> worker.at, taken |-> worker.taken]
  BY WorkerFields DEF WorkerLoop
<1>2. /\ worker.at = "next" /\ worker.taken # <<>> /\ worker.taken # <<Sentinel>>
      /\ ledger' = Start(ledger) /\ turns' = Changed(turns, h, "running")
      /\ worker' = [gen |-> worker.gen, at |-> "turn", taken |-> worker.taken]
      /\ UNCHANGED queue
  BY <1>1 DEF WorkerStartsTurn, WorkerAt, Changed
<1>3. /\ worker.taken \in Seq(Nat) /\ Line(worker.taken) /\ SentinelLast(worker.taken)
      /\ Fated(turns, gen, "queued") = Entries(queue) \cup Entries(worker.taken)
      /\ Fated(turns, gen, "running") = {}
      /\ Entries(queue) \cap Entries(worker.taken) = {}
      /\ Sentinel \in ToSet(worker.taken) => gate /\ ToSet(queue) \subseteq {Sentinel}
  <2>1. Rest = worker.taken BY <1>2 DEF Rest
  <2> QED BY <1>0, <1>1, <1>2, <2>1 DEF Shaped, BatchKept
<1>4. /\ h = worker.taken[1] /\ h # Sentinel /\ h \notin ToSet(t)
      /\ ToSet(worker.taken) = {h} \cup ToSet(t)
  <2>1. /\ h = worker.taken[1] /\ ToSet(worker.taken) = {h} \cup ToSet(t)
        /\ h \in ToSet(t) => h = Sentinel
        /\ h = Sentinel => worker.taken = <<Sentinel>>
    BY <1>2, <1>3, LineTail
  <2> QED BY <1>2, <2>1
<1> HIDE DEF h, t
<1>5. /\ Entries(worker.taken) = {h} \cup Entries(t) /\ h \notin Entries(t)
      /\ h \notin Entries(queue)
  BY <1>3, <1>4 DEF Entries
<1>6. h \in DOMAIN turns /\ turns[h].gen = gen /\ turns[h].fate = "queued"
  <2>1. h \in Fated(turns, gen, "queued") BY <1>3, <1>5
  <2> QED BY <2>1 DEF Fated
<1>7. "running" \in Fates \cup Waiting BY DEF Waiting
<1>8. /\ turns' \in Seq(TurnRec) /\ DOMAIN turns' = DOMAIN turns
      /\ turns'[h].gen = gen /\ \A i \in DOMAIN turns \ {h} : turns'[i] = turns[i]
      /\ Fated(turns', gen, "running") = Fated(turns, gen, "running") \cup {h}
      /\ Fated(turns', gen, "queued") = Fated(turns, gen, "queued") \ {h}
  BY <1>0, <1>2, <1>6, <1>7, TurnChanges
<1>9. Start(ledger) \in Ledger /\ Tallies(Start(ledger), turns', gen)
  BY <1>0, <1>2, <1>6, LedgerStarts
<1>10. worker'.gen = worker.gen /\ worker'.at = "turn" /\ worker'.taken = worker.taken BY <1>2
<1>11. Shaped'
  <2>1. ASSUME NEW i \in DOMAIN turns' PROVE turns'[i].gen <= gen
    <3>1. CASE i = h BY <1>0, <1>6, <1>8, <3>1 DEF Shaped
    <3>2. CASE i # h BY <1>0, <1>8, <3>2 DEF Shaped
    <3> QED BY <3>1, <3>2
  <2> QED BY <1>0, <1>1, <1>2, <1>8, <1>9, <1>10, <2>1 DEF Shaped
<1>12. Fated(turns', gen, "running") = {h} BY <1>3, <1>8
<1>13. Fated(turns', gen, "queued") = Entries(queue) \cup Entries(t) BY <1>3, <1>5, <1>8
<1>14. QueueKept'
  <2>1. Entries(queue) \subseteq Fated(turns', gen, "queued") BY <1>13
  <2> QED BY <1>0, <1>1, <1>2, <2>1 DEF QueueKept
<1>15. Rest' = t BY <1>10 DEF Rest, t
<1>16. BatchKept' BY <1>1, <1>2, <1>3, <1>4, <1>10, <1>12, <1>13, <1>15 DEF BatchKept
<1>17. Tallies(ledger, turns, gen)' BY <1>1, <1>2, <1>9
<1> QED BY <1>1, <1>10, <1>11, <1>14, <1>16, <1>17, WorkerFrame

LEMMA WorkerEndsCounts ==
  ASSUME LInv, IInv, IInv', NEW f \in Fates, WorkerEndsTurn(f)
  PROVE  LInv'
<1> DEFINE h == Head(worker.taken)
           t == Tail(worker.taken)
<1>0. /\ Shaped /\ QueueKept /\ BatchKept /\ Tallies(ledger, turns, gen)
      /\ turns \in Seq(TurnRec) /\ ledger \in Ledger
  BY DEF LInv, Shaped
<1>1. /\ WorkerAlive
      /\ UNCHANGED <<initializing, gate, gen, queueRef, workerRef, overflow, pc>>
      /\ worker = [gen |-> worker.gen, at |-> worker.at, taken |-> worker.taken]
  <2>1. WorkerLoop BY DEF WorkerLoop
  <2> QED BY <2>1, WorkerFields
<1>2. /\ worker.at = "turn" /\ turns' = Changed(turns, h, f) /\ ledger' = Settle(ledger, f)
      /\ worker' = [gen |-> worker.gen, at |-> "next", taken |-> t]
      /\ UNCHANGED queue
  <2>1. worker.gen = gen BY <1>1, RefsAlive
  <2> QED BY <1>1, <2>1 DEF WorkerEndsTurn, Changed
<1>3. /\ worker.taken \in Seq(Nat) /\ worker.taken # <<>> /\ Line(worker.taken)
      /\ SentinelLast(worker.taken)
      /\ Fated(turns, gen, "queued") = Entries(queue) \cup Entries(t)
      /\ Fated(turns, gen, "running") = {worker.taken[1]}
      /\ Entries(queue) \cap Entries(worker.taken) = {}
      /\ Sentinel \in ToSet(worker.taken) => gate /\ ToSet(queue) \subseteq {Sentinel}
  <2>1. Rest = t BY <1>2 DEF Rest
  <2> QED BY <1>0, <1>1, <1>2, <2>1 DEF Shaped, BatchKept
<1>4. /\ h = worker.taken[1] /\ t \in Seq(Nat) /\ Line(t) /\ SentinelLast(t)
      /\ ToSet(t) \subseteq ToSet(worker.taken)
  BY <1>3, LineTail
<1> HIDE DEF h, t
<1>5. h \in DOMAIN turns /\ turns[h].gen = gen /\ turns[h].fate = "running"
  <2>1. h \in Fated(turns, gen, "running") BY <1>3, <1>4
  <2> QED BY <2>1 DEF Fated
<1>6. f \in Fates \cup Waiting /\ f # "queued" /\ f # "running" BY DEF Fates
<1>7. /\ turns' \in Seq(TurnRec) /\ DOMAIN turns' = DOMAIN turns
      /\ turns'[h].gen = gen /\ \A i \in DOMAIN turns \ {h} : turns'[i] = turns[i]
      /\ Fated(turns', gen, "running") = Fated(turns, gen, "running") \ {h}
      /\ Fated(turns', gen, "queued") = Fated(turns, gen, "queued") \ {h}
  BY <1>0, <1>2, <1>5, <1>6, TurnChanges
<1>8. Settle(ledger, f) \in Ledger /\ Tallies(Settle(ledger, f), turns', gen)
  BY <1>0, <1>2, <1>5, LedgerSettles
<1>9. worker'.gen = worker.gen /\ worker'.at = "next" /\ worker'.taken = t BY <1>2
<1>10. Shaped'
  <2>1. ASSUME NEW i \in DOMAIN turns' PROVE turns'[i].gen <= gen
    <3>1. CASE i = h BY <1>0, <1>5, <1>7, <3>1 DEF Shaped
    <3>2. CASE i # h BY <1>0, <1>7, <3>2 DEF Shaped
    <3> QED BY <3>1, <3>2
  <2> QED BY <1>0, <1>1, <1>2, <1>4, <1>7, <1>8, <1>9, <2>1 DEF Shaped
<1>11. Fated(turns', gen, "running") = {} BY <1>3, <1>4, <1>7
<1>12. Fated(turns', gen, "queued") = Entries(queue) \cup Entries(t)
  <2>1. h \notin Fated(turns, gen, "queued") BY <1>5 DEF Fated
  <2>2. Fated(turns', gen, "queued") = Fated(turns, gen, "queued") BY <1>7, <2>1
  <2> QED BY <1>3, <2>2
<1>13. QueueKept'
  <2>1. Entries(queue) \subseteq Fated(turns', gen, "queued") BY <1>12
  <2> QED BY <1>0, <1>1, <1>2, <2>1 DEF QueueKept
<1>14. Rest' = t BY <1>9 DEF Rest
<1>15. Entries(queue) \cap Entries(t) = {} BY <1>3, <1>4 DEF Entries
<1>16. Sentinel \in ToSet(t) => gate /\ ToSet(queue) \subseteq {Sentinel} BY <1>3, <1>4
<1>17. BatchKept'
  BY <1>1, <1>2, <1>4, <1>9, <1>11, <1>12, <1>14, <1>15, <1>16 DEF BatchKept
<1>18. Tallies(ledger, turns, gen)' BY <1>1, <1>2, <1>8
<1> QED BY <1>1, <1>9, <1>10, <1>13, <1>17, <1>18, WorkerFrame

LEMMA WorkerEndsBatchCounts ==
  ASSUME LInv, IInv, IInv', WorkerEndsBatch
  PROVE  LInv'
<1>0. /\ Shaped /\ QueueKept /\ BatchKept /\ Tallies(ledger, turns, gen)
  BY DEF LInv
<1>1. /\ WorkerAlive
      /\ UNCHANGED <<initializing, gate, gen, queueRef, workerRef, overflow, pc>>
      /\ worker = [gen |-> worker.gen, at |-> worker.at, taken |-> worker.taken]
  BY WorkerFields DEF WorkerLoop
<1>2. /\ worker.at = "next" /\ worker.taken \in {<<>>, <<Sentinel>>}
      /\ UNCHANGED <<queue, turns, ledger>>
      /\ worker' = [gen |-> worker.gen, at |-> IF worker.taken = <<>> THEN "get" ELSE "drained",
                    taken |-> <<>>]
  BY <1>1 DEF WorkerEndsBatch
<1>3. /\ worker'.gen = worker.gen /\ worker'.taken = <<>>
      /\ worker'.at = IF worker.taken = <<>> THEN "get" ELSE "drained"
  BY <1>2
<1>4. /\ worker'.taken \in Seq(Nat) /\ Line(worker'.taken) /\ SentinelLast(worker'.taken)
      /\ ToSet(worker'.taken) = {}
  BY <1>3, LineEmpty
<1>5. Entries(worker.taken) = {}
  <2>1. CASE worker.taken = <<>> BY <2>1, LineEmpty DEF Entries
  <2>2. CASE worker.taken = <<Sentinel>>
    <3>1. Sentinel \in Nat BY DEF Sentinel
    <3>2. ToSet(worker.taken) = {Sentinel} BY <2>2, <3>1, LineSingle
    <3> QED BY <3>2 DEF Entries
  <2> QED BY <1>2, <2>1, <2>2
<1>6. /\ Fated(turns, gen, "queued") = Entries(queue)
      /\ Fated(turns, gen, "running") = {}
      /\ Sentinel \in ToSet(worker.taken) => gate /\ ToSet(queue) \subseteq {Sentinel}
  <2>1. Rest = worker.taken BY <1>2 DEF Rest
  <2> QED BY <1>0, <1>1, <1>2, <1>5, <2>1 DEF BatchKept
<1>7. Shaped' BY <1>0, <1>1, <1>2, <1>3, <1>4 DEF Shaped
<1>8. QueueKept' BY <1>0, <1>1, <1>2 DEF QueueKept
<1>9. Rest' = <<>> BY <1>3 DEF Rest
<1>10. Entries(<<>>) = {} BY LineEmpty DEF Entries
<1>11. BatchKept'
  BY <1>1, <1>2, <1>3, <1>4, <1>6, <1>9, <1>10 DEF BatchKept, WorkerAlive
<1>12. ASSUME worker'.at = "drained" PROVE NoneWaits(gen)' /\ gate
  <2>1. worker.taken = <<Sentinel>> BY <1>2, <1>3, <1>12
  <2>2. Sentinel \in ToSet(worker.taken)
    <3>1. Sentinel \in Nat BY DEF Sentinel
    <3> QED BY <2>1, <3>1, LineSingle
  <2>3. Entries(queue) = {} /\ gate BY <1>6, <2>2 DEF Entries
  <2> QED BY <1>1, <1>2, <1>6, <2>3 DEF NoneWaits
<1> QED BY <1>0, <1>1, <1>2, <1>3, <1>7, <1>8, <1>11, <1>12, WorkerFrame

LEMMA WorkerCounts ==
  ASSUME LInv, IInv, IInv', WorkerLoop
  PROVE  LInv'
  BY WorkerGetsCounts, WorkerWaitsCounts, WorkerFillsCounts, WorkerStartsCounts,
     WorkerEndsCounts, WorkerEndsBatchCounts DEF WorkerLoop
-----------------------------------------------------------------------------
(* The threads on the ledger.                                                *)

\* A thread that goes anywhere but to the setup of a generation.
LEMMA NoSetup ==
  ASSUME IInv, NEW a \in Actor, NEW l, l # "setup", Go(a, l)
  PROVE  \A b \in Actor : pc'[b] = "setup" => pc[b] = "setup"
  BY DEF Go, IInv, Typed

LEMMA InitializeCounts ==
  ASSUME LInv, IInv, IInv', NEW a \in Actor, InitClaim(a) \/ Initialize(a)
  PROVE  LInv'
<1>1. CASE InitClaim(a) BY <1>1, InitClaimCounts
<1>2. CASE InitSetup(a) BY <1>2, InitSetupCounts
<1>3. CASE InitPublish(a) \/ InitStartFails(a) BY <1>3, InitPublishCounts
<1>4. CASE InitAbandon(a)
  <2>1. \A b \in Actor : pc'[b] = "setup" => pc[b] = "setup"
    BY <1>4, NoSetup DEF InitAbandon
  <2> QED BY <1>4, <2>1, WorkForgotten DEF InitAbandon, StateLockFree
<1>5. CASE InitFinally(a)
  <2>1. \A b \in Actor : pc'[b] = "setup" => pc[b] = "setup"
    BY <1>5, NoSetup DEF InitFinally, Return
  <2> QED BY <1>5, <2>1, WorkKept DEF InitFinally
<1>6. CASE InitAcquireScrub(a) \/ InitHoldScrub(a) \/ InitBind(a)
           \/ InitBindFails(a) \/ InitReadOnly(a) \/ InitReady(a) \/ InitUnready(a) \/ InitCancelled(a) \/ InitFails(a)
  <2>1. \A b \in Actor : pc'[b] = "setup" => pc[b] = "setup"
    BY <1>6, NoSetup DEF InitAcquireScrub, InitHoldScrub, InitBind, InitBindFails, InitReadOnly, InitReady,
       InitUnready, InitCancelled, InitFails
  <2>2. UNCHANGED work /\ UNCHANGED <<initializing, gate, gen, queueRef, workerRef>>
    BY <1>6 DEF InitAcquireScrub, InitHoldScrub, InitBind, InitBindFails, InitReadOnly, InitReady,
       InitUnready, InitCancelled, InitFails, life
  <2> QED BY <2>1, <2>2, WorkKept
<1> QED BY <1>1, <1>2, <1>3, <1>4, <1>5, <1>6 DEF Initialize

LEMMA ShutdownCounts ==
  ASSUME LInv, IInv, IInv', NEW a \in Actor, Shutdown(a)
  PROVE  LInv'
<1>1. CASE ShutdownCancelsInit(a)
  <2>1. overflow = "none" BY <1>1 DEF ShutdownCancelsInit, LInv, OverflowKept
  <2> QED BY <1>1, <2>1, WorkKept DEF ShutdownCancelsInit
<1>2. CASE ShutdownRequest(a)
  <2>1. \A b \in Actor : pc'[b] = "setup" => pc[b] = "setup"
    BY <1>2, NoSetup DEF ShutdownRequest
  <2> QED BY <1>2, <2>1, WorkKept DEF ShutdownRequest, StateLockFree
<1>3. CASE ShutdownRetry(a)
  <2>1. \A b \in Actor : pc'[b] = "setup" => pc[b] = "setup"
    BY <1>3, NoSetup DEF ShutdownRetry
  <2> QED BY <1>3, <2>1, WorkKept DEF ShutdownRetry, life
<1> QED BY <1>1, <1>2, <1>3 DEF Shutdown

\* Only a close that finds no queue opens the gate.
LEMMA CloseOpensGate ==
  ASSUME NEW s, NEW m, FinishClose(s, m)
  PROVE  (gate' => gate) /\ (gate => gate' \/ queueRef = 0)
  BY DEF FinishClose

LEMMA TeardownCounts ==
  ASSUME LInv, IInv, IInv', NEW a \in Actor, Teardown(a)
  PROVE  LInv'
<1>1. CASE PostSentinel(a) BY <1>1, PostSentinelCounts
<1>2. CASE ClearState(a)
  <2>1. \A b \in Actor : pc'[b] = "setup" => pc[b] = "setup"
    BY <1>2, NoSetup DEF ClearState
  <2> QED BY <1>2, <2>1, WorkForgotten DEF ClearState, StateLockFree
<1>3. CASE CloseReleased(a)
  <2>1. \A b \in Actor : pc'[b] = "setup" => pc[b] = "setup"
    BY <1>3, NoSetup DEF CloseReleased
  <2>2. (gate' => gate) /\ (gate => gate' \/ queueRef = 0)
    BY <1>3, CloseOpensGate DEF CloseReleased
  <2>3. UNCHANGED work /\ UNCHANGED <<initializing, gen, queueRef, workerRef>>
    BY <1>3 DEF CloseReleased
  <2> QED BY <2>1, <2>2, <2>3, WorkKept
<1>4. CASE \E c \in Cleaner : Schedule(a, c)
  <2>1. \A b \in Actor : pc'[b] = "setup" => pc[b] = "setup"
    BY <1>4 DEF Schedule, IInv, Typed, Actor
  <2>2. UNCHANGED work /\ UNCHANGED <<initializing, gate, gen, queueRef, workerRef>>
    BY <1>4 DEF Schedule, life
  <2> QED BY <2>1, <2>2, WorkKept
<1>5. CASE ReleaseScrub(a) \/ ForgetScrub(a)
  <2>1. \A b \in Actor : pc'[b] = "setup" => pc[b] = "setup"
    BY <1>5, NoSetup DEF ReleaseScrub, ForgetScrub, AfterScrub, Return
  <2>2. UNCHANGED work /\ UNCHANGED <<initializing, gate, gen, queueRef, workerRef>>
    BY <1>5 DEF ReleaseScrub, ForgetScrub, life
  <2> QED BY <2>1, <2>2, WorkKept
<1>6. CASE SentinelTimesOut(a) \/ JoinReturns(a) \/ JoinRaises(a) \/ JoinTimesOut(a)
           \/ ScheduleNotNeeded(a) \/ ScheduleFails(a) \/ Scheduled(a) \/ CleanerJoins(a)
           \/ ClearStale(a) \/ CloseOwned(a)
  <2>1. \A b \in Actor : pc'[b] = "setup" => pc[b] = "setup"
    BY <1>6, NoSetup DEF SentinelTimesOut, JoinReturns, JoinRaises, JoinTimesOut,
       ScheduleNotNeeded, ScheduleFails, Scheduled, CleanerJoins, ClearStale, CloseOwned, Return
  <2>2. UNCHANGED work /\ UNCHANGED <<initializing, gate, gen, queueRef, workerRef>>
    BY <1>6 DEF SentinelTimesOut, JoinReturns, JoinRaises, JoinTimesOut,
       ScheduleNotNeeded, ScheduleFails, Scheduled, CleanerJoins, ClearStale, CloseOwned, life
  <2> QED BY <2>1, <2>2, WorkKept
<1> QED BY <1>1, <1>2, <1>3, <1>4, <1>5, <1>6 DEF Teardown

LEMMA CallbackCounts ==
  ASSUME LInv, IInv, IInv', SupervisorReleased \/ FireCallback
  PROVE  LInv'
<1>1. CASE SupervisorReleased BY <1>1, WorkKept DEF SupervisorReleased, life
<1>2. CASE FireCallback
  <2>1. (gate' => gate) /\ (gate => gate' \/ queueRef = 0)
    BY <1>2, CloseOpensGate DEF FireCallback
  <2> QED BY <1>2, <2>1, WorkKept DEF FireCallback
<1> QED BY <1>1, <1>2

LEMMA InitCounts == Init => LInv
<1> SUFFICES ASSUME Init PROVE LInv OBVIOUS
<1>1. /\ worker.gen = 0 /\ worker.at = "none" /\ worker.taken = <<>> /\ queue = <<>>
      /\ gen = 0 /\ queueRef = 0 /\ turns = <<>> /\ ledger = NewLedger /\ overflow = "none"
      /\ \A a \in Actor : pc[a] = "idle"
  BY DEF Init
<1>2. turns \in Seq(TurnRec) /\ DOMAIN turns = {} BY <1>1
<1>3. NewLedger \in Ledger /\ Tallies(NewLedger, turns, gen) BY <1>2, LedgerBegins
<1>4. <<>> \in Seq(Nat) /\ Line(<<>>) /\ ToSet(<<>>) = {} BY LineEmpty
<1>5. Shaped BY <1>1, <1>2, <1>3, <1>4 DEF Shaped
<1>6. OverflowKept BY <1>1 DEF OverflowKept
<1>7. QueueKept BY <1>1, <1>4 DEF QueueKept, Entries
<1>8. BatchKept BY <1>1 DEF BatchKept, WorkerAlive
<1>9. DrainKept BY <1>1 DEF DrainKept
<1> QED BY <1>1, <1>3, <1>5, <1>6, <1>7, <1>8, <1>9 DEF LInv

(* The second inductive invariant holds in every reachable state: a turn     *)
(* that waits is in the queue or in the worker's batch, once; the sentinel   *)
(* stands behind all of them; and the ledger counts what became of them.     *)
THEOREM TurnsAccounted == Spec => []LInv
<1>1. IInv /\ IInv' /\ LInv /\ [Next]_vars => LInv'
  <2> SUFFICES ASSUME IInv, IInv', LInv, [Next]_vars PROVE LInv' OBVIOUS
  <2>1. CASE UNCHANGED vars BY <2>1, WorkKept DEF vars, life
  <2>2. ASSUME NEW a \in Actor,
               InitClaim(a) \/ Initialize(a) \/ Shutdown(a) \/ Teardown(a)
        PROVE  LInv'
    BY <2>2, InitializeCounts, ShutdownCounts, TeardownCounts
  <2>3. CASE SupervisorReleased \/ FireCallback BY <2>3, CallbackCounts
  <2>4. CASE Produce \/ Overflow \/ WorkerLoop BY <2>4, ProducerCounts, WorkerCounts
  <2> QED BY <2>1, <2>2, <2>3, <2>4 DEF Next
<1> QED BY InductiveInvariant, InitCounts, <1>1, PTL DEF Spec

(* Whenever the state lock is free, the counters of the health report are    *)
(* what happened to the turns of this generation: the saturating             *)
(* subtractions of the ledger never meet a zero, whatever an overflow racing *)
(* the worker, a rejection or a shutdown does.                               *)
THEOREM LedgerExact == Spec => []LedgerMatchesTurns
<1>1. LInv => LedgerMatchesTurns
  BY DEF LInv, Tallies, LedgerMatchesTurns, FatesOf, Count, Kept, Waiting
<1> QED BY TurnsAccounted, <1>1, PTL

(* A worker that reached the sentinel leaves no turn of its generation       *)
(* queued or running, however many times the queue overflowed before it.     *)
THEOREM NothingBehindSentinel == Spec => []SentinelDrains
<1>1. LInv => SentinelDrains
  <2> SUFFICES ASSUME LInv, worker.at = "drained"
               PROVE  FatesOf(worker.gen, {"queued", "running"}) = 0
    BY DEF SentinelDrains
  <2>1. NoneWaits(worker.gen) BY DEF LInv, DrainKept
  <2>2. {t \in DOMAIN turns : turns[t].gen = worker.gen /\ turns[t].fate \in {"queued", "running"}}
          = {}
    BY <2>1 DEF NoneWaits, Fated
  <2> QED BY <2>2, FS_EmptySet DEF FatesOf
<1> QED BY TurnsAccounted, <1>1, PTL

-----------------------------------------------------------------------------
(* Types: the bounds.                                                        *)

Health == {"uninitialized", "initializing", "ready", "degraded", "stopping", "stopped", "failed"}

FlagsTyped ==
  /\ gen \in 0..MaxGen /\ ready \in BOOLEAN /\ scrubHeld \in BOOLEAN
  /\ health \in Health /\ overflow \in {"none", "full", "dropped"}

LEMMA FinishCloseHealth ==
  ASSUME NEW s, NEW m, FinishClose(s, m), health \in Health
  PROVE  health' \in Health
  BY DEF FinishClose, Health

LEMMA FlagsStep ==
  ASSUME FlagsTyped, [Next]_vars
  PROVE  FlagsTyped'
<1> USE LifecycleAssumption DEF FlagsTyped
<1>1. CASE UNCHANGED vars BY <1>1 DEF vars, life, work, scrub
<1>2. ASSUME NEW a \in Actor, InitClaim(a) PROVE FlagsTyped'
  <2>1. gen < MaxGen /\ gen' = gen + 1 BY <1>2 DEF InitClaim
  <2>2. gen' \in 0..MaxGen BY <2>1
  <2>3. /\ ready' = FALSE /\ health' = "initializing" /\ UNCHANGED <<scrubHeld, overflow>>
    BY <1>2 DEF InitClaim, scrub
  <2> QED BY <2>2, <2>3 DEF Health
<1>3. ASSUME NEW a \in Actor, Initialize(a) PROVE FlagsTyped'
  <2>1. CASE InitPublish(a) BY <2>1 DEF InitPublish, scrub, Health
  <2>2. CASE InitAbandon(a) BY <2>2 DEF InitAbandon, scrub, Health
  <2>3. CASE InitHoldScrub(a) BY <2>3 DEF InitHoldScrub, life, work
  <2>4. CASE InitSetup(a) \/ InitReady(a) \/ InitStartFails(a) \/ InitFinally(a)
    BY <2>4 DEF InitSetup, InitReady, InitStartFails, InitFinally, work, scrub
  <2>5. CASE \/ InitAcquireScrub(a) \/ InitBind(a) \/ InitBindFails(a) \/ InitReadOnly(a) \/ InitUnready(a)
             \/ InitCancelled(a) \/ InitFails(a)
    BY <2>5 DEF InitAcquireScrub, InitBind, InitBindFails, InitReadOnly, InitUnready, InitCancelled, InitFails,
                life, work, scrub
  <2> QED BY <1>3, <2>1, <2>2, <2>3, <2>4, <2>5 DEF Initialize
<1>4. ASSUME NEW a \in Actor, Shutdown(a) PROVE FlagsTyped'
  BY <1>4 DEF Shutdown, ShutdownCancelsInit, ShutdownRequest, ShutdownRetry, life, work, scrub,
              Health
<1>5. ASSUME NEW a \in Actor, Teardown(a) PROVE FlagsTyped'
  <2>1. CASE JoinTimesOut(a) \/ Scheduled(a) \/ ClearState(a)
    BY <2>1 DEF JoinTimesOut, Scheduled, ClearState, work, scrub, Health
  <2>2. CASE CloseReleased(a)
    <3>1. health' \in Health BY <2>2, FinishCloseHealth DEF CloseReleased
    <3> QED BY <2>2, <3>1 DEF CloseReleased, work, scrub
  <2>3. CASE ReleaseScrub(a) \/ ForgetScrub(a)
    BY <2>3 DEF ReleaseScrub, ForgetScrub, life, work
  <2>4. CASE \/ PostSentinel(a) \/ SentinelTimesOut(a) \/ JoinReturns(a) \/ JoinRaises(a)
             \/ ScheduleNotNeeded(a) \/ ScheduleFails(a) \/ (\E c \in Cleaner : Schedule(a, c))
             \/ CleanerJoins(a) \/ ClearStale(a) \/ CloseOwned(a)
    BY <2>4 DEF PostSentinel, SentinelTimesOut, JoinReturns, JoinRaises, ScheduleNotNeeded,
                ScheduleFails, Schedule, CleanerJoins, ClearStale, CloseOwned, life, work, scrub
  <2> QED BY <1>5, <2>1, <2>2, <2>3, <2>4 DEF Teardown
<1>6. CASE SupervisorReleased BY <1>6 DEF SupervisorReleased, life, work, scrub
<1>7. CASE FireCallback
  <2>1. health' \in Health BY <1>7, FinishCloseHealth DEF FireCallback
  <2> QED BY <1>7, <2>1 DEF FireCallback, work, scrub
<1>8. CASE Produce \/ Overflow
  BY <1>8 DEF Produce, SyncTurnRejected, SyncTurn, Overflow, DropOldest, PutAfterDrop, life, scrub
<1>9. CASE WorkerLoop
  <2>1. ASSUME NEW fate \in Fates, WorkerEndsTurn(fate) PROVE FlagsTyped'
    BY <2>1 DEF WorkerEndsTurn, scrub, Health
  <2>2. CASE \/ WorkerGets \/ WorkerTimesOut \/ WorkerChecksGate \/ WorkerFills
             \/ WorkerStartsTurn \/ WorkerEndsBatch
    BY <2>2 DEF WorkerGets, WorkerTimesOut, WorkerChecksGate, WorkerFills, WorkerStartsTurn,
                WorkerEndsBatch, life, scrub
  <2> QED BY <1>9, <2>1, <2>2 DEF WorkerLoop
<1> QED BY <1>1, <1>2, <1>3, <1>4, <1>5, <1>6, <1>7, <1>8, <1>9 DEF Next

\* A thread remembers generations that exist, and the log boundary is acquired
\* at most once by each: an initializer that has not acquired it yet finds fewer
\* references than there are generations.
Early == {"setup", "acquire"}

LocalsBounded ==
  /\ \A a \in Actor : local[a].worker <= gen /\ local[a].queue <= gen /\ local[a].sup <= gen
  /\ scrubs \in 0..gen
  /\ \A a \in Actor : pc[a] \in Early => scrubs < gen

LEMMA BoundedKept ==
  ASSUME IInv, LocalsBounded, UNCHANGED <<gen, scrubs, pc, local>>
  PROVE  LocalsBounded'
  BY DEF LocalsBounded

\* A step of one actor that begins no initialization and acquires nothing.
LEMMA BoundedMove ==
  ASSUME IInv, LocalsBounded, NEW a \in Actor, NEW l, l \notin Early, NEW w \in Locals,
         w.worker <= gen, w.queue <= gen, w.sup <= gen,
         Moves(a, l, w), UNCHANGED gen, scrubs' \in 0..scrubs
  PROVE  LocalsBounded'
<1>1. /\ pc \in [Actor -> Point] /\ local \in [Actor -> Locals] /\ gen \in Nat /\ scrubs \in 0..gen
  BY DEF IInv, Typed, Locals, LocalsBounded
<1>2. /\ pc'[a] = l /\ local'[a] = w
      /\ \A b \in Actor \ {a} : pc'[b] = pc[b] /\ local'[b] = local[b]
  BY <1>1 DEF Moves
<1>3. \A b \in Actor : local'[b].worker <= gen /\ local'[b].queue <= gen /\ local'[b].sup <= gen
  BY <1>2 DEF LocalsBounded
<1>4. scrubs' \in 0..gen
  BY <1>1
<1>5. ASSUME NEW b \in Actor, pc'[b] \in Early PROVE scrubs' < gen
  <2>1. scrubs < gen BY <1>2, <1>5 DEF LocalsBounded
  <2> QED BY <1>1, <2>1
<1> QED BY <1>3, <1>4, <1>5 DEF LocalsBounded

LEMMA RefsBounded ==
  ASSUME IInv
  PROVE  /\ gen \in Nat /\ queueRef \in Nat /\ workerRef \in Nat /\ supRef \in Nat
         /\ queueRef <= gen /\ workerRef <= gen /\ supRef <= gen
  BY DEF IInv, Typed, RefsKept, OwnerKept

LEMMA LocalsKnown ==
  ASSUME IInv, LocalsBounded, NEW a \in Actor
  PROVE  /\ local[a] \in Locals /\ local = [local EXCEPT ![a] = local[a]]
         /\ local[a].worker <= gen /\ local[a].queue <= gen /\ local[a].sup <= gen
         /\ NoLocals \in Locals /\ NoLocals.worker <= gen /\ NoLocals.queue <= gen /\ NoLocals.sup <= gen
<1>1. local \in [Actor -> Locals] /\ gen \in Nat BY DEF IInv, Typed, Locals
<1>2. NoLocals \in Locals /\ NoLocals.worker = 0 /\ NoLocals.queue = 0 /\ NoLocals.sup = 0
  BY DEF NoLocals, Locals
<1> QED BY <1>1, <1>2 DEF LocalsBounded

\* An actor goes on with its locals, or returns.
LEMMA BoundedGo ==
  ASSUME IInv, LocalsBounded, NEW a \in Actor, NEW l, l \notin Early, Go(a, l),
         UNCHANGED local \/ local' = [local EXCEPT ![a] = NoLocals], UNCHANGED gen,
         scrubs' \in 0..scrubs
  PROVE  LocalsBounded'
<1>1. /\ local[a] \in Locals /\ local = [local EXCEPT ![a] = local[a]]
      /\ local[a].worker <= gen /\ local[a].queue <= gen /\ local[a].sup <= gen
      /\ NoLocals \in Locals /\ NoLocals.worker <= gen /\ NoLocals.queue <= gen /\ NoLocals.sup <= gen
  BY LocalsKnown
<1>2. CASE UNCHANGED local
  <2>1. Moves(a, l, local[a]) BY <1>1, <1>2 DEF Go, Moves
  <2> QED BY <1>1, <2>1, BoundedMove
<1>3. CASE local' = [local EXCEPT ![a] = NoLocals]
  <2>1. Moves(a, l, NoLocals) BY <1>3 DEF Go, Moves
  <2> QED BY <1>1, <2>1, BoundedMove
<1> QED BY <1>2, <1>3

\* Nobody else is opening a generation.
LEMMA OneOpens ==
  ASSUME IInv, NEW a \in Actor, pc[a] \in Early
  PROVE  \A b \in Actor \ {a} : pc[b] \notin Early
<1>1. \A b \in Actor : b # a => Apart(a, b) BY DEF IInv
<1> QED BY <1>1 DEF Apart, Initializer, Early, Unsettled, Opening, Building

LEMMA InitializeBounds ==
  ASSUME IInv, LocalsBounded, NEW a \in Actor, InitClaim(a) \/ Initialize(a)
  PROVE  LocalsBounded'
<1>0. /\ pc \in [Actor -> Point] /\ gen \in Nat /\ scrubs \in Nat /\ scrubs <= gen
      /\ local \in [Actor -> Locals]
  BY DEF IInv, Typed, LocalsBounded, Locals
<1>1. CASE InitClaim(a)
  <2>1. gen' = gen + 1 /\ UNCHANGED <<scrubs, local>> BY <1>1 DEF InitClaim, scrub
  <2>2. \A b \in Actor : /\ local[b].worker \in Nat /\ local[b].queue \in Nat /\ local[b].sup \in Nat
                         /\ local[b].worker <= gen /\ local[b].queue <= gen /\ local[b].sup <= gen
    BY <1>0 DEF LocalsBounded, Locals
  <2> QED BY <1>0, <2>1, <2>2 DEF LocalsBounded
<1>2. CASE InitSetup(a)
  <2>1. pc[a] = "setup" /\ pc' = [pc EXCEPT ![a] = "acquire"] /\ UNCHANGED <<gen, scrubs, local>>
    BY <1>2 DEF InitSetup, Go, scrub
  <2>2. scrubs < gen BY <2>1 DEF LocalsBounded, Early
  <2> QED BY <2>1, <2>2 DEF LocalsBounded
<1>3. CASE InitAcquireScrub(a)
  <2>1. /\ pc[a] = "acquire" /\ pc' = [pc EXCEPT ![a] = "acquired"] /\ scrubs' = scrubs + 1
        /\ UNCHANGED <<gen, local>>
    BY <1>3 DEF InitAcquireScrub, Go, life
  <2>2. scrubs < gen /\ \A b \in Actor \ {a} : pc[b] \notin Early
    BY <2>1, OneOpens DEF LocalsBounded, Early
  <2>3. \A b \in Actor : pc'[b] \notin Early
    BY <1>0, <2>1, <2>2 DEF Early
  <2>4. scrubs' \in 0..gen BY <1>0, <2>1, <2>2
  <2> QED BY <2>1, <2>3, <2>4 DEF LocalsBounded
<1>4. CASE InitAbandon(a)
  <2> DEFINE w == [NoLocals EXCEPT !.sup = supRef]
  <2>1. w \in Locals /\ w.worker = 0 /\ w.queue = 0 /\ w.sup = supRef
    BY RefsBounded DEF NoLocals, Locals
  <2>2. Moves(a, "close", w) /\ UNCHANGED <<gen, scrubs>>
    BY <1>4 DEF InitAbandon, Go, Moves, scrub
  <2> HIDE DEF w
  <2>3. scrubs' \in 0..scrubs BY <1>0, <2>2
  <2> QED BY <2>1, <2>2, <2>3, RefsBounded, BoundedMove DEF Early
<1>5. CASE \/ InitHoldScrub(a) \/ InitBind(a) \/ InitBindFails(a) \/ InitReadOnly(a) \/ InitReady(a) \/ InitUnready(a)
           \/ InitPublish(a) \/ InitStartFails(a) \/ InitCancelled(a) \/ InitFails(a)
  <2>1. UNCHANGED <<gen, scrubs, local>>
    BY <1>5 DEF InitHoldScrub, InitBind, InitBindFails, InitReadOnly, InitReady, InitUnready, InitPublish,
                InitStartFails, InitCancelled, InitFails, life, scrub
  <2>2. Go(a, "bind") \/ Go(a, "identity") \/ Go(a, "publish") \/ Go(a, "cancelled")
          \/ Go(a, "finally") \/ Go(a, "failed")
    BY <1>5 DEF InitHoldScrub, InitBind, InitBindFails, InitReadOnly, InitReady, InitUnready, InitPublish,
                InitStartFails, InitCancelled, InitFails
  <2>3. scrubs' \in 0..scrubs BY <1>0, <2>1
  <2> QED BY <2>1, <2>2, <2>3, BoundedGo DEF Early
<1>6. CASE InitFinally(a)
  <2>1. /\ Go(a, "idle") /\ local' = [local EXCEPT ![a] = NoLocals] /\ UNCHANGED <<gen, scrubs>>
    BY <1>6 DEF InitFinally, Return, scrub
  <2>2. scrubs' \in 0..scrubs BY <1>0, <2>1
  <2> QED BY <2>1, <2>2, BoundedGo DEF Early
<1> QED BY <1>1, <1>2, <1>3, <1>4, <1>5, <1>6 DEF Initialize

LEMMA ShutdownBounds ==
  ASSUME IInv, LocalsBounded, NEW a \in Actor, Shutdown(a)
  PROVE  LocalsBounded'
<1>0. scrubs \in Nat /\ scrubs \in 0..scrubs BY DEF LocalsBounded, IInv, Typed
<1>1. CASE ShutdownCancelsInit(a) BY <1>1, BoundedKept DEF ShutdownCancelsInit, scrub
<1>2. CASE ShutdownRequest(a)
  <2> DEFINE w == [NoLocals EXCEPT !.queue = queueRef]
  <2>1. w \in Locals /\ w.worker = 0 /\ w.queue = queueRef /\ w.sup = 0
    BY RefsBounded DEF NoLocals, Locals
  <2>2. Moves(a, "sentinel", w) /\ UNCHANGED <<gen, scrubs>>
    BY <1>2 DEF ShutdownRequest, Go, Moves, scrub
  <2> HIDE DEF w
  <2> QED BY <1>0, <2>1, <2>2, RefsBounded, BoundedMove DEF Early
<1>3. CASE ShutdownRetry(a)
  <2> DEFINE w == [NoLocals EXCEPT !.queue = queueRef, !.worker = workerRef]
  <2>1. w \in Locals /\ w.worker = workerRef /\ w.queue = queueRef /\ w.sup = 0
    BY RefsBounded DEF NoLocals, Locals
  <2>2. Moves(a, "schedule", w) /\ UNCHANGED <<gen, scrubs>>
    BY <1>3 DEF ShutdownRetry, Go, Moves, scrub, life
  <2> HIDE DEF w
  <2> QED BY <1>0, <2>1, <2>2, RefsBounded, BoundedMove DEF Early
<1> QED BY <1>1, <1>2, <1>3 DEF Shutdown

LEMMA TeardownBounds ==
  ASSUME IInv, LocalsBounded, NEW a \in Actor, Teardown(a)
  PROVE  LocalsBounded'
<1>0. scrubs \in Nat /\ scrubs \in 0..scrubs /\ gen \in Nat BY DEF LocalsBounded, IInv, Typed
<1>1. /\ local[a] \in Locals /\ local[a].worker <= gen /\ local[a].queue <= gen /\ local[a].sup <= gen
      /\ local \in [Actor -> Locals] /\ pc \in [Actor -> Point]
  BY LocalsKnown DEF IInv, Typed, Locals
<1>2. CASE JoinReturns(a) \/ JoinTimesOut(a)
  <2> DEFINE w == [local[a] EXCEPT !.worker = workerRef]
  <2>1. w \in Locals /\ w.worker = workerRef /\ w.queue = local[a].queue /\ w.sup = local[a].sup
    BY <1>1, RefsBounded DEF Locals
  <2>2. (Moves(a, "clear", w) \/ Moves(a, "schedule", w)) /\ UNCHANGED <<gen, scrubs>>
    BY <1>2 DEF JoinReturns, JoinTimesOut, Go, Moves, scrub, life
  <2> HIDE DEF w
  <2> QED BY <1>0, <1>1, <2>1, <2>2, RefsBounded, BoundedMove DEF Early
<1>3. CASE ClearState(a)
  <2> DEFINE w == [local[a] EXCEPT !.sup = supRef, !.mark = TRUE]
  <2>1. w \in Locals /\ w.worker = local[a].worker /\ w.queue = local[a].queue /\ w.sup = supRef
    BY <1>1, RefsBounded DEF Locals
  <2>2. /\ local' = [local EXCEPT ![a].sup = supRef, ![a].mark = TRUE]
        /\ Go(a, "close") /\ UNCHANGED <<gen, scrubs>>
    BY <1>3 DEF ClearState, scrub
  <2>3. local' = [local EXCEPT ![a] = w]
    BY <1>1, <2>2
  <2>4. Moves(a, "close", w)
    BY <2>2, <2>3 DEF Go, Moves
  <2> HIDE DEF w
  <2> QED BY <1>0, <1>1, <2>1, <2>2, <2>4, RefsBounded, BoundedMove DEF Early
<1>4. ASSUME NEW c \in Cleaner, Schedule(a, c) PROVE LocalsBounded'
  <2>1. /\ pc' = [pc EXCEPT ![a] = "scheduled", ![c] = "joining"]
        /\ local' = [local EXCEPT ![c] = local[a]] /\ UNCHANGED <<gen, scrubs>> /\ c \in Actor
    BY <1>4 DEF Schedule, scrub, life, Actor
  <2>2. \A b \in Actor : local'[b] = IF b = c THEN local[a] ELSE local[b]
    BY <1>1, <2>1
  <2>3. \A b \in Actor : pc'[b] \in Early => pc[b] \in Early
    BY <1>1, <2>1 DEF Early
  <2> QED BY <1>1, <2>1, <2>2, <2>3 DEF LocalsBounded
<1>5. CASE \/ PostSentinel(a) \/ SentinelTimesOut(a) \/ JoinRaises(a) \/ ScheduleNotNeeded(a)
           \/ ScheduleFails(a) \/ Scheduled(a) \/ CleanerJoins(a) \/ ClearStale(a)
           \/ CloseReleased(a) \/ CloseOwned(a)
  <2>1. UNCHANGED <<gen, scrubs>> /\ (UNCHANGED local \/ local' = [local EXCEPT ![a] = NoLocals])
    BY <1>5 DEF PostSentinel, SentinelTimesOut, JoinRaises, ScheduleNotNeeded, ScheduleFails,
                Scheduled, CleanerJoins, ClearStale, CloseReleased, CloseOwned, Return, life, scrub
  <2>2. Go(a, "join") \/ Go(a, "raised") \/ Go(a, "clear") \/ Go(a, "idle") \/ Go(a, "unscrub")
    BY <1>5 DEF PostSentinel, SentinelTimesOut, JoinRaises, ScheduleNotNeeded, ScheduleFails,
                Scheduled, CleanerJoins, ClearStale, CloseReleased, CloseOwned, Return
  <2> QED BY <1>0, <2>1, <2>2, BoundedGo DEF Early
<1>6. CASE ReleaseScrub(a) \/ ForgetScrub(a)
  <2>1. UNCHANGED gen /\ (UNCHANGED local \/ local' = [local EXCEPT ![a] = NoLocals])
    BY <1>6 DEF ReleaseScrub, ForgetScrub, AfterScrub, Return, life
  <2>2. scrubs' \in 0..scrubs
    BY <1>0, <1>6 DEF ReleaseScrub, ForgetScrub
  <2>3. Go(a, "forget") \/ Go(a, "finally") \/ Go(a, "idle")
    BY <1>6 DEF ReleaseScrub, ForgetScrub, AfterScrub, Return
  <2> QED BY <2>1, <2>2, <2>3, BoundedGo DEF Early
<1> QED BY <1>2, <1>3, <1>4, <1>5, <1>6 DEF Teardown

LEMMA BoundsStep ==
  ASSUME IInv, LocalsBounded, [Next]_vars
  PROVE  LocalsBounded'
<1>1. CASE UNCHANGED vars BY <1>1, BoundedKept DEF vars, life, scrub
<1>2. ASSUME NEW a \in Actor, InitClaim(a) \/ Initialize(a) \/ Shutdown(a) \/ Teardown(a)
      PROVE  LocalsBounded'
  BY <1>2, InitializeBounds, ShutdownBounds, TeardownBounds
<1>3. CASE SupervisorReleased \/ FireCallback
  BY <1>3, BoundedKept DEF SupervisorReleased, FireCallback, life, scrub
<1>4. CASE Produce \/ Overflow
  BY <1>4, BoundedKept
     DEF Produce, SyncTurnRejected, SyncTurn, Overflow, DropOldest, PutAfterDrop, life, scrub
<1>5. CASE WorkerLoop
  BY <1>5, BoundedKept
     DEF WorkerLoop, WorkerGets, WorkerTimesOut, WorkerChecksGate, WorkerFills, WorkerStartsTurn,
         WorkerEndsTurn, WorkerEndsBatch, life, scrub
<1> QED BY <1>1, <1>2, <1>3, <1>4, <1>5 DEF Next

\* The queue and the batch keep within their sizes, an overflowing sync_turn()
\* still has its turn to make, and every turn belongs to a generation.
LengthsKept ==
  /\ Len(queue) <= Capacity /\ Len(worker.taken) <= Batch
  /\ Len(turns) <= MaxTurns /\ (overflow # "none" => Len(turns) < MaxTurns)
  /\ \A t \in DOMAIN turns : turns[t].gen # 0

LEMMA LengthsActor ==
  ASSUME LInv, LengthsKept, UNCHANGED <<overflow, turns>>,
         \/ UNCHANGED queue \/ queue' = <<>>
         \/ Len(queue) < Capacity /\ queue' = Append(queue, Sentinel),
         UNCHANGED worker \/ worker'.taken = <<>>
  PROVE  LengthsKept'
<1>1. queue \in Seq(Nat) /\ Capacity \in Nat /\ Batch \in Nat
  BY LifecycleAssumption DEF LInv, Shaped
<1>2. Len(queue') <= Capacity
  <2>1. CASE UNCHANGED queue BY <2>1 DEF LengthsKept
  <2>2. CASE queue' = <<>> BY <1>1, <2>2
  <2>3. CASE Len(queue) < Capacity /\ queue' = Append(queue, Sentinel)
    <3>1. Len(queue') = Len(queue) + 1 BY <1>1, <2>3 DEF Sentinel
    <3> QED BY <1>1, <2>3, <3>1
  <2> QED BY <2>1, <2>2, <2>3
<1>3. Len(worker'.taken) <= Batch
  <2>1. CASE UNCHANGED worker BY <2>1 DEF LengthsKept
  <2>2. CASE worker'.taken = <<>> BY <1>1, <2>2
  <2> QED BY <2>1, <2>2
<1> QED BY <1>2, <1>3 DEF LengthsKept

\* A turn is made, queued where there is room.
LEMMA LengthsMade ==
  ASSUME LInv, LengthsKept, gen \in Nat, gen # 0, Len(turns) < MaxTurns, overflow' = "none",
         UNCHANGED worker, NEW f \in Fates \cup Waiting, turns' = Turn(f),
         \/ UNCHANGED queue
         \/ Len(queue) < Capacity /\ queue' = Append(queue, Len(turns) + 1)
  PROVE  LengthsKept'
<1>1. queue \in Seq(Nat) /\ turns \in Seq(TurnRec) /\ Capacity \in Nat /\ MaxTurns \in Nat
  BY LifecycleAssumption DEF LInv, Shaped
<1> DEFINE n == Len(turns) + 1
<1>2. /\ turns' \in Seq(TurnRec) /\ DOMAIN turns' = DOMAIN turns \cup {n} /\ n \in Nat
      /\ turns'[n].gen = gen /\ \A t \in DOMAIN turns : turns'[t] = turns[t]
  BY <1>1, TurnMade
<1>3. Len(turns') = n
  <2>1. turns' = Append(turns, [gen |-> gen, fate |-> f]) /\ [gen |-> gen, fate |-> f] \in TurnRec
    BY DEF Turn, TurnRec
  <2> QED BY <1>1, <2>1
<1>4. n <= MaxTurns BY <1>1
<1>5. Len(queue') <= Capacity
  <2>1. CASE UNCHANGED queue BY <2>1 DEF LengthsKept
  <2>2. CASE Len(queue) < Capacity /\ queue' = Append(queue, n)
    <3>1. Len(queue') = Len(queue) + 1 BY <1>1, <1>2, <2>2
    <3> QED BY <1>1, <2>2, <3>1
  <2> QED BY <2>1, <2>2
<1> HIDE DEF n
<1>6. \A t \in DOMAIN turns' : turns'[t].gen # 0 BY <1>2 DEF LengthsKept
<1> QED BY <1>3, <1>4, <1>5, <1>6 DEF LengthsKept

\* The fate of a turn changes, and the lengths do not grow.
LEMMA LengthsChanged ==
  ASSUME LInv, LengthsKept, NEW t \in DOMAIN turns, NEW f \in Fates \cup Waiting,
         turns' = Changed(turns, t, f), overflow' # "none" => overflow # "none",
         Len(queue') <= Capacity, Len(worker'.taken) <= Batch
  PROVE  LengthsKept'
<1>1. turns \in Seq(TurnRec) BY DEF LInv, Shaped
<1>2. /\ DOMAIN turns' = DOMAIN turns /\ Len(turns') = Len(turns)
      /\ turns'[t].gen = turns[t].gen /\ \A i \in DOMAIN turns \ {t} : turns'[i] = turns[i]
  BY <1>1, ChangedTurn
<1>3. \A i \in DOMAIN turns : turns'[i].gen # 0 BY <1>2 DEF LengthsKept
<1> QED BY <1>2, <1>3 DEF LengthsKept

LEMMA TailShorter ==
  ASSUME NEW s \in Seq(Nat), s # <<>>, NEW n \in Nat, Len(s) <= n
  PROVE  Len(Tail(s)) <= n
  OBVIOUS

LEMMA ProducerLengths ==
  ASSUME IInv, LInv, LengthsKept, Produce \/ Overflow
  PROVE  LengthsKept'
<1>1. queue \in Seq(Nat) /\ Capacity \in Nat /\ gen \in Nat
  BY LifecycleAssumption DEF LInv, Shaped, IInv, Typed
<1>2. queueRef # 0 => gen # 0 BY DEF IInv, RefsKept
<1>3. "queued" \in Fates \cup Waiting /\ "rejected" \in Fates \cup Waiting
      /\ "dropped" \in Fates \cup Waiting
  BY DEF Fates, Waiting
<1>4. CASE SyncTurnRejected
  BY <1>1, <1>2, <1>3, <1>4, LengthsMade DEF SyncTurnRejected, Calling, StateLockFree
<1>5. CASE SyncTurn
  <2>1. CASE Len(queue) < Capacity
    BY <1>1, <1>2, <1>3, <1>5, <2>1, LengthsMade DEF SyncTurn, Calling, Admissible, StateLockFree
  <2>2. CASE ~(Len(queue) < Capacity)
    <3>1. UNCHANGED <<queue, turns, worker>> /\ Len(turns) < MaxTurns
      BY <1>5, <2>2 DEF SyncTurn, Calling
    <3> QED BY <3>1 DEF LengthsKept
  <2> QED BY <2>1, <2>2
<1>6. CASE DropOldest
  <2>1. CASE queue # <<>> /\ Head(queue) # Sentinel
    <3>1. Head(queue) \in DOMAIN turns
      <4>1. Head(queue) \in ToSet(queue) BY <1>1, <2>1, LineTail DEF LInv, QueueKept
      <4> QED BY <2>1, <4>1, EntriesMade DEF LInv, Entries
    <3>2. Len(queue') <= Capacity
      BY <1>1, <1>6, <2>1, TailShorter DEF DropOldest, LengthsKept
    <3>3. /\ turns' = Changed(turns, Head(queue), "dropped") /\ UNCHANGED worker
          /\ overflow # "none"
      BY <1>6, <2>1 DEF DropOldest, Changed
    <3>4. Len(worker'.taken) <= Batch BY <3>3 DEF LengthsKept
    <3> QED BY <1>3, <3>1, <3>2, <3>3, <3>4, LengthsChanged
  <2>2. CASE ~(queue # <<>> /\ Head(queue) # Sentinel)
    <3>1. UNCHANGED <<turns, worker>> /\ overflow # "none" BY <1>6, <2>2 DEF DropOldest
    <3>2. Len(queue') <= Capacity
      BY <1>1, <1>6, TailShorter DEF DropOldest, LengthsKept
    <3> QED BY <3>1, <3>2 DEF LengthsKept
  <2> QED BY <2>1, <2>2
<1>7. CASE PutAfterDrop
  <2>1. Len(turns) < MaxTurns /\ gen # 0
    BY <1>2, <1>7 DEF PutAfterDrop, LengthsKept, LInv, OverflowKept
  <2>2. overflow' = "none" /\ UNCHANGED worker BY <1>7 DEF PutAfterDrop
  <2>3. CASE Len(queue) < Capacity
    BY <1>1, <1>3, <1>7, <2>1, <2>2, <2>3, LengthsMade DEF PutAfterDrop
  <2>4. CASE ~(Len(queue) < Capacity)
    BY <1>1, <1>3, <1>7, <2>1, <2>2, <2>4, LengthsMade DEF PutAfterDrop
  <2> QED BY <2>3, <2>4
<1> QED BY <1>4, <1>5, <1>6, <1>7 DEF Produce, Overflow

LEMMA WorkerLengths ==
  ASSUME IInv, LInv, LengthsKept, WorkerLoop
  PROVE  LengthsKept'
<1>1. /\ queue \in Seq(Nat) /\ Line(queue) /\ worker.taken \in Seq(Nat)
      /\ Capacity \in Nat /\ Batch \in Nat /\ 1 <= Batch
  BY LifecycleAssumption DEF LInv, Shaped, QueueKept
<1>2. WorkerAlive /\ UNCHANGED overflow
      /\ worker = [gen |-> worker.gen, at |-> worker.at, taken |-> worker.taken]
  BY WorkerFields
<1>3. ASSUME UNCHANGED turns, Len(queue') <= Capacity, Len(worker'.taken) <= Batch
      PROVE  LengthsKept'
  BY <1>2, <1>3 DEF LengthsKept
<1>4. queue # <<>> => Len(Tail(queue)) <= Capacity BY <1>1, TailShorter DEF LengthsKept
<1>5. ASSUME NEW p, WorkerAt(p) PROVE Len(worker'.taken) <= Batch
  BY <1>2, <1>5 DEF WorkerAt, LengthsKept
<1>6. CASE WorkerGets
  <2>1. Len(<<Head(queue)>>) = 1 OBVIOUS
  <2>2. worker'.taken \in {worker.taken, <<Head(queue)>>} BY <1>2, <1>6 DEF WorkerGets
  <2>3. Len(worker'.taken) <= Batch BY <1>1, <2>1, <2>2 DEF LengthsKept
  <2> QED BY <1>3, <1>4, <1>6, <2>3 DEF WorkerGets
<1>7. CASE WorkerTimesOut \/ WorkerChecksGate
  <2>1. UNCHANGED <<turns, queue>> /\ \E p : WorkerAt(p)
    BY <1>7 DEF WorkerTimesOut, WorkerChecksGate
  <2>2. Len(queue') <= Capacity BY <2>1 DEF LengthsKept
  <2> QED BY <1>3, <1>5, <2>1, <2>2
<1>8. CASE WorkerFills
  <2>1. CASE queue # <<>> /\ Len(worker.taken) < Batch /\ Last(worker.taken) # Sentinel
    <3>1. worker'.taken = Append(worker.taken, Head(queue)) /\ queue' = Tail(queue) /\ UNCHANGED turns
      BY <1>2, <1>8, <2>1 DEF WorkerFills
    <3>2. Head(queue) \in Nat BY <1>1, <2>1, LineTail
    <3>3. Len(worker'.taken) = Len(worker.taken) + 1 BY <1>1, <3>1, <3>2
    <3>4. Len(worker'.taken) <= Batch BY <1>1, <2>1, <3>3
    <3> QED BY <1>3, <1>4, <2>1, <3>1, <3>4
  <2>2. CASE ~(queue # <<>> /\ Len(worker.taken) < Batch /\ Last(worker.taken) # Sentinel)
    <3>1. WorkerAt("next") /\ UNCHANGED <<turns, queue>> BY <1>8, <2>2 DEF WorkerFills
    <3>2. Len(queue') <= Capacity BY <3>1 DEF LengthsKept
    <3> QED BY <1>3, <1>5, <3>1, <3>2
  <2> QED BY <2>1, <2>2
<1>9. CASE WorkerEndsBatch
  <2>1. UNCHANGED <<turns, queue>> /\ worker'.taken = <<>> BY <1>2, <1>9 DEF WorkerEndsBatch
  <2>2. Len(queue') <= Capacity /\ Len(worker'.taken) <= Batch BY <1>1, <2>1 DEF LengthsKept
  <2> QED BY <1>3, <2>1, <2>2
<1>10. ASSUME worker.taken # <<>>, Head(worker.taken) # Sentinel
       PROVE  Head(worker.taken) \in DOMAIN turns
  <2>1. Head(worker.taken) \in ToSet(worker.taken)
    BY <1>1, <1>2, <1>10, LineTail DEF LInv, BatchKept
  <2> QED BY <1>2, <1>10, <2>1, EntriesMade DEF LInv, Entries
<1>11. CASE WorkerStartsTurn
  <2>1. worker.taken # <<>> /\ worker.taken # <<Sentinel>> BY <1>11 DEF WorkerStartsTurn
  <2>2. Head(worker.taken) # Sentinel
    BY <1>1, <1>2, <2>1, LineTail DEF LInv, BatchKept
  <2>3. /\ turns' = Changed(turns, Head(worker.taken), "running") /\ WorkerAt("turn")
        /\ UNCHANGED queue
    BY <1>11 DEF WorkerStartsTurn, Changed
  <2>4. Len(queue') <= Capacity BY <2>3 DEF LengthsKept
  <2>5. "running" \in Fates \cup Waiting BY DEF Waiting
  <2> QED BY <1>2, <1>5, <1>10, <2>1, <2>2, <2>3, <2>4, <2>5, LengthsChanged
<1>12. ASSUME NEW fate \in Fates, WorkerEndsTurn(fate) PROVE LengthsKept'
  <2>1. worker.at = "turn" /\ worker.taken # <<>> /\ worker.taken[1] \in DOMAIN turns
    <3>1. worker.at = "turn" BY <1>12 DEF WorkerEndsTurn
    <3>2. worker.taken # <<>> /\ worker.taken[1] \in Fated(turns, gen, "running")
      BY <1>2, <3>1 DEF LInv, BatchKept
    <3> QED BY <3>1, <3>2, FatedTurns DEF LInv
  <2>2. Head(worker.taken) = worker.taken[1] BY <1>1, <2>1
  <2>3. /\ turns' = Changed(turns, Head(worker.taken), fate) /\ UNCHANGED queue
        /\ worker'.taken = Tail(worker.taken)
    BY <1>2, <1>12 DEF WorkerEndsTurn, Changed
  <2>4. Len(queue') <= Capacity BY <2>3 DEF LengthsKept
  <2>5. Len(worker'.taken) <= Batch BY <1>1, <2>1, <2>3, TailShorter DEF LengthsKept
  <2> QED BY <1>2, <2>1, <2>2, <2>3, <2>4, <2>5, LengthsChanged
<1> QED BY <1>6, <1>7, <1>8, <1>9, <1>11, <1>12 DEF WorkerLoop

LEMMA LengthsStep ==
  ASSUME IInv, LInv, LengthsKept, [Next]_vars
  PROVE  LengthsKept'
<1>1. CASE UNCHANGED vars BY <1>1, LengthsActor DEF vars, work
<1>2. ASSUME NEW a \in Actor, InitClaim(a) \/ Initialize(a) PROVE LengthsKept'
  <2>1. CASE \/ InitClaim(a) \/ InitSetup(a) \/ InitPublish(a) \/ InitStartFails(a)
             \/ InitAbandon(a) \/ InitFinally(a)
    BY <2>1, LengthsActor
       DEF InitClaim, InitSetup, InitPublish, InitStartFails, InitAbandon, InitFinally, work
  <2>2. CASE \/ InitAcquireScrub(a) \/ InitHoldScrub(a) \/ InitBind(a)
             \/ InitBindFails(a) \/ InitReadOnly(a) \/ InitReady(a) \/ InitUnready(a) \/ InitCancelled(a) \/ InitFails(a)
    BY <2>2, LengthsActor
       DEF InitAcquireScrub, InitHoldScrub, InitBind, InitBindFails, InitReadOnly, InitReady, InitUnready,
           InitCancelled, InitFails, work
  <2> QED BY <1>2, <2>1, <2>2 DEF Initialize
<1>3. ASSUME NEW a \in Actor, Shutdown(a) PROVE LengthsKept'
  BY <1>3, LengthsActor DEF Shutdown, ShutdownCancelsInit, ShutdownRequest, ShutdownRetry, work
<1>4. ASSUME NEW a \in Actor, Teardown(a) PROVE LengthsKept'
  <2>1. CASE PostSentinel(a) \/ ClearState(a)
    BY <2>1, LengthsActor DEF PostSentinel, ClearState
  <2>2. CASE ~(PostSentinel(a) \/ ClearState(a))
    BY <1>4, <2>2, LengthsActor
       DEF Teardown, SentinelTimesOut, JoinReturns, JoinRaises, JoinTimesOut, ScheduleNotNeeded,
           ScheduleFails, Scheduled, Schedule, CleanerJoins, ClearStale, CloseReleased,
           CloseOwned, ReleaseScrub, ForgetScrub, work
  <2> QED BY <2>1, <2>2
<1>5. CASE SupervisorReleased \/ FireCallback
  BY <1>5, LengthsActor DEF SupervisorReleased, FireCallback, work
<1> QED BY <1>1, <1>2, <1>3, <1>4, <1>5, ProducerLengths, WorkerLengths DEF Next

LEMMA SeqWithin ==
  ASSUME NEW S, NEW T, NEW s \in Seq(S), \A i \in DOMAIN s : s[i] \in T
  PROVE  s \in Seq(T)
  OBVIOUS

LEMMA BoundsBegin == Init => FlagsTyped /\ LocalsBounded /\ LengthsKept
<1> SUFFICES ASSUME Init PROVE FlagsTyped /\ LocalsBounded /\ LengthsKept OBVIOUS
<1>1. FlagsTyped
  <2>1. gen = 0 /\ 0 \in 0..MaxGen BY LifecycleAssumption DEF Init
  <2> QED BY <2>1 DEF Init, FlagsTyped, Health
<1>2. LocalsBounded BY DEF Init, LocalsBounded, NoLocals, Early
<1>3. LengthsKept
  <2>1. queue = <<>> /\ worker.taken = <<>> /\ turns = <<>> /\ overflow = "none" BY DEF Init
  <2> QED BY <2>1, LifecycleAssumption DEF LengthsKept
<1> QED BY <1>1, <1>2, <1>3

(* Every variable keeps its type and its bound: the queue never holds more   *)
(* than its maxsize, the worker never drains more than a batch, the queue    *)
(* names only turns that were made, and the log boundary is acquired at most *)
(* once by each generation, however many threads initialize and shut down.   *)
THEOREM TypeCorrect == Spec => []TypeOK
<1>1. ASSUME IInv, LInv, FlagsTyped, LocalsBounded, LengthsKept PROVE TypeOK
  <2>1. /\ gen \in 0..MaxGen /\ MaxGen \in Nat /\ MaxTurns \in Nat
    BY <1>1, LifecycleAssumption DEF FlagsTyped
  <2>2. {gen, queueRef, workerRef, supRef} \subseteq 0..MaxGen
    BY <1>1, <2>1, RefsBounded
  <2>3. queue \in Seq(0..MaxTurns)
    <3>1. queue \in Seq(Nat) /\ turns \in Seq(TurnRec) BY <1>1 DEF LInv, Shaped
    <3>2. ASSUME NEW i \in DOMAIN queue PROVE queue[i] \in 0..MaxTurns
      <4>1. queue[i] \in ToSet(queue) BY <3>2 DEF ToSet
      <4>2. CASE queue[i] = Sentinel BY <2>1, <4>2 DEF Sentinel
      <4>3. CASE queue[i] # Sentinel
        <5>1. queue[i] \in 1..Len(turns)
          BY <1>1, <3>1, <4>1, <4>3, EntriesMade DEF LInv, Entries
        <5> QED BY <1>1, <2>1, <3>1, <5>1 DEF LengthsKept
      <4> QED BY <4>2, <4>3
    <3> QED BY <3>1, <3>2, SeqWithin
  <2>4. worker.gen \in 0..MaxGen BY <1>1, <2>1 DEF IInv, Typed, LInv, Shaped
  <2>5. ASSUME NEW t \in DOMAIN turns
        PROVE  turns[t].gen \in 1..MaxGen /\ turns[t].fate \in Fates \cup {"queued", "running"}
    <3>1. turns[t] \in TurnRec /\ turns[t].gen <= gen /\ turns[t].gen # 0
      BY <1>1 DEF LInv, Shaped, LengthsKept
    <3> QED BY <2>1, <3>1 DEF TurnRec, Waiting
  <2>6. sup.gen \in 0..MaxGen /\ sup.at \in SupervisorAt
    BY <1>1, <2>1 DEF IInv, Typed, OwnerKept
  <2>7. scrubs \in 0..MaxGen BY <1>1, <2>1 DEF LocalsBounded
  <2>8. local \in [Actor -> [worker : 0..MaxGen, queue : 0..MaxGen, sup : 0..MaxGen,
                             mark : BOOLEAN]]
    <3>1. local \in [Actor -> Locals] BY <1>1 DEF IInv, Typed, Locals
    <3>2. ASSUME NEW a \in Actor
          PROVE  local[a] \in [worker : 0..MaxGen, queue : 0..MaxGen, sup : 0..MaxGen,
                               mark : BOOLEAN]
      <4>1. /\ local[a] \in Locals /\ local[a].worker <= gen /\ local[a].queue <= gen
            /\ local[a].sup <= gen
        BY <1>1, <3>1 DEF LocalsBounded
      <4> QED BY <2>1, <4>1 DEF Locals
    <3> QED BY <3>1, <3>2
  <2> QED BY <1>1, <2>2, <2>3, <2>4, <2>5, <2>6, <2>7, <2>8
          DEF TypeOK, IInv, Typed, FlagsTyped, LengthsKept, Health
<1>2. IInv /\ LInv /\ FlagsTyped /\ LocalsBounded /\ LengthsKept /\ [Next]_vars
        => FlagsTyped' /\ LocalsBounded' /\ LengthsKept'
  BY FlagsStep, BoundsStep, LengthsStep
<1> QED BY InductiveInvariant, TurnsAccounted, BoundsBegin, <1>1, <1>2, PTL DEF Spec

=============================================================================
