--------------------- MODULE EmbeddingSupervisorProofs ---------------------
(***************************************************************************)
(* Proofs about EmbeddingSupervisor: the type invariant, that a request is *)
(* only written to a silent channel, that the close callback runs once and *)
(* after the slot was given back, and that nobody is served by a closed    *)
(* supervisor, for every number of supervisors, requests and children.     *)
(***************************************************************************)
EXTENDS EmbeddingSupervisor, TLAPS

-----------------------------------------------------------------------------
(* The inductive invariant, one part per idea, for one supervisor.           *)

\* Only a supervisor that was built owns the slot; it gives it back for good,
\* and the callback waits for that.
SlotKept(s) ==
  /\ owner = s => sup[s].built
  /\ sup[s].released => sup[s].built /\ owner # s
  /\ sup[s].ran > 0 => sup[s].released
  /\ sup[s].callback = "ran" <=> sup[s].ran = 1

\* A closed supervisor's gate is not held by a request.
GateKept(s) == sup[s].closed => sup[s].gate \notin Request

\* The labels between taking and giving back _request_lock; inside _terminate
\* where it returns to tells.
Locked == {"check", "start", "spawn", "closedCheck", "hello", "startFailed", "send",
           "receive", "encodeFailed", "unlock", "closeUnlock", "finishUnlock"}

Ending == {"terminate", "wait"}

Exits == {"startFailed", "encodeFailed", "closeUnlock", "finishUnlock"}

Owns(s, t) ==
  \/ pc[s][t] \in Locked
  \/ pc[s][t] \in Ending /\ loc[s][t].ret \in Exits

LockKept(s) ==
  \A t \in Thread :
    /\ Owns(s, t) => sup[s].lock = t
    /\ pc[s][t] \in Ending => loc[s][t].ret \in Exits \cup {"startCleanup"}
    /\ pc[s][t] = "wait" => loc[s][t].victim \in Child

\* Nobody else runs before start() returned.
StartedFirst(s) ==
  /\ pc[s]["starter"] # "done" => \A t \in Thread \ {"starter"} : pc[s][t] = "idle"
  /\ pc[s]["starter"] = "idle" => sup[s].lock = None

\* Nothing is pending on the open channel, whose child said its hello.
Silent(s) ==
  sup[s].socket # None =>
    /\ inbox[s][sup[s].socket] = <<>> /\ outbox[s][sup[s].socket] = <<>>
    /\ child[s][sup[s].socket] # "loading"

\* At most the hello is pending.
Greeting(s) ==
  sup[s].socket # None =>
    /\ inbox[s][sup[s].socket] = <<>>
    /\ \/ outbox[s][sup[s].socket] = <<>>
       \/ /\ outbox[s][sup[s].socket] = <<"hello">>
          /\ child[s][sup[s].socket] # "loading"

\* One request, or its answer, is pending.
Pending(s) ==
  sup[s].socket # None =>
    /\ child[s][sup[s].socket] # "loading"
    /\ \/ /\ outbox[s][sup[s].socket] = <<>>
          /\ \E r \in Request : inbox[s][sup[s].socket] = <<r>>
       \/ /\ inbox[s][sup[s].socket] = <<>>
          /\ \E r \in Request : outbox[s][sup[s].socket] = <<r>>

\* What the holder of the lock may find on the channel, by where it is.
ChannelKept(s) ==
  /\ sup[s].lock = None => Silent(s)
  /\ \A t \in Thread :
       /\ pc[s][t] \in Locked \ {"closedCheck", "hello", "receive"} => Silent(s)
       /\ pc[s][t] \in {"closedCheck", "hello"} => Greeting(s)
       /\ pc[s][t] = "receive" => Pending(s)
       /\ pc[s][t] = "wait" /\ loc[s][t].ret \in Exits => sup[s].socket = None

\* A child that was not started has no channel.
Unstarted(s) ==
  /\ sup[s].socket # None => child[s][sup[s].socket] # "none"
  /\ \A c \in Child :
       child[s][c] = "none" => inbox[s][c] = <<>> /\ outbox[s][c] = <<>>

Kept(s) ==
  /\ SlotKept(s) /\ GateKept(s) /\ LockKept(s) /\ StartedFirst(s)
  /\ ChannelKept(s) /\ Unstarted(s)

IInv == TypeOK /\ \A s \in Supervisor : Kept(s)

-----------------------------------------------------------------------------
(* A step is a step of one supervisor.                                       *)

\* What a step of another supervisor leaves alone.
Same(u) ==
  /\ sup'[u] = sup[u] /\ pc'[u] = pc[u] /\ loc'[u] = loc[u]
  /\ child'[u] = child[u] /\ inbox'[u] = inbox[u] /\ outbox'[u] = outbox[u]
  /\ owner' = u <=> owner = u

\* The invariant of a supervisor speaks of nothing else.
LEMMA SameKept ==
  ASSUME NEW u \in Supervisor, Kept(u), Same(u)
  PROVE  Kept(u)'
  BY DEF Same, Kept, SlotKept, GateKept, LockKept, StartedFirst, ChannelKept, Unstarted,
         Owns, Silent, Greeting, Pending

\* A step of one supervisor keeps the invariant if it keeps that supervisor's part.
LEMMA OneSupervisor ==
  ASSUME IInv, NEW s \in Supervisor, TypeOK', Kept(s)',
         \A u \in Supervisor \ {s} : Same(u)
  PROVE  IInv'
  BY SameKept DEF IInv

\* The types, after the attributes q, the labels and locals of one thread and
\* nothing else were assigned.
LEMMA Assigned ==
  ASSUME TypeOK, NEW s \in Supervisor, NEW t \in Thread,
         NEW q \in Attributes, NEW l \in Label, NEW w \in Locals,
         sup' = [sup EXCEPT ![s] = q],
         pc' = [pc EXCEPT ![s][t] = l],
         loc' = [loc EXCEPT ![s][t] = w]
  PROVE  /\ sup' \in [Supervisor -> Attributes]
         /\ pc' \in [Supervisor -> [Thread -> Label]]
         /\ loc' \in [Supervisor -> [Thread -> Locals]]
         /\ sup'[s] = q /\ pc'[s][t] = l /\ loc'[s][t] = w
         /\ \A u \in Thread \ {t} : pc'[s][u] = pc[s][u] /\ loc'[s][u] = loc[s][u]
         /\ \A v \in Supervisor \ {s} :
              sup'[v] = sup[v] /\ pc'[v] = pc[v] /\ loc'[v] = loc[v]
<1>1. /\ sup' \in [Supervisor -> Attributes]
      /\ sup'[s] = q
      /\ \A v \in Supervisor \ {s} : sup'[v] = sup[v]
  BY DEF TypeOK
<1>2. /\ pc' \in [Supervisor -> [Thread -> Label]]
      /\ pc'[s][t] = l
      /\ \A u \in Thread \ {t} : pc'[s][u] = pc[s][u]
      /\ \A v \in Supervisor \ {s} : pc'[v] = pc[v]
  BY DEF TypeOK
<1>3. /\ loc' \in [Supervisor -> [Thread -> Locals]]
      /\ loc'[s][t] = w
      /\ \A u \in Thread \ {t} : loc'[s][u] = loc[s][u]
      /\ \A v \in Supervisor \ {s} : loc'[v] = loc[v]
  BY DEF TypeOK
<1> QED BY <1>1, <1>2, <1>3

\* What thread t must see to for the lock and the order of starting when it goes
\* to label l with locals w and attributes q.
Orderly(s, t, q, l, w) ==
  /\ pc[s][t] = "idle" => t = "starter" \/ pc[s]["starter"] = "done"
  /\ t = "starter" => pc[s][t] # "done" /\ l # "idle"
  /\ q.lock = sup[s].lock \/ sup[s].lock \in {None, t}
  /\ l \in Locked \/ (l \in Ending /\ w.ret \in Exits) => q.lock = t
  /\ l \in Ending => w.ret \in Exits \cup {"startCleanup"}
  /\ l = "wait" => w.victim \in Child

LEMMA OrderlyKept ==
  ASSUME TypeOK, NEW s \in Supervisor, Kept(s), NEW t \in Thread,
         NEW q \in Attributes, NEW l \in Label, NEW w \in Locals,
         sup'[s] = q, pc'[s][t] = l, loc'[s][t] = w,
         \A u \in Thread \ {t} : pc'[s][u] = pc[s][u] /\ loc'[s][u] = loc[s][u],
         Orderly(s, t, q, l, w)
  PROVE  LockKept(s)' /\ StartedFirst(s)'
<1> USE SupervisorAssumption
<1>1. LockKept(s)'
  <2> SUFFICES ASSUME NEW u \in Thread
               PROVE  /\ Owns(s, u)' => sup'[s].lock = u
                      /\ pc'[s][u] \in Ending => loc'[s][u].ret \in Exits \cup {"startCleanup"}
                      /\ pc'[s][u] = "wait" => loc'[s][u].victim \in Child
    BY DEF LockKept
  <2>1. CASE u = t
    BY <2>1 DEF Orderly, Owns
  <2>2. CASE u # t
    <3>1. pc'[s][u] = pc[s][u] /\ loc'[s][u] = loc[s][u] BY <2>2
    <3>2. Owns(s, u)' => Owns(s, u) BY <3>1 DEF Owns
    <3>3. Owns(s, u) => sup[s].lock = u BY DEF Kept, LockKept
    <3>4. u # None BY DEF Thread
    <3> QED BY <2>2, <3>1, <3>2, <3>3, <3>4 DEF Orderly, Kept, LockKept
  <2> QED BY <2>1, <2>2
<1>2. StartedFirst(s)'
  <2>1. pc[s]["starter"] = "idle" => sup[s].lock = None BY DEF Kept, StartedFirst
  <2>2. t # "starter" => pc[s]["starter"] = "done"
    BY DEF Kept, StartedFirst, Orderly
  <2>3. CASE t = "starter"
    BY <2>3 DEF Kept, StartedFirst, Orderly
  <2>4. CASE t # "starter"
    BY <2>2, <2>4 DEF StartedFirst, Thread
  <2> QED BY <2>3, <2>4
<1> QED BY <1>1, <1>2

\* A step of thread t that touches no child and no channel, except that it may
\* close the channel.
LEMMA Move ==
  ASSUME IInv, NEW s \in Supervisor, NEW t \in Thread,
         NEW q \in Attributes, NEW l \in Label, NEW w \in Locals,
         sup' = [sup EXCEPT ![s] = q], Goto(s, t, l),
         loc' = [loc EXCEPT ![s][t] = w],
         UNCHANGED <<child, inbox, outbox>>,
         owner' \in Supervisor \cup {None},
         \A u \in Supervisor \ {s} : owner' = u <=> owner = u,
         SlotKept(s)', GateKept(s)', Orderly(s, t, q, l, w),
         q.socket = sup[s].socket,
         q.lock = None => Silent(s),
         l \in Locked \ {"closedCheck", "hello", "receive"} => Silent(s),
         l \in {"closedCheck", "hello"} => Greeting(s),
         l # "receive",
         l # "wait"
  PROVE  IInv'
<1>0. TypeOK /\ Kept(s) BY DEF IInv
<1>1. /\ sup' \in [Supervisor -> Attributes]
      /\ pc' \in [Supervisor -> [Thread -> Label]]
      /\ loc' \in [Supervisor -> [Thread -> Locals]]
      /\ sup'[s] = q /\ pc'[s][t] = l /\ loc'[s][t] = w
      /\ \A u \in Thread \ {t} : pc'[s][u] = pc[s][u] /\ loc'[s][u] = loc[s][u]
      /\ \A v \in Supervisor \ {s} :
           sup'[v] = sup[v] /\ pc'[v] = pc[v] /\ loc'[v] = loc[v]
  BY <1>0, Assigned DEF Goto
<1>2. TypeOK' BY <1>0, <1>1 DEF TypeOK
<1>3. \A u \in Supervisor \ {s} : Same(u) BY <1>1 DEF Same
<1>4. LockKept(s)' /\ StartedFirst(s)' BY <1>0, <1>1, OrderlyKept
<1>5. Silent(s)' = Silent(s) /\ Greeting(s)' = Greeting(s) /\ Pending(s)' = Pending(s)
  BY <1>1 DEF Silent, Greeting, Pending
<1>6. ChannelKept(s)'
  BY <1>0, <1>1, <1>5 DEF Kept, ChannelKept
<1>7. Unstarted(s)' BY <1>0, <1>1 DEF Kept, Unstarted
<1> QED BY <1>2, <1>3, <1>4, <1>6, <1>7, OneSupervisor DEF Kept

\* A step that no thread takes and that touches no child, lock and channel.
LEMMA Quiet ==
  ASSUME IInv, NEW s \in Supervisor, NEW q \in Attributes,
         sup' = [sup EXCEPT ![s] = q],
         UNCHANGED <<pc, loc, child, inbox, outbox>>,
         owner' \in Supervisor \cup {None},
         \A u \in Supervisor \ {s} : owner' = u <=> owner = u,
         SlotKept(s)', GateKept(s)',
         q.socket = sup[s].socket, q.lock = sup[s].lock
  PROVE  IInv'
<1>0. TypeOK /\ Kept(s) BY DEF IInv
<1>1. /\ sup' \in [Supervisor -> Attributes]
      /\ sup'[s] = q
      /\ \A v \in Supervisor \ {s} : sup'[v] = sup[v]
  BY <1>0 DEF TypeOK
<1>2. TypeOK' BY <1>0, <1>1 DEF TypeOK
<1>3. \A u \in Supervisor \ {s} : Same(u) BY <1>1 DEF Same
<1>4. LockKept(s)' /\ StartedFirst(s)'
  BY <1>0, <1>1 DEF Kept, LockKept, StartedFirst, Owns
<1>5. Silent(s)' = Silent(s) /\ Greeting(s)' = Greeting(s) /\ Pending(s)' = Pending(s)
  BY <1>1 DEF Silent, Greeting, Pending
<1>6. ChannelKept(s)'
  BY <1>0, <1>1, <1>5 DEF Kept, ChannelKept
<1>7. Unstarted(s)' BY <1>0, <1>1 DEF Kept, Unstarted
<1> QED BY <1>2, <1>3, <1>4, <1>6, <1>7, OneSupervisor DEF Kept

\* The types of the children and their channels.
Channels ==
  /\ child \in [Supervisor -> [Child -> {"none", "loading", "ready", "killed", "gone"}]]
  /\ inbox \in [Supervisor -> [Child -> Seq(Request)]]
  /\ outbox \in [Supervisor -> [Child -> Seq(Request \cup {"hello"})]]

\* A step of thread t that touches a child or a channel: t has the lock, so that
\* nobody else looks at the channel, or closes it.
LEMMA Touch ==
  ASSUME IInv, NEW s \in Supervisor, NEW t \in Thread,
         NEW q \in Attributes, NEW l \in Label, NEW w \in Locals,
         sup' = [sup EXCEPT ![s] = q], Goto(s, t, l),
         loc' = [loc EXCEPT ![s][t] = w],
         UNCHANGED owner, Channels',
         \A u \in Supervisor \ {s} :
           child'[u] = child[u] /\ inbox'[u] = inbox[u] /\ outbox'[u] = outbox[u],
         SlotKept(s)', GateKept(s)', Orderly(s, t, q, l, w),
         q.lock = sup[s].lock,
         q.socket = None \/ (q.lock = t /\ l # "wait"),
         Unstarted(s)',
         l \in Locked \ {"closedCheck", "hello", "receive"} => Silent(s)',
         l \in {"closedCheck", "hello"} => Greeting(s)',
         l = "receive" => Pending(s)'
  PROVE  IInv'
<1>0. TypeOK /\ Kept(s) BY DEF IInv
<1>1. /\ sup' \in [Supervisor -> Attributes]
      /\ pc' \in [Supervisor -> [Thread -> Label]]
      /\ loc' \in [Supervisor -> [Thread -> Locals]]
      /\ sup'[s] = q /\ pc'[s][t] = l /\ loc'[s][t] = w
      /\ \A u \in Thread \ {t} : pc'[s][u] = pc[s][u] /\ loc'[s][u] = loc[s][u]
      /\ \A v \in Supervisor \ {s} :
           sup'[v] = sup[v] /\ pc'[v] = pc[v] /\ loc'[v] = loc[v]
  BY <1>0, Assigned DEF Goto
<1>2. TypeOK' BY <1>0, <1>1 DEF TypeOK, Channels
<1>3. \A u \in Supervisor \ {s} : Same(u) BY <1>1 DEF Same
<1>4. LockKept(s)' /\ StartedFirst(s)' BY <1>0, <1>1, OrderlyKept
<1>5. ChannelKept(s)'
  <2>1. CASE q.socket = None
    BY <1>1, <2>1 DEF ChannelKept, Silent, Greeting, Pending
  <2>2. CASE q.socket # None
    <3>1. q.lock = t /\ l # "wait" /\ q.lock # None
      BY <2>2, SupervisorAssumption DEF Thread
    <3>2. \A u \in Thread \ {t} : ~Owns(s, u)'
      BY <1>1, <1>4, <3>1 DEF LockKept
    <3>3. \A u \in Thread \ {t} :
            /\ pc'[s][u] \notin Locked
            /\ ~(pc'[s][u] = "wait" /\ loc'[s][u].ret \in Exits)
      BY <3>2 DEF Owns, Ending
    <3>4. {"closedCheck", "hello", "receive"} \subseteq Locked BY DEF Locked
    <3> QED BY <1>1, <3>1, <3>3, <3>4 DEF ChannelKept
  <2> QED BY <2>1, <2>2
<1> QED BY <1>2, <1>3, <1>4, <1>5, OneSupervisor DEF Kept

\* New attributes that change neither what the slot nor what the channel depends
\* on, and at most free the gate.
Plain(s, q) ==
  /\ q \in Attributes
  /\ q.built = sup[s].built /\ q.released = sup[s].released
  /\ q.callback = sup[s].callback /\ q.ran = sup[s].ran
  /\ q.closed = sup[s].closed /\ q.socket = sup[s].socket
  /\ q.gate \in {sup[s].gate, None}

LEMMA PlainKept ==
  ASSUME NEW s \in Supervisor, Kept(s), NEW q, Plain(s, q), sup'[s] = q, owner' = owner
  PROVE  SlotKept(s)' /\ GateKept(s)'
  BY SupervisorAssumption DEF Plain, Kept, SlotKept, GateKept

LEMMA MovePlain ==
  ASSUME IInv, NEW s \in Supervisor, NEW t \in Thread,
         NEW q, NEW l \in Label, NEW w \in Locals, Plain(s, q),
         sup' = [sup EXCEPT ![s] = q], Goto(s, t, l),
         loc' = [loc EXCEPT ![s][t] = w],
         UNCHANGED <<owner, child, inbox, outbox>>,
         Orderly(s, t, q, l, w),
         q.lock = None => Silent(s),
         l \in Locked \ {"closedCheck", "hello", "receive"} => Silent(s),
         l \in {"closedCheck", "hello"} => Greeting(s),
         l \notin {"receive", "wait"}
  PROVE  IInv'
<1>1. TypeOK /\ Kept(s) /\ sup'[s] = q BY DEF IInv, TypeOK
<1>2. SlotKept(s)' /\ GateKept(s)' BY <1>1, PlainKept
<1>3. owner' \in Supervisor \cup {None} BY <1>1 DEF TypeOK
<1> QED BY <1>2, <1>3, Move DEF Plain

\* Where a holder of the lock is not in an exchange with the child, nothing is
\* pending.
LEMMA Calm ==
  ASSUME IInv, NEW s \in Supervisor, NEW t \in Thread,
         pc[s][t] \in Locked \ {"closedCheck", "hello", "receive"}
  PROVE  Silent(s) /\ sup[s].lock = t
  BY DEF IInv, Kept, ChannelKept, LockKept, Owns

\* Every holder of the lock is known to it.
LEMMA Holder ==
  ASSUME IInv, NEW s \in Supervisor, NEW t \in Thread, pc[s][t] \in Locked
  PROVE  sup[s].lock = t
  BY DEF IInv, Kept, LockKept, Owns

\* The types of the attributes and locals of a thread.
LEMMA Typed ==
  ASSUME IInv, NEW s \in Supervisor, NEW t \in Thread
  PROVE  /\ sup[s] \in Attributes /\ loc[s][t] \in Locals /\ pc[s][t] \in Label
         /\ sup = [sup EXCEPT ![s] = sup[s]]
         /\ loc = [loc EXCEPT ![s][t] = loc[s][t]]
         /\ Plain(s, sup[s])
         /\ t # None /\ None \notin Thread
<1>1. TypeOK BY DEF IInv
<1>2. sup[s] \in Attributes /\ loc[s][t] \in Locals /\ pc[s][t] \in Label BY <1>1 DEF TypeOK
<1>3. sup = [sup EXCEPT ![s] = sup[s]] BY <1>1 DEF TypeOK
<1>4. loc = [loc EXCEPT ![s][t] = loc[s][t]] BY <1>1 DEF TypeOK
<1>5. t # None /\ None \notin Thread BY SupervisorAssumption DEF Thread
<1> QED BY <1>2, <1>3, <1>4, <1>5 DEF Plain

-----------------------------------------------------------------------------
(* Calls.                                                                    *)

LEMMA ClaimOwnerStep ==
  ASSUME IInv, NEW s \in Supervisor, NEW d \in BOOLEAN, ClaimOwner(s, d)
  PROVE  IInv'
<1> USE SupervisorAssumption
<1> DEFINE q == [sup[s] EXCEPT !.built = TRUE, !.cpu = d]
<1>0. TypeOK /\ Kept(s) /\ sup[s] \in Attributes BY DEF IInv, TypeOK
<1>1. q \in Attributes BY <1>0 DEF Attributes
<1>2. sup' = [sup EXCEPT ![s] = q] BY <1>0 DEF ClaimOwner, TypeOK
<1>3. /\ q.built = TRUE
      /\ \A f \in {"closed", "gate", "lock", "socket", "released", "callback", "ran"} : q[f] = sup[s][f]
  BY <1>0 DEF Attributes
<1> HIDE DEF q
<1>4. sup'[s] = q BY <1>0, <1>2 DEF TypeOK
<1>5. SlotKept(s)' /\ GateKept(s)'
  BY <1>0, <1>3, <1>4 DEF Kept, SlotKept, GateKept, ClaimOwner
<1> QED BY <1>1, <1>2, <1>3, <1>5, Quiet DEF ClaimOwner

\* The service call takes the gate of a supervisor that is not closed.
LEMMA ServeGenerationStep ==
  ASSUME IInv, NEW s \in Supervisor, NEW r \in Request, ServeGeneration(s, r)
  PROVE  IInv'
<1> DEFINE q == [sup[s] EXCEPT !.gate = r]
<1>0. TypeOK /\ Kept(s) /\ r \in Thread BY DEF IInv, Thread
<1>1. sup[s] \in Attributes /\ loc[s][r] \in Locals
      /\ loc = [loc EXCEPT ![s][r] = loc[s][r]]
  BY <1>0, Typed
<1>2. q \in Attributes BY <1>0, <1>1 DEF Attributes
<1>3. sup' = [sup EXCEPT ![s] = q] BY <1>0, <1>1 DEF ServeGeneration, TypeOK
<1>4. /\ q.built = sup[s].built /\ q.released = sup[s].released
      /\ q.callback = sup[s].callback /\ q.ran = sup[s].ran
      /\ q.closed = sup[s].closed /\ q.socket = sup[s].socket /\ q.lock = sup[s].lock
  BY <1>1 DEF Attributes
<1> HIDE DEF q
<1>5. sup'[s] = q BY <1>0, <1>3 DEF TypeOK
<1>6. SlotKept(s)' /\ GateKept(s)'
  BY <1>0, <1>4, <1>5 DEF Kept, SlotKept, GateKept, ServeGeneration
<1>7. owner' \in Supervisor \cup {None} BY <1>0 DEF TypeOK, ServeGeneration
<1>8. Orderly(s, r, q, "lock", loc[s][r])
  BY <1>4, SupervisorAssumption DEF Orderly, ServeGeneration, At, Locked, Ending
<1>9. q.lock = None => Silent(s) BY <1>0, <1>4 DEF Kept, ChannelKept
<1>10. "lock" \in Label \ Locked BY DEF Label, Locked
<1> QED
  BY <1>0, <1>1, <1>2, <1>3, <1>4, <1>6, <1>7, <1>8, <1>9, <1>10, Move DEF ServeGeneration

\* The request lock is taken when it is free, and then the channel is silent.
LEMMA EncodeBeginsStep ==
  ASSUME IInv, NEW s \in Supervisor, NEW r \in Request, EncodeBegins(s, r)
  PROVE  IInv'
<1>0. TypeOK /\ Kept(s) /\ r \in Thread BY DEF IInv, Thread
<1>1. sup[s] \in Attributes /\ loc[s][r] \in Locals
      /\ loc = [loc EXCEPT ![s][r] = loc[s][r]] /\ pc[s][r] = "lock"
  BY <1>0, Typed DEF EncodeBegins, At
<1>2. sup[s].lock = None => Silent(s) BY <1>0 DEF Kept, ChannelKept
<1>3. r # "starter" BY SupervisorAssumption
<1>4. CASE sup[s].lock = None
  <2> DEFINE q == [sup[s] EXCEPT !.lock = r]
  <2>1. Plain(s, q) /\ q.lock = r BY <1>0, <1>1 DEF Attributes, Plain
  <2>2. sup' = [sup EXCEPT ![s] = q] /\ Goto(s, r, "check")
    BY <1>0, <1>1, <1>4 DEF EncodeBegins, TypeOK
  <2> HIDE DEF q
  <2>3. Orderly(s, r, q, "check", loc[s][r])
    BY <1>1, <1>3, <1>4, <2>1 DEF Orderly, Ending
  <2>4. "check" \in Label BY DEF Label
  <2> QED BY <1>0, <1>1, <1>2, <1>4, <2>1, <2>2, <2>3, <2>4, MovePlain DEF EncodeBegins
<1>5. CASE sup[s].lock # None
  <2> DEFINE q == [sup[s] EXCEPT !.gate = None]
  <2>1. Plain(s, q) /\ q.lock = sup[s].lock BY <1>1 DEF Attributes, Plain
  <2>2. sup' = [sup EXCEPT ![s] = q] /\ Goto(s, r, "idle")
    BY <1>0, <1>1, <1>5 DEF EncodeBegins, TypeOK
  <2> HIDE DEF q
  <2>3. Orderly(s, r, q, "idle", loc[s][r])
    BY <1>1, <1>3, <2>1 DEF Orderly, Ending, Locked
  <2>4. "idle" \in Label \ Locked BY DEF Label, Locked
  <2> QED BY <1>0, <1>1, <1>5, <2>1, <2>2, <2>3, <2>4, MovePlain DEF EncodeBegins
<1> QED BY <1>4, <1>5

LEMMA ThreadFailsStep ==
  ASSUME IInv, NEW s \in Supervisor, NEW r \in Request, ThreadFails(s, r)
  PROVE  IInv'
<1> DEFINE q == [sup[s] EXCEPT !.gate = None]
<1>0. TypeOK /\ Kept(s) /\ r \in Thread BY DEF IInv, Thread
<1>1. sup[s] \in Attributes /\ loc[s][r] \in Locals
      /\ loc = [loc EXCEPT ![s][r] = loc[s][r]] /\ pc[s][r] = "lock"
  BY <1>0, Typed DEF ThreadFails, At
<1>2. Plain(s, q) /\ q.lock = sup[s].lock BY <1>1 DEF Attributes, Plain
<1>3. sup' = [sup EXCEPT ![s] = q] BY <1>0, <1>1 DEF ThreadFails, TypeOK
<1> HIDE DEF q
<1>4. Orderly(s, r, q, "idle", loc[s][r])
  BY <1>1, <1>2, SupervisorAssumption DEF Orderly, Ending, Locked
<1>5. q.lock = None => Silent(s) BY <1>0, <1>2 DEF Kept, ChannelKept
<1>6. "idle" \in Label \ Locked BY DEF Label, Locked
<1> QED BY <1>0, <1>1, <1>2, <1>3, <1>4, <1>5, <1>6, MovePlain DEF ThreadFails

LEMMA CallerGivesUpStep ==
  ASSUME IInv, NEW s \in Supervisor, NEW r \in Request, CallerGivesUp(s, r)
  PROVE  IInv'
<1> DEFINE q == [sup[s] EXCEPT !.gate = None]
<1>0. TypeOK /\ Kept(s) /\ sup[s] \in Attributes BY DEF IInv, TypeOK
<1>1. Plain(s, q) /\ q.lock = sup[s].lock BY <1>0 DEF Attributes, Plain
<1>2. sup' = [sup EXCEPT ![s] = q] BY <1>0 DEF CallerGivesUp, TypeOK
<1> HIDE DEF q
<1>3. sup'[s] = q BY <1>0, <1>2 DEF TypeOK
<1>4. owner' = owner BY DEF CallerGivesUp
<1>5. SlotKept(s)' /\ GateKept(s)' BY <1>0, <1>1, <1>3, <1>4, PlainKept
<1>6. owner' \in Supervisor \cup {None} BY <1>0, <1>4 DEF TypeOK
<1> QED BY <1>1, <1>2, <1>4, <1>5, <1>6, Quiet DEF CallerGivesUp, Plain

\* start() has the lock to itself: nobody else runs yet.
LEMMA StartBeginsStep ==
  ASSUME IInv, NEW s \in Supervisor, StartBegins(s)
  PROVE  IInv'
<1> DEFINE t == "starter"
           q == [sup[s] EXCEPT !.lock = t]
<1>0. TypeOK /\ Kept(s) /\ t \in Thread BY DEF IInv, Thread
<1>1. sup[s] \in Attributes /\ loc[s][t] \in Locals
      /\ loc = [loc EXCEPT ![s][t] = loc[s][t]] /\ pc[s][t] = "idle"
  BY <1>0, Typed DEF StartBegins, At
<1>2. sup[s].lock = None /\ Silent(s)
  BY <1>0, <1>1 DEF Kept, StartedFirst, ChannelKept
<1>3. Plain(s, q) /\ q.lock = t BY <1>0, <1>1 DEF Attributes, Plain
<1>4. sup' = [sup EXCEPT ![s] = q] BY <1>0, <1>1 DEF StartBegins, TypeOK
<1> HIDE DEF q
<1>5. Orderly(s, t, q, "start", loc[s][t])
  BY <1>1, <1>2, <1>3 DEF Orderly, Ending
<1>6. "start" \in Label BY DEF Label
<1> QED BY <1>0, <1>1, <1>2, <1>3, <1>4, <1>5, <1>6, MovePlain DEF StartBegins

-----------------------------------------------------------------------------
(* Entering and leaving _terminate.                                          *)

\* A thread that had the lock, or is the closer that goes on without it, enters.
LEMMA CallTerminateStep ==
  ASSUME IInv, NEW s \in Supervisor, NEW t \in Thread, NEW q, Plain(s, q),
         NEW b \in BOOLEAN, NEW ret \in Exits \cup {"startCleanup"},
         CallTerminate(s, t, b, ret),
         sup' = [sup EXCEPT ![s] = q], UNCHANGED <<owner, child, inbox, outbox>>,
         pc[s][t] \notin {"idle", "done"},
         q.lock = sup[s].lock \/ sup[s].lock \in {None, t},
         q.lock # None,
         ret \in Exits => q.lock = t
  PROVE  IInv'
<1> DEFINE w == [victim |-> None, ret |-> ret, transient |-> b]
<1>1. "terminate" \in Label \ Locked /\ ret \in Label BY DEF Label, Locked, Exits
<1>2. w \in Locals /\ w.ret = ret BY <1>1 DEF Locals
<1>3. loc' = [loc EXCEPT ![s][t] = w] /\ Goto(s, t, "terminate") BY DEF CallTerminate
<1> HIDE DEF w
<1>4. Orderly(s, t, q, "terminate", w)
  BY <1>1, <1>2 DEF Orderly, Ending
<1> QED BY <1>1, <1>2, <1>3, <1>4, MovePlain

\* A thread leaves after the wait, with the channel closed if it has the lock.
LEMMA ReturnStep ==
  ASSUME IInv, NEW s \in Supervisor, NEW t \in Thread, NEW q, Plain(s, q),
         q.lock = sup[s].lock,
         At(s, t, "wait"), Return(s, t),
         sup' = [sup EXCEPT ![s] = q], UNCHANGED <<owner, child, inbox, outbox>>
  PROVE  IInv'
<1> DEFINE l == loc[s][t].ret
           w == [NoLocals EXCEPT !.transient = loc[s][t].transient]
<1>0. TypeOK /\ Kept(s) /\ loc[s][t] \in Locals /\ pc[s][t] = "wait"
  BY Typed DEF IInv, At
<1>1. l \in Exits \cup {"startCleanup"}
  BY <1>0 DEF Kept, LockKept, Ending
<1>2. l \in Exits => sup[s].lock = t /\ sup[s].socket = None
  BY <1>0 DEF Kept, LockKept, ChannelKept, Owns, Ending
<1>3. /\ l \in Label /\ l \notin {"idle", "wait", "receive", "closedCheck", "hello"} \cup Ending
      /\ l \in Locked => l \in Exits
  BY <1>1 DEF Exits, Label, Locked, Ending
<1>4. w \in Locals BY <1>0 DEF NoLocals, Locals, Label
<1>5. Goto(s, t, l) /\ loc' = [loc EXCEPT ![s][t] = w] BY DEF Return
<1>6. q.lock = None => Silent(s) BY <1>0 DEF Kept, ChannelKept
<1>7. l \in Locked => Silent(s) BY <1>2, <1>3 DEF Silent
<1> HIDE DEF l, w
<1>8. Orderly(s, t, q, l, w) BY <1>0, <1>2, <1>3 DEF Orderly, Ending
<1> QED BY <1>3, <1>4, <1>5, <1>6, <1>7, <1>8, MovePlain

-----------------------------------------------------------------------------
(* Starting a child.                                                         *)

LEMMA StartChecksStep ==
  ASSUME IInv, NEW s \in Supervisor, NEW t \in Thread, StartChecks(s, t)
  PROVE  IInv'
<1>0. PICK l \in {"spawn", "unlock"} : Goto(s, t, l) BY DEF StartChecks
<1>1. Silent(s) /\ sup[s].lock = t /\ pc[s][t] = "start"
  BY Calm DEF StartChecks, At, Locked
<1>2. /\ loc[s][t] \in Locals /\ Plain(s, sup[s])
      /\ sup' = [sup EXCEPT ![s] = sup[s]] /\ loc' = [loc EXCEPT ![s][t] = loc[s][t]]
  BY Typed DEF StartChecks
<1>3. l \in Label /\ l \notin Ending BY DEF Label, Ending
<1>4. Orderly(s, t, sup[s], l, loc[s][t]) BY <1>1, <1>3 DEF Orderly, Ending
<1> QED BY <1>0, <1>1, <1>2, <1>3, <1>4, MovePlain DEF StartChecks

\* The new child's channel is empty, and only the spawning thread looks at it.
LEMMA SpawnStep ==
  ASSUME IInv, NEW s \in Supervisor, NEW t \in Thread, Spawn(s, t)
  PROVE  IInv'
<1>0. TypeOK /\ Kept(s) /\ sup[s] \in Attributes /\ loc[s][t] \in Locals
  BY Typed DEF IInv
<1>1. Silent(s) /\ sup[s].lock = t /\ pc[s][t] = "spawn"
  BY Calm DEF Spawn, At, Locked
<1>2. ASSUME loc' = [loc EXCEPT ![s][t].transient = TRUE], Goto(s, t, "startFailed"),
             UNCHANGED <<sup, child>>
      PROVE  IInv'
  <2> DEFINE w == [loc[s][t] EXCEPT !.transient = TRUE]
  <2>1. w \in Locals BY <1>0 DEF Locals
  <2>2. loc' = [loc EXCEPT ![s][t] = w] BY <1>0, <1>2 DEF TypeOK
  <2>3. Plain(s, sup[s]) /\ sup' = [sup EXCEPT ![s] = sup[s]] BY <1>2, Typed
  <2> HIDE DEF w
  <2>4. "startFailed" \in Label \ Ending BY DEF Label, Ending
  <2>5. Orderly(s, t, sup[s], "startFailed", w) BY <1>1, <2>4 DEF Orderly, Ending
  <2> QED BY <1>1, <1>2, <2>1, <2>2, <2>3, <2>4, <2>5, MovePlain DEF Spawn
<1>3. ASSUME NEW c \in Unused(s), child' = [child EXCEPT ![s][c] = "loading"],
             sup' = [sup EXCEPT ![s].process = c, ![s].socket = c],
             Goto(s, t, "closedCheck"), UNCHANGED loc
      PROVE  IInv'
  <2> DEFINE q == [sup[s] EXCEPT !.process = c, !.socket = c]
  <2>1. c \in Child /\ child[s][c] = "none" /\ c # None
    BY <1>3, SupervisorAssumption DEF Unused, Child
  <2>2. /\ q \in Attributes
        /\ q.built = sup[s].built /\ q.released = sup[s].released
        /\ q.callback = sup[s].callback /\ q.ran = sup[s].ran
        /\ q.closed = sup[s].closed /\ q.socket = c /\ q.lock = sup[s].lock
        /\ q.gate = sup[s].gate
    BY <1>0, <2>1 DEF Attributes
  <2>3. sup' = [sup EXCEPT ![s] = q] BY <1>0, <1>3 DEF TypeOK
  <2> HIDE DEF q
  <2>4. sup'[s] = q BY <1>0, <2>3 DEF TypeOK
  <2>5. UNCHANGED <<owner, inbox, outbox>> BY DEF Spawn
  <2>6. SlotKept(s)' /\ GateKept(s)'
    BY <1>0, <2>2, <2>4, <2>5 DEF Kept, SlotKept, GateKept
  <2>7. Channels' BY <1>0, <1>3, <2>1, <2>5 DEF TypeOK, Channels
  <2>8. inbox[s][c] = <<>> /\ outbox[s][c] = <<>> BY <1>0, <2>1 DEF Kept, Unstarted
  <2>9. Greeting(s)' BY <2>2, <2>4, <2>5, <2>8 DEF Greeting
  <2>10. child'[s][c] = "loading" /\ \A d \in Child \ {c} : child'[s][d] = child[s][d]
    BY <1>0, <1>3, <2>1 DEF TypeOK
  <2>11. Unstarted(s)'
    BY <1>0, <2>2, <2>4, <2>5, <2>10 DEF Kept, Unstarted
  <2>12. /\ \A u \in Supervisor \ {s} : child'[u] = child[u]
         /\ loc' = [loc EXCEPT ![s][t] = loc[s][t]]
    BY <1>0, <1>3, Typed DEF TypeOK
  <2> DEFINE l == "closedCheck"
  <2>13. l \in Label \ Ending /\ l \notin {"receive", "wait", "idle"} /\ Goto(s, t, l)
         /\ l \notin Locked \ {"closedCheck", "hello", "receive"}
    BY <1>3 DEF Label, Ending
  <2> HIDE DEF l
  <2>14. Orderly(s, t, q, l, loc[s][t]) BY <1>1, <2>2, <2>13 DEF Orderly, Ending
  <2> QED BY <1>0, <1>1, <1>3, <2>2, <2>3, <2>5, <2>6, <2>7, <2>9, <2>11, <2>12, <2>13,
             <2>14, Touch
<1> QED BY <1>2, <1>3 DEF Spawn

LEMMA ClosedCheckStep ==
  ASSUME IInv, NEW s \in Supervisor, NEW t \in Thread, ClosedCheck(s, t)
  PROVE  IInv'
<1>1. /\ sup[s].lock = t /\ pc[s][t] = "closedCheck" /\ Greeting(s)
      /\ loc[s][t] \in Locals /\ Plain(s, sup[s]) /\ t # None
      /\ sup' = [sup EXCEPT ![s] = sup[s]] /\ loc = [loc EXCEPT ![s][t] = loc[s][t]]
  BY Holder, Typed DEF ClosedCheck, At, Locked, IInv, Kept, ChannelKept
<1>2. CASE sup[s].closed
  <2>1. "startFailed" \in Exits BY DEF Exits
  <2>2. CallTerminate(s, t, FALSE, "startFailed") BY <1>2 DEF ClosedCheck
  <2> QED BY <1>1, <2>1, <2>2, CallTerminateStep DEF ClosedCheck
<1>3. CASE ~sup[s].closed
  <2> DEFINE l == "hello"
  <2>1. l \in Label \ Ending /\ l \notin {"receive", "wait", "idle"} /\ Goto(s, t, l)
        /\ l \notin Locked \ {"closedCheck", "hello", "receive"}
    BY <1>3 DEF Label, Ending, ClosedCheck
  <2> HIDE DEF l
  <2>2. Orderly(s, t, sup[s], l, loc[s][t]) BY <1>1, <2>1 DEF Orderly, Ending
  <2> QED BY <1>1, <1>3, <2>1, <2>2, MovePlain DEF ClosedCheck
<1> QED BY <1>2, <1>3

\* Only the hello can be at the head of a fresh channel, and nothing follows it.
LEMMA HelloReceivedStep ==
  ASSUME IInv, NEW s \in Supervisor, NEW t \in Thread, HelloReceived(s, t)
  PROVE  IInv'
<1> DEFINE c == sup[s].socket
<1>0. /\ TypeOK /\ Kept(s) /\ sup[s] \in Attributes /\ loc[s][t] \in Locals
      /\ sup[s].lock = t /\ pc[s][t] = "hello" /\ Greeting(s)
      /\ loc' = [loc EXCEPT ![s][t] = loc[s][t]]
  BY Holder, Typed DEF HelloReceived, At, Locked, IInv, Kept, ChannelKept
<1>1. c # None /\ c \in Child /\ outbox[s][c] # <<>>
  BY <1>0, SupervisorAssumption DEF HelloReceived, Frame, Attributes
<1>2. outbox[s][c] = <<"hello">> /\ inbox[s][c] = <<>> /\ child[s][c] # "loading"
  BY <1>0, <1>1 DEF Greeting
<1>3. outbox' = [outbox EXCEPT ![s][c] = <<>>]
  BY <1>0, <1>1, <1>2 DEF HelloReceived, Consume, TypeOK
<1>4. UNCHANGED <<owner, child, inbox>> BY DEF HelloReceived
<1>5. PICK b \in BOOLEAN :
        sup' = [sup EXCEPT ![s].accepted = @ \cup {c}, ![s].cpu = @ \/ b]
  BY DEF HelloReceived
<1> DEFINE q == [sup[s] EXCEPT !.accepted = @ \cup {c}, !.cpu = @ \/ b]
           l == IF t = "starter" THEN "unlock" ELSE "send"
<1>6. sup[s].accepted \cup {c} \in SUBSET Child /\ (sup[s].cpu \/ b) \in BOOLEAN
  BY <1>0, <1>1 DEF Attributes
<1>7. /\ q \in Attributes
      /\ q.built = sup[s].built /\ q.released = sup[s].released
      /\ q.callback = sup[s].callback /\ q.ran = sup[s].ran
      /\ q.closed = sup[s].closed /\ q.socket = c /\ q.lock = sup[s].lock
      /\ q.gate = sup[s].gate
  BY <1>0, <1>6 DEF Attributes
<1>8. sup' = [sup EXCEPT ![s] = q] BY <1>0, <1>5 DEF TypeOK
<1> HIDE DEF q
<1>9. sup'[s] = q BY <1>0, <1>8 DEF TypeOK
<1>10. SlotKept(s)' /\ GateKept(s)'
  BY <1>0, <1>4, <1>7, <1>9 DEF Kept, SlotKept, GateKept
<1>11. /\ Channels' /\ outbox'[s][c] = <<>>
       /\ \A d \in Child \ {c} : outbox'[s][d] = outbox[s][d]
       /\ \A u \in Supervisor \ {s} : outbox'[u] = outbox[u]
  BY <1>0, <1>1, <1>3, <1>4 DEF TypeOK, Channels
<1>12. Silent(s)' BY <1>2, <1>4, <1>7, <1>9, <1>11 DEF Silent
<1>13. Unstarted(s)' BY <1>0, <1>4, <1>7, <1>9, <1>11 DEF Kept, Unstarted
<1>14. /\ l \in Label \ Ending /\ l \notin {"closedCheck", "hello", "receive", "wait", "idle"}
       /\ Goto(s, t, l)
  BY DEF Label, Ending, HelloReceived
<1> HIDE DEF l
<1>15. Orderly(s, t, q, l, loc[s][t]) BY <1>0, <1>7, <1>14 DEF Orderly, Ending
<1> QED BY <1>0, <1>4, <1>7, <1>8, <1>10, <1>11, <1>12, <1>13, <1>14, <1>15, Touch

LEMMA HelloFailsStep ==
  ASSUME IInv, NEW s \in Supervisor, NEW t \in Thread, HelloFails(s, t)
  PROVE  IInv'
<1>1. /\ sup[s].lock = t /\ pc[s][t] = "hello" /\ Plain(s, sup[s]) /\ t # None
      /\ sup' = [sup EXCEPT ![s] = sup[s]]
  BY Holder, Typed DEF HelloFails, At, Locked
<1>2. PICK b \in BOOLEAN : CallTerminate(s, t, b, "startFailed")
  BY DEF HelloFails, ReceiveFailure
<1>3. "startFailed" \in Exits BY DEF Exits
<1>4. UNCHANGED <<owner, child, inbox, outbox>> BY DEF HelloFails
<1> QED BY <1>1, <1>2, <1>3, <1>4, CallTerminateStep

LEMMA StartFailedStep ==
  ASSUME IInv, NEW s \in Supervisor, NEW t \in Thread, StartFailed(s, t)
  PROVE  IInv'
<1> DEFINE q == IF MayRetryCpu(s, t) THEN [sup[s] EXCEPT !.cpu = TRUE]
                                     ELSE [sup[s] EXCEPT !.backoff = TRUE]
           l == IF MayRetryCpu(s, t) THEN "spawn" ELSE "unlock"
<1>0. TypeOK /\ sup[s] \in Attributes /\ loc' = [loc EXCEPT ![s][t] = NoLocals]
  BY Typed DEF IInv, StartFailed
<1>1. Silent(s) /\ sup[s].lock = t /\ pc[s][t] = "startFailed"
  BY Calm DEF StartFailed, At, Locked
<1>2. sup' = [sup EXCEPT ![s] = q] /\ Goto(s, t, l)
  BY <1>0 DEF StartFailed, TypeOK
<1>3. Plain(s, q) /\ q.lock = sup[s].lock BY <1>0 DEF Attributes, Plain
<1>4. NoLocals \in Locals BY DEF NoLocals, Locals, Label
<1>5. l \in Label \ Ending /\ l \notin {"closedCheck", "hello", "receive", "wait", "idle"}
  BY DEF Label, Ending
<1> HIDE DEF q, l
<1>6. Orderly(s, t, q, l, NoLocals) BY <1>1, <1>3, <1>5 DEF Orderly, Ending
<1> QED BY <1>0, <1>1, <1>2, <1>3, <1>4, <1>5, <1>6, MovePlain DEF StartFailed

-----------------------------------------------------------------------------
(* One request.                                                              *)

LEMMA EncodeChecksStep ==
  ASSUME IInv, NEW s \in Supervisor, NEW r \in Request, EncodeChecks(s, r)
  PROVE  IInv'
<1>0. r \in Thread BY DEF Thread
<1>1. PICK l \in {"unlock", "start", "send"} : Goto(s, r, l) BY DEF EncodeChecks
<1>2. Silent(s) /\ sup[s].lock = r /\ pc[s][r] = "check"
  BY <1>0, Calm DEF EncodeChecks, At, Locked
<1>3. /\ loc[s][r] \in Locals /\ Plain(s, sup[s])
      /\ sup' = [sup EXCEPT ![s] = sup[s]] /\ loc' = [loc EXCEPT ![s][r] = loc[s][r]]
      /\ UNCHANGED <<owner, child, inbox, outbox>>
  BY <1>0, Typed DEF EncodeChecks
<1>4. l \in Label /\ l \notin Ending BY DEF Label, Ending
<1>5. Orderly(s, r, sup[s], l, loc[s][r]) BY <1>2, <1>4 DEF Orderly, Ending
<1> QED BY <1>0, <1>1, <1>2, <1>3, <1>4, <1>5, MovePlain

\* The request goes to a silent channel: it is all that is pending.
LEMMA SendStep ==
  ASSUME IInv, NEW s \in Supervisor, NEW r \in Request, Send(s, r)
  PROVE  IInv'
<1> DEFINE c == sup[s].socket
<1>0. r \in Thread /\ TypeOK /\ Kept(s) BY DEF Thread, IInv
<1>1. Silent(s) /\ sup[s].lock = r /\ pc[s][r] = "send"
  BY <1>0, Calm DEF Send, At, Locked
<1>2. /\ loc[s][r] \in Locals /\ Plain(s, sup[s]) /\ r # None /\ sup[s] \in Attributes
      /\ sup' = [sup EXCEPT ![s] = sup[s]] /\ loc = [loc EXCEPT ![s][r] = loc[s][r]]
      /\ UNCHANGED <<owner, child, outbox>>
  BY <1>0, Typed DEF Send
<1>3. CASE c = None
  <2>1. "encodeFailed" \in Exits BY DEF Exits
  <2>2. CallTerminate(s, r, FALSE, "encodeFailed") /\ UNCHANGED inbox BY <1>3 DEF Send
  <2> QED BY <1>0, <1>1, <1>2, <2>1, <2>2, CallTerminateStep
<1>4. CASE c # None
  <2> DEFINE l == "receive"
  <2>1. c \in Child /\ inbox[s][c] = <<>> /\ outbox[s][c] = <<>> /\ child[s][c] # "loading"
    BY <1>1, <1>2, <1>4 DEF Silent, Attributes
  <2>2. inbox' = [inbox EXCEPT ![s][c] = <<r>>] /\ Goto(s, r, l) /\ UNCHANGED loc
    BY <1>0, <1>4, <2>1 DEF Send, TypeOK
  <2>3. <<r>> \in Seq(Request) OBVIOUS
  <2>4. /\ Channels' /\ inbox'[s][c] = <<r>>
        /\ \A d \in Child \ {c} : inbox'[s][d] = inbox[s][d]
        /\ \A u \in Supervisor \ {s} : inbox'[u] = inbox[u]
    BY <1>0, <1>2, <2>1, <2>2, <2>3 DEF TypeOK, Channels
  <2>5. sup'[s] = sup[s] BY <1>0, <1>2 DEF TypeOK
  <2>6. SlotKept(s)' /\ GateKept(s)' BY <1>0, <1>2, <2>5, PlainKept
  <2>7. Pending(s)' BY <1>2, <2>1, <2>4, <2>5 DEF Pending
  <2>8. Unstarted(s)' BY <1>0, <1>2, <1>4, <2>4, <2>5 DEF Kept, Unstarted
  <2>9. l \in Label \ Ending /\ l \notin {"closedCheck", "hello", "wait", "idle"}
        /\ l \notin Locked \ {"closedCheck", "hello", "receive"}
    BY DEF Label, Ending
  <2> HIDE DEF l
  <2>10. Orderly(s, r, sup[s], l, loc[s][r]) BY <1>1, <2>9 DEF Orderly, Ending
  <2> QED BY <1>0, <1>1, <1>2, <2>2, <2>4, <2>6, <2>7, <2>8, <2>9, <2>10, Touch
<1> QED BY <1>3, <1>4

\* Reading the one pending answer leaves the channel silent.
LEMMA ReceiveStep ==
  ASSUME IInv, NEW s \in Supervisor, NEW r \in Request, Receive(s, r)
  PROVE  IInv'
<1> DEFINE c == sup[s].socket
<1>0. r \in Thread /\ TypeOK /\ Kept(s) BY DEF Thread, IInv
<1>1. sup[s].lock = r /\ pc[s][r] = "receive" /\ Pending(s)
  BY <1>0, Holder DEF Receive, At, Locked, Kept, ChannelKept
<1>2. /\ loc[s][r] \in Locals /\ Plain(s, sup[s]) /\ r # None /\ sup[s] \in Attributes
      /\ sup = [sup EXCEPT ![s] = sup[s]] /\ loc = [loc EXCEPT ![s][r] = loc[s][r]]
      /\ UNCHANGED <<owner, child, inbox>>
  BY <1>0, Typed DEF Receive
<1>3. c # None /\ c \in Child /\ outbox[s][c] # <<>>
  BY <1>2, SupervisorAssumption DEF Receive, Frame, Attributes
<1>4. PICK x \in Request : outbox[s][c] = <<x>> /\ inbox[s][c] = <<>>
  BY <1>1, <1>3 DEF Pending
<1>5. child[s][c] # "loading" BY <1>1, <1>3 DEF Pending
<1>6. outbox' = [outbox EXCEPT ![s][c] = <<>>]
  BY <1>0, <1>3, <1>4 DEF Receive, Consume, TypeOK
<1>7. /\ Channels' /\ outbox'[s][c] = <<>>
      /\ \A d \in Child \ {c} : outbox'[s][d] = outbox[s][d]
      /\ \A u \in Supervisor \ {s} : outbox'[u] = outbox[u]
  BY <1>0, <1>2, <1>3, <1>6 DEF TypeOK, Channels
<1>8. ASSUME NEW q, Plain(s, q), q.lock = sup[s].lock, NEW l \in {"unlock", "terminate"},
             NEW w \in Locals, sup' = [sup EXCEPT ![s] = q], Goto(s, r, l),
             loc' = [loc EXCEPT ![s][r] = w], l = "terminate" => w.ret \in Exits
      PROVE  IInv'
  <2>1. sup'[s] = q BY <1>0, <1>8 DEF TypeOK
  <2>2. SlotKept(s)' /\ GateKept(s)' BY <1>0, <1>2, <1>8, <2>1, PlainKept
  <2>3. Silent(s)' BY <1>2, <1>4, <1>5, <1>7, <1>8, <2>1 DEF Silent, Plain
  <2>4. Unstarted(s)' BY <1>0, <1>2, <1>7, <1>8, <2>1 DEF Kept, Unstarted, Plain
  <2>5. /\ l \in Label /\ l \notin {"closedCheck", "hello", "wait", "idle", "receive"}
        /\ l \in Ending => l = "terminate"
    BY <1>8 DEF Label, Ending
  <2>6. Orderly(s, r, q, l, w) BY <1>1, <1>8, <2>5, SupervisorAssumption DEF Orderly
  <2>7. q \in Attributes BY <1>8 DEF Plain
  <2> QED BY <1>0, <1>1, <1>2, <1>7, <1>8, <2>2, <2>3, <2>4, <2>5, <2>6, <2>7, Touch
<1>9. CASE HeaderMatches(s, r)
  <2> DEFINE q == [sup[s] EXCEPT !.backoff = FALSE]
  <2>1. sup' = [sup EXCEPT ![s] = q] /\ Goto(s, r, "unlock") /\ UNCHANGED loc
    BY <1>0, <1>2, <1>9 DEF Receive, TypeOK
  <2>2. Plain(s, q) /\ q.lock = sup[s].lock BY <1>2 DEF Attributes, Plain
  <2> HIDE DEF q
  <2> QED BY <1>2, <1>8, <2>1, <2>2
<1>10. CASE ~HeaderMatches(s, r)
  <2> DEFINE w == [victim |-> None, ret |-> "encodeFailed", transient |-> FALSE]
  <2>1. loc' = [loc EXCEPT ![s][r] = w] /\ Goto(s, r, "terminate") /\ UNCHANGED sup
    BY <1>10 DEF Receive, CallTerminate
  <2>2. w \in Locals /\ w.ret \in Exits BY DEF Locals, Label, Exits
  <2> HIDE DEF w
  <2> QED BY <1>2, <1>8, <2>1, <2>2
<1> QED BY <1>9, <1>10

LEMMA ReceiveFailsStep ==
  ASSUME IInv, NEW s \in Supervisor, NEW r \in Request, ReceiveFails(s, r)
  PROVE  IInv'
<1>0. r \in Thread BY DEF Thread
<1>1. /\ sup[s].lock = r /\ pc[s][r] = "receive" /\ Plain(s, sup[s]) /\ r # None
      /\ sup' = [sup EXCEPT ![s] = sup[s]]
  BY <1>0, Holder, Typed DEF ReceiveFails, At, Locked
<1>2. /\ "encodeFailed" \in Exits BY DEF Exits
<1>3. CallTerminate(s, r, FALSE, "encodeFailed") /\ UNCHANGED <<owner, child, inbox, outbox>>
  BY DEF ReceiveFails
<1> QED BY <1>0, <1>1, <1>2, <1>3, CallTerminateStep

LEMMA EncodeFailedStep ==
  ASSUME IInv, NEW s \in Supervisor, NEW r \in Request, EncodeFailed(s, r)
  PROVE  IInv'
<1> DEFINE q == [sup[s] EXCEPT !.cpu = TRUE, !.backoff = TRUE]
           l == "unlock"
<1>0. r \in Thread /\ TypeOK BY DEF Thread, IInv
<1>1. /\ sup[s] \in Attributes /\ loc[s][r] \in Locals
      /\ loc' = [loc EXCEPT ![s][r] = loc[s][r]] /\ UNCHANGED <<owner, child, inbox, outbox>>
  BY <1>0, Typed DEF EncodeFailed
<1>2. Silent(s) /\ sup[s].lock = r /\ pc[s][r] = "encodeFailed"
  BY <1>0, Calm DEF EncodeFailed, At, Locked
<1>3. sup' = [sup EXCEPT ![s] = q] /\ Goto(s, r, l)
  BY <1>0, <1>1 DEF EncodeFailed, TypeOK
<1>4. Plain(s, q) /\ q.lock = sup[s].lock BY <1>1 DEF Attributes, Plain
<1>5. l \in Label \ Ending /\ l \notin {"closedCheck", "hello", "receive", "wait", "idle"}
  BY DEF Label, Ending
<1> HIDE DEF q, l
<1>6. Orderly(s, r, q, l, loc[s][r]) BY <1>2, <1>4, <1>5 DEF Orderly, Ending
<1> QED BY <1>0, <1>1, <1>2, <1>3, <1>4, <1>5, <1>6, MovePlain

\* The lock is given back over a silent channel.
LEMMA UnlockStep ==
  ASSUME IInv, NEW s \in Supervisor, NEW t \in Thread, Unlock(s, t)
  PROVE  IInv'
<1> DEFINE q == [sup[s] EXCEPT !.lock = None]
           l == "after"
<1>0. TypeOK BY DEF IInv
<1>1. /\ sup[s] \in Attributes /\ loc[s][t] \in Locals
      /\ loc' = [loc EXCEPT ![s][t] = loc[s][t]] /\ UNCHANGED <<owner, child, inbox, outbox>>
  BY <1>0, Typed DEF Unlock
<1>2. Silent(s) /\ sup[s].lock = t /\ pc[s][t] = "unlock"
  BY Calm DEF Unlock, At, Locked
<1>3. sup' = [sup EXCEPT ![s] = q] /\ Goto(s, t, l)
  BY <1>0, <1>1 DEF Unlock, TypeOK
<1>4. Plain(s, q) BY <1>1 DEF Attributes, Plain
<1>5. l \in Label \ Ending /\ l \notin {"receive", "wait", "idle"} \cup Locked
      /\ l \notin {"closedCheck", "hello"}
  BY DEF Label, Ending, Locked
<1> HIDE DEF q, l
<1>6. Orderly(s, t, q, l, loc[s][t]) BY <1>2, <1>4, <1>5 DEF Orderly, Ending
<1> QED BY <1>0, <1>1, <1>2, <1>3, <1>4, <1>5, <1>6, MovePlain

LEMMA AfterUnlockStep ==
  ASSUME IInv, NEW s \in Supervisor, NEW t \in Thread, AfterUnlock(s, t)
  PROVE  IInv'
<1> DEFINE q == [sup[s] EXCEPT !.gate = IF @ = t THEN None ELSE @]
           l == IF sup[s].closeWaiting THEN "finish" ELSE Ended(t)
<1>0. TypeOK /\ Kept(s) /\ pc[s][t] = "after" BY DEF IInv, AfterUnlock, At
<1>1. /\ sup[s] \in Attributes /\ loc[s][t] \in Locals
      /\ loc' = [loc EXCEPT ![s][t] = loc[s][t]] /\ UNCHANGED <<owner, child, inbox, outbox>>
  BY <1>0, Typed DEF AfterUnlock
<1>2. sup' = [sup EXCEPT ![s] = q] /\ Goto(s, t, l)
  BY <1>0, <1>1 DEF AfterUnlock, TypeOK
<1>3. Plain(s, q) /\ q.lock = sup[s].lock BY <1>1 DEF Attributes, Plain
<1>4. /\ l \in Label \ Ending /\ l \notin {"receive", "wait", "closedCheck", "hello"} \cup Locked
      /\ t = "starter" => l # "idle"
  BY SupervisorAssumption DEF Label, Ending, Locked, Ended
<1>5. q.lock = None => Silent(s) BY <1>0, <1>3 DEF Kept, ChannelKept
<1> HIDE DEF q, l
<1>6. Orderly(s, t, q, l, loc[s][t]) BY <1>0, <1>3, <1>4 DEF Orderly, Ending
<1> QED BY <1>0, <1>1, <1>2, <1>3, <1>4, <1>5, <1>6, MovePlain

-----------------------------------------------------------------------------
(* Ending a child.                                                           *)

\* The channel is closed, with the lock or without it.
LEMMA TerminateStep ==
  ASSUME IInv, NEW s \in Supervisor, NEW t \in Thread, Terminate(s, t)
  PROVE  IInv'
<1> DEFINE q == [sup[s] EXCEPT !.socket = None]
           p == sup[s].process
<1>0. /\ TypeOK /\ Kept(s) /\ sup[s] \in Attributes /\ loc[s][t] \in Locals
      /\ pc[s][t] = "terminate" /\ UNCHANGED owner
  BY Typed DEF IInv, Terminate, At
<1>1. /\ q \in Attributes
      /\ q.built = sup[s].built /\ q.released = sup[s].released
      /\ q.callback = sup[s].callback /\ q.ran = sup[s].ran
      /\ q.closed = sup[s].closed /\ q.socket = None /\ q.lock = sup[s].lock
      /\ q.gate = sup[s].gate
  BY <1>0 DEF Attributes
<1>2. sup' = [sup EXCEPT ![s] = q] BY <1>0 DEF Terminate, TypeOK
<1> HIDE DEF q
<1>3. sup'[s] = q BY <1>0, <1>2 DEF TypeOK
<1>4. SlotKept(s)' /\ GateKept(s)'
  BY <1>0, <1>1, <1>3 DEF Kept, SlotKept, GateKept
<1>5. /\ inbox' \in [Supervisor -> [Child -> Seq(Request)]]
      /\ \A c \in Child : inbox'[s][c] \in {<<>>, inbox[s][c]}
      /\ \A u \in Supervisor \ {s} : inbox'[u] = inbox[u]
  <2> DEFINE f == [c \in Child |-> IF c = sup[s].socket THEN <<>> ELSE inbox[s][c]]
  <2>1. inbox' = [inbox EXCEPT ![s] = f] BY <1>0 DEF Terminate
  <2>2. <<>> \in Seq(Request) /\ inbox[s] \in [Child -> Seq(Request)] BY <1>0 DEF TypeOK
  <2>3. f \in [Child -> Seq(Request)] /\ \A c \in Child : f[c] \in {<<>>, inbox[s][c]}
    BY <2>2
  <2> HIDE DEF f
  <2> QED BY <1>0, <2>1, <2>3 DEF TypeOK
<1>6. /\ outbox' \in [Supervisor -> [Child -> Seq(Request \cup {"hello"})]]
      /\ \A c \in Child : outbox'[s][c] \in {<<>>, outbox[s][c]}
      /\ \A u \in Supervisor \ {s} : outbox'[u] = outbox[u]
  <2> DEFINE f == [c \in Child |-> IF c = sup[s].socket THEN <<>> ELSE outbox[s][c]]
  <2>1. outbox' = [outbox EXCEPT ![s] = f] BY <1>0 DEF Terminate
  <2>2. /\ <<>> \in Seq(Request \cup {"hello"})
        /\ outbox[s] \in [Child -> Seq(Request \cup {"hello"})]
    BY <1>0 DEF TypeOK
  <2>3. /\ f \in [Child -> Seq(Request \cup {"hello"})]
        /\ \A c \in Child : f[c] \in {<<>>, outbox[s][c]}
    BY <2>2
  <2> HIDE DEF f
  <2> QED BY <1>0, <2>1, <2>3 DEF TypeOK
<1>7. loc[s][t].ret \in Exits \cup {"startCleanup"}
  BY <1>0 DEF Kept, LockKept, Ending
<1>8. loc[s][t].ret \in Exits => sup[s].lock = t
  BY <1>0 DEF Kept, LockKept, Owns, Ending
<1>9. ASSUME NEW l \in Label, NEW w \in Locals, Goto(s, t, l),
             loc' = [loc EXCEPT ![s][t] = w], Orderly(s, t, q, l, w),
             child' \in [Supervisor -> [Child -> {"none", "loading", "ready", "killed", "gone"}]],
             \A c \in Child : child'[s][c] = "none" => child[s][c] = "none",
             \A u \in Supervisor \ {s} : child'[u] = child[u]
      PROVE  IInv'
  <2>1. Channels' BY <1>5, <1>6, <1>9 DEF Channels
  <2>2. Unstarted(s)' BY <1>0, <1>1, <1>3, <1>5, <1>6, <1>9 DEF Kept, Unstarted
  <2>3. Silent(s)' /\ Greeting(s)' /\ Pending(s)'
    BY <1>1, <1>3 DEF Silent, Greeting, Pending
  <2> QED BY <1>0, <1>1, <1>2, <1>4, <1>5, <1>6, <1>9, <2>1, <2>2, <2>3, Touch
<1>10. CASE sup[s].reaping \/ p = None
  <2> DEFINE l == loc[s][t].ret
             w == [NoLocals EXCEPT !.transient = loc[s][t].transient]
  <2>1. Goto(s, t, l) /\ loc' = [loc EXCEPT ![s][t] = w] /\ UNCHANGED child
    BY <1>10 DEF Terminate, Return
  <2>2. w \in Locals BY <1>0 DEF NoLocals, Locals, Label
  <2>3. l \in Label /\ l \notin Ending \cup {"idle", "wait"} /\ (l \in Locked => l \in Exits)
    BY <1>7 DEF Exits, Label, Ending, Locked
  <2> HIDE DEF w
  <2>4. Orderly(s, t, q, l, w) BY <1>0, <1>1, <1>8, <2>3 DEF Orderly
  <2>5. child \in [Supervisor -> [Child -> {"none", "loading", "ready", "killed", "gone"}]]
    BY <1>0 DEF TypeOK
  <2> HIDE DEF l
  <2> QED BY <1>9, <2>1, <2>2, <2>3, <2>4, <2>5
<1>11. CASE ~(sup[s].reaping \/ p = None)
  <2> DEFINE w == [loc[s][t] EXCEPT !.victim = p]
             l == "wait"
  <2>1. p \in Child BY <1>0, <1>11 DEF Attributes
  <2>2. w \in Locals /\ w.ret = loc[s][t].ret /\ w.victim = p BY <1>0, <2>1 DEF Locals
  <2>3. Goto(s, t, l) BY <1>11 DEF Terminate
  <2>4. loc' = [loc EXCEPT ![s][t] = w] BY <1>0, <1>11 DEF Terminate, TypeOK
  <2>5. l \in Label \ Locked /\ l # "idle" BY DEF Label, Locked
  <2>6. child' = [child EXCEPT ![s][p] = IF child[s][p] = "gone" THEN child[s][p] ELSE "killed"]
    BY <1>11 DEF Terminate
  <2>7. /\ child' \in [Supervisor -> [Child -> {"none", "loading", "ready", "killed", "gone"}]]
        /\ \A c \in Child : child'[s][c] = "none" => child[s][c] = "none"
        /\ \A u \in Supervisor \ {s} : child'[u] = child[u]
    BY <1>0, <2>1, <2>6 DEF TypeOK
  <2> HIDE DEF w, l
  <2>8. Orderly(s, t, q, l, w) BY <1>0, <1>1, <1>7, <1>8, <2>1, <2>2, <2>5 DEF Orderly
  <2> QED BY <1>9, <2>2, <2>3, <2>4, <2>5, <2>7, <2>8
<1> QED BY <1>10, <1>11

LEMMA WaitedStep ==
  ASSUME IInv, NEW s \in Supervisor, NEW t \in Thread, Waited(s, t)
  PROVE  IInv'
<1> DEFINE q == [sup[s] EXCEPT !.process = None]
<1>0. TypeOK /\ sup[s] \in Attributes BY Typed DEF IInv
<1>1. Plain(s, q) /\ q.lock = sup[s].lock BY <1>0 DEF Attributes, Plain
<1>2. sup' = [sup EXCEPT ![s] = q] BY <1>0 DEF Waited, TypeOK
<1> HIDE DEF q
<1> QED BY <1>1, <1>2, ReturnStep DEF Waited

LEMMA WaitExpiresStep ==
  ASSUME IInv, NEW s \in Supervisor, NEW t \in Thread, WaitExpires(s, t)
  PROVE  IInv'
<1> DEFINE c == loc[s][t].victim
           f == [sup[s].reapers EXCEPT ![c] = @ + 1]
           q == [sup[s] EXCEPT !.reaping = TRUE, !.reapers = f]
<1>0. TypeOK /\ sup[s] \in Attributes BY Typed DEF IInv
<1>1. f \in [Child -> Nat]
  <2>1. sup[s].reapers \in [Child -> Nat] BY <1>0 DEF Attributes
  <2>2. c \in Child BY DEF IInv, Kept, LockKept, WaitExpires, At
  <2> QED BY <2>1, <2>2
<1>2. sup' = [sup EXCEPT ![s] = q] BY <1>0 DEF WaitExpires, TypeOK
<1> HIDE DEF f
<1>3. Plain(s, q) /\ q.lock = sup[s].lock BY <1>0, <1>1 DEF Attributes, Plain
<1> HIDE DEF q
<1> QED BY <1>2, <1>3, ReturnStep DEF WaitExpires

LEMMA ReaperUnavailableStep ==
  ASSUME IInv, NEW s \in Supervisor, NEW t \in Thread, ReaperUnavailable(s, t)
  PROVE  IInv'
<1> DEFINE q == [sup[s] EXCEPT !.reaping = FALSE, !.kept = TRUE]
<1>0. TypeOK /\ sup[s] \in Attributes BY Typed DEF IInv
<1>1. Plain(s, q) /\ q.lock = sup[s].lock BY <1>0 DEF Attributes, Plain
<1>2. sup' = [sup EXCEPT ![s] = q] BY <1>0 DEF ReaperUnavailable, TypeOK
<1> HIDE DEF q
<1> QED BY <1>1, <1>2, ReturnStep DEF ReaperUnavailable

LEMMA ReapStep ==
  ASSUME IInv, NEW s \in Supervisor, NEW c \in Child, Reap(s, c)
  PROVE  IInv'
<1> DEFINE f == [sup[s].reapers EXCEPT ![c] = @ - 1]
           q == [sup[s] EXCEPT !.process = None, !.reaping = FALSE, !.reapers = f,
                               !.reaped = @ + 1]
<1>0. TypeOK /\ Kept(s) /\ sup[s] \in Attributes BY DEF IInv, TypeOK
<1>1. f \in [Child -> Nat] /\ sup[s].reaped + 1 \in Nat BY <1>0 DEF Attributes, Reap
<1>2. sup' = [sup EXCEPT ![s] = q] BY <1>0, SMTT(60) DEF Reap, TypeOK, Attributes
<1> HIDE DEF f
<1>3. Plain(s, q) /\ q.lock = sup[s].lock BY <1>0, <1>1 DEF Attributes, Plain
<1> HIDE DEF q
<1>4. sup'[s] = q BY <1>0, <1>2 DEF TypeOK
<1>5. owner' = owner /\ owner \in Supervisor \cup {None} BY <1>0 DEF Reap, TypeOK
<1>6. SlotKept(s)' /\ GateKept(s)' BY <1>0, <1>3, <1>4, <1>5, PlainKept
<1> QED BY <1>2, <1>3, <1>5, <1>6, Quiet DEF Reap, Plain

\* The slot is given back by its owner, once and for good.
LEMMA ReaperEndsStep ==
  ASSUME IInv, NEW s \in Supervisor, ReaperEnds(s)
  PROVE  IInv'
<1> DEFINE b == sup[s].released \/ owner' # owner
           q == [sup[s] EXCEPT !.reaped = @ - 1, !.released = b]
<1>0. TypeOK /\ Kept(s) /\ sup[s] \in Attributes /\ s # None
  BY SupervisorAssumption DEF IInv, TypeOK
<1>1. b \in BOOLEAN /\ sup[s].reaped - 1 \in Nat BY <1>0 DEF Attributes, ReaperEnds
<1>2. sup' = [sup EXCEPT ![s] = q] BY <1>0 DEF ReaperEnds, TypeOK
<1>3. owner' = owner \/ (owner = s /\ owner' = None) BY DEF ReaperEnds
<1>4. b = (sup[s].released \/ owner' # owner) OBVIOUS
<1> HIDE DEF b
<1>5. /\ q \in Attributes /\ q.released = b
      /\ q.built = sup[s].built
      /\ q.callback = sup[s].callback /\ q.ran = sup[s].ran
      /\ q.closed = sup[s].closed /\ q.socket = sup[s].socket /\ q.lock = sup[s].lock
      /\ q.gate = sup[s].gate
  BY <1>0, <1>1 DEF Attributes
<1> HIDE DEF q
<1>6. sup'[s] = q BY <1>0, <1>2 DEF TypeOK
<1>7. SlotKept(s)' /\ GateKept(s)'
  BY <1>0, <1>3, <1>4, <1>5, <1>6 DEF Kept, SlotKept, GateKept
<1>8. /\ owner' \in Supervisor \cup {None}
      /\ \A u \in Supervisor \ {s} : owner' = u <=> owner = u
  BY <1>0, <1>3, SupervisorAssumption DEF TypeOK
<1> QED BY <1>2, <1>5, <1>7, <1>8, Quiet DEF ReaperEnds

-----------------------------------------------------------------------------
(* Closing.                                                                  *)

\* close() takes the gate, so no request has it from now on.
LEMMA CloseBeginsStep ==
  ASSUME IInv, NEW s \in Supervisor, CloseBegins(s)
  PROVE  IInv'
<1> DEFINE t == "closer"
           l == "closeLock"
           q == [sup[s] EXCEPT !.gate = t, !.closed = TRUE, !.closes = @ + 1,
                               !.callback = "queued"]
<1>0. /\ TypeOK /\ Kept(s) /\ t \in Thread \ Request /\ pc[s][t] \in {"idle", "done"}
      /\ pc[s]["starter"] = "done" /\ owner = s /\ UNCHANGED <<owner, child, inbox, outbox>>
  BY SupervisorAssumption DEF IInv, Thread, CloseBegins, At
<1>1. sup[s] \in Attributes /\ loc[s][t] \in Locals
      /\ loc' = [loc EXCEPT ![s][t] = loc[s][t]]
  BY <1>0, Typed DEF CloseBegins
<1>2. sup[s].closes + 1 \in 0..MaxClose
  BY <1>1, SupervisorAssumption DEF Attributes, CloseBegins
<1>3. /\ q \in Attributes
      /\ q.built = sup[s].built /\ q.released = sup[s].released
      /\ q.callback = "queued" /\ q.ran = sup[s].ran
      /\ q.gate = t /\ q.socket = sup[s].socket /\ q.lock = sup[s].lock
  BY <1>0, <1>1, <1>2 DEF Attributes
<1>4. sup' = [sup EXCEPT ![s] = q] /\ Goto(s, t, l) BY <1>0, <1>1 DEF CloseBegins, TypeOK
<1> HIDE DEF q
<1>5. sup'[s] = q BY <1>0, <1>4 DEF TypeOK
<1>6. sup[s].ran \in 0..1 /\ owner' \in Supervisor \cup {None} BY <1>0, <1>1 DEF Attributes, TypeOK
<1>7. SlotKept(s)' /\ GateKept(s)'
  BY <1>0, <1>3, <1>5, <1>6 DEF Kept, SlotKept, GateKept
<1>8. q.lock = None => Silent(s) BY <1>0, <1>3 DEF Kept, ChannelKept
<1>9. l \in Label \ Ending /\ l \notin {"receive", "wait", "closedCheck", "hello"} \cup Locked
  BY DEF Label, Ending, Locked
<1>10. t # "starter" OBVIOUS
<1> HIDE DEF l, t
<1>11. Orderly(s, t, q, l, loc[s][t]) BY <1>0, <1>3, <1>9, <1>10 DEF Orderly
<1> QED BY <1>0, <1>1, <1>3, <1>4, <1>6, <1>7, <1>8, <1>9, <1>11, Move

LEMMA CloseLocksStep ==
  ASSUME IInv, NEW s \in Supervisor, CloseLocks(s)
  PROVE  IInv'
<1> DEFINE t == "closer"
<1>0. /\ TypeOK /\ Kept(s) /\ t \in Thread /\ pc[s][t] = "closeLock"
      /\ UNCHANGED <<owner, child, inbox, outbox>>
  BY DEF IInv, Thread, CloseLocks, At
<1>1. sup[s] \in Attributes /\ t # None BY <1>0, Typed
<1>2. CASE sup[s].lock = None
  <2> DEFINE q == [sup[s] EXCEPT !.lock = t]
             ret == "closeUnlock"
  <2>1. Plain(s, q) /\ q.lock = t BY <1>0, <1>1 DEF Attributes, Plain
  <2>2. sup' = [sup EXCEPT ![s] = q] /\ CallTerminate(s, t, FALSE, ret)
    BY <1>0, <1>1, <1>2 DEF CloseLocks, TypeOK
  <2>3. ret \in Exits BY DEF Exits
  <2> HIDE DEF q, ret
  <2> QED BY <1>0, <1>1, <1>2, <2>1, <2>2, <2>3, CallTerminateStep
<1>3. CASE sup[s].lock # None
  <2> DEFINE q == [sup[s] EXCEPT !.closeWaiting = TRUE]
             ret == "startCleanup"
  <2>1. Plain(s, q) /\ q.lock = sup[s].lock BY <1>0, <1>1 DEF Attributes, Plain
  <2>2. sup' = [sup EXCEPT ![s] = q] /\ CallTerminate(s, t, FALSE, ret)
    BY <1>0, <1>1, <1>3 DEF CloseLocks, TypeOK
  <2>3. ret \in {"startCleanup"} /\ ret \notin Exits BY DEF Exits
  <2> HIDE DEF q, ret
  <2> QED BY <1>0, <1>1, <1>3, <2>1, <2>2, <2>3, CallTerminateStep
<1> QED BY <1>2, <1>3

\* The lock is given back after the channel was closed.
LEMMA CloseUnlockStep ==
  ASSUME IInv, NEW s \in Supervisor, CloseUnlock(s)
  PROVE  IInv'
<1> DEFINE t == "closer"
           l == "release"
           q == [sup[s] EXCEPT !.lock = None]
<1>0. TypeOK /\ t \in Thread BY DEF IInv, Thread
<1>1. /\ sup[s] \in Attributes /\ loc[s][t] \in Locals
      /\ loc' = [loc EXCEPT ![s][t] = loc[s][t]] /\ UNCHANGED <<owner, child, inbox, outbox>>
  BY <1>0, Typed DEF CloseUnlock
<1>2. Silent(s) /\ sup[s].lock = t /\ pc[s][t] = "closeUnlock"
  BY <1>0, Calm DEF CloseUnlock, At, Locked
<1>3. sup' = [sup EXCEPT ![s] = q] /\ Goto(s, t, l) BY <1>0, <1>1 DEF CloseUnlock, TypeOK
<1>4. Plain(s, q) BY <1>1 DEF Attributes, Plain
<1>5. l \in Label \ Ending /\ l \notin {"receive", "wait", "idle", "closedCheck", "hello"} \cup Locked
  BY DEF Label, Ending, Locked
<1> HIDE DEF q, l, t
<1>6. Orderly(s, t, q, l, loc[s][t]) BY <1>2, <1>5 DEF Orderly
<1> QED BY <1>0, <1>1, <1>2, <1>3, <1>4, <1>5, <1>6, MovePlain

\* Two threads move: the cleanup thread begins, the closer ends.
LEMMA StartCleanupStep ==
  ASSUME IInv, NEW s \in Supervisor, StartCleanup(s)
  PROVE  IInv'
<1> DEFINE q == [sup[s] EXCEPT !.gate = None]
<1>0. /\ TypeOK /\ Kept(s) /\ {"cleanup", "closer", "starter"} \subseteq Thread
      /\ pc[s]["closer"] = "startCleanup" /\ UNCHANGED <<owner, loc, child, inbox, outbox>>
  BY DEF IInv, Thread, StartCleanup, At
<1>1. sup[s] \in Attributes BY <1>0 DEF TypeOK
<1>2. Plain(s, q) /\ q.lock = sup[s].lock BY <1>1 DEF Attributes, Plain
<1>3. sup' = [sup EXCEPT ![s] = q] BY <1>0, <1>1 DEF StartCleanup, TypeOK
<1> HIDE DEF q
<1>4. /\ sup'[s] = q /\ sup' \in [Supervisor -> Attributes]
      /\ \A u \in Supervisor \ {s} : sup'[u] = sup[u]
  BY <1>0, <1>2, <1>3 DEF TypeOK, Plain
<1>5. "finish" \in Label /\ "done" \in Label BY DEF Label
<1>6. /\ pc' \in [Supervisor -> [Thread -> Label]]
      /\ pc'[s]["cleanup"] = "finish" /\ pc'[s]["closer"] = "done"
      /\ \A t \in Thread \ {"cleanup", "closer"} : pc'[s][t] = pc[s][t]
      /\ \A u \in Supervisor \ {s} : pc'[u] = pc[u]
  BY <1>0, <1>5 DEF StartCleanup, TypeOK
<1>7. \A t \in Thread :
        \/ pc'[s][t] = pc[s][t]
        \/ pc'[s][t] \in {"finish", "done"}
  BY <1>6
<1>8. {"finish", "done"} \cap (Locked \cup Ending) = {} BY DEF Locked, Ending
<1>9. TypeOK' BY <1>0, <1>4, <1>6 DEF TypeOK
<1>10. \A u \in Supervisor \ {s} : Same(u) BY <1>0, <1>4, <1>6 DEF Same
<1>11. SlotKept(s)' /\ GateKept(s)' BY <1>0, <1>2, <1>4, PlainKept
<1>12. LockKept(s)'
  BY <1>0, <1>2, <1>4, <1>7, <1>8 DEF Kept, LockKept, Owns
<1>13. pc'[s]["starter"] = "done"
  BY <1>0, <1>6 DEF Kept, StartedFirst
<1>14. StartedFirst(s)' BY <1>13 DEF StartedFirst
<1>15. Silent(s)' = Silent(s) /\ Greeting(s)' = Greeting(s) /\ Pending(s)' = Pending(s)
  BY <1>0, <1>2, <1>4 DEF Silent, Greeting, Pending, Plain
<1>16. ChannelKept(s)'
  BY <1>0, <1>2, <1>4, <1>7, <1>8, <1>15 DEF Kept, ChannelKept, Plain
<1>17. Unstarted(s)' BY <1>0, <1>2, <1>4 DEF Kept, Unstarted, Plain
<1> QED BY <1>9, <1>10, <1>11, <1>12, <1>14, <1>16, <1>17, OneSupervisor DEF Kept

LEMMA CleanupUnavailableStep ==
  ASSUME IInv, NEW s \in Supervisor, CleanupUnavailable(s)
  PROVE  IInv'
<1> DEFINE t == "closer"
<1>0. /\ TypeOK /\ Kept(s) /\ t \in Thread /\ pc[s][t] = "startCleanup"
      /\ UNCHANGED <<owner, child, inbox, outbox>>
  BY DEF IInv, Thread, CleanupUnavailable, At
<1>1. /\ sup[s] \in Attributes /\ t # None /\ loc[s][t] \in Locals
      /\ loc = [loc EXCEPT ![s][t] = loc[s][t]]
  BY <1>0, Typed
<1>2. CASE sup[s].lock = None
  <2> DEFINE q == [sup[s] EXCEPT !.lock = t]
             ret == "finishUnlock"
  <2>1. Plain(s, q) /\ q.lock = t BY <1>0, <1>1 DEF Attributes, Plain
  <2>2. sup' = [sup EXCEPT ![s] = q] /\ CallTerminate(s, t, FALSE, ret)
    BY <1>0, <1>1, <1>2 DEF CleanupUnavailable, TypeOK
  <2>3. ret \in Exits BY DEF Exits
  <2> HIDE DEF q, ret
  <2> QED BY <1>0, <1>1, <1>2, <2>1, <2>2, <2>3, CallTerminateStep
<1>3. CASE sup[s].lock # None
  <2> DEFINE q == [sup[s] EXCEPT !.gate = None]
             l == "done"
  <2>1. Plain(s, q) /\ q.lock = sup[s].lock BY <1>0, <1>1 DEF Attributes, Plain
  <2>2. sup' = [sup EXCEPT ![s] = q] /\ Goto(s, t, l) /\ UNCHANGED loc
    BY <1>0, <1>1, <1>3 DEF CleanupUnavailable, TypeOK
  <2>3. l \in Label \ Ending /\ l \notin {"receive", "wait", "closedCheck", "hello"} \cup Locked
    BY DEF Label, Ending, Locked
  <2> HIDE DEF q, l
  <2>4. Orderly(s, t, q, l, loc[s][t]) BY <1>0, <2>1, <2>3 DEF Orderly
  <2> QED BY <1>0, <1>1, <1>3, <2>1, <2>2, <2>3, <2>4, MovePlain
<1> QED BY <1>2, <1>3

LEMMA FinishStep ==
  ASSUME IInv, NEW s \in Supervisor, NEW t \in Thread, Finish(s, t)
  PROVE  IInv'
<1> DEFINE q == [sup[s] EXCEPT !.lock = t]
           ret == "finishUnlock"
<1>0. /\ TypeOK /\ Kept(s) /\ pc[s][t] = "finish" /\ sup[s].lock = None
      /\ UNCHANGED <<owner, child, inbox, outbox>>
  BY DEF IInv, Finish, At
<1>1. sup[s] \in Attributes /\ t # None BY <1>0, Typed
<1>2. Plain(s, q) /\ q.lock = t BY <1>0, <1>1 DEF Attributes, Plain
<1>3. sup' = [sup EXCEPT ![s] = q] /\ CallTerminate(s, t, FALSE, ret)
  BY <1>0, <1>1 DEF Finish, TypeOK
<1>4. ret \in Exits BY DEF Exits
<1> HIDE DEF q, ret
<1> QED BY <1>0, <1>1, <1>2, <1>3, <1>4, CallTerminateStep

LEMMA FinishUnlockStep ==
  ASSUME IInv, NEW s \in Supervisor, NEW t \in Thread, FinishUnlock(s, t)
  PROVE  IInv'
<1> DEFINE l == "release"
           q == [sup[s] EXCEPT !.lock = None, !.closeWaiting = FALSE]
<1>0. TypeOK BY DEF IInv
<1>1. /\ sup[s] \in Attributes /\ loc[s][t] \in Locals
      /\ loc' = [loc EXCEPT ![s][t] = loc[s][t]] /\ UNCHANGED <<owner, child, inbox, outbox>>
  BY <1>0, Typed DEF FinishUnlock
<1>2. Silent(s) /\ sup[s].lock = t /\ pc[s][t] = "finishUnlock"
  BY <1>0, Calm DEF FinishUnlock, At, Locked
<1>3. sup' = [sup EXCEPT ![s] = q] /\ Goto(s, t, l) BY <1>0, <1>1 DEF FinishUnlock, TypeOK
<1>4. Plain(s, q) BY <1>1 DEF Attributes, Plain
<1>5. l \in Label \ Ending /\ l \notin {"receive", "wait", "idle", "closedCheck", "hello"} \cup Locked
  BY DEF Label, Ending, Locked
<1> HIDE DEF q, l
<1>6. Orderly(s, t, q, l, loc[s][t]) BY <1>2, <1>5 DEF Orderly
<1> QED BY <1>0, <1>1, <1>2, <1>3, <1>4, <1>5, <1>6, MovePlain

LEMMA ReleaseOwnerStep ==
  ASSUME IInv, NEW s \in Supervisor, NEW t \in Thread, ReleaseOwner(s, t)
  PROVE  IInv'
<1> DEFINE b == sup[s].released \/ owner' # owner
           g == IF t = "closer" THEN None ELSE sup[s].gate
           q == [sup[s] EXCEPT !.gate = g, !.released = b]
           l == Ended(t)
<1>0. TypeOK /\ Kept(s) /\ s # None /\ pc[s][t] = "release"
      /\ UNCHANGED <<child, inbox, outbox>>
  BY SupervisorAssumption DEF IInv, ReleaseOwner, At
<1>1. /\ sup[s] \in Attributes /\ loc[s][t] \in Locals
      /\ loc' = [loc EXCEPT ![s][t] = loc[s][t]]
  BY <1>0, Typed DEF ReleaseOwner
<1>2. b \in BOOLEAN /\ g \in Thread \cup {None} /\ g \in {sup[s].gate, None}
  BY <1>1 DEF Attributes
<1>3. sup' = [sup EXCEPT ![s] = q] /\ Goto(s, t, l) BY <1>0, <1>1 DEF ReleaseOwner, TypeOK
<1>4. owner' = owner \/ (owner = s /\ owner' = None) BY DEF ReleaseOwner
<1>5. b = (sup[s].released \/ owner' # owner) OBVIOUS
<1> HIDE DEF b, g
<1>6. /\ q \in Attributes /\ q.released = b /\ q.gate = g
      /\ q.built = sup[s].built
      /\ q.callback = sup[s].callback /\ q.ran = sup[s].ran
      /\ q.closed = sup[s].closed /\ q.socket = sup[s].socket /\ q.lock = sup[s].lock
  BY <1>1, <1>2 DEF Attributes
<1> HIDE DEF q
<1>7. sup'[s] = q BY <1>0, <1>3 DEF TypeOK
<1>8. SlotKept(s)' /\ GateKept(s)'
  <2>1. SlotKept(s)' BY <1>0, <1>4, <1>5, <1>6, <1>7 DEF Kept, SlotKept
  <2>2. GateKept(s)' BY <1>0, <1>2, <1>6, <1>7, SupervisorAssumption DEF Kept, GateKept
  <2> QED BY <2>1, <2>2
<1>9. /\ owner' \in Supervisor \cup {None}
      /\ \A u \in Supervisor \ {s} : owner' = u <=> owner = u
  BY <1>0, <1>4, SupervisorAssumption DEF TypeOK
<1>10. /\ l \in Label \ Ending /\ l \notin {"receive", "wait", "closedCheck", "hello"} \cup Locked
       /\ t = "starter" => l # "idle"
  BY SupervisorAssumption DEF Label, Ending, Locked, Ended
<1>11. q.lock = None => Silent(s) BY <1>0, <1>6 DEF Kept, ChannelKept
<1> HIDE DEF l
<1>12. Orderly(s, t, q, l, loc[s][t]) BY <1>0, <1>6, <1>10 DEF Orderly
<1> QED BY <1>0, <1>1, <1>3, <1>6, <1>8, <1>9, <1>10, <1>11, <1>12, Move

\* The callback runs after the release, and leaves nothing to run a second time.
LEMMA RunCallbacksStep ==
  ASSUME IInv, NEW s \in Supervisor, RunCallbacks(s)
  PROVE  IInv'
<1> DEFINE q == [sup[s] EXCEPT !.callback = "ran", !.ran = @ + 1]
<1>0. TypeOK /\ Kept(s) /\ sup[s] \in Attributes BY DEF IInv, TypeOK
<1>1. sup[s].ran \in 0..1 BY <1>0 DEF Attributes
<1>2. sup[s].ran = 0 /\ sup[s].ran + 1 \in 0..1
  BY <1>0, <1>1 DEF Kept, SlotKept, RunCallbacks
<1>3. sup' = [sup EXCEPT ![s] = q] BY <1>0 DEF RunCallbacks, TypeOK
<1>4. /\ q \in Attributes /\ q.released = sup[s].released /\ q.gate = sup[s].gate
      /\ q.built = sup[s].built
      /\ q.callback = "ran" /\ q.ran = sup[s].ran + 1
      /\ q.closed = sup[s].closed /\ q.socket = sup[s].socket /\ q.lock = sup[s].lock
  BY <1>0, <1>2 DEF Attributes
<1> HIDE DEF q
<1>5. sup'[s] = q BY <1>0, <1>3 DEF TypeOK
<1>6. owner' = owner /\ owner \in Supervisor \cup {None} BY <1>0 DEF RunCallbacks, TypeOK
<1>7. SlotKept(s)' /\ GateKept(s)'
  <2>1. sup[s].released /\ sup'[s].ran = 1 BY <1>2, <1>4, <1>5 DEF RunCallbacks
  <2>2. SlotKept(s)' BY <1>0, <1>4, <1>5, <1>6, <2>1 DEF Kept, SlotKept
  <2>3. GateKept(s)' BY <1>0, <1>4, <1>5 DEF Kept, GateKept
  <2> QED BY <2>2, <2>3
<1> QED BY <1>3, <1>4, <1>6, <1>7, Quiet DEF RunCallbacks

-----------------------------------------------------------------------------
(* The worker child.                                                         *)

\* A step of a child that only that child's state and channel show.
LEMMA ChildMoves ==
  ASSUME IInv, NEW s \in Supervisor, UNCHANGED <<owner, sup, pc, loc>>, Channels',
         \A u \in Supervisor \ {s} :
           child'[u] = child[u] /\ inbox'[u] = inbox[u] /\ outbox'[u] = outbox[u],
         Silent(s) => Silent(s)', Greeting(s) => Greeting(s)', Pending(s) => Pending(s)',
         Unstarted(s)'
  PROVE  IInv'
<1>0. TypeOK /\ Kept(s) BY DEF IInv
<1>1. TypeOK' BY <1>0 DEF TypeOK, Channels
<1>2. \A u \in Supervisor \ {s} : Same(u) BY DEF Same
<1>3. SlotKept(s)' /\ GateKept(s)' /\ LockKept(s)' /\ StartedFirst(s)'
  BY <1>0 DEF Kept, SlotKept, GateKept, LockKept, StartedFirst, Owns
<1>4. ChannelKept(s)' BY <1>0 DEF Kept, ChannelKept
<1> QED BY <1>1, <1>2, <1>3, <1>4, OneSupervisor DEF Kept

LEMMA ChildReadyStep ==
  ASSUME IInv, NEW s \in Supervisor, NEW c \in Child, ChildReady(s, c)
  PROVE  IInv'
<1> DEFINE x == IF sup[s].socket = c THEN <<"hello">> ELSE outbox[s][c]
<1>0. TypeOK /\ Kept(s) BY DEF IInv
<1>1. /\ UNCHANGED <<owner, sup, pc, loc, inbox>> /\ child[s][c] = "loading"
      /\ child' = [child EXCEPT ![s][c] = "ready"]
      /\ outbox' = [outbox EXCEPT ![s][c] = x]
  BY DEF ChildReady
<1>2. x \in Seq(Request \cup {"hello"})
  <2>1. outbox[s][c] \in Seq(Request \cup {"hello"}) BY <1>0 DEF TypeOK
  <2>2. <<"hello">> \in Seq(Request \cup {"hello"}) OBVIOUS
  <2> QED BY <2>1, <2>2
<1>3. sup[s].socket = c => x = <<"hello">> OBVIOUS
<1> HIDE DEF x
<1>4. /\ Channels' /\ child'[s][c] = "ready" /\ outbox'[s][c] = x
      /\ \A d \in Child \ {c} : child'[s][d] = child[s][d] /\ outbox'[s][d] = outbox[s][d]
      /\ \A u \in Supervisor \ {s} : child'[u] = child[u] /\ outbox'[u] = outbox[u]
  BY <1>0, <1>1, <1>2 DEF TypeOK, Channels
<1>5. sup[s].socket \in Child \cup {None} BY <1>0 DEF TypeOK, Attributes
<1>6. Silent(s) => Silent(s)' BY <1>1, <1>4, <1>5 DEF Silent
<1>7. Greeting(s) => Greeting(s)' BY <1>1, <1>3, <1>4, <1>5 DEF Greeting
<1>8. Pending(s) => Pending(s)' BY <1>1, <1>4, <1>5 DEF Pending
<1>9. Unstarted(s)' BY <1>0, <1>1, <1>4, <1>5 DEF Kept, Unstarted
<1> QED BY <1>1, <1>4, <1>6, <1>7, <1>8, <1>9, ChildMoves

\* The pending request becomes the pending answer.
LEMMA ChildAnswersStep ==
  ASSUME IInv, NEW s \in Supervisor, NEW c \in Child, ChildAnswers(s, c)
  PROVE  IInv'
<1> DEFINE x == Tail(inbox[s][c])
           y == Append(outbox[s][c], Head(inbox[s][c]))
<1>0. /\ TypeOK /\ Kept(s) /\ inbox[s][c] \in Seq(Request) /\ inbox[s][c] # <<>>
      /\ outbox[s][c] \in Seq(Request \cup {"hello"})
  BY DEF IInv, TypeOK, ChildAnswers
<1>1. /\ UNCHANGED <<owner, sup, pc, loc, child>> /\ child[s][c] = "ready"
      /\ inbox' = [inbox EXCEPT ![s][c] = x]
      /\ outbox' = [outbox EXCEPT ![s][c] = y]
  BY DEF ChildAnswers
<1>2. x \in Seq(Request) /\ Head(inbox[s][c]) \in Request BY <1>0
<1>3. y \in Seq(Request \cup {"hello"}) BY <1>0, <1>2
<1>4. ASSUME NEW r \in Request, inbox[s][c] = <<r>>, outbox[s][c] = <<>>
      PROVE  x = <<>> /\ y = <<r>>
  BY <1>4
<1> HIDE DEF x, y
<1>5. /\ Channels' /\ inbox'[s][c] = x /\ outbox'[s][c] = y
      /\ \A d \in Child \ {c} : inbox'[s][d] = inbox[s][d] /\ outbox'[s][d] = outbox[s][d]
      /\ \A u \in Supervisor \ {s} : inbox'[u] = inbox[u] /\ outbox'[u] = outbox[u]
  BY <1>0, <1>1, <1>2, <1>3 DEF TypeOK, Channels
<1>6. sup[s].socket \in Child \cup {None} BY <1>0 DEF TypeOK, Attributes
<1>7. Silent(s) => Silent(s)' BY <1>0, <1>1, <1>5, <1>6 DEF Silent
<1>8. Greeting(s) => Greeting(s)' BY <1>0, <1>1, <1>5, <1>6 DEF Greeting
<1>9. Pending(s) => Pending(s)'
  <2>1. CASE sup[s].socket # c BY <1>1, <1>5, <1>6, <2>1 DEF Pending
  <2>2. CASE sup[s].socket = c BY <1>0, <1>1, <1>4, <1>5, <2>2 DEF Pending
  <2> QED BY <2>1, <2>2
<1>10. Unstarted(s)' BY <1>0, <1>1, <1>5, <1>6 DEF Kept, Unstarted
<1> QED BY <1>1, <1>5, <1>7, <1>8, <1>9, <1>10, ChildMoves

\* A child that was started goes.
LEMMA ChildGoesStep ==
  ASSUME IInv, NEW s \in Supervisor, NEW c \in Child, ChildFails(s, c) \/ ChildEnds(s, c)
  PROVE  IInv'
<1>0. TypeOK /\ Kept(s) BY DEF IInv
<1>1. /\ UNCHANGED <<owner, sup, pc, loc, inbox, outbox>> /\ child[s][c] # "none"
      /\ child' = [child EXCEPT ![s][c] = "gone"]
  BY DEF ChildFails, ChildEnds, Alive
<1>2. /\ Channels' /\ child'[s][c] = "gone"
      /\ \A d \in Child \ {c} : child'[s][d] = child[s][d]
      /\ \A u \in Supervisor \ {s} : child'[u] = child[u]
  BY <1>0, <1>1 DEF TypeOK, Channels
<1>3. sup[s].socket \in Child \cup {None} BY <1>0 DEF TypeOK, Attributes
<1>4. /\ Silent(s) => Silent(s)'
      /\ Greeting(s) => Greeting(s)'
      /\ Pending(s) => Pending(s)'
  BY <1>1, <1>2, <1>3 DEF Silent, Greeting, Pending
<1>5. Unstarted(s)' BY <1>0, <1>1, <1>2, <1>3 DEF Kept, Unstarted
<1> QED BY <1>1, <1>2, <1>4, <1>5, ChildMoves

-----------------------------------------------------------------------------
(* The theorems.                                                             *)

LEMMA InitKept == Init => IInv
<1> SUFFICES ASSUME Init PROVE IInv OBVIOUS
<1>1. NoLocals \in Locals /\ "idle" \in Label BY DEF NoLocals, Locals, Label
<1>2. [c \in Child |-> 0] \in [Child -> Nat] /\ 0 \in 0..MaxClose /\ 0 \in 0..1
  BY SupervisorAssumption
<1>3. Fresh \in Attributes BY <1>2 DEF Fresh, Attributes
<1>4. /\ Fresh.built = FALSE /\ Fresh.released = FALSE /\ Fresh.ran = 0
      /\ Fresh.callback = "none" /\ Fresh.closed = FALSE /\ Fresh.socket = None
      /\ Fresh.lock = None
  BY DEF Fresh
<1>5. TypeOK BY <1>1, <1>3 DEF Init, TypeOK
<1>6. ASSUME NEW s \in Supervisor PROVE Kept(s)
  <2>1. sup[s] = Fresh /\ owner # s BY SupervisorAssumption DEF Init
  <2>2. \A t \in Thread : pc[s][t] = "idle" BY DEF Init
  <2>3. \A c \in Child : inbox[s][c] = <<>> /\ outbox[s][c] = <<>> BY DEF Init
  <2>4. "starter" \in Thread BY DEF Thread
  <2>5. SlotKept(s) /\ GateKept(s) BY <1>4, <2>1 DEF SlotKept, GateKept
  <2>6. LockKept(s) BY <2>2 DEF LockKept, Owns, Locked, Ending
  <2>7. StartedFirst(s) BY <1>4, <2>1, <2>2, <2>4 DEF StartedFirst
  <2>8. ChannelKept(s) BY <1>4, <2>1, <2>2 DEF ChannelKept, Silent, Locked
  <2>9. Unstarted(s) BY <1>4, <2>1, <2>3 DEF Unstarted
  <2> QED BY <2>5, <2>6, <2>7, <2>8, <2>9 DEF Kept
<1> QED BY <1>5, <1>6 DEF IInv

LEMMA NextKept == IInv /\ [Next]_vars => IInv'
<1> SUFFICES ASSUME IInv, [Next]_vars PROVE IInv' OBVIOUS
<1>1. CASE UNCHANGED vars
  <2>1. TypeOK' BY <1>1 DEF IInv, TypeOK, vars
  <2>2. \A u \in Supervisor : Same(u) BY <1>1 DEF Same, vars
  <2> QED BY <2>1, <2>2, SameKept DEF IInv
<1>2. CASE Next
  <2>1. PICK s \in Supervisor :
          \/ Environment(s)
          \/ \E t \in Thread : ThreadStep(s, t)
          \/ \E r \in Request : RequestStep(s, r)
          \/ CloserStep(s) \/ ReaperStep(s) \/ RunCallbacks(s)
          \/ \E c \in Child : ChildEnds(s, c)
    BY <1>2 DEF Next
  <2>2. CASE Environment(s)
    BY <2>2, ClaimOwnerStep, ServeGenerationStep, ThreadFailsStep, CallerGivesUpStep,
       StartBeginsStep, CloseBeginsStep, ChildReadyStep, ChildAnswersStep, ChildGoesStep
    DEF Environment
  <2>3. ASSUME NEW t \in Thread, ThreadStep(s, t) PROVE IInv'
    BY <2>3, StartChecksStep, SpawnStep, ClosedCheckStep, HelloReceivedStep, HelloFailsStep,
       StartFailedStep, UnlockStep, AfterUnlockStep, TerminateStep, WaitedStep,
       WaitExpiresStep, ReaperUnavailableStep, FinishStep, FinishUnlockStep, ReleaseOwnerStep
    DEF ThreadStep
  <2>4. ASSUME NEW r \in Request, RequestStep(s, r) PROVE IInv'
    BY <2>4, EncodeBeginsStep, EncodeChecksStep, SendStep, ReceiveStep, ReceiveFailsStep,
       EncodeFailedStep
    DEF RequestStep
  <2>5. CASE CloserStep(s)
    BY <2>5, CloseLocksStep, CloseUnlockStep, StartCleanupStep, CleanupUnavailableStep
    DEF CloserStep
  <2>6. CASE ReaperStep(s) BY <2>6, ReapStep, ReaperEndsStep DEF ReaperStep
  <2>7. CASE RunCallbacks(s) BY <2>7, RunCallbacksStep
  <2>8. ASSUME NEW c \in Child, ChildEnds(s, c) PROVE IInv' BY <2>8, ChildGoesStep
  <2> QED BY <2>1, <2>2, <2>3, <2>4, <2>5, <2>6, <2>7, <2>8
<1> QED BY <1>1, <1>2

\* The conjunction above is an invariant of the supervisors and their children.
THEOREM InductiveInvariant == Spec => []IInv
  BY InitKept, NextKept, PTL DEF Spec

\* Type correctness of embedding_process.py's state; in particular a callback runs
\* at most once.
THEOREM TypeCorrect == Spec => []TypeOK
<1>1. IInv => TypeOK BY DEF IInv
<1> QED BY <1>1, InductiveInvariant, PTL

\* _encode_owned never writes a request to a channel on which an earlier request or
\* a late answer is pending, whatever close() does meanwhile.
THEOREM RequestsFindSilence == Spec => []ChannelInSync
<1>1. IInv => ChannelInSync
  <2> SUFFICES ASSUME IInv, NEW s \in Supervisor, NEW r \in Request, At(s, r, "send"),
                      sup[s].socket # None
               PROVE  inbox[s][sup[s].socket] = <<>> /\ outbox[s][sup[s].socket] = <<>>
    BY DEF ChannelInSync
  <2>1. r \in Thread BY DEF Thread
  <2>2. Silent(s) BY <2>1, Calm DEF At, Locked
  <2> QED BY <2>2 DEF Silent
<1> QED BY <1>1, InductiveInvariant, PTL

\* The callbacks of _release_owner run once, and only when the slot is free.
THEOREM CallbackRunsLast == Spec => []CallbackAfterRelease
<1>1. IInv => CallbackAfterRelease
  BY DEF IInv, Kept, SlotKept, CallbackAfterRelease
<1> QED BY <1>1, InductiveInvariant, PTL

\* serve_generation hands nothing to a caller of a supervisor that is closed.
THEOREM ClosedServesNobody == Spec => NoServiceAfterClose
<1>1. IInv =>
        [\A s \in Supervisor, r \in Request :
           (sup[s].gate = r /\ sup'[s].gate # r) => ~sup[s].closed]_vars
  BY DEF IInv, Kept, GateKept
<1> QED BY <1>1, InductiveInvariant, PTL DEF NoServiceAfterClose

=============================================================================
