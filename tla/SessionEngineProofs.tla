------------------------ MODULE SessionEngineProofs ------------------------
(* For every number of workers and statements and every combination of       *)
(* faults: edges and embeddings have their rows, a completed operation's     *)
(* nodes are embedded, a failed turn's report is right about progress, a     *)
(* recall publishes live nodes, and a stamped profile protects its seeds.    *)
EXTENDS SessionEngine, FiniteSetTheorems, TLAPS

Operations ==
  [kind : {"none", "open", "turn", "think", "recall"}, at : Steps, todo : SUBSET Nodes,
   cur : 0..N, peer : 0..N, pend : SUBSET Nodes, new : SUBSET Nodes, mine : SUBSET Nodes,
   source : SUBSET Nodes, before : Int, missed : SUBSET Nodes]

Typed ==
  /\ row \in [Nodes -> {"absent", "active", "decayed"}]
  /\ blank \subseteq Nodes /\ emb \subseteq Nodes /\ vec \subseteq Nodes
  /\ edges \subseteq Nodes \X Nodes
  /\ schema \in [made : SUBSET Ddl, version : {0, 3}] /\ bare \subseteq Nodes
  /\ op \in [Workers -> Operations]
  /\ lease \in [Workers -> {"none", "shared", "exclusive"}]

(* Whoever is at work holds a lease, and an exclusive one excludes.          *)
Leased ==
  \A w \in Workers :
    /\ op[w].at # "rest" => lease[w] # "none"
    /\ lease[w] = "exclusive" => \A v \in Workers \ {w} : lease[v] = "none"

(* Which operation is at which step.                                         *)
Writing == {"create", "insert", "embed", "encode", "edge", "join"}
Placed(r) ==
  /\ r.at = "rest" => r.kind = "none"
  /\ r.at \in Writing => r.kind \in {"turn", "think"}
  /\ r.at = "link" => r.kind = "turn"
  /\ r.at \in {"tables", "columns", "drop", "stamp"} => r.kind = "open"
  /\ r.at \in {"walk", "details", "publish"} => r.kind = "recall"
  /\ r.at = "completed" => r.kind \in {"open", "turn", "think"}
  /\ r.at = "uncertain" => r.kind = "turn"
  /\ r.kind = "open" => r.new = {}

(* The rows a writer relies on are there.                                    *)
RowsThere(r) ==
  /\ r.kind \in {"turn", "think"} => r.new \cup r.mine \cup r.source \subseteq Present
  /\ r.at = "insert" => r.cur \in Nodes
  /\ r.at \in {"edge", "join"} => r.pend \subseteq Present /\ r.cur \in Present
  /\ r.at = "join" => r.peer \in Present
  /\ r.at = "encode" => r.pend \subseteq Present
  /\ (r.at \in {"link", "edge", "join"} /\ r.kind = "turn") => r.todo \subseteq r.new

(* The live ones among the reported nodes that say something are embedded,   *)
(* once the encoding is through, but for those whose embedding failed.       *)
Embedded(r) ==
  /\ r.at = "encode" => (r.new \cap Live) \ blank \subseteq emb \cup r.pend
  /\ (\/ r.at \in {"link", "completed"} /\ r.kind # "open"
      \/ r.at \in {"edge", "join"} /\ r.kind = "turn")
     => (r.new \cap Live) \ blank \subseteq emb \cup r.missed

(* The row count taken at the start leaves room for the turn's own rows.     *)
Counted(r) ==
  /\ (r.kind = "turn" /\ r.before # Unknown) =>
       r.before + Cardinality(r.mine) <= Cardinality(Present)
  /\ (r.at = "uncertain" /\ r.before # Unknown) => r.mine = {}

Migrated(r) ==
  /\ r.at \in {"columns", "drop", "stamp"} => "tables" \in schema.made
  /\ r.at = "stamp" => "dropped" \in schema.made

WorkerOK(w) ==
  /\ Placed(op[w]) /\ RowsThere(op[w]) /\ Embedded(op[w]) /\ Counted(op[w]) /\ Migrated(op[w])
  /\ op[w].at = "publish" => op[w].new \subseteq Live

IInv ==
  /\ Typed /\ Leased /\ EdgesHaveEnds /\ StampedIsProtected
  /\ \A w \in Workers : WorkerOK(w)

-----------------------------------------------------------------------------
(* What one worker's step does to the others.                                *)

(* Rows, embeddings and columns are only added.                              *)
Grows ==
  /\ Present \subseteq Present' /\ Live \subseteq Live' /\ Live' \cap Present \subseteq Live
  /\ emb \subseteq emb' /\ blank' = blank /\ schema.made \subseteq schema'.made

LEMMA PresentFinite == IsFiniteSet(Present) /\ Cardinality(Present) \in Nat
<1>1. IsFiniteSet(Nodes)
  BY FS_Interval, SessionAssumption DEF Nodes
<1>2. IsFiniteSet(Present)
  BY <1>1, FS_Subset DEF Present
<1> QED BY <1>2, FS_CardinalityType

LEMMA NodesFinite ==
  ASSUME NEW S \in SUBSET Nodes
  PROVE  IsFiniteSet(S) /\ Cardinality(S) \in Nat
<1>1. IsFiniteSet(Nodes)
  BY FS_Interval, SessionAssumption DEF Nodes
<1> QED BY <1>1, FS_Subset, FS_CardinalityType

LEMMA OthersKept ==
  ASSUME IInv, Grows, NEW v \in Workers, op'[v] = op[v]
  PROVE  WorkerOK(v)'
<1> DEFINE r == op[v]
<1>1. r \in Operations /\ WorkerOK(v)
  BY DEF IInv, Typed
<1>2. Cardinality(Present) <= Cardinality(Present')
  <2>1. Present' \in SUBSET Nodes
    BY DEF Present
  <2>2. IsFiniteSet(Present')
    BY <2>1, NodesFinite
  <2> QED BY <2>2, FS_Subset DEF Grows
<1>3. /\ Cardinality(Present) \in Nat /\ Cardinality(Present') \in Nat
      /\ Cardinality(r.mine) \in Nat /\ r.before \in Int
  <2>1. Present' \in SUBSET Nodes /\ Present \in SUBSET Nodes /\ r.mine \in SUBSET Nodes
    BY <1>1 DEF Present, Operations
  <2> QED BY <1>1, <2>1, NodesFinite DEF Operations
<1>4. Placed(op'[v]) /\ Migrated(op[v])' /\ RowsThere(op[v])'
  BY <1>1 DEF WorkerOK, Placed, Migrated, RowsThere, Grows
<1>5. Counted(op[v])'
  BY <1>1, <1>2, <1>3 DEF WorkerOK, Counted
<1>6. Embedded(op[v])'
  BY <1>1 DEF WorkerOK, Placed, RowsThere, Embedded, Grows, Writing
<1>7. (op[v].at = "publish" => op[v].new \subseteq Live)'
  BY <1>1 DEF WorkerOK, Grows
<1> QED BY <1>4, <1>5, <1>6, <1>7 DEF WorkerOK

(* A step keeps the invariant when it keeps the shared parts, only adds, and *)
(* leaves the acting worker in order.                                        *)
LEMMA Assemble ==
  ASSUME IInv, NEW w \in Workers, \A v \in Workers \ {w} : op'[v] = op[v], Grows,
         Typed', Leased', EdgesHaveEnds', StampedIsProtected', WorkerOK(w)'
  PROVE  IInv'
<1>1. ASSUME NEW v \in Workers PROVE WorkerOK(v)'
  <2>1. CASE v = w
    BY <2>1
  <2>2. CASE v # w
    BY <2>2, OthersKept
  <2> QED BY <2>1, <2>2
<1> QED BY <1>1 DEF IInv

(* A step that changes nothing but the worker's own locals.                  *)
Local(w, q) ==
  /\ op' = [op EXCEPT ![w] = q]
  /\ UNCHANGED <<row, blank, emb, vec, edges, schema, bare, lease, begun>>

(* The worker's new locals are in order, judged by the unchanged database.   *)
InOrder(q) ==
  /\ Placed(q) /\ RowsThere(q) /\ Embedded(q) /\ Counted(q) /\ Migrated(q)
  /\ q.at = "publish" => q.new \subseteq Live

LEMMA LocalStep ==
  ASSUME IInv, NEW w \in Workers, NEW q \in Operations, Local(w, q),
         op[w].at # "rest", InOrder(q)
  PROVE  IInv'
<1>1. op'[w] = q /\ \A v \in Workers \ {w} : op'[v] = op[v]
  BY DEF Local, IInv, Typed
<1>2. Present' = Present /\ Live' = Live
  BY DEF Local, Present, Live
<1>3. Grows
  BY <1>2 DEF Grows, Local
<1>4. Typed'
  BY DEF IInv, Typed, Local
<1>5. Leased'
  BY <1>1 DEF IInv, Leased, Local
<1>6. EdgesHaveEnds' /\ StampedIsProtected'
  BY <1>2 DEF IInv, EdgesHaveEnds, StampedIsProtected, Local
<1>7. WorkerOK(w)'
  BY <1>1, <1>2
     DEF InOrder, Local, WorkerOK, Placed, RowsThere, Embedded, Counted, Migrated
<1> QED BY <1>1, <1>3, <1>4, <1>5, <1>6, <1>7, Assemble

(* An operation that begins takes its lease.                                 *)
LEMMA BeginStep ==
  ASSUME IInv, NEW w \in Workers, NEW mode \in {"shared", "exclusive"}, NEW q \in Operations,
         Begin(w, mode, q), UNCHANGED <<row, blank, emb, vec, edges, schema, bare>>, InOrder(q)
  PROVE  IInv'
<1>1. op'[w] = q /\ \A v \in Workers \ {w} : op'[v] = op[v]
  BY DEF Begin, IInv, Typed
<1>2. Present' = Present /\ Live' = Live
  BY DEF Present, Live
<1>3. Grows
  BY <1>2 DEF Grows
<1>4. Typed'
  BY DEF IInv, Typed, Begin
<1>5. Leased'
  BY <1>1 DEF IInv, Typed, Leased, Begin, Shareable, Ownable
<1>6. EdgesHaveEnds' /\ StampedIsProtected'
  BY <1>2 DEF IInv, EdgesHaveEnds, StampedIsProtected
<1>7. WorkerOK(w)'
  BY <1>1, <1>2 DEF InOrder, WorkerOK, Placed, RowsThere, Embedded, Counted, Migrated
<1> QED BY <1>1, <1>3, <1>4, <1>5, <1>6, <1>7, Assemble

(* An operation that leaves or dies gives its lease back.                    *)
LEMMA RestStep ==
  ASSUME IInv, NEW w \in Workers, op' = [op EXCEPT ![w] = Resting],
         lease' = [lease EXCEPT ![w] = "none"], UNCHANGED <<row, blank, emb, vec, edges, schema, bare>>
  PROVE  IInv'
<1>1. op'[w] = Resting /\ \A v \in Workers \ {w} : op'[v] = op[v]
  BY DEF IInv, Typed
<1>2. Present' = Present /\ Live' = Live
  BY DEF Present, Live
<1>3. Grows
  BY <1>2 DEF Grows
<1>0. Resting \in Operations
  BY SessionAssumption DEF Resting, Operations, Steps
<1>4. Typed'
  BY <1>0 DEF IInv, Typed
<1>5. Leased'
  BY <1>1 DEF IInv, Typed, Leased, Resting
<1>6. EdgesHaveEnds' /\ StampedIsProtected'
  BY <1>2 DEF IInv, EdgesHaveEnds, StampedIsProtected
<1>7. WorkerOK(w)'
  BY <1>1, <1>2 DEF WorkerOK, Placed, RowsThere, Embedded, Counted, Migrated, Resting, Writing
<1> QED BY <1>1, <1>3, <1>4, <1>5, <1>6, <1>7, Assemble

-----------------------------------------------------------------------------
(* The steps that change a worker's locals only.                             *)

(* Moving on without touching any local but the step.                        *)
LEMMA SettleStep ==
  ASSUME IInv, NEW w \in Workers, NEW at \in Steps, Settle(w, at), op[w].at # "rest",
         UNCHANGED <<row, blank, emb, vec, edges, schema, bare, lease, begun>>,
         InOrder([op[w] EXCEPT !.at = at])
  PROVE  IInv'
<1>1. [op[w] EXCEPT !.at = at] \in Operations
  BY DEF IInv, Typed, Operations
<1>2. Local(w, [op[w] EXCEPT !.at = at])
  BY DEF Local, Settle, IInv, Typed
<1> QED BY <1>1, <1>2, LocalStep

LEMMA SettlingSteps ==
  ASSUME IInv, NEW w \in Workers,
         OpenFails(w) \/ AllRecorded(w) \/ TurnCompletes(w) \/ WalkEnds(w)
  PROVE  IInv'
<1> USE DEF Operations, InOrder, WorkerOK, Placed, RowsThere, Embedded, Counted, Migrated, Writing
<1>0. op[w] \in Operations /\ WorkerOK(w)
  BY DEF IInv, Typed
<1>1. CASE OpenFails(w)
  <2>1. op[w].at \in {"tables", "drop", "stamp"} /\ InOrder([op[w] EXCEPT !.at = "failed"])
    BY <1>0, <1>1 DEF OpenFails
  <2>2. "failed" \in Steps
    BY DEF Steps
  <2> QED BY <1>1, <2>1, <2>2, SettleStep DEF OpenFails, graph
<1>2. CASE AllRecorded(w)
  <2>1. op[w].at = "create" /\ InOrder([op[w] EXCEPT !.at = "embed"])
    BY <1>0, <1>2 DEF AllRecorded
  <2>2. "embed" \in Steps
    BY DEF Steps
  <2> QED BY <1>2, <2>1, <2>2, SettleStep DEF AllRecorded, graph
<1>3. CASE TurnCompletes(w)
  <2>1. op[w].at = "link" /\ InOrder([op[w] EXCEPT !.at = "completed"])
    BY <1>0, <1>3 DEF TurnCompletes
  <2>2. "completed" \in Steps
    BY DEF Steps
  <2> QED BY <1>3, <2>1, <2>2, SettleStep DEF TurnCompletes, graph
<1>4. CASE WalkEnds(w)
  <2>1. op[w].at = "walk" /\ InOrder([op[w] EXCEPT !.at = "details"])
    BY <1>0, <1>4 DEF WalkEnds
  <2>2. "details" \in Steps
    BY DEF Steps
  <2> QED BY <1>4, <2>1, <2>2, SettleStep DEF WalkEnds, graph
<1> QED BY <1>1, <1>2, <1>3, <1>4

(* A recorded node is there; a think cycle may derive it from its cluster.   *)
LEMMA RecordedInOrder ==
  ASSUME IInv, NEW r \in Operations, NEW n \in Present, Placed(r), RowsThere(r), Counted(r),
         r.at \in {"create", "insert"}
  PROVE  Recorded(r, n) \in Operations /\ InOrder(Recorded(r, n))
<1> DEFINE q == Recorded(r, n)
<1>1. n \in Nodes /\ n \in 0..N
  BY SessionAssumption DEF Present, Nodes
<1>2. /\ q.kind = r.kind /\ q.new = r.new \cup {n} /\ q.mine = r.mine /\ q.pend = r.source
      /\ q.source = r.source /\ q.before = r.before /\ q.todo = r.todo \ {n}
      /\ q.at = IF r.kind = "think" THEN "edge" ELSE "create"
      /\ q.cur = IF r.kind = "think" THEN n ELSE 0
  BY DEF Recorded, Operations
<1>5. q \in Operations
  <2>1. /\ r.new \cup {n} \in SUBSET Nodes /\ r.todo \ {n} \in SUBSET Nodes
        /\ r.source \in SUBSET Nodes
        /\ (IF r.kind = "think" THEN n ELSE 0) \in 0..N
        /\ (IF r.kind = "think" THEN "edge" ELSE "create") \in Steps
    BY <1>1, SessionAssumption DEF Operations, Steps
  <2> QED BY <2>1 DEF Recorded, Operations
<1> HIDE DEF q
<1>3. r.kind \in {"turn", "think"}
  BY DEF Placed, Writing
<1>4. Placed(q) /\ RowsThere(q) /\ Embedded(q) /\ Counted(q) /\ Migrated(q)
  BY <1>2, <1>3 DEF Placed, RowsThere, Embedded, Counted, Migrated, Writing
<1> QED BY <1>2, <1>4, <1>5 DEF InOrder, q

LEMMA LookUpNodeStep ==
  ASSUME IInv, NEW w \in Workers, LookUpNode(w)
  PROVE  IInv'
<1>0. op[w] \in Operations /\ WorkerOK(w) /\ op[w].at = "create"
  BY DEF IInv, Typed, LookUpNode
<1>1. PICK n \in op[w].todo :
        op' = [op EXCEPT ![w] = IF n \in Present THEN Recorded(op[w], n)
                                ELSE [op[w] EXCEPT !.cur = n, !.at = "insert"]]
  BY DEF LookUpNode, IInv, Typed
<1>2. n \in Nodes /\ n \in 0..N
  BY <1>0, SessionAssumption DEF Operations, Nodes
<1>3. CASE n \in Present
  <2>1. Recorded(op[w], n) \in Operations /\ InOrder(Recorded(op[w], n))
    BY <1>0, <1>3, RecordedInOrder DEF WorkerOK
  <2>2. Local(w, Recorded(op[w], n))
    BY <1>1, <1>3 DEF Local, LookUpNode, graph
  <2> QED BY <1>0, <2>1, <2>2, LocalStep
<1>4. CASE n \notin Present
  <2> DEFINE q == [op[w] EXCEPT !.cur = n, !.at = "insert"]
  <2>1. q \in Operations /\ InOrder(q)
    BY <1>0, <1>2
       DEF Operations, Steps, InOrder, WorkerOK, Placed, RowsThere, Embedded, Counted, Migrated,
           Writing
  <2>2. Local(w, q)
    BY <1>1, <1>4 DEF Local, LookUpNode, graph
  <2> HIDE DEF q
  <2> QED BY <1>0, <2>1, <2>2, LocalStep
<1> QED BY <1>3, <1>4

LEMMA SelectStep ==
  ASSUME IInv, NEW w \in Workers, SelectUnembedded(w)
  PROVE  IInv'
<1> DEFINE q == [op[w] EXCEPT !.pend = Live \ (emb \cup blank), !.at = "encode"]
<1>0. op[w] \in Operations /\ WorkerOK(w) /\ op[w].at = "embed"
  BY DEF IInv, Typed, SelectUnembedded
<1>1. Live \subseteq Present /\ Live \subseteq Nodes
  BY DEF Live, Present
<1>2. q \in Operations /\ InOrder(q)
  BY <1>0, <1>1
     DEF Operations, Steps, InOrder, WorkerOK, Placed, RowsThere, Embedded, Counted, Migrated,
         Writing
<1>3. Local(w, q)
  BY DEF Local, SelectUnembedded, graph, IInv, Typed, Operations
<1> HIDE DEF q
<1> QED BY <1>0, <1>2, <1>3, LocalStep

LEMMA FindSimilarStep ==
  ASSUME IInv, NEW w \in Workers, FindSimilar(w)
  PROVE  IInv'
<1>0. op[w] \in Operations /\ WorkerOK(w) /\ op[w].at = "link"
  BY DEF IInv, Typed, FindSimilar
<1>1. PICK n \in op[w].todo, near \in SUBSET Live :
        op' = [op EXCEPT ![w].cur = n, ![w].todo = @ \ {n}, ![w].pend = near, ![w].at = "edge"]
  BY DEF FindSimilar, Searches
<1> DEFINE q == [op[w] EXCEPT !.cur = n, !.todo = @ \ {n}, !.pend = near, !.at = "edge"]
<1>2. n \in Nodes /\ n \in 0..N
  BY <1>0, SessionAssumption DEF Operations, Nodes
<1>3. near \subseteq Present /\ near \subseteq Nodes
  BY DEF Live, Present
<1>4. n \in Present
  BY <1>0 DEF WorkerOK, RowsThere, Placed
<1>5. q \in Operations /\ InOrder(q)
  BY <1>0, <1>2, <1>3, <1>4
     DEF Operations, Steps, InOrder, WorkerOK, Placed, RowsThere, Embedded, Counted, Migrated,
         Writing
<1>6. Local(w, q)
  BY <1>1 DEF Local, FindSimilar, graph, IInv, Typed, Operations
<1> HIDE DEF q
<1> QED BY <1>0, <1>5, <1>6, LocalStep

LEMMA LookUpEdgeStep ==
  ASSUME IInv, NEW w \in Workers, LookUpEdge(w)
  PROVE  IInv'
<1>0. op[w] \in Operations /\ WorkerOK(w) /\ op[w].at = "edge"
  BY DEF IInv, Typed, LookUpEdge
<1>1. PICK p \in op[w].pend :
        op' = [op EXCEPT ![w].pend = @ \ {p},
                         ![w].peer = IF <<p, op[w].cur>> \in edges THEN @ ELSE p,
                         ![w].at = IF <<p, op[w].cur>> \in edges THEN @ ELSE "join"]
  BY DEF LookUpEdge
<1>2. p \in Nodes /\ p \in 0..N /\ p \in Present
  BY <1>0, SessionAssumption DEF Operations, Nodes, WorkerOK, RowsThere
<1> DEFINE found == <<p, op[w].cur>> \in edges
           q == [op[w] EXCEPT !.pend = @ \ {p}, !.peer = IF found THEN @ ELSE p,
                              !.at = IF found THEN @ ELSE "join"]
<1>3. Local(w, q)
  BY <1>0, <1>1 DEF Local, LookUpEdge, graph, IInv, Typed, Operations
<1> HIDE DEF found
<1>4. q \in Operations
  BY <1>0, <1>2 DEF Operations, Steps
<1>5. /\ q.pend = op[w].pend \ {p} /\ q.kind = op[w].kind
      /\ q.new = op[w].new /\ q.mine = op[w].mine /\ q.source = op[w].source
      /\ q.cur = op[w].cur /\ q.todo = op[w].todo /\ q.before = op[w].before
      /\ q.missed = op[w].missed
      /\ q.at = "edge" \/ (q.at = "join" /\ q.peer = p)
  BY <1>0 DEF Operations
<1> HIDE DEF q
<1>6. InOrder(q)
  BY <1>0, <1>2, <1>5
     DEF InOrder, WorkerOK, Placed, RowsThere, Embedded, Counted, Migrated, Writing
<1> QED BY <1>0, <1>3, <1>4, <1>6, LocalStep

LEMMA NodeLinkedStep ==
  ASSUME IInv, NEW w \in Workers, NodeLinked(w)
  PROVE  IInv'
<1> DEFINE q == [op[w] EXCEPT !.cur = 0, !.at = IF op[w].kind = "think" THEN "create" ELSE "link"]
<1>0. op[w] \in Operations /\ WorkerOK(w) /\ op[w].at = "edge"
  BY DEF IInv, Typed, NodeLinked
<1>1. q \in Operations
  <2>1. (IF op[w].kind = "think" THEN "create" ELSE "link") \in Steps /\ 0 \in 0..N
    BY SessionAssumption DEF Steps
  <2> QED BY <1>0, <2>1 DEF Operations
<1>2. Local(w, q)
  BY DEF Local, NodeLinked, graph, IInv, Typed, Operations
<1>3. /\ q.at = (IF op[w].kind = "think" THEN "create" ELSE "link") /\ q.kind = op[w].kind
      /\ q.new = op[w].new /\ q.mine = op[w].mine /\ q.source = op[w].source
      /\ q.todo = op[w].todo /\ q.before = op[w].before /\ q.missed = op[w].missed
  BY <1>0 DEF Operations
<1> HIDE DEF q
<1>4. InOrder(q)
  BY <1>0, <1>3
     DEF InOrder, WorkerOK, Placed, RowsThere, Embedded, Counted, Migrated, Writing
<1> QED BY <1>0, <1>1, <1>2, <1>4, LocalStep

(* The rows are counted again: a turn whose own rows are among them is told  *)
(* from one that got nowhere.                                                *)
LEMMA TurnFailsStep ==
  ASSUME IInv, NEW w \in Workers, TurnFails(w)
  PROVE  IInv'
<1>0. op[w] \in Operations /\ WorkerOK(w) /\ op[w].kind = "turn" /\ op[w].at # "rest"
  BY DEF IInv, Typed, TurnFails, Collides, Raises
<1>1. PICK counted \in BOOLEAN :
        op' = [op EXCEPT ![w] =
                 LET r == [op[w] EXCEPT !.before = IF counted THEN @ ELSE Unknown]
                     grown == r.before # Unknown /\ Cardinality(Present) > r.before
                 IN Ended(r, IF grown THEN "partial" ELSE "uncertain")]
  BY DEF TurnFails
<1> DEFINE r == [op[w] EXCEPT !.before = IF counted THEN @ ELSE Unknown]
           grown == r.before # Unknown /\ Cardinality(Present) > r.before
           q == Ended(r, IF grown THEN "partial" ELSE "uncertain")
<1>2. Local(w, q)
  BY <1>1 DEF Local, TurnFails, graph
<1>3. /\ r \in Operations /\ r.kind = "turn" /\ r.new = op[w].new /\ r.mine = op[w].mine
      /\ r.before = op[w].before \/ r.before = Unknown
  BY <1>0 DEF Operations, Unknown
<1> HIDE DEF r
<1>4. /\ q.kind = "turn" /\ q.new = r.new /\ q.mine = r.mine /\ q.before = r.before
      /\ q.at = (IF grown THEN "partial" ELSE "uncertain") /\ q.source = {}
  BY <1>3 DEF Ended, Resting
<1>5. q \in Operations
  <2>1. (IF grown THEN "partial" ELSE "uncertain") \in Steps /\ 0 \in 0..N
    BY SessionAssumption DEF Steps
  <2> QED BY <1>3, <2>1 DEF Ended, Resting, Operations
<1> HIDE DEF q
<1>6. Placed(q) /\ RowsThere(q) /\ Embedded(q) /\ Migrated(q)
  BY <1>0, <1>3, <1>4 DEF WorkerOK, Placed, RowsThere, Embedded, Migrated, Writing
<1>7. r.before # Unknown => r.before + Cardinality(r.mine) <= Cardinality(Present)
  BY <1>0, <1>3 DEF WorkerOK, Counted
<1>8. ASSUME ~grown, r.before # Unknown PROVE r.mine = {}
  <2>1. /\ IsFiniteSet(r.mine) /\ Cardinality(r.mine) \in Nat
        /\ Cardinality(Present) \in Nat /\ r.before \in Int
    <3>1. r.mine \in SUBSET Nodes
      BY <1>3 DEF Operations
    <3> QED BY <1>3, <3>1, NodesFinite, PresentFinite DEF Operations
  <2>2. Cardinality(r.mine) = 0
    BY <1>7, <1>8, <2>1
  <2> QED BY <2>1, <2>2, FS_EmptySet
<1>9. Counted(q)
  BY <1>4, <1>7, <1>8 DEF Counted
<1>10. InOrder(q)
  BY <1>4, <1>6, <1>9 DEF InOrder
<1> QED BY <1>0, <1>2, <1>5, <1>10, LocalStep

LEMMA ThinkFailsStep ==
  ASSUME IInv, NEW w \in Workers, ThinkFails(w)
  PROVE  IInv'
<1> DEFINE q == Ended(op[w], "failed")
<1>0. op[w] \in Operations /\ WorkerOK(w) /\ op[w].kind = "think" /\ op[w].at # "rest"
  BY DEF IInv, Typed, ThinkFails, Raises
<1>1. Local(w, q)
  BY DEF Local, ThinkFails, graph
<1>2. /\ q.kind = "think" /\ q.new = op[w].new /\ q.mine = op[w].mine /\ q.at = "failed"
      /\ q.source = {}
  BY <1>0 DEF Ended, Resting
<1>3. q \in Operations
  <2>1. "failed" \in Steps /\ 0 \in 0..N
    BY SessionAssumption DEF Steps
  <2> QED BY <1>0, <2>1 DEF Ended, Resting, Operations
<1> HIDE DEF q
<1>4. InOrder(q)
  BY <1>0, <1>2
     DEF InOrder, WorkerOK, Placed, RowsThere, Embedded, Counted, Migrated, Writing
<1> QED BY <1>0, <1>1, <1>3, <1>4, LocalStep

LEMMA WalkHopStep ==
  ASSUME IInv, NEW w \in Workers, WalkHop(w)
  PROVE  IInv'
<1>0. op[w] \in Operations /\ WorkerOK(w) /\ op[w].at = "walk"
  BY DEF IInv, Typed, WalkHop
<1>1. PICK picks \in SUBSET (Neighbours(op[w].pend) \ op[w].new) :
        op' = [op EXCEPT ![w].new = @ \cup picks, ![w].pend = picks, ![w].before = @ + 1]
  BY DEF WalkHop
<1> DEFINE q == [op[w] EXCEPT !.new = @ \cup picks, !.pend = picks, !.before = @ + 1]
<1>2. picks \in SUBSET Nodes
  BY DEF Neighbours
<1>3. q \in Operations
  <2>1. op[w].new \cup picks \in SUBSET Nodes /\ op[w].before + 1 \in Int
    BY <1>0, <1>2 DEF Operations
  <2> QED BY <1>0, <1>2, <2>1 DEF Operations
<1>4. Local(w, q)
  BY <1>1 DEF Local, WalkHop, graph, IInv, Typed, Operations
<1>5. q.at = "walk" /\ q.kind = "recall"
  BY <1>0 DEF Operations, WorkerOK, Placed
<1> HIDE DEF q
<1>6. InOrder(q)
  BY <1>5 DEF InOrder, Placed, RowsThere, Embedded, Counted, Migrated, Writing
<1> QED BY <1>0, <1>3, <1>4, <1>6, LocalStep

LEMMA LoadStep ==
  ASSUME IInv, NEW w \in Workers, LoadNodeDetails(w)
  PROVE  IInv'
<1> DEFINE q == [op[w] EXCEPT !.new = @ \cap Live, !.at = "publish"]
<1>0. op[w] \in Operations /\ WorkerOK(w) /\ op[w].at = "details"
  BY DEF IInv, Typed, LoadNodeDetails
<1>1. q \in Operations
  BY <1>0 DEF Operations, Steps
<1>2. Local(w, q)
  BY DEF Local, LoadNodeDetails, graph, IInv, Typed, Operations
<1>3. q.at = "publish" /\ q.kind = "recall" /\ q.new \subseteq Live
  BY <1>0 DEF Operations, WorkerOK, Placed
<1> HIDE DEF q
<1>4. InOrder(q)
  BY <1>3 DEF InOrder, Placed, RowsThere, Embedded, Counted, Migrated, Writing
<1> QED BY <1>0, <1>1, <1>2, <1>4, LocalStep

-----------------------------------------------------------------------------
(* The steps that write to the database.                                     *)

(* The statements of _ensure_schema.                                         *)
LEMMA SchemaStep ==
  ASSUME IInv, NEW w \in Workers,
         ApplyV1(w) \/ AddLegacyColumns(w) \/ DropConfidence(w) \/ BackfillAndStamp(w)
  PROVE  IInv'
<1>0. op[w] \in Operations /\ WorkerOK(w) /\ op[w].at \in {"tables", "columns", "drop", "stamp"}
  BY DEF IInv, Typed, ApplyV1, AddLegacyColumns, DropConfidence, BackfillAndStamp
<1>1. PICK at \in {"columns", "drop", "stamp", "completed"} :
        /\ Settle(w, at)
        /\ op[w].at = "tables" => at = "columns" /\ "tables" \in schema'.made
        /\ op[w].at = "columns" => at = "drop"
        /\ op[w].at = "drop" => at = "stamp" /\ "dropped" \in schema'.made
        /\ op[w].at = "stamp" => at = "completed"
        /\ schema' \in [made : SUBSET Ddl, version : {0, 3}]
        /\ schema.made \subseteq schema'.made
        /\ bare' \subseteq bare
        /\ schema'.version = schema.version
             \/ (op[w].at = "stamp" /\ "permanent" \in schema.made /\ bare' = {})
        /\ UNCHANGED <<row, blank, emb, vec, edges, lease>>
  <2>1. schema \in [made : SUBSET Ddl, version : {0, 3}] /\ Ddl = {"tables", "permanent", "other", "dropped"}
    BY DEF IInv, Typed, Ddl
  <2>2. CASE ApplyV1(w)
    BY <2>1, <2>2 DEF ApplyV1, graph
  <2>3. CASE AddLegacyColumns(w)
    BY <2>1, <2>3 DEF AddLegacyColumns, graph
  <2>4. CASE DropConfidence(w)
    BY <2>1, <2>4 DEF DropConfidence, graph
  <2>5. CASE BackfillAndStamp(w)
    BY <2>1, <2>5 DEF BackfillAndStamp, graph
  <2> QED BY <2>2, <2>3, <2>4, <2>5
<1>2. /\ op'[w] = [op[w] EXCEPT !.at = at] /\ \A v \in Workers \ {w} : op'[v] = op[v]
      /\ op' \in [Workers -> Operations]
  <2>1. at \in Steps
    BY DEF Steps
  <2>2. [op[w] EXCEPT !.at = at] \in Operations
    BY <1>0, <2>1 DEF Operations
  <2>3. op' = [op EXCEPT ![w] = [op[w] EXCEPT !.at = at]]
    BY <1>1 DEF Settle, IInv, Typed
  <2> QED BY <2>2, <2>3 DEF IInv, Typed
<1>3. Present' = Present /\ Live' = Live
  BY <1>1 DEF Present, Live
<1>4. Grows
  BY <1>1, <1>3 DEF Grows
<1>5. Typed'
  BY <1>1, <1>2 DEF IInv, Typed
<1>6. Leased'
  BY <1>0, <1>1, <1>2 DEF IInv, Leased
<1>7. EdgesHaveEnds'
  BY <1>1, <1>3 DEF IInv, EdgesHaveEnds
<1>8. StampedIsProtected'
  BY <1>0, <1>1 DEF IInv, StampedIsProtected, WorkerOK, Migrated
<1>9. WorkerOK(w)'
  <2>1. /\ op'[w].at = at /\ op'[w].kind = "open" /\ op'[w].new = {}
    BY <1>0, <1>2 DEF Operations, WorkerOK, Placed
  <2>2. Migrated(op[w])'
    BY <1>0, <1>1, <2>1 DEF WorkerOK, Migrated
  <2> QED BY <2>1, <2>2 DEF WorkerOK, Placed, RowsThere, Embedded, Counted, Writing
<1> QED BY <1>2, <1>4, <1>5, <1>6, <1>7, <1>8, <1>9, Assemble

(* A new row: nobody relied on its absence but the one who looked it up.     *)
LEMMA InsertNodeStep ==
  ASSUME IInv, NEW w \in Workers, InsertNode(w)
  PROVE  IInv'
<1> DEFINE n == op[w].cur
           r == [op[w] EXCEPT !.mine = @ \cup {n}]
           q == Recorded(r, n)
<1>0. op[w] \in Operations /\ WorkerOK(w) /\ op[w].at = "insert" /\ n \notin Present
  BY DEF IInv, Typed, InsertNode
<1>1. n \in Nodes /\ n \in 0..N
  BY <1>0 DEF WorkerOK, RowsThere, Operations
<1>2. /\ row' = [row EXCEPT ![n] = "active"] /\ op' = [op EXCEPT ![w] = q]
      /\ UNCHANGED <<blank, emb, vec, edges, schema, bare, lease>>
  BY DEF InsertNode
<1>3. r \in Operations /\ r.kind = op[w].kind /\ r.mine = op[w].mine \cup {n}
      /\ r.new = op[w].new /\ r.source = op[w].source /\ r.before = op[w].before
      /\ r.todo = op[w].todo
  BY <1>0, <1>1 DEF Operations
<1>4. Present' = Present \cup {n} /\ Live' = Live \cup {n}
  BY <1>0, <1>1, <1>2 DEF IInv, Typed, Present, Live
<1>5. Grows
  BY <1>0, <1>2, <1>4 DEF Grows
<1> HIDE DEF r
<1>6. /\ q.kind = r.kind /\ q.new = r.new \cup {n} /\ q.mine = r.mine /\ q.pend = r.source
      /\ q.source = r.source /\ q.before = r.before
      /\ q.at = (IF r.kind = "think" THEN "edge" ELSE "create")
      /\ q.cur = (IF r.kind = "think" THEN n ELSE 0)
  BY <1>3 DEF Recorded, Operations
<1>7. q \in Operations
  <2>1. /\ r.new \cup {n} \in SUBSET Nodes /\ r.todo \ {n} \in SUBSET Nodes
        /\ r.source \in SUBSET Nodes
        /\ (IF r.kind = "think" THEN n ELSE 0) \in 0..N
        /\ (IF r.kind = "think" THEN "edge" ELSE "create") \in Steps
    BY <1>1, <1>3, SessionAssumption DEF Operations, Steps
  <2> QED BY <1>3, <2>1 DEF Recorded, Operations
<1> HIDE DEF n, q
<1>8. op'[w] = q /\ \A v \in Workers \ {w} : op'[v] = op[v]
  BY <1>2 DEF IInv, Typed
<1>9. Typed'
  BY <1>1, <1>2, <1>7 DEF IInv, Typed
<1>10. Leased'
  BY <1>0, <1>2, <1>8 DEF IInv, Leased
<1>11. EdgesHaveEnds' /\ StampedIsProtected'
  BY <1>2, <1>4 DEF IInv, EdgesHaveEnds, StampedIsProtected
<1>12. r.kind \in {"turn", "think"}
  BY <1>0, <1>3 DEF WorkerOK, Placed, Writing
<1>13. Counted(op[w])'
  <2>1. /\ IsFiniteSet(op[w].mine) /\ Cardinality(op[w].mine) \in Nat /\ op[w].before \in Int
        /\ n \notin op[w].mine
    <3>1. op[w].mine \in SUBSET Nodes
      BY <1>0 DEF Operations
    <3>2. n \notin op[w].mine
      BY <1>0, <1>3, <1>12 DEF WorkerOK, RowsThere
    <3> QED BY <1>0, <3>1, <3>2, NodesFinite DEF Operations
  <2>2. Cardinality(r.mine) = Cardinality(op[w].mine) + 1
    BY <1>3, <2>1, FS_AddElement
  <2>3. Cardinality(Present') = Cardinality(Present) + 1
    BY <1>0, <1>4, PresentFinite, FS_AddElement
  <2>4. r.kind = "turn" /\ r.before # Unknown =>
          r.before + Cardinality(r.mine) <= Cardinality(Present')
    BY <1>0, <1>3, <2>1, <2>2, <2>3, PresentFinite DEF WorkerOK, Counted
  <2> QED BY <1>6, <1>8, <2>4 DEF Counted
<1>14. RowsThere(op[w])'
  BY <1>0, <1>3, <1>4, <1>6, <1>8, <1>12 DEF WorkerOK, RowsThere
<1>15. WorkerOK(w)'
  BY <1>6, <1>8, <1>12, <1>13, <1>14 DEF WorkerOK, Placed, Embedded, Migrated, Writing
<1> QED BY <1>5, <1>8, <1>9, <1>10, <1>11, <1>15, Assemble

(* The batch of embed_nodes is stored or passed over.                        *)
LEMMA StoreStep ==
  ASSUME IInv, NEW w \in Workers, StoreEmbeddings(w)
  PROVE  IInv'
<1>0. op[w] \in Operations /\ WorkerOK(w) /\ op[w].at = "encode"
  BY DEF IInv, Typed, StoreEmbeddings
<1>1. PICK stored \in SUBSET op[w].pend :
        /\ emb' = emb \cup stored
        /\ vec' \subseteq vec \cup stored
        /\ op' = [op EXCEPT ![w].missed = op[w].pend \ stored, ![w].pend = {},
                            ![w].todo = op[w].new,
                            ![w].at = IF op[w].kind = "turn" THEN "link" ELSE "completed"]
        /\ UNCHANGED <<row, blank, edges, schema, bare, lease>>
  BY DEF StoreEmbeddings
<1> DEFINE at == IF op[w].kind = "turn" THEN "link" ELSE "completed"
           q == [op[w] EXCEPT !.missed = op[w].pend \ stored, !.pend = {},
                              !.todo = op[w].new, !.at = at]
<1>2. op' = [op EXCEPT ![w] = q]
  BY <1>1 DEF IInv, Typed, Operations
<1>3. q \in Operations
  <2>1. at \in Steps /\ op[w].pend \ stored \in SUBSET Nodes
    BY <1>0 DEF Steps, Operations
  <2> HIDE DEF at
  <2> QED BY <1>0, <2>1 DEF Operations
<1>4. /\ q.missed = op[w].pend \ stored /\ q.todo = op[w].new /\ q.at = at /\ q.kind = op[w].kind
      /\ q.new = op[w].new /\ q.mine = op[w].mine /\ q.source = op[w].source
      /\ q.before = op[w].before
  BY <1>0 DEF Operations
<1> HIDE DEF q
<1>5. op'[w] = q /\ \A v \in Workers \ {w} : op'[v] = op[v]
  BY <1>2 DEF IInv, Typed
<1>6. Present' = Present /\ Live' = Live
  BY <1>1 DEF Present, Live
<1>7. op[w].pend \subseteq Present /\ Present \subseteq Nodes
  BY <1>0 DEF WorkerOK, RowsThere, Present
<1>8. Grows
  BY <1>1, <1>6 DEF Grows
<1>9. Typed'
  <2>1. emb' \subseteq Nodes /\ vec' \subseteq Nodes
    BY <1>1, <1>7 DEF IInv, Typed
  <2>2. op' \in [Workers -> Operations]
    BY <1>2, <1>3 DEF IInv, Typed
  <2>3. UNCHANGED <<row, blank, edges, schema, bare, lease>>
    BY <1>1
  <2> QED BY <2>1, <2>2, <2>3 DEF IInv, Typed
<1>10. Leased'
  BY <1>0, <1>1, <1>5 DEF IInv, Leased
<1>11. EdgesHaveEnds' /\ StampedIsProtected'
  BY <1>1, <1>6, <1>7 DEF IInv, EdgesHaveEnds, StampedIsProtected
<1>12. op[w].kind \in {"turn", "think"}
  BY <1>0 DEF WorkerOK, Placed, Writing
<1>13. (op[w].new \cap Live) \ blank \subseteq emb' \cup (op[w].pend \ stored)
  BY <1>0, <1>1 DEF WorkerOK, Embedded
<1>14. Embedded(op[w])'
  <2>1. /\ op'[w].at # "encode" /\ op'[w].new = op[w].new
        /\ op'[w].missed = op[w].pend \ stored
    BY <1>4, <1>5
  <2>2. (op'[w].new \cap Live') \ blank' \subseteq emb' \cup op'[w].missed
    BY <1>1, <1>6, <1>13, <2>1
  <2> QED BY <2>1, <2>2 DEF Embedded
<1>15. RowsThere(op[w])' /\ Counted(op[w])'
  BY <1>0, <1>4, <1>5, <1>6, <1>12 DEF WorkerOK, RowsThere, Counted
<1>16. WorkerOK(w)'
  BY <1>4, <1>5, <1>12, <1>14, <1>15 DEF WorkerOK, Placed, Migrated, Writing
<1> QED BY <1>5, <1>8, <1>9, <1>10, <1>11, <1>16, Assemble

(* A new edge between rows that were read under the lease.                   *)
LEMMA InsertEdgeStep ==
  ASSUME IInv, NEW w \in Workers, InsertEdge(w)
  PROVE  IInv'
<1> DEFINE q == [op[w] EXCEPT !.peer = 0, !.at = "edge"]
<1>0. op[w] \in Operations /\ WorkerOK(w) /\ op[w].at = "join"
  BY DEF IInv, Typed, InsertEdge
<1>1. /\ edges' = edges \cup {<<op[w].peer, op[w].cur>>} /\ op' = [op EXCEPT ![w] = q]
      /\ UNCHANGED <<row, blank, emb, vec, schema, bare, lease>>
  BY DEF InsertEdge, IInv, Typed, Operations
<1>2. q \in Operations
  <2>1. "edge" \in Steps /\ 0 \in 0..N
    BY SessionAssumption DEF Steps
  <2> QED BY <1>0, <2>1 DEF Operations
<1>3. /\ q.at = "edge" /\ q.kind = op[w].kind /\ q.cur = op[w].cur /\ q.pend = op[w].pend
      /\ q.new = op[w].new /\ q.mine = op[w].mine /\ q.source = op[w].source
      /\ q.todo = op[w].todo /\ q.before = op[w].before /\ q.missed = op[w].missed
  BY <1>0 DEF Operations
<1> HIDE DEF q
<1>4. op'[w] = q /\ \A v \in Workers \ {w} : op'[v] = op[v]
  BY <1>1 DEF IInv, Typed
<1>5. Present' = Present /\ Live' = Live
  BY <1>1 DEF Present, Live
<1>6. op[w].peer \in Present /\ op[w].cur \in Present /\ Present \subseteq Nodes
  BY <1>0 DEF WorkerOK, RowsThere, Present
<1>7. Grows
  BY <1>1, <1>5 DEF Grows
<1>8. Typed'
  BY <1>1, <1>2, <1>6 DEF IInv, Typed
<1>9. Leased'
  BY <1>0, <1>1, <1>4 DEF IInv, Leased
<1>10. EdgesHaveEnds' /\ StampedIsProtected'
  BY <1>1, <1>5, <1>6 DEF IInv, EdgesHaveEnds, StampedIsProtected
<1>11. WorkerOK(w)'
  BY <1>0, <1>1, <1>3, <1>4, <1>5
     DEF WorkerOK, Placed, RowsThere, Embedded, Counted, Migrated, Writing
<1> QED BY <1>4, <1>7, <1>8, <1>9, <1>10, <1>11, Assemble

(* Maintenance forgets a node while nobody holds a lease.                    *)
LEMMA ForgetStep ==
  ASSUME IInv, NEW n \in Nodes, Forget(n)
  PROVE  IInv'
<1>1. \A w \in Workers : op[w].at = "rest" /\ op'[w] = op[w]
  BY DEF IInv, Leased, Forget, Ownable
<1>2. Typed'
  BY DEF IInv, Typed, Forget
<1>3. Leased' /\ StampedIsProtected'
  BY DEF IInv, Leased, StampedIsProtected, Forget
<1>4. EdgesHaveEnds'
  <2>1. CASE row' = [row EXCEPT ![n] = "decayed"] /\ UNCHANGED <<emb, edges>>
    <3>1. Present' = Present
      BY <2>1 DEF Forget, Present, IInv, Typed
    <3> QED BY <2>1, <3>1 DEF IInv, EdgesHaveEnds
  <2>2. CASE /\ row' = [row EXCEPT ![n] = "absent"] /\ emb' = emb \ {n}
             /\ edges' = {e \in edges : n \notin {e[1], e[2]}}
    <3>1. Present' = Present \ {n}
      BY <2>2 DEF Present, IInv, Typed
    <3> QED BY <2>2, <3>1 DEF IInv, EdgesHaveEnds
  <2> QED BY <2>1, <2>2 DEF Forget
<1>5. ASSUME NEW w \in Workers PROVE WorkerOK(w)'
  <2>1. op[w] \in Operations /\ WorkerOK(w)
    BY DEF IInv, Typed
  <2>2. op[w].kind = "none"
    BY <1>1, <2>1 DEF WorkerOK, Placed
  <2> QED BY <1>1, <2>1, <2>2
          DEF WorkerOK, Placed, RowsThere, Embedded, Counted, Migrated, Writing
<1> QED BY <1>2, <1>3, <1>4, <1>5 DEF IInv

-----------------------------------------------------------------------------
(* The inductive invariant.                                                  *)

LEMMA RestingInOrder == Resting \in Operations /\ 0 \in 0..N
BY SessionAssumption DEF Resting, Operations, Steps

LEMMA BeginningSteps ==
  ASSUME IInv, NEW w \in Workers,
         BeginOpen(w) \/ BeginTurn(w) \/ BeginThink(w) \/ BeginRecall(w)
  PROVE  IInv'
<1> USE DEF InOrder, Placed, RowsThere, Embedded, Counted, Migrated, Writing
<1>1. CASE BeginOpen(w)
  <2> DEFINE q == [Resting EXCEPT !.kind = "open", !.at = "tables"]
  <2>1. q \in Operations /\ InOrder(q)
    BY RestingInOrder DEF Resting, Operations, Steps
  <2>2. Begin(w, "exclusive", q) /\ UNCHANGED <<row, blank, emb, vec, edges, schema, bare>>
    BY <1>1 DEF BeginOpen, graph
  <2> HIDE DEF q
  <2> QED BY <2>1, <2>2, BeginStep
<1>2. CASE BeginTurn(w)
  <2>1. PICK said \in SUBSET Nodes, n \in {Cardinality(Present), Unknown} :
          Begin(w, "shared", [Resting EXCEPT !.kind = "turn", !.at = "create", !.todo = said,
                                             !.before = n])
    BY <1>2 DEF BeginTurn
  <2> DEFINE q == [Resting EXCEPT !.kind = "turn", !.at = "create", !.todo = said, !.before = n]
  <2>2. n \in Int
    BY PresentFinite DEF Unknown
  <2>3. q \in Operations
    BY <2>2, RestingInOrder DEF Resting, Operations, Steps
  <2>4. /\ q.kind = "turn" /\ q.at = "create" /\ q.new = {} /\ q.mine = {} /\ q.source = {}
        /\ q.before = n
    BY DEF Resting
  <2>5. n # Unknown => n + Cardinality({}) <= Cardinality(Present)
    BY FS_EmptySet, PresentFinite
  <2> HIDE DEF q
  <2>6. InOrder(q)
    BY <2>4, <2>5
  <2>7. Begin(w, "shared", q) /\ UNCHANGED <<row, blank, emb, vec, edges, schema, bare>>
    BY <1>2, <2>1 DEF BeginTurn, graph, q
  <2> QED BY <2>3, <2>6, <2>7, BeginStep
<1>3. CASE BeginThink(w)
  <2>1. PICK S \in SUBSET Live, insights \in SUBSET Nodes :
          Begin(w, "exclusive", [Resting EXCEPT !.kind = "think", !.at = "create",
                                                !.source = S, !.todo = insights])
    BY <1>3 DEF BeginThink, Cluster
  <2> DEFINE q == [Resting EXCEPT !.kind = "think", !.at = "create", !.source = S, !.todo = insights]
  <2>2. S \subseteq Present /\ S \in SUBSET Nodes
    BY DEF Live, Present
  <2>3. q \in Operations
    BY <2>2, RestingInOrder DEF Resting, Operations, Steps
  <2>4. q.kind = "think" /\ q.at = "create" /\ q.new = {} /\ q.mine = {} /\ q.source = S
    BY DEF Resting
  <2> HIDE DEF q
  <2>5. InOrder(q)
    BY <2>2, <2>4
  <2>6. Begin(w, "exclusive", q) /\ UNCHANGED <<row, blank, emb, vec, edges, schema, bare>>
    BY <1>3, <2>1 DEF BeginThink, graph, q
  <2> QED BY <2>3, <2>5, <2>6, BeginStep
<1>4. CASE BeginRecall(w)
  <2>1. PICK seeds \in SUBSET Live :
          Begin(w, "shared", [Resting EXCEPT !.kind = "recall", !.at = "walk",
                                             !.new = seeds, !.pend = seeds])
    BY <1>4 DEF BeginRecall, Searches
  <2> DEFINE q == [Resting EXCEPT !.kind = "recall", !.at = "walk", !.new = seeds, !.pend = seeds]
  <2>2. seeds \in SUBSET Nodes
    BY DEF Live
  <2>3. q \in Operations
    BY <2>2, RestingInOrder DEF Resting, Operations, Steps
  <2>4. q.kind = "recall" /\ q.at = "walk"
    BY DEF Resting
  <2> HIDE DEF q
  <2>5. InOrder(q)
    BY <2>4
  <2>6. Begin(w, "shared", q) /\ UNCHANGED <<row, blank, emb, vec, edges, schema, bare>>
    BY <1>4, <2>1 DEF BeginRecall, graph, q
  <2> QED BY <2>3, <2>5, <2>6, BeginStep
<1> QED BY <1>1, <1>2, <1>3, <1>4

LEMMA InitIInv == Init => IInv
<1> SUFFICES ASSUME Init PROVE IInv
  OBVIOUS
<1>1. Typed
  BY RestingInOrder, SessionAssumption DEF Init, Typed, Ddl, Nodes
<1>2. Leased /\ EdgesHaveEnds /\ StampedIsProtected
  BY DEF Init, Leased, EdgesHaveEnds, StampedIsProtected, Resting, Ddl
<1>3. ASSUME NEW w \in Workers PROVE WorkerOK(w)
  <2>1. op[w] = Resting
    BY DEF Init
  <2> QED BY <2>1
          DEF WorkerOK, Placed, RowsThere, Embedded, Counted, Migrated, Writing, Resting
<1> QED BY <1>1, <1>2, <1>3 DEF IInv

LEMMA StepIInv == IInv /\ [Next]_vars => IInv'
<1> SUFFICES ASSUME IInv, [Next]_vars PROVE IInv'
  OBVIOUS
<1>1. ASSUME NEW w \in Workers, Leave(w) \/ Death(w) PROVE IInv'
  BY <1>1, RestStep DEF Leave, Death, graph
<1>2. CASE UNCHANGED vars
  <2>1. Present' = Present /\ Live' = Live
    BY <1>2 DEF vars, Present, Live
  <2>2. Typed' /\ Leased' /\ EdgesHaveEnds' /\ StampedIsProtected'
    BY <1>2, <2>1 DEF vars, IInv, Typed, Leased, EdgesHaveEnds, StampedIsProtected
  <2>3. Grows /\ \A v \in Workers : op'[v] = op[v]
    BY <1>2, <2>1 DEF vars, Grows
  <2> QED BY <2>2, <2>3, OthersKept DEF IInv
<1> QED
  BY <1>1, <1>2, BeginningSteps, SettlingSteps, SchemaStep, LookUpNodeStep, InsertNodeStep,
     SelectStep, StoreStep, FindSimilarStep, LookUpEdgeStep, InsertEdgeStep, NodeLinkedStep,
     TurnFailsStep, ThinkFailsStep, WalkHopStep, LoadStep, ForgetStep
     DEF Next

(* The inductive invariant holds of every reachable state.                   *)
THEOREM InductiveInvariant == Spec => []IInv
BY InitIInv, StepIInv, PTL DEF Spec

(* The tables keep their types and an exclusive lease excludes every other.  *)
THEOREM TypeCorrect == Spec => []TypeOK
<1>1. IInv => TypeOK
  BY DEF IInv, Typed, TypeOK, Leased, Operations
<1> QED BY <1>1, InductiveInvariant, PTL

(* No edge and no embedding row outlives its node, although the foreign keys *)
(* are not enforced.                                                         *)
THEOREM NothingDangles == Spec => []EdgesHaveEnds
<1>1. IInv => EdgesHaveEnds
  BY DEF IInv
<1> QED BY <1>1, InductiveInvariant, PTL

(* _drain_once's two counts never deny a turn the rows it inserted.          *)
THEOREM ProgressReported == Spec => []PartialTruthful
<1>1. IInv => PartialTruthful
  BY DEF IInv, WorkerOK, Counted, PartialTruthful
<1> QED BY <1>1, InductiveInvariant, PTL

(* What a completed turn or think cycle reports is embedded, unless it says  *)
(* nothing or its embedding failed in this very operation.                   *)
THEOREM CompletedEmbedded == Spec => []CompletedIsEmbedded
<1>1. IInv => CompletedIsEmbedded
  BY DEF IInv, WorkerOK, Placed, Embedded, CompletedIsEmbedded
<1> QED BY <1>1, InductiveInvariant, PTL

(* A recall publishes live nodes only.                                       *)
THEOREM RecallsAreLive == Spec => []RecallLive
<1>1. IInv => RecallLive
  BY DEF IInv, WorkerOK, RecallLive
<1> QED BY <1>1, InductiveInvariant, PTL

(* A profile stamped with version 3 has its tables and the permanent column, *)
(* has dropped confidence, and protects every seed and core memory.          *)
THEOREM StampedProtects == Spec => []StampedIsProtected
<1>1. IInv => StampedIsProtected
  BY DEF IInv
<1> QED BY <1>1, InductiveInvariant, PTL
=============================================================================
