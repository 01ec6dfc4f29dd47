----------------------------- MODULE SleepCycle -----------------------------
(***************************************************************************)
(* The sleep cycle of the vendored engine (_vendor/core/sleep.py) on the   *)
(* graph of one profile, as sleep_adapter.py runs it: under an exclusive   *)
(* lease, so that turns change the graph only between cycles.  Every phase *)
(* commits on its own, and death or an exception may fall between any two. *)
(* Nodes are numbered in the order (timestamp, id) the cursors follow.     *)
(***************************************************************************)
EXTENDS Naturals, Sequences, SequencesExt

CONSTANTS
  N,            \* nodes
  Near, Twin,   \* pairs <<a, b>>, a < b, at the cross-link, at the dedup threshold
  MaxEdges,     \* pairs a cycle links
  Batch,        \* EDGES_PER_BATCH
  Modes,        \* deployments: page size, orphan_limit given?, sqlite-vec loadable?
  OrphanLimit,  \* orphan rows a capped cycle examines
  OrphanBatch,  \* orphan_batch_size
  SampleK,      \* GC_K_NODES
  Recalled,     \* nodes that turns retrieve
  Dreams,       \* nodes whose text a dream may have
  Faults        \* "pair", "commit", "encode", "vec", "raise", "death"

Node == 1..N
Pair == {p \in Node \X Node : p[1] < p[2]}

ASSUME SleepAssumption ==
  /\ N \in Nat /\ MaxEdges \in Nat /\ Batch \in Nat \ {0}
  /\ OrphanLimit \in Nat /\ OrphanBatch \in Nat \ {0} /\ SampleK \in Nat
  /\ Modes \subseteq [limit : Nat \ {0}, capped : BOOLEAN, vec : BOOLEAN,
                     gc : {"soft", "hard", "off"}]
  /\ Near \subseteq Pair /\ Twin \subseteq Pair /\ Near \cap Twin = {}
  /\ Recalled \subseteq Node /\ Dreams \subseteq Node

VARIABLES
  row,      \* thought_nodes: absent, active or decayed
  perm,     \* permanent >= 1
  core,     \* node_type = 'core_memory'
  access,   \* 0 collectable, 1 retrieved often or lately, 2 access_count >= 10
  emb,      \* rows of embeddings
  vec,      \* rows of vec_embeddings
  derived,  \* derivation_edges other than cross links
  links,    \* derivation_edges whose reasoning says cross_link
  cursor,   \* _cashew_sleep_state: candidate and the two orphan cursors (0: none)
  parity,   \* epoch % 2 of the orphan phase cursor
  pc,       \* the phase the cycle is in
  cyc,      \* its locals
  mode,     \* how the profile is deployed
  status,   \* what the last cycle reported
  changed   \* history: a commit that returned has changed the graph since the last
            \* cycle began

graph == <<row, perm, core, links, derived>>
durable == <<row, perm, core, access, emb, vec, derived, links, cursor, parity>>
vars == <<durable, pc, cyc, mode, status, changed>>

Active == {n \in Node : row[n] = "active"}

\* Locals of a cycle: the page, pairs still to link and written but not committed,
\* pairs claimed as linked, metrics; of the orphan passes the budget, the phases
\* left, the uncapped cursor, the rows in hand, whether a boundary was met, which
\* pass it is and whether it wrote; failures met, and whether anything counts as persisted.
NoCycle == [page |-> {}, work |-> {}, pending |-> {}, claimed |-> {},
            metrics |-> <<>>, budget |-> 0, phases |-> <<>>, at |-> 0, rows |-> {},
            boundary |-> FALSE, second |-> FALSE, wrote |-> FALSE, failed |-> {},
            did |-> FALSE]

Idle == pc = "idle"

Init ==
  /\ \E A \in SUBSET Node :
       /\ row = [n \in Node |-> IF n \in A THEN "active" ELSE "absent"]
       /\ emb \in {A, {}}
       /\ vec = {}
  /\ \E P \in {{}} \cup {{n} : n \in Node} : perm = P \cap Active
  /\ core = {}
  /\ access = [n \in Node |-> 0]
  /\ derived = {} /\ links = {}
  /\ cursor = [k \in {"page", "ordinary", "repair"} |-> 0]
  /\ parity = 0
  /\ mode \in Modes
  /\ pc = "idle" /\ cyc = NoCycle /\ status = "none" /\ changed = FALSE

\* Every step keeps the deployment and the history variable, which does not count a
\* commit that raised although it happened.
Noted(raised, A) ==
  /\ A
  /\ UNCHANGED mode
  /\ changed' = IF Idle THEN pc' = "idle" /\ changed
                ELSE changed \/ (graph' # graph /\ ~raised)

\* The cycle ends and its locals are gone.
Report(result) ==
  /\ pc' = "idle"
  /\ status' = result
  /\ cyc' = NoCycle

\* The failure boundary: the report keeps what the phases that returned have persisted.
Fail == Report(IF cyc.did THEN "partial" ELSE "failed")

\* A commit may raise although it happened.
Raised == IF "commit" \in Faults THEN BOOLEAN ELSE {FALSE}

\* A phase has committed: it returns, or its commit raises and nothing is counted.
Returns(raised, next, c) ==
  IF raised THEN Fail ELSE pc' = next /\ cyc' = c /\ UNCHANGED status

-----------------------------------------------------------------------------
(* Between cycles: turns under shared leases (the session engine).           *)

\* A turn stores a node, with its embedding or, when that failed, as an orphan.
Remember(n) ==
  /\ Idle /\ row[n] = "absent"
  /\ row' = [row EXCEPT ![n] = "active"]
  /\ emb' \in {emb, emb \cup {n}}
  /\ vec' = IF mode.vec /\ n \in emb' THEN vec \cup {n} ELSE vec
  /\ UNCHANGED <<perm, core, access, derived, links, cursor, parity, pc, cyc, status>>

\* A turn retrieves a node.
Recall(n) ==
  /\ Idle /\ n \in Recalled /\ row[n] = "active" /\ access[n] < 2
  /\ access' = [access EXCEPT ![n] = @ + 1]
  /\ UNCHANGED <<row, perm, core, emb, vec, derived, links, cursor, parity, pc, cyc, status>>

-----------------------------------------------------------------------------
(* Selection.                                                                *)

\* The first k of S in cursor order.
FirstK(S, k) == {n \in S : Cardinality({m \in S : m < n}) < k}

\* One page after the cursor, filled up from the beginning.
Page(S, c, k) ==
  LET after == FirstK({n \in S : n > c}, k) IN
    after \cup FirstK({n \in S : n <= c}, k - Cardinality(after))

\* The last row of such a page.
LastOf(page, c) ==
  LET wrapped == {n \in page : n <= c} IN
    IF page = {} THEN c ELSE IF wrapped # {} THEN Max(wrapped) ELSE Max(page)

\* Variant: the oldest page every time.
SelectCycleNodeIdsOldest ==
  [page |-> FirstK(Active \cap emb, mode.limit), cursor |-> cursor]

\* _select_cycle_node_ids and _load_embedding_matrix: the page is claimed by
\* moving the durable cursor before any work is done on it.
SelectCycleNodeIds ==
  LET page == Page(Active \cap emb, cursor["page"], mode.limit) IN
    [page |-> page, cursor |-> [cursor EXCEPT !["page"] = LastOf(page, @)]]

EnoughNodes(page) == Cardinality(page) >= 2

\* The cross-link and dedup pairs of the page (_find_pairs).
Pairs(rel, page) == {p \in rel : p[1] \in page /\ p[2] \in page}

BeginCycle ==
  /\ Idle
  /\ LET sel == SelectCycleNodeIds IN
       /\ cursor' = sel.cursor
       /\ pc' = IF EnoughNodes(sel.page) THEN "cross" ELSE "orphans"
       /\ cyc' = [NoCycle EXCEPT !.page = sel.page, !.work = Pairs(Near, sel.page),
                                 !.budget = OrphanLimit]
  /\ status' = "running"
  /\ UNCHANGED <<row, perm, core, access, emb, vec, derived, links, parity>>

\* Too few embeddings: after a first orphan pass the page is selected again.
Reselect ==
  /\ pc = "reselect"
  /\ LET sel == SelectCycleNodeIds IN
       /\ cursor' = sel.cursor
       /\ IF EnoughNodes(sel.page)
            THEN /\ pc' = "cross"
                 /\ cyc' = [cyc EXCEPT !.page = sel.page, !.work = Pairs(Near, sel.page),
                                       !.did = cyc.wrote]
                 /\ UNCHANGED status
            ELSE Report(IF cyc.wrote THEN "partial" ELSE "unavailable")
  /\ UNCHANGED <<row, perm, core, access, emb, vec, derived, links, parity>>

\* The cursor is moved, its commit raises, and the first pass is not counted.
ReselectRaises ==
  /\ pc = "reselect" /\ TRUE \in Raised
  /\ cursor' = SelectCycleNodeIds.cursor
  /\ Fail
  /\ UNCHANGED <<row, perm, core, access, emb, vec, derived, links, parity>>

-----------------------------------------------------------------------------
(* Cross links.                                                              *)

Both(p) == {p, <<p[2], p[1]>>}

Complete(p) == Both(p) \subseteq links \cup derived

\* Pairs are written in savepoints of one transaction until the batch is full or
\* the budget is spent; a pair that fails is left out.
WritePairs ==
  /\ pc = "cross" /\ cyc.pending = {} /\ cyc.work # {}
  /\ \E tried \in (SUBSET cyc.work) \ {{}} :
     \E bad \in (IF "pair" \in Faults THEN SUBSET tried ELSE {{}}) :
       LET good == {p \in tried \ bad : ~Complete(p)} IN
         /\ Cardinality(good) <= Batch
         /\ Cardinality(good) + Cardinality(cyc.claimed) <= MaxEdges
         /\ tried = cyc.work \/ Cardinality(good) = Batch
              \/ Cardinality(good) + Cardinality(cyc.claimed) = MaxEdges
         /\ cyc' = [cyc EXCEPT
              !.pending = good,
              !.work = IF Cardinality(good) + Cardinality(cyc.claimed) = MaxEdges
                         THEN {} ELSE @ \ tried,
              !.failed = IF bad = {} THEN @ ELSE @ \cup {"cross"}]
  /\ UNCHANGED <<durable, pc, status>>

Written == (UNION {Both(p) : p \in cyc.pending}) \ derived

\* The commit succeeds.
CommitPairs ==
  /\ pc = "cross" /\ cyc.pending # {}
  /\ links' = links \cup Written
  /\ cyc' = [cyc EXCEPT !.claimed = @ \cup cyc.pending, !.pending = {}, !.did = TRUE]
  /\ UNCHANGED <<row, perm, core, access, emb, vec, derived, cursor, parity, pc, status>>

\* Variant: a raised commit is always taken for a rollback that did not happen.
CommitRaisesBlindly ==
  /\ "commit" \in Faults
  /\ pc = "cross" /\ cyc.pending # {}
  /\ links' \in {links, links \cup Written}
  /\ cyc' = [cyc EXCEPT !.claimed = @ \cup cyc.pending, !.pending = {}, !.work = {},
                        !.failed = @ \cup {"cross"}, !.did = TRUE]
  /\ UNCHANGED <<row, perm, core, access, emb, vec, derived, cursor, parity, pc, status>>

\* The commit raises: reading the pairs again tells whether it happened; when
\* they cannot be read, the cycle ends as uncertain.
CommitRaises ==
  /\ "commit" \in Faults
  /\ pc = "cross" /\ cyc.pending # {}
  /\ \E happened \in BOOLEAN, readable \in BOOLEAN :
       /\ links' = IF happened THEN links \cup Written ELSE links
       /\ IF readable
            THEN /\ cyc' = [cyc EXCEPT
                      !.claimed = IF happened THEN @ \cup cyc.pending ELSE @,
                      !.pending = {}, !.work = {}, !.failed = @ \cup {"cross"},
                      !.did = @ \/ happened]
                 /\ UNCHANGED <<pc, status>>
            ELSE Report("uncertain")
  /\ UNCHANGED <<row, perm, core, access, emb, vec, derived, cursor, parity>>

CrossLinksDone ==
  /\ pc = "cross" /\ cyc.pending = {} /\ cyc.work = {}
  /\ pc' = "dedup"
  /\ UNCHANGED <<durable, cyc, status>>

-----------------------------------------------------------------------------
(* Deduplication.                                                            *)

AreTwins(a, b) == <<a, b>> \in Twin \/ <<b, a>> \in Twin

IsClique(C) == \A a, b \in C : a # b => AreTwins(a, b)

\* What bron_kerbosch enumerates.
MaximalCliques(V) ==
  {C \in SUBSET V : /\ Cardinality(C) >= 2 /\ IsClique(C)
                    /\ \A v \in V \ C : ~IsClique(C \cup {v})}

\* A clique without the nodes that are taken is a component if two are left.
Take(taken, C) ==
  LET left == C \ UNION taken IN IF Cardinality(left) >= 2 THEN taken \cup {left} ELSE taken

\* Largest clique first, no node used twice.
GreedyComponents(order) ==
  LET first[k \in 0..Len(order)] == IF k = 0 THEN {} ELSE Take(first[k - 1], order[k])
  IN first[Len(order)]

SizeOrders(S) ==
  {q \in SetToSeqs(S) : \A i, j \in 1..Len(q) : i < j => Cardinality(q[i]) >= Cardinality(q[j])}

\* Variant: everything connected is one component.
DedupComponentsConnected(page) ==
  LET V == {n \in page : \E m \in page : AreTwins(n, m)} IN
    IF V = {} THEN {{}} ELSE {{V}}

DedupComponents(page) == {GreedyComponents(q) : q \in SizeOrders(MaximalCliques(page))}

\* Permanent nodes first, then by access_count (_merge_cluster's ORDER BY); counts
\* below the permanence threshold and ages are not told apart.
Keepers(C) ==
  LET best == IF C \cap perm # {} THEN C \cap perm ELSE C
      hot == {n \in best : access[n] = 2}
  IN IF hot # {} THEN hot ELSE best

\* Edges follow their merged end; loops vanish; an edge that exists stays as it is.
Rewire(edges, rep, losers) ==
  {<<rep[x[1]], rep[x[2]]>> : x \in {e \in edges : e[1] \in losers \/ e[2] \in losers}}

\* _run_dedup: all merges and one commit.
Dedup(raised) ==
  /\ pc = "dedup"
  /\ \E comps \in DedupComponents(cyc.page) :
     \E keeper \in [comps -> Node] :
       /\ \A C \in comps : keeper[C] \in Keepers(C)
       /\ LET losers == UNION {C \ {keeper[C]} : C \in comps}
              rep == [n \in Node |-> IF n \in losers
                        THEN keeper[CHOOSE C \in comps : n \in C] ELSE n]
              Kept(edges) == {e \in edges : e[1] \notin losers /\ e[2] \notin losers}
              Moved(edges) == {e \in Rewire(edges, rep, losers) : e[1] # e[2]}
          IN /\ row' = [n \in Node |-> IF n \in losers THEN "decayed" ELSE row[n]]
             /\ perm' = perm \ losers
             /\ links' = Kept(links) \cup (Moved(links) \ Kept(derived))
             /\ derived' = Kept(derived) \cup (Moved(derived) \ links')
             /\ Returns(raised, "gc", [cyc EXCEPT !.did = @ \/ losers # {}])
  /\ UNCHANGED <<core, access, emb, vec, cursor, parity>>

-----------------------------------------------------------------------------
(* Collection and promotion.                                                 *)

\* _compute_metrics: twice the fitness of every active node.
Metrics ==
  [n \in Active |->
     2 * Cardinality({e \in links \cup derived : e[1] = n})
       + Cardinality({e \in links : n \in {e[1], e[2]}})]

\* Variant: permanence does not protect.
CollectableUnprotected(metrics) ==
  IF mode.gc = "off" \/ Cardinality(DOMAIN metrics) <= SampleK THEN {}
  ELSE {n \in DOMAIN metrics : metrics[n] = 0 /\ access[n] = 0}

\* Nodes without fitness that nothing protects; a graph no larger than the sample
\* is left alone.
Collectable(metrics) ==
  IF mode.gc = "off" \/ Cardinality(DOMAIN metrics) <= SampleK THEN {}
  ELSE {n \in DOMAIN metrics : metrics[n] = 0 /\ n \notin perm /\ access[n] = 0}

Touching(n) == {e \in Node \X Node : n \in {e[1], e[2]}}

\* _garbage_collect: a random sample is decayed, or deleted with its edges.
GarbageCollect(raised) ==
  /\ pc = "gc"
  /\ \E sample \in SUBSET Collectable(Metrics) :
       /\ Cardinality(sample) = Min({SampleK, Cardinality(Collectable(Metrics))})
       /\ LET gone == UNION {Touching(n) : n \in sample} IN
            IF mode.gc = "hard"
              THEN /\ row' = [n \in Node |-> IF n \in sample THEN "absent" ELSE row[n]]
                   /\ emb' = emb \ sample
                   /\ links' = links \ gone /\ derived' = derived \ gone
                   /\ core' = core \ sample
              ELSE /\ row' = [n \in Node |-> IF n \in sample THEN "decayed" ELSE row[n]]
                   /\ UNCHANGED <<emb, links, derived, core>>
       /\ Returns(raised, "permanence", [cyc EXCEPT !.metrics = Metrics,
                                                    !.did = @ \/ sample # {}])
  /\ UNCHANGED <<perm, access, vec, cursor, parity>>

\* promote_permanent_nodes: active nodes retrieved often enough.  When it raises, the
\* same is tried again and finds nothing left if its commit has happened.
EvaluatePermanence(raised) ==
  /\ pc = "permanence"
  /\ LET promoted == {n \in Active \ perm : access[n] = 2} IN
       /\ perm' = perm \cup promoted
       /\ \/ Returns(raised, "core", [cyc EXCEPT !.did = @ \/ promoted # {}])
          \/ raised /\ Returns(FALSE, "core", cyc)
  /\ UNCHANGED <<row, core, access, emb, vec, derived, links, cursor, parity>>

Target(k) == CHOOSE t \in 0..k : t * t <= k /\ (t + 1) * (t + 1) > k

\* The best Target nodes of the metrics taken before the collection.
TopSets(metrics) ==
  {S \in SUBSET DOMAIN metrics :
     /\ Cardinality(S) = Target(Cardinality(DOMAIN metrics))
     /\ \A n \in S, m \in DOMAIN metrics \ S : metrics[n] >= metrics[m]}

\* _promote_core_memories: the ranking is older than the collection, so rows that
\* are not active are passed over.
PromoteCoreMemories(raised) ==
  /\ pc = "core"
  /\ \E top \in TopSets(cyc.metrics) :
       /\ core' = (core \cap top) \cup ((top \ core) \cap Active)
       /\ perm' = perm \cup ((core \cup top) \cap Active)
       /\ Returns(raised, "dream", [cyc EXCEPT !.metrics = <<>>, !.did = @ \/ top # core])
  /\ UNCHANGED <<row, access, emb, vec, derived, links, cursor, parity>>

-----------------------------------------------------------------------------
(* Dream.                                                                    *)

\* _generate_dream: one node derived from both ends of a claimed pair.  Its id is
\* the hash of the text; a text that exists already replaces that row.
Dream(raised) ==
  /\ pc = "dream"
  /\ \/ \E p \in cyc.claimed, d \in Dreams :
          /\ row[p[1]] # "absent" /\ row[p[2]] # "absent"
          /\ row' = [row EXCEPT ![d] = "active"]
          /\ perm' = perm \ {d} /\ core' = core \ {d}
          /\ access' = [access EXCEPT ![d] = 0]
          /\ derived' = derived \cup ({<<p[1], d>>, <<p[2], d>>} \ links)
          /\ Returns(raised, "orphans2", [cyc EXCEPT !.claimed = {}, !.did = TRUE])
     \/ /\ ~raised
        /\ Returns(FALSE, "orphans2", [cyc EXCEPT !.claimed = {},
                      !.failed = IF cyc.claimed = {} THEN @ ELSE @ \cup {"phase"}])
        /\ UNCHANGED <<row, perm, core, access, derived>>
  /\ UNCHANGED <<emb, vec, links, cursor, parity>>

\* The cycle runs without a model.
NoDream ==
  /\ pc = "dream"
  /\ pc' = "orphans2"
  /\ cyc' = [cyc EXCEPT !.claimed = {}]
  /\ UNCHANGED <<durable, status>>

-----------------------------------------------------------------------------
(* Orphans: nodes without an embedding, embeddings missing in the index.     *)

Orphans(kind) ==
  IF kind = "ordinary" THEN Active \ emb
  ELSE IF mode.vec THEN (Active \cap emb) \ vec ELSE {}

AfterOrphans(second) == IF second THEN "finish" ELSE "reselect"

\* _claim_orphan_phase_order: capped cycles take turns as to which kind goes first.
PhaseOrder ==
  IF ~mode.vec THEN <<"ordinary">>
  ELSE IF mode.capped /\ parity = 1 THEN <<"repair", "ordinary">>
  ELSE <<"ordinary", "repair">>

\* _embed_orphans up to the phase order: nothing to do, or no budget.
EmbedOrphans ==
  /\ pc \in {"orphans", "orphans2"}
  /\ LET second == pc = "orphans2" IN
       IF (mode.capped /\ cyc.budget = 0) \/ Orphans("ordinary") \cup Orphans("repair") = {}
         THEN /\ pc' = AfterOrphans(second)
              /\ UNCHANGED <<cyc, parity>>
         ELSE /\ pc' = "page"
              /\ cyc' = [cyc EXCEPT !.phases = PhaseOrder, !.at = 0, !.second = second,
                                    !.wrote = FALSE]
              /\ parity' = IF mode.capped /\ mode.vec THEN 1 - parity ELSE parity
  /\ UNCHANGED <<row, perm, core, access, emb, vec, derived, links, cursor, status>>

\* The rest of the phase is given up.
NextPhase(c) == [c EXCEPT !.phases = Tail(@), !.at = 0, !.rows = {}, !.boundary = FALSE]

RowsToTake == IF mode.capped THEN Min({OrphanBatch, cyc.budget}) ELSE OrphanBatch

\* ordinary_page, repair_page: capped cycles go on behind a durable cursor that is
\* moved before the rows are tried, and stop where the order begins again.
OrphanPage ==
  /\ pc = "page" /\ cyc.phases # <<>>
  /\ LET kind == Head(cyc.phases)
         todo == Orphans(kind)
         take == RowsToTake
         after == FirstK({n \in todo : n > IF mode.capped THEN cursor[kind] ELSE cyc.at}, take)
         rows == IF mode.capped /\ after = {} THEN FirstK(todo, take) ELSE after
     IN IF rows = {}
          THEN cyc' = NextPhase(cyc) /\ UNCHANGED <<pc, cursor>>
          ELSE /\ cursor' = IF mode.capped THEN [cursor EXCEPT ![kind] = Max(rows)] ELSE cursor
               /\ cyc' = [cyc EXCEPT !.rows = rows, !.at = IF mode.capped THEN 0 ELSE Max(rows),
                    !.budget = IF mode.capped THEN @ - Cardinality(rows) ELSE @,
                    !.boundary = mode.capped /\ (after = {} \/ Cardinality(rows) < take)]
               /\ pc' = "write"
  /\ UNCHANGED <<row, perm, core, access, emb, vec, derived, links, parity, status>>

\* The batch is encoded and written, each node into both tables or into none; a
\* batch that is rejected, or whose commit raises, ends the phase and is not counted.
OrphanWrite ==
  /\ pc = "write"
  /\ \/ /\ "encode" \in Faults
        /\ cyc' = NextPhase([cyc EXCEPT !.failed = @ \cup {"phase"}])
        /\ UNCHANGED <<emb, vec>>
     \/ \E good \in (IF "vec" \in Faults /\ mode.vec THEN SUBSET cyc.rows ELSE {cyc.rows}),
           raised \in Raised :
          /\ emb' = emb \cup good
          /\ vec' = IF mode.vec THEN vec \cup good ELSE vec
          /\ LET c == [cyc EXCEPT !.rows = {}, !.wrote = @ \/ good # {},
                       !.failed = @ \cup (IF good # cyc.rows THEN {"phase"} ELSE {})
                                   \cup (IF mode.vec THEN {} ELSE {"vec"})]
             IN cyc' = IF raised THEN NextPhase([cyc EXCEPT !.failed = @ \cup {"phase"}])
                       ELSE IF cyc.boundary THEN NextPhase(c) ELSE c
  /\ pc' = "page"
  /\ UNCHANGED <<row, perm, core, access, derived, links, cursor, parity, status>>

\* The counters of the second pass become part of the report only now, those of
\* the first after the page has been selected again.
OrphansDone ==
  /\ pc = "page" /\ cyc.phases = <<>>
  /\ pc' = AfterOrphans(cyc.second)
  /\ cyc' = [cyc EXCEPT !.did = @ \/ (cyc.second /\ cyc.wrote)]
  /\ UNCHANGED <<durable, status>>

-----------------------------------------------------------------------------
(* The end of a cycle.                                                       *)

\* The first failure met decides, and whether anything was persisted.
Outcome ==
  IF "cross" \in cyc.failed THEN (IF cyc.did THEN "partial" ELSE "failed")
  ELSE IF "vec" \in cyc.failed THEN (IF cyc.did THEN "partial" ELSE "unavailable")
  ELSE IF cyc.failed # {} THEN (IF cyc.did THEN "partial" ELSE "failed")
  ELSE "completed"

\* compact_vec_index drops the index rows of nodes that are not active.
Finish ==
  /\ pc = "finish"
  /\ vec' = vec \cap Active
  /\ Report(Outcome)
  /\ UNCHANGED <<row, perm, core, access, emb, derived, links, cursor, parity>>

\* Variant: the failure boundary forgets what was persisted.
CycleRaisesForgetting ==
  /\ "raise" \in Faults /\ ~Idle
  /\ Report("failed")
  /\ UNCHANGED durable

\* An exception in any phase, whose transaction is rolled back.
CycleRaises ==
  /\ "raise" \in Faults /\ ~Idle
  /\ Fail
  /\ UNCHANGED durable

\* The cron process dies.
Death ==
  /\ "death" \in Faults /\ ~Idle
  /\ Report("none")
  /\ UNCHANGED durable

-----------------------------------------------------------------------------

CycleStep ==
  \/ Reselect \/ ReselectRaises \/ WritePairs \/ CommitPairs \/ CommitRaises \/ CrossLinksDone
  \/ NoDream \/ EmbedOrphans \/ OrphanPage \/ OrphanWrite \/ OrphansDone \/ Finish

\* The phases that change nodes and edges in a commit of their own.
CommitStep(raised) ==
  \/ Dedup(raised) \/ GarbageCollect(raised) \/ EvaluatePermanence(raised)
  \/ PromoteCoreMemories(raised) \/ Dream(raised)

Next ==
  \/ Noted(FALSE, BeginCycle) \/ Noted(FALSE, CycleStep)
  \/ \E raised \in Raised : Noted(raised, CommitStep(raised))
  \/ Noted(FALSE, CycleRaises) \/ Noted(FALSE, Death)
  \/ \E n \in Node : Noted(FALSE, Remember(n)) \/ Noted(FALSE, Recall(n))

Spec == Init /\ [][Next]_vars

\* Cron starts cycles again and again and a cycle goes on; it may still fail or
\* die in every single run.
FairSpec ==
  /\ Spec
  /\ WF_vars(Noted(FALSE, BeginCycle))
  /\ WF_vars(Noted(FALSE, CycleStep \/ CommitStep(FALSE)))

-----------------------------------------------------------------------------
(* Properties.                                                               *)

Phase == {"idle", "cross", "dedup", "gc", "permanence", "core", "dream", "orphans",
          "orphans2", "page", "write", "reselect", "finish"}

\* Type invariant.
TypeOK ==
  /\ row \in [Node -> {"absent", "active", "decayed"}]
  /\ perm \subseteq Node /\ core \subseteq Node /\ emb \subseteq Node /\ vec \subseteq Node
  /\ access \in [Node -> 0..2]
  /\ derived \subseteq Node \X Node /\ links \subseteq Node \X Node
  /\ cursor \in [{"page", "ordinary", "repair"} -> 0..N]
  /\ parity \in {0, 1} /\ mode \in Modes
  /\ pc \in Phase
  /\ cyc.budget \in 0..OrphanLimit /\ cyc.page \subseteq Node /\ cyc.rows \subseteq Node
  /\ cyc.work \subseteq Pair /\ cyc.pending \subseteq Pair /\ cyc.claimed \subseteq Pair
  /\ status \in {"none", "running", "completed", "partial", "failed", "unavailable", "uncertain"}

\* validate_permanence_integrity: no permanent node is decayed, although ranking,
\* collection, merging and promotion are separate commits over data that gets
\* stale in between.
PermanentNotDecayed == \A n \in perm : row[n] # "decayed"

\* Merging never loses a memory: a node that is merged away has an active twin, a
\* permanent one if it was permanent itself (_run_dedup merges cliques, not
\* chains of similar nodes).
MergeKeepsMemory ==
  [][pc = "dedup" =>
       \A n \in Node : (row[n] = "active" /\ row'[n] = "decayed") =>
         \E k \in Node : /\ AreTwins(n, k) /\ row'[k] = "active"
                         /\ n \in perm => k \in perm']_vars

\* Pairs reported as linked, the input of the dream, have both their edges on disk,
\* whatever the commit that wrote them raised.
ClaimedPairsLinked ==
  pc \in {"cross", "dedup"} => \A p \in cyc.claimed : Complete(p)

\* A cycle that reports failed or unavailable has committed no change of nodes and
\* edges, apart from one whose commit raised although it happened: whatever a phase
\* returned before is kept in the report ("Preserve committed work if a later phase
\* fails"), and a raised commit of cross links is settled by reading.
StatusTruthful ==
  (Idle /\ status \in {"failed", "unavailable"}) => ~changed

\* The rotating page reaches every active node with an embedding again and again,
\* although every cycle may die right after its page is claimed
\* (_select_cycle_node_ids: a crash "cannot ... starve later pages forever").
EveryNodeSelected ==
  \A n \in Node : []<>(n \in cyc.page \/ row[n] # "active" \/ n \notin emb)
=============================================================================
