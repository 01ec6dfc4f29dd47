--------------------------- MODULE SessionEngine ---------------------------
(* The vendored engine's memory operations on one profile, as the provider   *)
(* runs them: opening and migrating the schema (_ensure_schema, exclusive    *)
(* lease), a turn (end_session, shared lease), a think cycle (think_cycle,   *)
(* exclusive lease), a recall (retrieve_recursive_bfs and _enrich_results,   *)
(* shared lease), and maintenance that forgets nodes (exclusive lease).      *)
(*                                                                           *)
(* A node's id is the hash of its content, so a statement IS its node and    *)
(* two turns that say the same thing race for one row.  Every helper opens   *)
(* its own connection: each SELECT and each commit is a step of its own, and *)
(* nothing but the leases ties the steps of an operation together.           *)
(*                                                                           *)
(* Abstracted: contents (but for those that are only white space), tags,     *)
(* domains, timestamps and access counters; the similarity of two nodes (any *)
(* node a search can find may be judged similar).  What the sleep cycle and  *)
(* the repair do to the vec index is left to SleepCycle and IntegrityRepair. *)
EXTENDS Integers, FiniteSets

CONSTANTS
  Workers,   \* threads and processes working on the profile
  N,         \* statements, hence possible nodes
  LinkK,     \* neighbours a new node is linked to (3 in the code)
  Hops,      \* max_depth of a recall (3 in the code)
  MaxOps,    \* bound: operations begun in a behaviour
  Index,     \* can the vec index be used?
  Faults     \* subset of {"sql", "encode", "vec", "count", "column", "death"}

ASSUME SessionAssumption ==
  /\ N \in Nat \ {0} /\ LinkK \in Nat /\ Hops \in Nat /\ MaxOps \in Nat
  /\ Index \in BOOLEAN
  /\ Faults \subseteq {"sql", "encode", "vec", "count", "column", "death"}

Nodes == 1..N
Unknown == -1           \* a count that could not be read

VARIABLES
  row,      \* Nodes -> "absent" | "active" | "decayed"
  blank,    \* statements that are only white space; they stay what they are
  emb,      \* nodes with an embeddings row
  vec,      \* nodes with a row in the vec index
  edges,    \* derivation_edges, <<parent, child>>
  schema,   \* [made: DDL committed so far, version: PRAGMA user_version]
  bare,     \* seed and core_memory rows without permanent = 1
  op,       \* what each worker is doing
  lease,    \* Workers -> "none" | "shared" | "exclusive"
  begun     \* operations begun, for the bound

graph == <<row, blank, emb, vec, edges>>
vars == <<row, blank, emb, vec, edges, schema, bare, op, lease, begun>>

Ddl == {"tables", "permanent", "other", "dropped"}
Steps == {"rest", "tables", "columns", "drop", "stamp", "create", "insert", "embed", "encode",
          "link", "edge", "join", "walk", "details", "publish",
          "completed", "partial", "uncertain", "failed"}

Resting ==
  [kind |-> "none", at |-> "rest", todo |-> {}, cur |-> 0, peer |-> 0, pend |-> {},
   new |-> {}, mine |-> {}, source |-> {}, before |-> 0, missed |-> {}]

Present == {n \in Nodes : row[n] # "absent"}
Live == {n \in Nodes : row[n] = "active"}
\* embeddings.search: the live nodes of the vec index, or of the embeddings when
\* there is no index or it fails.
Searches ==
  {IF Index THEN vec \cap Live ELSE emb \cap Live}
    \cup (IF "sql" \in Faults THEN {emb \cap Live} ELSE {})
Neighbours(S) == {n \in Nodes : \E s \in S : <<n, s>> \in edges \/ <<s, n>> \in edges}

Shareable == \A w \in Workers : lease[w] # "exclusive"
Ownable == \A w \in Workers : lease[w] = "none"

\* The operation r starts under a lease of its mode.
Begin(w, mode, r) ==
  /\ op[w] = Resting /\ begun < MaxOps
  /\ begun' = begun + 1
  /\ IF mode = "shared" THEN Shareable ELSE Ownable
  /\ lease' = [lease EXCEPT ![w] = mode]
  /\ op' = [op EXCEPT ![w] = r]

Settle(w, at) == op' = [op EXCEPT ![w].at = at]

\* The operation's result is known; its lease is still held.
Ended(r, at) ==
  [Resting EXCEPT !.kind = r.kind, !.new = r.new, !.mine = r.mine, !.before = r.before,
                  !.missed = r.missed, !.at = at]

Finished == {"completed", "partial", "uncertain", "failed", "publish"}

\* The admission's with-block ends.
Leave(w) ==
  /\ op[w].at \in Finished
  /\ op' = [op EXCEPT ![w] = Resting]
  /\ lease' = [lease EXCEPT ![w] = "none"]
  /\ UNCHANGED <<graph, schema, bare, begun>>

(***************************************************************************)
(* _ensure_schema: the DDL commits statement by statement; the backfill of *)
(* permanent and the version stamp are one transaction.                    *)
(***************************************************************************)

BeginOpen(w) ==
  /\ schema.version # 3
  /\ Begin(w, "exclusive", [Resting EXCEPT !.kind = "open", !.at = "tables"])
  /\ UNCHANGED <<graph, schema, bare>>

ApplyV1(w) ==
  /\ op[w].at = "tables"
  /\ schema' = [schema EXCEPT !.made = @ \cup {"tables"}]
  /\ Settle(w, "columns")
  /\ UNCHANGED <<graph, bare, lease, begun>>

\* An ADD COLUMN that fails is passed over.
AddLegacyColumns(w) ==
  /\ op[w].at = "columns"
  /\ \E lost \in SUBSET {"permanent", "other"} :
       /\ lost # {} => "column" \in Faults
       /\ schema' = [schema EXCEPT !.made = @ \cup ({"permanent", "other"} \ lost)]
  /\ Settle(w, "drop")
  /\ UNCHANGED <<graph, bare, lease, begun>>

DropConfidence(w) ==
  /\ op[w].at = "drop"
  /\ schema' = [schema EXCEPT !.made = @ \cup {"dropped"}]
  /\ Settle(w, "stamp")
  /\ UNCHANGED <<graph, bare, lease, begun>>

\* A plausible slip: the version is committed before the backfill.
StampBeforeBackfill(w) ==
  /\ op[w].at = "stamp" /\ "permanent" \in schema.made
  /\ schema' = [schema EXCEPT !.version = 3]
  /\ Settle(w, "completed")
  /\ UNCHANGED <<graph, bare, lease, begun>>

\* The UPDATE of permanent raises when the column is not there.
BackfillAndStamp(w) ==
  /\ op[w].at = "stamp" /\ "permanent" \in schema.made
  /\ bare' = {}
  /\ schema' = [schema EXCEPT !.version = 3]
  /\ Settle(w, "completed")
  /\ UNCHANGED <<graph, lease, begun>>

OpenFails(w) ==
  /\ \/ op[w].at \in {"tables", "drop", "stamp"} /\ "sql" \in Faults
     \/ op[w].at = "stamp" /\ "permanent" \notin schema.made
  /\ Settle(w, "failed")
  /\ UNCHANGED <<graph, schema, bare, lease, begun>>

(***************************************************************************)
(* end_session, under the shared lease of _drain_once or of cashew_extract *)
(***************************************************************************)

\* A plausible slip: the rows are counted before the lease is held, and
\* maintenance may have removed some of them since.
BeginTurnStaleCount(w) ==
  /\ schema.version = 3
  /\ \E said \in SUBSET Nodes, n \in Cardinality(Present)..N :
       Begin(w, "shared", [Resting EXCEPT !.kind = "turn", !.at = "create", !.todo = said,
                                          !.before = n])
  /\ UNCHANGED <<graph, schema, bare>>

\* The model or the heuristics yield any set of statements.
BeginTurn(w) ==
  /\ schema.version = 3
  /\ \E said \in SUBSET Nodes,
        n \in {Cardinality(Present)} \cup IF "count" \in Faults THEN {Unknown} ELSE {} :
       Begin(w, "shared", [Resting EXCEPT !.kind = "turn", !.at = "create", !.todo = said,
                                          !.before = n])
  /\ UNCHANGED <<graph, schema, bare>>

\* The node is recorded; a think cycle now derives it from its cluster.
Recorded(r, n) ==
  [r EXCEPT !.new = @ \cup {n}, !.todo = @ \ {n}, !.pend = r.source,
            !.cur = IF r.kind = "think" THEN n ELSE 0,
            !.at = IF r.kind = "think" THEN "edge" ELSE "create"]

\* _create_node looks the id up: an existing row, decayed or not, is returned.
LookUpNode(w) ==
  /\ op[w].at = "create"
  /\ \E n \in op[w].todo :
       op' = [op EXCEPT ![w] = IF n \in Present THEN Recorded(op[w], n)
                               ELSE [op[w] EXCEPT !.cur = n, !.at = "insert"]]
  /\ UNCHANGED <<graph, schema, bare, lease, begun>>

\* ... and inserts it, unless another writer did in between.
InsertNode(w) ==
  /\ op[w].at = "insert" /\ op[w].cur \notin Present
  /\ row' = [row EXCEPT ![op[w].cur] = "active"]
  /\ op' = [op EXCEPT ![w] = Recorded([op[w] EXCEPT !.mine = @ \cup {op[w].cur}], op[w].cur)]
  /\ UNCHANGED <<blank, emb, vec, edges, schema, bare, lease, begun>>

AllRecorded(w) ==
  /\ op[w].at = "create" /\ op[w].todo = {}
  /\ Settle(w, "embed")
  /\ UNCHANGED <<graph, schema, bare, lease, begun>>

\* A plausible slip: only the nodes this operation inserted are embedded.
SelectOwnUnembedded(w) ==
  /\ op[w].at = "embed"
  /\ op' = [op EXCEPT ![w].pend = op[w].mine \ (emb \cup blank), ![w].at = "encode"]
  /\ UNCHANGED <<graph, schema, bare, lease, begun>>

\* embed_nodes takes every live node without an embedding that says something,
\* whoever made it.
SelectUnembedded(w) ==
  /\ op[w].at = "embed"
  /\ op' = [op EXCEPT ![w].pend = Live \ (emb \cup blank), ![w].at = "encode"]
  /\ UNCHANGED <<graph, schema, bare, lease, begun>>

\* The batches are stored.  One that fails is logged and passed over, with the rows
\* it has written left to the next commit; an empty vector is passed over; and so is
\* a failing write to the index, before or after the old row is deleted.
StoreEmbeddings(w) ==
  /\ op[w].at = "encode"
  /\ \E stored \in SUBSET op[w].pend :
     \E lost \in SUBSET stored :
     \E gone \in SUBSET lost :
       /\ stored # op[w].pend => "encode" \in Faults
       /\ lost # {} => Index /\ "vec" \in Faults
       /\ emb' = emb \cup stored
       /\ vec' = IF Index THEN (vec \ gone) \cup (stored \ lost) ELSE vec
       /\ op' = [op EXCEPT ![w].missed = op[w].pend \ stored, ![w].pend = {}, ![w].todo = op[w].new,
                           ![w].at = IF op[w].kind = "turn" THEN "link" ELSE "completed"]
  /\ UNCHANGED <<row, blank, edges, schema, bare, lease, begun>>

\* _find_similar_nodes: at most LinkK nodes that a search finds, other than itself.
\* A search for white space finds nothing.
FindSimilar(w) ==
  /\ op[w].at = "link"
  /\ \E n \in op[w].todo, found \in Searches :
       \E near \in {S \in SUBSET (found \ {n}) : Cardinality(S) <= LinkK} :
         /\ n \in blank => near = {}
         /\ op' = [op EXCEPT ![w].cur = n, ![w].todo = @ \ {n}, ![w].pend = near, ![w].at = "edge"]
  /\ UNCHANGED <<graph, schema, bare, lease, begun>>

\* _create_edge looks the edge up ...
LookUpEdge(w) ==
  /\ op[w].at = "edge"
  /\ \E p \in op[w].pend :
       op' = [op EXCEPT ![w].pend = @ \ {p},
                        ![w].peer = IF <<p, op[w].cur>> \in edges THEN @ ELSE p,
                        ![w].at = IF <<p, op[w].cur>> \in edges THEN @ ELSE "join"]
  /\ UNCHANGED <<graph, schema, bare, lease, begun>>

\* ... and inserts it, unless another writer did in between.
InsertEdge(w) ==
  /\ op[w].at = "join" /\ <<op[w].peer, op[w].cur>> \notin edges
  /\ edges' = edges \cup {<<op[w].peer, op[w].cur>>}
  /\ op' = [op EXCEPT ![w].peer = 0, ![w].at = "edge"]
  /\ UNCHANGED <<row, blank, emb, vec, schema, bare, lease, begun>>

NodeLinked(w) ==
  /\ op[w].at = "edge" /\ op[w].pend = {}
  /\ op' = [op EXCEPT ![w].cur = 0,
                      ![w].at = IF op[w].kind = "think" THEN "create" ELSE "link"]
  /\ UNCHANGED <<graph, schema, bare, lease, begun>>

TurnCompletes(w) ==
  /\ op[w].at = "link" /\ op[w].todo = {}
  /\ Settle(w, "completed")
  /\ UNCHANGED <<graph, schema, bare, lease, begun>>

\* The row or the edge this writer did not find is there when it inserts.
Collides(w) ==
  \/ op[w].at = "insert" /\ op[w].cur \in Present
  \/ op[w].at = "join" /\ <<op[w].peer, op[w].cur>> \in edges

\* A statement or the encoding of a search query raises.
Raises(w) ==
  \/ op[w].at \in {"create", "insert", "embed", "edge", "join"} /\ "sql" \in Faults
  \/ op[w].at = "link" /\ "encode" \in Faults

\* _drain_once counts the rows again to tell progress from an open question.
TurnFails(w) ==
  /\ op[w].kind = "turn"
  /\ Collides(w) \/ Raises(w)
  /\ \E counted \in BOOLEAN :
       /\ ~counted => "count" \in Faults
       /\ op' = [op EXCEPT ![w] =
                   LET r == [op[w] EXCEPT !.before = IF counted THEN @ ELSE Unknown]
                       grown == r.before # Unknown /\ Cardinality(Present) > r.before
                   IN Ended(r, IF grown THEN "partial" ELSE "uncertain")]
  /\ UNCHANGED <<graph, schema, bare, lease, begun>>

(***************************************************************************)
(* think_cycle, under the exclusive lease of _run_think_cycle_if_due       *)
(***************************************************************************)

\* Of a cluster of live nodes, those with an edge or retrieved before (which any
\* node may have been); none of them may be left.
Cluster == IF Live = {} THEN {} ELSE SUBSET Live

\* A plausible slip: the lease is given back during the model call.
BeginThinkUnleased(w) ==
  /\ schema.version = 3 /\ op[w] = Resting /\ Ownable /\ begun < MaxOps
  /\ begun' = begun + 1
  /\ \E S \in Cluster, insights \in (SUBSET Nodes) \ {{}} :
       op' = [op EXCEPT ![w] = [Resting EXCEPT !.kind = "think", !.at = "create",
                                               !.source = S, !.todo = insights]]
  /\ UNCHANGED <<graph, schema, bare, lease>>

\* The insights left after the diversity check, which lets a thought pass
\* when the search behind it fails: any statements may remain.
BeginThink(w) ==
  /\ schema.version = 3
  /\ \E S \in Cluster, insights \in (SUBSET Nodes) \ {{}} :
       Begin(w, "exclusive", [Resting EXCEPT !.kind = "think", !.at = "create",
                                             !.source = S, !.todo = insights])
  /\ UNCHANGED <<graph, schema, bare>>

\* think_cycle swallows the error and returns an empty result.
ThinkFails(w) ==
  /\ op[w].kind = "think"
  /\ Raises(w)
  /\ op' = [op EXCEPT ![w] = Ended(@, "failed")]
  /\ UNCHANGED <<graph, schema, bare, lease, begun>>

(***************************************************************************)
(* A recall: seeds, then Hops rounds of neighbours, then the rows          *)
(***************************************************************************)

BeginRecall(w) ==
  /\ schema.version = 3
  /\ \E seeds \in (UNION {SUBSET found : found \in Searches}) \ {{}} :
       Begin(w, "shared", [Resting EXCEPT !.kind = "recall", !.at = "walk",
                                          !.new = seeds, !.pend = seeds])
  /\ UNCHANGED <<graph, schema, bare>>

\* The walk follows edges whatever the state of the rows they lead to; the
\* depth is the number of rounds, kept in before.
WalkHop(w) ==
  /\ op[w].at = "walk" /\ op[w].pend # {} /\ op[w].before < Hops
  /\ \E picks \in SUBSET (Neighbours(op[w].pend) \ op[w].new) :
       /\ (picks = {}) = (Neighbours(op[w].pend) \subseteq op[w].new)
       /\ op' = [op EXCEPT ![w].new = @ \cup picks, ![w].pend = picks, ![w].before = @ + 1]
  /\ UNCHANGED <<graph, schema, bare, lease, begun>>

WalkEnds(w) ==
  /\ op[w].at = "walk" /\ (op[w].pend = {} \/ op[w].before = Hops)
  /\ Settle(w, "details")
  /\ UNCHANGED <<graph, schema, bare, lease, begun>>

\* A plausible slip: the rows are loaded without the decayed filter.
LoadAnyDetails(w) ==
  /\ op[w].at = "details"
  /\ op' = [op EXCEPT ![w].new = @ \cap Present, ![w].at = "publish"]
  /\ UNCHANGED <<graph, schema, bare, lease, begun>>

\* _load_node_details keeps the live rows; _enrich_results reads them again
\* by id, with no filter, under the same lease.
LoadNodeDetails(w) ==
  /\ op[w].at = "details"
  /\ op' = [op EXCEPT ![w].new = @ \cap Live, ![w].at = "publish"]
  /\ UNCHANGED <<graph, schema, bare, lease, begun>>

(***************************************************************************)
(* Maintenance under the exclusive lease, and process death                *)
(***************************************************************************)

\* Decay, and the deletion of a node with its edges and its embedding.  Its row in
\* the index stays.
Forget(n) ==
  /\ schema.version = 3 /\ Ownable /\ row[n] = "active" /\ n \notin bare
  /\ \/ row' = [row EXCEPT ![n] = "decayed"] /\ UNCHANGED <<emb, edges>>
     \/ /\ row' = [row EXCEPT ![n] = "absent"]
        /\ emb' = emb \ {n}
        /\ edges' = {e \in edges : n \notin {e[1], e[2]}}
  /\ UNCHANGED <<blank, vec, schema, bare, op, lease, begun>>

Death(w) ==
  /\ "death" \in Faults /\ op[w] # Resting
  /\ op' = [op EXCEPT ![w] = Resting]
  /\ lease' = [lease EXCEPT ![w] = "none"]
  /\ UNCHANGED <<graph, schema, bare, begun>>

---------------------------------------------------------------------------

\* A new profile with the current schema, or a legacy one whose core row is unprotected.
Init ==
  /\ emb = {} /\ vec = {} /\ edges = {} /\ blank \in SUBSET Nodes
  /\ \/ /\ row = [n \in Nodes |-> "absent"]
        /\ schema = [made |-> Ddl, version |-> 3] /\ bare = {}
     \/ /\ row = [n \in Nodes |-> IF n = 1 THEN "active" ELSE "absent"]
        /\ schema \in [made : {{}, {"tables", "other"}}, version : {0}]
        /\ bare = {1}
  /\ op = [w \in Workers |-> Resting]
  /\ lease = [w \in Workers |-> "none"]
  /\ begun = 0

Next ==
  \/ \E w \in Workers :
       \/ BeginOpen(w) \/ ApplyV1(w) \/ AddLegacyColumns(w) \/ DropConfidence(w)
       \/ BackfillAndStamp(w) \/ OpenFails(w)
       \/ BeginTurn(w) \/ LookUpNode(w) \/ InsertNode(w) \/ AllRecorded(w)
       \/ SelectUnembedded(w) \/ StoreEmbeddings(w) \/ FindSimilar(w) \/ LookUpEdge(w)
       \/ InsertEdge(w) \/ NodeLinked(w) \/ TurnCompletes(w) \/ TurnFails(w)
       \/ BeginThink(w) \/ ThinkFails(w)
       \/ BeginRecall(w) \/ WalkHop(w) \/ WalkEnds(w) \/ LoadNodeDetails(w)
       \/ Leave(w) \/ Death(w)
  \/ \E n \in Nodes : Forget(n)

Spec == Init /\ [][Next]_vars

---------------------------------------------------------------------------

\* Every variable keeps its type, and an exclusive lease excludes every other:
\* what the admission layer promises the engine.
TypeOK ==
  /\ row \in [Nodes -> {"absent", "active", "decayed"}]
  /\ blank \cup emb \cup vec \subseteq Nodes /\ edges \subseteq Nodes \X Nodes
  /\ schema.made \subseteq Ddl /\ schema.version \in {0, 3} /\ bare \subseteq Nodes
  /\ \A w \in Workers :
       /\ op[w].at \in Steps
       /\ op[w].todo \cup op[w].new \cup op[w].mine \cup op[w].pend \subseteq Nodes
       /\ lease[w] = "exclusive" => \A v \in Workers \ {w} : lease[v] = "none"

\* However turns, think cycles and forgetting interleave, no edge and no
\* embedding row refers to a node that is gone: the foreign keys are not
\* enforced, and each insertion relies on a row read under the lease.
EdgesHaveEnds == emb \subseteq Present /\ \A e \in edges : {e[1], e[2]} \subseteq Present

\* A failed turn reported without partial progress, both counts having been
\* read, inserted no node: two counts stand for "did this turn commit
\* anything" although other writers insert in between (_drain_once).
PartialTruthful ==
  \A w \in Workers :
    op[w].at = "uncertain" /\ op[w].before # Unknown => op[w].mine = {}

\* When a turn or a think cycle completes, every live node it reports is embedded,
\* the ones another writer inserted and never embedded included, unless it says
\* nothing or its own embedding failed in this very operation: no node is given up
\* because an earlier writer failed or died before its embedding was stored.
CompletedIsEmbedded ==
  \A w \in Workers :
    op[w].at = "completed" => (op[w].new \cap Live) \ blank \subseteq emb \cup op[w].missed

\* A recall publishes only nodes that are live at that moment, although its
\* walk passes through forgotten ones and its last read does not filter.
RecallLive ==
  \A w \in Workers : op[w].at = "publish" => op[w].new \subseteq Live

\* Whatever crashed or failed on the way, a profile stamped with the current version
\* has its tables, no longer has confidence, and protects every seed and core memory
\* from garbage collection.  Of the columns that are added to a legacy table only
\* permanent is certain to be there, as its backfill fails without it.
StampedIsProtected ==
  schema.version = 3 => {"tables", "permanent", "dropped"} \subseteq schema.made /\ bare = {}

\* _ensure_schema: "Create or upgrade the cashew schema in place", for "a legacy
\* database missing some columns": the stamp says that every step was made.
\* Does not hold (README, Disagreements): a column that could not be added is passed
\* over, and under the stamp nobody tries again.
SchemaComplete == schema.version = 3 => Ddl \subseteq schema.made

\* embed_and_link: every path that creates nodes "must run this, or the nodes are
\* invisible to similarity retrieval": what a completed operation has embedded can be
\* found by a search.
\* Does not hold (README, Disagreements): a search asks the vec index alone, whose
\* failed write is passed over.
CompletedIsSearchable ==
  \A w \in Workers :
    op[w].at = "completed" =>
      \A found \in Searches : (op[w].new \cap Live) \ (blank \cup op[w].missed) \subseteq found

\* Creating what another writer has created returns the existing id: without
\* a fault no turn fails (_create_node and _create_edge: "already exists").
\* Does not hold (README, Disagreements).
NoCollisionFailure ==
  \A w \in Workers : op[w].at \notin {"partial", "uncertain"}
=============================================================================
