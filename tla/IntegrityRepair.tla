-------------------------- MODULE IntegrityRepair --------------------------
(***************************************************************************)
(* The operator's repair of a profile: the workflow of integrity.py        *)
(* (_apply_profile_repairs) around the targeted repairs of                 *)
(* _vendor/core/integrity.py, which run item by item in savepoints of one  *)
(* transaction.  Statements, the backup, the commit and the inspections    *)
(* may fail and the process may die anywhere.                              *)
(*                                                                         *)
(* A vector is abstracted to the model that made it: a node's text under   *)
(* one model has one vector, so two vectors match when they are equal.     *)
(***************************************************************************)
EXTENDS Naturals, Sequences, FiniteSetsExt

CONSTANTS
  N,         \* node ids are 1..N
  Cap,       \* rows an inspection reads of a table (1000)
  Batch,     \* batch_size
  MaxItems,  \* max_items
  Profiles,  \* databases a repair may find
  Requests,  \* what operators ask for
  Faults     \* "item", "savepoint", "encode", "sql", "commit", "inspect", "death"

Id == 1..N
Model == {"stored", "other"}     \* the model of the provider identity, another one
Vector == {"none", "bad"} \cup Model

DefaultActions == {"repair_vec", "repair_embeddings", "remove_orphan_embeddings",
                   "remove_orphan_edges"}
KnownActions == DefaultActions \cup {"remove_self_edges", "promote_core_memories"}

\* The tables: thought_nodes with its flags, embeddings, vec_embeddings,
\* derivation_edges; whether the vector index is usable, has another dimension or
\* cannot be loaded.
Database ==
  [row : [Id -> {"absent", "active", "decayed"}], perm : SUBSET Id, core : SUBSET Id,
   emb : [Id -> Vector], vec : [Id -> Vector], edges : SUBSET (Id \X Id),
   index : {"ready", "narrow", "unusable"}]

Request ==
  [actions : SUBSET KnownActions, policy : {"report", "preserve_permanent", "preserve_decay"},
   fn : BOOLEAN, model : Model, parity : BOOLEAN]

ASSUME RepairAssumption ==
  /\ N \in Nat /\ Cap \in Nat \ {0} /\ Batch \in Nat \ {0} /\ MaxItems \in Nat \ {0}
  /\ Profiles \subseteq Database /\ Requests \subseteq Request

VARIABLES
  disk,     \* what is committed
  tx,       \* what the transaction sees
  backup,   \* the verified copies in the backup directory
  pc,       \* where the workflow is
  wf,       \* its locals
  report,   \* what it returned
  before    \* history: the database the workflow found

vars == <<disk, tx, backup, pc, wf, report, before>>

-----------------------------------------------------------------------------
(* Inspection.                                                               *)

Active(db) == {i \in Id : db.row[i] = "active"}
Exists(db) == {i \in Id : db.row[i] # "absent"}
Embedded(db) == {i \in Id : db.emb[i] # "none"}
Indexed(db) == {i \in Id : db.vec[i] # "none"}
Valid(v) == v \in Model

FirstIds(S, k) == {i \in S : Cardinality({j \in S : j < i}) < k}

Ready(db) == db.index = "ready"
Operational(db) == db.index # "unusable"

\* Vectors of different dimensions never match.
Matches(db, i) == db.index = "ready" /\ db.vec[i] = db.emb[i]

\* A valid index row whose valid embedding has another value.
Mismatched(db, i) == Valid(db.vec[i]) /\ Valid(db.emb[i]) /\ ~Matches(db, i)

\* The model column of an embedding row; an invalid blob carries the stored model.
ModelOf(db, i) == IF db.emb[i] = "bad" THEN "stored" ELSE db.emb[i]

\* Variant: an edge to a decayed node counts as an orphan.
OrphanEdgesOfDecayed(db) == {e \in db.edges : e[1] \notin Active(db) \/ e[2] \notin Active(db)}

OrphanEdges(db) == {e \in db.edges : e[1] \notin Exists(db) \/ e[2] \notin Exists(db)}

\* LIMIT without ORDER BY: any k of the rows, all of them when there are fewer.
Limited(S, k) == {T \in SUBSET S : Cardinality(T) = k \/ (T = S /\ Cardinality(T) < k)}

\* The active nodes an inspection may read.
ActiveNodes(db) == Limited(Active(db), Cap + 1)

\* Variant: as many index rows as embeddings, where one more tells a full table.
VecIdsAtCap(db) == FirstIds(Indexed(db), Cap)

\* The index rows an inspection reads.
VecIds(db) == FirstIds(Indexed(db), Cap + 1)

\* inspect_integrity: what it counts, under the model the caller expects and with
\* the active nodes it has read.
Counts(db, model, active) ==
  LET rows == FirstIds(Embedded(db), Cap)
      vecs == VecIds(db)
      live == rows \cap active
      Size(S) == Cardinality(S)
      WithIndex(k) == IF Operational(db) THEN k ELSE 0
  IN [missing_embeddings |-> Size(Active(db) \ Embedded(db)),
      invalid_embeddings |-> Size({i \in rows : ~Valid(db.emb[i])})
                               + Size({i \in rows : ModelOf(db, i) # model}),
      orphan_embeddings |-> Size(Embedded(db) \ Exists(db)),
      missing_vec |-> WithIndex(Size(live \ vecs)),
      stale_vec |-> WithIndex(Size(vecs \ live)),
      invalid_vec |-> WithIndex(Size({i \in vecs \cap Embedded(db) : db.vec[i] = "bad"})
                                  + IF Ready(db) THEN 0 ELSE 1),
      vec_mismatched |-> WithIndex(Size({i \in vecs : Mismatched(db, i)})),
      orphan_edges |-> Size(OrphanEdges(db)),
      self_edges |-> Size({e \in db.edges : e[1] = e[2]}),
      permanent_and_decayed |-> Size({i \in db.perm : db.row[i] = "decayed"}),
      core_memory_not_permanent |-> Size((db.core \ db.perm) \cap Exists(db))]

KeysOf == [repair_vec |-> {"missing_vec", "stale_vec", "invalid_vec", "vec_mismatched"},
           repair_embeddings |-> {"missing_embeddings", "invalid_embeddings"},
           remove_orphan_embeddings |-> {"orphan_embeddings"},
           remove_orphan_edges |-> {"orphan_edges"},
           remove_self_edges |-> {"self_edges"},
           promote_core_memories |-> {"core_memory_not_permanent"}]

\* _actionable_count_keys
ActionableKeys(r) ==
  UNION {KeysOf[a] : a \in r.actions}
    \cup (IF r.policy = "report" THEN {} ELSE {"permanent_and_decayed"})

Actionable(r, counts) == [k \in ActionableKeys(r) |-> counts[k]]

Clean(actionable) == \A k \in DOMAIN actionable : actionable[k] = 0

-----------------------------------------------------------------------------
(* The targeted repairs, in the order repair_integrity makes them.           *)

Kinds == <<"orphan_embedding", "orphan_edge", "self_edge", "vec_row", "vec_missing",
           "embedding", "permanence", "core">>

ActionOf == [orphan_embedding |-> "remove_orphan_embeddings", orphan_edge |-> "remove_orphan_edges",
             self_edge |-> "remove_self_edges", vec_row |-> "repair_vec",
             vec_missing |-> "repair_vec", embedding |-> "repair_embeddings",
             core |-> "promote_core_memories"]

\* Is this kind of repair attempted at all?
Selected(kind, r, db) ==
  IF kind = "permanence" THEN r.policy # "report"
  ELSE /\ ActionOf[kind] \in r.actions
       /\ kind \in {"vec_row", "vec_missing"} => Operational(db)
       /\ kind = "embedding" => r.fn /\ (r.parity => Ready(db))

\* What repair_integrity skips as a whole.
SkippedWholesale(r, db) ==
  \/ r.actions \cap {"repair_vec", "repair_embeddings"} # {} /\ r.parity /\ ~Ready(db)
  \/ "repair_embeddings" \in r.actions /\ ~Selected("embedding", r, db)

\* The rows a kind of repair reads; edges are represented by their position in
\* the order of the query.
Position(e) == e[1] * (N + 1) + e[2]

Rows(kind, db) ==
  CASE kind = "orphan_embedding" -> Embedded(db) \ Exists(db)
    [] kind = "orphan_edge" -> {Position(e) : e \in OrphanEdges(db)}
    [] kind = "self_edge" -> {Position(e) : e \in {x \in db.edges : x[1] = x[2]}}
    [] kind = "vec_row" -> Indexed(db)
    [] kind = "vec_missing" -> (Embedded(db) \cap Active(db)) \ Indexed(db)
    [] kind = "embedding" -> Active(db)
    [] kind = "permanence" -> {i \in db.perm : db.row[i] = "decayed"}
    [] kind = "core" -> (db.core \ db.perm) \cap Exists(db)

Stale(db, i) == db.emb[i] = "none" \/ db.row[i] = "decayed"
InvalidVec(db, i) == db.vec[i] = "bad" \/ (~Stale(db, i) /\ Mismatched(db, i))

\* Rows that are left as they are although they are not in order.
Skip(kind, r, db, i) ==
  CASE kind = "vec_row" -> InvalidVec(db, i) /\ ModelOf(db, i) # r.model
    [] kind = "vec_missing" -> ~Valid(db.emb[i]) \/ ~Ready(db) \/ ModelOf(db, i) # r.model
    [] OTHER -> FALSE

Broken(kind, r, db, i) ==
  CASE kind = "vec_row" -> Stale(db, i) \/ InvalidVec(db, i)
    [] kind = "embedding" -> db.emb[i] # r.model
    [] OTHER -> TRUE

\* The column with the values of g put in.
Put(column, g) == [i \in Id |-> IF i \in DOMAIN g THEN g[i] ELSE column[i]]

\* The rows S repaired, each in a savepoint of its own: no repair reads or writes
\* another row than its own.
Fix(kind, r, db, S) ==
  LET PutVec(g) == IF Ready(db) THEN Put(db.vec, g) ELSE db.vec
      Nothing == [i \in S |-> "none"]
      New == [i \in S |-> r.model]
  IN CASE kind = "orphan_embedding" ->
            [db EXCEPT !.emb = Put(db.emb, Nothing), !.vec = PutVec(Nothing)]
       [] kind \in {"orphan_edge", "self_edge"} ->
            [db EXCEPT !.edges = {e \in db.edges : Position(e) \notin S}]
       [] kind = "vec_row" ->
            [db EXCEPT !.vec = Put(db.vec, [i \in S |->
               IF ~Stale(db, i) /\ Valid(db.emb[i]) /\ Ready(db) THEN db.emb[i] ELSE "none"])]
       [] kind = "vec_missing" -> [db EXCEPT !.vec = Put(db.vec, [i \in S |-> db.emb[i]])]
       [] kind = "embedding" -> [db EXCEPT !.emb = Put(db.emb, New), !.vec = PutVec(New)]
       [] kind = "permanence" ->
            IF r.policy = "preserve_permanent"
              THEN [db EXCEPT !.row = Put(db.row, [i \in S |-> "active"])]
              ELSE [db EXCEPT !.perm = db.perm \ S]
       [] kind = "core" -> [db EXCEPT !.perm = db.perm \cup S]

\* The repairs of the rows S after their first statement, and of the rows D after
\* their second: the embedding is written or deleted before the index is touched, an
\* index row is deleted before it is written.
Begun(kind, r, db, S, D) ==
  LET gone == [i \in S |-> "none"] IN
    CASE kind = "orphan_embedding" -> [db EXCEPT !.emb = Put(db.emb, gone)]
      [] kind = "vec_row" -> [db EXCEPT !.vec = Put(db.vec, gone)]
      [] kind = "embedding" ->
           [db EXCEPT !.emb = Put(db.emb, [i \in S |-> r.model]),
                      !.vec = IF Ready(db) THEN Put(db.vec, [i \in D |-> "none"]) ELSE db.vec]
      [] OTHER -> db

\* What may become of failed rows whose savepoints could not be rolled back: each
\* is as it was, repaired, or anywhere in between.
Torn(kind, r, db, S) ==
  UNION {{Fix(kind, r, Begun(kind, r, db, started, dropped), whole) :
            dropped \in SUBSET started, whole \in SUBSET S} : started \in SUBSET S}

-----------------------------------------------------------------------------
(* The workflow.                                                             *)

NoReport == [status |-> "none", committed |-> "no", rolledBack |-> FALSE,
             uncertain |-> FALSE, recovery |-> FALSE, backup |-> FALSE]

NoWork == [req |-> 0, kinds |-> {}, left |-> 0, imperfect |-> FALSE, status |-> "none",
           remaining |-> 0]

Init ==
  /\ disk \in Profiles
  /\ tx = disk /\ before = disk
  /\ backup = {}
  /\ pc = "idle" /\ wf = NoWork /\ report = NoReport

\* The lease is held, the stored identity was read and agrees with the request,
\* BEGIN IMMEDIATE succeeded.
BeginRepair(r) ==
  /\ pc = "idle"
  /\ tx' = disk /\ before' = disk
  /\ wf' = [NoWork EXCEPT !.req = r, !.kinds = {k \in DOMAIN Kinds : Selected(Kinds[k], r, disk)},
                          !.left = MaxItems, !.imperfect = SkippedWholesale(r, disk)]
  /\ report' = NoReport
  /\ pc' = "backup"
  /\ UNCHANGED <<disk, backup>>

\* Variant: a backup that could not be written is no reason to stop.
CreateVerifiedBackupOrNot ==
  /\ pc = "backup"
  /\ backup' \in {backup, backup \cup {disk}}
  /\ pc' = "repair"
  /\ UNCHANGED <<disk, tx, wf, report, before>>

\* _create_verified_backup reads what is committed.
CreateVerifiedBackup ==
  /\ pc = "backup"
  /\ backup' = backup \cup {disk}
  /\ pc' = "repair"
  /\ UNCHANGED <<disk, tx, wf, report, before>>

\* The workflow ends: the connection is closed, what is not committed is gone.
Return(rep) ==
  /\ report' = rep
  /\ pc' = "done"
  /\ wf' = NoWork
  /\ UNCHANGED before

HasBackup == pc # "backup"

\* No confirmation, bounds that make no sense, a profile that is missing, busy or
\* of another identity than the caller expects.
RejectRequest ==
  /\ pc = "idle"
  /\ Return([NoReport EXCEPT !.status = "unavailable"])
  /\ UNCHANGED <<disk, tx, backup>>

\* An exception before the commit, from the backup or from SQLite: rolled back.
FailsEarly ==
  /\ "sql" \in Faults /\ pc \in {"backup", "repair", "judge", "commit"}
  /\ tx' = disk
  /\ Return([NoReport EXCEPT !.status = "unavailable", !.rolledBack = TRUE, !.backup = HasBackup])
  /\ UNCHANGED <<disk, backup>>

\* The rows of the query that item_budget() lets through.
Considered(kind) == FirstIds(Rows(kind, tx), Min({Batch, MaxItems, wf.left}))

\* One kind of repair: the first rows of its query, as long as items are left;
\* each in a savepoint of its own.
RepairKind ==
  /\ pc = "repair"
  /\ \E k \in wf.kinds :
     LET kind == Kinds[k]
         r == wf.req
         seen == Considered(kind)
         skipped == {i \in seen : Skip(kind, r, tx, i) /\ Broken(kind, r, tx, i)}
         todo == {i \in seen \ skipped : Broken(kind, r, tx, i)}
     IN
     /\ \A other \in wf.kinds : k <= other
     /\ \E failed \in (IF "item" \in Faults \/ (kind = "embedding" /\ "encode" \in Faults)
                         THEN SUBSET todo ELSE {{}}) :
        LET fixed == Fix(kind, r, tx, todo \ failed) IN
          /\ tx' \in IF {"item", "savepoint"} \subseteq Faults
                      THEN Torn(kind, r, fixed, failed) ELSE {fixed}
          /\ wf' = [wf EXCEPT !.kinds = @ \ {k}, !.left = @ - Cardinality(seen),
                              !.imperfect = @ \/ skipped # {} \/ failed # {}]
  /\ UNCHANGED <<disk, backup, pc, report, before>>

\* repair_integrity's own verdict, from an inspection under the model it used.
Judge ==
  /\ pc = "repair" /\ wf.kinds = {}
  /\ \E active \in ActiveNodes(tx) :
     LET left == Actionable(wf.req, Counts(tx, wf.req.model, active)) IN
       wf' = [wf EXCEPT !.remaining = left,
                        !.status = IF wf.imperfect \/ ~Clean(left) THEN "partial" ELSE "completed"]
  /\ pc' = "judge"
  /\ UNCHANGED <<disk, tx, backup, report, before>>

\* _repair_verification_matches: a fresh inspection under the stored model counts
\* the same leftovers, and none when all was done.
VerificationMatches(db, active) ==
  LET actual == Actionable(wf.req, Counts(db, "stored", active)) IN
    /\ actual = wf.remaining
    /\ IF wf.status = "completed" THEN Clean(actual) ELSE ~Clean(actual) \/ wf.imperfect

Inspects == IF "inspect" \in Faults THEN {TRUE, FALSE} ELSE {TRUE}

VerifyBeforeCommit ==
  /\ pc = "judge"
  /\ \E inspected \in Inspects, active \in ActiveNodes(tx) :
       IF inspected /\ VerificationMatches(tx, active)
         THEN pc' = "commit" /\ UNCHANGED <<tx, wf, report, before>>
         ELSE /\ tx' = disk
              /\ Return([NoReport EXCEPT !.status = "unavailable", !.rolledBack = TRUE, !.backup = TRUE])
  /\ UNCHANGED <<disk, backup>>

Commit ==
  /\ pc = "commit"
  /\ disk' = tx
  /\ pc' = "verify"
  /\ UNCHANGED <<tx, backup, wf, report, before>>

\* Variant: a commit that raises is taken for one that did not happen.
CommitRaisesBlindly ==
  /\ "commit" \in Faults /\ pc = "commit"
  /\ disk' \in {disk, tx}
  /\ tx' = disk'
  /\ Return([NoReport EXCEPT !.status = "unavailable", !.rolledBack = TRUE, !.backup = TRUE])
  /\ UNCHANGED backup

\* connection.commit() raises: with the transaction still open it is rolled back,
\* otherwise nobody knows.
CommitRaises ==
  /\ "commit" \in Faults /\ pc = "commit"
  /\ \/ /\ disk' = disk
        /\ Return([NoReport EXCEPT !.status = "unavailable", !.rolledBack = TRUE, !.backup = TRUE])
     \/ /\ disk' \in {disk, tx}
        /\ Return([NoReport EXCEPT !.status = "unavailable", !.committed = "unknown",
                     !.uncertain = TRUE, !.recovery = TRUE, !.backup = TRUE])
  /\ tx' = disk'
  /\ UNCHANGED backup

VerifyAfterCommit ==
  /\ pc = "verify"
  /\ \E inspected \in Inspects, active \in ActiveNodes(disk) :
       IF inspected /\ VerificationMatches(disk, active)
         THEN Return([NoReport EXCEPT !.status = wf.status, !.committed = "yes", !.backup = TRUE])
         ELSE Return([NoReport EXCEPT !.status = "unavailable", !.committed = "yes",
                        !.uncertain = TRUE, !.recovery = TRUE, !.backup = TRUE])
  /\ UNCHANGED <<disk, tx, backup>>

\* The process dies; the transaction goes with it.
Death ==
  /\ "death" \in Faults /\ pc \notin {"idle", "done"}
  /\ tx' = disk
  /\ Return(NoReport)
  /\ UNCHANGED <<disk, backup>>

Next ==
  \/ \E r \in Requests : BeginRepair(r)
  \/ RejectRequest \/ CreateVerifiedBackup \/ FailsEarly \/ RepairKind \/ Judge \/ VerifyBeforeCommit
  \/ Commit \/ CommitRaises \/ VerifyAfterCommit \/ Death

Spec == Init /\ [][Next]_vars

-----------------------------------------------------------------------------
(* Properties.                                                               *)

\* Type invariant.
TypeOK ==
  /\ disk \in Database /\ tx \in Database /\ before \in Database
  /\ backup \subseteq Database
  /\ pc \in {"idle", "backup", "repair", "judge", "commit", "verify", "done"}
  /\ wf.left \in 0..MaxItems
  /\ report.status \in {"none", "unavailable", "partial", "completed"}
  /\ report.committed \in {"yes", "no", "unknown"}

\* What the workflow reports is what happened: nothing was committed when it says
\* so, whatever raised, and only a report that asks for recovery leaves it open.
ReportTruthful ==
  (pc = "done" /\ report.status # "none") =>
    /\ report.committed = "no" => disk = before
    /\ report.rolledBack => report.committed = "no"
    /\ (report.committed = "no" /\ disk = before) \/ report.committed = "yes" \/ report.recovery

\* The profile as it was can always be restored, wherever the workflow dies
\* (README: "writes and verifies a SQLite backup").
BackupBeforeChange == disk # before => before \in backup

\* Default repairs keep information (core/integrity.py: "Only information-
\* preserving repairs are enabled by default"): they never add or remove nodes,
\* change their flags, drop an edge between existing nodes, or replace the valid
\* embedding of an existing node when the stored model is used, even when single
\* repairs fail half-way.
InformationPreserved ==
  [][(disk' # disk /\ wf.req.actions \subseteq DefaultActions /\ wf.req.policy = "report") =>
       /\ disk'.row = disk.row /\ disk'.perm = disk.perm /\ disk'.core = disk.core
       /\ \A e \in disk.edges : {e[1], e[2]} \subseteq Exists(disk) => e \in disk'.edges
       /\ \A i \in Exists(disk) : (disk.emb[i] = "stored" /\ wf.req.model = "stored") =>
            disk'.emb[i] = "stored"]_vars

\* After a repair of the index that reports completed a search finds nothing that is
\* not there: every index row, however many there are, belongs to an active node and
\* is its embedding.  (The inspection reads one index row more than it reads
\* embeddings, so a row it has not seen shows as stale.)  The other way round an
\* embedded active node is left out of the index only in a profile larger than an
\* inspection reads.
CompletedIsClean ==
  [][(/\ pc = "verify" /\ report'.status = "completed"
      /\ "repair_vec" \in wf.req.actions /\ Operational(disk)) =>
       /\ \A i \in Indexed(disk) :
            /\ disk.row[i] = "active" /\ disk.emb[i] # "none" /\ Valid(disk.vec[i])
            /\ Valid(disk.emb[i]) => disk.vec[i] = disk.emb[i]
       /\ \A i \in Active(disk) : (Valid(disk.emb[i]) /\ disk.vec[i] = "none") =>
            Cardinality(Embedded(disk)) > Cap \/ Cardinality(Active(disk)) > Cap + 1]_vars

\* README: "targeted repairs preserve the stored model identity": an embedding of
\* the stored model is never replaced by one of another model.
\* Does not hold (README, Disagreements).
RepairKeepsIdentity ==
  [][\A i \in Id : disk.emb[i] = "stored" => disk'.emb[i] # "other"]_vars
=============================================================================
