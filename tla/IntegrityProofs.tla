-------------------------- MODULE IntegrityProofs --------------------------
(* The audit and the repair of a profile (integrity.py).                      *)
(*                                                                            *)
(* Repair: for every profile, every request, every bound and every            *)
(* combination of faults, the profile as it was can be restored, the report   *)
(* says what happened, default repairs lose nothing, "completed" means clean. *)
(*                                                                            *)
(* Audit: for every profile, budget and number of writers, a cutoff is        *)
(* reported, verdicts are right about the copy, and the copy is a state the   *)
(* profile was in unless a turn checkpoints while it is made.                 *)
EXTENDS IntegrityAudit, IntegrityRepair, FiniteSetTheorems, WellFoundedInduction, TLAPS

(* The naturals are well ordered.                                             *)
LEMMA NatOrder ==
  \E R : IsWellFoundedOn(R, Nat) /\ \A x, y \in Nat : y < x => <<y, x>> \in R
<1> DEFINE R == OpToRel(<, Nat)
<1>1. IsWellFoundedOn(R, Nat)
  BY NatLessThanWellFounded
<1>2. \A x, y \in Nat : y < x => <<y, x>> \in R
  BY DEF OpToRel
<1> HIDE DEF R
<1> QED BY <1>1, <1>2, Zenon

LEMMA LeastNatural ==
  ASSUME NEW S, S \subseteq Nat, S # {}
  PROVE  \E m \in S : \A k \in S : m <= k
<1>1. PICK R : IsWellFoundedOn(R, Nat) /\ \A x, y \in Nat : y < x => <<y, x>> \in R
  BY NatOrder
<1>2. PICK m \in S : \A k \in S : <<k, m>> \notin R
  BY <1>1, WFMin
<1>3. ASSUME NEW k \in S PROVE m <= k
  <2>1. m \in Nat /\ k \in Nat
    OBVIOUS
  <2>2. ~(k < m)
    BY <1>1, <1>2, <2>1
  <2> QED BY <2>1, <2>2
<1> QED BY <1>3

(* A bounded set of naturals has a maximum.                                   *)
LEMMA GreatestNatural ==
  ASSUME NEW M \in Nat, NEW S, S \subseteq 0..M, S # {}
  PROVE  Max(S) \in S /\ \A m \in S : m <= Max(S)
<1> DEFINE gaps == {M - m : m \in S}
<1>1. gaps \subseteq Nat /\ gaps # {}
  <2>1. \A m \in S : M - m \in Nat
    OBVIOUS
  <2> QED BY <2>1
<1>2. PICK g \in gaps : \A h \in gaps : g <= h
  BY <1>1, LeastNatural
<1>3. PICK x \in S : g = M - x
  BY <1>2
<1>4. \A m \in S : x >= m
  <2> SUFFICES ASSUME NEW m \in S PROVE x >= m
    OBVIOUS
  <2>1. g <= M - m
    BY <1>2
  <2> HIDE DEF gaps
  <2> QED BY <1>3, <2>1
<1>5. Max(S) \in S /\ \A m \in S : Max(S) >= m
  BY <1>4 DEF Max
<1> QED BY <1>5

-----------------------------------------------------------------------------
(* Repair: the invariant.                                                     *)

Running == {"backup", "repair", "judge", "commit", "verify"}

(* The fields of the workflow's locals, and what is known of the request.    *)
WorkShape ==
  /\ DOMAIN wf = {"req", "kinds", "left", "imperfect", "status", "remaining"}
  /\ pc \in Running => wf.req \in Requests

(* The repairs still to do are repairs the request asked for.                *)
KindsRequested ==
  pc \in Running =>
    /\ wf.kinds \subseteq DOMAIN Kinds
    /\ \A k \in wf.kinds : IF Kinds[k] = "permanence" THEN wf.req.policy # "report"
                           ELSE ActionOf[Kinds[k]] \in wf.req.actions

(* Nothing is on disk before the commit, and the backup was made before it.  *)
CommitIsLast ==
  /\ pc \in {"idle", "backup", "repair", "judge", "commit"} => disk = before
  /\ pc \in {"repair", "judge", "commit", "verify"} => before \in backup

Typed ==
  /\ disk \in Database /\ tx \in Database
  /\ pc \in {"idle", "done"} \cup Running

(* What InformationPreserved demands of one state and a later one.           *)
Keeps(db, new, r) ==
  /\ new.row = db.row /\ new.perm = db.perm /\ new.core = db.core
  /\ \A e \in db.edges : {e[1], e[2]} \subseteq Exists(db) => e \in new.edges
  /\ \A i \in Exists(db) : (db.emb[i] = "stored" /\ r.model = "stored") => new.emb[i] = "stored"

Default(r) == r.actions \subseteq DefaultActions /\ r.policy = "report"

(* What the transaction would commit has lost nothing yet.                   *)
TxKeeps == (pc \in Running \ {"verify"} /\ Default(wf.req)) => Keeps(disk, tx, wf.req)

RepairInv ==
  /\ Typed /\ WorkShape /\ KindsRequested /\ CommitIsLast
  /\ ReportTruthful /\ BackupBeforeChange /\ TxKeeps

-----------------------------------------------------------------------------
(* The repairs.                                                              *)

KindNames == {"orphan_embedding", "orphan_edge", "self_edge", "vec_row", "vec_missing",
              "embedding", "permanence", "core"}

DefaultKinds == {"orphan_embedding", "orphan_edge", "vec_row", "vec_missing", "embedding"}

(* A position names one edge.                                                *)
LEMMA PositionInjective ==
  ASSUME NEW e \in Id \X Id, NEW x \in Id \X Id, Position(e) = Position(x)
  PROVE  e = x
<1> USE RepairAssumption DEF Id
<1> DEFINE M == N + 1
<1>1. /\ e[1] \in Nat /\ e[2] \in Nat /\ x[1] \in Nat /\ x[2] \in Nat /\ M \in Nat
      /\ e[2] < M /\ x[2] < M
      /\ e = <<e[1], e[2]>> /\ x = <<x[1], x[2]>>
  OBVIOUS
<1>2. e[1] * M + e[2] = x[1] * M + x[2]
  BY DEF Position
<1>3. ASSUME NEW a \in Nat, NEW b \in Nat, NEW c \in Nat, NEW d \in Nat,
             a < c, b < M
      PROVE  a * M + b < c * M + d
  <2>1. PICK k \in Nat : c = a + 1 + k
    <3>1. c - a - 1 \in Nat /\ c = a + 1 + (c - a - 1)
      BY <1>3
    <3> QED BY <3>1
  <2>2. c * M = a * M + M + k * M
    BY <2>1, <1>1
  <2>3. k * M \in Nat /\ a * M \in Nat
    BY <1>1
  <2> HIDE DEF M
  <2> QED BY <2>2, <2>3, <1>3, <1>1
<1> HIDE DEF M
<1>4. ~(e[1] < x[1]) /\ ~(x[1] < e[1])
  BY <1>1, <1>2, <1>3
<1>5. e[1] = x[1]
  BY <1>1, <1>4
<1>6. e[1] * M = x[1] * M /\ e[1] * M \in Nat
  BY <1>1, <1>5
<1>7. e[2] = x[2]
  BY <1>1, <1>2, <1>6
<1> QED BY <1>1, <1>5, <1>7

(* A repair keeps the tables' types.                                         *)
LEMMA FixType ==
  ASSUME NEW db \in Database, NEW r \in Request, NEW kind \in KindNames, NEW S,
         kind \in {"core"} => S \subseteq Id
  PROVE  Fix(kind, r, db, S) \in Database
<1>1. ASSUME NEW column \in [Id -> Vector], NEW g, \A i \in DOMAIN g \cap Id : g[i] \in Vector
      PROVE  Put(column, g) \in [Id -> Vector]
  BY <1>1 DEF Put
<1>2. r.model \in Vector /\ "none" \in Vector /\ "active" \in {"absent", "active", "decayed"}
  BY DEF Request, Vector, Model
<1>3. CASE kind = "orphan_embedding"
  BY <1>1, <1>2, <1>3 DEF Fix, Database
<1>4. CASE kind \in {"orphan_edge", "self_edge"}
  BY <1>4 DEF Fix, Database
<1>5. CASE kind = "vec_row"
  BY <1>1, <1>2, <1>5 DEF Fix, Database
<1>6. CASE kind = "vec_missing"
  BY <1>1, <1>2, <1>6 DEF Fix, Database
<1>7. CASE kind = "embedding"
  BY <1>1, <1>2, <1>7 DEF Fix, Database
<1>8. CASE kind = "permanence"
  BY <1>8 DEF Fix, Database, Put
<1>9. CASE kind = "core"
  BY <1>9 DEF Fix, Database
<1> QED BY <1>3, <1>4, <1>5, <1>6, <1>7, <1>8, <1>9 DEF KindNames

(* The rows S are none that a default repair of this kind would lose.        *)
Harmless(kind, db, S) ==
  /\ kind = "orphan_embedding" => S \cap Exists(db) = {}
  /\ kind = "orphan_edge" => \A e \in db.edges : Position(e) \in S => e \in OrphanEdges(db)

(* The rows a repair reads are harmless, and so is each part of them.        *)
LEMMA RowsHarmless ==
  ASSUME NEW db \in Database, NEW kind \in KindNames, NEW S, S \subseteq Rows(kind, db)
  PROVE  Harmless(kind, db, S)
<1>1. CASE kind = "orphan_embedding"
  BY <1>1 DEF Rows, Harmless
<1>2. CASE kind = "orphan_edge"
  <2>1. Rows(kind, db) = {Position(e) : e \in OrphanEdges(db)}
    BY <1>2 DEF Rows
  <2>2. OrphanEdges(db) \subseteq db.edges /\ db.edges \subseteq Id \X Id
    BY DEF OrphanEdges, Database
  <2>3. ASSUME NEW e \in db.edges, Position(e) \in S PROVE e \in OrphanEdges(db)
    <3>1. PICK x \in OrphanEdges(db) : Position(e) = Position(x)
      BY <2>1, <2>3
    <3>2. e \in Id \X Id /\ x \in Id \X Id
      BY <2>2
    <3>3. e = x
      BY <3>1, <3>2, PositionInjective
    <3> QED BY <3>3
  <2> QED BY <1>2, <2>3 DEF Harmless
<1> QED BY <1>1, <1>2 DEF Harmless

(* A default repair of harmless rows loses nothing.                          *)
LEMMA FixKeeps ==
  ASSUME NEW db \in Database, NEW r \in Request, NEW kind \in DefaultKinds, NEW S,
         Harmless(kind, db, S)
  PROVE  Keeps(db, Fix(kind, r, db, S), r)
<1> DEFINE new == Fix(kind, r, db, S)
<1>1. CASE kind = "orphan_embedding"
  <2>1. new.row = db.row /\ new.perm = db.perm /\ new.core = db.core /\ new.edges = db.edges
    BY <1>1 DEF Fix, Database
  <2>2. new.emb = Put(db.emb, [i \in S |-> "none"])
    BY <1>1 DEF Fix, Database
  <2>3. \A i \in Exists(db) : new.emb[i] = db.emb[i]
    BY <1>1, <2>2 DEF Put, Harmless, Exists
  <2> QED BY <2>1, <2>3 DEF Keeps
<1>2. CASE kind = "orphan_edge"
  <2>1. new.row = db.row /\ new.perm = db.perm /\ new.core = db.core /\ new.emb = db.emb
    BY <1>2 DEF Fix, Database
  <2>2. new.edges = {e \in db.edges : Position(e) \notin S}
    BY <1>2 DEF Fix, Database
  <2>3. ASSUME NEW e \in db.edges, {e[1], e[2]} \subseteq Exists(db) PROVE e \in new.edges
    BY <1>2, <2>2, <2>3 DEF Harmless, OrphanEdges
  <2> QED BY <2>1, <2>3 DEF Keeps
<1>3. CASE kind \in {"vec_row", "vec_missing"}
  <2>1. /\ new.row = db.row /\ new.perm = db.perm /\ new.core = db.core
        /\ new.emb = db.emb /\ new.edges = db.edges
    BY <1>3 DEF Fix, Database
  <2> QED BY <2>1 DEF Keeps
<1>4. CASE kind = "embedding"
  <2>1. new.row = db.row /\ new.perm = db.perm /\ new.core = db.core /\ new.edges = db.edges
    BY <1>4 DEF Fix, Database
  <2>2. new.emb = Put(db.emb, [i \in S |-> r.model])
    BY <1>4 DEF Fix, Database
  <2>3. \A i \in Exists(db) :
          (db.emb[i] = "stored" /\ r.model = "stored") => new.emb[i] = "stored"
    BY <2>2 DEF Put, Exists
  <2> QED BY <2>1, <2>3 DEF Keeps
<1> QED BY <1>1, <1>2, <1>3, <1>4 DEF DefaultKinds

(* Repairing some rows leaves the other harmless rows harmless.              *)
LEMMA FixHarmless ==
  ASSUME NEW db \in Database, NEW r \in Request, NEW kind \in DefaultKinds, NEW S, NEW T,
         Harmless(kind, db, S), Harmless(kind, db, T)
  PROVE  Harmless(kind, Fix(kind, r, db, S), T)
<1> DEFINE new == Fix(kind, r, db, S)
<1>1. new.row = db.row
  BY FixKeeps DEF Keeps
<1>2. Exists(new) = Exists(db)
  BY <1>1 DEF Exists
<1>3. CASE kind = "orphan_edge"
  <2>1. new.edges = {e \in db.edges : Position(e) \notin S}
    BY <1>3 DEF Fix, Database
  <2> QED BY <1>2, <1>3, <2>1 DEF Harmless, OrphanEdges
<1> QED BY <1>2, <1>3 DEF Harmless

(* Losing nothing twice is losing nothing.                                   *)
LEMMA KeepsTransitive ==
  ASSUME NEW a, NEW b, NEW c, NEW r, Keeps(a, b, r), Keeps(b, c, r)
  PROVE  Keeps(a, c, r)
BY DEF Keeps, Exists

(* A repair that stopped between its statements has lost nothing either.     *)
LEMMA BegunKeeps ==
  ASSUME NEW db \in Database, NEW r \in Request, NEW kind \in DefaultKinds, NEW S, NEW D,
         Harmless(kind, db, S)
  PROVE  Keeps(db, Begun(kind, r, db, S, D), r)
<1> DEFINE new == Begun(kind, r, db, S, D)
<1>1. CASE kind = "orphan_embedding"
  <2>1. new.row = db.row /\ new.perm = db.perm /\ new.core = db.core /\ new.edges = db.edges
    BY <1>1 DEF Begun, Database
  <2>2. new.emb = Put(db.emb, [i \in S |-> "none"])
    BY <1>1 DEF Begun, Database
  <2>3. \A i \in Exists(db) : new.emb[i] = db.emb[i]
    BY <1>1, <2>2 DEF Put, Harmless, Exists
  <2> QED BY <2>1, <2>3 DEF Keeps
<1>2. CASE kind = "vec_row"
  <2>1. /\ new.row = db.row /\ new.perm = db.perm /\ new.core = db.core
        /\ new.emb = db.emb /\ new.edges = db.edges
    BY <1>2 DEF Begun, Database
  <2> QED BY <2>1 DEF Keeps
<1>3. CASE kind = "embedding"
  <2>1. new.row = db.row /\ new.perm = db.perm /\ new.core = db.core /\ new.edges = db.edges
    BY <1>3 DEF Begun, Database
  <2>2. new.emb = Put(db.emb, [i \in S |-> r.model])
    BY <1>3 DEF Begun, Database
  <2>3. \A i \in Exists(db) :
          (db.emb[i] = "stored" /\ r.model = "stored") => new.emb[i] = "stored"
    BY <2>2 DEF Put, Exists
  <2> QED BY <2>1, <2>3 DEF Keeps
<1>4. CASE kind \in {"orphan_edge", "vec_missing"}
  <2>1. new = db
    BY <1>4 DEF Begun
  <2> QED BY <2>1 DEF Keeps
<1> QED BY <1>1, <1>2, <1>3, <1>4 DEF DefaultKinds

LEMMA BegunType ==
  ASSUME NEW db \in Database, NEW r \in Request, NEW kind \in KindNames, NEW S, NEW D
  PROVE  Begun(kind, r, db, S, D) \in Database
<1>1. ASSUME NEW column \in [Id -> Vector], NEW g, \A i \in DOMAIN g \cap Id : g[i] \in Vector
      PROVE  Put(column, g) \in [Id -> Vector]
  BY <1>1 DEF Put
<1>2. r.model \in Vector /\ "none" \in Vector
  BY DEF Request, Vector, Model
<1>3. CASE kind = "orphan_embedding"
  BY <1>1, <1>2, <1>3 DEF Begun, Database
<1>4. CASE kind = "vec_row"
  BY <1>1, <1>2, <1>4 DEF Begun, Database
<1>5. CASE kind = "embedding"
  BY <1>1, <1>2, <1>5 DEF Begun, Database
<1>6. CASE kind \notin {"orphan_embedding", "vec_row", "embedding"}
  BY <1>6 DEF Begun
<1> QED BY <1>3, <1>4, <1>5, <1>6

(* A part of harmless rows is harmless, in a half-made repair too.           *)
LEMMA BegunHarmless ==
  ASSUME NEW db \in Database, NEW r \in Request, NEW kind \in DefaultKinds, NEW S, NEW D, NEW T,
         Harmless(kind, db, S), Harmless(kind, db, T)
  PROVE  Harmless(kind, Begun(kind, r, db, S, D), T)
<1> DEFINE new == Begun(kind, r, db, S, D)
<1>1. new.row = db.row
  BY BegunKeeps DEF Keeps
<1>2. Exists(new) = Exists(db)
  BY <1>1 DEF Exists
<1>3. CASE kind = "orphan_edge"
  BY <1>3 DEF Begun
<1> QED BY <1>2, <1>3 DEF Harmless

(* Rows whose savepoints could not be rolled back have lost nothing.         *)
LEMMA TornKeeps ==
  ASSUME NEW db \in Database, NEW r \in Request, NEW kind \in DefaultKinds, NEW S,
         Harmless(kind, db, S), NEW torn \in Torn(kind, r, db, S)
  PROVE  Keeps(db, torn, r)
<1>1. PICK started \in SUBSET S : \E dropped \in SUBSET started, whole \in SUBSET S :
        torn = Fix(kind, r, Begun(kind, r, db, started, dropped), whole)
  BY DEF Torn
<1>2. PICK dropped \in SUBSET started, whole \in SUBSET S :
        torn = Fix(kind, r, Begun(kind, r, db, started, dropped), whole)
  BY <1>1
<1> DEFINE half == Begun(kind, r, db, started, dropped)
<1>3. Harmless(kind, db, started) /\ Harmless(kind, db, whole)
  BY DEF Harmless
<1>4. Keeps(db, half, r)
  BY <1>3, BegunKeeps
<1>5. half \in Database
  <2>1. kind \in KindNames
    BY DEF DefaultKinds, KindNames
  <2> QED BY <2>1, BegunType
<1>6. Harmless(kind, half, whole)
  BY <1>3, BegunHarmless
<1>7. torn = Fix(kind, r, half, whole)
  BY <1>2
<1> HIDE DEF half
<1>8. Keeps(half, torn, r)
  BY <1>5, <1>6, <1>7, FixKeeps
<1> QED BY <1>4, <1>8, KeepsTransitive

LEMMA TornType ==
  ASSUME NEW db \in Database, NEW r \in Request, NEW kind \in KindNames, NEW S,
         kind = "core" => S \subseteq Id, NEW torn \in Torn(kind, r, db, S)
  PROVE  torn \in Database
<1>1. PICK started \in SUBSET S : \E dropped \in SUBSET started, whole \in SUBSET S :
        torn = Fix(kind, r, Begun(kind, r, db, started, dropped), whole)
  BY DEF Torn
<1>2. PICK dropped \in SUBSET started, whole \in SUBSET S :
        torn = Fix(kind, r, Begun(kind, r, db, started, dropped), whole)
  BY <1>1
<1> DEFINE half == Begun(kind, r, db, started, dropped)
<1>3. half \in Database
  BY BegunType
<1>4. torn = Fix(kind, r, half, whole) /\ (kind = "core" => whole \subseteq Id)
  BY <1>2
<1> HIDE DEF half
<1> QED BY <1>3, <1>4, FixType

-----------------------------------------------------------------------------
(* The inductive invariant.                                                  *)

(* A request selects kinds of repair by name.                                *)
LEMMA KindsNamed ==
  /\ \A k \in DOMAIN Kinds : Kinds[k] \in KindNames
  /\ \A r \in Request, kind \in KindNames :
       (Default(r) /\ (IF kind = "permanence" THEN r.policy # "report"
                       ELSE ActionOf[kind] \in r.actions)) => kind \in DefaultKinds
<1>1. \A k \in DOMAIN Kinds : Kinds[k] \in KindNames
  BY DEF Kinds, KindNames
<1>2. ASSUME NEW r \in Request, NEW kind \in KindNames, Default(r),
             IF kind = "permanence" THEN r.policy # "report" ELSE ActionOf[kind] \in r.actions
      PROVE  kind \in DefaultKinds
  <2>1. kind # "permanence"
    BY <1>2 DEF Default
  <2>2. ActionOf[kind] \in DefaultActions
    BY <1>2, <2>1 DEF Default
  <2>3. ActionOf["self_edge"] \notin DefaultActions /\ ActionOf["core"] \notin DefaultActions
    BY DEF ActionOf, DefaultActions
  <2> QED BY <2>1, <2>2, <2>3 DEF KindNames, DefaultKinds
<1> QED BY <1>1, <1>2

LEMMA RepairInitInv == Init => RepairInv
BY RepairAssumption
   DEF Init, RepairInv, Typed, WorkShape, KindsRequested, CommitIsLast, ReportTruthful,
       BackupBeforeChange, TxKeeps, NoWork, NoReport, Running

(* One kind of repair: the transaction keeps its type and loses nothing.     *)
LEMMA RepairKindTx ==
  ASSUME RepairInv, RepairKind
  PROVE  tx' \in Database /\ (Default(wf.req) => Keeps(disk, tx', wf.req))
<1> DEFINE r == wf.req
<1>1. pc = "repair" /\ r \in Request /\ tx \in Database /\ wf.kinds \subseteq DOMAIN Kinds
  BY RepairAssumption DEF RepairKind, RepairInv, Typed, WorkShape, KindsRequested, Running
<1>2. PICK k \in wf.kinds :
        \E S, failed :
          /\ S \subseteq Rows(Kinds[k], tx) /\ failed \subseteq Rows(Kinds[k], tx)
          /\ \/ tx' = Fix(Kinds[k], r, tx, S)
             \/ tx' \in Torn(Kinds[k], r, Fix(Kinds[k], r, tx, S), failed)
  <2>1. PICK k \in wf.kinds :
          LET kind == Kinds[k]
              seen == Considered(kind)
              skipped == {i \in seen : Skip(kind, r, tx, i) /\ Broken(kind, r, tx, i)}
              todo == {i \in seen \ skipped : Broken(kind, r, tx, i)}
          IN \E failed \in SUBSET todo :
               LET fixed == Fix(kind, r, tx, todo \ failed) IN
                 tx' \in {fixed} \cup Torn(kind, r, fixed, failed)
    BY DEF RepairKind
  <2> DEFINE kind == Kinds[k]
             seen == Considered(kind)
             skipped == {i \in seen : Skip(kind, r, tx, i) /\ Broken(kind, r, tx, i)}
             todo == {i \in seen \ skipped : Broken(kind, r, tx, i)}
  <2>2. todo \subseteq Rows(kind, tx)
    BY DEF Considered, FirstIds
  <2>3. PICK failed \in SUBSET todo :
          tx' \in {Fix(kind, r, tx, todo \ failed)}
                   \cup Torn(kind, r, Fix(kind, r, tx, todo \ failed), failed)
    BY <2>1
  <2> HIDE DEF todo
  <2>4. /\ todo \ failed \subseteq Rows(kind, tx) /\ failed \subseteq Rows(kind, tx)
        /\ \/ tx' = Fix(kind, r, tx, todo \ failed)
           \/ tx' \in Torn(kind, r, Fix(kind, r, tx, todo \ failed), failed)
    BY <2>2, <2>3
  <2> QED BY <2>4
<1>3. PICK S, failed :
          /\ S \subseteq Rows(Kinds[k], tx) /\ failed \subseteq Rows(Kinds[k], tx)
          /\ \/ tx' = Fix(Kinds[k], r, tx, S)
             \/ tx' \in Torn(Kinds[k], r, Fix(Kinds[k], r, tx, S), failed)
  BY <1>2
<1> DEFINE kind == Kinds[k]
           fixed == Fix(kind, r, tx, S)
<1>4. kind \in KindNames
  BY <1>1, KindsNamed
<1> HIDE DEF kind
<1>5. kind = "core" => Rows(kind, tx) \subseteq Id
  BY DEF Rows, Exists
<1>6. fixed \in Database
  BY <1>1, <1>3, <1>4, <1>5, FixType DEF kind
<1>7. tx' \in Database
  <2>1. ASSUME tx' \in Torn(kind, r, fixed, failed) PROVE tx' \in Database
    <3>1. kind = "core" => failed \subseteq Id
      BY <1>3, <1>5 DEF kind
    <3> HIDE DEF fixed
    <3> QED BY <1>1, <1>4, <1>6, <2>1, <3>1, TornType
  <2> QED BY <1>3, <1>6, <2>1 DEF kind
<1>8. ASSUME Default(r) PROVE Keeps(disk, tx', r)
  <2>1. kind \in DefaultKinds
    BY <1>1, <1>4, <1>8, KindsNamed DEF RepairInv, KindsRequested, Running, kind
  <2>2. Harmless(kind, tx, S) /\ Harmless(kind, tx, failed)
    BY <1>1, <1>3, <1>4, RowsHarmless DEF kind
  <2>3. Keeps(tx, fixed, r)
    BY <1>1, <2>1, <2>2, FixKeeps
  <2>4. ASSUME tx' \in Torn(kind, r, fixed, failed) PROVE Keeps(fixed, tx', r)
    <3>1. Harmless(kind, fixed, failed)
      BY <1>1, <2>1, <2>2, FixHarmless
    <3> HIDE DEF fixed
    <3> QED BY <1>1, <1>6, <2>1, <2>4, <3>1, TornKeeps
  <2>5. Keeps(tx, tx', r)
    BY <1>3, <2>3, <2>4, KeepsTransitive DEF kind
  <2>6. Keeps(disk, tx, r)
    BY <1>1, <1>8 DEF RepairInv, TxKeeps, Running
  <2> QED BY <2>5, <2>6, KeepsTransitive
<1> QED BY <1>7, <1>8

LEMMA RepairStepInv == RepairInv /\ [Next]_vars => RepairInv'
<1> SUFFICES ASSUME RepairInv, [Next]_vars PROVE RepairInv'
  OBVIOUS
<1> USE RepairAssumption
        DEF RepairInv, Typed, WorkShape, CommitIsLast, ReportTruthful, BackupBeforeChange, TxKeeps,
            Running
<1>1. ASSUME NEW r \in Requests, BeginRepair(r) PROVE RepairInv'
  <2>1. wf'.kinds = {k \in DOMAIN Kinds : Selected(Kinds[k], r, disk)} /\ wf'.req = r
    BY <1>1 DEF BeginRepair, NoWork
  <2>2. KindsRequested'
    BY <1>1, <2>1 DEF KindsRequested, Selected
  <2>3. Keeps(disk, disk, r)
    BY DEF Keeps
  <2> QED BY <1>1, <2>1, <2>2, <2>3 DEF BeginRepair, NoWork, NoReport
<1>2. CASE RejectRequest
  BY <1>2 DEF RejectRequest, Return, NoReport, NoWork, KindsRequested
<1>3. CASE CreateVerifiedBackup
  BY <1>3 DEF CreateVerifiedBackup, KindsRequested
<1>4. CASE FailsEarly
  BY <1>4 DEF FailsEarly, Return, NoReport, NoWork, KindsRequested
<1>5. CASE RepairKind
  <2>1. tx' \in Database /\ (Default(wf.req) => Keeps(disk, tx', wf.req))
    BY <1>5, RepairKindTx
  <2>2. /\ DOMAIN wf' = DOMAIN wf /\ wf'.req = wf.req /\ wf'.kinds \subseteq wf.kinds
        /\ UNCHANGED <<disk, backup, pc, report, before>>
    BY <1>5 DEF RepairKind
  <2>3. KindsRequested'
    BY <2>2 DEF KindsRequested
  <2> QED BY <2>1, <2>2, <2>3
<1>6. CASE Judge
  <2>1. /\ DOMAIN wf' = DOMAIN wf /\ wf'.req = wf.req /\ wf'.kinds = wf.kinds
        /\ UNCHANGED <<disk, tx, backup, report, before>>
        /\ pc = "repair" /\ pc' = "judge"
    BY <1>6 DEF Judge
  <2>2. KindsRequested'
    BY <2>1 DEF KindsRequested
  <2> QED BY <2>1, <2>2
<1>7. CASE VerifyBeforeCommit
  BY <1>7 DEF VerifyBeforeCommit, Return, NoReport, NoWork, KindsRequested
<1>8. CASE Commit
  <2>1. /\ pc = "commit" /\ pc' = "verify" /\ disk' = tx
        /\ UNCHANGED <<tx, backup, wf, report, before>>
    BY <1>8 DEF Commit
  <2>2. Typed' /\ WorkShape' /\ CommitIsLast'
    BY <2>1
  <2>3. KindsRequested'
    BY <2>1 DEF KindsRequested
  <2>4. ReportTruthful' /\ BackupBeforeChange' /\ TxKeeps'
    BY <2>1
  <2> QED BY <2>2, <2>3, <2>4
<1>9. CASE CommitRaises
  <2>1. /\ pc = "commit" /\ pc' = "done" /\ wf' = NoWork /\ tx' = disk'
        /\ disk' \in {disk, tx} /\ UNCHANGED <<backup, before>>
    BY <1>9 DEF CommitRaises, Return
  <2>2. Typed' /\ WorkShape' /\ CommitIsLast' /\ BackupBeforeChange' /\ TxKeeps'
    BY <2>1 DEF NoWork
  <2>3. KindsRequested'
    BY <2>1 DEF KindsRequested
  <2>4. \/ report'.committed = "no" /\ disk' = disk
        \/ report'.committed = "unknown" /\ report'.recovery /\ ~report'.rolledBack
    BY <1>9 DEF CommitRaises, Return, NoReport
  <2>5. ReportTruthful'
    BY <2>1, <2>4
  <2> QED BY <2>2, <2>3, <2>5
<1>10. CASE VerifyAfterCommit
  <2>1. /\ pc = "verify" /\ pc' = "done" /\ wf' = NoWork
        /\ UNCHANGED <<disk, tx, backup, before>>
    BY <1>10 DEF VerifyAfterCommit, Return
  <2>2. Typed' /\ WorkShape' /\ CommitIsLast' /\ BackupBeforeChange' /\ TxKeeps'
    BY <2>1 DEF NoWork
  <2>3. KindsRequested'
    BY <2>1 DEF KindsRequested
  <2>4. report'.committed = "yes" /\ ~report'.rolledBack
    BY <1>10 DEF VerifyAfterCommit, Return, NoReport
  <2>5. ReportTruthful'
    BY <2>1, <2>4
  <2> QED BY <2>2, <2>3, <2>5
<1>11. CASE Death
  BY <1>11 DEF Death, Return, NoReport, NoWork, KindsRequested
<1>12. CASE UNCHANGED vars
  BY <1>12 DEF vars, KindsRequested
<1> QED
  BY <1>1, <1>2, <1>3, <1>4, <1>5, <1>6, <1>7, <1>8, <1>9, <1>10, <1>11, <1>12 DEF Next

(* The inductive invariant holds of every reachable state.                   *)
THEOREM RepairInvariant == Spec => []RepairInv
BY RepairInitInv, RepairStepInv, PTL DEF Spec

(* The report of _apply_profile_repairs says what happened to the database,  *)
(* whatever raised.                                                          *)
THEOREM ReportsAreTruthful == Spec => []ReportTruthful
<1>1. RepairInv => ReportTruthful
  BY DEF RepairInv
<1> QED BY <1>1, RepairInvariant, PTL

(* A changed profile has a verified backup of what it was.                   *)
THEOREM BackupComesFirst == Spec => []BackupBeforeChange
<1>1. RepairInv => BackupBeforeChange
  BY DEF RepairInv
<1> QED BY <1>1, RepairInvariant, PTL

(* The default repairs of repair_integrity lose no node, flag, edge between  *)
(* existing nodes, or embedding of the stored model, even when savepoints    *)
(* cannot be rolled back.                                                    *)
THEOREM DefaultRepairsPreserve == Spec => InformationPreserved
<1> DEFINE Kept == (disk' # disk /\ wf.req.actions \subseteq DefaultActions /\ wf.req.policy = "report") =>
       /\ disk'.row = disk.row /\ disk'.perm = disk.perm /\ disk'.core = disk.core
       /\ \A e \in disk.edges : {e[1], e[2]} \subseteq Exists(disk) => e \in disk'.edges
       /\ \A i \in Exists(disk) : (disk.emb[i] = "stored" /\ wf.req.model = "stored") =>
            disk'.emb[i] = "stored"
<1>1. ASSUME RepairInv, [Next]_vars PROVE Kept
  <2>1. ASSUME disk' # disk PROVE (Commit \/ CommitRaises) /\ disk' = tx /\ pc = "commit"
    BY <1>1, <2>1
       DEF Next, vars, BeginRepair, RejectRequest, CreateVerifiedBackup, FailsEarly, RepairKind,
           Judge, VerifyBeforeCommit, Commit, CommitRaises, VerifyAfterCommit, Death
  <2> QED BY <1>1, <2>1 DEF RepairInv, TxKeeps, Keeps, Default, Running
<1>2. RepairInv /\ [Next]_vars => [Kept]_vars
  BY <1>1
<1> QED BY <1>2, RepairInvariant, PTL DEF Spec, InformationPreserved

-----------------------------------------------------------------------------
(* What "completed" means.                                                   *)

(* An inspection that reads at least as many rows as there are reads them    *)
(* all.                                                                      *)
LEMMA FirstIdsAll ==
  ASSUME NEW S \in SUBSET Id, NEW k \in Nat, Cardinality(S) <= k
  PROVE  FirstIds(S, k) = S
<1>1. IsFiniteSet(S)
  <2>1. IsFiniteSet(Id)
    BY FS_Interval, RepairAssumption DEF Id
  <2> QED BY <2>1, FS_Subset
<1>2. ASSUME NEW i \in S PROVE Cardinality({j \in S : j < i}) < k
  <2> DEFINE T == {j \in S : j < i}
  <2>1. T \subseteq S /\ T # S
    <3>1. i \notin T
      BY RepairAssumption DEF Id
    <3> QED BY <3>1
  <2>2. Cardinality(T) < Cardinality(S) /\ Cardinality(T) \in Nat /\ Cardinality(S) \in Nat
    BY <1>1, <2>1, FS_Subset, FS_CardinalityType
  <2> QED BY <2>2
<1> QED BY <1>2 DEF FirstIds

(* A query that asks for k rows returns at most k.                            *)
LEMMA FirstIdsBounded ==
  ASSUME NEW M \in Nat, NEW S, S \subseteq 0..M, NEW k \in Nat
  PROVE  Cardinality(FirstIds(S, k)) \in 0..k
<1> DEFINE F == FirstIds(S, k)
<1>1. F \subseteq S
  BY DEF FirstIds
<1>2. IsFiniteSet(S) /\ IsFiniteSet(F)
  <2>1. IsFiniteSet(0..M)
    BY FS_Interval
  <2> QED BY <1>1, <2>1, FS_Subset
<1>3. CASE F = {}
  BY <1>3, FS_EmptySet
<1>4. CASE F # {}
  <2> DEFINE last == Max(F)
             below == {m \in S : m < last}
             rest == F \ {last}
  <2>1. last \in F /\ \A m \in F : m <= last
    BY <1>1, <1>4, GreatestNatural
  <2>2. Cardinality(below) < k
    BY <2>1 DEF FirstIds
  <2>3. rest \subseteq below
    <3> SUFFICES ASSUME NEW m \in rest PROVE m \in below
      OBVIOUS
    <3> HIDE DEF F, last
    <3>1. m \in S /\ m \in Nat /\ last \in Nat /\ m <= last /\ m # last
      BY <1>1, <2>1
    <3> QED BY <3>1
  <2>4. IsFiniteSet(below) /\ Cardinality(below) \in Nat
    <3>1. below \subseteq S
      OBVIOUS
    <3> QED BY <1>2, <3>1, FS_Subset, FS_CardinalityType
  <2> HIDE DEF below, rest, last, F
  <2>5. IsFiniteSet(rest) /\ Cardinality(rest) \in Nat /\ Cardinality(rest) <= Cardinality(below)
    BY <2>3, <2>4, FS_Subset, FS_CardinalityType
  <2>6. Cardinality(F) = Cardinality(rest) + 1
    <3>1. F = rest \cup {last} /\ last \notin rest
      BY <2>1 DEF rest
    <3> QED BY <2>5, <3>1, FS_AddElement
  <2>7. Cardinality(F) \in 0..k
    BY <2>2, <2>4, <2>5, <2>6
  <2> QED BY <2>7 DEF F
<1> QED BY <1>3, <1>4

(* A query that returned fewer rows than it asked for returned them all.     *)
LEMMA FirstIdsShort ==
  ASSUME NEW S \in SUBSET Id, NEW k \in Nat, Cardinality(FirstIds(S, k)) < k
  PROVE  FirstIds(S, k) = S
<1> DEFINE F == FirstIds(S, k)
           rest == S \ F
<1>1. SUFFICES ASSUME rest # {} PROVE FALSE
  BY DEF FirstIds
<1>2. S \subseteq Nat
  BY RepairAssumption DEF Id
<1>3. PICK m \in rest : \A j \in rest : m <= j
  BY <1>1, <1>2, LeastNatural
<1> DEFINE below == {j \in S : j < m}
<1>4. below \subseteq F
  <2> SUFFICES ASSUME NEW j \in S, j < m, j \notin F PROVE FALSE
    OBVIOUS
  <2>1. m <= j /\ m \in Nat /\ j \in Nat
    BY <1>2, <1>3
  <2> QED BY <2>1
<1>5. ~(Cardinality(below) < k)
  BY <1>3 DEF FirstIds
<1>6. IsFiniteSet(F)
  <2>1. IsFiniteSet(Id)
    BY FS_Interval, RepairAssumption DEF Id
  <2>2. F \subseteq Id
    BY DEF FirstIds
  <2> QED BY <2>1, <2>2, FS_Subset
<1> HIDE DEF below, F
<1>7. /\ Cardinality(below) \in Nat /\ Cardinality(F) \in Nat
      /\ Cardinality(below) <= Cardinality(F)
  BY <1>4, <1>6, FS_Subset, FS_CardinalityType
<1>8. Cardinality(F) < k
  BY DEF F
<1> QED BY <1>5, <1>7, <1>8

(* The rows of an inspection that found nothing wrong with the index: it has *)
(* read the whole index, and every row of it is the embedding of an active   *)
(* node; the embedded active nodes it has read are all there.                *)
LEMMA CleanIndex ==
  ASSUME NEW db \in Database, NEW r, "repair_vec" \in r.actions, Operational(db),
         NEW active \in ActiveNodes(db), Clean(Actionable(r, Counts(db, "stored", active)))
  PROVE  /\ FirstIds(Embedded(db), Cap) \cap active = Indexed(db)
         /\ \A i \in Indexed(db) : /\ i \in Active(db) /\ i \in Embedded(db)
                                   /\ Valid(db.vec[i]) /\ ~Mismatched(db, i) /\ Ready(db)
<1> DEFINE rows == FirstIds(Embedded(db), Cap)
           vecs == VecIds(db)
           live == rows \cap active
           bad == {j \in vecs \cap Embedded(db) : db.vec[j] = "bad"}
           wrong == {j \in vecs : Mismatched(db, j)}
           C == Counts(db, "stored", active)
<1>1. {"missing_vec", "stale_vec", "invalid_vec", "vec_mismatched"} \subseteq ActionableKeys(r)
  BY DEF ActionableKeys, KeysOf
<1>2. C.missing_vec = 0 /\ C.stale_vec = 0 /\ C.invalid_vec = 0 /\ C.vec_mismatched = 0
  BY <1>1 DEF Clean, Actionable
<1>3. /\ Cardinality(live \ vecs) = 0 /\ Cardinality(vecs \ live) = 0 /\ Cardinality(wrong) = 0
      /\ Cardinality(bad) + (IF Ready(db) THEN 0 ELSE 1) = 0
  BY <1>2 DEF Counts
<1>4. active \subseteq Active(db)
  BY DEF ActiveNodes, Limited
<1>5. rows \subseteq Embedded(db) /\ vecs \subseteq Indexed(db) /\ live \subseteq Active(db)
  BY <1>4 DEF FirstIds, VecIds
<1>6. Embedded(db) \in SUBSET Id /\ Indexed(db) \in SUBSET Id
  BY DEF Embedded, Indexed
<1>7. IsFiniteSet(live \ vecs) /\ IsFiniteSet(vecs \ live) /\ IsFiniteSet(bad) /\ IsFiniteSet(wrong)
  <2>1. IsFiniteSet(Id)
    BY FS_Interval, RepairAssumption DEF Id
  <2>2. live \ vecs \subseteq Id /\ vecs \ live \subseteq Id /\ bad \subseteq Id /\ wrong \subseteq Id
    BY <1>5, <1>6
  <2> HIDE DEF live, vecs, bad, wrong
  <2> QED BY <2>1, <2>2, FS_Subset
<1>8. Ready(db) /\ live = vecs /\ bad = {} /\ wrong = {}
  <2> DEFINE A == live \ vecs
             B == vecs \ live
  <2> HIDE DEF bad, wrong, A, B
  <2>1. Cardinality(bad) \in Nat
    BY <1>7, FS_CardinalityType
  <2>2. Cardinality(bad) = 0 /\ Ready(db)
    BY <1>3, <2>1
  <2>3. Cardinality(A) = 0 /\ Cardinality(B) = 0 /\ IsFiniteSet(A) /\ IsFiniteSet(B)
    BY <1>3, <1>7 DEF A, B
  <2>4. A = {} /\ B = {} /\ bad = {} /\ wrong = {}
    BY <1>3, <1>7, <2>2, <2>3, FS_EmptySet
  <2> HIDE DEF live, vecs
  <2>5. live = vecs
    BY <2>4 DEF A, B
  <2> QED BY <2>2, <2>4, <2>5
<1>9. vecs = Indexed(db)
  <2>1. Cap \in Nat /\ Id \subseteq 0..N /\ N \in Nat
    BY RepairAssumption DEF Id
  <2>2. Cardinality(rows) \in 0..Cap
    <3>1. Embedded(db) \subseteq 0..N
      BY <1>6, <2>1
    <3> QED BY <2>1, <3>1, FirstIdsBounded
  <2>3. Cardinality(vecs) <= Cardinality(rows) /\ Cardinality(vecs) \in Nat
    <3>1. IsFiniteSet(rows)
      <4>1. IsFiniteSet(Id) /\ rows \subseteq Id
        BY <1>5, <1>6, FS_Interval, RepairAssumption DEF Id
      <4> QED BY <4>1, FS_Subset
    <3>2. vecs \subseteq rows
      BY <1>8
    <3> HIDE DEF vecs, rows
    <3> QED BY <3>1, <3>2, FS_Subset, FS_CardinalityType
  <2>4. Cardinality(vecs) < Cap + 1
    <3> HIDE DEF vecs, rows
    <3> QED BY <2>1, <2>2, <2>3
  <2>5. Cap + 1 \in Nat /\ vecs = FirstIds(Indexed(db), Cap + 1)
    BY <2>1 DEF VecIds
  <2> HIDE DEF vecs
  <2> QED BY <1>6, <2>4, <2>5, FirstIdsShort
<1>10. live = Indexed(db)
  BY <1>8, <1>9
<1>11. ASSUME NEW i \in Indexed(db)
       PROVE  i \in Active(db) /\ i \in Embedded(db) /\ Valid(db.vec[i]) /\ ~Mismatched(db, i)
  <2>1. i \in vecs /\ i \in live
    BY <1>9, <1>10
  <2>2. i \in Active(db) /\ i \in Embedded(db)
    BY <1>5, <2>1
  <2>3. db.vec[i] # "bad" /\ ~Mismatched(db, i)
    BY <1>8, <2>1, <2>2
  <2>4. db.vec[i] \in Vector /\ db.vec[i] # "none"
    BY DEF Indexed, Database
  <2> QED BY <2>2, <2>3, <2>4 DEF Valid, Vector, Model
<1> QED BY <1>8, <1>10, <1>11

(* An index repair that reports "completed", by the fresh inspection of      *)
(* _repair_verification_matches, leaves no row in the index that is not the  *)
(* embedding of an active node, however large the profile; an embedded       *)
(* active node is missing from it only beyond what an inspection reads.      *)
THEOREM CompletedMeansClean == Spec => CompletedIsClean
<1> DEFINE Sound == \A i \in Indexed(disk) :
                      /\ disk.row[i] = "active" /\ disk.emb[i] # "none" /\ Valid(disk.vec[i])
                      /\ Valid(disk.emb[i]) => disk.vec[i] = disk.emb[i]
           Whole == \A i \in Active(disk) : (Valid(disk.emb[i]) /\ disk.vec[i] = "none") =>
                      Cardinality(Embedded(disk)) > Cap \/ Cardinality(Active(disk)) > Cap + 1
           Kept == (/\ pc = "verify" /\ report'.status = "completed"
                    /\ "repair_vec" \in wf.req.actions /\ Operational(disk)) => Sound /\ Whole
<1>1. ASSUME RepairInv, Next, pc = "verify", report'.status = "completed",
             "repair_vec" \in wf.req.actions, Operational(disk)
      PROVE  Sound /\ Whole
  <2>1. VerifyAfterCommit \/ Death
    BY <1>1
       DEF Next, BeginRepair, RejectRequest, CreateVerifiedBackup, FailsEarly, RepairKind,
           Judge, VerifyBeforeCommit, Commit, CommitRaises
  <2>2. ~Death
    BY <1>1 DEF Death, Return, NoReport
  <2>3. PICK active \in ActiveNodes(disk) : VerificationMatches(disk, active) /\ wf.status = "completed"
    BY <1>1, <2>1, <2>2 DEF VerifyAfterCommit, Return, NoReport
  <2>4. Clean(Actionable(wf.req, Counts(disk, "stored", active)))
    BY <2>3 DEF VerificationMatches
  <2>5. disk \in Database
    BY <1>1 DEF RepairInv, Typed
  <2>6. /\ FirstIds(Embedded(disk), Cap) \cap active = Indexed(disk)
        /\ \A i \in Indexed(disk) : /\ i \in Active(disk) /\ i \in Embedded(disk)
                                    /\ Valid(disk.vec[i]) /\ ~Mismatched(disk, i) /\ Ready(disk)
    BY <1>1, <2>4, <2>5, CleanIndex
  <2>7. Sound
    BY <2>6 DEF Mismatched, Matches, Ready, Active, Embedded
  <2>8. ASSUME NEW i \in Active(disk), Valid(disk.emb[i]), disk.vec[i] = "none",
               ~(Cardinality(Embedded(disk)) > Cap), ~(Cardinality(Active(disk)) > Cap + 1)
        PROVE  FALSE
    <3>1. Embedded(disk) \in SUBSET Id /\ Active(disk) \in SUBSET Id /\ Cap \in Nat
      BY RepairAssumption DEF Embedded, Active
    <3>2. IsFiniteSet(Embedded(disk)) /\ IsFiniteSet(Active(disk))
      <4>1. IsFiniteSet(Id)
        BY FS_Interval, RepairAssumption DEF Id
      <4> QED BY <3>1, <4>1, FS_Subset
    <3>3. Cardinality(Embedded(disk)) \in Nat /\ Cardinality(Active(disk)) \in Nat
      BY <3>2, FS_CardinalityType
    <3>4. FirstIds(Embedded(disk), Cap) = Embedded(disk)
      BY <2>8, <3>1, <3>3, FirstIdsAll
    <3>5. active = Active(disk)
      <4>1. CASE Cardinality(active) = Cap + 1
        <5>1. active \subseteq Active(disk)
          BY DEF ActiveNodes, Limited
        <5>2. Cardinality(active) = Cardinality(Active(disk))
          <6>1. Cardinality(active) <= Cardinality(Active(disk))
            BY <3>2, <5>1, FS_Subset
          <6> QED BY <2>8, <3>1, <3>3, <4>1, <6>1
        <5> QED BY <3>2, <5>1, <5>2, FS_Subset
      <4> QED BY <4>1 DEF ActiveNodes, Limited
    <3>6. i \in Embedded(disk)
      BY <2>8, <3>1 DEF Embedded, Valid, Model
    <3>7. i \in Indexed(disk)
      BY <2>6, <3>4, <3>5, <3>6
    <3> QED BY <2>8, <3>7 DEF Indexed
  <2> QED BY <2>7, <2>8
<1>2. RepairInv /\ [Next]_vars => [Kept]_vars
  BY <1>1
<1> QED BY <1>2, RepairInvariant, PTL DEF Spec, CompletedIsClean

-----------------------------------------------------------------------------
(* Repair: types.                                                             *)

(* Positions are bounded, so that every query has finitely many rows.         *)
LEMMA RowsBounded ==
  ASSUME NEW db \in Database, NEW kind \in KindNames
  PROVE  \E M \in Nat : Rows(kind, db) \subseteq 0..M
<1> DEFINE W == N + 1
           M == N * W + N
<1>1. N \in Nat /\ W \in Nat /\ N * W \in Nat /\ M \in Nat /\ N <= M
  BY RepairAssumption
<1>2. ASSUME NEW e \in Id \X Id PROVE Position(e) \in 0..M
  <2>1. e[1] \in Nat /\ e[2] \in Nat /\ e[1] <= N /\ e[2] <= N
    BY <1>1 DEF Id
  <2>2. PICK d \in Nat : N = e[1] + d
    <3>1. N - e[1] \in Nat /\ N = e[1] + (N - e[1])
      BY <1>1, <2>1
    <3> QED BY <3>1
  <2>3. N * W = e[1] * W + d * W
    BY <1>1, <2>1, <2>2
  <2>4. e[1] * W \in Nat /\ d * W \in Nat /\ Position(e) = e[1] * W + e[2]
    BY <1>1, <2>1 DEF Position
  <2> DEFINE p == e[1] * W
             q == d * W
             t == N * W
  <2>5. t = p + q /\ p \in Nat /\ q \in Nat /\ t \in Nat /\ M = t + N /\ Position(e) = p + e[2]
    BY <1>1, <2>3, <2>4
  <2> HIDE DEF p, q, t, M, W
  <2> QED BY <1>1, <2>1, <2>5
<1> HIDE DEF M, W
<1>3. Id \subseteq 0..M
  BY <1>1 DEF Id
<1>4. CASE kind \in {"orphan_edge", "self_edge"}
  <2>1. db.edges \subseteq Id \X Id
    BY DEF Database
  <2>2. OrphanEdges(db) \subseteq Id \X Id /\ {x \in db.edges : x[1] = x[2]} \subseteq Id \X Id
    BY <2>1 DEF OrphanEdges
  <2>3. Rows(kind, db) \subseteq {Position(e) : e \in Id \X Id}
    BY <1>4, <2>2 DEF Rows
  <2>4. {Position(e) : e \in Id \X Id} \subseteq 0..M
    BY <1>2
  <2> QED BY <1>1, <2>3, <2>4
<1>5. CASE kind \notin {"orphan_edge", "self_edge"}
  <2>1. db.perm \subseteq Id /\ db.core \subseteq Id
    BY DEF Database
  <2>2. Rows(kind, db) \subseteq Id
    BY <1>5, <2>1 DEF Rows, KindNames, Embedded, Indexed, Active, Exists
  <2> QED BY <1>1, <1>3, <2>2
<1> QED BY <1>4, <1>5

(* The items that are left, and what may be reported.                         *)
ItemsTyped ==
  /\ before \in Database /\ backup \subseteq Database
  /\ wf.left \in 0..MaxItems
  /\ wf.status \in {"none", "partial", "completed"}
  /\ report.status \in {"none", "unavailable", "partial", "completed"}
  /\ report.committed \in {"yes", "no", "unknown"}

LEMMA ItemsInit == Init => ItemsTyped
BY RepairAssumption DEF Init, ItemsTyped, NoWork, NoReport

(* A kind of repair is charged for the rows it reads, never for more than are *)
(* left.                                                                      *)
LEMMA ItemsCharged ==
  ASSUME RepairInv, ItemsTyped, RepairKind
  PROVE  wf'.left \in 0..MaxItems /\ wf'.status = wf.status
<1>1. PICK k \in wf.kinds : \E imperfect :
        wf' = [wf EXCEPT !.kinds = @ \ {k}, !.left = @ - Cardinality(Considered(Kinds[k])),
                         !.imperfect = imperfect]
  <2>1. PICK k \in wf.kinds : \E failed :
          LET kind == Kinds[k]
              r == wf.req
              seen == Considered(kind)
              skipped == {i \in seen : Skip(kind, r, tx, i) /\ Broken(kind, r, tx, i)}
          IN wf' = [wf EXCEPT !.kinds = @ \ {k}, !.left = @ - Cardinality(seen),
                              !.imperfect = @ \/ skipped # {} \/ failed # {}]
    BY DEF RepairKind
  <2> QED BY <2>1
<1> DEFINE seen == Considered(Kinds[k])
           left == wf.left - Cardinality(seen)
<1>2. wf'.left = left /\ wf'.status = wf.status
  <2> DEFINE kinds == wf.kinds \ {k}
  <2>1. PICK imperfect : wf' = [wf EXCEPT !.kinds = kinds, !.left = left, !.imperfect = imperfect]
    BY <1>1
  <2> HIDE DEF left, kinds
  <2> QED BY <2>1 DEF RepairInv, WorkShape
<1>3. Kinds[k] \in KindNames /\ tx \in Database
  BY KindsNamed DEF RepairInv, Typed, KindsRequested, RepairKind, Running
<1> DEFINE take == Min({Batch, MaxItems, wf.left})
           rows == Rows(Kinds[k], tx)
<1>4. take \in Nat /\ take <= wf.left
  <2> DEFINE l == wf.left
             S == {Batch, MaxItems, l}
             least == IF Batch <= MaxItems THEN (IF Batch <= l THEN Batch ELSE l)
                      ELSE (IF MaxItems <= l THEN MaxItems ELSE l)
  <2>1. l \in Nat /\ Batch \in Nat /\ MaxItems \in Nat
    BY RepairAssumption DEF ItemsTyped
  <2> HIDE DEF l
  <2>2. least \in S /\ \A y \in S : least <= y
    BY <2>1
  <2> HIDE DEF least
  <2>3. Min(S) \in S /\ \A y \in S : Min(S) <= y
    BY <2>2 DEF Min
  <2>4. Min(S) \in Nat /\ Min(S) <= l
    BY <2>1, <2>3
  <2> QED BY <2>4 DEF l
<1>5. PICK M \in Nat : rows \subseteq 0..M
  BY <1>3, RowsBounded
<1>6. seen = FirstIds(rows, take)
  BY DEF Considered
<1> HIDE DEF take, rows, seen
<1>7. Cardinality(seen) \in 0..take
  BY <1>4, <1>5, <1>6, FirstIdsBounded
<1>8. left \in 0..MaxItems
  <2> DEFINE l == wf.left
             c == Cardinality(seen)
  <2>1. l \in 0..MaxItems /\ MaxItems \in Nat /\ c \in 0..take /\ take \in Nat /\ take <= l
    BY <1>4, <1>7, RepairAssumption DEF ItemsTyped
  <2>2. left = l - c
    OBVIOUS
  <2> HIDE DEF l, c, left
  <2> QED BY <2>1, <2>2
<1> QED BY <1>2, <1>8

LEMMA ItemsStep == RepairInv /\ ItemsTyped /\ [Next]_vars => ItemsTyped'
<1> SUFFICES ASSUME RepairInv, ItemsTyped, [Next]_vars PROVE ItemsTyped'
  OBVIOUS
<1> USE RepairAssumption DEF ItemsTyped
<1>0. disk \in Database /\ tx \in Database
  BY DEF RepairInv, Typed
<1>1. ASSUME NEW r \in Requests, BeginRepair(r) PROVE ItemsTyped'
  <2>1. wf'.left = MaxItems /\ wf'.status = "none" /\ report' = NoReport
    BY <1>1 DEF BeginRepair, NoWork
  <2> QED BY <1>0, <1>1, <2>1 DEF BeginRepair, NoReport
<1>2. ASSUME NEW rep, Return(rep), UNCHANGED backup,
             rep.status \in {"none", "unavailable", "partial", "completed"},
             rep.committed \in {"yes", "no", "unknown"}
      PROVE  ItemsTyped'
  BY <1>2 DEF Return, NoWork
<1>3. CASE RejectRequest
  BY <1>2, <1>3 DEF RejectRequest, NoReport
<1>4. CASE CreateVerifiedBackup
  BY <1>0, <1>4 DEF CreateVerifiedBackup
<1>5. CASE FailsEarly
  BY <1>2, <1>5 DEF FailsEarly, NoReport
<1>6. CASE RepairKind
  <2>1. UNCHANGED <<backup, report, before>>
    BY <1>6 DEF RepairKind
  <2> QED BY <1>6, <2>1, ItemsCharged
<1>7. CASE Judge
  <2>0. PICK active : wf' =
          LET left == Actionable(wf.req, Counts(tx, wf.req.model, active)) IN
            [wf EXCEPT !.remaining = left,
                       !.status = IF wf.imperfect \/ ~Clean(left) THEN "partial" ELSE "completed"]
    BY <1>7 DEF Judge
  <2> DEFINE left == Actionable(wf.req, Counts(tx, wf.req.model, active))
             verdict == IF wf.imperfect \/ ~Clean(left) THEN "partial" ELSE "completed"
  <2>1. /\ wf' = [wf EXCEPT !.remaining = left, !.status = verdict]
        /\ UNCHANGED <<backup, report, before>> /\ verdict \in {"partial", "completed"}
    BY <1>7, <2>0 DEF Judge
  <2> HIDE DEF left, verdict
  <2>2. wf'.left = wf.left /\ wf'.status = verdict
    BY <2>1 DEF RepairInv, WorkShape
  <2> QED BY <2>1, <2>2
<1>8. CASE VerifyBeforeCommit
  BY <1>2, <1>8 DEF VerifyBeforeCommit, NoReport
<1>9. CASE Commit
  BY <1>9 DEF Commit
<1>10. CASE CommitRaises
  BY <1>2, <1>10 DEF CommitRaises, NoReport
<1>11. CASE VerifyAfterCommit
  BY <1>2, <1>11 DEF VerifyAfterCommit, NoReport
<1>12. CASE Death
  BY <1>2, <1>12 DEF Death, NoReport
<1>13. CASE UNCHANGED vars
  BY <1>13 DEF vars
<1> QED
  BY <1>1, <1>3, <1>4, <1>5, <1>6, <1>7, <1>8, <1>9, <1>10, <1>11, <1>12, <1>13 DEF Next

(* Type correctness of the repair.  The budget of items never runs below zero *)
(* although it is charged for every row that a query returned, repaired or    *)
(* not.                                                                       *)
THEOREM RepairTypeCorrect == Spec => []TypeOK
<1>1. Spec => []ItemsTyped
  BY ItemsInit, ItemsStep, RepairInvariant, PTL DEF Spec
<1>2. RepairInv /\ ItemsTyped => TypeOK
  BY DEF RepairInv, Typed, Running, ItemsTyped, TypeOK
<1> QED BY <1>1, <1>2, RepairInvariant, PTL

-----------------------------------------------------------------------------
(* Audit: the invariant.                                                      *)

Scans == Defects \cup {"provenance"}

(* Records keep their fields, and every wait for a verdict ends in one.       *)
AuditShape ==
  /\ snap = [file |-> snap.file, log |-> snap.log]
  /\ leases = [shared |-> leases.shared, exclusive |-> leases.exclusive]
  /\ budget = [rows |-> budget.rows, late |-> budget.late, incomplete |-> budget.incomplete]
  /\ profile \in Profile
  /\ stage \in {"idle", "copy", "verify", "inspect", "done"}
  /\ scans \in Seq(Scans)
  /\ stage # "done" => status = "none"
  /\ known \in BOOLEAN

(* Until the verdict a cutoff is remembered among the incomplete reasons.     *)
CutoffNoted == cut /\ stage # "done" => budget.incomplete # {}

(* Which scans may still report a defect of the copy: those that are left.    *)
Pending(d) == \E i \in 1..Len(scans) : scans[i] = d

(* Defects that the verification never misses.                                *)
Verified == {"version", "file", "schema", "columns", "identity", "model"}

(* As long as nothing was cut off, a reason means that something is wrong or  *)
(* faulted; without any, each defect is still going to be scanned for, by the  *)
(* inspection those that the verification does not look for or may miss.      *)
ReasonsRight ==
  /\ stage \in {"idle", "copy"} => reasons = {}
  /\ (stage \in {"verify", "inspect"} /\ budget.incomplete = {}) =>
       (reasons # {} => SnapshotDefects # {} \/ faulted)
  /\ (stage = "verify" /\ budget.incomplete = {} /\ reasons = {}) =>
       \A d \in SnapshotDefects \cap Verified : Pending(d)
  /\ (stage = "inspect" /\ budget.incomplete = {} /\ reasons = {}) =>
       \A d \in SnapshotDefects : d \notin Verified /\ Pending(d)

AuditInv == AuditShape /\ CutoffNoted /\ CutoffReported /\ ReasonsRight

LEMMA AuditInitInv == AuditInit => AuditInv
BY AuditAssumption
   DEF AuditInit, AuditInv, AuditShape, CutoffNoted, CutoffReported, ReasonsRight, NoCopy

(* Between the copy and the verdict, what is wrong with the copy is fixed.    *)
LEMMA DefectsFixed ==
  ASSUME stage # "copy", UNCHANGED profile, UNCHANGED snap, UNCHANGED committed
  PROVE  SnapshotDefects' = SnapshotDefects
BY DEF SnapshotDefects, CopyTorn, Contents

LEMMA DefectsKnown == profile \in Profile => SnapshotDefects \subseteq Defects
BY DEF SnapshotDefects, Profile, Defects

LEMMA TailScans ==
  ASSUME scans \in Seq(Scans), scans # <<>>
  PROVE  /\ Head(scans) \in Scans /\ Tail(scans) \in Seq(Scans)
         /\ \A d : Pending(d) => d = Head(scans) \/ \E i \in 1..Len(Tail(scans)) : Tail(scans)[i] = d
<1>1. Head(scans) \in Scans /\ Tail(scans) \in Seq(Scans)
  OBVIOUS
<1>2. ASSUME NEW i \in 1..Len(scans), scans[i] # Head(scans)
      PROVE  \E j \in 1..Len(Tail(scans)) : Tail(scans)[j] = scans[i]
  <2>1. i # 1 /\ i - 1 \in 1..Len(Tail(scans)) /\ Tail(scans)[i - 1] = scans[i]
    BY <1>2
  <2> QED BY <2>1
<1> QED BY <1>1, <1>2 DEF Pending

(* Reading never forgets why it stopped.                                      *)
LEMMA SpentKeeps ==
  ASSUME AuditShape, NEW s
  PROVE  /\ Spent(s) = [rows |-> Spent(s).rows, late |-> Spent(s).late, incomplete |-> Spent(s).incomplete]
         /\ budget.incomplete \subseteq Spent(s).incomplete
         /\ Completes(s) <=> Spent(s).incomplete = {}
<1> DEFINE r == IF BudgetReady THEN Min({RowCap, budget.rows + Cost(s)}) ELSE budget.rows
           i == budget.incomplete \cup (IF budget.late THEN {"audit_deadline"} ELSE {})
                  \cup (IF BudgetReady /\ budget.rows + Cost(s) > RowCap THEN {"audit_row_cap"} ELSE {})
<1>1. Spent(s) = [budget EXCEPT !.rows = r, !.incomplete = i] /\ budget.incomplete \subseteq i
  BY DEF Spent
<1> HIDE DEF r, i
<1>2. budget = [rows |-> budget.rows, late |-> budget.late, incomplete |-> budget.incomplete]
  BY DEF AuditShape
<1> QED BY <1>1, <1>2 DEF Completes

(* A verdict that is not drawn from a cut-off audit keeps the invariant.      *)
LEMMA LeaveKeeps ==
  ASSUME AuditInv, NEW v, Leave(v), UNCHANGED profile, known' \in BOOLEAN,
         budget' = [rows |-> budget'.rows, late |-> budget'.late, incomplete |-> budget'.incomplete],
         cut' => v \notin {"ok", "findings"}
  PROVE  AuditInv'
<1>1. /\ stage' = "done" /\ scans' = <<>> /\ snap' = NoCopy /\ status' = v
      /\ leases' = [leases EXCEPT !.shared = @ \ {"audit"}]
  BY DEF Leave
<1>2. leases' = [shared |-> leases'.shared, exclusive |-> leases'.exclusive]
  BY <1>1 DEF AuditInv, AuditShape
<1>3. snap' = [file |-> snap'.file, log |-> snap'.log] /\ scans' \in Seq(Scans)
  BY <1>1 DEF NoCopy
<1>4. AuditShape'
  BY <1>1, <1>2, <1>3 DEF AuditInv, AuditShape
<1> QED BY <1>1, <1>4 DEF AuditInv, CutoffNoted, CutoffReported, ReasonsRight

LEMMA AuditStepInv == AuditInv /\ [AuditNext]_auditVars => AuditInv'
<1> SUFFICES ASSUME AuditInv, [AuditNext]_auditVars PROVE AuditInv'
  OBVIOUS
<1> USE DEF AuditInv
<1>1. ASSUME NEW w \in Turns \cup Maintainers, Acquire(w) \/ Release(w) \/ CommitTx(w) \/ Checkpoint(w)
      PROVE  AuditInv'
  <2>1. /\ UNCHANGED audit /\ UNCHANGED profile
        /\ leases' = [shared |-> leases'.shared, exclusive |-> leases'.exclusive]
        /\ stage # "copy" => UNCHANGED committed
    BY <1>1 DEF Acquire, Release, CommitTx, Checkpoint, AuditShape
  <2>2. AuditShape' /\ CutoffNoted' /\ CutoffReported'
    BY <2>1 DEF audit, AuditShape, CutoffNoted, CutoffReported
  <2>3. CASE stage = "copy" \/ stage \notin {"verify", "inspect"}
    BY <2>1, <2>2, <2>3 DEF audit, ReasonsRight
  <2>4. CASE stage \in {"verify", "inspect"}
    <3>1. SnapshotDefects' = SnapshotDefects
      BY <2>1, <2>4, DefectsFixed DEF audit
    <3> QED BY <2>1, <2>2, <2>4, <3>1 DEF audit, ReasonsRight, Pending
  <2> QED BY <2>3, <2>4
<1>2. CASE AuditAdmits
  BY <1>2 DEF AuditAdmits, reads, AuditShape, CutoffNoted, CutoffReported, ReasonsRight
<1>3. CASE AuditTooLarge
  <2>1. /\ UNCHANGED profile /\ known' \in BOOLEAN
        /\ budget' = [rows |-> budget'.rows, late |-> budget'.late, incomplete |-> budget'.incomplete]
    BY <1>3 DEF AuditTooLarge, AuditShape, reads
  <2> QED BY <1>3, <2>1, LeaveKeeps DEF AuditTooLarge
<1>4. CASE AuditRefused
  <2>1. /\ UNCHANGED profile /\ known' \in BOOLEAN
        /\ budget' = [rows |-> budget'.rows, late |-> budget'.late, incomplete |-> budget'.incomplete]
    BY <1>4 DEF AuditRefused, AuditShape, reads
  <2> QED BY <1>4, <2>1, LeaveKeeps DEF AuditRefused
<1>5. ASSUME NEW p \in Page, CopyPage(p) PROVE AuditInv'
  BY <1>5 DEF CopyPage, reads, AuditShape, CutoffNoted, CutoffReported, ReasonsRight
<1>6. CASE CopyLog
  <2>1. Verification \in Seq(Scans) /\ Len(Verification) = 7
    BY DEF Verification, Defects, Scans
  <2>2. \A d \in Verified : \E i \in 1..7 : Verification[i] = d
    BY DEF Verification, Verified
  <2>3. \A d \in Verified : Pending(d)'
    BY <1>6, <2>1, <2>2 DEF CopyLog, Pending
  <2> QED BY <1>6, <2>1, <2>3
          DEF CopyLog, reads, AuditShape, CutoffNoted, CutoffReported, ReasonsRight
<1>7. CASE DeadlinePasses
  <2>1. AuditShape' /\ CutoffNoted' /\ CutoffReported' /\ budget'.incomplete = budget.incomplete
    BY <1>7 DEF DeadlinePasses, reads, AuditShape, CutoffNoted, CutoffReported
  <2>2. SnapshotDefects' = SnapshotDefects
    BY <1>7 DEF DeadlinePasses, SnapshotDefects, CopyTorn, Contents
  <2> QED BY <1>7, <2>1, <2>2 DEF DeadlinePasses, reads, ReasonsRight, Pending
<1>8. CASE CopyCutOff
  <2>1. /\ UNCHANGED profile /\ known' \in BOOLEAN
        /\ budget' = [rows |-> budget'.rows, late |-> budget'.late, incomplete |-> budget'.incomplete]
    BY <1>8 DEF CopyCutOff, AuditShape, reads
  <2> QED BY <1>8, <2>1, LeaveKeeps DEF CopyCutOff
<1>9. CASE OpenFails
  <2>1. /\ UNCHANGED profile /\ known' \in BOOLEAN
        /\ budget' = [rows |-> budget'.rows, late |-> budget'.late, incomplete |-> budget'.incomplete]
    BY <1>9 DEF OpenFails, AuditShape, reads
  <2> QED BY <1>9, <2>1, LeaveKeeps DEF OpenFails
<1>10. ASSUME stage = "verify", scans # <<>>, UNCHANGED <<profile, committed, known>>,
              NEW w \in BOOLEAN, VerifyEnds(Head(scans), w), faulted => faulted',
              \/ (w /\ faulted') \/ ~Completes(Head(scans))
              \/ w = (Head(scans) \in SnapshotDefects)
              \/ Head(scans) \notin Verified /\ Head(scans) \in SnapshotDefects,
              faulted' => w \/ faulted
       PROVE  AuditInv'
  <2> DEFINE s == Head(scans)
  <2>1. /\ s \in Scans /\ Tail(scans) \in Seq(Scans)
        /\ Spent(s) = [rows |-> Spent(s).rows, late |-> Spent(s).late, incomplete |-> Spent(s).incomplete]
        /\ budget.incomplete \subseteq Spent(s).incomplete
        /\ Completes(s) <=> Spent(s).incomplete = {}
        /\ \A d : Pending(d) => d = s \/ \E i \in 1..Len(Tail(scans)) : Tail(scans)[i] = d
    BY <1>10, TailScans, SpentKeeps DEF AuditShape
  <2>2. /\ budget' = Spent(s) /\ cut' = (cut \/ ~Completes(s))
        /\ IF w /\ budget'.incomplete # {}
             THEN Leave("audit_incomplete") /\ UNCHANGED reasons
             ELSE /\ reasons' = IF w THEN {"profile_verification_failed"} ELSE reasons
                  /\ scans' = IF w THEN <<>> ELSE Tail(scans)
                  /\ UNCHANGED <<stage, status, leases, snap>>
    BY <1>10 DEF VerifyEnds
  <2>3. /\ stage = "verify" /\ UNCHANGED <<profile, committed, known>> /\ (faulted => faulted')
        /\ faulted' => w \/ faulted
        /\ \/ (w /\ faulted') \/ ~Completes(s) \/ w = (s \in SnapshotDefects)
           \/ s \notin Verified /\ s \in SnapshotDefects
    BY <1>10
  <2> HIDE DEF s
  <2>4. CASE w /\ budget'.incomplete # {}
    BY <2>1, <2>2, <2>3, <2>4
       DEF Leave, NoCopy, AuditShape, CutoffNoted, CutoffReported, ReasonsRight
  <2>5. CASE ~(w /\ budget'.incomplete # {})
    <3>1. /\ reasons' = IF w THEN {"profile_verification_failed"} ELSE reasons
          /\ scans' = IF w THEN <<>> ELSE Tail(scans)
          /\ UNCHANGED <<stage, status, leases, snap>>
      BY <2>2, <2>5
    <3>2. SnapshotDefects' = SnapshotDefects
      BY <2>3, <3>1, DefectsFixed
    <3>3. scans' \in Seq(Scans)
      BY <2>1, <3>1
    <3>4. AuditShape'
      BY <2>1, <2>2, <2>3, <3>1, <3>3 DEF AuditShape
    <3>5. CutoffNoted' /\ CutoffReported'
      BY <2>1, <2>2, <2>3, <3>1 DEF AuditShape, CutoffNoted, CutoffReported
    <3>6. CASE budget'.incomplete = {}
      <4>1. budget.incomplete = {} /\ Completes(s)
        BY <2>1, <2>2, <3>6
      <4>2. CASE w
        BY <2>3, <3>1, <3>2, <3>4, <3>5, <3>6, <4>1, <4>2 DEF ReasonsRight
      <4>3. CASE ~w
        <5>1. \A d : Pending(d) => d = s \/ Pending(d)'
          BY <2>1, <3>1, <4>3 DEF Pending
        <5>2. reasons # {} => SnapshotDefects # {} \/ faulted
          BY <2>3, <4>1 DEF ReasonsRight
        <5>3. reasons = {} => \A d \in SnapshotDefects \cap Verified : Pending(d)
          BY <2>3, <4>1 DEF ReasonsRight
        <5>4. faulted' => faulted
          BY <2>3, <4>3
        <5>5. reasons = {} => \A d \in SnapshotDefects \cap Verified : Pending(d)' \/ d = s
          BY <5>1, <5>3
        <5>6. s \notin SnapshotDefects \/ s \notin Verified
          BY <2>3, <4>1, <4>3
        <5>7. reasons = {} => \A d \in SnapshotDefects \cap Verified : Pending(d)'
          BY <5>5, <5>6
        <5>8. faulted => faulted'
          BY <2>3
        <5> QED BY <2>3, <3>1, <3>2, <3>4, <3>5, <3>6, <4>3, <5>2, <5>7, <5>8 DEF ReasonsRight
      <4> QED BY <4>2, <4>3
    <3>7. CASE budget'.incomplete # {}
      BY <2>3, <3>1, <3>4, <3>5, <3>7 DEF ReasonsRight
    <3> QED BY <3>6, <3>7
  <2> QED BY <2>4, <2>5
<1>11. CASE VerifyScan
  <2>1. /\ stage = "verify" /\ scans # <<>> /\ UNCHANGED <<profile, committed, known, faulted>>
    BY <1>11 DEF VerifyScan, reads
  <2>2. PICK w \in Looks(Head(scans)) : VerifyEnds(Head(scans), w)
    BY <1>11 DEF VerifyScan
  <2>3. /\ w \in BOOLEAN
        /\ \/ ~Completes(Head(scans)) \/ w = (Head(scans) \in SnapshotDefects)
           \/ Head(scans) \notin Verified /\ Head(scans) \in SnapshotDefects
    BY <2>2 DEF Looks, Verified
  <2> QED BY <1>10, <2>1, <2>2, <2>3
<1>16. CASE VerifyRaises
  <2>1. /\ stage = "verify" /\ scans # <<>> /\ UNCHANGED <<profile, committed, known>>
        /\ VerifyEnds(Head(scans), TRUE) /\ faulted'
    BY <1>16 DEF VerifyRaises
  <2> QED BY <1>10, <2>1
<1>17. CASE VerifyDone
  <2>1. /\ stage = "verify" /\ scans = <<>> /\ stage' = "inspect" /\ scans' = Inspection
        /\ UNCHANGED <<leases, profile, snap, budget, reasons, status, committed, cut, known, faulted>>
    BY <1>17 DEF VerifyDone, reads
  <2>2. Inspection \in Seq(Scans) /\ Len(Inspection) = 11
    BY DEF Inspection, Defects, Scans
  <2>3. \A d \in Defects \ Verified : \E i \in 1..11 : Inspection[i] = d
    BY DEF Inspection, Defects, Verified
  <2>4. SnapshotDefects' = SnapshotDefects /\ SnapshotDefects \subseteq Defects
    BY <2>1, DefectsFixed, DefectsKnown DEF AuditShape
  <2>5. \A d \in Defects \ Verified : Pending(d)'
    BY <2>1, <2>2, <2>3 DEF Pending
  <2>6. AuditShape' /\ CutoffNoted' /\ CutoffReported'
    BY <2>1, <2>2 DEF AuditShape, CutoffNoted, CutoffReported
  <2>7. \A d : ~Pending(d)
    BY <2>1 DEF Pending
  <2> QED BY <2>1, <2>4, <2>5, <2>6, <2>7 DEF ReasonsRight
<1>18. ASSUME stage = "inspect", scans # <<>>, scans' = Tail(scans),
              UNCHANGED <<leases, profile, stage, snap, status, committed>>,
              known' \in BOOLEAN, faulted => faulted',
              budget' = [rows |-> budget'.rows, late |-> budget'.late, incomplete |-> budget'.incomplete],
              budget.incomplete \subseteq budget'.incomplete,
              cut' => cut \/ budget'.incomplete # {},
              budget'.incomplete = {} =>
                /\ reasons \subseteq reasons'
                /\ reasons' # reasons => SnapshotDefects # {} \/ faulted'
                /\ reasons' # {} \/ Head(scans) \notin SnapshotDefects \/ Head(scans) \in Verified
       PROVE  AuditInv'
  <2>1. SnapshotDefects' = SnapshotDefects
    BY <1>18, DefectsFixed
  <2>2. /\ Tail(scans) \in Seq(Scans)
        /\ \A d : Pending(d) => d = Head(scans) \/ Pending(d)'
    BY <1>18, TailScans DEF AuditShape, Pending
  <2>3. AuditShape'
    BY <1>18, <2>2 DEF AuditShape
  <2>4. CutoffNoted' /\ CutoffReported'
    BY <1>18 DEF AuditShape, CutoffNoted, CutoffReported
  <2>5. CASE budget'.incomplete # {}
    BY <1>18, <2>3, <2>4, <2>5 DEF ReasonsRight
  <2>6. CASE budget'.incomplete = {}
    <3>1. budget.incomplete = {}
      BY <1>18, <2>6
    <3>2. reasons' # {} => SnapshotDefects # {} \/ faulted'
      BY <1>18, <2>6, <3>1 DEF ReasonsRight
    <3>3. ASSUME reasons' = {}, NEW d \in SnapshotDefects PROVE d \notin Verified /\ Pending(d)'
      <4>1. reasons = {} /\ (Head(scans) \notin SnapshotDefects \/ Head(scans) \in Verified)
        BY <1>18, <2>6, <3>3
      <4>2. d \notin Verified /\ Pending(d)
        BY <1>18, <3>1, <3>3, <4>1 DEF ReasonsRight
      <4> QED BY <2>2, <3>3, <4>1, <4>2
    <3> QED BY <1>18, <2>1, <2>3, <2>4, <3>2, <3>3 DEF ReasonsRight
  <2> QED BY <2>5, <2>6
<1>12. CASE InspectScan
  <2> DEFINE s == Head(scans)
  <2>1. /\ Spent(s) = [rows |-> Spent(s).rows, late |-> Spent(s).late, incomplete |-> Spent(s).incomplete]
        /\ budget.incomplete \subseteq Spent(s).incomplete
        /\ Completes(s) <=> Spent(s).incomplete = {}
    BY SpentKeeps
  <2>2. /\ stage = "inspect" /\ scans # <<>> /\ scans' = Tail(scans)
        /\ UNCHANGED <<leases, profile, stage, snap, status, committed, known, faulted>>
    BY <1>12 DEF InspectScan, reads
  <2>3. known' \in BOOLEAN
    BY <2>2 DEF AuditShape
  <2>4. CASE ~Applicable(s)
    <3>1. UNCHANGED <<budget, reasons, cut>> /\ reasons # {}
      BY <1>12, <2>4 DEF InspectScan, Applicable
    <3>2. budget' = [rows |-> budget'.rows, late |-> budget'.late, incomplete |-> budget'.incomplete]
      BY <3>1 DEF AuditShape
    <3>3. CASE budget.incomplete = {}
      BY <1>18, <2>2, <2>3, <3>1, <3>2
    <3>4. CASE budget.incomplete # {}
      BY <1>18, <2>2, <2>3, <3>1, <3>2, <3>4
    <3> QED BY <3>3, <3>4
  <2>5. CASE Applicable(s)
    <3>1. PICK seen \in Reported(s), unseen \in Unseen(s) :
            /\ reasons' = reasons \cup (seen \cup unseen)
            /\ budget' = Spent(s) /\ cut' = (cut \/ ~Completes(s))
      BY <1>12, <2>5 DEF InspectScan, Noted
    <3>2. ASSUME Completes(s)
          PROVE  /\ unseen = {} /\ seen \subseteq SnapshotDefects
                 /\ seen # {} \/ s \notin SnapshotDefects \/ s \in Verified
      BY <3>1, <3>2 DEF Reported, Unseen, Scope, Verified
    <3> HIDE DEF s
    <3>3. budget'.incomplete = {} =>
            /\ reasons \subseteq reasons'
            /\ reasons' # reasons => SnapshotDefects # {} \/ faulted'
            /\ reasons' # {} \/ s \notin SnapshotDefects \/ s \in Verified
      <4> SUFFICES ASSUME budget'.incomplete = {}
                   PROVE  /\ reasons \subseteq reasons'
                          /\ reasons' # reasons => SnapshotDefects # {} \/ faulted'
                          /\ reasons' # {} \/ s \notin SnapshotDefects \/ s \in Verified
        OBVIOUS
      <4>1. Completes(s)
        BY <2>1, <3>1
      <4> QED BY <3>1, <3>2, <4>1
    <3>4. /\ cut' => cut \/ budget'.incomplete # {}
          /\ budget' = [rows |-> budget'.rows, late |-> budget'.late, incomplete |-> budget'.incomplete]
          /\ budget.incomplete \subseteq budget'.incomplete
      BY <2>1, <3>1
    <3> QED BY <1>18, <2>2, <2>3, <3>3, <3>4 DEF s
  <2> QED BY <2>4, <2>5
<1>19. CASE GuardedFails
  <2> DEFINE s == Head(scans)
  <2>1. /\ Spent(s) = [rows |-> Spent(s).rows, late |-> Spent(s).late, incomplete |-> Spent(s).incomplete]
        /\ budget.incomplete \subseteq Spent(s).incomplete
        /\ Completes(s) <=> Spent(s).incomplete = {}
    BY SpentKeeps
  <2>2. /\ stage = "inspect" /\ scans # <<>> /\ scans' = Tail(scans)
        /\ UNCHANGED <<leases, profile, stage, snap, status, committed>>
        /\ reasons' = reasons \cup Excuse(s)
        /\ known' = (known /\ s # "provenance")
        /\ \/ budget' = Spent(s) /\ cut' = (cut \/ ~Completes(s)) /\ faulted'
           \/ Interrupted
    BY <1>19 DEF GuardedFails, Noted
  <2>3. known' \in BOOLEAN
    BY <2>2 DEF AuditShape
  <2>4. Excuse(s) # {} \/ s \notin SnapshotDefects
    <3>1. SnapshotDefects \subseteq Defects
      BY DefectsKnown DEF AuditShape
    <3>2. "provenance" \notin Defects
      BY DEF Defects
    <3>3. s # "provenance" => Excuse(s) # {}
      BY DEF Excuse
    <3> QED BY <3>1, <3>2, <3>3
  <2> HIDE DEF s
  <2>5. CASE budget' = Spent(s) /\ cut' = (cut \/ ~Completes(s)) /\ faulted'
    <3>1. /\ cut' => cut \/ budget'.incomplete # {}
          /\ budget' = [rows |-> budget'.rows, late |-> budget'.late, incomplete |-> budget'.incomplete]
          /\ budget.incomplete \subseteq budget'.incomplete
      BY <2>1, <2>5
    <3>2. /\ reasons \subseteq reasons'
          /\ reasons' # reasons => SnapshotDefects # {} \/ faulted'
          /\ reasons' # {} \/ s \notin SnapshotDefects \/ s \in Verified
          /\ faulted => faulted'
      BY <2>2, <2>4, <2>5
    <3> QED BY <1>18, <2>2, <2>3, <3>1, <3>2 DEF s
  <2>6. CASE Interrupted
    <3>1. /\ budget' = [rows |-> budget'.rows, late |-> budget'.late, incomplete |-> budget'.incomplete]
          /\ budget.incomplete \subseteq budget'.incomplete /\ budget'.incomplete # {}
      BY <2>6 DEF Interrupted, AuditShape
    <3>2. faulted => faulted'
      BY <2>6 DEF Interrupted
    <3> QED BY <1>18, <2>2, <2>3, <3>1, <3>2
  <2> QED BY <2>2, <2>5, <2>6
<1>13. CASE ScanFails
  <2>1. /\ UNCHANGED profile /\ Leave("unavailable") /\ known' \in BOOLEAN
        /\ budget' = [rows |-> budget'.rows, late |-> budget'.late, incomplete |-> budget'.incomplete]
    BY <1>13 DEF ScanFails, AuditShape, Interrupted
  <2> QED BY <2>1, LeaveKeeps
<1>14. CASE Report
  <2>1. /\ UNCHANGED <<profile, budget, cut, known>> /\ Leave(Verdict)
        /\ cut => Verdict \notin {"ok", "findings"}
    BY <1>14 DEF Report, Verdict, CutoffNoted, reads
  <2>2. budget' = [rows |-> budget'.rows, late |-> budget'.late, incomplete |-> budget'.incomplete]
    BY <2>1 DEF AuditShape
  <2>3. known' \in BOOLEAN
    BY <2>1 DEF AuditShape
  <2> QED BY <2>1, <2>2, <2>3, LeaveKeeps
<1>15. CASE UNCHANGED auditVars
  <2>1. SnapshotDefects' = SnapshotDefects
    BY <1>15 DEF auditVars, SnapshotDefects, CopyTorn, Contents
  <2>2. AuditShape' /\ CutoffNoted' /\ CutoffReported'
    BY <1>15 DEF auditVars, AuditShape, CutoffNoted, CutoffReported
  <2> QED BY <1>15, <2>1, <2>2 DEF auditVars, ReasonsRight, Pending
<1> QED BY <1>1, <1>2, <1>3, <1>4, <1>5, <1>6, <1>7, <1>8, <1>9, <1>10, <1>11, <1>12, <1>13, <1>14,
           <1>15, <1>16, <1>17, <1>19 DEF AuditNext

(* The inductive invariant of the audit's budget and verdict.                 *)
THEOREM AuditInvariant == AuditSpec => []AuditInv
BY AuditInitInv, AuditStepInv, PTL DEF AuditSpec

(* A cutoff is never presented as the verdict of a complete audit.            *)
THEOREM CutoffsReported == AuditSpec => []CutoffReported
<1>1. AuditInv => CutoffReported
  BY DEF AuditInv
<1> QED BY <1>1, AuditInvariant, PTL

(* Ok is right about the copy it was given for, and findings mean that        *)
(* something is wrong with it or that a statement failed.                     *)
THEOREM VerdictsSound == AuditSpec => VerdictSound
<1> DEFINE Right == /\ (stage = "inspect" /\ status' = "ok") => SnapshotDefects = {}
                    /\ (stage = "inspect" /\ status' = "findings") => SnapshotDefects # {} \/ faulted
<1>1. ASSUME AuditInv, [AuditNext]_auditVars PROVE Right
  <2>1. stage = "inspect" => status = "none"
    BY <1>1 DEF AuditInv, AuditShape
  <2>2. CASE Report
    <3>1. /\ stage = "inspect" /\ scans = <<>>
          /\ status' = "ok" => budget.incomplete = {} /\ reasons = {}
          /\ status' = "findings" => budget.incomplete = {} /\ reasons # {}
      BY <2>2 DEF Report, Leave, Verdict
    <3>2. \A d : ~Pending(d)
      BY <3>1 DEF Pending
    <3> QED BY <1>1, <3>1, <3>2 DEF AuditInv, ReasonsRight
  <2>3. CASE ScanFails
    BY <2>3 DEF ScanFails, Leave
  <2>4. CASE ~Report /\ ~ScanFails
    <3>1. stage = "inspect" => status' = status
      BY <1>1, <2>4
         DEF AuditNext, Acquire, Release, CommitTx, Checkpoint, audit, AuditAdmits, AuditTooLarge,
             AuditRefused, CopyPage, CopyLog, DeadlinePasses, CopyCutOff, OpenFails, VerifyScan,
             VerifyRaises, VerifyDone, InspectScan, GuardedFails, auditVars
    <3> QED BY <2>1, <3>1
  <2> QED BY <2>2, <2>3, <2>4
<1>2. AuditInv /\ [AuditNext]_auditVars => [Right]_auditVars
  BY <1>1
<1> QED BY <1>2, AuditInvariant, PTL DEF AuditSpec, VerdictSound

-----------------------------------------------------------------------------
(* Audit: the copy.                                                           *)

(* The shared lease is held while the files are copied, and it excludes the   *)
(* exclusive one.                                                             *)
LeaseHeld ==
  /\ leases = [shared |-> leases.shared, exclusive |-> leases.exclusive]
  /\ leases.shared \subseteq Turns \cup {"audit"} /\ leases.exclusive \subseteq Maintainers
  /\ leases.shared = {} \/ leases.exclusive = {}
  /\ stage = "copy" => "audit" \in leases.shared

LEMMA LeaseInit == AuditInit => LeaseHeld
BY DEF AuditInit, LeaseHeld

LEMMA LeaseStep == LeaseHeld /\ [AuditNext]_auditVars => LeaseHeld'
<1> SUFFICES ASSUME LeaseHeld, [AuditNext]_auditVars PROVE LeaseHeld'
  OBVIOUS
<1> USE AuditAssumption DEF LeaseHeld
<1>1. ASSUME NEW w \in Turns \cup Maintainers, Acquire(w) PROVE LeaseHeld'
  <2>1. CASE w \in Maintainers
    BY <1>1, <2>1 DEF Acquire, audit
  <2>2. CASE w \notin Maintainers
    BY <1>1, <2>2 DEF Acquire, audit
  <2> QED BY <2>1, <2>2
<1>2. ASSUME NEW w \in Turns \cup Maintainers, Release(w) PROVE LeaseHeld'
  BY <1>2 DEF Release, audit
<1>3. ASSUME NEW w \in Turns \cup Maintainers, CommitTx(w) \/ Checkpoint(w) PROVE LeaseHeld'
  BY <1>3 DEF CommitTx, Checkpoint, audit
<1>4. CASE AuditAdmits
  BY <1>4 DEF AuditAdmits
<1>5. ASSUME NEW v, Leave(v) PROVE LeaseHeld'
  BY <1>5 DEF Leave
<1>6. CASE AuditTooLarge \/ AuditRefused \/ CopyCutOff \/ OpenFails \/ ScanFails \/ Report
  BY <1>5, <1>6 DEF AuditTooLarge, AuditRefused, CopyCutOff, OpenFails, ScanFails, Report
<1>7. CASE VerifyScan \/ VerifyRaises
  <2>1. (\E v : Leave(v)) \/ (stage = "verify" /\ UNCHANGED <<leases, stage>>)
    BY <1>7 DEF VerifyScan, VerifyRaises, VerifyEnds
  <2> QED BY <1>5, <2>1
<1>8. CASE (\E p \in Page : CopyPage(p)) \/ CopyLog \/ DeadlinePasses \/ VerifyDone
           \/ InspectScan \/ GuardedFails
  BY <1>8 DEF CopyPage, CopyLog, DeadlinePasses, VerifyDone, InspectScan, GuardedFails
<1>9. CASE UNCHANGED auditVars
  BY <1>9 DEF auditVars
<1> QED BY <1>1, <1>2, <1>3, <1>4, <1>6, <1>7, <1>8, <1>9 DEF AuditNext

(* What has been copied of the file is what the file says, and what the files *)
(* say was current at some time of the copy.                                  *)
CopyInv ==
  /\ snap = [file |-> snap.file, log |-> snap.log]
  /\ main = [p \in Page |-> main[p]]
  /\ stage = "idle" => snap = NoCopy
  /\ stage = "copy" => /\ Contents(main, wal) \in committed
                       /\ DOMAIN snap.file \subseteq Page
                       /\ snap.file = [p \in DOMAIN snap.file |-> main[p]]
  /\ SnapshotConsistent

(* No checkpoint moves the log into the file while it is copied.              *)
FileLeftAlone == [][stage = "copy" => main' = main]_auditVars

LEMMA CopyInit == AuditInit => CopyInv
BY DEF AuditInit, CopyInv, SnapshotConsistent, NoCopy

LEMMA CopyStep ==
  CopyInv /\ [AuditNext]_auditVars /\ [stage = "copy" => main' = main]_auditVars => CopyInv'
<1> SUFFICES ASSUME CopyInv, [AuditNext]_auditVars, [stage = "copy" => main' = main]_auditVars
             PROVE  CopyInv'
  OBVIOUS
<1> USE DEF CopyInv
<1>1. ASSUME UNCHANGED <<stage, snap>>, stage = "copy" => UNCHANGED <<main, wal>> /\ UNCHANGED committed,
             UNCHANGED main \/ main' = Contents(main, wal), stage # "copy" => UNCHANGED committed
      PROVE  CopyInv'
  <2>1. main' = [p \in Page |-> main'[p]]
    BY <1>1 DEF Contents
  <2>2. CASE stage = "copy"
    BY <1>1, <2>2 DEF SnapshotConsistent, Contents
  <2>3. CASE stage # "copy"
    <3>1. SnapshotConsistent'
      BY <1>1, <2>3 DEF SnapshotConsistent, CopyTorn, Contents
    <3> QED BY <1>1, <2>1, <2>3, <3>1
  <2> QED BY <2>2, <2>3
<1>2. ASSUME NEW w \in Turns \cup Maintainers, Acquire(w) \/ Release(w) PROVE CopyInv'
  BY <1>1, <1>2 DEF Acquire, Release, audit, store
<1>3. ASSUME NEW w \in Turns \cup Maintainers, CommitTx(w) PROVE CopyInv'
  <2>1. /\ UNCHANGED <<main, stage, snap>>
        /\ committed' = IF stage = "copy" THEN committed \cup {Contents(main, wal')} ELSE committed
    BY <1>3 DEF CommitTx, audit
  <2>2. CASE stage = "copy"
    BY <2>1, <2>2 DEF SnapshotConsistent
  <2>3. CASE stage # "copy"
    BY <1>1, <2>1, <2>3
  <2> QED BY <2>2, <2>3
<1>4. ASSUME NEW w \in Turns \cup Maintainers, Checkpoint(w) PROVE CopyInv'
  <2>1. UNCHANGED <<wal, stage, snap, committed>> /\ main' = Contents(main, wal)
    BY <1>4 DEF Checkpoint, audit
  <2>2. stage = "copy" => UNCHANGED main
    BY <2>1 DEF auditVars
  <2> QED BY <1>1, <2>1, <2>2
<1>5. CASE AuditAdmits
  <2>1. /\ stage' = "copy" /\ snap = NoCopy /\ committed' = {Contents(main, wal)}
        /\ UNCHANGED <<main, wal, snap>>
    BY <1>5 DEF AuditAdmits, store
  <2>2. DOMAIN snap.file = {} /\ snap.file = [p \in {} |-> main[p]]
    BY <2>1 DEF NoCopy
  <2>3. Contents(main, wal)' \in committed'
    BY <2>1
  <2> QED BY <2>1, <2>2, <2>3 DEF SnapshotConsistent
<1>6. ASSUME NEW v, Leave(v), UNCHANGED main PROVE CopyInv'
  BY <1>6 DEF Leave, NoCopy, SnapshotConsistent
<1>7. CASE AuditTooLarge \/ AuditRefused \/ CopyCutOff \/ OpenFails \/ ScanFails \/ Report
  BY <1>6, <1>7 DEF AuditTooLarge, AuditRefused, CopyCutOff, OpenFails, ScanFails, Report, store
<1>8. ASSUME NEW p \in Page, CopyPage(p) PROVE CopyInv'
  <2> DEFINE file == [q \in DOMAIN snap.file \cup {p} |-> IF q = p THEN main[p] ELSE snap.file[q]]
  <2>1. /\ snap' = [snap EXCEPT !.file = file] /\ stage = "copy"
        /\ UNCHANGED <<main, wal, stage, committed>>
    BY <1>8 DEF CopyPage, store
  <2>2. DOMAIN file \subseteq Page /\ file = [q \in DOMAIN file |-> main[q]]
    BY <2>1
  <2> HIDE DEF file
  <2>3. snap' = [file |-> file, log |-> snap.log]
    BY <2>1
  <2> QED BY <2>1, <2>2, <2>3 DEF SnapshotConsistent
<1>9. CASE CopyLog
  <2>1. /\ stage = "copy" /\ DOMAIN snap.file = Page /\ snap' = [snap EXCEPT !.log = wal]
        /\ stage' = "verify" /\ UNCHANGED <<main, committed>>
    BY <1>9 DEF CopyLog, store
  <2>2. snap.file = main /\ snap' = [file |-> snap.file, log |-> wal]
    BY <2>1
  <2>3. ~CopyTorn'
    BY <2>1, <2>2 DEF CopyTorn
  <2> QED BY <2>1, <2>2, <2>3 DEF SnapshotConsistent
<1>10. CASE VerifyScan \/ VerifyRaises
  <2>1. \/ (\E v : Leave(v)) /\ UNCHANGED main
        \/ stage = "verify" /\ UNCHANGED <<main, wal, stage, snap, committed>>
    BY <1>10 DEF VerifyScan, VerifyRaises, VerifyEnds, store
  <2> QED BY <1>1, <1>6, <2>1
<1>11. CASE VerifyDone
  <2>1. /\ stage = "verify" /\ stage' = "inspect" /\ UNCHANGED <<main, snap, committed>>
    BY <1>11 DEF VerifyDone, store
  <2>2. ~CopyTorn'
    BY <2>1 DEF SnapshotConsistent, CopyTorn, Contents
  <2> QED BY <2>1, <2>2 DEF SnapshotConsistent
<1>12. CASE DeadlinePasses \/ InspectScan \/ GuardedFails \/ UNCHANGED auditVars
  BY <1>1, <1>12 DEF DeadlinePasses, InspectScan, GuardedFails, store, auditVars
<1> QED BY <1>2, <1>3, <1>4, <1>5, <1>7, <1>8, <1>9, <1>10, <1>11, <1>12 DEF AuditNext

(* Whoever commits beside the audit: as long as no checkpoint moves the log   *)
(* into the file during the copy, the copy is a state the profile was in.     *)
THEOREM CopiesConsistent == AuditSpec /\ FileLeftAlone => []SnapshotConsistent
<1>1. CopyInv => SnapshotConsistent
  BY DEF CopyInv
<1> QED BY <1>1, CopyInit, CopyStep, PTL DEF AuditSpec, FileLeftAlone

(* Maintenance never checkpoints during the copy: only a turn could.          *)
THEOREM OnlyTurnsCheckpoint ==
  AuditSpec => [][(stage = "copy" /\ main' # main) => \E w \in Turns : Checkpoint(w)]_auditVars
<1>1. ASSUME LeaseHeld, [AuditNext]_auditVars, stage = "copy", main' # main
      PROVE  \E w \in Turns : Checkpoint(w)
  <2>1. PICK w \in Turns \cup Maintainers : Checkpoint(w)
    BY <1>1
       DEF AuditNext, Acquire, Release, CommitTx, store, AuditAdmits, AuditTooLarge, AuditRefused,
           CopyPage, CopyLog, DeadlinePasses, CopyCutOff, OpenFails, VerifyScan, VerifyRaises,
           VerifyDone, InspectScan, GuardedFails, ScanFails, Report, auditVars
  <2>2. w \notin Maintainers
    BY <1>1, <2>1, AuditAssumption DEF Checkpoint, Holds, LeaseHeld
  <2> QED BY <2>1, <2>2
<1> DEFINE Turn == (stage = "copy" /\ main' # main) => \E w \in Turns : Checkpoint(w)
<1>2. LeaseHeld /\ [AuditNext]_auditVars => [Turn]_auditVars
  BY <1>1
<1> HIDE DEF Turn
<1>3. AuditSpec => [][Turn]_auditVars
  BY <1>2, LeaseInit, LeaseStep, PTL DEF AuditSpec
<1> QED BY <1>3 DEF Turn

-----------------------------------------------------------------------------
(* Audit: types.                                                              *)

(* The log: the k-th transaction in it is at least the k-th of all.           *)
FilesTyped ==
  /\ main \in [Page -> 0..MaxTx] /\ folded \in BOOLEAN
  /\ wal \in Seq([tx : 0..MaxTx, pages : SUBSET Page])
  /\ \A k \in 1..Len(wal) : wal[k].tx >= k

BudgetTyped ==
  /\ budget = [rows |-> budget.rows, late |-> budget.late, incomplete |-> budget.incomplete]
  /\ budget.rows \in 0..RowCap
  /\ status \in {"none", "ok", "findings", "audit_incomplete", "unavailable"}

AuditTypes == FilesTyped /\ BudgetTyped /\ LeaseHeld /\ AuditShape

LEMMA LogEntry ==
  ASSUME FilesTyped, NEW k \in 1..Len(wal)
  PROVE  wal[k].tx \in 0..MaxTx /\ wal[k].tx >= k
<1> DEFINE Entry == [tx : 0..MaxTx, pages : SUBSET Page]
<1>1. wal \in Seq(Entry) /\ wal[k].tx >= k
  BY DEF FilesTyped
<1>2. wal[k] \in Entry
  <2> HIDE DEF Entry
  <2> QED BY <1>1
<1> QED BY <1>1, <1>2

LEMMA AuditTypesImply == AuditTypes => AuditTypeOK
<1> SUFFICES ASSUME AuditTypes PROVE AuditTypeOK
  OBVIOUS
<1>1. Len(wal) <= MaxTx
  <2>1. Len(wal) \in Nat /\ MaxTx \in Nat
    BY AuditAssumption DEF AuditTypes, FilesTyped
  <2>2. CASE Len(wal) = 0
    BY <2>1, <2>2
  <2>3. CASE Len(wal) # 0
    <3>1. Len(wal) \in 1..Len(wal)
      BY <2>1, <2>3
    <3>2. wal[Len(wal)].tx \in 0..MaxTx /\ wal[Len(wal)].tx >= Len(wal)
      BY <3>1, LogEntry DEF AuditTypes
    <3> QED BY <2>1, <3>2
  <2> QED BY <2>2, <2>3
<1> QED BY <1>1 DEF AuditTypes, FilesTyped, BudgetTyped, LeaseHeld, AuditShape, AuditTypeOK

LEMMA FilesInit == AuditInit => FilesTyped /\ BudgetTyped
BY AuditAssumption DEF AuditInit, FilesTyped, BudgetTyped

(* The last transaction so far is within bounds, and no earlier one is later. *)
LEMMA LastTransaction ==
  ASSUME FilesTyped
  PROVE  /\ Transactions \in 0..MaxTx
         /\ \A k \in 1..Len(wal) : wal[k].tx <= Transactions
<1> DEFINE S == {main[p] : p \in Page} \cup {wal[k].tx : k \in 1..Len(wal)}
<1>1. \A k \in 1..Len(wal) : wal[k].tx \in 0..MaxTx
  BY LogEntry
<1>2. S \subseteq 0..MaxTx /\ S # {}
  <2>1. "nodes" \in Page
    BY DEF Page
  <2> QED BY <1>1, <2>1 DEF FilesTyped
<1>3. \A k \in 1..Len(wal) : wal[k].tx \in S
  OBVIOUS
<1>4. Transactions = Max(S)
  BY DEF Transactions
<1> HIDE DEF S
<1> QED BY <1>2, <1>3, <1>4, GreatestNatural, AuditAssumption

LEMMA CheckpointTyped == FilesTyped => Contents(main, wal) \in [Page -> 0..MaxTx]
<1> SUFFICES ASSUME FilesTyped, NEW p \in Page PROVE Contents(main, wal)[p] \in 0..MaxTx
  BY DEF Contents
<1> DEFINE writers == {k \in 1..Len(wal) : p \in wal[k].pages}
<1>1. CASE writers = {}
  BY <1>1 DEF Contents, FilesTyped
<1>2. CASE writers # {}
  <2>1. Len(wal) \in Nat /\ writers \subseteq 0..Len(wal)
    BY DEF FilesTyped
  <2>2. Max(writers) \in writers
    BY <1>2, <2>1, GreatestNatural
  <2>3. wal[Max(writers)].tx \in 0..MaxTx
    BY <2>2, LogEntry
  <2> QED BY <1>2, <2>3 DEF Contents
<1> QED BY <1>1, <1>2

LEMMA CommitTyped ==
  ASSUME FilesTyped, NEW w, CommitTx(w)
  PROVE  FilesTyped'
<1> DEFINE Entry == [tx : 0..MaxTx, pages : SUBSET Page]
           log == IF folded THEN <<>> ELSE wal
<1>1. PICK pages \in (SUBSET Page) \ {{}} :
        wal' = Append(log, [tx |-> Transactions + 1, pages |-> pages])
  BY DEF CommitTx
<1>2. UNCHANGED main /\ folded' = FALSE /\ Transactions < MaxTx
  BY DEF CommitTx
<1> DEFINE last == [tx |-> Transactions + 1, pages |-> pages]
<1>3. Transactions \in 0..MaxTx /\ (\A k \in 1..Len(wal) : wal[k].tx <= Transactions)
  BY LastTransaction
<1>4. last \in Entry /\ last.tx = Transactions + 1
  BY <1>2, <1>3, AuditAssumption
<1>5. /\ log \in Seq(Entry)
      /\ \A k \in 1..Len(log) : log[k].tx >= k /\ log[k].tx <= Transactions
  BY <1>3 DEF FilesTyped
<1>6. wal' = Append(log, last)
  BY <1>1
<1> HIDE DEF last, log
<1>7. wal' \in Seq(Entry) /\ Len(wal') = Len(log) + 1 /\ Len(log) \in Nat
  BY <1>4, <1>5, <1>6
<1>8. Transactions >= Len(log)
  <2>1. CASE Len(log) = 0
    BY <1>3, <2>1
  <2>2. CASE Len(log) # 0
    <3>1. Len(log) \in 1..Len(log) /\ log[Len(log)] \in Entry
      <4> HIDE DEF Entry
      <4> QED BY <1>5, <1>7, <2>2
    <3>2. log[Len(log)].tx \in Nat
      BY <3>1
    <3>3. log[Len(log)].tx >= Len(log) /\ log[Len(log)].tx <= Transactions
      BY <1>5, <3>1
    <3>4. Transactions \in Nat /\ Len(log) \in Nat
      BY <1>3, <1>7
    <3> QED BY <3>2, <3>3, <3>4
  <2> QED BY <2>1, <2>2
<1>9. ASSUME NEW k \in 1..Len(wal') PROVE wal'[k].tx >= k
  <2>1. CASE k = Len(log) + 1
    <3>1. wal'[k] = last
      BY <1>5, <1>6, <2>1
    <3> QED BY <1>3, <1>4, <1>7, <1>8, <2>1, <3>1
  <2>2. CASE k # Len(log) + 1
    <3>1. k \in 1..Len(log)
      BY <1>7, <2>2
    <3>2. wal'[k] = log[k]
      BY <1>5, <1>6, <3>1
    <3> QED BY <1>5, <3>1, <3>2
  <2> QED BY <2>1, <2>2
<1> QED BY <1>2, <1>7, <1>9 DEF FilesTyped

(* Whatever a scan costs, no more rows are counted than the cap.              *)
LEMMA RowsCapped ==
  ASSUME AuditShape, BudgetTyped, NEW s
  PROVE  Spent(s).rows \in 0..RowCap
<1> DEFINE wanted == budget.rows + Cost(s)
           r == IF BudgetReady THEN Min({RowCap, wanted}) ELSE budget.rows
<1>1. Spent(s).rows = r
  <2> DEFINE i == budget.incomplete \cup (IF budget.late THEN {"audit_deadline"} ELSE {})
                    \cup (IF BudgetReady /\ wanted > RowCap THEN {"audit_row_cap"} ELSE {})
  <2>1. Spent(s) = [budget EXCEPT !.rows = r, !.incomplete = i]
    BY DEF Spent
  <2> HIDE DEF r, i
  <2> QED BY <2>1 DEF AuditShape
<1>2. Cost(s) \in Nat /\ budget.rows \in 0..RowCap /\ RowCap \in Nat
  BY AuditAssumption DEF Cost, AuditShape, Profile, BudgetTyped
<1>3. wanted \in Nat
  BY <1>2
<1> HIDE DEF wanted
<1>4. Min({RowCap, wanted}) \in {RowCap, wanted} /\ \A y \in {RowCap, wanted} : Min({RowCap, wanted}) <= y
  <2> DEFINE least == IF RowCap <= wanted THEN RowCap ELSE wanted
  <2>1. least \in {RowCap, wanted} /\ \A y \in {RowCap, wanted} : least <= y
    BY <1>2, <1>3
  <2> HIDE DEF least
  <2> QED BY <2>1 DEF Min
<1>5. Min({RowCap, wanted}) \in 0..RowCap
  BY <1>2, <1>3, <1>4
<1> QED BY <1>1, <1>2, <1>5

LEMMA TypesStep ==
  ASSUME FilesTyped, BudgetTyped, AuditInv, [AuditNext]_auditVars
  PROVE  FilesTyped' /\ BudgetTyped'
<1> DEFINE Stored == UNCHANGED store
           Ended == /\ budget'.rows = budget.rows
                    /\ budget' = [rows |-> budget'.rows, late |-> budget'.late,
                                  incomplete |-> budget'.incomplete]
                    /\ status' \in {status, "ok", "findings", "audit_incomplete", "unavailable"}
<1>0. /\ Stored => FilesTyped'
      /\ Ended => BudgetTyped'
  BY DEF FilesTyped, BudgetTyped, store
<1>1. ASSUME NEW w \in Turns \cup Maintainers, Acquire(w) \/ Release(w) \/ CommitTx(w) \/ Checkpoint(w)
      PROVE  FilesTyped' /\ BudgetTyped'
  <2>1. Ended
    BY <1>1 DEF Acquire, Release, CommitTx, Checkpoint, audit, BudgetTyped
  <2>2. CASE Acquire(w) \/ Release(w)
    BY <1>0, <2>1, <2>2 DEF Acquire, Release
  <2>3. CASE CommitTx(w)
    BY <1>0, <2>1, <2>3, CommitTyped
  <2>4. CASE Checkpoint(w)
    BY <1>0, <2>1, <2>4, CheckpointTyped DEF Checkpoint, FilesTyped
  <2> QED BY <1>1, <2>2, <2>3, <2>4
<1>2. CASE AuditTooLarge \/ AuditRefused \/ CopyCutOff \/ OpenFails \/ ScanFails \/ Report
  <2>1. Stored
    BY <1>2 DEF AuditTooLarge, AuditRefused, CopyCutOff, OpenFails, ScanFails, Report
  <2>2. Ended
    BY <1>2 DEF AuditTooLarge, AuditRefused, CopyCutOff, OpenFails, ScanFails,
                Interrupted, Report, Leave, Verdict, BudgetTyped
  <2> QED BY <1>0, <2>1, <2>2
<1>3. CASE AuditAdmits \/ (\E p \in Page : CopyPage(p)) \/ CopyLog \/ DeadlinePasses \/ VerifyDone
  <2>1. Stored
    BY <1>3 DEF AuditAdmits, CopyPage, CopyLog, DeadlinePasses, VerifyDone
  <2>2. Ended
    BY <1>3 DEF AuditAdmits, CopyPage, CopyLog, DeadlinePasses, VerifyDone, BudgetTyped
  <2> QED BY <1>0, <2>1, <2>2
<1>4. CASE VerifyScan \/ VerifyRaises \/ InspectScan \/ GuardedFails
  <2>1. /\ Stored /\ status' \in {status, "audit_incomplete"}
        /\ budget' \in {budget, Spent(Head(scans))} \/ Interrupted
    BY <1>4 DEF VerifyScan, VerifyRaises, VerifyEnds, InspectScan, GuardedFails, Leave
  <2>2. /\ Spent(Head(scans)) = [rows |-> Spent(Head(scans)).rows, late |-> Spent(Head(scans)).late,
                                 incomplete |-> Spent(Head(scans)).incomplete]
        /\ Spent(Head(scans)).rows \in 0..RowCap
    BY SpentKeeps, RowsCapped DEF AuditInv
  <2>3. BudgetTyped'
    BY <2>1, <2>2 DEF BudgetTyped, Interrupted
  <2> QED BY <1>0, <2>1, <2>3
<1>5. CASE UNCHANGED auditVars
  BY <1>0, <1>5 DEF auditVars, store, BudgetTyped
<1> QED BY <1>1, <1>2, <1>3, <1>4, <1>5 DEF AuditNext

(* Type correctness.  The log never holds more transactions than there were,  *)
(* since it is restarted only when it is all in the file, and the rows that   *)
(* are counted never exceed the cap, whatever the last scan would have read.  *)
THEOREM AuditTypeCorrect == AuditSpec => []AuditTypeOK
<1>1. AuditSpec => []LeaseHeld
  BY LeaseInit, LeaseStep, PTL DEF AuditSpec
<1>2. AuditSpec => [](FilesTyped /\ BudgetTyped)
  <2>1. AuditInv /\ FilesTyped /\ BudgetTyped /\ [AuditNext]_auditVars => FilesTyped' /\ BudgetTyped'
    BY TypesStep
  <2> QED BY <2>1, FilesInit, AuditInvariant, PTL DEF AuditSpec
<1>3. AuditInv /\ LeaseHeld /\ FilesTyped /\ BudgetTyped => AuditTypeOK
  BY AuditTypesImply DEF AuditTypes, AuditInv
<1> QED BY <1>1, <1>2, <1>3, AuditInvariant, PTL
=============================================================================
