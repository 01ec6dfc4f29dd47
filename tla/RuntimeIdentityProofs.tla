----------------------- MODULE RuntimeIdentityProofs -----------------------
(* For every set of processes, models and nodes and every combination of      *)
(* faults: operations agree with the persisted identity, an epoch names one   *)
(* model, and an identity is published only over rows of its own model.       *)
EXTENDS RuntimeIdentity, TLAPS

Exclusive == \A p, q \in Process : p # q /\ lease[p] = "ex" => lease[q] = "none"

Bootstrapping == {"inspect", "wipe", "embed", "restore", "publish", "unready"}

(* The lease, configuration and readiness each program point implies.         *)
PointsAgree ==
  \A p \in Process :
    /\ pc[p] \in Bootstrapping \cup {"sleep"} => lease[p] = "ex"
    /\ pc[p] = "turn" => lease[p] = "sh"
    /\ pc[p] \in {"published", "up", "down"} => lease[p] = "none"
    /\ pc[p] # "down" => cfg[p] \in Model
    /\ pc[p] = "published" => epoch[p] # 0
    /\ ready[p] => pc[p] \in {"up", "turn"} /\ epoch[p] # 0
    /\ pc[p] = "turn" => ready[p]

(* An identity is published exactly when an epoch is.                         *)
MetaAgrees == meta.model = NoModel <=> meta.epoch = 0

(* A process about to publish has found or made every row its own.            *)
PublishOverOwnRows ==
  \A p \in Process : pc[p] = "publish" => \A n \in Node : vector[n] \in {NoModel, cfg[p]}

(* The identity a migration would copy back is the one it found.              *)
BackupHolds ==
  \A p \in Process : pc[p] \in {"wipe", "embed", "restore"} => backup.meta = meta

IInv == /\ TypeOK /\ Exclusive /\ PointsAgree /\ MetaAgrees /\ BackupHolds
        /\ PublishOverOwnRows /\ OperationsMatchIdentity /\ EpochNamesModel

LEMMA InitIInv == Init => IInv
BY IdentityAssumption
   DEF Init, IInv, TypeOK, Exclusive, PointsAgree, MetaAgrees, PublishOverOwnRows,
       OperationsMatchIdentity, InOperation, Rows, NoRows, Points, Modes, Bootstrapping,
       BackupHolds, EpochNamesModel, Published, Metas, NoMeta, Databases, NoBackup

LEMMA StepTypeOK == TypeOK /\ [Next]_vars => TypeOK'
<1> SUFFICES ASSUME TypeOK, [Next]_vars PROVE TypeOK'
  OBVIOUS
<1> USE DEF TypeOK, Points, Modes, Rows, Go, Metas, Databases
<1>1. ASSUME NEW p \in Process, NEW m \in Model, BeginInitialize(p, m) PROVE TypeOK'
  BY <1>1 DEF BeginInitialize, Acquire
<1>2. ASSUME NEW p \in Process, Inspect(p) PROVE TypeOK'
  BY <1>2 DEF Inspect, Database
<1>3. ASSUME NEW p \in Process, InspectFails(p) PROVE TypeOK'
  BY <1>3 DEF InspectFails
<1>4. ASSUME NEW p \in Process, Wipe(p) PROVE TypeOK'
  BY <1>4 DEF Wipe, NoRows
<1>5. ASSUME NEW p \in Process, NEW n \in Node, EmbedNode(p, n) PROVE TypeOK'
  BY <1>5 DEF EmbedNode
<1>6. ASSUME NEW p \in Process, CheckMigration(p) PROVE TypeOK'
  BY <1>6 DEF CheckMigration, NoBackup, NoRows, NoMeta
<1>7. ASSUME NEW p \in Process, Restore(p) PROVE TypeOK'
  BY <1>7 DEF Restore, NoBackup, NoRows, NoMeta
<1>8. ASSUME NEW p \in Process, RestoreFails(p) PROVE TypeOK'
  BY <1>8 DEF RestoreFails, NoBackup, NoRows, NoMeta
<1>9. ASSUME NEW p \in Process, Publish(p) PROVE TypeOK'
  BY <1>9 DEF Publish, Release, NextEpoch
<1>10. ASSUME NEW p \in Process, PublishFails(p) PROVE TypeOK'
  BY <1>10 DEF PublishFails, Stop, Release
<1>11. ASSUME NEW p \in Process, FinishUnready(p) PROVE TypeOK'
  BY <1>11 DEF FinishUnready, Release
<1>12. ASSUME NEW p \in Process, BeginTurn(p) PROVE TypeOK'
  BY <1>12 DEF BeginTurn, Acquire
<1>13. ASSUME NEW p \in Process, EndTurn(p) PROVE TypeOK'
  BY <1>13 DEF EndTurn, Release
<1>14. ASSUME NEW p \in Process, NEW m \in Model, BeginSleep(p, m) PROVE TypeOK'
  BY <1>14 DEF BeginSleep, Acquire
<1>15. ASSUME NEW p \in Process, EndSleep(p) PROVE TypeOK'
  BY <1>15 DEF EndSleep, Stop, Release
<1>16. ASSUME NEW p \in Process, NEW n \in Node, Embed(p, n) PROVE TypeOK'
  BY <1>16 DEF Embed
<1>17. ASSUME NEW p \in Process, Shutdown(p) PROVE TypeOK'
  BY <1>17 DEF Shutdown, Stop, Release
<1>18. ASSUME NEW p \in Process, Die(p) PROVE TypeOK'
  BY <1>18 DEF Die, Stop, Release, NoBackup, NoRows, NoMeta
<1>19. ASSUME NEW p \in Process, FinishReady(p) PROVE TypeOK'
  BY <1>19 DEF FinishReady
<1>20. CASE UNCHANGED vars
  BY <1>20 DEF vars
<1> QED
  BY <1>1, <1>2, <1>3, <1>4, <1>5, <1>6, <1>7, <1>8, <1>9, <1>10,
     <1>11, <1>12, <1>13, <1>14, <1>15, <1>16, <1>17, <1>18, <1>19, <1>20
     DEF Next, Initializing, Operating

(* A lease is taken only when it is free.                                     *)
LEMMA StepExclusive == IInv /\ [Next]_vars => Exclusive'
<1> SUFFICES ASSUME IInv, [Next]_vars PROVE Exclusive'
  OBVIOUS
<1> USE DEF IInv, TypeOK, Exclusive, Go, Free, Modes
<1>1. ASSUME NEW p \in Process, NEW m \in Model, BeginInitialize(p, m) PROVE Exclusive'
  BY <1>1 DEF BeginInitialize, Acquire
<1>2. ASSUME NEW p \in Process, Inspect(p) PROVE Exclusive'
  BY <1>2 DEF Inspect
<1>3. ASSUME NEW p \in Process, InspectFails(p) PROVE Exclusive'
  BY <1>3 DEF InspectFails
<1>4. ASSUME NEW p \in Process, Wipe(p) PROVE Exclusive'
  BY <1>4 DEF Wipe, NoRows
<1>5. ASSUME NEW p \in Process, NEW n \in Node, EmbedNode(p, n) PROVE Exclusive'
  BY <1>5 DEF EmbedNode
<1>6. ASSUME NEW p \in Process, CheckMigration(p) PROVE Exclusive'
  BY <1>6 DEF CheckMigration
<1>7. ASSUME NEW p \in Process, Restore(p) PROVE Exclusive'
  BY <1>7 DEF Restore
<1>8. ASSUME NEW p \in Process, RestoreFails(p) PROVE Exclusive'
  BY <1>8 DEF RestoreFails
<1>9. ASSUME NEW p \in Process, Publish(p) PROVE Exclusive'
  BY <1>9 DEF Publish, Release, NextEpoch
<1>10. ASSUME NEW p \in Process, PublishFails(p) PROVE Exclusive'
  BY <1>10 DEF PublishFails, Stop, Release
<1>11. ASSUME NEW p \in Process, FinishUnready(p) PROVE Exclusive'
  BY <1>11 DEF FinishUnready, Release
<1>12. ASSUME NEW p \in Process, BeginTurn(p) PROVE Exclusive'
  BY <1>12 DEF BeginTurn, Acquire
<1>13. ASSUME NEW p \in Process, EndTurn(p) PROVE Exclusive'
  BY <1>13 DEF EndTurn, Release
<1>14. ASSUME NEW p \in Process, NEW m \in Model, BeginSleep(p, m) PROVE Exclusive'
  BY <1>14 DEF BeginSleep, Acquire
<1>15. ASSUME NEW p \in Process, EndSleep(p) PROVE Exclusive'
  BY <1>15 DEF EndSleep, Stop, Release
<1>16. ASSUME NEW p \in Process, NEW n \in Node, Embed(p, n) PROVE Exclusive'
  BY <1>16 DEF Embed
<1>17. ASSUME NEW p \in Process, Shutdown(p) PROVE Exclusive'
  BY <1>17 DEF Shutdown, Stop, Release
<1>18. ASSUME NEW p \in Process, Die(p) PROVE Exclusive'
  BY <1>18 DEF Die, Stop, Release
<1>19. ASSUME NEW p \in Process, FinishReady(p) PROVE Exclusive'
  BY <1>19 DEF FinishReady
<1>20. CASE UNCHANGED vars
  BY <1>20 DEF vars
<1> QED
  BY <1>1, <1>2, <1>3, <1>4, <1>5, <1>6, <1>7, <1>8, <1>9, <1>10,
     <1>11, <1>12, <1>13, <1>14, <1>15, <1>16, <1>17, <1>18, <1>19, <1>20
     DEF Next, Initializing, Operating

LEMMA StepMetaAgrees == IInv /\ [Next]_vars => MetaAgrees'
<1> SUFFICES ASSUME IInv, [Next]_vars PROVE MetaAgrees'
  OBVIOUS
<1> USE IdentityAssumption DEF IInv, TypeOK, MetaAgrees, PointsAgree, Bootstrapping, Metas
<1>1. ASSUME NEW p \in Process, NEW m \in Model, BeginInitialize(p, m) PROVE MetaAgrees'
  BY <1>1 DEF BeginInitialize, Acquire
<1>2. ASSUME NEW p \in Process, Inspect(p) PROVE MetaAgrees'
  BY <1>2 DEF Inspect
<1>3. ASSUME NEW p \in Process, InspectFails(p) PROVE MetaAgrees'
  BY <1>3 DEF InspectFails
<1>4. ASSUME NEW p \in Process, Wipe(p) PROVE MetaAgrees'
  BY <1>4 DEF Wipe, NoRows
<1>5. ASSUME NEW p \in Process, NEW n \in Node, EmbedNode(p, n) PROVE MetaAgrees'
  BY <1>5 DEF EmbedNode
<1>6. ASSUME NEW p \in Process, CheckMigration(p) PROVE MetaAgrees'
  BY <1>6 DEF CheckMigration
<1>7. ASSUME NEW p \in Process, Restore(p) PROVE MetaAgrees'
  BY <1>7 DEF Restore, BackupHolds
<1>8. ASSUME NEW p \in Process, RestoreFails(p) PROVE MetaAgrees'
  BY <1>8 DEF RestoreFails
<1>9. ASSUME NEW p \in Process, Publish(p) PROVE MetaAgrees'
  BY <1>9 DEF Publish, Release, NextEpoch
<1>10. ASSUME NEW p \in Process, PublishFails(p) PROVE MetaAgrees'
  BY <1>10 DEF PublishFails, Stop, Release
<1>11. ASSUME NEW p \in Process, FinishUnready(p) PROVE MetaAgrees'
  BY <1>11 DEF FinishUnready, Release
<1>12. ASSUME NEW p \in Process, BeginTurn(p) PROVE MetaAgrees'
  BY <1>12 DEF BeginTurn, Acquire
<1>13. ASSUME NEW p \in Process, EndTurn(p) PROVE MetaAgrees'
  BY <1>13 DEF EndTurn, Release
<1>14. ASSUME NEW p \in Process, NEW m \in Model, BeginSleep(p, m) PROVE MetaAgrees'
  BY <1>14 DEF BeginSleep, Acquire
<1>15. ASSUME NEW p \in Process, EndSleep(p) PROVE MetaAgrees'
  BY <1>15 DEF EndSleep, Stop, Release
<1>16. ASSUME NEW p \in Process, NEW n \in Node, Embed(p, n) PROVE MetaAgrees'
  BY <1>16 DEF Embed
<1>17. ASSUME NEW p \in Process, Shutdown(p) PROVE MetaAgrees'
  BY <1>17 DEF Shutdown, Stop, Release
<1>18. ASSUME NEW p \in Process, Die(p) PROVE MetaAgrees'
  BY <1>18 DEF Die, Stop, Release
<1>19. ASSUME NEW p \in Process, FinishReady(p) PROVE MetaAgrees'
  BY <1>19 DEF FinishReady
<1>20. CASE UNCHANGED vars
  BY <1>20 DEF vars
<1> QED
  BY <1>1, <1>2, <1>3, <1>4, <1>5, <1>6, <1>7, <1>8, <1>9, <1>10,
     <1>11, <1>12, <1>13, <1>14, <1>15, <1>16, <1>17, <1>18, <1>19, <1>20
     DEF Next, Initializing, Operating

LEMMA StepPointsAgree == IInv /\ [Next]_vars => PointsAgree'
<1> SUFFICES ASSUME IInv, [Next]_vars PROVE PointsAgree'
  OBVIOUS
<1> USE IdentityAssumption DEF IInv, TypeOK, PointsAgree, Bootstrapping, Go, Points, Metas
<1>1. ASSUME NEW p \in Process, NEW m \in Model, BeginInitialize(p, m) PROVE PointsAgree'
  BY <1>1 DEF BeginInitialize, Acquire
<1>2. ASSUME NEW p \in Process, Inspect(p) PROVE PointsAgree'
  BY <1>2 DEF Inspect
<1>3. ASSUME NEW p \in Process, InspectFails(p) PROVE PointsAgree'
  BY <1>3 DEF InspectFails
<1>4. ASSUME NEW p \in Process, Wipe(p) PROVE PointsAgree'
  BY <1>4 DEF Wipe, NoRows
<1>5. ASSUME NEW p \in Process, NEW n \in Node, EmbedNode(p, n) PROVE PointsAgree'
  BY <1>5 DEF EmbedNode
<1>6. ASSUME NEW p \in Process, CheckMigration(p) PROVE PointsAgree'
  BY <1>6 DEF CheckMigration
<1>7. ASSUME NEW p \in Process, Restore(p) PROVE PointsAgree'
  BY <1>7 DEF Restore
<1>8. ASSUME NEW p \in Process, RestoreFails(p) PROVE PointsAgree'
  BY <1>8 DEF RestoreFails
<1>9. ASSUME NEW p \in Process, Publish(p) PROVE PointsAgree'
  BY <1>9 DEF Publish, Release, NextEpoch, MetaAgrees
<1>10. ASSUME NEW p \in Process, PublishFails(p) PROVE PointsAgree'
  BY <1>10 DEF PublishFails, Stop, Release
<1>11. ASSUME NEW p \in Process, FinishUnready(p) PROVE PointsAgree'
  BY <1>11 DEF FinishUnready, Release
<1>12. ASSUME NEW p \in Process, BeginTurn(p) PROVE PointsAgree'
  BY <1>12 DEF BeginTurn, Acquire
<1>13. ASSUME NEW p \in Process, EndTurn(p) PROVE PointsAgree'
  BY <1>13 DEF EndTurn, Release
<1>14. ASSUME NEW p \in Process, NEW m \in Model, BeginSleep(p, m) PROVE PointsAgree'
  BY <1>14 DEF BeginSleep, Acquire
<1>15. ASSUME NEW p \in Process, EndSleep(p) PROVE PointsAgree'
  BY <1>15 DEF EndSleep, Stop, Release
<1>16. ASSUME NEW p \in Process, NEW n \in Node, Embed(p, n) PROVE PointsAgree'
  BY <1>16 DEF Embed
<1>17. ASSUME NEW p \in Process, Shutdown(p) PROVE PointsAgree'
  BY <1>17 DEF Shutdown, Stop, Release
<1>18. ASSUME NEW p \in Process, Die(p) PROVE PointsAgree'
  BY <1>18 DEF Die, Stop, Release
<1>19. ASSUME NEW p \in Process, FinishReady(p) PROVE PointsAgree'
  BY <1>19 DEF FinishReady
<1>20. CASE UNCHANGED vars
  BY <1>20 DEF vars
<1> QED
  BY <1>1, <1>2, <1>3, <1>4, <1>5, <1>6, <1>7, <1>8, <1>9, <1>10,
     <1>11, <1>12, <1>13, <1>14, <1>15, <1>16, <1>17, <1>18, <1>19, <1>20
     DEF Next, Initializing, Operating

(* Only the exclusive owner changes rows on the way to publication.           *)
LEMMA StepPublishOverOwnRows == IInv /\ [Next]_vars => PublishOverOwnRows'
<1> SUFFICES ASSUME IInv, [Next]_vars PROVE PublishOverOwnRows'
  OBVIOUS
<1> USE IdentityAssumption DEF IInv, TypeOK, PublishOverOwnRows, PointsAgree, Exclusive, Bootstrapping, Go, Rows
<1>1. ASSUME NEW p \in Process, NEW m \in Model, BeginInitialize(p, m) PROVE PublishOverOwnRows'
  BY <1>1 DEF BeginInitialize, Acquire
<1>2. ASSUME NEW p \in Process, Inspect(p) PROVE PublishOverOwnRows'
  <2>1. CASE MigrationRequired(p)
    BY <1>2, <2>1 DEF Inspect
  <2>2. CASE ~MigrationRequired(p)
    <3>1. \A n \in Node : vector[n] \in {NoModel, cfg[p]}
      <4> SUFFICES ASSUME NEW n \in Node, vector[n] # NoModel PROVE vector[n] = cfg[p]
        OBVIOUS
      <4>1. vector[n] \in StoredModels
        BY DEF StoredModels
      <4> QED BY <2>2, <4>1 DEF MigrationRequired
    <3> QED BY <1>2, <2>2, <3>1 DEF Inspect
  <2> QED BY <2>1, <2>2
<1>3. ASSUME NEW p \in Process, InspectFails(p) PROVE PublishOverOwnRows'
  BY <1>3 DEF InspectFails
<1>4. ASSUME NEW p \in Process, Wipe(p) PROVE PublishOverOwnRows'
  BY <1>4 DEF Wipe, NoRows
<1>5. ASSUME NEW p \in Process, NEW n \in Node, EmbedNode(p, n) PROVE PublishOverOwnRows'
  BY <1>5 DEF EmbedNode
<1>6. ASSUME NEW p \in Process, CheckMigration(p) PROVE PublishOverOwnRows'
  BY <1>6 DEF CheckMigration, Migrated
<1>7. ASSUME NEW p \in Process, Restore(p) PROVE PublishOverOwnRows'
  BY <1>7 DEF Restore
<1>8. ASSUME NEW p \in Process, RestoreFails(p) PROVE PublishOverOwnRows'
  BY <1>8 DEF RestoreFails
<1>9. ASSUME NEW p \in Process, Publish(p) PROVE PublishOverOwnRows'
  BY <1>9 DEF Publish, Release, NextEpoch
<1>10. ASSUME NEW p \in Process, PublishFails(p) PROVE PublishOverOwnRows'
  BY <1>10 DEF PublishFails, Stop, Release
<1>11. ASSUME NEW p \in Process, FinishUnready(p) PROVE PublishOverOwnRows'
  BY <1>11 DEF FinishUnready, Release
<1>12. ASSUME NEW p \in Process, BeginTurn(p) PROVE PublishOverOwnRows'
  BY <1>12 DEF BeginTurn, Acquire
<1>13. ASSUME NEW p \in Process, EndTurn(p) PROVE PublishOverOwnRows'
  BY <1>13 DEF EndTurn, Release
<1>14. ASSUME NEW p \in Process, NEW m \in Model, BeginSleep(p, m) PROVE PublishOverOwnRows'
  BY <1>14 DEF BeginSleep, Acquire
<1>15. ASSUME NEW p \in Process, EndSleep(p) PROVE PublishOverOwnRows'
  BY <1>15 DEF EndSleep, Stop, Release
<1>16. ASSUME NEW p \in Process, NEW n \in Node, Embed(p, n) PROVE PublishOverOwnRows'
  BY <1>16 DEF Embed
<1>17. ASSUME NEW p \in Process, Shutdown(p) PROVE PublishOverOwnRows'
  BY <1>17 DEF Shutdown, Stop, Release
<1>18. ASSUME NEW p \in Process, Die(p) PROVE PublishOverOwnRows'
  BY <1>18 DEF Die, Stop, Release
<1>19. ASSUME NEW p \in Process, FinishReady(p) PROVE PublishOverOwnRows'
  BY <1>19 DEF FinishReady
<1>20. CASE UNCHANGED vars
  BY <1>20 DEF vars
<1> QED
  BY <1>1, <1>2, <1>3, <1>4, <1>5, <1>6, <1>7, <1>8, <1>9, <1>10,
     <1>11, <1>12, <1>13, <1>14, <1>15, <1>16, <1>17, <1>18, <1>19, <1>20
     DEF Next, Initializing, Operating

(* A migration runs under the exclusive lease, and its backup is its own.     *)
LEMMA StepBackupHolds == IInv /\ [Next]_vars => BackupHolds'
<1> SUFFICES ASSUME IInv, [Next]_vars PROVE BackupHolds'
  OBVIOUS
<1> USE IdentityAssumption DEF IInv, TypeOK, BackupHolds, PointsAgree, Exclusive,
        Bootstrapping, Go, Points
<1>1. ASSUME NEW p \in Process, NEW m \in Model, BeginInitialize(p, m) PROVE BackupHolds'
  BY <1>1 DEF BeginInitialize, Acquire
<1>2. ASSUME NEW p \in Process, Inspect(p) PROVE BackupHolds'
  BY <1>2 DEF Inspect, Database
<1>3. ASSUME NEW p \in Process, InspectFails(p) PROVE BackupHolds'
  BY <1>3 DEF InspectFails
<1>4. ASSUME NEW p \in Process, Wipe(p) PROVE BackupHolds'
  BY <1>4 DEF Wipe, NoRows
<1>5. ASSUME NEW p \in Process, NEW n \in Node, EmbedNode(p, n) PROVE BackupHolds'
  BY <1>5 DEF EmbedNode
<1>6. ASSUME NEW p \in Process, CheckMigration(p) PROVE BackupHolds'
  BY <1>6 DEF CheckMigration
<1>7. ASSUME NEW p \in Process, Restore(p) PROVE BackupHolds'
  BY <1>7 DEF Restore
<1>8. ASSUME NEW p \in Process, RestoreFails(p) PROVE BackupHolds'
  BY <1>8 DEF RestoreFails
<1>9. ASSUME NEW p \in Process, Publish(p) PROVE BackupHolds'
  BY <1>9 DEF Publish, Release, NextEpoch
<1>10. ASSUME NEW p \in Process, PublishFails(p) PROVE BackupHolds'
  BY <1>10 DEF PublishFails, Stop, Release
<1>11. ASSUME NEW p \in Process, FinishUnready(p) PROVE BackupHolds'
  BY <1>11 DEF FinishUnready, Release
<1>12. ASSUME NEW p \in Process, BeginTurn(p) PROVE BackupHolds'
  BY <1>12 DEF BeginTurn, Acquire
<1>13. ASSUME NEW p \in Process, EndTurn(p) PROVE BackupHolds'
  BY <1>13 DEF EndTurn, Release
<1>14. ASSUME NEW p \in Process, NEW m \in Model, BeginSleep(p, m) PROVE BackupHolds'
  BY <1>14 DEF BeginSleep, Acquire
<1>15. ASSUME NEW p \in Process, EndSleep(p) PROVE BackupHolds'
  BY <1>15 DEF EndSleep, Stop, Release
<1>16. ASSUME NEW p \in Process, NEW n \in Node, Embed(p, n) PROVE BackupHolds'
  BY <1>16 DEF Embed
<1>17. ASSUME NEW p \in Process, Shutdown(p) PROVE BackupHolds'
  BY <1>17 DEF Shutdown, Stop, Release
<1>18. ASSUME NEW p \in Process, Die(p) PROVE BackupHolds'
  BY <1>18 DEF Die, Stop, Release
<1>19. ASSUME NEW p \in Process, FinishReady(p) PROVE BackupHolds'
  BY <1>19 DEF FinishReady
<1>20. CASE UNCHANGED vars
  BY <1>20 DEF vars
<1> QED
  BY <1>1, <1>2, <1>3, <1>4, <1>5, <1>6, <1>7, <1>8, <1>9, <1>10,
     <1>11, <1>12, <1>13, <1>14, <1>15, <1>16, <1>17, <1>18, <1>19, <1>20
     DEF Next, Initializing, Operating

(* A new model comes with an epoch above every one handed out; under the same *)
(* model the epoch is the persisted one. The restored identity is the same.   *)
LEMMA StepEpochNamesModel == IInv /\ [Next]_vars => EpochNamesModel'
<1> SUFFICES ASSUME IInv, [Next]_vars PROVE EpochNamesModel'
  OBVIOUS
<1> USE IdentityAssumption DEF IInv, TypeOK, EpochNamesModel, Published, PointsAgree,
        Bootstrapping, Go, Points, Metas
<1>1. ASSUME NEW p \in Process, NEW m \in Model, BeginInitialize(p, m) PROVE EpochNamesModel'
  BY <1>1 DEF BeginInitialize, Acquire
<1>2. ASSUME NEW p \in Process, Inspect(p) PROVE EpochNamesModel'
  BY <1>2 DEF Inspect
<1>3. ASSUME NEW p \in Process, InspectFails(p) PROVE EpochNamesModel'
  BY <1>3 DEF InspectFails
<1>4. ASSUME NEW p \in Process, Wipe(p) PROVE EpochNamesModel'
  BY <1>4 DEF Wipe, NoRows
<1>5. ASSUME NEW p \in Process, NEW n \in Node, EmbedNode(p, n) PROVE EpochNamesModel'
  BY <1>5 DEF EmbedNode
<1>6. ASSUME NEW p \in Process, CheckMigration(p) PROVE EpochNamesModel'
  BY <1>6 DEF CheckMigration
<1>7. ASSUME NEW p \in Process, Restore(p) PROVE EpochNamesModel'
  BY <1>7 DEF Restore, BackupHolds
<1>8. ASSUME NEW p \in Process, RestoreFails(p) PROVE EpochNamesModel'
  BY <1>8 DEF RestoreFails
<1>9. ASSUME NEW p \in Process, Publish(p) PROVE EpochNamesModel'
  BY <1>9 DEF Publish, Release, NextEpoch
<1>10. ASSUME NEW p \in Process, PublishFails(p) PROVE EpochNamesModel'
  BY <1>10 DEF PublishFails, Stop, Release
<1>11. ASSUME NEW p \in Process, FinishUnready(p) PROVE EpochNamesModel'
  BY <1>11 DEF FinishUnready, Release
<1>12. ASSUME NEW p \in Process, BeginTurn(p) PROVE EpochNamesModel'
  BY <1>12 DEF BeginTurn, Acquire
<1>13. ASSUME NEW p \in Process, EndTurn(p) PROVE EpochNamesModel'
  BY <1>13 DEF EndTurn, Release
<1>14. ASSUME NEW p \in Process, NEW m \in Model, BeginSleep(p, m) PROVE EpochNamesModel'
  BY <1>14 DEF BeginSleep, Acquire
<1>15. ASSUME NEW p \in Process, EndSleep(p) PROVE EpochNamesModel'
  BY <1>15 DEF EndSleep, Stop, Release
<1>16. ASSUME NEW p \in Process, NEW n \in Node, Embed(p, n) PROVE EpochNamesModel'
  BY <1>16 DEF Embed
<1>17. ASSUME NEW p \in Process, Shutdown(p) PROVE EpochNamesModel'
  BY <1>17 DEF Shutdown, Stop, Release
<1>18. ASSUME NEW p \in Process, Die(p) PROVE EpochNamesModel'
  BY <1>18 DEF Die, Stop, Release
<1>19. ASSUME NEW p \in Process, FinishReady(p) PROVE EpochNamesModel'
  BY <1>19 DEF FinishReady
<1>20. CASE UNCHANGED vars
  BY <1>20 DEF vars
<1> QED
  BY <1>1, <1>2, <1>3, <1>4, <1>5, <1>6, <1>7, <1>8, <1>9, <1>10,
     <1>11, <1>12, <1>13, <1>14, <1>15, <1>16, <1>17, <1>18, <1>19, <1>20
     DEF Next, Initializing, Operating

(* Publication needs the exclusive lease, so it waits for every operation.    *)
LEMMA StepOperationsMatch == IInv /\ [Next]_vars => OperationsMatchIdentity'
<1> SUFFICES ASSUME IInv, [Next]_vars PROVE OperationsMatchIdentity'
  OBVIOUS
<1> USE IdentityAssumption DEF IInv, TypeOK, OperationsMatchIdentity, InOperation,
        PointsAgree, Exclusive, Bootstrapping, Go
<1>1. ASSUME NEW p \in Process, NEW m \in Model, BeginInitialize(p, m) PROVE OperationsMatchIdentity'
  BY <1>1 DEF BeginInitialize, Acquire
<1>2. ASSUME NEW p \in Process, Inspect(p) PROVE OperationsMatchIdentity'
  BY <1>2 DEF Inspect
<1>3. ASSUME NEW p \in Process, InspectFails(p) PROVE OperationsMatchIdentity'
  BY <1>3 DEF InspectFails
<1>4. ASSUME NEW p \in Process, Wipe(p) PROVE OperationsMatchIdentity'
  BY <1>4 DEF Wipe, NoRows
<1>5. ASSUME NEW p \in Process, NEW n \in Node, EmbedNode(p, n) PROVE OperationsMatchIdentity'
  BY <1>5 DEF EmbedNode
<1>6. ASSUME NEW p \in Process, CheckMigration(p) PROVE OperationsMatchIdentity'
  BY <1>6 DEF CheckMigration
<1>7. ASSUME NEW p \in Process, Restore(p) PROVE OperationsMatchIdentity'
  BY <1>7 DEF Restore, BackupHolds
<1>8. ASSUME NEW p \in Process, RestoreFails(p) PROVE OperationsMatchIdentity'
  BY <1>8 DEF RestoreFails
<1>9. ASSUME NEW p \in Process, Publish(p) PROVE OperationsMatchIdentity'
  BY <1>9 DEF Publish, Release, NextEpoch
<1>10. ASSUME NEW p \in Process, PublishFails(p) PROVE OperationsMatchIdentity'
  BY <1>10 DEF PublishFails, Stop, Release
<1>11. ASSUME NEW p \in Process, FinishUnready(p) PROVE OperationsMatchIdentity'
  BY <1>11 DEF FinishUnready, Release
<1>12. ASSUME NEW p \in Process, BeginTurn(p) PROVE OperationsMatchIdentity'
  BY <1>12 DEF BeginTurn, Acquire, Validate, MetaAgrees
<1>13. ASSUME NEW p \in Process, EndTurn(p) PROVE OperationsMatchIdentity'
  BY <1>13 DEF EndTurn, Release
<1>14. ASSUME NEW p \in Process, NEW m \in Model, BeginSleep(p, m) PROVE OperationsMatchIdentity'
  BY <1>14 DEF BeginSleep, Acquire
<1>15. ASSUME NEW p \in Process, EndSleep(p) PROVE OperationsMatchIdentity'
  BY <1>15 DEF EndSleep, Stop, Release
<1>16. ASSUME NEW p \in Process, NEW n \in Node, Embed(p, n) PROVE OperationsMatchIdentity'
  BY <1>16 DEF Embed
<1>17. ASSUME NEW p \in Process, Shutdown(p) PROVE OperationsMatchIdentity'
  BY <1>17 DEF Shutdown, Stop, Release
<1>18. ASSUME NEW p \in Process, Die(p) PROVE OperationsMatchIdentity'
  BY <1>18 DEF Die, Stop, Release
<1>19. ASSUME NEW p \in Process, FinishReady(p) PROVE OperationsMatchIdentity'
  BY <1>19 DEF FinishReady
<1>20. CASE UNCHANGED vars
  BY <1>20 DEF vars
<1> QED
  BY <1>1, <1>2, <1>3, <1>4, <1>5, <1>6, <1>7, <1>8, <1>9, <1>10,
     <1>11, <1>12, <1>13, <1>14, <1>15, <1>16, <1>17, <1>18, <1>19, <1>20
     DEF Next, Initializing, Operating

(* The inductive invariant holds of every reachable state.                    *)
THEOREM InductiveInvariant == Spec => []IInv
<1>1. IInv /\ [Next]_vars => IInv'
  <2>1. IInv => TypeOK
    BY DEF IInv
  <2> QED
    BY <2>1, StepTypeOK, StepExclusive, StepMetaAgrees, StepPointsAgree,
       StepPublishOverOwnRows, StepOperationsMatch, StepBackupHolds,
       StepEpochNamesModel DEF IInv
<1> QED BY <1>1, InitIInv, PTL DEF Spec

(* Rows, metadata and process states keep their types.                        *)
THEOREM TypeCorrect == Spec => []TypeOK
<1>1. IInv => TypeOK
  BY DEF IInv
<1> QED BY <1>1, InductiveInvariant, PTL

(* No turn and no sleep cycle ever runs under an identity other than the      *)
(* persisted one, and no turn under a superseded epoch.                       *)
THEOREM OperationsMatch == Spec => []OperationsMatchIdentity
<1>1. IInv => OperationsMatchIdentity
  BY DEF IInv
<1> QED BY <1>1, InductiveInvariant, PTL

(* An epoch names one model: providers under the same epoch embed with the    *)
(* same model, and one under the persisted epoch with the persisted model,    *)
(* through migrations rolled back, failed publications and restarts.          *)
THEOREM EpochsNameModels == Spec => []EpochNamesModel
<1>1. IInv => EpochNamesModel
  BY DEF IInv
<1> QED BY <1>1, InductiveInvariant, PTL

(* An identity is published over rows of its own model only, whatever faults  *)
(* preceded: a process at its publication has seen or made every row its own, *)
(* and no other process writes rows before the publication.                   *)
THEOREM PublishedOverOwn == Spec => PublishedOverOwnRows
<1> DEFINE Own == \A p \in Process : pc[p] = "publish" /\ pc'[p] = "published" =>
                    \A n \in Node : vector[n] \in {NoModel, cfg[p]}
<1>1. IInv /\ [Next]_vars => [Own]_vars
  BY DEF IInv, PublishOverOwnRows
<1> QED BY <1>1, InductiveInvariant, PTL DEF Spec, PublishedOverOwnRows
=============================================================================
