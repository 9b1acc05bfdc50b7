--------------------------- MODULE IncidentsProofs ---------------------------
(***************************************************************************)
(* What TLAPS proves of Incidents for every set of workloads, observations *)
(* and transactions, and any number of reports, disconnections, restarts   *)
(* and evaluations in between: an evaluation that is published, or skipped *)
(* because it was published before, is the truth of that moment.           *)
(***************************************************************************)
EXTENDS Incidents, FarmConfigProofs

(***************************************************************************)
(* What the operations of FarmConfig do to workloads and incidents.        *)
(***************************************************************************)

\* A workload whose row was deleted.
Gone(d, w) == d.workloads[w].rev < 0

\* Nothing is said of an incident, and no workload goes or comes back.
Silent(d, n) ==
    /\ n.incidents = d.incidents
    /\ \A w \in WorkloadId : /\ Live(d.workloads[w]) => Live(n.workloads[w])
                             /\ Gone(d, w) => Gone(n, w)

\* The workload w goes, and its incidents are resolved.
Deletes(d, n, w) ==
    /\ n.incidents = [i \in DOMAIN d.incidents |->
          IF i.workload = w /\ d.incidents[i].state = "ACTIVE"
          THEN [d.incidents[i] EXCEPT !.state = "RESOLVED"] ELSE d.incidents[i]]
    /\ Gone(n, w)
    /\ \A v \in WorkloadId : v # w => n.workloads[v] = d.workloads[v]

\* A database whose columns and rows of workloads are in place.
Tables(d) == d = [t \in TableName |-> d[t]] /\ IsTable(d.workloads, WorkloadId, WorkloadColumns)

\* A change of other tables.
Elsewhere(d, n) == Tables(n) /\ n.workloads = d.workloads /\ n.incidents = d.incidents

\* A consistent database has its columns.
LEMMA ConsistentTables == ASSUME NEW d, Consistent(d) PROVE Tables(d)
BY DEF Consistent, WellFormed, Tables, WorkloadColumns

\* Rows of Pools, WalletRefs, Profiles and settings are elsewhere.
LEMMA RowElsewhere ==
    ASSUME NEW d, Tables(d), NEW x, NEW r
    PROVE  /\ Elsewhere(d, [d EXCEPT !.pools[x] = r])
           /\ Elsewhere(d, [d EXCEPT !.wallets[x] = r])
           /\ Elsewhere(d, [d EXCEPT !.profiles[x] = r])
           /\ Elsewhere(d, [d EXCEPT !.settings[x] = r])
           /\ Elsewhere(d, [d EXCEPT !.bindings[x] = r])
           /\ Elsewhere(d, [d EXCEPT !.holds[x] = r])
           /\ Elsewhere(d, [d EXCEPT !.barriers[x] = r])
           /\ \A y : Elsewhere(d, [d EXCEPT !.barriers = x, !.restoreRequired = y])
BY DEF Tables, Elsewhere, TableName

\* What is silent in two steps is silent.
LEMMA SilentTrans ==
    ASSUME NEW d, NEW n, NEW m, Silent(d, n), Silent(n, m) PROVE Silent(d, m)
BY DEF Silent

\* A commit adds the transaction's number.
LEMMA SilentCommit ==
    ASSUME NEW n, Tables(n), Silent(db, n), Commit(n) PROVE Silent(db, db')
<1>1. db'.workloads = n.workloads /\ db'.incidents = n.incidents
  BY DEF Commit, Tables, TableName
<1>. QED
  BY <1>1 DEF Silent, Gone

\* New generations leave rows where they are.
LEMMA SilentPropagate ==
    ASSUME NEW d, Tables(d), NEW ws
    PROVE  Tables(Propagate(d, ws)) /\ Silent(d, Propagate(d, ws))
<1>. DEFINE n == Propagate(d, ws)
            moved == Moved(d, ws)
<1>1. /\ n.workloads = [w \in WorkloadId |->
              IF w \in moved
              THEN [d.workloads[w] EXCEPT !.gen = d.workloads[w].gen + 1, !.hash = Resolve(d, w)]
              ELSE d.workloads[w]]
      /\ n.incidents = d.incidents /\ n = [t \in TableName |-> n[t]]
  BY DEF Propagate, NewGenerations, Tables, TableName
<1>. HIDE DEF n, moved
<1>2. ASSUME NEW w \in WorkloadId
      PROVE  /\ n.workloads[w] = [c \in WorkloadColumns |-> n.workloads[w][c]]
             /\ n.workloads[w].rev = d.workloads[w].rev /\ d.workloads[w].rev \in Int
  <2>1. d.workloads[w] = [c \in WorkloadColumns |-> d.workloads[w][c]] /\ d.workloads[w].rev \in Int
    BY DEF Tables, IsTable
  <2>2. CASE w \in moved
    <3>1. n.workloads[w]
             = [d.workloads[w] EXCEPT !.gen = d.workloads[w].gen + 1, !.hash = Resolve(d, w)]
      BY <1>1, <2>2
    <3>. QED
      BY <2>1, <3>1 DEF WorkloadColumns
  <2>3. CASE w \notin moved
    BY <1>1, <2>1, <2>3
  <2>. QED
    BY <2>2, <2>3
<1>3. Tables(n)
  <2>1. n.workloads = [w \in WorkloadId |-> n.workloads[w]]
    BY <1>1
  <2>. QED
    BY <1>1, <1>2, <2>1 DEF Tables, IsTable
<1>4. Silent(d, n)
  BY <1>1, <1>2 DEF Silent, Live, Gone
<1>. QED
  BY <1>3, <1>4 DEF n

\* A row of a workload that stays, or comes to be.
LEMMA SilentRow ==
    ASSUME NEW d, Tables(d), NEW w \in WorkloadId, NEW r, IsRow(r, WorkloadColumns),
           Live(d.workloads[w]) => Live(r), Gone(d, w) => r.rev < 0,
           NEW n, n = [t \in TableName |-> n[t]], n.incidents = d.incidents,
           n.workloads = [d.workloads EXCEPT ![w] = r]
    PROVE  Tables(n) /\ Silent(d, n)
<1>1. PICK t : t = d.workloads
  OBVIOUS
<1>2. IsTable(t, WorkloadId, WorkloadColumns)
  BY <1>1 DEF Tables
<1>. DEFINE u == [t EXCEPT ![w] = r]
<1>3. IsTable(u, WorkloadId, WorkloadColumns) /\ u[w] = r /\ \A v \in WorkloadId : v # w => u[v] = t[v]
  BY <1>2, RowWrite
<1>4. n.workloads = u
  BY <1>1
<1>. HIDE DEF u
<1>. QED
  BY <1>1, <1>3, <1>4 DEF Tables, Silent, Gone

\* A plan is added elsewhere.
LEMMA SnapshotElsewhere ==
    ASSUME NEW d, Tables(d), NEW w, NEW hash
    PROVE  Elsewhere(d, Snapshot(d, w, hash)) /\ Elsewhere(d, SnapshotIfReady(d, w, hash))
BY DEF Snapshot, SnapshotIfReady, Tables, Elsewhere, TableName

\* What is elsewhere is silent.
LEMMA ElsewhereSilent ==
    ASSUME NEW d, NEW n, NEW m, Silent(d, n), Elsewhere(n, m)
    PROVE  Tables(m) /\ Silent(d, m)
BY DEF Elsewhere, Silent, Gone

\* No change is silent.
LEMMA SelfSilent == ASSUME NEW d PROVE Silent(d, d)
BY DEF Silent

\* A change of configuration, propagated or not.
LEMMA ConfiguredSilent ==
    ASSUME Tables(db), NEW n, Elsewhere(db, n), Commit(n) \/ \E ws : CommitPropagated(n, ws)
    PROVE  Silent(db, db')
<1>1. Tables(n) /\ Silent(db, n)
  BY SelfSilent, ElsewhereSilent
<1>2. CASE Commit(n)
  BY <1>1, <1>2, SilentCommit
<1>3. ASSUME NEW ws, CommitPropagated(n, ws) PROVE Silent(db, db')
  <2>1. Commit(Propagate(n, ws))
    BY <1>3 DEF CommitPropagated
  <2>2. Tables(Propagate(n, ws)) /\ Silent(db, Propagate(n, ws))
    BY <1>1, SilentPropagate, SilentTrans
  <2>. QED
    BY <2>1, <2>2, SilentCommit
<1>. QED
  BY <1>2, <1>3

\* Pools, WalletRefs, Profiles and settings: no incident is about them.
LEMMA ConfigurationSilent ==
    ASSUME Tables(db),
           \/ CreatePool \/ UpdatePool \/ DeletePool
           \/ CreateWalletRef \/ UpdateWalletRef \/ DeleteWalletRef
           \/ CreateMiningProfile \/ UpdateMiningProfile \/ DeleteMiningProfile
           \/ CreateHostProfileSettings \/ UpdateHostProfileSettings \/ DeleteHostProfileSettings
    PROVE  Silent(db, db')
<1>. DEFINE Done(n) == Commit(n) \/ \E ws : CommitPropagated(n, ws)
<1>1. CASE CreatePool \/ UpdatePool \/ DeletePool
  <2>1. PICK p \in Pool : \E r : Done([db EXCEPT !.pools[p] = r])
    BY <1>1 DEF CreatePool, UpdatePool, DeletePool
  <2>2. PICK r : Done([db EXCEPT !.pools[p] = r])
    BY <2>1
  <2>. QED
    BY <2>2, RowElsewhere, ConfiguredSilent
<1>2. CASE CreateWalletRef \/ UpdateWalletRef \/ DeleteWalletRef
  <2>1. PICK k \in Wallet : \E r : Done([db EXCEPT !.wallets[k] = r])
    BY <1>2 DEF CreateWalletRef, UpdateWalletRef, DeleteWalletRef
  <2>2. PICK r : Done([db EXCEPT !.wallets[k] = r])
    BY <2>1
  <2>. QED
    BY <2>2, RowElsewhere, ConfiguredSilent
<1>3. CASE CreateMiningProfile \/ UpdateMiningProfile \/ DeleteMiningProfile
  <2>1. PICK f \in Profile : \E r : Done([db EXCEPT !.profiles[f] = r])
    BY <1>3 DEF CreateMiningProfile, UpdateMiningProfile, DeleteMiningProfile
  <2>2. PICK r : Done([db EXCEPT !.profiles[f] = r])
    BY <2>1
  <2>. QED
    BY <2>2, RowElsewhere, ConfiguredSilent
<1>4. CASE \/ CreateHostProfileSettings \/ UpdateHostProfileSettings
           \/ DeleteHostProfileSettings
  <2>1. PICK h \in Host, f \in Profile : \E r : Done([db EXCEPT !.settings[<<h, f>>] = r])
    BY <1>4 DEF CreateHostProfileSettings, UpdateHostProfileSettings, DeleteHostProfileSettings
  <2>2. PICK r : Done([db EXCEPT !.settings[<<h, f>>] = r])
    BY <2>1
  <2>. QED
    BY <2>2, RowElsewhere, ConfiguredSilent
<1>. QED
  BY <1>1, <1>2, <1>3, <1>4

\* Bindings, Holds and barriers are elsewhere, too.
LEMMA OthersSilent ==
    ASSUME Tables(db),
           \/ BlockDesiredGeneration \/ MarkRestoreHostConflict \/ ClearRestoreHostBarrier
           \/ \E h \in Host, active \in BOOLEAN : SetMaintenanceHold(h, active)
    PROVE  Silent(db, db')
<1>1. CASE BlockDesiredGeneration
  <2>1. PICK w \in WorkloadId : \E r : Commit([db EXCEPT !.bindings[w] = r])
    BY <1>1 DEF BlockDesiredGeneration, Workloads
  <2>2. PICK r : Commit([db EXCEPT !.bindings[w] = r])
    BY <2>1
  <2>. QED
    BY <2>2, RowElsewhere, ConfiguredSilent
<1>2. CASE MarkRestoreHostConflict
  <2>1. PICK h \in Host : \E r : Commit([db EXCEPT !.barriers[h] = r])
    BY <1>2 DEF MarkRestoreHostConflict
  <2>2. PICK r : Commit([db EXCEPT !.barriers[h] = r])
    BY <2>1
  <2>. QED
    BY <2>2, RowElsewhere, ConfiguredSilent
<1>3. CASE ClearRestoreHostBarrier
  <2>1. PICK b, y : Commit([db EXCEPT !.barriers = b, !.restoreRequired = y])
    BY <1>3 DEF ClearRestoreHostBarrier
  <2>. QED
    BY <2>1, RowElsewhere, ConfiguredSilent
<1>4. CASE \E h \in Host, active \in BOOLEAN : SetMaintenanceHold(h, active)
  <2>1. PICK h \in Host : \E r : Commit([db EXCEPT !.holds[h] = r])
    BY <1>4 DEF SetMaintenanceHold
  <2>2. PICK r : Commit([db EXCEPT !.holds[h] = r])
    BY <2>1
  <2>. QED
    BY <2>2, RowElsewhere, ConfiguredSilent
<1>. QED
  BY <1>1, <1>2, <1>3, <1>4

\* The row of a workload written again.
LEMMA RevisedWorkload ==
    ASSUME NEW q, IsRow(q, WorkloadColumns), NEW c
    PROVE  IsRow(Revised(q, c), WorkloadColumns) /\ Revised(q, c).rev = q.rev + 1
<1>1. q = [x \in WorkloadColumns |-> q[x]] /\ q.rev \in Int
  BY DEF IsRow
<1>2. /\ Revised(q, c) = [x \in WorkloadColumns |-> Revised(q, c)[x]]
      /\ Revised(q, c).rev = q.rev + 1
  BY <1>1 DEF Revised, WorkloadColumns
<1>. QED
  BY <1>1, <1>2 DEF IsRow

\* A workload is edited.
LEMMA UpdatedSilent ==
    ASSUME Consistent(db), NEW w \in Workloads(db), NEW c, Commit(Updated(db, w, c))
    PROVE  Silent(db, db')
<1>. DEFINE r == Revised(db.workloads[w], c)
            n == [db EXCEPT !.workloads[w] = r]
<1>1. w \in WorkloadId /\ Tables(db) /\ Live(db.workloads[w])
  BY ConsistentTables DEF Workloads
<1>2. IsRow(db.workloads[w], WorkloadColumns) /\ db.workloads[w].gen \in Nat
  BY <1>1, WorkloadFacts
<1>3. IsRow(r, WorkloadColumns) /\ r.rev = db.workloads[w].rev + 1
  BY <1>2, RevisedWorkload
<1>4. Live(r) /\ ~Gone(db, w)
  BY <1>1, <1>2, <1>3 DEF Live, Gone, IsRow
<1>5. Updated(db, w, c) = Propagate(n, {w})
  BY DEF Updated
<1>. HIDE DEF r
<1>6. /\ n = [t \in TableName |-> n[t]] /\ n.incidents = db.incidents
      /\ n.workloads = [db.workloads EXCEPT ![w] = r]
  BY <1>1 DEF Tables, TableName
<1>. HIDE DEF n
<1>7. Tables(n) /\ Silent(db, n)
  BY <1>1, <1>3, <1>4, <1>6, SilentRow
<1>8. Tables(Propagate(n, {w})) /\ Silent(db, Propagate(n, {w}))
  BY <1>7, SilentPropagate, SilentTrans
<1>. QED
  BY <1>5, <1>8, SilentCommit

\* A workload is created, tried again or planned.
LEMMA PlannedSilent ==
    ASSUME Consistent(db),
           CreateDesiredWorkload \/ RetryWorkload \/ RefreshResolvedSnapshotForInventory
    PROVE  Silent(db, db')
<1>1. Tables(db) /\ db = [t \in TableName |-> db[t]]
  BY ConsistentTables DEF Tables
<1>2. CASE CreateDesiredWorkload
  <2>1. PICK w \in WorkloadId, c \in WorkloadContent :
                LET placed == [db EXCEPT !.workloads[w] =
                                  [rev |-> 1, content |-> c, gen |-> 1, hash |-> None]]
                    hash == Resolve(placed, w)
                IN  /\ db.workloads[w] = NoWorkload
                    /\ Commit(SnapshotIfReady([placed EXCEPT !.workloads[w].hash = hash], w, hash))
    BY <1>2 DEF CreateDesiredWorkload
  <2>. DEFINE placed == [db EXCEPT !.workloads[w] =
                            [rev |-> 1, content |-> c, gen |-> 1, hash |-> None]]
              hash == Resolve(placed, w)
              r == [rev |-> 1, content |-> c, gen |-> 1, hash |-> hash]
              n == [placed EXCEPT !.workloads[w].hash = hash]
  <2>2. IsRow(r, WorkloadColumns) /\ Live(r) /\ ~Gone(db, w)
    BY <2>1 DEF IsRow, WorkloadColumns, Live, Gone, NoWorkload
  <2>3. PICK h : h = hash
    OBVIOUS
  <2>4. /\ n = [t \in TableName |-> n[t]] /\ n.incidents = db.incidents
        /\ n.workloads = [db.workloads EXCEPT ![w] = r]
    <3>1. placed.workloads = [db.workloads EXCEPT ![w] =
                                 [rev |-> 1, content |-> c, gen |-> 1, hash |-> None]]
      BY <1>1 DEF TableName
    <3>2. w \in DOMAIN db.workloads
      BY <1>1 DEF Tables, IsTable
    <3>. HIDE DEF hash
    <3>3. n.workloads = [db.workloads EXCEPT ![w] = r]
      BY <1>1, <3>1, <3>2 DEF TableName
    <3>. QED
      BY <1>1, <3>3 DEF TableName
  <2>5. Commit(SnapshotIfReady(n, w, hash))
    BY <2>1
  <2>. HIDE DEF n, r, hash
  <2>6. Tables(n) /\ Silent(db, n)
    BY <1>1, <2>2, <2>4, SilentRow
  <2>7. Tables(SnapshotIfReady(n, w, hash)) /\ Silent(db, SnapshotIfReady(n, w, hash))
    BY <2>6, SnapshotElsewhere, ElsewhereSilent
  <2>. QED
    BY <2>5, <2>7, SilentCommit
<1>3. CASE RetryWorkload
  <2>1. PICK w \in Workloads(db) : \E plan :
                LET row == db.workloads[w]
                    next == [db EXCEPT !.workloads[w] = [row EXCEPT !.rev = row.rev + 1,
                                                                    !.gen = row.gen + 1],
                                       !.bindings[w] = NoBinding]
                IN  Commit(Snapshot(next, w, plan))
    BY <1>3 DEF RetryWorkload
  <2>. DEFINE row == db.workloads[w]
              r == [row EXCEPT !.rev = row.rev + 1, !.gen = row.gen + 1]
              next == [db EXCEPT !.workloads[w] = r, !.bindings[w] = NoBinding]
  <2>2. PICK plan : Commit(Snapshot(next, w, plan))
    BY <2>1
  <2>3. w \in WorkloadId /\ row.rev > 0 /\ row.rev \in Int
        /\ row = [x \in WorkloadColumns |-> row[x]]
    BY <1>1 DEF Workloads, Live, Tables, IsTable
  <2>. HIDE DEF row
  <2>4. r = [x \in WorkloadColumns |-> r[x]] /\ r.rev = row.rev + 1
    BY <2>3 DEF WorkloadColumns
  <2>. HIDE DEF r
  <2>5. IsRow(r, WorkloadColumns) /\ Live(r) /\ ~(row.rev < 0)
    BY <2>3, <2>4 DEF IsRow, Live
  <2>6. /\ next = [t \in TableName |-> next[t]] /\ next.incidents = db.incidents
        /\ next.workloads = [db.workloads EXCEPT ![w] = r]
    BY <1>1 DEF TableName
  <2>. HIDE DEF next
  <2>7. Tables(next) /\ Silent(db, next)
    BY <1>1, <2>3, <2>5, <2>6, SilentRow DEF Gone, row
  <2>8. Tables(Snapshot(next, w, plan)) /\ Silent(db, Snapshot(next, w, plan))
    BY <2>7, SnapshotElsewhere, ElsewhereSilent
  <2>. QED
    BY <2>2, <2>8, SilentCommit
<1>4. CASE RefreshResolvedSnapshotForInventory
  <2>1. PICK w \in Workloads(db) : \E h, g :
            Commit(Snapshot([db EXCEPT !.workloads[w].hash = h, !.workloads[w].gen = g], w, h))
    BY <1>4 DEF RefreshResolvedSnapshotForInventory
  <2>2. PICK h, g :
            Commit(Snapshot([db EXCEPT !.workloads[w].hash = h, !.workloads[w].gen = g], w, h))
    BY <2>1
  <2>. DEFINE row == db.workloads[w]
              r == [row EXCEPT !.hash = h, !.gen = g]
              next == [db EXCEPT !.workloads[w].hash = h, !.workloads[w].gen = g]
  <2>3. w \in WorkloadId /\ row.rev > 0 /\ row.rev \in Int
        /\ row = [x \in WorkloadColumns |-> row[x]]
    BY <1>1 DEF Workloads, Live, Tables, IsTable
  <2>4. /\ next = [t \in TableName |-> next[t]] /\ next.incidents = db.incidents
        /\ next.workloads = [db.workloads EXCEPT ![w] = r]
    <3>1. w \in DOMAIN db.workloads
      BY <1>1, <2>3 DEF Tables, IsTable
    <3>. QED
      BY <1>1, <3>1 DEF TableName
  <2>. HIDE DEF row
  <2>5. r = [x \in WorkloadColumns |-> r[x]] /\ r.rev = row.rev
    BY <2>3 DEF WorkloadColumns
  <2>. HIDE DEF r, next
  <2>6. IsRow(r, WorkloadColumns) /\ Live(r) /\ ~(row.rev < 0)
    BY <2>3, <2>5 DEF IsRow, Live
  <2>7. Tables(next) /\ Silent(db, next)
    BY <1>1, <2>3, <2>4, <2>6, SilentRow DEF Gone, row
  <2>8. Tables(Snapshot(next, w, h)) /\ Silent(db, Snapshot(next, w, h))
    BY <2>7, SnapshotElsewhere, ElsewhereSilent
  <2>. QED
    BY <2>2, <2>8, SilentCommit DEF next
<1>. QED
  BY <1>2, <1>3, <1>4

\* A workload is deleted.
LEMMA DeletedStep ==
    ASSUME Consistent(db), NEW w \in WorkloadId, Commit(WithoutWorkload(db, w))
    PROVE  Deletes(db, db', w)
<1>1. Tables(db) /\ db = [t \in TableName |-> db[t]]
  BY ConsistentTables DEF Tables
<1>. DEFINE r == Erased(db.workloads[w])
            i == [x \in DOMAIN db.incidents |->
                     IF x.workload = w /\ db.incidents[x].state = "ACTIVE"
                     THEN [db.incidents[x] EXCEPT !.state = "RESOLVED"] ELSE db.incidents[x]]
            n == WithoutWorkload(db, w)
<1>2. r.rev < 0
  BY WorkloadFacts DEF Erased, IsRow, WorkloadColumns
<1>. HIDE DEF r
<1>3. n.workloads = [db.workloads EXCEPT ![w] = r] /\ n.incidents = i
  BY <1>1 DEF WithoutWorkload, ResolveIncidentsOf, TableName, r
<1>4. db'.workloads = n.workloads /\ db'.incidents = n.incidents
  <2>1. n = [t \in TableName |-> n[t]]
    BY <1>1 DEF WithoutWorkload, ResolveIncidentsOf, TableName
  <2>2. Commit(n)
    OBVIOUS
  <2>. HIDE DEF n
  <2>. QED
    BY <2>1, <2>2 DEF Commit, TableName
<1>5. w \in DOMAIN db.workloads
  BY <1>1 DEF Tables, IsTable
<1>. HIDE DEF n
<1>. QED
  BY <1>2, <1>3, <1>4, <1>5 DEF Deletes, Gone

\* Every operation on the desired state: silent, or the deletion of one workload.
LEMMA FarmTells ==
    ASSUME FarmInv, FarmStep
    PROVE  \/ Silent(db, db')
           \/ \E w \in WorkloadId : Live(db.workloads[w]) /\ Deletes(db, db', w)
<1>1. Consistent(db) /\ Tables(db)
  BY ConsistentTables DEF FarmInv
<1>2. CASE \/ CreatePool \/ UpdatePool \/ DeletePool
           \/ CreateWalletRef \/ UpdateWalletRef \/ DeleteWalletRef
           \/ CreateMiningProfile \/ UpdateMiningProfile \/ DeleteMiningProfile
           \/ CreateHostProfileSettings \/ UpdateHostProfileSettings \/ DeleteHostProfileSettings
  BY <1>1, <1>2, ConfigurationSilent
<1>3. CASE CreateDesiredWorkload \/ RetryWorkload \/ RefreshResolvedSnapshotForInventory
  BY <1>1, <1>3, PlannedSilent
<1>4. CASE UpdateDesiredWorkload
  BY <1>1, <1>4, UpdatedSilent DEF UpdateDesiredWorkload
<1>5. CASE BlockDesiredGeneration \/ MarkRestoreHostConflict \/ ClearRestoreHostBarrier
  BY <1>1, <1>5, OthersSilent
<1>6. CASE DeleteDesiredWorkload
  BY <1>1, <1>6, DeletedStep DEF DeleteDesiredWorkload, Workloads
<1>7. CASE OperatorReads \/ OperatorFails
  BY <1>7, SelfSilent DEF OperatorReads, OperatorFails
<1>8. CASE OperatorSetsRunState
  <2>1. edit.id \in Workloads(db)
    BY <1>8 DEF OperatorSetsRunState, SeenRow, FarmInv, EditOK, Workloads, Live
  <2>. QED
    BY <1>1, <1>8, <2>1, UpdatedSilent DEF OperatorSetsRunState
<1>9. CASE OperatorDeletesWorkload
  <2>1. edit.id \in WorkloadId
    BY <1>9 DEF OperatorDeletesWorkload, FarmInv, EditOK
  <2>. QED
    BY <1>1, <1>9, <2>1, DeletedStep
       DEF OperatorDeletesWorkload, FinalizeRetiredDesiredWorkloadDeletion
<1>10. CASE OperatorSetsHold
  BY <1>1, <1>10, OthersSilent DEF OperatorSetsHold, FarmInv, EditOK
<1>. QED
  BY <1>2, <1>3, <1>4, <1>5, <1>6, <1>7, <1>8, <1>9, <1>10 DEF FarmStep

(***************************************************************************)
(* Evaluations.                                                            *)
(***************************************************************************)

\* The first of four causes is one of them.
LEMMA FirstCauseIs ==
    ASSUME NEW a, NEW b, NEW c, NEW e, NEW i \in FirstCause(<<a, b, c, e>>)
    PROVE  i \in a \/ i \in b \/ i \in c \/ i \in e
<1>. DEFINE s == <<a, b, c, e>>
            found == {k \in DOMAIN s : s[k] # {}}
<1>1. DOMAIN s = 1..4 /\ s[1] = a /\ s[2] = b /\ s[3] = c /\ s[4] = e
  OBVIOUS
<1>2. found # {} /\ i \in s[Min(found)]
  BY DEF FirstCause
<1>. HIDE DEF s
<1>3. found \subseteq 1..4
  BY <1>1
<1>. HIDE DEF found
<1>4. \E m \in found : \A y \in found : m <= y
  <2>1. \A y \in found : y \in {1, 2, 3, 4}
    BY <1>3
  <2>2. CASE 1 \in found
    BY <2>1, <2>2
  <2>3. CASE 1 \notin found /\ 2 \in found
    BY <2>1, <2>3
  <2>4. CASE 1 \notin found /\ 2 \notin found /\ 3 \in found
    BY <2>1, <2>4
  <2>5. CASE 1 \notin found /\ 2 \notin found /\ 3 \notin found
    BY <1>2, <2>1, <2>5
  <2>. QED
    BY <2>2, <2>3, <2>4, <2>5
<1>5. Min(found) \in 1..4
  BY <1>3, <1>4 DEF Min
<1>6. Min(found) = 1 \/ Min(found) = 2 \/ Min(found) = 3 \/ Min(found) = 4
  BY <1>5
<1>. QED
  BY <1>1, <1>2, <1>6

\* What an Agent reports of executions is known.
ReportOK(o) == \A k \in DOMAIN o.execs : o.execs[k] \in DOMAIN ExecutionIncidents

\* A condition of a workload is about a workload that is desired to run.
LEMMA WorkloadConditionsAre ==
    ASSUME NEW a, NEW o, ReportOK(o), NEW w, NEW i \in WorkloadConditions(a, o, w)
    PROVE  i.workload = w /\ i.type # "MAINTENANCE_HOLD"
<1>1. CASE a.bindings[w].gen = a.workloads[w].gen
  <2>1. i = OfWorkload(TypeForCode(a.bindings[w].code), w, a.bindings[w].code)
    BY <1>1 DEF WorkloadConditions
  <2>. QED
    BY <2>1 DEF OfWorkload, Incident, TypeForCode
<1>2. CASE a.bindings[w].gen # a.workloads[w].gen /\ Execution(a, w) \notin DOMAIN a.snapshots
  <2>1. i = OfWorkload("CONFIGURATION_BLOCKED", w, "NOT_FOUND")
    BY <1>2 DEF WorkloadConditions
  <2>. QED
    BY <2>1 DEF OfWorkload, Incident
<1>3. CASE a.bindings[w].gen # a.workloads[w].gen /\ Execution(a, w) \in DOMAIN a.snapshots
  <2>. DEFINE plan == a.snapshots[Execution(a, w)]
              executing == IF a.hold.active THEN {} ELSE Executing(a, o, w)
  <2>1. i \in FirstCause(<<
             OfDevices("INCOMPATIBLE_HARDWARE", w, MissingDevices(o, plan), "MISSING"),
             UnmanagedConflicts(o, w, plan), OwnedResourceConflicts(a, o, w, plan), executing>>)
    BY <1>3 DEF WorkloadConditions
  <2>. HIDE DEF plan, executing
  <2>2. \/ i \in OfDevices("INCOMPATIBLE_HARDWARE", w, MissingDevices(o, plan), "MISSING")
        \/ i \in UnmanagedConflicts(o, w, plan)
        \/ i \in OwnedResourceConflicts(a, o, w, plan)
        \/ i \in executing
    BY <2>1, FirstCauseIs
  <2>3. ASSUME NEW type \in {"INCOMPATIBLE_HARDWARE", "UNMANAGED_PROCESS_CONFLICT",
                             "RESOURCE_CONFLICT"},
               NEW devices, NEW reason,
               i \in OfDevices(type, w, devices, reason)
        PROVE  i.workload = w /\ i.type # "MAINTENANCE_HOLD"
    BY <2>3 DEF OfDevices, Incident
  <2>4. CASE i \in OfDevices("INCOMPATIBLE_HARDWARE", w, MissingDevices(o, plan), "MISSING")
    BY <2>3, <2>4
  <2>5. CASE i \in UnmanagedConflicts(o, w, plan)
    <3>1. \/ \E x : i \in OfDevices("UNMANAGED_PROCESS_CONFLICT", w, x, "UNMANAGED")
          \/ i = OfWorkload("UNMANAGED_PROCESS_CONFLICT", w, "UNMANAGED")
      BY <2>5 DEF UnmanagedConflicts
    <3>. QED
      BY <2>3, <3>1 DEF OfWorkload, Incident
  <2>6. CASE i \in OwnedResourceConflicts(a, o, w, plan)
    <3>1. \/ \E x : i \in OfDevices("RESOURCE_CONFLICT", w, x, "CONFLICT")
          \/ i = OfWorkload("RESOURCE_CONFLICT", w, "CONFLICT")
      BY <2>6 DEF OwnedResourceConflicts
    <3>. QED
      BY <2>3, <3>1 DEF OfWorkload, Incident
  <2>7. CASE i \in executing
    <3>1. i \in Executing(a, o, w)
      BY <2>7 DEF executing
    <3>2. CASE Execution(a, w) \in DOMAIN o.execs
      <4>. DEFINE k == Execution(a, w)
      <4>1. PICK type \in ExecutionIncidents[o.execs[k]] : i = Incident(type, w, k, None, o.execs[k])
        BY <3>1, <3>2 DEF Executing
      <4>2. o.execs[k] \in DOMAIN ExecutionIncidents
        BY <3>2 DEF ReportOK
      <4>3. \A s \in DOMAIN ExecutionIncidents : "MAINTENANCE_HOLD" \notin ExecutionIncidents[s]
        BY DEF ExecutionIncidents
      <4>. QED
        BY <4>1, <4>2, <4>3 DEF Incident
    <3>3. CASE Execution(a, w) \notin DOMAIN o.execs
      <4>1. i = OfWorkload("DESIRED_RUNNING_NOT_EXECUTING", w, "ABSENT")
        BY <3>1, <3>3 DEF Executing
      <4>. QED
        BY <4>1 DEF OfWorkload, Incident
    <3>. QED
      BY <3>2, <3>3
  <2>. QED
    BY <2>2, <2>4, <2>5, <2>6, <2>7
<1>. QED
  BY <1>1, <1>2, <1>3

\* A condition is the Host's or a live workload's; that of a Hold is the Host's, and is
\* there exactly while the Hold is active.
LEMMA ConditionsAre ==
    ASSUME NEW d, NEW o, ReportOK(o)
    PROVE  /\ \A i \in Conditions(Authority(d), o) :
                 /\ i.workload = None \/ (i.workload \in WorkloadId /\ Live(d.workloads[i.workload]))
                 /\ i.type = "MAINTENANCE_HOLD" => i = OfHost("MAINTENANCE_HOLD", "HOLD")
           /\ d.holds[Site].active =>
                 OfHost("MAINTENANCE_HOLD", "HOLD") \in Conditions(Authority(d), o)
<1>. DEFINE a == Authority(d)
            running == RunningDesired(a)
<1>1. a.hold = d.holds[Site] /\ \A w \in running : w \in WorkloadId /\ Live(d.workloads[w])
  BY DEF Authority, RunningDesired, Workloads
<1>. HIDE DEF a, running
<1>2. ASSUME NEW i \in Conditions(a, o)
      PROVE  /\ i.workload = None \/ i.workload \in running
             /\ i.type = "MAINTENANCE_HOLD" => i = OfHost("MAINTENANCE_HOLD", "HOLD")
  <2>1. \/ i = OfHost("MAINTENANCE_HOLD", "HOLD")
        \/ i = OfHost("AGENT_OFFLINE", "NOT_READY")
        \/ i = OfHost("MONITORING_STALE", "NOT_READY")
        \/ \E w \in running : i \in WorkloadConditions(a, o, w)
    BY <1>2 DEF Conditions, running
  <2>2. ASSUME NEW w \in running, i \in WorkloadConditions(a, o, w)
        PROVE  i.workload \in running /\ i.type # "MAINTENANCE_HOLD"
    BY <2>2, WorkloadConditionsAre
  <2>. QED
    BY <2>1, <2>2 DEF OfHost, Incident
<1>3. a.hold.active => OfHost("MAINTENANCE_HOLD", "HOLD") \in Conditions(a, o)
  BY DEF Conditions
<1>4. \A i \in Conditions(a, o) :
         /\ i.workload = None \/ (i.workload \in WorkloadId /\ Live(d.workloads[i.workload]))
         /\ i.type = "MAINTENANCE_HOLD" => i = OfHost("MAINTENANCE_HOLD", "HOLD")
  BY <1>1, <1>2
<1>5. d.holds[Site].active => OfHost("MAINTENANCE_HOLD", "HOLD") \in Conditions(a, o)
  BY <1>1, <1>3
<1>. QED
  BY <1>4, <1>5 DEF a

\* What is published agrees with the evaluation, and is of incidents that were there or
\* are conditions of it.
LEMMA ReconciledIs ==
    ASSUME NEW rows, NEW e, \A i \in DOMAIN rows : rows[i] \in IncidentRow
    PROVE  LET new == Reconciled(rows, e)
           IN  /\ DOMAIN new = DOMAIN rows \cup e.conditions
               /\ \A i \in DOMAIN new : new[i] \in IncidentRow
               /\ \A i \in DOMAIN new :
                     IsActive(new, i) <=>
                        i \in e.conditions \/ (IsActive(rows, i) /\ i.type \notin e.resolvable)
<1>. DEFINE new == Reconciled(rows, e)
<1>1. DOMAIN new = DOMAIN rows \cup e.conditions
  BY DEF Reconciled
<1>2. ASSUME NEW i \in DOMAIN new
      PROVE  /\ new[i] \in IncidentRow
             /\ new[i].state = "ACTIVE" <=>
                   i \in e.conditions \/ (IsActive(rows, i) /\ i.type \notin e.resolvable)
  <2>1. CASE i \in e.conditions /\ i \notin DOMAIN rows
    <3>1. new[i] = [state |-> "ACTIVE", count |-> 1]
      BY <1>1, <2>1 DEF Reconciled
    <3>. QED
      BY <2>1, <3>1 DEF IncidentRow
  <2>2. CASE i \in e.conditions /\ i \in DOMAIN rows
    <3>1. new[i] = IF rows[i].state = "RESOLVED"
                   THEN [state |-> "ACTIVE", count |-> rows[i].count + 1] ELSE rows[i]
      BY <1>1, <2>2 DEF Reconciled
    <3>2. rows[i] \in IncidentRow
      BY <2>2
    <3>. QED
      BY <2>2, <3>1, <3>2 DEF IncidentRow
  <2>3. CASE i \notin e.conditions
    <3>1. /\ i \in DOMAIN rows /\ rows[i] \in IncidentRow
          /\ new[i] = IF i.type \in e.resolvable THEN [rows[i] EXCEPT !.state = "RESOLVED"]
                      ELSE rows[i]
      BY <1>1, <2>3 DEF Reconciled
    <3>. QED
      BY <2>3, <3>1 DEF IncidentRow, IsActive
  <2>. QED
    BY <2>1, <2>2, <2>3
<1>. HIDE DEF new
<1>3. ASSUME NEW i \in DOMAIN new PROVE IsActive(new, i) <=> new[i].state = "ACTIVE"
  BY DEF IsActive
<1>. QED
  BY <1>1, <1>2, <1>3 DEF new

(***************************************************************************)
(* The invariant.                                                          *)
(***************************************************************************)

\* The observation is a record, of executions in known states.
ObsInv == obs = Observation(obs.mode, obs.rev, obs) /\ ReportOK(obs)

\* Since it was published nothing has changed of the evaluation's incidents, but those
\* that were resolved with their workload.
CacheInv ==
    cached # None =>
       \A i \in DOMAIN db.incidents \cup cached.conditions :
          IF i \in cached.conditions
          THEN \/ IsActive(db.incidents, i)
               \/ i.workload \in WorkloadId /\ Gone(db, i.workload)
          ELSE IsActive(db.incidents, i) => i.type \notin cached.resolvable

IncidentsInv == FarmInv /\ IncidentsIn(db) /\ ObsInv /\ CacheInv

\* A report, and a session that begins or ends, leave an observation.
LEMMA ObservationOK ==
    ASSUME NEW mode, NEW rev, NEW o, ReportOK(o)
    PROVE  LET new == Observation(mode, rev, o)
           IN  new = Observation(new.mode, new.rev, new) /\ ReportOK(new)
BY DEF Observation, ReportOK

\* Nothing observed is an observation.
LEMMA NothingOK == ReportOK(NothingObserved)
<1>1. NothingObserved.execs = <<>> /\ DOMAIN <<>> = {}
  BY DEF NothingObserved
<1>. QED
  BY <1>1 DEF ReportOK

\* The first states satisfy the invariant.
LEMMA IncidentsInit == Init => IncidentsInv
<1>. SUFFICES ASSUME Init PROVE IncidentsInv
  OBVIOUS
<1>1. FarmInv /\ IncidentsIn(db)
  BY InitConsistent, IncidentsAssumption DEF Init, FarmInit
<1>2. ObsInv
  BY NothingOK, ObservationOK DEF Init, ObsInv
<1>3. CacheInv
  BY DEF Init, CacheInv
<1>. QED
  BY <1>1, <1>2, <1>3 DEF IncidentsInv

\* An operation on the desired state leaves what was ACTIVE so, or resolves it with its
\* workload; it makes nothing ACTIVE.
LEMMA FarmActive ==
    ASSUME IncidentsInv, FarmStep
    PROVE  /\ DOMAIN db'.incidents = DOMAIN db.incidents
           /\ \A i \in DOMAIN db.incidents :
                 /\ db'.incidents[i] \in IncidentRow
                 /\ IsActive(db'.incidents, i) => IsActive(db.incidents, i)
                 /\ IsActive(db.incidents, i) =>
                       \/ IsActive(db'.incidents, i)
                       \/ i.workload \in WorkloadId /\ Gone(db', i.workload)
                 /\ IsActive(db'.incidents, i) /\ i.workload \in WorkloadId
                       /\ Live(db.workloads[i.workload]) => Live(db'.workloads[i.workload])
           /\ \A w \in WorkloadId : Gone(db, w) => Gone(db', w)
<1>1. \A i \in DOMAIN db.incidents : db.incidents[i] \in IncidentRow
  BY DEF IncidentsInv, IncidentsIn
<1>2. CASE Silent(db, db')
  BY <1>1, <1>2 DEF Silent
<1>3. CASE \E w \in WorkloadId : Live(db.workloads[w]) /\ Deletes(db, db', w)
  <2>1. PICK w \in WorkloadId : Live(db.workloads[w]) /\ Deletes(db, db', w)
    BY <1>3
  <2>2. /\ DOMAIN db'.incidents = DOMAIN db.incidents
        /\ \A i \in DOMAIN db.incidents :
              db'.incidents[i] = IF i.workload = w /\ db.incidents[i].state = "ACTIVE"
                                 THEN [db.incidents[i] EXCEPT !.state = "RESOLVED"]
                                 ELSE db.incidents[i]
    BY <2>1 DEF Deletes
  <2>3. ASSUME NEW i \in DOMAIN db.incidents
        PROVE  /\ db'.incidents[i] \in IncidentRow
               /\ db'.incidents[i].state = "ACTIVE" <=>
                     db.incidents[i].state = "ACTIVE" /\ i.workload # w
    BY <1>1, <2>2 DEF IncidentRow
  <2>4. ASSUME NEW i \in DOMAIN db.incidents
        PROVE  IsActive(db'.incidents, i) <=> IsActive(db.incidents, i) /\ i.workload # w
    BY <2>2, <2>3 DEF IsActive
  <2>5. /\ Gone(db', w)
        /\ \A v \in WorkloadId : v # w => db'.workloads[v] = db.workloads[v]
    BY <2>1 DEF Deletes
  <2>. QED
    BY <2>2, <2>3, <2>4, <2>5 DEF Gone
<1>. QED
  BY <1>2, <1>3, FarmTells DEF IncidentsInv

\* An operation on the desired state keeps the invariant.
LEMMA FarmKeeps == ASSUME IncidentsInv, Farm PROVE IncidentsInv'
<1>1. FarmStep /\ UNCHANGED <<obs, eval, cached>>
  BY DEF Farm, incidentVars
<1>2. FarmInv'
  BY <1>1, StepFollows DEF IncidentsInv, FarmInv, Follows
<1>3. IncidentsIn(db')
  BY <1>1, FarmActive DEF IncidentsInv, IncidentsIn, IsActive
<1>4. ObsInv'
  BY <1>1 DEF IncidentsInv, ObsInv
<1>5. CacheInv'
  BY <1>1, FarmActive DEF IncidentsInv, CacheInv, IsActive
<1>. QED
  BY <1>2, <1>3, <1>4, <1>5 DEF IncidentsInv

\* What a publication leaves.
LEMMA PublishIs ==
    ASSUME IncidentsInv, Publish
    PROVE  LET e == Evaluate(Authority(db), obs)
           IN  /\ db'.incidents = Reconciled(db.incidents, e) /\ cached' = e
               /\ db'.workloads = db.workloads
               /\ Follows(db, db') /\ UNCHANGED <<edit, obs>>
<1>1. eval.auth = Authority(db) /\ eval.obs = obs
  BY DEF Publish, AuthorityStands
<1>. DEFINE x == Reconciled(db.incidents, Evaluate(Authority(db), obs))
<1>2. db' = [db EXCEPT !.incidents = x] /\ cached' = Evaluate(Authority(db), obs)
      /\ UNCHANGED <<edit, obs>>
  BY <1>1 DEF Publish
<1>. HIDE DEF x
<1>3. db = [t \in TableName |-> db[t]] /\ Consistent(db)
  BY DEF IncidentsInv, FarmInv, Consistent, WellFormed
<1>4. db' = [db EXCEPT !.bindings = db.bindings, !.holds = db.holds, !.incidents = x]
  BY <1>2, <1>3 DEF TableName
<1>5. Follows(db, db')
  BY <1>3, <1>4, OtherWrite
<1>6. db'.incidents = x /\ db'.workloads = db.workloads
  BY <1>2, <1>3 DEF TableName
<1>. QED
  BY <1>2, <1>5, <1>6 DEF x

\* A publication keeps the invariant.
LEMMA PublishKeeps == ASSUME IncidentsInv, Publish PROVE IncidentsInv'
<1>. DEFINE e == Evaluate(Authority(db), obs)
            new == Reconciled(db.incidents, e)
<1>1. /\ db'.incidents = new /\ cached' = e /\ db'.workloads = db.workloads
      /\ Follows(db, db') /\ UNCHANGED <<edit, obs>>
  BY PublishIs
<1>2. /\ \A i \in e.conditions :
            /\ i.workload = None \/ (i.workload \in WorkloadId /\ Live(db.workloads[i.workload]))
            /\ i.type = "MAINTENANCE_HOLD" => i = OfHost("MAINTENANCE_HOLD", "HOLD")
  BY ConditionsAre DEF IncidentsInv, ObsInv, Evaluate
<1>3. IncidentsIn(db)
  BY DEF IncidentsInv
<1>. HIDE DEF e
<1>4. /\ DOMAIN new = DOMAIN db.incidents \cup e.conditions
      /\ \A i \in DOMAIN new : new[i] \in IncidentRow
      /\ \A i \in DOMAIN new :
            IsActive(new, i) <=>
               i \in e.conditions \/ (IsActive(db.incidents, i) /\ i.type \notin e.resolvable)
  BY <1>3, ReconciledIs DEF IncidentsIn
<1>. HIDE DEF new
<1>5. FarmInv'
  BY <1>1 DEF IncidentsInv, FarmInv, EditOK, Follows
<1>6. IncidentsIn(db')
  <2>. SUFFICES ASSUME NEW i \in DOMAIN new
                PROVE  /\ new[i] \in IncidentRow
                       /\ new[i].state = "ACTIVE" /\ i.workload # None =>
                             i.workload \in WorkloadId /\ Live(db.workloads[i.workload])
                       /\ i.type = "MAINTENANCE_HOLD" => i = OfHost("MAINTENANCE_HOLD", "HOLD")
    BY <1>1 DEF IncidentsIn
  <2>1. CASE i \in e.conditions
    BY <1>2, <1>4, <2>1
  <2>2. CASE i \notin e.conditions
    <3>1. i \in DOMAIN db.incidents
      BY <1>4, <2>2
    <3>2. new[i].state = "ACTIVE" => db.incidents[i].state = "ACTIVE"
      BY <1>4, <2>2 DEF IsActive
    <3>. QED
      BY <1>3, <1>4, <3>1, <3>2 DEF IncidentsIn
  <2>. QED
    BY <2>1, <2>2
<1>7. ObsInv'
  BY <1>1 DEF IncidentsInv, ObsInv
<1>8. CacheInv'
  <2>. SUFFICES ASSUME NEW i \in DOMAIN new \cup e.conditions
                PROVE  IF i \in e.conditions THEN IsActive(new, i)
                       ELSE IsActive(new, i) => i.type \notin e.resolvable
    BY <1>1 DEF CacheInv
  <2>. QED
    BY <1>4
<1>. QED
  BY <1>5, <1>6, <1>7, <1>8 DEF IncidentsInv

\* So does the rest of the worker, and its schedule.
LEMMA WorkerKeeps ==
    ASSUME IncidentsInv,
           \/ ReadAuthority \/ AuthorityChanged \/ EvaluateObserved \/ SkipUnchanged
           \/ PublishRefused \/ EvaluationFails \/ Tick \/ Scheduled
    PROVE  UNCHANGED <<db, edit, obs, cached>>
BY DEF ReadAuthority, AuthorityChanged, EvaluateObserved, SkipUnchanged, PublishRefused,
       EvaluationFails, Tick, Scheduled, farmVars

\* And sessions, reports and restarts.
LEMMA SessionKeeps ==
    ASSUME IncidentsInv,
           Connect \/ Report \/ Disconnect \/ Expire \/ RestartController
    PROVE  db' = db /\ IncidentsInv'
<1>1. ObsInv'
  <2>1. CASE Connect \/ Disconnect \/ RestartController
    <3>1. PICK mode, rev : obs' = Observation(mode, rev, NothingObserved)
      BY <2>1 DEF Connect, Disconnect, RestartController
    <3>. QED
      BY <3>1, NothingOK, ObservationOK DEF ObsInv
  <2>2. CASE Report
    <3>1. PICK o \in Observed : obs' = Observation("fresh", obs.rev + 1, o)
      BY <2>2 DEF Report
    <3>2. ReportOK(o)
      BY IncidentsAssumption DEF ReportOK
    <3>. QED
      BY <3>1, <3>2, ObservationOK DEF ObsInv
  <2>3. CASE Expire
    <3>1. obs' = [obs EXCEPT !.mode = "stale"] /\ ObsInv
      BY <2>3 DEF Expire, IncidentsInv
    <3>. QED
      BY <3>1 DEF ObsInv, Observation, ReportOK
  <2>. QED
    BY <2>1, <2>2, <2>3
<1>2. CASE Connect \/ Report \/ Disconnect \/ Expire
  <2>1. UNCHANGED <<db, edit, cached>>
    BY <1>2 DEF Connect, Report, Disconnect, Expire, farmVars
  <2>. QED
    BY <1>1, <2>1 DEF IncidentsInv, FarmInv, EditOK, CacheInv
<1>3. CASE RestartController
  <2>1. db' = db /\ edit' = None /\ cached' = None
    BY <1>3 DEF RestartController
  <2>. QED
    BY <1>1, <2>1 DEF IncidentsInv, FarmInv, EditOK, CacheInv
<1>. QED
  BY <1>2, <1>3

\* Every step keeps it.
LEMMA IncidentsNext == IncidentsInv /\ [Next]_vars => IncidentsInv'
<1>. SUFFICES ASSUME IncidentsInv, [Next]_vars PROVE IncidentsInv'
  OBVIOUS
<1>1. ASSUME UNCHANGED <<db, edit, obs, cached>> PROVE IncidentsInv'
  BY <1>1 DEF IncidentsInv, FarmInv, EditOK, ObsInv, CacheInv
<1>2. CASE Farm
  BY <1>2, FarmKeeps
<1>3. CASE Publish
  BY <1>3, PublishKeeps
<1>4. CASE \/ ReadAuthority \/ AuthorityChanged \/ EvaluateObserved \/ SkipUnchanged
           \/ PublishRefused \/ EvaluationFails \/ Tick \/ Scheduled
  BY <1>1, <1>4, WorkerKeeps
<1>5. CASE Connect \/ Report \/ Disconnect \/ Expire \/ RestartController
  BY <1>5, SessionKeeps
<1>6. CASE UNCHANGED vars
  BY <1>1, <1>6 DEF vars, farmVars, incidentVars
<1>. QED
  BY <1>2, <1>3, <1>4, <1>5, <1>6 DEF Next, Worker

\* Whatever intervenes between its reads and its writes, the worker leaves rows
\* that agree with what it published last, but for workloads deleted since
\* (evaluateIncidents, resolveDeletedWorkloadIncidentsTx).
THEOREM IncidentsInvariant == Spec => []IncidentsInv
<1>. QED
  BY IncidentsInit, IncidentsNext, PTL DEF Spec

(***************************************************************************)
(* The properties.                                                         *)
(***************************************************************************)

\* A deleted workload leaves no ACTIVE incident, although an evaluation that saw
\* it may be about to publish, for any number of workloads and operators.
THEOREM NoOrphanEver == Spec => []NoOrphanIncident
<1>1. IncidentsInv => NoOrphanIncident
  BY DEF IncidentsInv, IncidentsIn, NoOrphanIncident
<1>. QED
  BY <1>1, IncidentsInvariant, PTL

\* What is published agrees with what is desired and observed at that moment,
\* not with what the worker read before the last change of either.
THEOREM PublishedCurrentAlways == Spec => PublishedIsCurrent
<1>1. ASSUME IncidentsInv, [Next]_vars,
             eval.pc = "publish" /\ eval' # eval /\ db'.incidents # db.incidents
      PROVE  Agrees(db'.incidents, Evaluate(Authority(db), obs))
  <2>1. CASE Publish
    <3>. DEFINE e == Evaluate(Authority(db), obs)
                new == Reconciled(db.incidents, e)
    <3>1. db'.incidents = new
      BY <1>1, <2>1, PublishIs
    <3>2. \A i \in DOMAIN db.incidents : db.incidents[i] \in IncidentRow
      BY <1>1 DEF IncidentsInv, IncidentsIn
    <3>. HIDE DEF e
    <3>3. /\ DOMAIN new = DOMAIN db.incidents \cup e.conditions
          /\ \A i \in DOMAIN new :
                IsActive(new, i) <=>
                   i \in e.conditions \/ (IsActive(db.incidents, i) /\ i.type \notin e.resolvable)
      BY <3>2, ReconciledIs
    <3>. HIDE DEF new
    <3>4. Agrees(new, e)
      BY <3>3 DEF Agrees
    <3>. QED
      BY <3>1, <3>4 DEF e
  <2>2. CASE Farm
    BY <1>1, <2>2 DEF Farm, incidentVars
  <2>3. CASE \/ ReadAuthority \/ AuthorityChanged \/ EvaluateObserved \/ SkipUnchanged
             \/ PublishRefused \/ EvaluationFails \/ Tick \/ Scheduled
    BY <1>1, <2>3, WorkerKeeps
  <2>4. CASE Connect \/ Report \/ Disconnect \/ Expire \/ RestartController
    BY <1>1, <2>4, SessionKeeps
  <2>. QED
    BY <1>1, <2>1, <2>2, <2>3, <2>4 DEF Next, Worker, vars, incidentVars
<1>2. IncidentsInv /\ [Next]_vars
         => [eval.pc = "publish" /\ eval' # eval /\ db'.incidents # db.incidents
               => Agrees(db'.incidents, Evaluate(Authority(db), obs))]_vars
  BY <1>1
<1>. QED
  BY <1>2, IncidentsInvariant, PTL DEF Spec, PublishedIsCurrent

\* No evaluation is the value that says there is none (a nil pointer).
NoneIsNoEvaluation == \A c, r : None # [conditions |-> c, resolvable |-> r]

\* An evaluation that is skipped because it was published before would not have
\* changed a row, whatever was published, deleted and observed since.
THEOREM SkippingSafeAlways ==
    ASSUME NoneIsNoEvaluation PROVE Spec => []SkippingIsSafe
<1>1. ASSUME IncidentsInv, cached = Evaluate(Authority(db), obs)
      PROVE  Agrees(db.incidents, cached)
  <2>1. cached # None
    BY <1>1, NoneIsNoEvaluation DEF Evaluate, NoneIsNoEvaluation
  <2>2. \A i \in cached.conditions :
           i.workload = None \/ (i.workload \in WorkloadId /\ Live(db.workloads[i.workload]))
    BY <1>1, ConditionsAre DEF IncidentsInv, ObsInv, Evaluate
  <2>3. \A i \in cached.conditions : ~(i.workload \in WorkloadId /\ Gone(db, i.workload))
    <3>1. \A w \in WorkloadId : Live(db.workloads[w]) => ~Gone(db, w)
      <4>1. \A w \in WorkloadId : db.workloads[w].rev \in Int
        BY <1>1, ConsistentTables DEF IncidentsInv, FarmInv, Tables, IsTable
      <4>. QED
        BY <4>1 DEF Live, Gone
    <3>. QED
      BY <2>2, <3>1, IncidentsAssumption
  <2>. QED
    BY <1>1, <2>1, <2>3 DEF IncidentsInv, CacheInv, Agrees
<1>2. IncidentsInv => SkippingIsSafe
  BY <1>1 DEF SkippingIsSafe
<1>. QED
  BY <1>2, IncidentsInvariant, PTL

\* An operational incident is resolved by a complete report of its Host or by the
\* deletion of its workload, never by silence, a reconnection or a restart.
THEOREM RecoveryAlwaysHasEvidence == Spec => RecoveryNeedsEvidence
<1>1. ASSUME IncidentsInv, [Next]_vars, NEW i \in DOMAIN db.incidents,
             IsActive(db.incidents, i), ~IsActive(db'.incidents, i)
      PROVE  \/ i.type = "MAINTENANCE_HOLD" /\ ~db.holds[Site].active
             \/ obs.mode = "fresh"
             \/ i.workload # None /\ ~Live(db'.workloads[i.workload])
  <2>1. CASE Publish
    <3>. DEFINE e == Evaluate(Authority(db), obs)
                new == Reconciled(db.incidents, e)
    <3>1. db'.incidents = new
      BY <1>1, <2>1, PublishIs
    <3>2. /\ IncidentsIn(db)
          /\ \A j \in DOMAIN db.incidents : db.incidents[j] \in IncidentRow
      BY <1>1 DEF IncidentsInv, IncidentsIn
    <3>3. e.conditions = Conditions(Authority(db), obs) /\ e.resolvable = ResolvableTypes(obs)
      BY DEF Evaluate
    <3>. HIDE DEF e
    <3>4. /\ DOMAIN new = DOMAIN db.incidents \cup e.conditions
          /\ \A j \in DOMAIN new :
                IsActive(new, j) <=>
                   j \in e.conditions \/ (IsActive(db.incidents, j) /\ j.type \notin e.resolvable)
      BY <3>2, ReconciledIs
    <3>. HIDE DEF new
    <3>5. i \notin e.conditions /\ i.type \in e.resolvable
      BY <1>1, <3>1, <3>4
    <3>6. CASE obs.mode # "fresh"
      <4>1. i.type = "MAINTENANCE_HOLD"
        BY <3>3, <3>5, <3>6 DEF ResolvableTypes
      <4>2. i = OfHost("MAINTENANCE_HOLD", "HOLD")
        BY <3>2, <4>1 DEF IncidentsIn
      <4>3. db.holds[Site].active => i \in e.conditions
        BY <1>1, <3>3, <4>2, ConditionsAre DEF IncidentsInv, ObsInv
      <4>. QED
        BY <3>5, <4>1, <4>3
    <3>. QED
      BY <3>6
  <2>2. CASE Farm
    <3>1. CASE Silent(db, db')
      BY <1>1, <3>1 DEF Silent
    <3>2. CASE \E w \in WorkloadId : Live(db.workloads[w]) /\ Deletes(db, db', w)
      <4>1. PICK w \in WorkloadId : Live(db.workloads[w]) /\ Deletes(db, db', w)
        BY <3>2
      <4>2. i.workload = w
        BY <1>1, <4>1 DEF Deletes, IsActive
      <4>3. Consistent(db')
        BY <1>1, <2>2, StepFollows DEF Farm, Follows, IncidentsInv
      <4>4. Gone(db', w) /\ db'.workloads[w].rev \in Int
        BY <4>1, <4>3, ConsistentTables DEF Deletes, Tables, IsTable
      <4>5. w # None /\ ~Live(db'.workloads[w])
        BY <4>4, IncidentsAssumption DEF Gone, Live
      <4>. QED
        BY <4>2, <4>5
    <3>. QED
      BY <1>1, <2>2, <3>1, <3>2, FarmTells DEF Farm, IncidentsInv
  <2>3. CASE \/ ReadAuthority \/ AuthorityChanged \/ EvaluateObserved \/ SkipUnchanged
             \/ PublishRefused \/ EvaluationFails \/ Tick \/ Scheduled
    BY <1>1, <2>3, WorkerKeeps
  <2>4. CASE Connect \/ Report \/ Disconnect \/ Expire \/ RestartController
    BY <1>1, <2>4, SessionKeeps
  <2>. QED
    BY <1>1, <2>1, <2>2, <2>3, <2>4 DEF Next, Worker, vars, farmVars
<1>2. IncidentsInv /\ [Next]_vars
         => [\A i \in DOMAIN db.incidents :
                IsActive(db.incidents, i) /\ ~IsActive(db'.incidents, i)
                  => \/ i.type = "MAINTENANCE_HOLD" /\ ~db.holds[Site].active
                     \/ obs.mode = "fresh"
                     \/ i.workload # None /\ ~Live(db'.workloads[i.workload])]_vars
  BY <1>1
<1>. QED
  BY <1>2, IncidentsInvariant, PTL DEF Spec, RecoveryNeedsEvidence
=============================================================================
