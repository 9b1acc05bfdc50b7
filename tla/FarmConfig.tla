------------------------------ MODULE FarmConfig ------------------------------
(***************************************************************************)
(* The Controller's desired state (src/internal/farmconfig): the tables of *)
(* farm.db and every operation of the Service on them.  An operation is    *)
(* one SQLite transaction on the database's only connection (writeTx,      *)
(* controllerdb.Open), so one step: it commits everything or nothing.      *)
(*                                                                         *)
(* Content is abstract.  A content hash stands for the content, a resolved *)
(* hash for what Resolve computes from the rows a workload refers to; the  *)
(* ExecutionID of a snapshot, a fresh UUID, is its workload and            *)
(* generation.  IDs are UUIDs and never reused; the key of                 *)
(* HostProfileSettings is chosen by the operator and may be.               *)
(***************************************************************************)
EXTENDS Integers, FiniteSetsExt

CONSTANTS
    Pool, Wallet, Profile, WorkloadId, Host, Device,   \* identities
    PoolContent,      \* [name, address]: only the address reaches a plan
    WalletContent,    \* [coin, address]
    ProfileContent,   \* [pool, wallet, coin, tuning]
    Tuning,           \* explicit values of the CPU settings
    WorkloadContent,  \* [host, profile, run, cpu, devices]
    Inventory,        \* what a Host may report: Device -> [hw, slot] or None
    InitDB,           \* the database before the first modelled operation
    BlockCode,        \* the errors that block a generation
    Editable,         \* bound: the workloads and Hosts the operator edits
    None,
    MaxRevision       \* bound on committed transactions

VARIABLES
    db,    \* the tables
    edit   \* the live operator's request between its read and its write

farmVars == <<db, edit>>

Live(row) == row.rev > 0
NoRow == [rev |-> 0, content |-> None]
NoWorkload == [rev |-> 0, content |-> None, gen |-> 0, hash |-> None]
NoBinding == [gen |-> 0, code |-> None]
NoHold == [rev |-> 0, active |-> FALSE]
NoBarrier == [rev |-> 0, status |-> "CLEAR"]
Erased(row) == [row EXCEPT !.rev = -1]

(***************************************************************************)
(* What a row must be to be read: validateStoredMeta and the scan          *)
(* functions refuse any other.  Revision 0 is an id not used yet, -1 one   *)
(* whose row was deleted.                                                  *)
(***************************************************************************)
Revision(n) == -1..n
Row(contents, n) ==
    {row \in [rev : Revision(n), content : contents \cup {None}] :
        Live(row) => row.content \in contents}
PoolRow(n) == Row(PoolContent, n)
WalletRow(n) == Row(WalletContent, n)
ProfileRow(n) == Row(ProfileContent, n)
SettingsRow(n) == Row(Tuning, n)
Identity == (UNION {{inv[i] : i \in Device} : inv \in Inventory}) \ {None}
Gpu == {None} \cup UNION {[devices -> Identity] : devices \in SUBSET Device}
Hash == [run : BOOLEAN, host : Host, profile : Profile, cpu : BOOLEAN,
         devices : SUBSET Device, gpu : Gpu,
         pool : {c.address : c \in PoolContent},
         wallet : {c.address : c \in WalletContent},
         tuning : Tuning \cup {None}]
Work == [host : Host, profile : Profile, run : BOOLEAN, cpu : BOOLEAN,
         devices : SUBSET Device]
WorkloadRow(n, g) ==
    {row \in [rev : Revision(n), content : Work \cup {None},
              gen : 0..g, hash : Hash \cup {None}] :
        Live(row) => row.content \in Work /\ row.gen > 0 /\ row.hash \in Hash}

NewRow(c) == [rev |-> 1, content |-> c]
Revised(row, c) == [row EXCEPT !.rev = @ + 1, !.content = c]

(***************************************************************************)
(* Transactions.  The schema's triggers increment persistent_revision with *)
(* every row they see changed: here once per transaction.                  *)
(***************************************************************************)
Commit(new) ==
    /\ db.revision < MaxRevision
    /\ db' = [new EXCEPT !.revision = db.revision + 1]

(***************************************************************************)
(* Resolution.                                                             *)
(***************************************************************************)
Workloads(d) == {w \in WorkloadId : Live(d.workloads[w])}
Content(d, w) == d.workloads[w].content
ProfileOf(d, w) == d.profiles[Content(d, w).profile].content

Generations(d, w) == {k[2] : k \in {k \in DOMAIN d.snapshots : k[1] = w}}
Latest(d, w) == Max(Generations(d, w))

\* latestGPUAssignments: the binding of the newest snapshot, if it is of the
\* devices claimed now.
LatestAssignments(d, w) ==
    IF /\ Content(d, w).devices # {}
       /\ Generations(d, w) # {}
       /\ d.snapshots[<<w, Latest(d, w)>>].devices = Content(d, w).devices
    THEN d.snapshots[<<w, Latest(d, w)>>].gpu
    ELSE None

\* effectiveTuning: the settings of Host and Profile override the Profile's.
EffectiveTuning(d, w) ==
    LET settings == d.settings[<<Content(d, w).host, Content(d, w).profile>>]
    IN  IF Live(settings) THEN settings.content ELSE ProfileOf(d, w).tuning

\* The errors of Resolver.Resolve that valid rows can still meet.
Resolvable(d, w) ==
    /\ d.wallets[ProfileOf(d, w).wallet].content.coin = ProfileOf(d, w).coin
    /\ Content(d, w).cpu \/ EffectiveTuning(d, w) = None

ResolveWith(d, w, gpu) ==
    [run     |-> Content(d, w).run,
     host    |-> Content(d, w).host,
     profile |-> Content(d, w).profile,
     cpu     |-> Content(d, w).cpu,
     devices |-> Content(d, w).devices,
     gpu     |-> gpu,
     pool    |-> d.pools[ProfileOf(d, w).pool].content.address,
     wallet  |-> d.wallets[ProfileOf(d, w).wallet].content.address,
     tuning  |-> EffectiveTuning(d, w)]

Resolve(d, w) == ResolveWith(d, w, LatestAssignments(d, w))

\* configurationSnapshotReady: a GPU plan waits for fresh inventory.
Ready(hash) == hash.run /\ hash.devices = {}

\* createSnapshot of w's generation; only a RUNNING plan has one.
Snapshot(d, w, hash) ==
    [d EXCEPT !.snapshots =
        [k \in DOMAIN @ \cup {<<w, d.workloads[w].gen>>} |->
            IF k = <<w, d.workloads[w].gen>> THEN hash ELSE @[k]]]

SnapshotIfReady(d, w, hash) == IF Ready(hash) THEN Snapshot(d, w, hash) ELSE d

Moved(d, ws) == {w \in ws : Resolve(d, w) # d.workloads[w].hash}

\* The new generations of the workloads in moved, and the snapshots of those
\* that have a plan now.
NewGenerations(d, moved) ==
    LET rows == [w \in WorkloadId |->
                    IF w \in moved
                    THEN [d.workloads[w] EXCEPT !.gen = @ + 1, !.hash = Resolve(d, w)]
                    ELSE d.workloads[w]]
        planned == {w \in moved : Ready(rows[w].hash)}
        added == {<<w, rows[w].gen>> : w \in planned}
    IN  [d EXCEPT !.workloads = rows,
                  !.snapshots = [k \in DOMAIN @ \cup added |->
                                    IF k \in added THEN rows[k[1]].hash ELSE @[k]]]

\* Mutant of Propagate: only RUNNING workloads are looked at.
PropagateRunning(d, ws) == NewGenerations(d, Moved(d, {w \in ws : Content(d, w).run}))

\* propagateWorkloadIDs: a workload gets a new generation when what it should
\* run has changed.
Propagate(d, ws) == NewGenerations(d, Moved(d, ws))

\* The workloads of the profiles that refer to a pool, a wallet; of a profile;
\* of a Host and profile.
UsersOfPool(d, p) == {w \in Workloads(d) : ProfileOf(d, w).pool = p}
UsersOfWallet(d, k) == {w \in Workloads(d) : ProfileOf(d, w).wallet = k}
UsersOfProfile(d, f) == {w \in Workloads(d) : Content(d, w).profile = f}
UsersOfSettings(d, h, f) == {w \in UsersOfProfile(d, f) : Content(d, w).host = h}

\* A configuration change and its propagation: one workload that no longer
\* resolves refuses the change.
CommitPropagated(new, ws) ==
    /\ \A w \in ws : Resolvable(new, w)
    /\ Commit(Propagate(new, ws))

(***************************************************************************)
(* Pools, WalletRefs and MiningProfiles.  The caller names the revision it *)
(* has seen; a call with another one fails (REVISION_CONFLICT).  Below     *)
(* every caller has just read the row, but the operator of edit.           *)
(***************************************************************************)
CreatePool ==
    \E p \in Pool, c \in PoolContent :
        /\ db.pools[p] = NoRow
        /\ Commit([db EXCEPT !.pools[p] = NewRow(c)])
        /\ UNCHANGED edit

UpdatePool ==
    \E p \in Pool, c \in PoolContent :
        /\ Live(db.pools[p]) /\ c # db.pools[p].content
        /\ CommitPropagated([db EXCEPT !.pools[p] = Revised(@, c)], UsersOfPool(db, p))
        /\ UNCHANGED edit

\* Mutant of ReferencesPool: profiles are not looked at.
ReferencesPoolRunning(d, p) == UsersOfPool(d, p) # {}
ReferencesPool(d, p) ==
    \E f \in Profile : Live(d.profiles[f]) /\ d.profiles[f].content.pool = p

DeletePool ==
    \E p \in Pool :
        /\ Live(db.pools[p]) /\ ~ReferencesPool(db, p)
        /\ Commit([db EXCEPT !.pools[p] = Erased(@)])
        /\ UNCHANGED edit

CreateWalletRef ==
    \E k \in Wallet, c \in WalletContent :
        /\ db.wallets[k] = NoRow
        /\ Commit([db EXCEPT !.wallets[k] = NewRow(c)])
        /\ UNCHANGED edit

UpdateWalletRef ==
    \E k \in Wallet, c \in WalletContent :
        /\ Live(db.wallets[k]) /\ c # db.wallets[k].content
        /\ CommitPropagated([db EXCEPT !.wallets[k] = Revised(@, c)], UsersOfWallet(db, k))
        /\ UNCHANGED edit

ReferencesWallet(d, k) ==
    \E f \in Profile : Live(d.profiles[f]) /\ d.profiles[f].content.wallet = k

DeleteWalletRef ==
    \E k \in Wallet :
        /\ Live(db.wallets[k]) /\ ~ReferencesWallet(db, k)
        /\ Commit([db EXCEPT !.wallets[k] = Erased(@)])
        /\ UNCHANGED edit

\* requireReferences
References(d, c) == Live(d.pools[c.pool]) /\ Live(d.wallets[c.wallet])

CreateMiningProfile ==
    \E f \in Profile, c \in ProfileContent :
        /\ db.profiles[f] = NoRow /\ References(db, c)
        /\ Commit([db EXCEPT !.profiles[f] = NewRow(c)])
        /\ UNCHANGED edit

UpdateMiningProfile ==
    \E f \in Profile, c \in ProfileContent :
        /\ Live(db.profiles[f]) /\ c # db.profiles[f].content /\ References(db, c)
        /\ CommitPropagated([db EXCEPT !.profiles[f] = Revised(@, c)], UsersOfProfile(db, f))
        /\ UNCHANGED edit

ReferencesProfile(d, f) ==
    \/ UsersOfProfile(d, f) # {}
    \/ \E h \in Host : Live(d.settings[<<h, f>>])

DeleteMiningProfile ==
    \E f \in Profile :
        /\ Live(db.profiles[f]) /\ ~ReferencesProfile(db, f)
        /\ Commit([db EXCEPT !.profiles[f] = Erased(@)])
        /\ UNCHANGED edit

(***************************************************************************)
(* HostProfileSettings.                                                    *)
(***************************************************************************)
CreateHostProfileSettings ==
    \E h \in Host, f \in Profile, t \in Tuning :
        /\ Live(db.profiles[f]) /\ ~Live(db.settings[<<h, f>>])
        /\ CommitPropagated([db EXCEPT !.settings[<<h, f>>] = NewRow(t)],
                            UsersOfSettings(db, h, f))
        /\ UNCHANGED edit

UpdateHostProfileSettings ==
    \E h \in Host, f \in Profile, t \in Tuning :
        /\ Live(db.settings[<<h, f>>]) /\ t # db.settings[<<h, f>>].content
        /\ CommitPropagated([db EXCEPT !.settings[<<h, f>>] = Revised(@, t)],
                            UsersOfSettings(db, h, f))
        /\ UNCHANGED edit

\* The override is gone, and the workloads go back to the Profile's defaults.
DeleteHostProfileSettings ==
    \E h \in Host, f \in Profile :
        /\ Live(db.settings[<<h, f>>])
        /\ CommitPropagated([db EXCEPT !.settings[<<h, f>>] = NoRow], UsersOfSettings(db, h, f))
        /\ UNCHANGED edit

(***************************************************************************)
(* DesiredWorkloads.                                                       *)
(***************************************************************************)
Overlap(c, d) == c.host = d.host /\ ((c.cpu /\ d.cpu) \/ c.devices \cap d.devices # {})

\* Mutant of ResourceConflict: the claims are compared on creation only.
ResourceConflictOfNew(d, w, c) ==
    /\ c.run /\ ~Live(d.workloads[w])
    /\ \E v \in Workloads(d) \ {w} : Content(d, v).run /\ Overlap(c, Content(d, v))

\* checkResourceConflict
ResourceConflict(d, w, c) ==
    /\ c.run
    /\ \E v \in Workloads(d) \ {w} : Content(d, v).run /\ Overlap(c, Content(d, v))

CreateDesiredWorkload ==
    \E w \in WorkloadId, c \in WorkloadContent :
        LET placed == [db EXCEPT !.workloads[w] =
                          [rev |-> 1, content |-> c, gen |-> 1, hash |-> None]]
            hash == Resolve(placed, w)
        IN  /\ db.workloads[w] = NoWorkload
            /\ ~ResourceConflict(db, w, c)
            /\ Live(db.profiles[c.profile]) /\ Resolvable(placed, w)
            /\ Commit(SnapshotIfReady([placed EXCEPT !.workloads[w].hash = hash], w, hash))
            /\ UNCHANGED edit

\* UpdateDesiredWorkload's transaction, as a condition and a new database.
CanUpdate(d, w, c) ==
    /\ c.host = Content(d, w).host
    /\ ~ResourceConflict(d, w, c)
    /\ Live(d.profiles[c.profile])
    /\ Resolvable([d EXCEPT !.workloads[w].content = c], w)

Updated(d, w, c) ==
    Propagate([d EXCEPT !.workloads[w] = Revised(@, c)], {w})

UpdateDesiredWorkload ==
    \E w \in Workloads(db), c \in WorkloadContent :
        /\ c # Content(db, w) /\ CanUpdate(db, w, c)
        /\ Commit(Updated(db, w, c))
        /\ UNCHANGED edit

\* resolveDeletedWorkloadIncidentsTx, in the deletion's transaction.
ResolveIncidentsOf(d, w) ==
    [d EXCEPT !.incidents = [i \in DOMAIN @ |->
        IF i.workload = w /\ @[i].state = "ACTIVE" THEN [@[i] EXCEPT !.state = "RESOLVED"]
        ELSE @[i]]]

\* Mutant of WithoutWorkload: the incidents are left to the next evaluation.
WithoutWorkloadOnly(d, w) ==
    [d EXCEPT !.workloads[w] = Erased(@), !.bindings[w] = NoBinding]

\* The row, its devices and, by ON DELETE CASCADE, its runtime binding.
WithoutWorkload(d, w) ==
    [ResolveIncidentsOf(d, w) EXCEPT !.workloads[w] = Erased(@), !.bindings[w] = NoBinding]

\* Only a workload that never ran can be deleted without retirement proof.
DeleteDesiredWorkload ==
    \E w \in Workloads(db) :
        /\ ~Content(db, w).run /\ Generations(db, w) = {}
        /\ Commit(WithoutWorkload(db, w))
        /\ UNCHANGED edit

\* The coordinator's deletion, which gives the revision it was asked for.
FinalizeRetiredDesiredWorkloadDeletion(w) ==
    /\ Live(db.workloads[w]) /\ ~Content(db, w).run
    /\ Commit(WithoutWorkload(db, w))

\* A failure of the execution of generation g; a stale one changes nothing.
BlockDesiredGeneration ==
    \E w \in Workloads(db), code \in BlockCode : \E g \in Generations(db, w) :
        /\ Content(db, w).run /\ db.workloads[w].gen = g
        /\ db.bindings[w] # [gen |-> g, code |-> code]
        /\ Commit([db EXCEPT !.bindings[w] = [gen |-> g, code |-> code]])
        /\ UNCHANGED edit

Blocked(d, w) == Live(d.workloads[w]) /\ d.bindings[w].gen = d.workloads[w].gen

\* One new generation with the blocked one's immutable plan.
RetryWorkload ==
    \E w \in Workloads(db) :
        LET row == db.workloads[w]
            plan == db.snapshots[<<w, row.gen>>]
            next == [db EXCEPT !.workloads[w] = [row EXCEPT !.rev = @ + 1,
                                                            !.gen = row.gen + 1],
                               !.bindings[w] = NoBinding]
        IN  /\ Content(db, w).run /\ Blocked(db, w)
            /\ <<w, db.workloads[w].gen>> \in DOMAIN db.snapshots
            /\ Commit(Snapshot(next, w, plan))
            /\ UNCHANGED edit

(***************************************************************************)
(* GPU plans, bound to what the Host reports.                              *)
(***************************************************************************)
Assignments(devices, inv) == [i \in devices |-> inv[i]]

\* Mutant of Assignable: a device that is not reported is bound all the same.
AnyDevice(devices, inv) == TRUE

\* gpuresource.Resolve: every claimed device is there and has an identity.
Assignable(devices, inv) == \A i \in devices : inv[i] # None

\* Mutant of SameHardware: another device under a bound DeviceID is accepted.
AnyHardware(bound, now) == TRUE

\* gpuresource.ValidateStableIdentities: a device may have moved to another
\* slot, but is the one it was.
SameHardware(bound, now) ==
    bound # None => \A i \in DOMAIN bound : now[i] # None /\ bound[i].hw = now[i].hw

\* Mutant of BoundGeneration: the plan is made again in place.
SameGeneration(row, planned) == row.gen

\* The first plan of a generation waited for the inventory; a plan that binds
\* other slots is of a new generation.
BoundGeneration(row, planned) == IF planned THEN row.gen + 1 ELSE row.gen

RefreshResolvedSnapshotForInventory ==
    \E w \in Workloads(db), inv \in Inventory :
        LET devices == Content(db, w).devices
            now == Assignments(devices, inv)
            hash == ResolveWith(db, w, now)
            row == db.workloads[w]
            planned == <<w, row.gen>> \in DOMAIN db.snapshots
            next == [db EXCEPT !.workloads[w].hash = hash,
                               !.workloads[w].gen = BoundGeneration(row, planned)]
        IN  /\ Content(db, w).run /\ devices # {}
            /\ Resolvable(db, w) /\ Assignable(devices, inv)
            /\ SameHardware(LatestAssignments(db, w), now)
            /\ planned => db.snapshots[<<w, row.gen>>] # hash
            /\ Commit(Snapshot(next, w, hash))
            /\ UNCHANGED edit

(***************************************************************************)
(* Maintenance Holds and restore barriers.                                 *)
(***************************************************************************)
SetMaintenanceHold(h, active) ==
    /\ db.holds[h].active # active \/ ~Live(db.holds[h])
    /\ Commit([db EXCEPT !.holds[h] = [rev |-> @.rev + 1, active |-> active]])

MarkRestoreHostConflict ==
    \E h \in Host :
        /\ db.barriers[h].status = "PENDING"
        /\ Commit([db EXCEPT !.barriers[h] = [rev |-> @.rev + 1, status |-> "CONFLICT"]])
        /\ UNCHANGED edit

\* Mutant of StillRequired: the first Host cleared ends the reconciliation.
StillRequiredNot(barriers) == FALSE
StillRequired(barriers) == \E h \in Host : Live(barriers[h])

ClearRestoreHostBarrier ==
    \E h \in Host :
        LET left == [db.barriers EXCEPT ![h] = NoBarrier]
        IN  /\ Live(db.barriers[h])
            /\ Commit([db EXCEPT !.barriers = left, !.restoreRequired = StillRequired(left)])
            /\ UNCHANGED edit

(***************************************************************************)
(* The live operator (controlleradmin): workload-set, workload-delete and  *)
(* hold-set read a row and then write with the revision they read.         *)
(***************************************************************************)
OperatorReads ==
    /\ edit = None
    /\ \/ \E w \in Workloads(db) \cap Editable :
             edit' = [kind |-> "workload", id |-> w, row |-> db.workloads[w]]
       \/ \E h \in Host \cap Editable :
             edit' = [kind |-> "hold", id |-> h, row |-> db.holds[h]]
    /\ UNCHANGED db

\* The revision the caller expects is the stored one.
SeenRow(kind, row) ==
    edit # None /\ edit.kind = kind /\ row.rev = edit.row.rev

OperatorSetsRunState ==
    \E run \in BOOLEAN :
        LET w == edit.id
            c == [edit.row.content EXCEPT !.run = run]
        IN  /\ edit # None /\ edit.kind = "workload"
            /\ SeenRow("workload", db.workloads[w])
            /\ c # Content(db, w) /\ CanUpdate(db, w, c)
            /\ Commit(Updated(db, w, c))
            /\ edit' = None

\* The Coordinator's proof that nothing of w runs may fail: OperatorFails.
OperatorDeletesWorkload ==
    /\ edit # None /\ edit.kind = "workload"
    /\ SeenRow("workload", db.workloads[edit.id])
    /\ FinalizeRetiredDesiredWorkloadDeletion(edit.id)
    /\ edit' = None

OperatorSetsHold ==
    /\ edit # None /\ edit.kind = "hold"
    /\ SeenRow("hold", db.holds[edit.id])
    /\ \E active \in BOOLEAN : SetMaintenanceHold(edit.id, active)
    /\ edit' = None

\* A refusal, or an error: the transaction is rolled back.
OperatorFails ==
    /\ edit # None
    /\ edit' = None
    /\ UNCHANGED db

FarmInit == db \in InitDB /\ edit = None

FarmStep ==
    \/ CreatePool \/ UpdatePool \/ DeletePool
    \/ CreateWalletRef \/ UpdateWalletRef \/ DeleteWalletRef
    \/ CreateMiningProfile \/ UpdateMiningProfile \/ DeleteMiningProfile
    \/ CreateHostProfileSettings \/ UpdateHostProfileSettings \/ DeleteHostProfileSettings
    \/ CreateDesiredWorkload \/ UpdateDesiredWorkload \/ DeleteDesiredWorkload
    \/ BlockDesiredGeneration \/ RetryWorkload \/ RefreshResolvedSnapshotForInventory
    \/ MarkRestoreHostConflict \/ ClearRestoreHostBarrier
    \/ OperatorReads \/ OperatorSetsRunState \/ OperatorDeletesWorkload
    \/ OperatorSetsHold \/ OperatorFails

FarmSpec == FarmInit /\ [][FarmStep]_farmVars

(***************************************************************************)
(* Properties.                                                             *)
(***************************************************************************)

\* What the operations need of a database to be operations on tables: every
\* row has its columns, what a live row refers to has an id, a plan belongs to a
\* generation its workload has had, and a barrier that waits is there.
TableName == {"pools", "wallets", "profiles", "settings", "workloads", "snapshots",
              "bindings", "holds", "barriers", "restoreRequired", "incidents", "revision"}
IsTable(t, ids, columns) ==
    /\ t = [i \in ids |-> t[i]]
    /\ \A i \in ids : t[i] = [c \in columns |-> t[i][c]] /\ t[i].rev \in Int

WellFormed(d) ==
    /\ d = [t \in TableName |-> d[t]]
    /\ IsTable(d.pools, Pool, {"rev", "content"})
    /\ IsTable(d.wallets, Wallet, {"rev", "content"})
    /\ IsTable(d.profiles, Profile, {"rev", "content"})
    /\ IsTable(d.settings, Host \X Profile, {"rev", "content"})
    /\ IsTable(d.workloads, WorkloadId, {"rev", "content", "gen", "hash"})
    /\ IsTable(d.barriers, Host, {"rev", "status"})
    /\ \A f \in Profile : Live(d.profiles[f]) => d.profiles[f].content \in ProfileContent
    /\ \A w \in WorkloadId : d.workloads[w].gen \in Nat
    /\ \A w \in Workloads(d) : Content(d, w) \in Work
    /\ \A k \in DOMAIN d.snapshots :
          k \in WorkloadId \X Nat /\ k[2] <= d.workloads[k[1]].gen
    /\ \A h \in Host : d.barriers[h].status = "PENDING" => Live(d.barriers[h])

\* Every row is one that the scan functions and their validation accept, and its
\* revision and generation are ones that a transaction of the database gave it: of
\* n transactions the rows, and of g the generations.
RowsIn(d, n, g) ==
    /\ d.pools \in [Pool -> PoolRow(n)]
    /\ d.wallets \in [Wallet -> WalletRow(n)]
    /\ d.profiles \in [Profile -> ProfileRow(n)]
    /\ d.settings \in [Host \X Profile -> SettingsRow(n)]
    /\ d.workloads \in [WorkloadId -> WorkloadRow(n, g)]
    /\ DOMAIN d.snapshots \subseteq WorkloadId \X (1..g)
    /\ \A k \in DOMAIN d.snapshots : d.snapshots[k] \in Hash
    /\ d.bindings \in [WorkloadId -> [gen : 0..n, code : BlockCode \cup {None}]]
    /\ d.holds \in [Host -> [rev : Revision(n), active : BOOLEAN]]
    /\ d.barriers \in [Host -> [rev : Revision(n), status : {"CLEAR", "PENDING", "CONFLICT"}]]
    /\ d.restoreRequired \in BOOLEAN
TypedIn(d) ==
    /\ WellFormed(d) /\ RowsIn(d, d.revision, d.revision)
    /\ d.revision \in 0..MaxRevision
FarmTypeOK ==
    /\ TypedIn(db)
    /\ edit = None \/ edit.kind \in {"workload", "hold"}

\* No foreign key dangles, in spite of deletions in any order: a Profile's Pool
\* and WalletRef, a workload's and a setting's Profile exist (the deletes'
\* reference checks, and the creations').
ReferencesIn(d) ==
    /\ \A f \in Profile : Live(d.profiles[f]) => References(d, d.profiles[f].content)
    /\ \A w \in Workloads(d) : Live(d.profiles[Content(d, w).profile])
    /\ \A h \in Host, f \in Profile : Live(d.settings[<<h, f>>]) => Live(d.profiles[f])
ReferencesExist == ReferencesIn(db)

\* What a workload is to run is what its rows say now: whatever an operation
\* changed, in whatever table, every workload it reaches has been resolved
\* again (propagateWorkloadIDs), and none is left that does not resolve.  The plan of
\* its generation says the same, is there when nothing has to be asked of the Host
\* first, and a STOPPED generation has none: no START can be made of it.
Effective(d, w) ==
    LET row == d.workloads[w]
        plan == <<w, row.gen>>
    IN  /\ Resolvable(d, w) /\ row.hash = Resolve(d, w)
        /\ plan \in DOMAIN d.snapshots => d.snapshots[plan] = row.hash /\ row.content.run
        /\ Ready(row.hash) => plan \in DOMAIN d.snapshots
EffectiveIn(d) == \A w \in Workloads(d) : Effective(d, w)
EffectiveIsCurrent == ReferencesExist => EffectiveIn(db)

\* No two RUNNING workloads claim the CPU or a device of one Host
\* (checkResourceConflict on creation and update, against every other
\* workload: the database has no constraint for it).
ExclusiveIn(d) ==
    \A v, w \in Workloads(d) :
        v # w /\ Content(d, v).run /\ Content(d, w).run
            => ~Overlap(Content(d, v), Content(d, w))
ExclusiveClaims == ExclusiveIn(db)

\* A plan under an ExecutionID never changes and never goes: an Agent that
\* runs it and a Controller that observes it mean the same.
KeepsPlans(d, n) ==
    \A k \in DOMAIN d.snapshots :
        k \in DOMAIN n.snapshots /\ n.snapshots[k] = d.snapshots[k]
PlansAreImmutable == [][KeepsPlans(db, db')]_db

SameBinding(before, now) ==
    before.devices = now.devices => \A i \in now.devices : before.gpu[i].hw = now.gpu[i].hw

\* While a workload claims the same devices, each of its plans binds them to
\* the same hardware: a card put in place of another is never mined on in the
\* name of the old one (ValidateStableIdentities).
HardwareIn(d) ==
    \A w \in WorkloadId : \A g \in Generations(d, w) :
        LET earlier == {e \in Generations(d, w) : e < g}
        IN  earlier # {} => SameBinding(d.snapshots[<<w, Max(earlier)>>], d.snapshots[<<w, g>>])
BindingsKeepHardware == HardwareIn(db)

\* A plan of devices binds them and no others.
BoundIn(d) ==
    \A k \in DOMAIN d.snapshots :
        LET plan == d.snapshots[k]
        IN  plan.devices # {} => plan.gpu # None /\ DOMAIN plan.gpu = plan.devices

\* The Controller is reconciling a restore exactly as long as a Host has a
\* barrier (ClearRestoreHostBarrier counts the others in its transaction).
RestoringIn(d) == d.restoreRequired <=> \E h \in Host : Live(d.barriers[h])
RestoreEndsWithLastBarrier == RestoringIn(db)

(***************************************************************************)
(* What is assumed of the constants: references are to ids, no inventory   *)
(* is like no inventory, and the first database is one that operations     *)
(* left (an empty one, or a restored one).                                 *)
(***************************************************************************)
ASSUME FarmAssumption ==
    /\ MaxRevision \in Nat
    /\ \A c \in ProfileContent :
          c.pool \in Pool /\ c.wallet \in Wallet /\ c.tuning \in Tuning \cup {None}
    /\ WorkloadContent \subseteq Work
    /\ \A inv \in Inventory, devices \in SUBSET Device : Assignments(devices, inv) # None
    /\ \A d \in InitDB :
          /\ TypedIn(d) /\ ReferencesIn(d) /\ ExclusiveIn(d) /\ RestoringIn(d)
          /\ EffectiveIn(d) /\ HardwareIn(d) /\ BoundIn(d)
=============================================================================
