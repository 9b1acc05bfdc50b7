---------------------------- MODULE BackupsProofs ----------------------------
(***************************************************************************)
(* Proofs about Backups, for every set of backups, every retention policy  *)
(* and every bound: the composition with the manager leaves a restore what *)
(* RestoreProofs shows of it alone, and no database that a start may find, *)
(* or may no longer find, is without the backup that it should have.       *)
(***************************************************************************)
EXTENDS Backups, RestoreProofs

-----------------------------------------------------------------------------
(***************************************************************************)
(* Every step of the composition is a step of Restore, or none.            *)
(***************************************************************************)

\* The operation is a record, and the artifact that it restores one of the backups.
IsJob(j) == j = [step |-> j.step, class |-> j.class, id |-> j.id, target |-> j.target]
TargetTyped == IsJob(job) /\ job.target \in Backup

\* The ways in which an operation goes on.
LEMMA JobMoves ==
    ASSUME IsJob(job), NEW s, NEW c, NEW b
    PROVE  /\ Goes(s) => IsJob(job') /\ job'.target = job.target
           /\ job' = [job EXCEPT !.step = s, !.id = b] => IsJob(job') /\ job'.target = job.target
           /\ job' = [Idle EXCEPT !.step = s, !.class = c] =>
                 IsJob(job') /\ job'.target = Idle.target
           /\ job' = [Idle EXCEPT !.step = s, !.class = c, !.target = b] =>
                 IsJob(job') /\ job'.target = b
           /\ job' = Idle => IsJob(job') /\ job'.target = Idle.target
           /\ job' = job => IsJob(job') /\ job'.target = job.target
BY DEF IsJob, Goes, Idle

\* The first start has no operation.
LEMMA TargetInit == BackupsInit => TargetTyped
<1>1. Backup # {}
  BY RestoreAssumption
<1>. QED
  BY <1>1 DEF BackupsInit, TargetTyped, Idle, IsJob

\* Every step keeps the operation typed.
LEMMA TargetNext == TargetTyped /\ [BackupsNext]_allVars => TargetTyped'
<1>. SUFFICES ASSUME TargetTyped, [BackupsNext]_allVars PROVE TargetTyped'
  OBVIOUS
<1>1. Idle.target \in Backup
  BY RestoreAssumption DEF Idle
<1>2. IsJob(job) /\ job.target \in Backup
  BY DEF TargetTyped
<1>. DEFINE S == {"idle", "snapshot", "staged", "published", "mark", "prune", "remove", "clear",
                  "prepared"}
        Steps == \E s \in S : Goes(s)
        Picks == \E s \in S : \E b : job' = [job EXCEPT !.step = s, !.id = b]
        Takes == job' = [Idle EXCEPT !.step = "snapshot", !.class = "MANUAL"]
        Restores == \E s \in S, b \in Backup :
                       job' = [Idle EXCEPT !.step = s, !.class = "SAFETY", !.target = b]
<1>3. Steps \/ Picks \/ Takes \/ Restores \/ job' = Idle \/ job' = job
  <2>1. Scheduled \/ Publish \/ MarkAutomaticRevision => Steps
    BY DEF Scheduled, Publish, MarkAutomaticRevision
  <2>2. CreateManual => Takes
    BY DEF CreateManual
  <2>3. ASSUME NEW b \in Backup, RestoreBackup(b) PROVE Restores
    BY <2>3 DEF RestoreBackup
  <2>4. Snapshot => Picks
    BY DEF Snapshot
  <2>5. SyncPublished => Steps \/ job' = Idle
    BY DEF SyncPublished, Created, Ends
  <2>6. Prune => Steps \/ Picks
    BY DEF Prune
  <2>7. ClearRetentionPending \/ Fail \/ Install \/ Killed \/ MachineStops => job' = Idle
    BY DEF ClearRetentionPending, Fail, Install, Killed, MachineStops, Ends
  <2>8. Write \/ RestoreStep \/ UNCHANGED allVars => job' = job
    BY DEF Write, RestoreStep, allVars, backupVars
  <2>. HIDE DEF Steps, Picks, Takes, Restores
  <2>. QED
    BY <2>1, <2>2, <2>3, <2>4, <2>5, <2>6, <2>7, <2>8 DEF BackupsNext
<1>4. ASSUME Steps PROVE IsJob(job') /\ job'.target = job.target
  BY <1>2, <1>4, JobMoves
<1>5. ASSUME Picks PROVE IsJob(job') /\ job'.target = job.target
  BY <1>2, <1>5, JobMoves
<1>6. ASSUME Takes PROVE IsJob(job') /\ job'.target = Idle.target
  BY <1>2, <1>6, JobMoves
<1>7. ASSUME Restores PROVE IsJob(job') /\ job'.target \in Backup
  <2>1. PICK s \in S, b \in Backup :
                job' = [Idle EXCEPT !.step = s, !.class = "SAFETY", !.target = b]
    BY <1>7
  <2>2. IsJob(job') /\ job'.target = b
    BY <2>1 DEF IsJob, Idle
  <2>. QED
    BY <2>2
<1>8. ASSUME job' = Idle \/ job' = job
      PROVE  IsJob(job') /\ (job'.target = Idle.target \/ job'.target = job.target)
  BY <1>2, <1>8, JobMoves
<1>. HIDE DEF Steps, Picks, Takes, Restores
<1>9. CASE Steps \/ Picks
  BY <1>2, <1>4, <1>5, <1>9 DEF TargetTyped
<1>10. CASE Takes
  BY <1>1, <1>6, <1>10 DEF TargetTyped
<1>11. CASE Restores
  BY <1>7, <1>11 DEF TargetTyped
<1>12. CASE job' = Idle \/ job' = job
  BY <1>1, <1>2, <1>8, <1>12 DEF TargetTyped
<1>. QED
  BY <1>3, <1>9, <1>10, <1>11, <1>12

\* An operation that ends stays with the served database, or its program ends.
LEMMA EndsIs == Ends => [Next]_vars
BY DEF Ends, Goto, Next, Crash, vars

\* Taking, publishing and pruning backups changes nothing in the data directory, and the
\* manager installs a restored database with the steps of Restore only: what is shown of
\* a restore alone is true of it inside the manager (Restore, CreateScheduled,
\* CreateManual and the recovery at every start, manager_linux.go).
THEOREM BackupsImplementRestore == BackupsSpec => Spec
<1>1. TargetTyped /\ [BackupsNext]_allVars => [Next]_vars
  <2>. SUFFICES ASSUME TargetTyped, [BackupsNext]_allVars PROVE [Next]_vars
    OBVIOUS
  <2>1. CASE \/ Scheduled \/ CreateManual \/ (\E b \in Backup : RestoreBackup(b))
             \/ Snapshot \/ Publish \/ MarkAutomaticRevision \/ Prune \/ Write
    BY <2>1 DEF Scheduled, CreateManual, RestoreBackup, Snapshot, Publish,
                MarkAutomaticRevision, Prune, Write
  <2>2. CASE SyncPublished \/ ClearRetentionPending \/ Fail
    BY <2>2, EndsIs DEF SyncPublished, Created, ClearRetentionPending, Fail
  <2>3. CASE Install
    <3>1. job.target \in Backup /\ BindCandidate(job.target)
      BY <2>3 DEF Install, TargetTyped
    <3>. QED
      BY <3>1 DEF Next
  <2>4. CASE RestoreStep
    BY <2>4 DEF RestoreStep, Next
  <2>5. CASE Killed \/ MachineStops
    BY <2>5 DEF Killed, MachineStops, Next
  <2>6. CASE UNCHANGED allVars
    BY <2>6 DEF allVars
  <2>. QED
    BY <2>1, <2>2, <2>3, <2>4, <2>5, <2>6 DEF BackupsNext
<1>2. BackupsInit => Init
  BY DEF BackupsInit
<1>. QED
  BY <1>1, <1>2, TargetInit, TargetNext, PTL DEF BackupsSpec, Spec

-----------------------------------------------------------------------------
(***************************************************************************)
(* What the manager knows while it works, and what every directory that a  *)
(* power loss may leave has in its backups.                                *)
(***************************************************************************)
Class == {"HOURLY", "MANUAL", "SAFETY"}
Stage == {"idle", "snapshot", "staged", "published", "mark", "prune", "remove", "clear", "prepared"}
Row == [revision : Nat, last : Nat, debt : BOOLEAN]
Artifact == [status : {"none", "staged", "published", "durable", "removing", "gone"},
             class : Class, db : 0..(MaxRestores + 1), revision : Nat, at : Nat]
Operation == [step : Stage, class : Class, id : Backup, target : Backup]

Used == Backup \ Unused

BackupTypes ==
    /\ store \in [0..MaxRestores -> Row] /\ art \in [Backup -> Artifact] /\ job \in Operation
    /\ \A k \in 0..MaxRestores : store[k].last <= store[k].revision
    /\ IsFiniteSet(Used) /\ \A b \in Used : art[b].at <= Cardinality(Used)

\* A durable artifact of the class has the database k as it is.
Held(class, k) == \E b \in Durable(class) : Holds(b, k)

\* Hourly artifacts that a listing may show again after a power loss.
Outlives == {b \in Backup : /\ art[b].class = "HOURLY"
                            /\ art[b].status \in {"published", "durable", "removing"}}
Newest(b) == \A x \in Outlives : art[x].at <= art[b].at

\* Nothing is left to prune, not even what an earlier pruning left unsynced.
Clean == Hourly = Retained /\ \A b \in Backup : art[b].status # "removing"

\* A database that was installed or created and never served.
Unserved(k) == store[k].last < store[k].revision /\ store[k].debt

\* What the operation under way may rely on.
Making == {"snapshot", "staged", "published", "mark"}
Pruning == {"prune", "remove", "clear"}
JobInv ==
    /\ job.step = "idle" => job = Idle
    /\ job.step # "idle" => pc \in {"ready", "serving"} /\ (job.class = "HOURLY" <=> pc = "serving")
    /\ job.step \notin {"idle", "prepared"} => dir["live"] # None
    /\ job.step \in {"mark"} \cup Pruning => job.class = "HOURLY"
    /\ job.step = "prepared" => job.class = "SAFETY" /\ (dir["live"] # None => Held("SAFETY", Live))
    /\ job.step \in Making /\ job.class = "HOURLY" => State.last < State.revision
    /\ job.step \in Pruning => State.debt
    /\ job.step = "clear" => Clean
    /\ job.step = "remove" => art[job.id].class = "HOURLY" /\ art[job.id].status = "removing"

\* The artifact under way is the newest of all, and of the database as it is: only an
\* hourly one is taken while the Controller writes.
MadeInv ==
    job.step \in Making \ {"snapshot"} =>
       LET a == art[job.id]
       IN  /\ a.class = job.class /\ a.db = Live /\ a.revision <= State.revision
           /\ job.class # "HOURLY" => a.revision = State.revision
           /\ \A x \in Used : x # job.id => art[x].at < a.at
           /\ a.status = IF job.step = "mark" THEN "durable" ELSE job.step

\* What the installation of a restored database relies on, and what is served.
PlaceInv ==
    /\ pc = "bound" => Unserved(n) /\ (dir["live"] # None => Held("SAFETY", dir["live"][2]))
    /\ pc \in {"created", "written", "marked", "retain", "retained", "release", "released", "link"}
          /\ tx[n].hadLive => Held("SAFETY", tx[n].original[2])
    /\ pc = "serving" => dir["live"] # None

\* The databases that a start may find, whatever the machine loses.
Found(k) == \E im \in images : Recovered(im) = Db(k)

\* While something is left to prune, the scheduler will run.
Owes == \A k \in 0..MaxRestores : Found(k) =>
    store[k].debt \/ store[k].last < store[k].revision \/ Clean

\* A database that the scheduler skips is in an hourly artifact that pruning retains.
Skips == \A k \in 0..MaxRestores : Found(k) /\ store[k].last = store[k].revision =>
    \E b \in Durable("HOURLY") : Holds(b, k) /\ Newest(b)

\* What a marker restores, and what a directory without a database gets, is still as made.
Untouched ==
    /\ \A im \in images, k \in Attempt : im["marker"] = Marker(k) => Unserved(k)
    /\ \A im \in images : Recovered(im) = None => store[0] = Fresh
    /\ \A k \in Attempt : tx[k].hadLive => text[k] # "none"

StartInv == Owes /\ Skips /\ Untouched /\ RestoreLosesNothing

BInv == BackupTypes /\ JobInv /\ MadeInv /\ PlaceInv /\ StartInv

-----------------------------------------------------------------------------
(***************************************************************************)
(* Rows, artifacts and operations, field by field.                         *)
(***************************************************************************)

\* How an operation goes on, and how one begins.
LEMMA OperationIs ==
    ASSUME job \in Operation, NEW s \in Stage
    PROVE  /\ Goes(s) => /\ job' \in Operation /\ job'.step = s
                         /\ job'.class = job.class /\ job'.id = job.id
           /\ \A b \in Backup : job' = [job EXCEPT !.step = s, !.id = b] =>
                 job' \in Operation /\ job'.step = s /\ job'.class = job.class /\ job'.id = b
           /\ \A c \in Class : job' = [Idle EXCEPT !.step = s, !.class = c] =>
                 job' \in Operation /\ job'.step = s /\ job'.class = c
           /\ \A c \in Class, b \in Backup :
                 job' = [Idle EXCEPT !.step = s, !.class = c, !.target = b] =>
                    job' \in Operation /\ job'.step = s /\ job'.class = c
BY RestoreAssumption DEF Operation, Goes, Idle

\* The operation that holds no mutex.
LEMMA IdleIs == Idle \in Operation /\ Idle.step = "idle" /\ Idle.class = "HOURLY"
BY RestoreAssumption DEF Idle, Operation, Stage, Class

\* A step that changes nothing of an artifact but its status.
Restamped ==
    /\ art' \in [Backup -> Artifact]
    /\ \A b \in Backup : /\ art'[b].class = art[b].class /\ art'[b].db = art[b].db
                         /\ art'[b].revision = art[b].revision /\ art'[b].at = art[b].at
                         /\ art'[b].status = "none" <=> art[b].status = "none"

\* The artifact of one backup gets another status.
LEMMA StatusIs ==
    ASSUME art \in [Backup -> Artifact], NEW b \in Backup, art[b].status # "none",
           NEW s \in {"published", "removing", "gone"}, Status(b, s)
    PROVE  /\ Restamped /\ art'[b].status = s
           /\ \A x \in Backup : x # b => art'[x] = art[x]
<1>1. [art[b] EXCEPT !.status = s] \in Artifact
  BY DEF Artifact
<1>2. art' \in [Backup -> Artifact] /\ art'[b] = [art[b] EXCEPT !.status = s]
  BY <1>1 DEF Status
<1>3. \A x \in Backup : x # b => art'[x] = art[x]
  BY DEF Status
<1>4. /\ art'[b].class = art[b].class /\ art'[b].db = art[b].db
      /\ art'[b].revision = art[b].revision /\ art'[b].at = art[b].at /\ art'[b].status = s
  BY <1>2 DEF Artifact
<1>. QED
  BY <1>2, <1>3, <1>4 DEF Restamped

\* The artifacts get their statuses from f.
LEMMA StatusesAre ==
    ASSUME art \in [Backup -> Artifact],
           NEW f \in [Backup -> {"none", "staged", "published", "durable", "removing", "gone"}],
           \A b \in Backup : f[b] = "none" <=> art[b].status = "none",
           art' = [b \in Backup |-> IF f[b] = art[b].status THEN art[b]
                                    ELSE [art[b] EXCEPT !.status = f[b]]]
    PROVE  Restamped /\ \A b \in Backup : art'[b].status = f[b]
<1>1. ASSUME NEW b \in Backup
      PROVE  /\ art'[b] \in Artifact
             /\ art'[b].class = art[b].class /\ art'[b].db = art[b].db
             /\ art'[b].revision = art[b].revision /\ art'[b].at = art[b].at
             /\ art'[b].status = f[b]
  <2>1. CASE f[b] = art[b].status
    BY <2>1
  <2>2. CASE f[b] # art[b].status
    <3>1. art'[b] = [art[b] EXCEPT !.status = f[b]]
      BY <2>2
    <3>. QED
      BY <3>1 DEF Artifact
  <2>. QED
    BY <2>1, <2>2
<1>2. art' \in [Backup -> Artifact]
  BY <1>1
<1>. QED
  BY <1>1, <1>2 DEF Restamped

\* What a sync of the backup directory does to each status, when it keeps their order.
LEMMA SyncedIs ==
    ASSUME art \in [Backup -> Artifact], Ordered, art' = Synced
    PROVE  /\ Restamped
           /\ \A b \in Backup : art'[b].status = IF art[b].status = "published" THEN "durable"
                                    ELSE IF art[b].status = "removing" THEN "gone"
                                    ELSE art[b].status
<1>. DEFINE f == [b \in Backup |-> IF art[b].status = "published" THEN "durable"
                                   ELSE IF art[b].status = "removing" THEN "gone"
                                   ELSE art[b].status]
<1>1. \A b \in Backup : art[b].status \in {"none", "staged", "published", "durable", "removing", "gone"}
  BY DEF Artifact
<1>2. /\ f \in [Backup -> {"none", "staged", "published", "durable", "removing", "gone"}]
      /\ \A b \in Backup : f[b] = "none" <=> art[b].status = "none"
  BY <1>1
<1>3. art' = [b \in Backup |-> IF f[b] = art[b].status THEN art[b]
                               ELSE [art[b] EXCEPT !.status = f[b]]]
  BY DEF Synced
<1>. HIDE DEF f
<1>4. Restamped /\ \A b \in Backup : art'[b].status = f[b]
  BY <1>2, <1>3, StatusesAre
<1>. QED
  BY <1>4 DEF f

\* What an operation that returns or dies does to each status.
LEMMA AbandonedIs ==
    ASSUME art \in [Backup -> Artifact], art' = Abandoned
    PROVE  /\ Restamped
           /\ \A b \in Backup : art'[b].status = IF art[b].status = "staged" THEN "gone"
                                                 ELSE art[b].status
<1>. DEFINE f == [b \in Backup |-> IF art[b].status = "staged" THEN "gone" ELSE art[b].status]
<1>1. \A b \in Backup : art[b].status \in {"none", "staged", "published", "durable", "removing", "gone"}
  BY DEF Artifact
<1>2. /\ f \in [Backup -> {"none", "staged", "published", "durable", "removing", "gone"}]
      /\ \A b \in Backup : f[b] = "none" <=> art[b].status = "none"
  BY <1>1
<1>3. art' = [b \in Backup |-> IF f[b] = art[b].status THEN art[b]
                               ELSE [art[b] EXCEPT !.status = f[b]]]
  BY DEF Abandoned
<1>. HIDE DEF f
<1>4. Restamped /\ \A b \in Backup : art'[b].status = f[b]
  BY <1>2, <1>3, StatusesAre
<1>. QED
  BY <1>4 DEF f

\* What a power loss does to each status.
LEMMA LostIs ==
    ASSUME art \in [Backup -> Artifact], MachineStops
    PROVE  /\ Restamped
           /\ \A b \in Backup :
                 IF art[b].status \in {"published", "removing"}
                 THEN art'[b].status \in {"durable", "gone"}
                 ELSE art'[b].status = IF art[b].status = "staged" THEN "gone" ELSE art[b].status
<1>1. PICK kept \in SUBSET Unsettled : art' = [b \in Backup |->
          IF b \in Unsettled THEN [art[b] EXCEPT !.status = IF b \in kept THEN "durable" ELSE "gone"]
                             ELSE Abandoned[b]]
  BY DEF MachineStops
<1>. DEFINE f == [b \in Backup |->
                    IF b \in Unsettled THEN IF b \in kept THEN "durable" ELSE "gone"
                    ELSE IF art[b].status = "staged" THEN "gone" ELSE art[b].status]
<1>2. \A b \in Backup : art[b].status \in {"none", "staged", "published", "durable", "removing", "gone"}
  BY DEF Artifact
<1>3. /\ f \in [Backup -> {"none", "staged", "published", "durable", "removing", "gone"}]
      /\ \A b \in Backup : f[b] = "none" <=> art[b].status = "none"
  BY <1>2 DEF Unsettled
<1>4. art' = [b \in Backup |-> IF f[b] = art[b].status THEN art[b]
                               ELSE [art[b] EXCEPT !.status = f[b]]]
  <2>1. ASSUME NEW b \in Backup
        PROVE  art'[b] = IF f[b] = art[b].status THEN art[b] ELSE [art[b] EXCEPT !.status = f[b]]
    BY <1>1 DEF Abandoned, Unsettled
  <2>. QED
    BY <1>1, <2>1
<1>5. Restamped /\ \A b \in Backup : art'[b].status = f[b]
  <2>. HIDE DEF f
  <2>. QED
    BY <1>3, <1>4, StatusesAre
<1>. QED
  BY <1>5 DEF f, Unsettled

-----------------------------------------------------------------------------
(***************************************************************************)
(* Retention.                                                              *)
(***************************************************************************)

\* The hourly artifacts are finitely many, and their ages numbers.
LEMMA HourlyFinite ==
    ASSUME BackupTypes
    PROVE  /\ IsFiniteSet(Hourly) /\ Hourly \subseteq Outlives /\ Outlives \subseteq Used
           /\ \A b \in Backup : art[b].at \in Nat /\ (art[b].class = "HOURLY" => art[b].class \in Class)
<1>1. Hourly \subseteq Outlives /\ Outlives \subseteq Used
  BY DEF Hourly, Listed, Verifies, Outlives, Used, Unused
<1>2. IsFiniteSet(Hourly)
  BY <1>1, FS_Subset DEF BackupTypes
<1>. QED
  BY <1>1, <1>2 DEF BackupTypes, Artifact

\* The newest artifact is retained.
LEMMA NewestRetained ==
    ASSUME BackupTypes, NEW b \in Hourly, Newest(b)
    PROVE  b \in Retained
<1>1. Newer(b) = {}
  BY HourlyFinite DEF Newer, Newest, Hourly, Listed
<1>2. Cardinality(Newer(b)) < HourlyLimit
  BY <1>1, FS_EmptySet, BackupsAssumption
<1>. QED
  BY <1>2 DEF Retained

\* While one is not retained there is one whose newer ones all are: pruning finds it.
LEMMA PruneFinds ==
    ASSUME BackupTypes, Hourly # Retained
    PROVE  \E b \in Hourly \ Retained : Newer(b) \subseteq Retained
<1>. DEFINE H == Hourly
            N == {Newer(b) : b \in H \ Retained}
<1>1. IsFiniteSet(H) /\ \A b \in H : art[b].at \in Nat
  BY HourlyFinite DEF Hourly, Listed
<1>2. \A b \in H : Newer(b) \in SUBSET H /\ IsFiniteSet(Newer(b))
  BY <1>1, FS_Subset DEF Newer
<1>3. N \subseteq FiniteSubsetsOf(H) /\ N # {}
  BY <1>2 DEF FiniteSubsetsOf, Retained
<1>4. IsWellFoundedOn(StrictSubsetOrdering(H), FiniteSubsetsOf(H))
  BY FS_StrictSubsetOrderingWellFounded
<1>5. PICK m \in N : \A y \in N : ~ (<<y, m>> \in StrictSubsetOrdering(H))
  <2>. HIDE DEF N, H
  <2>. QED
    BY <1>3, <1>4, WFMin
<1>6. PICK b \in H \ Retained : m = Newer(b)
  BY <1>5
<1>7. Newer(b) \subseteq Retained
  <2>. SUFFICES ASSUME NEW x \in Newer(b), x \notin Retained PROVE FALSE
    OBVIOUS
  <2>1. x \in H \ Retained /\ art[x].at > art[b].at
    BY DEF Newer
  <2>2. Newer(x) \subseteq Newer(b)
    BY <1>1, <1>6, <2>1 DEF Newer
  <2>3. x \notin Newer(x)
    BY <1>1, <2>1 DEF Newer
  <2>4. <<Newer(x), m>> \in StrictSubsetOrdering(H)
    BY <1>2, <1>6, <2>1, <2>2, <2>3 DEF StrictSubsetOrdering
  <2>. QED
    BY <1>5, <2>1, <2>4
<1>. QED
  BY <1>6, <1>7

\* Fewer artifacts of the same ages: what was retained among more still is.
LEMMA RetainedShrinks ==
    ASSUME BackupTypes, Restamped, Hourly' \subseteq Hourly, Hourly = Retained
    PROVE  (Hourly = Retained)'
<1>. SUFFICES ASSUME NEW b \in Backup, b \in Hourly' PROVE b \in Retained'
  BY DEF Retained, Hourly, Listed
<1>1. b \in Retained /\ b \in Hourly
  OBVIOUS
<1>2. \A x \in Backup : art'[x].at = art[x].at
  BY DEF Restamped
<1>3. Newer(b)' \subseteq Newer(b)
  BY <1>2 DEF Newer, Hourly, Listed
<1>4. IsFiniteSet(Newer(b))
  BY HourlyFinite, FS_Subset DEF Newer
<1>5. /\ IsFiniteSet(Newer(b)') /\ Cardinality(Newer(b)') <= Cardinality(Newer(b))
      /\ Cardinality(Newer(b)') \in Nat /\ Cardinality(Newer(b)) \in Nat
  BY <1>3, <1>4, FS_Subset, FS_CardinalityType
<1>6. \A x \in Backup : Day(x)' = Day(x)
  BY <1>2 DEF Day
<1>. DEFINE D == {Day(x) : x \in Newer(b)}
            E == {Day(x)' : x \in Newer(b)'}
<1>7. E \subseteq D
  BY <1>3, <1>6 DEF Newer, Hourly, Listed
<1>8. IsFiniteSet(D)
  <2>. DEFINE g == [x \in Newer(b) |-> Day(x)]
  <2>1. g \in Surjection(Newer(b), D)
    BY DEF Surjection
  <2>. HIDE DEF g, D
  <2>. QED
    BY <1>4, <2>1, FS_Surjection
<1>9. Cardinality(E) <= Cardinality(D) /\ Cardinality(E) \in Nat /\ Cardinality(D) \in Nat
  <2>. HIDE DEF D, E
  <2>. QED
    BY <1>7, <1>8, FS_Subset, FS_CardinalityType
<1>10. CASE Cardinality(Newer(b)) < HourlyLimit
  <2>1. Cardinality(Newer(b)') < HourlyLimit
    BY <1>5, <1>10, BackupsAssumption
  <2>. QED
    BY <2>1 DEF Retained
<1>11. CASE Cardinality(D) < DailyLimit /\ \A x \in Newer(b) : Day(x) # Day(b)
  <2>1. Cardinality(E) < DailyLimit
    BY <1>9, <1>11, BackupsAssumption
  <2>2. \A x \in Newer(b)' : Day(x)' # Day(b)'
    BY <1>3, <1>6, <1>11 DEF Newer, Hourly, Listed
  <2>. QED
    BY <2>1, <2>2 DEF Retained
<1>. QED
  BY <1>1, <1>10, <1>11 DEF Retained

-----------------------------------------------------------------------------
(***************************************************************************)
(* What most steps keep: the artifacts that cover a database, and that     *)
(* nothing is left to prune.                                               *)
(***************************************************************************)
SafetyKept == \A b \in Durable("SAFETY") :
    b \in Durable("SAFETY")' /\ art'[b].db = art[b].db /\ art'[b].revision = art[b].revision

CoverKept == \A b \in Durable("HOURLY") : Newest(b) =>
    /\ b \in Durable("HOURLY")' /\ Newest(b)'
    /\ art'[b].db = art[b].db /\ art'[b].revision = art[b].revision

ArtKept == SafetyKept /\ CoverKept /\ (Clean => Clean')

\* A change of statuses that loses no durable artifact but what pruning picks, publishes
\* no hourly one and, with nothing left to prune, shows no other.
LEMMA StatusesKeep ==
    ASSUME BackupTypes, Restamped,
           \A b \in Durable("SAFETY") : art'[b].status = "durable",
           \A b \in Durable("HOURLY") : Newest(b) => art'[b].status = "durable",
           Outlives' \subseteq Outlives,
           Clean => Hourly' \subseteq Hourly /\ \A b \in Backup : art'[b].status # "removing"
    PROVE  ArtKept
<1>1. \A b \in Backup : /\ art'[b].class = art[b].class /\ art'[b].db = art[b].db
                        /\ art'[b].revision = art[b].revision /\ art'[b].at = art[b].at
  BY DEF Restamped
<1>2. SafetyKept
  BY <1>1 DEF SafetyKept, Durable
<1>3. ASSUME NEW b \in Durable("HOURLY"), Newest(b)
      PROVE  b \in Durable("HOURLY")' /\ Newest(b)'
  <2>1. b \in Backup
    BY DEF Durable
  <2>2. Newest(b)'
    <3>. SUFFICES ASSUME NEW x \in Backup, x \in Outlives' PROVE art'[x].at <= art'[b].at
      BY DEF Newest, Outlives
    <3>1. art[x].at <= art[b].at
      BY <1>3 DEF Newest
    <3>. QED
      BY <1>1, <2>1, <3>1
  <2>. QED
    BY <1>1, <1>3, <2>1, <2>2 DEF Durable
<1>4. CoverKept
  BY <1>1, <1>3 DEF CoverKept, Durable
<1>5. Clean => Clean'
  <2>. SUFFICES ASSUME Clean PROVE Clean'
    OBVIOUS
  <2>1. (Hourly = Retained)'
    BY RetainedShrinks DEF Clean
  <2>. QED
    BY <2>1 DEF Clean
<1>. QED
  BY <1>2, <1>4, <1>5 DEF ArtKept

\* Nothing happens to the artifacts.
LEMMA SameKeep == ASSUME art' = art PROVE ArtKept
BY DEF ArtKept, SafetyKept, CoverKept, Durable, Newest, Outlives, Clean, Hourly, Listed,
       Verifies, Retained, Newer, Day

\* What was published becomes durable and what was unlinked is gone for good.
LEMMA SyncedKeep ==
    ASSUME BackupTypes, Ordered, art' = Synced
    PROVE  ArtKept /\ (Hourly = Retained => Clean')
<1>1. /\ Restamped
      /\ \A b \in Backup : art'[b].status = IF art[b].status = "published" THEN "durable"
                               ELSE IF art[b].status = "removing" THEN "gone"
                               ELSE art[b].status
  BY SyncedIs DEF BackupTypes
<1>2. \A b \in Backup : art'[b].class = art[b].class
  BY <1>1 DEF Restamped
<1>3. Hourly' \subseteq Hourly /\ \A b \in Backup : art'[b].status # "removing"
  BY <1>1, <1>2 DEF Hourly, Listed, Verifies
<1>4. Outlives' \subseteq Outlives
  BY <1>1, <1>2 DEF Outlives
<1>5. \A c : \A b \in Durable(c) : art'[b].status = "durable"
  BY <1>1 DEF Durable
<1>6. ArtKept
  BY <1>1, <1>3, <1>4, <1>5, StatusesKeep
<1>7. Hourly = Retained => (Hourly = Retained)'
  BY <1>1, <1>3, RetainedShrinks
<1>. QED
  BY <1>3, <1>6, <1>7 DEF Clean

\* Staging goes; of what was not synced some goes and the rest is durable.
LEMMA LostKeep ==
    ASSUME BackupTypes, art' = Abandoned \/ MachineStops
    PROVE  ArtKept /\ Restamped
<1>1. /\ Restamped
      /\ \A b \in Backup :
            \/ art'[b].status = IF art[b].status = "staged" THEN "gone" ELSE art[b].status
            \/ art[b].status \in {"published", "removing"} /\ art'[b].status \in {"durable", "gone"}
  BY AbandonedIs, LostIs DEF BackupTypes
<1>2. \A b \in Backup : art'[b].class = art[b].class
  BY <1>1 DEF Restamped
<1>3. Clean => Hourly' \subseteq Hourly /\ \A b \in Backup : art'[b].status # "removing"
  BY <1>1, <1>2 DEF Hourly, Listed, Verifies, Clean
<1>4. Outlives' \subseteq Outlives
  BY <1>1, <1>2 DEF Outlives
<1>5. \A c : \A b \in Durable(c) : art'[b].status = "durable"
  BY <1>1 DEF Durable
<1>. QED
  BY <1>1, <1>3, <1>4, <1>5, StatusesKeep

\* A snapshot is not listed yet, and of an age of its own.
LEMMA StagedKeep ==
    ASSUME BackupTypes, NEW b \in Unused, NEW a \in Artifact, a.status = "staged",
           art' = [art EXCEPT ![b] = a]
    PROVE  ArtKept
<1>1. b \in Backup /\ art[b].status = "none" /\ art'[b] = a
      /\ \A x \in Backup : x # b => art'[x] = art[x]
  BY DEF BackupTypes, Unused
<1>2. \A x \in Backup : x = b \/ art'[x] = art[x]
  BY <1>1
<1>3. Outlives' = Outlives /\ Hourly' = Hourly /\ b \notin Hourly /\ b \notin Outlives
      /\ \A c : Durable(c) \subseteq Durable(c)' /\ b \notin Durable(c)
  BY <1>1 DEF Outlives, Hourly, Listed, Verifies, Durable
<1>4. SafetyKept
  BY <1>2, <1>3 DEF SafetyKept, Durable
<1>5. CoverKept
  <2>. SUFFICES ASSUME NEW x \in Durable("HOURLY"), Newest(x)
                PROVE  x \in Durable("HOURLY")' /\ Newest(x)' /\ art'[x] = art[x]
    BY DEF CoverKept
  <2>1. x \in Durable("HOURLY")' /\ art'[x] = art[x]
    BY <1>2, <1>3 DEF Durable
  <2>2. \A y \in Outlives : art'[y] = art[y]
    BY <1>2, <1>3 DEF Outlives
  <2>. QED
    BY <1>3, <2>1, <2>2 DEF Newest
<1>6. Clean => Clean'
  <2>. SUFFICES ASSUME Clean PROVE Clean'
    OBVIOUS
  <2>1. \A x \in Hourly : art'[x] = art[x] /\ Day(x)' = Day(x)
    BY <1>2, <1>3 DEF Hourly, Listed, Day
  <2>2. \A x \in Hourly : Newer(x)' = Newer(x) /\ Newer(x) \subseteq Hourly
    BY <1>3, <2>1 DEF Newer
  <2>3. ASSUME NEW x \in Hourly PROVE x \in Retained'
    <3>1. {Day(y) : y \in Newer(x)} = {Day(y)' : y \in Newer(x)'}
      BY <2>1, <2>2
    <3>2. (\A y \in Newer(x) : Day(y) # Day(x)) => \A y \in Newer(x)' : Day(y)' # Day(x)'
      BY <2>1, <2>2
    <3>3. x \in Retained
      BY DEF Clean
    <3>. QED
      BY <1>3, <2>2, <3>1, <3>2, <3>3 DEF Retained
  <2>4. Hourly' = Retained'
    BY <1>3, <2>3 DEF Retained
  <2>. QED
    BY <1>1, <2>4 DEF Clean
<1>. QED
  BY <1>4, <1>5, <1>6 DEF ArtKept

-----------------------------------------------------------------------------
(***************************************************************************)
(* What the shapes of steps keep of StartInv.                              *)
(***************************************************************************)

\* Every start would find what it could have found before, under no other marker.
FoundKept == \A im \in images' : \E e \in images : Recovered(e) = Recovered(im)
MarkersKept == \A im \in images', k \in Attempt : im["marker"] = Marker(k) =>
                  \E e \in images : e["marker"] = Marker(k)
TextKept == \A k \in Attempt : text[k] # "none" => text'[k] # "none"

\* A safety backup holds a database that does not change.
LEMMA HeldKept ==
    ASSUME SafetyKept, NEW k, store'[k] = store[k], Held("SAFETY", k)
    PROVE  Held("SAFETY", k)'
<1>1. PICK b \in Durable("SAFETY") : Holds(b, k)
  BY DEF Held
<1>2. b \in Durable("SAFETY")' /\ Holds(b, k)'
  BY <1>1 DEF SafetyKept, Holds
<1>. QED
  BY <1>2 DEF Held

\* A start finds one of the databases that were made, and nothing else.
LEMMA FoundIs ==
    ASSUME TypeInv
    PROVE  /\ \A im \in images : Recovered(im) = None \/ \E k \in 0..MaxRestores :
                                    Recovered(im) = Db(k) /\ Found(k)
           /\ dir \in images
           /\ dir["live"] # None =>
                 Recovered(dir) = dir["live"] /\ Live \in 0..MaxRestores
                 /\ dir["live"] = Db(Live) /\ Found(Live)
<1>1. \A im \in images : im["live"] \in Database /\ im["old"] \in Database
  BY DEF TypeInv, Directories
<1>2. dir \in images
  BY DEF TypeInv, Directories
<1>3. \A im \in images : Recovered(im) \in Database
  BY <1>1 DEF Recovered
<1>4. \A im \in images : Recovered(im) = None \/ \E k \in 0..MaxRestores :
                                    Recovered(im) = Db(k) /\ Found(k)
  BY <1>3, Members DEF Found
<1>5. ASSUME dir["live"] # None
      PROVE  Recovered(dir) = dir["live"] /\ Live \in 0..MaxRestores
             /\ dir["live"] = Db(Live) /\ Found(Live)
  <2>1. PICK k \in 0..MaxRestores : dir["live"] = Db(k)
    BY <1>1, <1>2, <1>5, Members
  <2>2. Live = k
    BY <2>1, Files DEF Live
  <2>3. Recovered(dir) = dir["live"]
    BY <1>5 DEF Recovered
  <2>. QED
    BY <1>2, <2>1, <2>2, <2>3 DEF Found
<1>. QED
  BY <1>2, <1>4, <1>5

\* A start finds what it could find before, unchanged, or a database to back up.
LEMMA FrameFound ==
    ASSUME StartInv, ArtKept, BackupTypes',
           \A k \in 0..MaxRestores : Found(k)' =>
              \/ Found(k) /\ store'[k] = store[k]
              \/ store'[k].last < store'[k].revision
    PROVE  Owes' /\ Skips'
<1>1. Owes'
  <2>. SUFFICES ASSUME NEW k \in 0..MaxRestores, Found(k)'
                PROVE  store'[k].debt \/ store'[k].last < store'[k].revision \/ Clean'
    BY DEF Owes
  <2>1. CASE Found(k) /\ store'[k] = store[k]
    BY <2>1 DEF StartInv, Owes, ArtKept
  <2>. QED
    BY <2>1
<1>2. Skips'
  <2>. SUFFICES ASSUME NEW k \in 0..MaxRestores, Found(k)', store'[k].last = store'[k].revision
                PROVE  \E b \in Durable("HOURLY")' : Holds(b, k)' /\ Newest(b)'
    BY DEF Skips
  <2>1. store'[k].revision \in Nat
    BY DEF BackupTypes, Row
  <2>2. Found(k) /\ store'[k] = store[k]
    BY <2>1
  <2>3. PICK b \in Durable("HOURLY") : Holds(b, k) /\ Newest(b)
    BY <2>2 DEF StartInv, Skips
  <2>4. b \in Durable("HOURLY")' /\ Newest(b)' /\ Holds(b, k)'
    BY <2>2, <2>3 DEF ArtKept, CoverKept, Holds
  <2>. QED
    BY <2>4
<1>. QED
  BY <1>1, <1>2

\* A start may find another database than the one that attempt k replaces.
Lost(k) == tx[k].hadLive /\ \E im \in images : Recovered(im) # tx[k].original

\* What the last property says of one attempt.
LEMMA LostHeld ==
    ASSUME RestoreLosesNothing, NEW k \in 1..n, Lost(k)
    PROVE  Held("SAFETY", tx[k].original[2])
BY DEF RestoreLosesNothing, Lost, Held

\* What may be lost was held before the step, and is as it was.
LEMMA FrameLost ==
    ASSUME SafetyKept,
           \A k \in 1..n' : Lost(k)' =>
              LET o == tx[k].original[2]
              IN  tx'[k] = tx[k] /\ store'[o] = store[o] /\ Held("SAFETY", o)
    PROVE  RestoreLosesNothing'
<1>. SUFFICES ASSUME NEW k \in 1..n', Lost(k)'
              PROVE  Held("SAFETY", tx[k].original[2])'
  BY DEF RestoreLosesNothing, Held, Lost
<1>1. PICK o \in {tx[k].original[2]} : store'[o] = store[o] /\ Held("SAFETY", o)
  OBVIOUS
<1>2. Held("SAFETY", o)' /\ tx'[k] = tx[k]
  BY <1>1, HeldKept
<1>. QED
  BY <1>1, <1>2

\* A step that changes no database and no transaction, and after which a start finds what
\* it could find before.
LEMMA Frame ==
    ASSUME StartInv, BackupTypes', FoundKept, MarkersKept, TextKept, ArtKept,
           UNCHANGED <<store, tx, n>>
    PROVE  StartInv'
<1>1. Owes' /\ Skips'
  <2>1. \A k : Found(k)' => Found(k)
    BY DEF FoundKept, Found
  <2>. QED
    BY <2>1, FrameFound
<1>2. Untouched'
  <2>1. ASSUME NEW im \in images', NEW k \in Attempt, im["marker"] = Marker(k)
        PROVE  Unserved(k)'
    BY <2>1 DEF MarkersKept, StartInv, Untouched, Unserved
  <2>2. ASSUME NEW im \in images', Recovered(im) = None PROVE store'[0] = Fresh
    BY <2>2 DEF FoundKept, StartInv, Untouched
  <2>3. ASSUME NEW k \in Attempt, tx'[k].hadLive PROVE text'[k] # "none"
    BY <2>3 DEF TextKept, StartInv, Untouched
  <2>. QED
    BY <2>1, <2>2, <2>3 DEF Untouched, Fresh
<1>3. RestoreLosesNothing'
  <2>1. ASSUME NEW k \in 1..n', Lost(k)'
        PROVE  tx'[k] = tx[k] /\ k \in 1..n /\ Lost(k)
    BY <2>1 DEF FoundKept, Lost
  <2>. QED
    BY <2>1, LostHeld, FrameLost DEF ArtKept, StartInv
<1>. QED
  BY <1>1, <1>2, <1>3 DEF StartInv

\* A step of the served database, which every power loss would keep: nothing but its row
\* changes.
LEMMA ServedStep ==
    ASSUME IInv, BackupTypes, StartInv, pc = "serving", dir["live"] # None,
           UNCHANGED <<dir, images, tx, n, text>>, SafetyKept,
           \A k \in 0..MaxRestores : k # Live => store'[k] = store[k],
           store'[Live].debt \/ store'[Live].last < store'[Live].revision \/ Clean',
           store'[Live].last = store'[Live].revision =>
              \E b \in Durable("HOURLY")' : Holds(b, Live)' /\ Newest(b)'
    PROVE  StartInv'
<1>1. images = {dir} /\ dir["marker"] = None
  BY DEF IInv, Known
<1>2. Recovered(dir) = dir["live"] /\ Live \in 0..MaxRestores /\ dir["live"] = Db(Live)
  BY FoundIs DEF IInv
<1>3. images' = {dir} /\ Live' = Live
  BY <1>1 DEF Live
<1>4. \A k : Found(k)' => k = Live
  <2>. SUFFICES ASSUME NEW k, Found(k)' PROVE k = Live
    OBVIOUS
  <2>1. Recovered(dir) = Db(k)
    BY <1>3 DEF Found
  <2>. QED
    BY <1>2, <2>1, Files
<1>5. Owes'
  BY <1>4 DEF Owes
<1>6. Skips'
  <2>. SUFFICES ASSUME NEW k \in 0..MaxRestores, Found(k)', store'[k].last = store'[k].revision
                PROVE  \E b \in Durable("HOURLY")' : Holds(b, k)' /\ Newest(b)'
    BY DEF Skips
  <2>1. k = Live
    BY <1>4
  <2>2. PICK b \in Durable("HOURLY")' : Holds(b, Live)' /\ Newest(b)'
    BY <2>1
  <2>3. Holds(b, k)'
    BY <1>3, <2>1, <2>2 DEF Holds
  <2>. QED
    BY <2>2, <2>3
<1>7. Untouched'
  <2>1. \A im \in images', k \in Attempt : im["marker"] # Marker(k)
    BY <1>1, <1>3, Files
  <2>2. \A im \in images' : Recovered(im) # None
    BY <1>2, <1>3
  <2>. QED
    BY <2>1, <2>2 DEF Untouched, StartInv
<1>8. RestoreLosesNothing'
  <2>. SUFFICES ASSUME NEW k \in 1..n, tx[k].hadLive, Recovered(dir) # tx[k].original
                PROVE  Held("SAFETY", tx[k].original[2])'
    BY <1>3 DEF RestoreLosesNothing, Held
  <2>1. PICK j \in {tx[k].original[2]} : Held("SAFETY", j)
    BY <1>1 DEF StartInv, RestoreLosesNothing, Held
  <2>2. k \in Attempt /\ text[k] # "none"
    <3>1. k \in Attempt
      BY RestoreAssumption DEF IInv, TypeInv, TypeOK, Attempt
    <3>. QED
      BY <3>1 DEF StartInv, Untouched
  <2>3. PICK i \in 0..(k - 1) : tx[k].original = Db(i)
    BY <2>2 DEF IInv, AttemptInv, Recorded
  <2>4. j = i /\ i # Live /\ i \in 0..MaxRestores
    BY <1>2, <2>1, <2>2, <2>3, Files, RestoreAssumption DEF Attempt
  <2>5. Held("SAFETY", j)'
    BY <2>1, <2>4, HeldKept
  <2>6. tx'[k].original[2] = j
    BY <2>1
  <2>. QED
    BY <2>5, <2>6
<1>. QED
  BY <1>5, <1>6, <1>7, <1>8 DEF StartInv

-----------------------------------------------------------------------------
(***************************************************************************)
(* The steps of Restore, with no operation under way.                      *)
(***************************************************************************)

\* Directories of one version have the same database.
LEMMA SameVersion ==
    ASSUME TypeInv, TypeInv', NEW d \in images, NEW e \in images', Version(d) = Version(e)
    PROVE  Recovered(d) = Recovered(e)
<1>1. /\ d["live"] \in Database /\ d["old"] \in Database
      /\ e["live"] \in Database /\ e["old"] \in Database
  BY DEF TypeInv, Directories
<1>2. Recovered(d) \in Database /\ Recovered(e) \in Database
  BY <1>1 DEF Recovered
<1>. DEFINE f == Recovered(d)
            g == Recovered(e)
<1>3. (IF f = None THEN 0 ELSE f[2] + 1) = (IF g = None THEN 0 ELSE g[2] + 1)
  BY DEF Version
<1>4. f = None \/ \E k \in 0..MaxRestores : f = Db(k) /\ f[2] = k
  BY <1>2, Members, Files
<1>5. g = None \/ \E k \in 0..MaxRestores : g = Db(k) /\ g[2] = k
  BY <1>2, Members, Files
<1>. HIDE DEF f, g
<1>6. f = g
  BY <1>3, <1>4, <1>5, RestoreAssumption
<1>. QED
  BY <1>6 DEF f, g

\* A step that replaces no database lets a start find none but the earlier ones.
LEMMA UnreplacedFound == ASSUME IInv, IInv', Unreplaced PROVE FoundKept
<1>1. dir \in images
  BY DEF IInv, TypeInv, TypeOK
<1>2. \A v \in {Version(im) : im \in images'} : v \in {Version(im) : im \in images}
  BY <1>1 DEF Unreplaced, Atomic!Settle, Atomic!Acknowledge, Atomic!vars
<1>3. ASSUME NEW e \in images' PROVE \E d \in images : Recovered(d) = Recovered(e)
  <2>1. PICK d \in images : Version(d) = Version(e)
    BY <1>2
  <2>. QED
    BY <2>1, SameVersion DEF IInv
<1>. QED
  BY <1>3 DEF FoundKept

\* Only the creation of a marker puts one into the directory.
LEMMA EntriesKeepMarkers ==
    ASSUME Ordered, TypeInv,
           \/ UNCHANGED <<dir, images>>
           \/ Sync
           \/ \E x : \E f \in File : Entry(x, f) /\ (x = "marker" => f = None)
    PROVE  MarkersKept
<1>1. dir \in images /\ dir \in [Name -> File]
  BY DEF TypeInv, TypeOK
<1>2. CASE UNCHANGED <<dir, images>> \/ Sync
  BY <1>1, <1>2 DEF Sync, MarkersKept
<1>3. ASSUME NEW x, NEW f \in File, Entry(x, f), x = "marker" => f = None
      PROVE  MarkersKept
  <2>1. images' = images \cup {dir'} /\ dir' = Put(dir, x, f)
    BY <1>3 DEF Entry
  <2>2. dir'["marker"] = dir["marker"] \/ dir'["marker"] = None
    BY <1>1, <1>3, <2>1, PutName, NameMembers
  <2>. QED
    BY <1>1, <2>1, <2>2, Files DEF MarkersKept
<1>. QED
  BY <1>2, <1>3

\* The steps of Restore that describe no transaction and make no database.
Recovers == \/ Start \/ Accept \/ ReadTransaction \/ RecoverRestored \/ RecoverOriginal
            \/ Refuse \/ ClearMarker
Installs == \/ WriteMarker \/ RetainOriginal \/ LinkRestored \/ LinkFails \/ Finalize
            \/ InstallFails

\* Only CreateMarker adds a marker to a directory that a power loss may leave.
LEMMA RestoreMarkers ==
    ASSUME Ordered, TypeInv, Recovers \/ Installs \/ Serve
    PROVE  MarkersKept
<1>. DEFINE Kept == \E x : \E f \in File : Entry(x, f) /\ (x = "marker" => f = None)
<1>1. /\ None \in File /\ dir["live"] \in File /\ dir["old"] \in File
      /\ pc = "link" => Db(n) \in File
  BY Members DEF TypeInv, Directories, Attempt
<1>2. \A x : Entry(x, None) => Kept
  BY <1>1
<1>3. \A x \in {"live", "old"}, f \in File : Entry(x, f) => Kept
  OBVIOUS
<1>. HIDE DEF Kept
<1>4. \A c, x : EntryIf(c, x, None) => Kept \/ UNCHANGED <<dir, images>>
  BY <1>2 DEF EntryIf
<1>5. CASE Start \/ Accept \/ ReadTransaction \/ Refuse \/ LinkFails \/ Serve
  BY <1>5, EntriesKeepMarkers DEF Start, Accept, ReadTransaction, Refuse, LinkFails, Serve
<1>6. RecoverRestored \/ RecoverOriginal => Sync \/ Kept \/ UNCHANGED <<dir, images>>
  BY <1>1, <1>3, <1>4 DEF RecoverRestored, RecoverOriginal
<1>7. ClearMarker \/ Finalize => Sync \/ Kept \/ UNCHANGED <<dir, images>>
  BY <1>2, <1>4 DEF ClearMarker, Finalize
<1>8. WriteMarker \/ InstallFails => Sync \/ Kept \/ UNCHANGED <<dir, images>>
  BY <1>4 DEF WriteMarker, Written, InstallFails
<1>9. RetainOriginal => Sync \/ Kept
  BY <1>1, <1>2, <1>3 DEF RetainOriginal
<1>10. LinkRestored => Sync \/ Kept
  BY <1>1, <1>3 DEF LinkRestored, Step
<1>. QED
  BY <1>5, <1>6, <1>7, <1>8, <1>9, <1>10, EntriesKeepMarkers DEF Recovers, Installs, Kept

\* Nor do they forget a transaction, or come to the places that rely on a safety backup.
LEMMA RestorePlaces ==
    ASSUME Recovers \/ Installs \/ Serve, TypeInv
    PROVE  /\ tx' = tx /\ n' = n /\ TextKept /\ pc' # "bound"
           /\ pc' = "serving" => dir'["live"] # None
           /\ pc' \in {"created", "written", "marked", "retain", "retained", "release",
                       "released", "link"} =>
                 pc \in {"created", "written", "marked", "retain", "retained", "release",
                         "released", "link"}
<1>1. CASE Start \/ Accept \/ ReadTransaction \/ Refuse \/ ClearMarker \/ LinkFails \/ Serve
  BY <1>1 DEF Start, Accept, ReadTransaction, Refuse, ClearMarker, LinkFails, Serve, Step, Goto,
              Acknowledge, Sync, TextKept
<1>2. CASE RecoverRestored \/ RecoverOriginal
  BY <1>2 DEF RecoverRestored, RecoverOriginal, Step, Goto, TextKept
<1>3. CASE RetainOriginal \/ LinkRestored \/ Finalize \/ InstallFails
  BY <1>3 DEF RetainOriginal, LinkRestored, Finalize, InstallFails, Step, Goto, Acknowledge,
              TextKept
<1>4. CASE WriteMarker
  <2>1. text' = text \/ \E t \in {"written", "synced"} : text' = [text EXCEPT ![n] = t]
    BY <1>4 DEF WriteMarker, Written, Goto
  <2>2. TextKept
    BY <2>1 DEF TextKept, TypeInv, TypeOK
  <2>. QED
    BY <1>4, <2>2 DEF WriteMarker, Written, Goto
<1>. QED
  BY <1>1, <1>2, <1>3, <1>4 DEF Recovers, Installs

\* The safety backup that an installation relies on stays.
LEMMA PlaceKept ==
    ASSUME PlaceInv, SafetyKept, UNCHANGED <<store, tx, n>>, pc' # "bound",
           pc' = "serving" => dir'["live"] # None,
           pc' \in {"created", "written", "marked", "retain", "retained", "release",
                    "released", "link"} =>
              pc \in {"created", "written", "marked", "retain", "retained", "release",
                      "released", "link"}
    PROVE  PlaceInv'
<1>1. PICK o \in {tx[n].original[2]} : TRUE
  OBVIOUS
<1>2. Held("SAFETY", o) => Held("SAFETY", o)'
  BY HeldKept
<1>. QED
  BY <1>1, <1>2 DEF PlaceInv

\* The restored database is linked: it has not been served, and what it replaces is held.
LEMMA LinkKeeps ==
    ASSUME Ordered, IInv, PlaceInv, StartInv, BackupTypes, BackupTypes',
           pc = "link", Entry("live", Db(n)), UNCHANGED <<store, art, tx, n, text>>, MarkersKept
    PROVE  StartInv'
<1>1. /\ n \in Attempt /\ n \in 0..MaxRestores /\ InstallInv /\ dir["marker"] = Marker(n)
      /\ dir \in images /\ dir \in [Name -> File] /\ Db(n) \in File
      /\ Recorded(n, tx[n])
  BY InInstall, Members DEF Busy, Installing, IInv, TypeInv, TypeOK
<1>2. dir["live"] = None /\ dir["old"] = tx[n].original
  BY <1>1 DEF InstallInv
<1>3. images' = images \cup {dir'} /\ dir' = Put(dir, "live", Db(n))
  BY DEF Entry
<1>4. Recovered(dir') = Db(n)
  BY <1>1, <1>3, PutName, NameMembers, Files DEF Recovered
<1>5. Recovered(dir) = tx[n].original
  BY <1>2 DEF Recovered
<1>6. ArtKept
  BY SameKeep
<1>7. Unserved(n)
  BY <1>1 DEF StartInv, Untouched
<1>8. Owes' /\ Skips'
  <2>1. \A k : Found(k)' => Found(k) \/ k = n
    BY <1>3, <1>4, Files DEF Found
  <2>. QED
    BY <1>6, <1>7, <2>1, FrameFound DEF Unserved
<1>9. Untouched'
  <2>1. ASSUME NEW im \in images', NEW k \in Attempt, im["marker"] = Marker(k)
        PROVE  Unserved(k)'
    BY <2>1 DEF MarkersKept, StartInv, Untouched, Unserved
  <2>2. \A im \in images' : Recovered(im) = None => store'[0] = Fresh
    BY <1>3, <1>4, Files DEF StartInv, Untouched
  <2>. QED
    BY <2>1, <2>2 DEF StartInv, Untouched, Fresh
<1>10. RestoreLosesNothing'
  <2>1. ASSUME NEW k \in 1..n, Lost(k)'
        PROVE  Held("SAFETY", tx[k].original[2])
    <3>1. tx[k].hadLive
      BY <2>1 DEF Lost
    <3>2. CASE Lost(k)
      BY <3>2, LostHeld DEF StartInv
    <3>3. CASE ~Lost(k)
      <4>1. tx[k].original = tx[n].original
        BY <1>1, <1>5, <3>1, <3>3 DEF Lost
      <4>2. k \in Attempt
        BY <1>1, RestoreAssumption DEF Attempt
      <4>3. Recorded(k, tx[k])
        BY <3>1, <4>2 DEF StartInv, Untouched, IInv, AttemptInv
      <4>4. tx[n].hadLive
        BY <1>1, <3>1, <4>1, <4>3 DEF Recorded
      <4>. QED
        BY <4>1, <4>4 DEF PlaceInv
    <3>. QED
      BY <3>2, <3>3
  <2>. QED
    BY <1>6, <2>1, FrameLost DEF ArtKept
<1>. QED
  BY <1>8, <1>9, <1>10 DEF StartInv

\* An attempt that replaces nothing loses nothing.
LEMMA HadLiveIs ==
    ASSUME IInv, Untouched, NEW k \in 1..n, tx[k].hadLive
    PROVE  k \in Attempt /\ tx[k].original # None
           /\ \E j \in 0..(k - 1) : tx[k].original = Db(j) /\ tx[k].original[2] = j
<1>1. k \in Attempt
  BY RestoreAssumption DEF Attempt, IInv, TypeInv, TypeOK
<1>2. Recorded(k, tx[k])
  BY <1>1 DEF Untouched, IInv, AttemptInv
<1>. QED
  BY <1>1, <1>2, Files DEF Recorded

\* The first database of a directory is to be backed up.
LEMMA CreateDatabaseKeeps ==
    ASSUME Ordered, IInv, StartInv, BackupTypes, BackupTypes',
           CreateDatabase, UNCHANGED <<store, art>>
    PROVE  StartInv' /\ PlaceInv'
<1>1. /\ pc = "ready" /\ dir["live"] = None /\ dir' = Put(dir, "live", Db(0))
      /\ images' = {dir'} /\ pc' = "serving" /\ UNCHANGED <<text, tx, n>>
  BY DEF CreateDatabase
<1>2. /\ dir["marker"] = None /\ Plain(dir, n) /\ dir \in images
      /\ dir \in [Name -> File] /\ 0 \in 0..MaxRestores
  BY <1>1, Here, RestoreAssumption DEF IInv, Known, TypeInv, TypeOK
<1>3. Db(0) \in File
  BY <1>2, Members
<1>4. dir'["live"] = Db(0) /\ dir'["marker"] = None
  BY <1>1, <1>2, <1>3, PutName, NameMembers
<1>5. Recovered(dir') = Db(0) /\ Recovered(dir) = None
  BY <1>1, <1>2, <1>4, Files DEF Recovered, Plain
<1>6. store[0] = Fresh
  BY <1>2, <1>5 DEF StartInv, Untouched
<1>7. ArtKept
  BY SameKeep
<1>8. Owes' /\ Skips'
  <2>1. \A k : Found(k)' => k = 0
    BY <1>1, <1>5, Files DEF Found
  <2>2. store'[0].last < store'[0].revision
    BY <1>6 DEF Fresh
  <2>. QED
    BY <1>7, <2>1, <2>2, FrameFound
<1>9. Untouched'
  BY <1>1, <1>4, <1>5, Files DEF StartInv, Untouched
<1>10. RestoreLosesNothing'
  <2>1. ASSUME NEW k \in 1..n, Lost(k)' PROVE Lost(k)
    <3>1. tx[k].hadLive
      BY <1>1, <2>1 DEF Lost
    <3>. QED
      BY <1>2, <1>5, <3>1, HadLiveIs DEF Lost, StartInv
  <2>. QED
    BY <1>1, <1>7, <2>1, LostHeld, FrameLost DEF ArtKept, StartInv
<1>. QED
  BY <1>1, <1>4, <1>8, <1>9, <1>10, Files DEF StartInv, PlaceInv

\* The marker describes the replacement of a database that a safety backup holds by one
\* that has not been served.
LEMMA CreateMarkerKeeps ==
    ASSUME Ordered, IInv, IInv', PlaceInv, StartInv, BackupTypes, BackupTypes',
           CreateMarker, UNCHANGED <<store, art>>
    PROVE  StartInv' /\ PlaceInv'
<1>1. /\ pc = "bound" /\ pc' = "created" /\ n' = n /\ Entry("marker", Marker(n))
      /\ dir["marker"] = None
      /\ text' = [text EXCEPT ![n] = "empty"]
      /\ tx' = [tx EXCEPT ![n].hadLive = dir["live"] # None, ![n].original = dir["live"]]
  BY DEF CreateMarker
<1>2. /\ n \in Attempt /\ dir \in [Name -> File] /\ dir \in images /\ TypeInv
      /\ tx[n] \in [backup : Backup, hadLive : BOOLEAN, original : Database]
      /\ DOMAIN tx = Attempt /\ DOMAIN text = Attempt /\ Plain(dir, n)
  BY <1>1, Here DEF IInv, TypeInv, TypeOK, Busy, Installing
<1>3. /\ tx'[n].original = dir["live"] /\ (tx'[n].hadLive <=> dir["live"] # None)
      /\ text'[n] = "empty" /\ \A k \in Attempt : k # n => tx'[k] = tx[k] /\ text'[k] = text[k]
  BY <1>1, <1>2
<1>4. images' = images \cup {dir'} /\ dir' = Put(dir, "marker", Marker(n)) /\ Marker(n) \in File
  BY <1>1, <1>2, Members DEF Entry
<1>5. dir'["live"] = dir["live"] /\ dir'["old"] = dir["old"] /\ dir'["marker"] = Marker(n)
  BY <1>2, <1>4, PutName, NameMembers
<1>6. Recovered(dir') = Recovered(dir) /\ Recovered(dir) = dir["live"]
  BY <1>2, <1>5 DEF Recovered, Plain
<1>7. \A im \in images : Recovered(im) = dir["live"]
  <2>1. Settled
    BY <1>1, Closed DEF Open
  <2>2. ASSUME NEW im \in images PROVE Recovered(im) = Recovered(dir')
    <3>1. Version(im) = Version(dir')
      BY <1>6, <2>1 DEF Settled, Version
    <3>2. dir' \in images'
      BY <1>4
    <3>. QED
      BY <3>1, <3>2, SameVersion DEF IInv
  <2>. QED
    BY <1>6, <2>2
<1>8. \A im \in images' : Recovered(im) = dir["live"]
  BY <1>4, <1>6, <1>7
<1>9. ArtKept
  BY SameKeep
<1>10. Owes' /\ Skips'
  <2>1. \A k : Found(k)' => Found(k)
    BY <1>2, <1>6, <1>8 DEF Found
  <2>. QED
    BY <1>9, <2>1, FrameFound
<1>11. Untouched'
  <2>1. ASSUME NEW im \in images', NEW k \in Attempt, im["marker"] = Marker(k)
        PROVE  Unserved(k)'
    <3>1. CASE im \in images
      BY <2>1, <3>1 DEF StartInv, Untouched, Unserved
    <3>2. CASE im = dir'
      BY <1>1, <1>5, <2>1, <3>2, Files DEF PlaceInv, Unserved
    <3>. QED
      BY <1>4, <3>1, <3>2
  <2>2. \A im \in images' : Recovered(im) = None => store'[0] = Fresh
    BY <1>2, <1>7, <1>8 DEF StartInv, Untouched
  <2>3. \A k \in Attempt : tx'[k].hadLive => text'[k] # "none"
    BY <1>3 DEF StartInv, Untouched
  <2>. QED
    BY <2>1, <2>2, <2>3 DEF Untouched, Fresh
<1>12. RestoreLosesNothing'
  <2>1. ASSUME NEW k \in 1..n, Lost(k)' PROVE tx'[k] = tx[k] /\ Lost(k)
    <3>1. k # n
      BY <1>3, <1>8, <2>1 DEF Lost
    <3>2. k \in Attempt
      BY <1>2, RestoreAssumption DEF Attempt
    <3>3. tx'[k] = tx[k]
      BY <1>3, <3>1, <3>2
    <3>. QED
      BY <1>2, <1>7, <1>8, <2>1, <3>3 DEF Lost
  <2>. QED
    BY <1>1, <1>9, <2>1, LostHeld, FrameLost DEF ArtKept, StartInv
<1>13. PlaceInv'
  <2>1. dir["live"] # None => Held("SAFETY", dir["live"][2])
    BY <1>1 DEF PlaceInv
  <2>2. PICK o \in {dir["live"][2]} : dir["live"] # None => Held("SAFETY", o)
    BY <2>1
  <2>3. dir["live"] # None => Held("SAFETY", o)'
    BY <2>2, <1>9, HeldKept DEF ArtKept
  <2>4. tx'[n'].original[2] = o
    BY <1>1, <1>3, <2>2
  <2>5. tx'[n'].hadLive => Held("SAFETY", tx[n].original[2])'
    BY <1>1, <1>3, <2>3, <2>4
  <2>. QED
    BY <1>1, <2>5 DEF PlaceInv
<1>. QED
  BY <1>10, <1>11, <1>12, <1>13 DEF StartInv

\* With no operation under way there is nothing it relies on.
LEMMA NoJob == ASSUME job' = Idle PROVE JobInv' /\ MadeInv'
BY IdleIs DEF JobInv, MadeInv, Making, Pruning

\* A restore and its recovery keep the invariant.
LEMMA RestoreStepKeeps == ASSUME Ordered, IInv, IInv', BInv, RestoreStep PROVE BInv'
<1>1. UNCHANGED <<store, art, job>> /\ job' = Idle
  BY DEF RestoreStep, backupVars
<1>2. BackupTypes'
  BY <1>1 DEF BInv, BackupTypes, Used, Unused
<1>3. JobInv' /\ MadeInv'
  BY <1>1, NoJob
<1>4. ArtKept /\ TypeInv /\ BackupTypes /\ PlaceInv /\ StartInv
  BY <1>1, SameKeep DEF BInv, IInv
<1>5. CASE CreateDatabase
  BY <1>1, <1>2, <1>3, <1>4, <1>5, CreateDatabaseKeeps DEF BInv
<1>6. CASE CreateMarker
  BY <1>1, <1>2, <1>3, <1>4, <1>6, CreateMarkerKeeps DEF BInv
<1>7. CASE Recovers \/ Installs \/ Serve
  <2>1. MarkersKept
    BY <1>4, <1>7, RestoreMarkers
  <2>2. PlaceInv' /\ TextKept /\ tx' = tx /\ n' = n
    BY <1>1, <1>4, <1>7, RestorePlaces, PlaceKept DEF ArtKept
  <2>3. CASE FoundKept
    <3>1. StartInv'
      BY <1>1, <1>2, <1>4, <2>1, <2>2, <2>3, Frame
    <3>. QED
      BY <1>2, <1>3, <2>2, <3>1 DEF BInv
  <2>4. CASE Unreplaced
    BY <2>3, <2>4, UnreplacedFound
  <2>5. CASE pc = "link" /\ Entry("live", Db(n)) /\ LinkRestored
    <3>1. text' = text
      BY <2>5 DEF LinkRestored, Step, Goto
    <3>2. StartInv'
      BY <1>1, <1>2, <1>4, <2>1, <2>2, <2>5, <3>1, LinkKeeps
    <3>. QED
      BY <1>2, <1>3, <2>2, <3>2 DEF BInv
  <2>6. Recovers => Unreplaced
    BY MapsRecovery DEF Recovers
  <2>7. Serve => Unreplaced
    BY MapsSync DEF Serve, Step, Goto
  <2>8. Installs => Unreplaced \/ (pc = "link" /\ Entry("live", Db(n)))
    BY MapsInstall DEF Installs
  <2>9. Installs /\ pc = "link" => LinkRestored \/ LinkFails
    BY DEF Installs, WriteMarker, RetainOriginal, Finalize, InstallFails, Step, Installing,
           Recovering
  <2>10. LinkFails => Unreplaced
    BY MapsQuiet DEF LinkFails
  <2>. QED
    BY <1>7, <2>4, <2>5, <2>6, <2>7, <2>8, <2>9, <2>10
<1>. QED
  BY <1>5, <1>6, <1>7 DEF RestoreStep, Recovers, Installs

-----------------------------------------------------------------------------
(***************************************************************************)
(* The steps of the manager.                                               *)
(***************************************************************************)

\* A step that leaves the data directory, the databases and what covers them.
LEMMA QuietKeeps ==
    ASSUME StartInv, BackupTypes', ArtKept, UNCHANGED <<dir, images, text, tx, n, store>>
    PROVE  StartInv'
<1>1. FoundKept /\ MarkersKept /\ TextKept
  BY DEF FoundKept, MarkersKept, TextKept
<1>. QED
  BY <1>1, Frame

\* The manager works while no installation is under way.
LEMMA QuietPlaces ==
    ASSUME PlaceInv, pc' \in {"ready", "serving", "off"}, dir' = dir,
           pc' = "serving" => pc = "serving"
    PROVE  PlaceInv'
BY DEF PlaceInv

\* An operation that ends leaves its program running or off.
LEMMA EndsPlaces ==
    ASSUME PlaceInv, Ends
    PROVE  /\ PlaceInv' /\ JobInv' /\ MadeInv' /\ job' = Idle
           /\ UNCHANGED <<dir, images, text, tx, n>>
BY NoJob, QuietPlaces DEF Ends, Goto

\* The types of an artifact that only gets another status.
LEMMA RestampedTypes ==
    ASSUME BackupTypes, Restamped, store' = store, job' \in Operation
    PROVE  BackupTypes'
<1>1. Used' = Used
  BY DEF Used, Unused, Restamped
<1>. QED
  BY <1>1 DEF BackupTypes, Restamped, Used

\* The types of a step that leaves the artifacts.
LEMMA SameTypes ==
    ASSUME BackupTypes, art' = art, job' \in Operation,
           store' \in [0..MaxRestores -> Row],
           \A k \in 0..MaxRestores : store'[k].last <= store'[k].revision
    PROVE  BackupTypes'
<1>1. Used' = Used
  BY DEF Used, Unused
<1>. QED
  BY <1>1 DEF BackupTypes

\* What the steps below read of the types.
LEMMA StateIs ==
    ASSUME BackupTypes, TypeInv
    PROVE  /\ store \in [0..MaxRestores -> Row] /\ art \in [Backup -> Artifact]
           /\ job \in Operation /\ job.id \in Backup /\ job.class \in Class
           /\ dir["live"] # None => /\ Live \in 0..MaxRestores /\ State \in Row
                                    /\ State.revision \in Nat /\ State.last \in Nat
                                    /\ State.last <= State.revision
<1>1. dir["live"] # None => Live \in 0..MaxRestores
  BY FoundIs
<1>2. \A k \in 0..MaxRestores : /\ store[k] \in Row /\ store[k].revision \in Nat
                                /\ store[k].last \in Nat /\ store[k].last <= store[k].revision
  BY DEF BackupTypes, Row
<1>. QED
  BY <1>1, <1>2 DEF BackupTypes, Operation, State

\* An operation begins: the scheduler's, or one of a program that was started for it.
LEMMA BeginKeeps ==
    ASSUME IInv, BInv, Scheduled \/ CreateManual \/ \E b \in Backup : RestoreBackup(b)
    PROVE  BInv'
<1>1. UNCHANGED <<dir, images, text, tx, n, pc, store, art>>
  BY DEF Scheduled, CreateManual, RestoreBackup, vars
<1>2. TypeInv /\ BackupTypes /\ PlaceInv /\ StartInv
  BY DEF BInv, IInv
<1>3. job \in Operation /\ Live' = Live /\ State' = State
  BY <1>1, <1>2 DEF BackupTypes, Live, State
<1>4. ASSUME Scheduled PROVE JobInv' /\ MadeInv' /\ job' \in Operation
  <2>1. /\ pc = "serving" /\ job = Idle /\ (State.revision # State.last \/ State.debt)
        /\ Goes(IF State.revision = State.last THEN "prune" ELSE "snapshot")
    BY <1>4 DEF Scheduled
  <2>2. PICK s \in {"prune", "snapshot"} :
              s = IF State.revision = State.last THEN "prune" ELSE "snapshot"
    OBVIOUS
  <2>3. Goes(s)
    BY <2>1, <2>2
  <2>4. job' \in Operation /\ job'.step = s /\ job'.class = "HOURLY"
    BY <1>3, <2>1, <2>3, IdleIs, OperationIs DEF Stage, Class
  <2>5. dir["live"] # None
    BY <1>2, <2>1 DEF PlaceInv
  <2>6. s = "snapshot" => State.last < State.revision
    BY <1>2, <2>2, <2>5, StateIs
  <2>7. s = "prune" => State.debt
    BY <2>1, <2>2
  <2>8. JobInv'
    BY <1>1, <1>3, <2>1, <2>4, <2>5, <2>6, <2>7 DEF JobInv, Making, Pruning
  <2>9. MadeInv'
    BY <2>4 DEF MadeInv, Making
  <2>. QED
    BY <2>4, <2>8, <2>9
<1>5. ASSUME CreateManual PROVE JobInv' /\ MadeInv' /\ job' \in Operation
  <2>1. pc = "ready" /\ dir["live"] # None
        /\ job' = [Idle EXCEPT !.step = "snapshot", !.class = "MANUAL"]
    BY <1>5 DEF CreateManual
  <2>2. job' \in Operation /\ job'.step = "snapshot" /\ job'.class = "MANUAL"
    BY <1>3, <2>1, OperationIs DEF Stage, Class
  <2>3. JobInv'
    BY <1>1, <2>1, <2>2 DEF JobInv, Making, Pruning
  <2>4. MadeInv'
    BY <2>2 DEF MadeInv, Making
  <2>. QED
    BY <2>2, <2>3, <2>4
<1>6. ASSUME NEW b \in Backup, RestoreBackup(b)
      PROVE  JobInv' /\ MadeInv' /\ job' \in Operation
  <2>1. PICK s \in {"prepared", "snapshot"} :
              s = IF dir["live"] = None THEN "prepared" ELSE "snapshot"
    OBVIOUS
  <2>2. pc = "ready" /\ job' = [Idle EXCEPT !.step = s, !.class = "SAFETY", !.target = b]
    BY <1>6, <2>1 DEF RestoreBackup
  <2>3. job' \in Operation /\ job'.step = s /\ job'.class = "SAFETY"
    BY <1>3, <2>2, OperationIs DEF Stage, Class
  <2>4. JobInv'
    BY <1>1, <2>1, <2>2, <2>3 DEF JobInv, Making, Pruning
  <2>5. MadeInv'
    BY <2>3 DEF MadeInv, Making
  <2>. QED
    BY <2>3, <2>4, <2>5
<1>7. JobInv' /\ MadeInv' /\ job' \in Operation
  BY <1>4, <1>5, <1>6
<1>8. BackupTypes'
  BY <1>1, <1>2, <1>7, SameTypes DEF BackupTypes
<1>9. pc \in {"ready", "serving"} /\ PlaceInv'
  BY <1>1, <1>2, QuietPlaces DEF Scheduled, CreateManual, RestoreBackup
<1>10. StartInv'
  BY <1>1, <1>2, <1>8, SameKeep, QuietKeeps
<1>. QED
  BY <1>7, <1>8, <1>9, <1>10 DEF BInv

\* The operation under way, and where the program is meanwhile.
LEMMA Working ==
    ASSUME IInv, BInv, job.step # "idle"
    PROVE  /\ TypeInv /\ BackupTypes /\ JobInv /\ MadeInv /\ PlaceInv /\ StartInv
           /\ pc \in {"ready", "serving"} /\ (job.class = "HOURLY" <=> pc = "serving")
BY DEF IInv, BInv, JobInv

\* A snapshot of the database in place is staged.
LEMMA SnapshotKeeps == ASSUME IInv, BInv, Snapshot PROVE BInv'
<1>1. job.step = "snapshot" /\ Unused # {} /\ UNCHANGED <<dir, images, text, tx, n, pc, store>>
  BY DEF Snapshot, vars
<1>2. /\ TypeInv /\ BackupTypes /\ JobInv /\ PlaceInv /\ StartInv /\ dir["live"] # None
      /\ pc \in {"ready", "serving"} /\ (job.class = "HOURLY" <=> pc = "serving")
  BY <1>1, Working DEF JobInv
<1>. DEFINE a == Stamped(job.class)
<1>3. PICK b \in Unused : /\ art' = [art EXCEPT ![b] = a]
                          /\ job' = [job EXCEPT !.step = "staged", !.id = b]
  BY <1>1 DEF Snapshot
<1>4. IsFiniteSet(Used) /\ Cardinality(Used) \in Nat
  BY <1>2, FS_CardinalityType DEF BackupTypes
<1>5. /\ a \in Artifact /\ a.status = "staged" /\ a.class = job.class /\ a.db = Live
      /\ a.revision = State.revision /\ a.at = Cardinality(Used) + 1
  <2>1. Live \in 0..(MaxRestores + 1) /\ State.revision \in Nat /\ job.class \in Class
    BY <1>2, StateIs, RestoreAssumption
  <2>2. Cardinality(Backup \ Unused) + 1 \in Nat
    BY <1>4 DEF Used
  <2>. QED
    BY <2>1, <2>2 DEF Stamped, Artifact, Used
<1>. HIDE DEF a
<1>6. /\ b \in Backup /\ b \notin Used /\ art'[b] = a
      /\ \A x \in Backup : x # b => art'[x] = art[x]
  BY <1>2, <1>3 DEF BackupTypes, Used, Unused
<1>7. job' \in Operation /\ job'.step = "staged" /\ job'.class = job.class /\ job'.id = b
  BY <1>2, <1>3, <1>6, OperationIs DEF BackupTypes, Stage, Class
<1>8. Used' = Used \cup {b}
  BY <1>5, <1>6 DEF Used, Unused
<1>9. IsFiniteSet(Used') /\ Cardinality(Used') = Cardinality(Used) + 1
  BY <1>4, <1>6, <1>8, FS_AddElement
<1>10. \A x \in Used : x \in Backup /\ x # b /\ art'[x] = art[x] /\ art[x].at \in Nat
                       /\ art[x].at <= Cardinality(Used)
  BY <1>2, <1>6 DEF Used, BackupTypes, Artifact
<1>11. BackupTypes'
  <2>1. art' \in [Backup -> Artifact]
    BY <1>2, <1>3, <1>5 DEF BackupTypes
  <2>2. \A x \in Used' : art'[x].at <= Cardinality(Used')
    BY <1>4, <1>5, <1>6, <1>8, <1>9, <1>10
  <2>. QED
    BY <1>1, <1>2, <1>7, <1>9, <2>1, <2>2 DEF BackupTypes
<1>12. Live' = Live /\ State' = State
  BY <1>1 DEF Live, State
<1>13. JobInv'
  BY <1>1, <1>2, <1>7, <1>12 DEF JobInv, Making, Pruning
<1>14. MadeInv'
  <2>1. art'[b].revision <= State.revision
    BY <1>2, <1>5, <1>6, StateIs
  <2>2. \A x \in Used' : x # b => art'[x].at < art'[b].at
    BY <1>4, <1>5, <1>6, <1>8, <1>10
  <2>. QED
    BY <1>5, <1>6, <1>7, <1>12, <2>1, <2>2 DEF MadeInv
<1>15. StartInv'
  BY <1>1, <1>2, <1>3, <1>5, <1>11, StagedKeep, QuietKeeps
<1>. QED
  BY <1>1, <1>2, <1>11, <1>13, <1>14, <1>15, QuietPlaces DEF BInv

\* A safety artifact that is durable keeps its database.
LEMMA SafetyStays ==
    ASSUME Restamped, \A b \in Durable("SAFETY") : art'[b].status = "durable"
    PROVE  SafetyKept
BY DEF Restamped, SafetyKept, Durable

\* The artifact under way remains what it is while it is published and synced.
LEMMA MadeKept ==
    ASSUME MadeInv, job.step \in {"staged", "published"}, job.id \in Backup, Restamped,
           job'.id = job.id, job'.class = job.class, Live' = Live, State' = State,
           job'.step \in {"published", "mark"},
           art'[job.id].status = IF job'.step = "mark" THEN "durable" ELSE job'.step
    PROVE  MadeInv'
<1>. DEFINE i == job.id
<1>1. /\ art[i].class = job.class /\ art[i].db = Live /\ art[i].revision <= State.revision
      /\ job.class # "HOURLY" => art[i].revision = State.revision
      /\ \A x \in Used : x # i => art[x].at < art[i].at
  BY DEF MadeInv, Making
<1>2. /\ art'[i].class = art[i].class /\ art'[i].db = art[i].db
      /\ art'[i].revision = art[i].revision /\ art'[i].at = art[i].at
  BY DEF Restamped
<1>3. \A x \in Used' : x \in Used /\ art'[x].at = art[x].at
  BY DEF Restamped, Used, Unused
<1>4. /\ art'[i].class = job'.class /\ art'[i].db = Live' /\ art'[i].revision <= State'.revision
      /\ job'.class # "HOURLY" => art'[i].revision = State'.revision
  BY <1>1, <1>2
<1>5. \A x \in Used' : x # i => art'[x].at < art'[i].at
  BY <1>1, <1>2, <1>3
<1>6. job'.id = i /\ art'[i].status = IF job'.step = "mark" THEN "durable" ELSE job'.step
  OBVIOUS
<1>. HIDE DEF i
<1>. QED
  BY <1>4, <1>5, <1>6 DEF MadeInv

\* The staged artifact is published.  An hourly one shows up while the watermark is behind.
LEMMA PublishKeeps == ASSUME IInv, BInv, Publish PROVE BInv'
<1>1. /\ job.step = "staged" /\ UNCHANGED <<dir, images, text, tx, n, pc, store>>
      /\ Status(job.id, "published") /\ Goes("published")
  BY DEF Publish, vars
<1>2. /\ TypeInv /\ BackupTypes /\ JobInv /\ MadeInv /\ PlaceInv /\ StartInv
      /\ pc \in {"ready", "serving"} /\ (job.class = "HOURLY" <=> pc = "serving")
  BY <1>1, Working
<1>3. /\ job' \in Operation /\ job'.step = "published" /\ job'.class = job.class
      /\ job'.id = job.id /\ job.id \in Backup
  BY <1>1, <1>2, OperationIs, StateIs DEF BackupTypes, Stage
<1>4. /\ art[job.id].status = "staged" /\ art[job.id].class = job.class /\ dir["live"] # None
      /\ job.class = "HOURLY" => State.last < State.revision
  BY <1>1, <1>2 DEF MadeInv, JobInv, Making
<1>5. /\ Restamped /\ art'[job.id].status = "published"
      /\ \A x \in Backup : x # job.id => art'[x] = art[x]
  BY <1>1, <1>2, <1>3, <1>4, StatusIs DEF BackupTypes
<1>6. BackupTypes'
  BY <1>1, <1>2, <1>3, <1>5, RestampedTypes
<1>7. Live' = Live /\ State' = State
  BY <1>1 DEF Live, State
<1>8. JobInv'
  BY <1>1, <1>2, <1>3, <1>4, <1>7 DEF JobInv, Making, Pruning
<1>9. MadeInv'
  BY <1>1, <1>2, <1>3, <1>5, <1>7, MadeKept
<1>10. \A c : \A b \in Durable(c) : b # job.id /\ art'[b].status = "durable"
  BY <1>4, <1>5 DEF Durable
<1>11. StartInv'
  <2>1. CASE job.class = "HOURLY"
    <3>1. SafetyKept
      BY <1>5, <1>10, SafetyStays
    <3>2. Live \in 0..MaxRestores /\ State.revision \in Nat
      BY <1>2, <1>4, StateIs
    <3>3. store'[Live].last < store'[Live].revision /\ store'[Live].last # store'[Live].revision
      BY <1>1, <1>2, <1>4, <2>1, <3>2, StateIs DEF State
    <3>. QED
      BY <1>1, <1>2, <1>4, <2>1, <3>1, <3>3, ServedStep
  <2>2. CASE job.class # "HOURLY"
    <3>1. \A x \in Backup : art'[x].class = art[x].class
      BY <1>5 DEF Restamped
    <3>2. Outlives' \subseteq Outlives
      BY <1>3, <1>4, <1>5, <2>2, <3>1 DEF Outlives
    <3>3. Hourly' \subseteq Hourly
      BY <1>3, <1>4, <1>5, <2>2, <3>1 DEF Hourly, Listed, Verifies
    <3>4. Clean => \A x \in Backup : art'[x].status # "removing"
      BY <1>5 DEF Clean
    <3>5. ArtKept
      BY <1>2, <1>5, <1>10, <3>2, <3>3, <3>4, StatusesKeep
    <3>. QED
      BY <1>1, <1>2, <1>6, <3>5, QuietKeeps
  <2>. QED
    BY <2>1, <2>2
<1>. QED
  BY <1>1, <1>2, <1>6, <1>8, <1>9, <1>11, QuietPlaces DEF BInv

\* The backup directory is synced: the artifact is durable.
LEMMA SyncPublishedKeeps == ASSUME Ordered, IInv, BInv, SyncPublished PROVE BInv'
<1>1. job.step = "published" /\ art' = Synced /\ Created /\ store' = store
  BY DEF SyncPublished
<1>2. /\ TypeInv /\ BackupTypes /\ JobInv /\ MadeInv /\ PlaceInv /\ StartInv
      /\ pc \in {"ready", "serving"} /\ (job.class = "HOURLY" <=> pc = "serving")
      /\ job.id \in Backup /\ job \in Operation
  BY <1>1, Working, StateIs
<1>3. /\ Restamped /\ ArtKept
      /\ \A b \in Backup : art[b].status = "published" => art'[b].status = "durable"
  BY <1>1, <1>2, SyncedIs, SyncedKeep DEF BackupTypes
<1>4. /\ dir["live"] # None
      /\ job.class = "HOURLY" => State.last < State.revision
      /\ art[job.id].status = "published" /\ art[job.id].class = job.class
      /\ art[job.id].db = Live /\ (job.class # "HOURLY" => art[job.id].revision = State.revision)
  BY <1>1, <1>2 DEF MadeInv, JobInv, Making
<1>5. ASSUME UNCHANGED <<dir, images, text, tx, n>>, job' \in Operation,
             JobInv', MadeInv', PlaceInv'
      PROVE  BInv'
  <2>1. BackupTypes'
    BY <1>1, <1>2, <1>3, <1>5, RestampedTypes
  <2>2. StartInv'
    BY <1>1, <1>2, <1>3, <1>5, <2>1, QuietKeeps
  <2>. QED
    BY <1>5, <2>1, <2>2 DEF BInv
<1>6. CASE job.class = "HOURLY" /\ Goes("mark") /\ UNCHANGED vars
  <2>1. /\ job' \in Operation /\ job'.step = "mark" /\ job'.class = "HOURLY" /\ job'.id = job.id
        /\ UNCHANGED <<dir, images, text, tx, n, pc>>
    BY <1>2, <1>6, OperationIs DEF Stage, vars
  <2>2. Live' = Live /\ State' = State
    BY <1>1, <2>1 DEF Live, State
  <2>3. JobInv'
    BY <1>2, <1>4, <1>6, <2>1, <2>2 DEF JobInv, Making, Pruning
  <2>4. MadeInv'
    <3>1. art'[job.id].status = IF job'.step = "mark" THEN "durable" ELSE job'.step
      BY <1>2, <1>3, <1>4, <2>1
    <3>. QED
      BY <1>1, <1>2, <1>3, <1>6, <2>1, <2>2, <3>1, MadeKept
  <2>. QED
    BY <1>2, <1>5, <2>1, <2>3, <2>4, QuietPlaces
<1>7. CASE job.class = "SAFETY" /\ Goes("prepared") /\ UNCHANGED vars
  <2>1. /\ job' \in Operation /\ job'.step = "prepared" /\ job'.class = "SAFETY"
        /\ UNCHANGED <<dir, images, text, tx, n, pc>>
    BY <1>2, <1>7, OperationIs DEF Stage, vars
  <2>2. Live' = Live /\ State' = State
    BY <1>1, <2>1 DEF Live, State
  <2>3. Held("SAFETY", Live)'
    <3>1. job.id \in Durable("SAFETY")' /\ art'[job.id].db = Live
          /\ art'[job.id].revision = State.revision
      BY <1>2, <1>3, <1>4, <1>7 DEF Durable, Restamped
    <3>. QED
      BY <2>2, <3>1 DEF Held, Holds, State
  <2>4. JobInv'
    BY <1>2, <1>7, <2>1, <2>3 DEF JobInv, Making, Pruning
  <2>5. MadeInv'
    BY <2>1 DEF MadeInv, Making
  <2>. QED
    BY <1>2, <1>5, <2>1, <2>4, <2>5, QuietPlaces
<1>8. CASE Ends
  BY <1>2, <1>5, <1>8, EndsPlaces, IdleIs
<1>. QED
  BY <1>1, <1>6, <1>7, <1>8 DEF Created

\* Any step returns an error.
LEMMA FailKeeps == ASSUME IInv, BInv, Fail PROVE BInv'
<1>1. Ends /\ art' = Abandoned /\ store' = store
  BY DEF Fail
<1>2. BackupTypes /\ PlaceInv /\ StartInv
  BY DEF BInv
<1>3. /\ PlaceInv' /\ JobInv' /\ MadeInv' /\ job' \in Operation
      /\ UNCHANGED <<dir, images, text, tx, n>>
  BY <1>1, <1>2, EndsPlaces, IdleIs
<1>4. ArtKept /\ Restamped
  BY <1>1, <1>2, LostKeep
<1>5. BackupTypes'
  BY <1>1, <1>2, <1>3, <1>4, RestampedTypes
<1>6. StartInv'
  BY <1>1, <1>2, <1>3, <1>4, <1>5, QuietKeeps
<1>. QED
  BY <1>3, <1>5, <1>6 DEF BInv

\* The process dies, and what was staged with it.
LEMMA KilledKeeps == ASSUME BInv, Killed PROVE BInv'
<1>1. /\ pc' = "off" /\ art' = Abandoned /\ job' = Idle
      /\ UNCHANGED <<dir, images, text, tx, n, store>>
  BY DEF Killed, Crash, Goto
<1>2. BackupTypes /\ PlaceInv /\ StartInv
  BY DEF BInv
<1>3. ArtKept /\ Restamped
  BY <1>1, <1>2, LostKeep
<1>4. BackupTypes'
  BY <1>1, <1>2, <1>3, RestampedTypes, IdleIs
<1>5. StartInv'
  BY <1>1, <1>2, <1>3, <1>4, QuietKeeps
<1>. QED
  BY <1>1, <1>2, <1>4, <1>5, NoJob, QuietPlaces DEF BInv

\* The machine loses power.
LEMMA MachineStopsKeeps == ASSUME IInv, BInv, MachineStops PROVE BInv'
<1>1. /\ pc' = "off" /\ job' = Idle /\ dir' \in images /\ images' = {dir'}
      /\ UNCHANGED <<tx, n, store>>
  BY DEF MachineStops, PowerLoss
<1>2. BackupTypes /\ StartInv
  BY DEF BInv
<1>3. ArtKept /\ Restamped
  BY <1>2, LostKeep
<1>4. BackupTypes'
  BY <1>1, <1>2, <1>3, RestampedTypes, IdleIs
<1>5. TextKept
  <2>1. PICK torn \in SUBSET {k \in Attempt : text[k] = "written"} :
           text' = [k \in Attempt |-> IF k \in torn THEN "empty" ELSE
                       IF text[k] = "written" THEN "synced" ELSE text[k]]
    BY DEF MachineStops, PowerLoss
  <2>. QED
    BY <2>1 DEF TextKept
<1>6. FoundKept /\ MarkersKept
  BY <1>1 DEF FoundKept, MarkersKept
<1>7. StartInv'
  BY <1>1, <1>2, <1>3, <1>4, <1>5, <1>6, Frame
<1>8. PlaceInv'
  BY <1>1 DEF PlaceInv
<1>. QED
  BY <1>1, <1>4, <1>7, <1>8, NoJob DEF BInv

\* The row of the served database gets another value.
LEMMA SetStateIs ==
    ASSUME BackupTypes, TypeInv, dir["live"] # None, dir' = dir,
           NEW s \in Row, s.last <= s.revision, SetState(s)
    PROVE  /\ store' \in [0..MaxRestores -> Row] /\ store'[Live] = s /\ State' = s
           /\ \A k \in 0..MaxRestores : k # Live => store'[k] = store[k]
           /\ \A k \in 0..MaxRestores : store'[k].last <= store'[k].revision
           /\ Live' = Live
<1>1. store \in [0..MaxRestores -> Row] /\ Live \in 0..MaxRestores
  BY StateIs
<1>2. store' = [store EXCEPT ![Live] = s]
  BY DEF SetState
<1>3. store'[Live] = s /\ \A k \in 0..MaxRestores : k # Live => store'[k] = store[k]
  BY <1>1, <1>2
<1>4. Live' = Live
  BY DEF Live
<1>5. State' = s
  BY <1>3, <1>4 DEF State
<1>6. \A k \in 0..MaxRestores : store'[k].last <= store'[k].revision
  BY <1>3 DEF BackupTypes
<1>. QED
  BY <1>1, <1>2, <1>3, <1>4, <1>5, <1>6

\* The watermark is set to what the artifact holds, and retention is due.
LEMMA MarkKeeps == ASSUME IInv, BInv, MarkAutomaticRevision PROVE BInv'
<1>. DEFINE r == art[job.id].revision
            s == [State EXCEPT !.last = IF State.revision = r THEN r ELSE @, !.debt = TRUE]
<1>1. /\ job.step = "mark" /\ Goes("prune") /\ SetState(s)
      /\ UNCHANGED <<dir, images, text, tx, n, pc, art>>
  BY DEF MarkAutomaticRevision, vars
<1>2. /\ TypeInv /\ BackupTypes /\ JobInv /\ MadeInv /\ PlaceInv /\ StartInv
      /\ job.class = "HOURLY" /\ pc = "serving" /\ dir["live"] # None
      /\ job.id \in Backup /\ job \in Operation
  BY <1>1, Working, StateIs DEF JobInv
<1>3. /\ job' \in Operation /\ job'.step = "prune" /\ job'.class = "HOURLY"
  BY <1>1, <1>2, OperationIs DEF Stage
<1>4. /\ State \in Row /\ State.revision \in Nat /\ State.last \in Nat /\ State.last < State.revision
      /\ r <= State.revision /\ Live \in 0..MaxRestores
  BY <1>1, <1>2, StateIs DEF JobInv, Making, MadeInv
<1>5. r \in Nat
  BY <1>2 DEF BackupTypes, Artifact
<1>6. /\ s \in Row /\ s.debt = TRUE /\ s.revision = State.revision
      /\ s.last = IF State.revision = r THEN r ELSE State.last
  BY <1>4, <1>5 DEF Row
<1>. HIDE DEF s, r
<1>7. s.last <= s.revision
  BY <1>4, <1>5, <1>6
<1>8. /\ store' \in [0..MaxRestores -> Row] /\ store'[Live] = s /\ State' = s /\ Live' = Live
      /\ \A k \in 0..MaxRestores : k # Live => store'[k] = store[k]
      /\ \A k \in 0..MaxRestores : store'[k].last <= store'[k].revision
  BY <1>1, <1>2, <1>6, <1>7, SetStateIs
<1>9. BackupTypes'
  BY <1>1, <1>2, <1>3, <1>8, SameTypes
<1>10. JobInv'
  BY <1>1, <1>2, <1>3, <1>6, <1>8 DEF JobInv, Making, Pruning
<1>11. MadeInv'
  BY <1>3 DEF MadeInv, Making
<1>12. s.last = s.revision => \E b \in Durable("HOURLY")' : Holds(b, Live)' /\ Newest(b)'
  <2>1. PICK b \in {job.id} : TRUE
    OBVIOUS
  <2>2. /\ art[b].status = "durable" /\ art[b].class = "HOURLY" /\ art[b].db = Live
        /\ art[b].revision = r /\ b \in Backup
        /\ \A x \in Used : x # b => art[x].at < art[b].at
    BY <1>1, <1>2 DEF MadeInv, Making, r
  <2>3. art' = art /\ Outlives' = Outlives
    BY <1>1 DEF Outlives
  <2>4. Newest(b)'
    <3>. SUFFICES ASSUME NEW x \in Outlives PROVE art[x].at <= art[b].at
      BY <2>3 DEF Newest
    <3>1. x \in Used /\ art[b].at \in Nat /\ art[x].at \in Nat
      BY <1>2, <2>2, HourlyFinite DEF Used
    <3>. QED
      BY <2>2, <3>1
  <2>5. s.last = s.revision => State.revision = r
    BY <1>4, <1>6
  <2>6. s.last = s.revision => Holds(b, Live)'
    BY <1>6, <1>8, <2>2, <2>3, <2>5 DEF Holds
  <2>7. b \in Durable("HOURLY")'
    BY <2>2, <2>3 DEF Durable
  <2>. QED
    BY <2>4, <2>6, <2>7
<1>13. SafetyKept
  BY <1>1, SameKeep DEF ArtKept
<1>14. StartInv'
  BY <1>1, <1>2, <1>6, <1>8, <1>12, <1>13, ServedStep
<1>. QED
  BY <1>1, <1>2, <1>9, <1>10, <1>11, <1>14, QuietPlaces DEF BInv

\* Nothing is left to prune: the debt is paid.
LEMMA ClearKeeps == ASSUME IInv, BInv, ClearRetentionPending PROVE BInv'
<1>. DEFINE s == [State EXCEPT !.debt = FALSE]
<1>1. job.step = "clear" /\ Ends /\ SetState(s) /\ art' = art
  BY DEF ClearRetentionPending
<1>2. /\ TypeInv /\ BackupTypes /\ JobInv /\ PlaceInv /\ StartInv
      /\ pc = "serving" /\ dir["live"] # None /\ Clean
  BY <1>1, Working DEF JobInv, Pruning
<1>3. /\ PlaceInv' /\ JobInv' /\ MadeInv' /\ job' \in Operation
      /\ UNCHANGED <<dir, images, text, tx, n>>
  BY <1>1, <1>2, EndsPlaces, IdleIs
<1>4. State \in Row /\ State.last <= State.revision /\ Found(Live) /\ Live \in 0..MaxRestores
  BY <1>2, StateIs, FoundIs
<1>5. /\ s \in Row /\ s.last = State.last /\ s.revision = State.revision
  BY <1>4 DEF Row
<1>. HIDE DEF s
<1>6. /\ store' \in [0..MaxRestores -> Row] /\ store'[Live] = s /\ Live' = Live
      /\ \A k \in 0..MaxRestores : k # Live => store'[k] = store[k]
      /\ \A k \in 0..MaxRestores : store'[k].last <= store'[k].revision
  BY <1>1, <1>2, <1>3, <1>4, <1>5, SetStateIs
<1>7. BackupTypes'
  BY <1>1, <1>2, <1>3, <1>6, SameTypes
<1>8. ArtKept /\ Clean'
  BY <1>1, <1>2, SameKeep DEF ArtKept
<1>9. s.last = s.revision => \E b \in Durable("HOURLY")' : Holds(b, Live)' /\ Newest(b)'
  <2>. SUFFICES ASSUME s.last = s.revision
                PROVE  \E b \in Durable("HOURLY")' : Holds(b, Live)' /\ Newest(b)'
    OBVIOUS
  <2>1. PICK b \in Durable("HOURLY") : Holds(b, Live) /\ Newest(b)
    BY <1>2, <1>4, <1>5 DEF StartInv, Skips, State
  <2>2. b \in Durable("HOURLY")' /\ Newest(b)'
    BY <1>8, <2>1 DEF ArtKept, CoverKept
  <2>3. Holds(b, Live)'
    BY <1>1, <1>4, <1>5, <1>6, <2>1 DEF Holds, State
  <2>. QED
    BY <2>2, <2>3
<1>10. StartInv'
  BY <1>2, <1>3, <1>6, <1>8, <1>9, ServedStep DEF ArtKept
<1>. QED
  BY <1>3, <1>7, <1>10 DEF BInv

\* A write makes a change that the watermark does not cover.
LEMMA WriteKeeps == ASSUME IInv, BInv, Write PROVE BInv'
<1>. DEFINE s == [State EXCEPT !.revision = @ + 1]
<1>1. pc = "serving" /\ SetState(s) /\ UNCHANGED <<dir, images, text, tx, n, pc, art, job>>
  BY DEF Write, vars
<1>2. /\ TypeInv /\ BackupTypes /\ JobInv /\ MadeInv /\ PlaceInv /\ StartInv
      /\ dir["live"] # None
  BY <1>1 DEF BInv, IInv, PlaceInv
<1>3. /\ State \in Row /\ State.revision \in Nat /\ State.last \in Nat
      /\ State.last <= State.revision /\ job \in Operation
  BY <1>2, StateIs
<1>4. s \in Row /\ s.last = State.last /\ s.revision = State.revision + 1 /\ s.debt = State.debt
  BY <1>3 DEF Row
<1>. HIDE DEF s
<1>5. s.last < s.revision /\ s.last <= s.revision /\ s.last # s.revision
  BY <1>3, <1>4
<1>6. /\ store' \in [0..MaxRestores -> Row] /\ store'[Live] = s /\ State' = s /\ Live' = Live
      /\ \A k \in 0..MaxRestores : k # Live => store'[k] = store[k]
      /\ \A k \in 0..MaxRestores : store'[k].last <= store'[k].revision
  BY <1>1, <1>2, <1>4, <1>5, SetStateIs
<1>7. BackupTypes'
  BY <1>1, <1>2, <1>3, <1>6, SameTypes
<1>8. ArtKept
  BY <1>1, SameKeep
<1>9. JobInv'
  <2>1. job.step # "idle" => job.class = "HOURLY" /\ job.step # "prepared"
    BY <1>1, <1>2 DEF JobInv
  <2>2. job.step = "clear" => Clean'
    BY <1>2, <1>8 DEF JobInv, ArtKept
  <2>3. job' = job /\ art' = art /\ pc' = pc /\ dir' = dir
    BY <1>1
  <2>. QED
    BY <1>2, <1>4, <1>5, <1>6, <2>1, <2>2, <2>3 DEF JobInv, Pruning
<1>10. MadeInv'
  <2>. SUFFICES ASSUME job.step \in Making \ {"snapshot"} PROVE MadeInv'
    BY <1>1 DEF MadeInv
  <2>1. job.class = "HOURLY"
    BY <1>1, <1>2 DEF JobInv, Making
  <2>2. art[job.id].revision \in Nat /\ art[job.id].revision <= State.revision
    BY <1>2, StateIs DEF MadeInv, Artifact
  <2>3. art[job.id].revision <= s.revision
    BY <1>3, <1>4, <2>2
  <2>4. Used' = Used /\ art' = art /\ job' = job
    BY <1>1 DEF Used, Unused
  <2>. QED
    BY <1>2, <1>6, <2>1, <2>3, <2>4 DEF MadeInv
<1>11. StartInv'
  BY <1>1, <1>2, <1>5, <1>6, <1>8, ServedStep DEF ArtKept
<1>. QED
  BY <1>1, <1>2, <1>7, <1>9, <1>10, <1>11, QuietPlaces DEF BInv

\* Pruning removes artifacts that are not retained, and ends when there are none and no
\* unlinked one can come back.
LEMMA PruneKeeps == ASSUME Ordered, IInv, BInv, Prune PROVE BInv'
<1>1. /\ UNCHANGED <<dir, images, text, tx, n, pc, store>> /\ job.step \in {"prune", "remove"}
  BY DEF Prune, vars
<1>2. /\ TypeInv /\ BackupTypes /\ JobInv /\ PlaceInv /\ StartInv
      /\ job.class = "HOURLY" /\ pc = "serving" /\ dir["live"] # None /\ State.debt
      /\ job.id \in Backup /\ job \in Operation /\ art \in [Backup -> Artifact]
  BY <1>1, Working, StateIs DEF JobInv, Pruning
<1>3. Live' = Live /\ State' = State
  BY <1>1 DEF Live, State
<1>4. ASSUME job' \in Operation, Restamped, ArtKept, job'.class = "HOURLY",
             job'.step \in Pruning, job'.step = "clear" => Clean',
             job'.step = "remove" => art'[job'.id].class = "HOURLY" /\ art'[job'.id].status = "removing"
      PROVE  BInv'
  <2>1. JobInv'
    BY <1>1, <1>2, <1>3, <1>4 DEF JobInv, Pruning, Making
  <2>2. MadeInv'
    BY <1>4 DEF MadeInv, Making, Pruning
  <2>3. BackupTypes'
    BY <1>1, <1>2, <1>4, RestampedTypes
  <2>4. StartInv'
    BY <1>1, <1>2, <1>4, <2>3, QuietKeeps
  <2>. QED
    BY <1>1, <1>2, <2>1, <2>2, <2>3, <2>4, QuietPlaces DEF BInv
<1>5. ASSUME job.step = "prune", Hourly # Retained,
             LET b == CHOOSE x \in Hourly \ Retained : Newer(x) \subseteq Retained
             IN  Status(b, "removing") /\ job' = [job EXCEPT !.step = "remove", !.id = b]
      PROVE  BInv'
  <2>1. PICK b \in Hourly \ Retained :
                Status(b, "removing") /\ job' = [job EXCEPT !.step = "remove", !.id = b]
    BY <1>2, <1>5, PruneFinds
  <2>2. b \in Backup /\ art[b].class = "HOURLY" /\ art[b].status \in {"published", "durable"}
    BY <2>1 DEF Hourly, Listed, Verifies
  <2>3. job' \in Operation /\ job'.step = "remove" /\ job'.class = "HOURLY" /\ job'.id = b
    BY <1>2, <2>1, <2>2, OperationIs DEF Stage
  <2>4. /\ Restamped /\ art'[b].status = "removing"
        /\ \A x \in Backup : x # b => art'[x] = art[x]
    BY <1>2, <2>1, <2>2, StatusIs
  <2>5. \A x \in Backup : art'[x].class = art[x].class
    BY <2>4 DEF Restamped
  <2>6. \A x \in Durable("SAFETY") : art'[x].status = "durable"
    BY <2>2, <2>4 DEF Durable
  <2>7. ASSUME NEW x \in Durable("HOURLY"), Newest(x) PROVE art'[x].status = "durable"
    <3>1. x \in Hourly /\ x \in Backup /\ art[x].status = "durable"
      BY DEF Durable, Hourly, Listed, Verifies
    <3>2. x \in Retained
      BY <1>2, <2>7, <3>1, NewestRetained
    <3>. QED
      BY <2>1, <2>4, <3>1, <3>2
  <2>8. Outlives' \subseteq Outlives
    BY <2>2, <2>4, <2>5 DEF Outlives
  <2>9. ArtKept
    BY <1>2, <1>5, <2>4, <2>6, <2>7, <2>8, StatusesKeep DEF Clean
  <2>. QED
    BY <1>4, <2>2, <2>3, <2>4, <2>5, <2>9 DEF Pruning
<1>6. CASE job.step = "remove" /\ Status(job.id, "gone") /\ Goes("prune")
  <2>1. art[job.id].class = "HOURLY" /\ art[job.id].status = "removing"
    BY <1>2, <1>6 DEF JobInv
  <2>2. job' \in Operation /\ job'.step = "prune" /\ job'.class = "HOURLY"
    BY <1>2, <1>6, OperationIs DEF Stage
  <2>3. /\ Restamped /\ art'[job.id].status = "gone"
        /\ \A x \in Backup : x # job.id => art'[x] = art[x]
    BY <1>2, <1>6, <2>1, StatusIs
  <2>4. \A x \in Backup : art'[x].class = art[x].class
    BY <2>3 DEF Restamped
  <2>5. \A c : \A x \in Durable(c) : art'[x].status = "durable"
    BY <2>1, <2>3 DEF Durable
  <2>6. Outlives' \subseteq Outlives
    BY <1>2, <2>1, <2>3, <2>4 DEF Outlives
  <2>7. ~Clean
    BY <1>2, <2>1 DEF Clean
  <2>8. ArtKept
    BY <1>2, <2>3, <2>5, <2>6, <2>7, StatusesKeep
  <2>. QED
    BY <1>4, <2>2, <2>3, <2>8 DEF Pruning
<1>7. CASE job.step = "prune" /\ Hourly = Retained /\ art' = Synced /\ Goes("clear")
  <2>1. job' \in Operation /\ job'.step = "clear" /\ job'.class = "HOURLY"
    BY <1>2, <1>7, OperationIs DEF Stage
  <2>2. Restamped
    BY <1>2, <1>7, SyncedIs
  <2>3. ArtKept /\ Clean'
    BY <1>2, <1>7, SyncedKeep
  <2>. QED
    BY <1>4, <2>1, <2>2, <2>3 DEF Pruning
<1>. QED
  BY <1>5, <1>6, <1>7 DEF Prune

\* A restored database is bound: it is newer than all, unserved, and linked by no name
\* that a start looks at.
LEMMA InstallKeeps == ASSUME Ordered, IInv, IInv', BInv, Install PROVE BInv'
<1>1. /\ job.step = "prepared" /\ BindCandidate(job.target) /\ job' = Idle /\ art' = art
      /\ store' = [store EXCEPT ![n + 1] = PrepareRestoreCandidate(art[job.target])]
  BY DEF Install, CandidateCopied
<1>2. /\ TypeInv /\ BackupTypes /\ JobInv /\ PlaceInv /\ StartInv
      /\ job \in Operation /\ job.target \in Backup
      /\ store \in [0..MaxRestores -> Row] /\ art \in [Backup -> Artifact]
  BY <1>1, Working DEF BackupTypes, Operation
<1>. DEFINE b == job.target
<1>3. /\ pc = "ready" /\ pc' = "bound" /\ n < MaxRestores /\ n' = n + 1 /\ text' = text
      /\ Entry(b, Db(n + 1))
      /\ tx' = [tx EXCEPT ![n + 1] = [NoTransaction EXCEPT !.backup = b]]
  BY <1>1 DEF BindCandidate, BindAnonymousRegular
<1>4. /\ n \in Nat /\ n + 1 \in Attempt /\ n + 1 \in 0..MaxRestores /\ 1..n \subseteq Attempt
      /\ DOMAIN tx = Attempt /\ dir \in [Name -> File] /\ dir \in images
  BY <1>2, <1>3, RestoreAssumption DEF TypeInv, TypeOK, Attempt
<1>20. PICK m \in {n + 1} : TRUE
  OBVIOUS
<1>21. m = n + 1 /\ m = n' /\ m \in Attempt /\ m \in 0..MaxRestores /\ n < m
  BY <1>3, <1>4, <1>20
<1>5. tx'[m].hadLive = FALSE /\ \A k \in Attempt : k # m => tx'[k] = tx[k]
  BY <1>3, <1>4, <1>21 DEF NoTransaction
<1>6. /\ store'[m] \in Row /\ Unserved(m)'
      /\ store'[m].last <= store'[m].revision
      /\ \A k \in 0..MaxRestores : k # m => store'[k] = store[k]
  <2>1. art[b].revision \in Nat
    BY <1>2 DEF Artifact
  <2>2. store'[m] = [revision |-> art[b].revision + 1, last |-> 0, debt |-> TRUE]
    BY <1>1, <1>2, <1>21 DEF PrepareRestoreCandidate
  <2>3. \A k \in 0..MaxRestores : k # m => store'[k] = store[k]
    BY <1>1, <1>2, <1>21
  <2>. QED
    BY <2>1, <2>2, <2>3 DEF Row, Unserved
<1>7. BackupTypes'
  <2>1. store' \in [0..MaxRestores -> Row]
    BY <1>1, <1>2, <1>21, <1>6
  <2>2. \A k \in 0..MaxRestores : store'[k].last <= store'[k].revision
    BY <1>2, <1>6 DEF BackupTypes
  <2>. QED
    BY <1>1, <1>2, <2>1, <2>2, IdleIs, SameTypes
<1>8. Db(n + 1) \in File
  BY <1>4, Members DEF File
<1>9. /\ images' = images \cup {dir'} /\ dir'["live"] = dir["live"] /\ dir'["old"] = dir["old"]
      /\ dir'["marker"] = dir["marker"]
  <2>1. b # "live" /\ b # "old" /\ b # "marker"
    BY <1>2, NameMembers
  <2>. QED
    BY <1>3, <1>4, <1>8, <2>1, PutName, NameMembers DEF Entry
<1>10. Recovered(dir') = Recovered(dir)
  BY <1>9 DEF Recovered
<1>11. FoundKept /\ MarkersKept
  BY <1>4, <1>9, <1>10 DEF FoundKept, MarkersKept
<1>12. ArtKept
  BY <1>1, SameKeep
<1>13. dir["live"] # None => Live \in 0..n
  <2>1. Plain(dir, n)
    BY <1>3, Here DEF IInv, Known
  <2>. QED
    BY <2>1, Files DEF Plain, Live
<1>. HIDE DEF b
<1>14. Owes' /\ Skips'
  <2>1. ASSUME NEW k \in 0..MaxRestores, Found(k)'
        PROVE  \/ Found(k) /\ store'[k] = store[k]
               \/ store'[k].last < store'[k].revision
    <3>1. Found(k)
      BY <1>11, <2>1 DEF FoundKept, Found
    <3>2. CASE k = m
      BY <1>6, <3>2 DEF Unserved
    <3>3. CASE k # m
      BY <1>6, <3>1, <3>3
    <3>. QED
      BY <3>2, <3>3
  <2>. QED
    BY <1>2, <1>7, <1>12, <2>1, FrameFound
<1>15. Untouched'
  <2>1. ASSUME NEW im \in images', NEW k \in Attempt, im["marker"] = Marker(k)
        PROVE  Unserved(k)'
    <3>1. CASE k = m
      BY <1>6, <3>1 DEF Unserved
    <3>2. CASE k # m
      <4>1. Unserved(k)
        BY <1>2, <1>11, <2>1 DEF MarkersKept, StartInv, Untouched
      <4>2. store'[k] = store[k]
        BY <1>6, <3>2, RestoreAssumption DEF Attempt
      <4>. QED
        BY <4>1, <4>2 DEF Unserved
    <3>. QED
      BY <3>1, <3>2
  <2>2. ASSUME NEW im \in images', Recovered(im) = None PROVE store'[0] = Fresh
    <3>1. store[0] = Fresh
      BY <1>2, <1>11, <2>2 DEF FoundKept, StartInv, Untouched
    <3>2. 0 # m /\ 0 \in 0..MaxRestores
      BY <1>4, <1>21, RestoreAssumption
    <3>. QED
      BY <1>6, <3>1, <3>2
  <2>3. ASSUME NEW k \in Attempt, tx'[k].hadLive PROVE text'[k] # "none"
    <3>1. k # m
      BY <1>5, <2>3
    <3>. QED
      BY <1>2, <1>3, <1>5, <2>3, <3>1 DEF StartInv, Untouched
  <2>. QED
    BY <2>1, <2>2, <2>3 DEF Untouched, Fresh
<1>16. RestoreLosesNothing'
  <2>1. ASSUME NEW k \in 1..n', Lost(k)'
        PROVE  LET o == tx[k].original[2]
               IN  tx'[k] = tx[k] /\ store'[o] = store[o] /\ Held("SAFETY", o)
    <3>1. k # m
      BY <1>5, <2>1 DEF Lost
    <3>2. k \in 1..n
      BY <1>4, <1>21, <3>1
    <3>3. k \in Attempt /\ tx'[k] = tx[k]
      BY <1>4, <1>5, <3>1, <3>2
    <3>4. Lost(k)
      BY <1>11, <2>1, <3>3 DEF Lost, FoundKept
    <3>5. PICK j \in 0..(k - 1) : tx[k].original[2] = j
      BY <1>2, <3>2, <3>4, HadLiveIs DEF Lost, StartInv
    <3>6. j \in 0..MaxRestores /\ j # m
      BY <1>3, <1>4, <1>21, <3>2, <3>5, RestoreAssumption
    <3>8. store'[j] = store[j]
      BY <1>6, <3>6
    <3>7. Held("SAFETY", tx[k].original[2])
      BY <1>2, <3>2, <3>4, LostHeld DEF StartInv
    <3>. QED
      BY <3>3, <3>5, <3>7, <3>8
  <2>. QED
    BY <1>12, <2>1, FrameLost DEF ArtKept
<1>17. PlaceInv'
  <2>1. dir["live"] # None => Held("SAFETY", Live)
    BY <1>1, <1>2 DEF JobInv
  <2>2. PICK k \in {Live} : dir["live"] # None => Held("SAFETY", k) /\ k \in 0..n
    BY <1>13, <2>1
  <2>3. dir["live"] # None => Held("SAFETY", k)'
    <3>. SUFFICES ASSUME dir["live"] # None PROVE Held("SAFETY", k)'
      OBVIOUS
    <3>1. k \in 0..MaxRestores /\ k # m
      BY <1>3, <1>4, <1>21, <2>2, RestoreAssumption
    <3>2. store'[k] = store[k]
      BY <1>6, <3>1
    <3>. QED
      BY <1>12, <2>2, <3>2, HeldKept DEF ArtKept
  <2>4. dir'["live"][2] = k
    BY <1>9, <2>2 DEF Live
  <2>5. dir'["live"] # None => Held("SAFETY", dir["live"][2])'
    BY <1>9, <2>3, <2>4
  <2>6. Unserved(n)'
    BY <1>21, <1>6 DEF Unserved
  <2>. QED
    BY <1>3, <2>5, <2>6 DEF PlaceInv
<1>. QED
  BY <1>1, <1>7, <1>14, <1>15, <1>16, <1>17, NoJob DEF BInv, StartInv

-----------------------------------------------------------------------------
(***************************************************************************)
(* The invariant holds from the start of the first program on.             *)
(***************************************************************************)

\* The first start: nothing was installed, and what was backed up elsewhere is durable.
LEMMA BInvInit == BackupsInit => BInv
<1>. SUFFICES ASSUME BackupsInit PROVE BInv
  OBVIOUS
<1>1. /\ Backup # {} /\ Idle.id \in Backup /\ Idle.class = "HOURLY"
      /\ MaxRestores \in Nat /\ 0 \in 0..MaxRestores
  BY RestoreAssumption DEF Idle
<1>2. /\ store = [k \in 0..MaxRestores |-> Fresh] /\ job = Idle /\ pc = "off" /\ n = 0
      /\ images = {dir} /\ \A k \in Attempt : tx[k].hadLive = FALSE
  BY DEF BackupsInit, Init, NoTransaction
<1>3. dir["marker"] = None
  BY NameMembers DEF BackupsInit, Init
<1>4. art \in [Backup -> Artifact] /\ \A b \in Used : b = Idle.id /\ art[b].at = 1
  <2>. DEFINE e == [NoArtifact EXCEPT !.status = "durable", !.at = 1]
  <2>1. \A b \in Backup : art[b] = IF dir["live"] = None /\ b = Idle.id THEN e ELSE NoArtifact
    BY DEF BackupsInit
  <2>2. NoArtifact \in Artifact /\ NoArtifact.status = "none"
    BY <1>1 DEF NoArtifact, Artifact, Class
  <2>3. e \in Artifact /\ e.at = 1
    <3>1. PICK a \in Artifact : a = NoArtifact
      BY <2>2
    <3>2. [a EXCEPT !.status = "durable", !.at = 1] \in Artifact
      BY DEF Artifact
    <3>3. e.at = 1
      BY DEF NoArtifact
    <3>. QED
      BY <3>1, <3>2, <3>3
  <2>4. art \in [Backup -> Artifact]
    <3>1. \A b \in Backup : art[b] \in Artifact
      BY <2>1, <2>2, <2>3
    <3>. QED
      BY <3>1 DEF BackupsInit
  <2>5. ASSUME NEW b \in Used PROVE b = Idle.id /\ art[b].at = 1
    <3>1. b \in Backup /\ art[b].status # "none"
      BY <2>5 DEF Used, Unused
    <3>. QED
      BY <2>1, <2>2, <2>3, <3>1
  <2>. QED
    BY <2>4, <2>5
<1>5. IsFiniteSet(Used) /\ \A b \in Used : art[b].at <= Cardinality(Used)
  <2>1. Used = {} \/ Used = {Idle.id}
    BY <1>4
  <2>2. PICK i \in {Idle.id} : Used = {} \/ Used = {i}
    BY <2>1
  <2>3. IsFiniteSet({}) /\ IsFiniteSet({i}) /\ Cardinality({i}) = 1
    BY FS_EmptySet, FS_Singleton
  <2>. QED
    BY <1>4, <2>2, <2>3
<1>6. \A k \in 0..MaxRestores : store[k] \in Row /\ store[k].last < store[k].revision
  BY <1>2 DEF Fresh, Row
<1>7. BackupTypes
  BY <1>2, <1>4, <1>5, <1>6, IdleIs DEF BackupTypes, Row
<1>8. JobInv /\ MadeInv
  BY <1>2, IdleIs DEF JobInv, MadeInv, Making, Pruning
<1>9. PlaceInv
  BY <1>2 DEF PlaceInv
<1>10. Owes /\ Skips
  BY <1>6 DEF Owes, Skips, Row
<1>11. Untouched
  BY <1>1, <1>2, <1>3, Files DEF Untouched
<1>12. RestoreLosesNothing
  BY <1>2 DEF RestoreLosesNothing
<1>. QED
  BY <1>7, <1>8, <1>9, <1>10, <1>11, <1>12 DEF BInv, StartInv

\* Every step of the manager, of a restore, of the operator and of a failure keeps it.
LEMMA BInvNext == Ordered /\ IInv /\ IInv' /\ BInv /\ [BackupsNext]_allVars => BInv'
<1>. SUFFICES ASSUME Ordered, IInv, IInv', BInv, [BackupsNext]_allVars PROVE BInv'
  OBVIOUS
<1>1. CASE Scheduled \/ CreateManual \/ \E b \in Backup : RestoreBackup(b)
  BY <1>1, BeginKeeps
<1>2. CASE Snapshot \/ Publish \/ SyncPublished
  BY <1>2, SnapshotKeeps, PublishKeeps, SyncPublishedKeeps
<1>3. CASE MarkAutomaticRevision \/ Prune \/ ClearRetentionPending
  BY <1>3, MarkKeeps, PruneKeeps, ClearKeeps
<1>4. CASE Fail \/ Write \/ Install
  BY <1>4, FailKeeps, WriteKeeps, InstallKeeps
<1>5. CASE RestoreStep \/ Killed \/ MachineStops
  BY <1>5, RestoreStepKeeps, KilledKeeps, MachineStopsKeeps
<1>6. CASE UNCHANGED allVars
  <2>1. UNCHANGED <<dir, images, text, tx, n, pc, store, art, job>>
    BY <1>6 DEF allVars, vars, backupVars
  <2>2. BackupTypes'
    BY <2>1 DEF BInv, BackupTypes, Used, Unused
  <2>3. JobInv'
    <3>1. (Held("SAFETY", Live) <=> Held("SAFETY", Live)') /\ State' = State
      BY <2>1 DEF Held, Durable, Holds, Live, State
    <3>2. Clean <=> Clean'
      BY <2>1 DEF Clean, Hourly, Retained, Newer, Day, Listed, Verifies
    <3>. QED
      BY <2>1, <3>1, <3>2 DEF BInv, JobInv
  <2>4. MadeInv'
    BY <2>1 DEF BInv, MadeInv, Live, State, Used, Unused
  <2>5. PlaceInv'
    BY <2>1 DEF BInv, PlaceInv, Unserved, Held, Durable, Holds
  <2>6. StartInv'
    BY <2>1, <2>2, SameKeep, QuietKeeps DEF BInv
  <2>. QED
    BY <2>2, <2>3, <2>4, <2>5, <2>6 DEF BInv
<1>. QED
  BY <1>1, <1>2, <1>3, <1>4, <1>5, <1>6 DEF BackupsNext

\* Both invariants together, of every behaviour of the composition.
LEMMA BackupsInvariant == Ordered => (BackupsSpec => [](IInv /\ BInv))
<1>. SUFFICES ASSUME Ordered PROVE BackupsSpec => [](IInv /\ BInv)
  OBVIOUS
<1>1. IInv /\ IInv' /\ BInv /\ [BackupsNext]_allVars => BInv'
  BY BInvNext
<1>2. Spec => []IInv
  BY Invariant
<1>. QED
  BY BackupsImplementRestore, BInvInit, <1>1, <1>2, PTL DEF BackupsSpec

-----------------------------------------------------------------------------
\* The scheduler skips a database whose revision is its watermark only when an hourly
\* artifact holds it as it is, for whichever database the next start may find, whatever
\* failed, was written, pruned, restored or lost with the power since
\* (CreateScheduled and MarkAutomaticRevision, manager_linux.go).
THEOREM SkippedCoveredAlways == Ordered => (BackupsSpec => []SkippedIsCovered)
<1>1. IInv /\ BInv => SkippedIsCovered
  <2>. SUFFICES ASSUME IInv, BInv, NEW im \in images, Recovered(im) # None,
                       store[Recovered(im)[2]].revision = store[Recovered(im)[2]].last
                PROVE  \E b \in Durable("HOURLY") : Holds(b, Recovered(im)[2])
    BY DEF SkippedIsCovered
  <2>1. PICK k \in 0..MaxRestores : Recovered(im) = Db(k) /\ Found(k)
    BY FoundIs DEF IInv
  <2>2. Recovered(im)[2] = k
    BY <2>1 DEF Db
  <2>. QED
    BY <2>1, <2>2 DEF BInv, StartInv, Skips
<1>. QED
  BY <1>1, BackupsInvariant, PTL

\* A backup that retention should remove is never forgotten: between two operations of a
\* running program something is left to prune only if the scheduler will run again, for
\* its recorded debt or for a change to back up (retentionPending, manager_linux.go).
THEOREM RetentionDebtAlways == Ordered => (BackupsSpec => []RetentionDebt)
<1>1. IInv /\ BInv => RetentionDebt
  <2>. SUFFICES ASSUME IInv, BInv, dir["live"] # None, Hourly # Retained
                PROVE  State.debt \/ State.revision # State.last
    BY DEF RetentionDebt
  <2>1. dir \in images /\ Recovered(dir) = dir["live"] /\ Live \in 0..MaxRestores
    BY FoundIs DEF IInv
  <2>2. PICK k \in 0..MaxRestores : Recovered(dir) = Db(k) /\ Found(k)
    BY <2>1, FoundIs DEF IInv
  <2>3. Live = k
    BY <2>1, <2>2 DEF Live, Db
  <2>4. store[k].debt \/ store[k].last < store[k].revision
    BY <2>2 DEF BInv, StartInv, Owes, Clean
  <2>5. store[k].last \in Nat /\ store[k].revision \in Nat
    BY <2>2 DEF BInv, BackupTypes, Row
  <2>. QED
    BY <2>3, <2>4, <2>5 DEF State
<1>. QED
  BY <1>1, BackupsInvariant, PTL

\* Whatever interrupts a restore, a database that a start may no longer find is held, as
\* it last was, by a safety backup that pruning leaves alone (Manager.Restore and
\* installExactRestore, manager_linux.go).
THEOREM RestoreLosesNothingAlways == Ordered => (BackupsSpec => []RestoreLosesNothing)
<1>1. IInv /\ BInv => RestoreLosesNothing
  BY DEF BInv, StartInv
<1>. QED
  BY <1>1, BackupsInvariant, PTL

\* What RestoreProofs shows of a restore alone holds while the manager takes, publishes
\* and prunes backups around it: every start recovers, a database is used only when no
\* power loss undoes its installation, and the database is replaced atomically.
THEOREM RestoreWithinManager ==
    Ordered => (BackupsSpec => []StartRecovers /\ []SettledWhenUsed /\ ReplacesAtomically)
<1>. SUFFICES ASSUME Ordered
              PROVE  BackupsSpec => []StartRecovers /\ []SettledWhenUsed /\ ReplacesAtomically
  OBVIOUS
<1>1. (Spec => []StartRecovers) /\ (Spec => []SettledWhenUsed) /\ (Spec => ReplacesAtomically)
  BY StartRecoversAlways, SettledWhenUsedAlways, RestoreIsAtomic
<1>. QED
  BY <1>1, BackupsImplementRestore, PTL
=============================================================================
