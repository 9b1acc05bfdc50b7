------------------------------ MODULE Backups ------------------------------
(***************************************************************************)
(* Backups of the Controller database                                      *)
(* (src/internal/controllerbackup/manager_linux.go): the manager that      *)
(* takes, publishes and prunes them, composed with the installation of a   *)
(* restored database (Restore).  Its mutex makes an operation exclude the  *)
(* others; the operator's writes of the served database, a kill and a      *)
(* power loss come between any two steps.                                  *)
(*                                                                         *)
(* A database is its row of controller_backup_state: what else it holds is *)
(* told apart by its number and persistent_revision, which the triggers    *)
(* raise with every counted transaction.  SQLite commits are durable       *)
(* (synchronous=FULL), an artifact's files are synced before it is         *)
(* published, and the clock does not go back.  Staging directories and     *)
(* emptied artifacts stay as tombstones that no listing shows.             *)
(***************************************************************************)
EXTENDS Restore

CONSTANTS
    HourlyLimit, DailyLimit,  \* what retention keeps
    PerDay,                   \* bound: artifacts made in one day
    MaxRevision               \* bound: the revision of a served database

ASSUME BackupsAssumption ==
    /\ HourlyLimit \in Nat \ {0} /\ DailyLimit \in Nat
    /\ PerDay \in Nat \ {0} /\ MaxRevision \in Nat

VARIABLES
    store,   \* the contents of each database
    art,     \* the artifact of each BackupID
    job      \* the operation that holds the manager's mutex

backupVars == <<store, art, job>>
allVars == <<vars, backupVars>>

NoArtifact == [status |-> "none", class |-> "HOURLY", db |-> MaxRestores + 1, revision |-> 1, at |-> 0]
Idle == [step |-> "idle", class |-> "HOURLY", id |-> CHOOSE b \in Backup : TRUE,
         target |-> CHOOSE b \in Backup : TRUE]
Fresh == [revision |-> 1, last |-> 0, debt |-> FALSE]

\* A directory without farm.db may come with backups that were taken elsewhere.
BackupsInit ==
    /\ Init
    /\ store = [k \in 0..MaxRestores |-> Fresh]
    /\ art = [b \in Backup |-> IF dir["live"] = None /\ b = Idle.id
                 THEN [NoArtifact EXCEPT !.status = "durable", !.at = 1]
                 ELSE NoArtifact]
    /\ job = Idle

Live == dir["live"][2]
State == store[Live]

\* verifyArtifactAt: an artifact's two files are there and agree; one that is still
\* staged has another name, one whose files are being removed is no longer whole.
Verifies(b) == art[b].status \in {"published", "durable"}

Listed == {b \in Backup : Verifies(b)}
Hourly == {b \in Listed : art[b].class = "HOURLY"}
Unused == {b \in Backup : art[b].status = "none"}

Goes(step) == job' = [job EXCEPT !.step = step]
Status(b, s) == art' = [art EXCEPT ![b].status = s]

-----------------------------------------------------------------------------
(***************************************************************************)
(* CreateScheduled, CreateManual and Restore up to the mutex.              *)
(***************************************************************************)
Scheduled ==
    /\ pc = "serving" /\ job = Idle
    /\ State.revision # State.last \/ State.debt
    /\ Goes(IF State.revision = State.last THEN "prune" ELSE "snapshot")
    /\ UNCHANGED <<vars, store, art>>

CreateManual ==
    /\ pc = "ready" /\ job = Idle /\ dir["live"] # None
    /\ job' = [Idle EXCEPT !.step = "snapshot", !.class = "MANUAL"]
    /\ UNCHANGED <<vars, store, art>>

\* Mutant of RestoreBackup: it takes no safety backup.
RestoreUnsaved(b) ==
    /\ pc = "ready" /\ job = Idle /\ n < MaxRestores /\ b \in Listed
    /\ job' = [Idle EXCEPT !.step = "prepared", !.class = "SAFETY", !.target = b]
    /\ UNCHANGED <<vars, store, art>>

\* A verified artifact is restored; what farm.db holds is backed up first.
RestoreBackup(b) ==
    /\ pc = "ready" /\ job = Idle /\ n < MaxRestores /\ b \in Listed
    /\ job' = [Idle EXCEPT !.step = IF dir["live"] = None THEN "prepared" ELSE "snapshot",
                           !.class = "SAFETY", !.target = b]
    /\ UNCHANGED <<vars, store, art>>

-----------------------------------------------------------------------------
(***************************************************************************)
(* createLocked.                                                           *)
(***************************************************************************)
\* stampBackupArtifact and the manifest: what an artifact says of itself.
Stamped(class) ==
    [status |-> "staged", class |-> class, db |-> Live,
     revision |-> State.revision, at |-> Cardinality(Backup \ Unused) + 1]

\* VACUUM INTO reads one committed state into a staging directory.
Snapshot ==
    /\ job.step = "snapshot" /\ Unused # {}
    /\ LET b == CHOOSE x \in Unused : TRUE
       IN  /\ art' = [art EXCEPT ![b] = Stamped(job.class)]
           /\ job' = [job EXCEPT !.step = "staged", !.id = b]
    /\ UNCHANGED <<vars, store>>

\* The rename that publishes the synced and verified staging directory.
Publish ==
    /\ job.step = "staged" /\ Status(job.id, "published") /\ Goes("published")
    /\ UNCHANGED <<vars, store>>

\* The sync of the backup directory; in their order, earlier unlinks are durable too.
Synced == [b \in Backup |->
    IF art[b].status = "published" THEN [art[b] EXCEPT !.status = "durable"]
    ELSE IF art[b].status = "removing" /\ Ordered THEN [art[b] EXCEPT !.status = "gone"]
    ELSE art[b]]

\* A program started for one operation ends with it.
Ends ==
    /\ job' = Idle /\ UNCHANGED <<dir, images>>
    /\ Goto(IF pc = "serving" THEN "serving" ELSE "off")

\* What follows a backup of its class.
Created ==
    \/ job.class = "HOURLY" /\ Goes("mark") /\ UNCHANGED vars
    \/ job.class = "SAFETY" /\ Goes("prepared") /\ UNCHANGED vars
    \/ job.class = "MANUAL" /\ Ends

SyncPublished == job.step = "published" /\ art' = Synced /\ Created /\ UNCHANGED store

-----------------------------------------------------------------------------
(***************************************************************************)
(* The rest of CreateScheduled: the watermark, retention and its debt.     *)
(***************************************************************************)
SetState(s) == store' = [store EXCEPT ![Live] = s]

\* Mutant of MarkAutomaticRevision: the watermark is the revision it finds.
MarkFound ==
    /\ job.step = "mark" /\ Goes("prune")
    /\ SetState([State EXCEPT !.last = State.revision, !.debt = TRUE])
    /\ UNCHANGED <<vars, art>>

\* Mutant of MarkAutomaticRevision: the backup incurs no retention debt.
MarkWithoutDebt ==
    /\ job.step = "mark" /\ Goes("prune")
    /\ LET r == art[job.id].revision
       IN  SetState([State EXCEPT !.last = IF State.revision = r THEN r ELSE @])
    /\ UNCHANGED <<vars, art>>

\* A write after the snapshot is left for the next interval.
MarkAutomaticRevision ==
    /\ job.step = "mark" /\ Goes("prune")
    /\ LET r == art[job.id].revision
       IN  SetState([State EXCEPT !.last = IF State.revision = r THEN r ELSE @, !.debt = TRUE])
    /\ UNCHANGED <<vars, art>>

Day(b) == art[b].at \div PerDay
Newer(b) == {x \in Hourly : art[x].at > art[b].at}

\* The newest hourly artifacts, and the newest of each of the newest days.
Retained == {b \in Hourly :
    \/ Cardinality(Newer(b)) < HourlyLimit
    \/ /\ Cardinality({Day(x) : x \in Newer(b)}) < DailyLimit
       /\ \A x \in Newer(b) : Day(x) # Day(b)}

\* removeExpectedArtifactAt unlinks the files of the newest that is not retained; the
\* unlinks are synced before the next.
Prune ==
    \/ /\ job.step = "prune" /\ Hourly # Retained
       /\ LET b == CHOOSE x \in Hourly \ Retained : Newer(x) \subseteq Retained
          IN  Status(b, "removing") /\ job' = [job EXCEPT !.step = "remove", !.id = b]
       /\ UNCHANGED <<vars, store>>
    \/ job.step = "remove" /\ Status(job.id, "gone") /\ Goes("prune") /\ UNCHANGED <<vars, store>>
    \/ /\ job.step = "prune" /\ Hourly = Retained
       /\ art' = Synced /\ Goes("clear") /\ UNCHANGED <<vars, store>>

ClearRetentionPending ==
    /\ job.step = "clear" /\ SetState([State EXCEPT !.debt = FALSE]) /\ Ends
    /\ UNCHANGED art

-----------------------------------------------------------------------------
\* What an operation that returns or dies leaves behind: staging is never listed.
Abandoned == [b \in Backup |->
    IF art[b].status = "staged" THEN [art[b] EXCEPT !.status = "gone"] ELSE art[b]]

\* Any step returns an error.
Fail == job # Idle /\ art' = Abandoned /\ Ends /\ UNCHANGED store

\* A transaction of the Controller or of its operator, which the triggers count.
Write ==
    /\ pc = "serving" /\ State.revision < MaxRevision
    /\ SetState([State EXCEPT !.revision = @ + 1])
    /\ UNCHANGED <<vars, art, job>>

\* The copy of the artifact's database gets its barriers and its own revision.
PrepareRestoreCandidate(a) == [revision |-> a.revision + 1, last |-> 0, debt |-> TRUE]

\* copyRestoreCandidate verifies the artifact again before it copies it.
CandidateCopied == job.step = "prepared" /\ Verifies(job.target)

Install ==
    /\ CandidateCopied /\ BindCandidate(job.target) /\ job' = Idle
    /\ store' = [store EXCEPT ![n + 1] = PrepareRestoreCandidate(art[job.target])]
    /\ UNCHANGED art

\* The other steps of a restore, of its recovery and of a start.
RestoreStep ==
    /\ job = Idle /\ UNCHANGED backupVars
    /\ \/ Start \/ Accept \/ ReadTransaction \/ RecoverRestored \/ RecoverOriginal
       \/ Refuse \/ ClearMarker \/ CreateMarker \/ WriteMarker \/ RetainOriginal
       \/ LinkRestored \/ LinkFails \/ Finalize \/ InstallFails
       \/ CreateDatabase \/ Serve

Killed == Crash /\ art' = Abandoned /\ job' = Idle /\ UNCHANGED store

Unsettled == {b \in Backup : art[b].status \in {"published", "removing"}}

\* What was not synced is kept or lost.
MachineStops ==
    /\ PowerLoss /\ job' = Idle /\ UNCHANGED store
    /\ \E kept \in SUBSET Unsettled : art' = [b \in Backup |->
          IF b \in Unsettled THEN [art[b] EXCEPT !.status = IF b \in kept THEN "durable" ELSE "gone"]
                             ELSE Abandoned[b]]

BackupsNext ==
    \/ Scheduled \/ CreateManual \/ \E b \in Backup : RestoreBackup(b)
    \/ Snapshot \/ Publish \/ SyncPublished
    \/ MarkAutomaticRevision \/ Prune \/ ClearRetentionPending
    \/ Fail \/ Write \/ Install \/ RestoreStep \/ Killed \/ MachineStops

BackupsSpec == BackupsInit /\ [][BackupsNext]_allVars

-----------------------------------------------------------------------------
Holds(b, k) == art[b].db = k /\ art[b].revision = store[k].revision
Durable(class) == {b \in Backup : art[b].status = "durable" /\ art[b].class = class}

\* The scheduler skips a database whose revision is its watermark: whichever database a
\* start may find is then in an hourly artifact as it is, whatever failed, was written,
\* pruned, restored or lost with the power since.
SkippedIsCovered ==
    \A im \in images : LET f == Recovered(im) IN
       f # None /\ store[f[2]].revision = store[f[2]].last =>
          \E b \in Durable("HOURLY") : Holds(b, f[2])

\* A backup that retention should remove is never forgotten: while one is listed, the
\* scheduler has a reason to prune again (retention debt, or a change to back up).
RetentionDebt ==
    pc \in {"ready", "serving"} /\ job = Idle /\ dir["live"] # None /\ Hourly # Retained =>
       State.debt \/ State.revision # State.last

\* Whatever interrupts a restore, a database that a start may no longer find is held,
\* as it last was, by a safety backup.
RestoreLosesNothing ==
    \A k \in 1..n, im \in images :
       tx[k].hadLive /\ Recovered(im) # tx[k].original =>
          \E b \in Durable("SAFETY") : Holds(b, tx[k].original[2])
=============================================================================
