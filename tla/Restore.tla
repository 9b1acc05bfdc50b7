------------------------------- MODULE Restore -------------------------------
(***************************************************************************)
(* Restore of the Controller database and its recovery after a crash       *)
(* (src/internal/controllerbackup/manager_linux.go): the directory entries *)
(* that installExactRestore and recoverRestoreTransaction link and unlink  *)
(* in the data directory, each of them and each directory sync one step,   *)
(* so that the process can die or the machine lose power between any two.  *)
(*                                                                         *)
(* One process at a time holds the lease of the data directory, and every  *)
(* process begins with RecoverInterruptedRestore.  A file is the inode a   *)
(* name links: a database keeps the bytes it was bound with until the      *)
(* Controller serves it, which nothing does while a marker exists, so size *)
(* and checksum of a binding say no more than the inode.  The candidate's  *)
(* bytes are synced before its first link.                                 *)
(*                                                                         *)
(* images is the set of directories a power loss may leave behind.  Some   *)
(* file systems keep the order of directory changes, others do not.        *)
(***************************************************************************)
EXTENDS Naturals, FiniteSets

CONSTANTS
    Backup,       \* BackupIDs; each names its own validation entry
    Ordered,      \* whether directory changes reach the disk in their order
    MaxRestores   \* bound: attempts to restore

ASSUME RestoreAssumption ==
    /\ MaxRestores \in Nat
    /\ Ordered \in BOOLEAN
    /\ Backup # {} /\ Backup \cap {"live", "old", "marker"} = {}

Attempt == 1..MaxRestores
None == <<"none", 0>>
Db(k) == <<"db", k>>
Marker(k) == <<"marker", k>>

\* farm.db, the retained original, the transaction marker, .restore-exact-<BackupID>
Name == {"live", "old", "marker"} \cup Backup
Database == {None} \cup {Db(k) : k \in 0..MaxRestores}
File == Database \cup {Marker(k) : k \in Attempt}

VARIABLES
    dir,       \* the data directory as processes see it
    images,    \* the directories a power loss may leave
    text,      \* how much of each attempt's marker has been written
    tx,        \* the transaction each attempt's marker describes
    n,         \* the attempts so far
    pc,        \* what the process that has the lease is about to do
    rollback,  \* whether it recovers because its own link failed
    ack        \* the database last started on or reported restored

vars == <<dir, images, text, tx, n, pc, rollback, ack>>

NoTransaction == [backup |-> CHOOSE b \in Backup : TRUE, hadLive |-> FALSE, original |-> None]

Init ==
    /\ \E live \in {None, Db(0)} : dir = [x \in Name |-> IF x = "live" THEN live ELSE None]
    /\ images = {dir}
    /\ text = [k \in Attempt |-> "none"] /\ tx = [k \in Attempt |-> NoTransaction]
    /\ n = 0 /\ pc = "off" /\ rollback = FALSE
    /\ ack = dir["live"]

Links(f) == Cardinality({x \in Name : dir[x] = f})

Put(d, x, f) == [d EXCEPT ![x] = f]

\* linkat and unlinkat: the change is visible at once and durable after a sync.
Entry(x, f) ==
    /\ dir' = Put(dir, x, f)
    /\ images' = IF Ordered THEN images \cup {dir'}
                            ELSE images \cup {Put(im, x, f) : im \in images}

EntryIf(cond, x, f) == IF cond THEN Entry(x, f) ELSE UNCHANGED <<dir, images>>

Sync == images' = {dir} /\ UNCHANGED dir

\* The process goes on to its next step; or acknowledges the database in place.
Goto(to) == pc' = to /\ UNCHANGED <<rollback, text, tx, n, ack>>
Step(from, to) == pc = from /\ Goto(to)
Acknowledge(to) == pc' = to /\ ack' = dir["live"] /\ UNCHANGED <<rollback, text, tx, n>>

-----------------------------------------------------------------------------
(***************************************************************************)
(* RecoverInterruptedRestore and recoverRestoreTransaction.                *)
(***************************************************************************)
Start ==
    /\ pc = "off"
    /\ pc' = "recover" /\ rollback' = FALSE
    /\ UNCHANGED <<dir, images, text, tx, n, ack>>

\* The transaction that the marker in the directory describes.
Current == CHOOSE k \in Attempt : Marker(k) = dir["marker"]
T == tx[Current]
Restored == Db(Current)
Val == dir[T.backup]
MarkerReadable == dir["marker"] # None /\ text[Current] \in {"written", "synced"}

\* Nothing was interrupted: the start goes on with the database it found.
Accept ==
    /\ pc = "recover" /\ dir["marker"] = None /\ dir["old"] = None
    /\ Acknowledge("ready")
    /\ UNCHANGED <<dir, images>>

\* Which side of the transaction farm.db is on.
NoLive == dir["live"] = None
IsRestored == dir["live"] = Restored
IsOriginal == ~NoLive /\ T.hadLive /\ dir["live"] = T.original
OldHas(links) == T.hadLive /\ dir["old"] = T.original /\ Links(T.original) = links

ReadTransaction ==
    /\ pc = "transaction" \/ (pc = "recover" /\ MarkerReadable)
    /\ \/ IsRestored /\ Goto("r.sync")
       \/ IsOriginal /\ Goto("o.old")
       \/ NoLive /\ ~T.hadLive /\ dir["old"] = None /\ Goto("o.val")
       \/ NoLive /\ OldHas(1) /\ Goto("p.link")
    /\ UNCHANGED <<dir, images>>

\* The restored name may have been linked just before the interruption: it is made
\* durable first, and the marker goes last.
RecoverRestored ==
    \/ Step("r.sync", "r.val") /\ Sync
    \/ /\ Step("r.val", "r.old") /\ (Links(Restored) = 2 \/ Val = None)
       /\ EntryIf(Val = Restored, T.backup, None)
    \/ /\ Step("r.old", "r.clean") /\ (dir["old"] = None \/ OldHas(1))
       /\ EntryIf(dir["old"] # None, "old", None)
    \/ Step("r.clean", "clear") /\ Links(Restored) = 1 /\ Sync

\* The original is still, or again, in place: the other names go.
RecoverOriginal ==
    \/ Step("p.link", "p.sync") /\ Entry("live", dir["old"])
    \/ Step("p.sync", "o.old") /\ Sync
    \/ /\ Step("o.old", "o.val") /\ (OldHas(2) \/ (dir["old"] = None /\ Links(T.original) = 1))
       /\ EntryIf(dir["old"] # None, "old", None)
    \/ /\ Step("o.val", "o.check")
       /\ EntryIf(Val = Restored /\ Links(Restored) = 1, T.backup, None)
    \/ /\ Step("o.check", "clear") /\ (T.hadLive => Links(T.original) = 1)
       /\ UNCHANGED <<dir, images>>

\* Every check that makes recovery return an error and the start fail.
Contradiction ==
    \/ pc = "recover" /\ dir["marker"] = None /\ dir["old"] # None
    \/ pc = "recover" /\ dir["marker"] # None /\ ~MarkerReadable
    \/ /\ pc = "transaction" \/ (pc = "recover" /\ MarkerReadable)
       /\ \/ NoLive /\ T.hadLive /\ ~OldHas(1)
          \/ NoLive /\ ~T.hadLive /\ dir["old"] # None
          \/ ~NoLive /\ ~IsRestored /\ ~IsOriginal
    \/ pc = "r.val" /\ Links(Restored) # 2 /\ Val # None
    \/ pc = "r.old" /\ dir["old"] # None /\ ~OldHas(1)
    \/ pc = "r.clean" /\ Links(Restored) # 1
    \/ pc = "o.old" /\ ~OldHas(2) /\ ~(dir["old"] = None /\ Links(T.original) = 1)
    \/ pc = "o.check" /\ T.hadLive /\ Links(T.original) # 1

Refuse == Contradiction /\ Goto("refused") /\ UNCHANGED <<dir, images>>

\* clearRestoreMarker; an in-process rollback then returns the link's error.
ClearMarker ==
    \/ Step("clear", "clear.sync") /\ Entry("marker", None)
    \/ /\ pc = "clear.sync" /\ Sync
       /\ IF rollback THEN Goto("off") ELSE Acknowledge("ready")

-----------------------------------------------------------------------------
(***************************************************************************)
(* Manager.Restore from its exact install object on, and                   *)
(* installExactRestore.                                                    *)
(***************************************************************************)
\* A name that a crashed attempt left makes the link fail.
BindAnonymousRegular(x, f) == dir[x] = None /\ Entry(x, f)

BindCandidate(b) ==
    /\ pc = "ready" /\ n < MaxRestores
    /\ n' = n + 1
    /\ tx' = [tx EXCEPT ![n + 1] = [NoTransaction EXCEPT !.backup = b]]
    /\ BindAnonymousRegular(b, Db(n + 1))
    /\ pc' = "bound" /\ UNCHANGED <<rollback, text, ack>>

CreateMarker ==
    /\ pc = "bound" /\ dir["old"] = None /\ dir["marker"] = None
    /\ dir["live"] # None => Links(dir["live"]) = 1
    /\ tx' = [tx EXCEPT ![n].hadLive = dir["live"] # None, ![n].original = dir["live"]]
    /\ text' = [text EXCEPT ![n] = "empty"]
    /\ Entry("marker", Marker(n))
    /\ pc' = "created" /\ UNCHANGED <<rollback, n, ack>>

Written(to, t) ==
    pc' = to /\ text' = [text EXCEPT ![n] = t] /\ UNCHANGED <<dir, images, tx, n, rollback, ack>>

\* The marker is written, then its bytes are synced, then its name.
WriteMarker ==
    \/ pc = "created" /\ Written("written", "written")
    \/ pc = "written" /\ Written("marked", "synced")
    \/ pc = "marked" /\ Sync /\ Goto(IF tx[n].hadLive THEN "retain" ELSE "link")

\* Mutant of RetainOriginal: farm.db is released before it is retained.
ReleaseFirst ==
    \/ Step("retain", "retained") /\ Entry("live", None)
    \/ Step("retained", "release") /\ Sync
    \/ Step("release", "released") /\ Entry("old", tx[n].original)
    \/ Step("released", "link") /\ Sync

RetainOriginal ==
    \/ Step("retain", "retained") /\ Entry("old", dir["live"])
    \/ Step("retained", "release") /\ Sync
    \/ Step("release", "released") /\ Entry("live", None)
    \/ Step("released", "link") /\ Sync

LinkRestored ==
    \/ Step("link", "linked") /\ Entry("live", Db(n))
    \/ Step("linked", "unbind") /\ Sync

\* The link itself fails: the process rolls its own transaction back.
LinkFails ==
    /\ pc = "link"
    /\ pc' = "transaction" /\ rollback' = TRUE
    /\ UNCHANGED <<dir, images, text, tx, n, ack>>

\* Mutant of Finalize: the marker goes before the retained original.
FinalizeMarkerFirst ==
    \/ Step("unbind", "unretain") /\ Entry(tx[n].backup, None)
    \/ Step("unretain", "unmark") /\ Entry("marker", None)
    \/ Step("unmark", "finish") /\ EntryIf(tx[n].hadLive, "old", None)
    \/ pc = "finish" /\ Sync /\ Acknowledge("done")

\* Mutant of Finalize: the restore is reported done before its last sync.
FinalizeUnsynced ==
    \/ Step("unbind", "unretain") /\ Entry(tx[n].backup, None)
    \/ Step("unretain", "unmark") /\ EntryIf(tx[n].hadLive, "old", None)
    \/ Step("unmark", "finish") /\ Entry("marker", None)
    \/ pc = "finish" /\ UNCHANGED <<dir, images>> /\ Acknowledge("done")

Finalize ==
    \/ Step("unbind", "unretain") /\ Entry(tx[n].backup, None)
    \/ Step("unretain", "unmark") /\ EntryIf(tx[n].hadLive, "old", None)
    \/ Step("unmark", "finish") /\ Entry("marker", None)
    \/ pc = "finish" /\ Sync /\ Acknowledge("done")

Installing == {"bound", "created", "written", "marked", "retain", "retained", "release",
               "released", "linked", "unbind", "unretain", "unmark", "finish"}
Recovering == {"transaction", "r.sync", "r.val", "r.old", "r.clean", "p.link", "p.sync",
               "o.old", "o.val", "o.check", "clear", "clear.sync"}

\* An input/output error: Restore returns, its deferred call removes the validation
\* name, the rest is left to the next start.
InstallFails ==
    /\ pc \in Installing \/ (rollback /\ pc \in Recovering)
    /\ EntryIf(dir[tx[n].backup] = Db(n), tx[n].backup, None)
    /\ Goto("off")

-----------------------------------------------------------------------------
\* controllerdb.Open makes the first farm.db of a directory: it holds something from the
\* first durable commit on.
CreateDatabase ==
    /\ pc = "ready" /\ dir["live"] = None
    /\ dir' = Put(dir, "live", Db(0)) /\ images' = {dir'}
    /\ pc' = "serving" /\ ack' = Db(0) /\ UNCHANGED <<text, tx, n, rollback>>

\* The Controller serves the database; SQLite syncs the directory with its journal
\* before the first change of farm.db.
Serve == Step("ready", "serving") /\ dir["live"] # None /\ Sync

\* The process ends, returns an error, or is killed.
Crash == pc # "off" /\ Goto("off") /\ UNCHANGED <<dir, images>>

\* What was not synced is kept or lost, entry by entry or from some point on.
PowerLoss ==
    /\ dir' \in images /\ images' = {dir'}
    /\ \E torn \in SUBSET {k \in Attempt : text[k] = "written"} :
          text' = [k \in Attempt |-> IF k \in torn THEN "empty" ELSE
                       IF text[k] = "written" THEN "synced" ELSE text[k]]
    /\ pc' = "off" /\ UNCHANGED <<rollback, tx, n, ack>>

Next ==
    \/ Start \/ Accept \/ ReadTransaction \/ RecoverRestored \/ RecoverOriginal
    \/ Refuse \/ ClearMarker
    \/ \E b \in Backup : BindCandidate(b)
    \/ CreateMarker \/ WriteMarker \/ RetainOriginal
    \/ LinkRestored \/ LinkFails \/ Finalize \/ InstallFails
    \/ CreateDatabase \/ Serve \/ Crash \/ PowerLoss

Spec == Init /\ [][Next]_vars

-----------------------------------------------------------------------------
\* Types; the directory seen is one that a power loss may leave, so nothing that
\* processes see was replaced behind them.
TypeOK ==
    /\ dir \in [Name -> File] /\ images \subseteq [Name -> File] /\ dir \in images
    /\ rollback \in BOOLEAN
    /\ text \in [Attempt -> {"none", "empty", "written", "synced"}]
    /\ tx \in [Attempt -> [backup : Backup, hadLive : BOOLEAN, original : Database]]
    /\ n \in 0..MaxRestores /\ ack \in Database
    /\ pc \in Installing \cup Recovering \cup
              {"off", "recover", "ready", "refused", "link", "done", "serving"}

\* The database a start finds in a directory: farm.db or else the retained original.
Recovered(d) == IF d["live"] # None THEN d["live"] ELSE d["old"]

Version(d) == LET f == Recovered(d) IN IF f = None THEN 0 ELSE f[2] + 1

Atomic == INSTANCE AtomicRestore WITH
    Last <- MaxRestores + 1, db <- Version(dir), may <- {Version(im) : im \in images},
    ack <- IF ack = None THEN 0 ELSE ack[2] + 1

\* installExactRestore and its recovery replace the database atomically: at every
\* moment a crash leads to the previous database or the new one, never to none or
\* to a mixture, and not back behind what was acknowledged.
ReplacesAtomically == Atomic!Spec

\* No interruption of a restore, of its recovery or of the recovery's recovery leaves
\* the Controller unable to start, except while the marker's first bytes are not yet
\* durable: RecoverInterruptedRestore then refuses, with the original in place.
StartRecovers ==
    pc = "refused" => dir["marker"] # None /\ text[Current] = "empty" /\ dir["live"] = T.original

\* A restore is reported done, and a database served, only from a directory that no
\* power loss turns into one with an unfinished transaction or another database:
\* farm.db changes from then on, and would match neither side of a marker.
SettledWhenUsed ==
    pc \in {"done", "serving"} =>
       \A im \in images : im["live"] = ack /\ im["old"] = None /\ im["marker"] = None
=============================================================================
