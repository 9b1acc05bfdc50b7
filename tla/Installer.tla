------------------------------- MODULE Installer -------------------------------
(***************************************************************************)
(* le0x-install: Install, its rollback, and Uninstall (internal/           *)
(* linuxinstall), on a host with a file system and systemd, where any step *)
(* may fail before or after it took effect and the program may be killed   *)
(* between two steps.                                                      *)
(*                                                                         *)
(* A step is one artifact or one systemctl call.  A replaced artifact is a *)
(* temporary file renamed over the target: it is the old or the new one,   *)
(* never half of it.  Directories, modes and owners are left out, and so   *)
(* are unsafe file kinds, which are failures of the step that finds them.  *)
(***************************************************************************)
EXTENDS Naturals, FiniteSets, SequencesExt

CONSTANTS
    Role,        \* the services: controller, agent
    Selections,  \* what --role may select: sequences of roles
    Devices,     \* GPU devices: [group, access]
    InitHost,    \* states in which the installer may find a host
    MaxRun,      \* bound on invocations
    MaxFaults    \* bound on failures, kills included

VARIABLES
    file,     \* content of each artifact
    copies,   \* rollback copies on disk: <<run, artifact, content>>
    svc,      \* what systemd says of each service
    account,  \* the le0x account: [exists, groups]
    run,      \* invocations so far
    phase,    \* what the program does
    todo,     \* steps of this phase still to do
    txn,      \* the installTransaction
    outcome,  \* how the last invocation ended
    faults,   \* failures so far
    start,    \* history: file when this invocation began
    settled   \* history: the artifacts of the last complete operation

host == <<file, copies, svc, account>>
history == <<start, settled>>
vars == <<host, run, phase, todo, txn, outcome, faults, history>>

(***************************************************************************)
(* Artifacts.  Absent is 0; a binary or a unit is the number of the        *)
(* version it belongs to, invocation n installing version n + 1; a         *)
(* configuration is the Default one or the operator's.                     *)
(***************************************************************************)
Absent == 0
Default == 1
Edited == 2
Version == run + 1
Content == 0..(MaxRun + 1)

Kinds == <<"binary", "unit", "config">>
Artifact == Role \X {"binary", "unit", "config"}
Unit(f, r) == f[<<r, "unit">>]

Artifacts(roles) ==
    FlattenSeq([i \in DOMAIN roles |-> [j \in DOMAIN Kinds |-> <<roles[i], Kinds[j]>>]])

\* The members of s that are in S, in their order: what a loop over s does not skip.
Those(s, S) == FlattenSeq([i \in DOMAIN s |-> IF s[i] \in S THEN <<s[i]>> ELSE <<>>])

Step(op, arg) == [op |-> op, arg |-> arg]
Steps(op, args) == [i \in DOMAIN args |-> Step(op, args[i])]

(***************************************************************************)
(* systemd.  loaded is the unit it holds in memory: a unit is loaded on    *)
(* demand, and disable may unload one that does not run.                   *)
(***************************************************************************)
Service == [enabled : BOOLEAN, active : BOOLEAN, failed : BOOLEAN, loaded : Content]

Known(r) == IF svc[r].loaded # Absent THEN svc[r].loaded ELSE Unit(file, r)

Accepted(op, r) ==
    /\ op \in {"enable", "start"} => Known(r) # Absent
    /\ op = "reset-failed" => svc[r].loaded # Absent

Set(r, s) == svc' = [svc EXCEPT ![r] = s]

Effect(op, r) ==
    LET s == svc[r]
    IN  \/ op = "enable" /\ Set(r, [s EXCEPT !.enabled = TRUE, !.loaded = Known(r)])
        \/ /\ op = "start"
           /\ Set(r, [s EXCEPT !.active = TRUE, !.failed = FALSE, !.loaded = Known(r)])
        \/ op = "stop" /\ Set(r, [s EXCEPT !.active = FALSE])
        \/ op = "reset-failed" /\ Set(r, [s EXCEPT !.failed = FALSE])
        \/ /\ op = "disable"
           /\ \/ Set(r, [s EXCEPT !.enabled = FALSE])
              \/ /\ ~s.active /\ ~s.failed
                 /\ Set(r, [s EXCEPT !.enabled = FALSE, !.loaded = Absent])

Fault == faults < MaxFaults /\ faults' = faults + 1
NoFault == UNCHANGED faults

\* A call is refused, fails, or fails after it took effect.
Systemctl(op, r, ok) ==
    \/ ok /\ Accepted(op, r) /\ Effect(op, r) /\ NoFault
    \/ ~ok /\ ~Accepted(op, r) /\ UNCHANGED svc /\ NoFault
    \/ ~ok /\ UNCHANGED svc /\ Fault
    \/ ~ok /\ Accepted(op, r) /\ Effect(op, r) /\ Fault

Reloaded ==
    [r \in Role |->
        [svc[r] EXCEPT !.loaded = IF Unit(file, r) = Absent /\ svc[r].active THEN @
                                  ELSE Unit(file, r)]]

DaemonReload(ok) ==
    \/ ok /\ svc' = Reloaded /\ NoFault
    \/ ~ok /\ UNCHANGED svc /\ Fault
    \/ ~ok /\ svc' = Reloaded /\ Fault

(***************************************************************************)
(* GPU access of the le0x account: the groups it lacks, when those are     *)
(* render and video only (planGPUAccess).                                  *)
(***************************************************************************)
Reaches(groups, d) ==
    d.access = "world" \/ (d.access = "group" /\ d.group \in groups)

Lacking == {d \in Devices : ~Reaches(account.groups, d)}

GPUAccess == \A d \in Lacking : d.access = "group" /\ d.group \in {"render", "video"}

(***************************************************************************)
(* The transaction: what was found, what was changed, what went wrong.     *)
(***************************************************************************)
Transaction(roles, enable, begin) ==
    [roles |-> roles, enable |-> enable, begin |-> begin,
     before |-> <<>>, original |-> <<>>,
     published |-> {}, failed |-> {}, enableTried |-> {}, startTried |-> {},
     withheld |-> FALSE, incomplete |-> FALSE, reloadOK |-> TRUE, view |-> <<>>]

\* f, and y of x when f says nothing of it yet.
Noted(f, x, y) == [z \in DOMAIN f \cup {x} |-> IF z \in DOMAIN f THEN f[z] ELSE y]

Own == {c \in copies : c[1] = run}

\* cleanupBackups: a copy that cannot be removed stays, and the directories of
\* the others are synced, which may fail when there were any.
CleanupBackups(kept) == copies' = copies \ (Own \ kept)
Kept == {{}} \cup {{c} : c \in Own}

\* Install's last loop, role after role.
EnableAndStart(roles, enable, begin) ==
    FlattenSeq([i \in DOMAIN roles |->
        (IF enable THEN <<Step("enable", roles[i])>> ELSE <<>>)
        \o (IF begin THEN <<Step("start", roles[i])>> ELSE <<>>)])

Prerequisites(roles) ==
    <<Step("account", "le0x")>>
    \o (IF "agent" \in ToSet(roles) THEN <<Step("gpu", "le0x")>> ELSE <<>>)

Publication(roles) == Steps("capture", Artifacts(roles)) \o Steps("publish", Artifacts(roles))

\* Mutant of InstallPlan: systemd is not reloaded.
PlanWithoutReload(roles, enable, begin) ==
    Prerequisites(roles)
    \o (IF enable THEN Steps("query", roles) ELSE <<>>)
    \o Publication(roles)
    \o EnableAndStart(roles, enable, begin)

\* Mutant of InstallPlan: units are looked at only when they are to be started.
PlanWithoutQuery(roles, enable, begin) ==
    Prerequisites(roles)
    \o (IF begin THEN Steps("query", roles) ELSE <<>>)
    \o Publication(roles)
    \o <<Step("reload", "systemd")>>
    \o EnableAndStart(roles, enable, begin)

InstallPlan(roles, enable, begin) ==
    Prerequisites(roles)
    \o (IF enable THEN Steps("query", roles) ELSE <<>>)
    \o Publication(roles)
    \o <<Step("reload", "systemd")>>
    \o EnableAndStart(roles, enable, begin)

UninstallPlan(roles) ==
    FlattenSeq([i \in DOMAIN roles |->
        <<Step("inspect", roles[i]), Step("stop", roles[i]), Step("reset-failed", roles[i]),
          Step("disable", roles[i]),
          Step("remove", <<roles[i], "unit">>), Step("remove", <<roles[i], "binary">>)>>])
    \o <<Step("reload", "systemd")>>
    \o Steps("verify", roles)

Invoke(p, plan, t) ==
    /\ phase = "idle" /\ run < MaxRun
    /\ run' = run + 1 /\ phase' = p /\ todo' = plan /\ txn' = t
    /\ outcome' = "running"
    /\ start' = file
    /\ UNCHANGED <<host, faults, settled>>

Install(roles, enable, begin) ==
    /\ begin => enable
    /\ Invoke("install", InstallPlan(roles, enable, begin), Transaction(roles, enable, begin))

Uninstall(roles) ==
    Invoke("uninstall", UninstallPlan(roles), Transaction(roles, FALSE, FALSE))

At(p, op) == phase = p /\ todo # <<>> /\ Head(todo).op = op
Arg == Head(todo).arg
Done(p) == phase = p /\ todo = <<>>

Continue == todo' = Tail(todo) /\ UNCHANGED <<run, phase, outcome, history>>
Finish(o) == phase' = "idle" /\ todo' = <<>> /\ outcome' = o /\ UNCHANGED run

(***************************************************************************)
(* Install.  Until the artifacts are captured a failure only removes the   *)
(* copies; after that it rolls the transaction back.                       *)
(***************************************************************************)
Refuse ==
    /\ \E kept \in Kept : CleanupBackups(kept)
    /\ Finish("refused")
    /\ UNCHANGED <<file, svc, txn, history>>

\* The services this transaction started: stopped before anything else.
StopPlan(t) ==
    Steps("stop", Those(Reverse(t.roles), {r \in t.startTried : ~t.before[r].active}))

RollBack(t) ==
    /\ txn' = t /\ phase' = "stopping" /\ todo' = StopPlan(t)
    /\ UNCHANGED <<run, outcome, history>>

ContinueOrRollBack(ok, t) == IF ok THEN txn' = t /\ Continue ELSE RollBack(t)

EnsureServiceAccount ==
    /\ At("install", "account")
    /\ \/ /\ account' = [account EXCEPT !.exists = TRUE]
          /\ NoFault /\ Continue /\ UNCHANGED <<file, copies, svc, txn>>
       \/ /\ account' \in {account, [account EXCEPT !.exists = TRUE]}
          /\ Fault /\ Refuse

EnsureGPUAccess ==
    /\ At("install", "gpu")
    /\ \/ /\ GPUAccess
          /\ account' = [account EXCEPT !.groups = @ \cup {d.group : d \in Lacking}]
          /\ \/ NoFault /\ Continue /\ UNCHANGED <<file, copies, svc, txn>>
             \/ Fault /\ Refuse
       \/ ~GPUAccess /\ NoFault /\ Refuse /\ UNCHANGED account
       \/ Fault /\ Refuse /\ UNCHANGED account

QueryService ==
    /\ At("install", "query")
    /\ \/ /\ txn' = [txn EXCEPT !.before = Noted(@, Arg, svc[Arg])]
          /\ NoFault /\ Continue /\ UNCHANGED host
       \/ Fault /\ Refuse /\ UNCHANGED account

CaptureArtifact ==
    /\ At("install", "capture")
    /\ \/ /\ txn' = [txn EXCEPT !.original = Noted(@, Arg, file[Arg])]
          /\ copies' = copies \cup {<<run, Arg, c>> : c \in {file[Arg]} \ {Absent}}
          /\ NoFault /\ Continue /\ UNCHANGED <<file, svc, account>>
       \/ Fault /\ Refuse /\ UNCHANGED account

\* replaceFrom of binaries and units.
ReplaceFile ==
    LET t == [txn EXCEPT !.published = @ \cup {Arg}]
    IN  /\ At("install", "publish") /\ Arg[2] # "config"
        /\ \/ /\ file' = [file EXCEPT ![Arg] = Version]
              /\ \/ NoFault /\ ContinueOrRollBack(TRUE, t)
                 \/ Fault /\ RollBack(t)
           \/ Fault /\ RollBack(txn) /\ UNCHANGED file
        /\ UNCHANGED <<copies, svc, account>>

\* createPreservedFile of the configuration: one that exists stays.  When the
\* temporary name cannot be removed after the link, nothing is marked.
CreatePreservedFile ==
    LET t == [txn EXCEPT !.published = @ \cup {Arg}]
    IN  /\ At("install", "publish") /\ Arg[2] = "config"
        /\ \/ file[Arg] # Absent /\ NoFault /\ Continue /\ UNCHANGED <<file, txn>>
           \/ /\ file[Arg] = Absent
              /\ file' = [file EXCEPT ![Arg] = Default]
              /\ \/ NoFault /\ ContinueOrRollBack(TRUE, t)
                 \/ Fault /\ RollBack(t)
                 \/ Fault /\ RollBack(txn)
           \/ Fault /\ RollBack(txn) /\ UNCHANGED file
        /\ UNCHANGED <<copies, svc, account>>

ReloadUnits ==
    /\ At("install", "reload")
    /\ \E ok \in BOOLEAN : DaemonReload(ok) /\ ContinueOrRollBack(ok, txn)
    /\ UNCHANGED <<file, copies, account>>

\* Mutant of EnableService: marked when systemd has accepted.
EnableThenMark ==
    /\ At("install", "enable")
    /\ \E ok \in BOOLEAN :
          /\ Systemctl("enable", Arg, ok)
          /\ ContinueOrRollBack(ok, [txn EXCEPT !.enableTried = IF ok THEN @ \cup {Arg} ELSE @])
    /\ UNCHANGED <<file, copies, account>>

\* performServiceAction: marked as attempted before systemd is asked.
EnableService ==
    /\ At("install", "enable")
    /\ \E ok \in BOOLEAN :
          /\ Systemctl("enable", Arg, ok)
          /\ ContinueOrRollBack(ok, [txn EXCEPT !.enableTried = @ \cup {Arg}])
    /\ UNCHANGED <<file, copies, account>>

StartService ==
    /\ At("install", "start")
    /\ \E ok \in BOOLEAN :
          /\ Systemctl("start", Arg, ok)
          /\ ContinueOrRollBack(ok, [txn EXCEPT !.startTried = @ \cup {Arg}])
    /\ UNCHANGED <<file, copies, account>>

Commit ==
    /\ Done("install")
    /\ \E kept \in Kept :
          /\ CleanupBackups(kept)
          /\ \/ kept = {} /\ Finish("installed")
             \/ Own # {} /\ Finish("cleanup failed")
    /\ settled' = [a \in Artifact |-> IF a[1] \in ToSet(txn.roles) THEN file[a] ELSE settled[a]]
    /\ UNCHANGED <<file, svc, account, txn, faults, start>>

(***************************************************************************)
(* rollback.                                                               *)
(***************************************************************************)
StopStarted ==
    /\ At("stopping", "stop")
    /\ \E ok \in BOOLEAN :
          /\ Systemctl("stop", Arg, ok)
          /\ txn' = [txn EXCEPT !.withheld = @ \/ ~ok]
    /\ Continue /\ UNCHANGED <<file, copies, account>>

EnablementPlan ==
    Steps("enablement", Those(Reverse(txn.roles), txn.enableTried))

\* A service that may run keeps the artifacts it runs.
WithholdArtifacts ==
    /\ Done("stopping") /\ txn.withheld
    /\ phase' = "enablement" /\ todo' = EnablementPlan
    /\ UNCHANGED <<host, run, txn, outcome, faults, history>>

\* Mutant of RestoreArtifacts: whatever could not be stopped.
RestoreAnyway ==
    /\ Done("stopping")
    /\ phase' = "restoring"
    /\ todo' = Steps("restore", Those(Reverse(Artifacts(txn.roles)), txn.published))
    /\ UNCHANGED <<host, run, txn, outcome, faults, history>>

RestoreArtifacts ==
    /\ Done("stopping") /\ ~txn.withheld
    /\ phase' = "restoring"
    /\ todo' = Steps("restore", Those(Reverse(Artifacts(txn.roles)), txn.published))
    /\ UNCHANGED <<host, run, txn, outcome, faults, history>>

\* The original is renamed over the target, or the target removed; the
\* directory's sync may still fail.
RestoreArtifact ==
    /\ At("restoring", "restore")
    /\ \/ /\ file' = [file EXCEPT ![Arg] = txn.original[Arg]]
          /\ \/ NoFault /\ UNCHANGED txn
             \/ Fault /\ txn' = [txn EXCEPT !.failed = @ \cup {Arg}]
       \/ UNCHANGED file /\ Fault /\ txn' = [txn EXCEPT !.failed = @ \cup {Arg}]
    /\ Continue /\ UNCHANGED <<copies, svc, account>>

ReloadRestored ==
    /\ Done("restoring")
    /\ phase' = "enablement" /\ todo' = EnablementPlan
    /\ IF txn.published = {}
       THEN UNCHANGED <<svc, txn>> /\ NoFault
       ELSE \E ok \in BOOLEAN : DaemonReload(ok) /\ txn' = [txn EXCEPT !.reloadOK = ok]
    /\ UNCHANGED <<file, copies, account, run, outcome, history>>

RestoreEnablement ==
    /\ At("enablement", "enablement")
    /\ \E ok \in BOOLEAN :
          /\ Systemctl(IF txn.before[Arg].enabled THEN "enable" ELSE "disable", Arg, ok)
          /\ txn' = [txn EXCEPT !.incomplete = @ \/ ~ok]
    /\ Continue /\ UNCHANGED <<file, copies, account>>

AllRestored == ~txn.withheld /\ txn.failed = {} /\ txn.reloadOK

RestoreActiveStates ==
    /\ Done("enablement") /\ AllRestored
    /\ phase' = "activity"
    /\ todo' = Steps("activity", Those(Reverse(txn.roles), txn.startTried))
    /\ UNCHANGED <<host, run, txn, outcome, faults, history>>

RestoreActiveState ==
    /\ At("activity", "activity")
    /\ \E ok \in BOOLEAN :
          /\ Systemctl(IF txn.before[Arg].active THEN "start" ELSE "stop", Arg, ok)
          /\ txn' = [txn EXCEPT !.incomplete = @ \/ ~ok]
    /\ Continue /\ UNCHANGED <<file, copies, account>>

\* Mutant of EndIncomplete: the copies are removed all the same.
EndCleaned ==
    /\ \/ Done("enablement") /\ ~AllRestored
       \/ Done("activity") /\ txn.incomplete
    /\ CleanupBackups({}) /\ Finish("incomplete")
    /\ UNCHANGED <<file, svc, account, txn, faults, history>>

\* The copies are retained for manual recovery.
EndIncomplete ==
    /\ \/ Done("enablement") /\ ~AllRestored
       \/ Done("activity") /\ txn.incomplete
    /\ Finish("incomplete")
    /\ UNCHANGED <<host, txn, faults, history>>

EndRolledBack ==
    /\ Done("activity") /\ ~txn.incomplete
    /\ \E kept \in Kept :
          /\ CleanupBackups(kept)
          /\ \/ kept = {} /\ Finish("rolled back")
             \/ Own # {} /\ Finish("incomplete")
    /\ UNCHANGED <<file, svc, account, txn, faults, history>>

(***************************************************************************)
(* Uninstall: each service is brought to rest before its unit is removed.  *)
(***************************************************************************)
Fail == Finish("failed") /\ UNCHANGED history

Proceed(ok) == IF ok THEN Continue ELSE Fail

\* The state read last, after the call.
View == txn' = [txn EXCEPT !.view = svc'[Arg]]

\* Mutant of InspectService: a role whose unit is gone is taken for removed.
InspectUnit ==
    /\ At("uninstall", "inspect")
    /\ UNCHANGED svc /\ View /\ NoFault
    /\ IF Unit(file, Arg) = Absent
       THEN todo' = SubSeq(todo, 7, Len(todo)) /\ UNCHANGED <<run, phase, outcome, history>>
       ELSE Continue
    /\ UNCHANGED <<file, copies, account>>

InspectService ==
    /\ At("uninstall", "inspect")
    /\ UNCHANGED svc /\ View
    /\ \/ NoFault /\ Proceed(svc[Arg].failed => svc[Arg].loaded # Absent)
       \/ Fault /\ Fail
    /\ UNCHANGED <<file, copies, account>>

\* One systemctl call, made where the last state read needs it, and the read
\* of what it led to.
Converge(op, needed, reached) ==
    /\ At("uninstall", op)
    /\ IF needed
       THEN \E ok \in BOOLEAN :
                Systemctl(op, Arg, ok) /\ View /\ Proceed(ok /\ txn'.view \in reached)
       ELSE UNCHANGED svc /\ NoFault /\ UNCHANGED txn /\ Proceed(txn.view \in reached)
    /\ UNCHANGED <<file, copies, account>>

StopService == Converge("stop", txn.view.active, {v \in Service : ~v.active})

ResetFailed == Converge("reset-failed", txn.view.failed, {v \in Service : ~v.failed})

DisableService ==
    Converge("disable", txn.view.enabled, {v \in Service : ~v.active /\ ~v.enabled})

RemoveInfrastructure ==
    /\ At("uninstall", "remove")
    /\ \/ /\ file' = [file EXCEPT ![Arg] = Absent]
          /\ settled' = [settled EXCEPT ![Arg] = Absent]
          /\ \/ NoFault /\ todo' = Tail(todo) /\ UNCHANGED <<run, phase, outcome>>
             \/ Fault /\ Finish("failed")
       \/ UNCHANGED <<file, settled>> /\ Fault /\ Finish("failed")
    /\ UNCHANGED <<copies, svc, account, txn, start>>

ReloadRemoved ==
    /\ At("uninstall", "reload")
    /\ \E ok \in BOOLEAN : DaemonReload(ok) /\ Proceed(ok)
    /\ UNCHANGED <<file, copies, account, txn>>

VerifyRemoved ==
    /\ At("uninstall", "verify")
    /\ \/ NoFault /\ LET s == svc[Arg]
                     IN  Proceed(~s.active /\ ~s.enabled /\ s.loaded = Absent /\ ~s.failed)
       \/ Fault /\ Fail
    /\ UNCHANGED <<host, txn>>

EndUninstalled ==
    /\ Done("uninstall")
    /\ Finish("uninstalled")
    /\ UNCHANGED <<host, txn, faults, history>>

(***************************************************************************)
(* The host.                                                               *)
(***************************************************************************)
\* The program is killed, or the machine stops.
Kill ==
    /\ phase # "idle"
    /\ Fault /\ Finish("killed")
    /\ UNCHANGED <<host, txn, history>>

\* A service fails, restarts included (StartLimitBurst).
ServiceFails ==
    /\ \E r \in Role : svc[r].active /\ Set(r, [svc[r] EXCEPT !.active = FALSE, !.failed = TRUE])
    /\ UNCHANGED <<file, copies, account, run, phase, todo, txn, outcome, faults, history>>

\* The operator fills in a configuration, while no installer runs.
EditConfiguration ==
    /\ phase = "idle" /\ run < MaxRun
    /\ \E r \in Role :
          /\ file[<<r, "config">>] = Default
          /\ file' = [file EXCEPT ![<<r, "config">>] = Edited]
          /\ settled' = [settled EXCEPT ![<<r, "config">>] = Edited]
    /\ UNCHANGED <<copies, svc, account, run, phase, todo, txn, outcome, faults, start>>

Init ==
    /\ \E h \in InitHost : file = h.file /\ svc = h.svc /\ account = h.account
    /\ copies = {} /\ run = 0 /\ phase = "idle" /\ todo = <<>>
    /\ txn = Transaction(<<>>, FALSE, FALSE) /\ outcome = "none" /\ faults = 0
    /\ start = file /\ settled = file

RunInstall ==
    \/ EnsureServiceAccount \/ EnsureGPUAccess \/ QueryService \/ CaptureArtifact
    \/ ReplaceFile \/ CreatePreservedFile \/ ReloadUnits \/ EnableService \/ StartService
    \/ Commit

Rollback ==
    \/ StopStarted \/ WithholdArtifacts \/ RestoreArtifacts \/ RestoreArtifact \/ ReloadRestored
    \/ RestoreEnablement \/ RestoreActiveStates \/ RestoreActiveState
    \/ EndIncomplete \/ EndRolledBack

RunUninstall ==
    \/ InspectService \/ StopService \/ ResetFailed \/ DisableService \/ RemoveInfrastructure
    \/ ReloadRemoved \/ VerifyRemoved \/ EndUninstalled

Next ==
    \/ \E roles \in Selections, enable, begin \in BOOLEAN : Install(roles, enable, begin)
    \/ \E roles \in Selections : Uninstall(roles)
    \/ RunInstall \/ Rollback \/ RunUninstall
    \/ Kill \/ ServiceFails \/ EditConfiguration

Spec == Init /\ [][Next]_vars

(***************************************************************************)
(* Properties.                                                             *)
(***************************************************************************)
Phase == {"idle", "install", "stopping", "restoring", "enablement", "activity", "uninstall"}

InstallerTypeOK ==
    /\ file \in [Artifact -> Content] /\ settled \in [Artifact -> Content]
    /\ copies \subseteq (1..MaxRun) \X Artifact \X (Content \ {Absent})
    /\ svc \in [Role -> Service]
    /\ account.exists \in BOOLEAN /\ account.groups \subseteq {d.group : d \in Devices}
    /\ run \in 0..MaxRun /\ faults \in 0..MaxFaults /\ phase \in Phase
    /\ txn.published \subseteq DOMAIN txn.original /\ txn.failed \subseteq txn.published
    /\ txn.enableTried \cup txn.startTried \subseteq DOMAIN txn.before
    /\ phase = "idle" => todo = <<>>

Ends(o) == outcome = "running" /\ outcome' = o

\* An Install that fails and reports no more than its cause left the host as it
\* found it: the artifacts, what systemd holds of them, enablement and activity,
\* and no copies.  (A configuration whose temporary name could not be removed
\* is the exception, see CreatePreservedFile.)
RollbackIsExact ==
    [][Ends("rolled back") =>
          /\ \A a \in DOMAIN txn.original :
                \/ file'[a] = start[a]
                \/ a[2] = "config" /\ a \notin txn.published /\ file'[a] = Default
          /\ \A r \in DOMAIN txn.before :
                LET was == txn.before[r]
                    is == svc'[r]
                IN  /\ is.enabled = was.enabled
                    /\ IF was.active THEN is.active \/ is.failed ELSE ~is.active
          /\ txn.published # {} =>
                \A r \in ToSet(txn.roles) : svc'[r].loaded \in {Absent, Unit(file', r)}
          /\ \A c \in copies' : c[1] # run]_vars

\* Whatever fails, and wherever the program is killed, also while it rolls back
\* or is run again on what it left: the artifacts of the last complete operation
\* are on disk, in place or as rollback copies.
OriginalsSurvive ==
    \A a \in Artifact :
        \/ settled[a] \in {Absent, file[a]}
        \/ \E n \in 1..MaxRun : <<n, a, settled[a]>> \in copies

\* No artifact is put back under a service that the transaction started and
\* could not stop, nor removed under one that runs or would be started at boot.
ReplacedAtRest ==
    [][/\ phase = "restoring" /\ file' # file =>
             \A r \in txn.startTried : txn.before[r].active \/ ~svc[r].active
       /\ phase = "uninstall" =>
             \A a \in Artifact :
                file'[a] # file[a] => ~svc[a[1]].active /\ ~svc[a[1]].enabled]_vars

\* A completed Install installed one version of everything, systemd holds the
\* units it installed when it enables and starts them, and the Agent reaches
\* the GPUs.
InstalledIsOneVersion ==
    [][Ends("installed") =>
          \A r \in ToSet(txn.roles) :
              /\ file'[<<r, "binary">>] = Version /\ Unit(file', r) = Version
              /\ file'[<<r, "config">>] # Absent
              /\ svc'[r].loaded = Version
              /\ txn.enable => svc'[r].enabled
              /\ txn.begin => svc'[r].active \/ svc'[r].failed
              /\ r = "agent" => \A d \in Devices : Reaches(account.groups, d)]_vars

\* A completed Uninstall leaves no unit, no binary and no service state, however
\* often it was interrupted before.
UninstallLeavesNothing ==
    [][Ends("uninstalled") =>
          \A r \in ToSet(txn.roles) :
              /\ file'[<<r, "binary">>] = Absent /\ Unit(file', r) = Absent
              /\ svc'[r] = [enabled |-> FALSE, active |-> FALSE, failed |-> FALSE,
                            loaded |-> Absent]]_vars

(***************************************************************************)
(* The constants: roles are selected in an order, and hosts are typed.     *)
(***************************************************************************)
ASSUME InstallerAssumption ==
    /\ MaxRun \in Nat /\ MaxFaults \in Nat
    /\ Selections \subseteq Seq(Role)
    /\ \A h \in InitHost :
          /\ h.file \in [Artifact -> Content] /\ h.svc \in [Role -> Service]
          /\ h.account \in [exists : BOOLEAN, groups : SUBSET {d.group : d \in Devices}]

\* The installer finds no service that runs without a unit.
RunningHaveUnits == \A h \in InitHost, r \in Role : h.svc[r].active => Unit(h.file, r) # Absent
================================================================================
