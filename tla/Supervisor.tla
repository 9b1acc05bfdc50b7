------------------------------ MODULE Supervisor ------------------------------
(***************************************************************************)
(* The Agent's process supervisor (src/internal/runtime/supervisor).       *)
(*                                                                         *)
(* Every critical section of Supervisor.mu is one step; what a goroutine   *)
(* does between two critical sections (the start validator, the wait for   *)
(* the done channel, the watchdog's backoff timer) is a program counter.   *)
(* Goroutines that call the API are Callers; each started process has a    *)
(* wait goroutine, and each crash may leave a watchdog goroutine behind.   *)
(*                                                                         *)
(* The field generation of an execution grows on every start, so the pair  *)
(* <<execution, generation>> names the process started for it: it stands   *)
(* for the *exec.Cmd, the pid and the done channel of that process.        *)
(***************************************************************************)
EXTENDS Integers, FiniteSets

CONSTANTS
    Exec,             \* ExecutionIDs, naturals: ApplyMaintenanceHold sorts them
    CommandThreads,   \* goroutines that call Start, Stop and Restart
    HoldThreads,      \* goroutines that call ApplyMaintenanceHold
    ShutdownThreads,  \* goroutines that call Shutdown
    OnFailure,        \* the executions whose RestartPolicy is ON_FAILURE
    CrashLimit,       \* Config.CrashLimit
    MaxRevision,      \* bound: largest hold revision a caller sends
    Fuel              \* bound: API calls plus spontaneous process exits

Caller == CommandThreads \cup HoldThreads \cup ShutdownThreads

ASSUME SupervisorAssumption ==
    /\ Exec \subseteq Nat
    /\ OnFailure \subseteq Exec
    /\ CrashLimit \in Nat \ {0}
    /\ MaxRevision \in Nat
    /\ Fuel \in Nat
    /\ "watchdog" \notin Caller

VARIABLES
    exec,          \* the executions map: one record per ExecutionID
    alive,         \* processes the kernel runs, as <<execution, generation>>
    zombies,       \* exited processes whose wait goroutine has not locked yet
    doneClosed,    \* processes whose done channel is closed
    signalled,     \* processes that were sent SIGTERM and, after StopGrace, SIGKILL
    starts,        \* goroutines inside startExisting or a watchdog backoff
    call,          \* what each Caller is doing
    maintenance,   \* Supervisor.maintenance
    holdRevision,  \* Supervisor.holdRevision
    closed,        \* Supervisor.closed
    acked,         \* largest hold revision whose call has returned to the Controller
    fuel           \* what is left of Fuel

vars == <<exec, alive, zombies, doneClosed, signalled, starts, call,
          maintenance, holdRevision, closed, acked, fuel>>

States == {"NONE", "STARTING", "RUNNING", "STOPPING", "STOPPED",
           "BACKOFF", "CRASHED", "FAILED"}

\* The execution struct; cmd and done are named by the generation they belong to.
ExecRec == [state : States, desired : BOOLEAN, generation : Nat,
            cmd : Nat, pid : Nat, crashes : Nat, backoff : Nat]

StartRec == [by : Caller \cup {"watchdog"}, exec : Exec, gen : Nat,
             phase : {"sleep", "fired", "check", "validate", "commit", "rejected"}]

CallRec == [pc : {"idle", "starting", "stopping", "next", "restart", "down"},
            op : {"none", "start", "stop", "restart", "hold", "shutdown"},
            exec : Exec \cup {0}, cmd : Nat, todo : SUBSET Exec, rev : Nat]

\* A caller inside Stop, or inside Restart, is bound to an execution.
NamesExecution(r) == r.pc \in {"stopping", "restart"} \/ r.op = "restart"

\* An ExecutionID the map has no entry for.
NoExecution == [state |-> "NONE", desired |-> FALSE, generation |-> 0,
                cmd |-> 0, pid |-> 0, crashes |-> 0, backoff |-> 0]

Idle == [pc |-> "idle", op |-> "none", exec |-> 0, cmd |-> 0, todo |-> {}, rev |-> 0]

Init ==
    /\ exec = [e \in Exec |-> NoExecution]
    /\ alive = {} /\ zombies = {} /\ doneClosed = {} /\ signalled = {}
    /\ starts = {}
    /\ call = [c \in Caller |-> Idle]
    /\ maintenance = FALSE /\ holdRevision = 0 /\ closed = FALSE
    /\ acked = 0
    /\ fuel = Fuel

processVars == <<alive, zombies, doneClosed, signalled>>
holdVars == <<maintenance, holdRevision, acked>>

Return(by) == IF by \in Caller THEN [call EXCEPT ![by] = Idle] ELSE call

-----------------------------------------------------------------------------
(***************************************************************************)
(* Start: the critical section that accepts or refuses a START.            *)
(***************************************************************************)
AlreadyRunning(e) ==
    exec[e].desired /\ exec[e].state \in {"RUNNING", "STARTING", "BACKOFF"}

\* cancelBackoff closes the channel the execution's sleeping watchdog selects on.
CancelBackoff(e) ==
    {s \in starts : s.phase = "sleep" /\ s.exec = e /\ s.gen = exec[e].backoff}

\* Mutant of NextGeneration: a START reuses the generation of the last one.
NextGenerationSame(e) == IF exec[e].state = "NONE" THEN 1 ELSE exec[e].generation

NextGeneration(e) == exec[e].generation + 1

AcceptStart(c, e) ==
    /\ ~closed /\ ~maintenance /\ ~AlreadyRunning(e)
    /\ LET gen == NextGeneration(e)
       IN  /\ exec' = [exec EXCEPT ![e] =
                IF @.state = "NONE"
                THEN [@ EXCEPT !.state = "STARTING", !.desired = TRUE, !.generation = 1]
                ELSE [@ EXCEPT !.desired = TRUE, !.generation = gen,
                               !.crashes = 0, !.backoff = 0]]
           /\ starts' = (starts \ CancelBackoff(e))
                          \cup {[by |-> c, exec |-> e, gen |-> gen, phase |-> "check"]}
    /\ call' = [call EXCEPT ![c] = [Idle EXCEPT !.pc = "starting", !.op = "start", !.exec = e]]
    /\ UNCHANGED <<processVars, holdVars, closed>>

\* A client's START; a refused one returns without touching the map.
Start(c, e) ==
    /\ c \in CommandThreads /\ call[c].pc = "idle"
    /\ fuel > 0 /\ fuel' = fuel - 1
    /\ AcceptStart(c, e)

-----------------------------------------------------------------------------
(***************************************************************************)
(* startExisting, shared by Start, Restart and the watchdog.               *)
(***************************************************************************)
\* Mutant of Current: the generation check is dropped.
CurrentAnyGeneration(s) == exec[s.exec].desired

Current(s) == exec[s.exec].desired /\ exec[s.exec].generation = s.gen

Advance(s, phase) == starts' = (starts \ {s}) \cup {[s EXCEPT !.phase = phase]}

Leave(s) ==
    /\ starts' = starts \ {s}
    /\ call' = Return(s.by)

CheckStart(s) ==
    /\ s \in starts /\ s.phase = "check"
    /\ IF Current(s)
       THEN Advance(s, "validate") /\ call' = call
       ELSE Leave(s)
    /\ UNCHANGED <<exec, processVars, holdVars, closed, fuel>>

\* The installed validator takes the binding lease (Manager.bindingStartMu); an
\* accepted start keeps it until startExisting returns.
\* Its verdict is modelled, and not that it stops executions whose GPUs are gone.
LeaseFree == \A s \in starts : s.phase # "commit"

ValidateStart(s) ==
    /\ s \in starts /\ s.phase = "validate"
    /\ LeaseFree
    /\ \E verdict \in {"commit", "rejected"} : Advance(s, verdict)
    /\ UNCHANGED <<exec, processVars, call, holdVars, closed, fuel>>

\* Mutant of RejectStart: the failed validation is not recorded.
RejectStartSilently(s) ==
    /\ s \in starts /\ s.phase = "rejected"
    /\ Leave(s)
    /\ UNCHANGED <<exec, processVars, holdVars, closed, fuel>>

RejectStart(s) ==
    /\ s \in starts /\ s.phase = "rejected"
    /\ exec' = IF Current(s) /\ ~closed
               THEN [exec EXCEPT ![s.exec] = [@ EXCEPT !.desired = FALSE, !.state = "FAILED"]]
               ELSE exec
    /\ Leave(s)
    /\ UNCHANGED <<processVars, holdVars, closed, fuel>>

CommitSuppressed(s) ==
    /\ s \in starts /\ s.phase = "commit"
    /\ maintenance
    /\ exec' = [exec EXCEPT ![s.exec] = [@ EXCEPT !.desired = FALSE, !.state = "STOPPED",
                                        !.generation = exec[s.exec].generation + 1]]
    /\ Leave(s)
    /\ UNCHANGED <<processVars, holdVars, closed, fuel>>

CommitSuperseded(s) ==
    /\ s \in starts /\ s.phase = "commit"
    /\ ~maintenance
    /\ ~Current(s) \/ closed
    /\ Leave(s)
    /\ UNCHANGED <<exec, processVars, holdVars, closed, fuel>>

\* cmd.Start succeeds: the process is created inside the critical section.
CommitSpawn(s) ==
    /\ s \in starts /\ s.phase = "commit"
    /\ ~maintenance /\ Current(s) /\ ~closed
    /\ exec' = [exec EXCEPT ![s.exec] = [@ EXCEPT !.state = "RUNNING",
                                                   !.cmd = s.gen, !.pid = s.gen]]
    /\ alive' = alive \cup {<<s.exec, s.gen>>}
    /\ Leave(s)
    /\ UNCHANGED <<zombies, doneClosed, signalled, holdVars, closed, fuel>>

CommitSpawnFails(s) ==
    /\ s \in starts /\ s.phase = "commit"
    /\ ~maintenance /\ Current(s) /\ ~closed
    /\ exec' = [exec EXCEPT ![s.exec] = [@ EXCEPT !.state = "FAILED", !.desired = FALSE,
                                                   !.cmd = s.gen]]
    /\ doneClosed' = doneClosed \cup {<<s.exec, s.gen>>}
    /\ Leave(s)
    /\ UNCHANGED <<alive, zombies, signalled, holdVars, closed, fuel>>

-----------------------------------------------------------------------------
(***************************************************************************)
(* Processes exit, and wait reaps them.                                    *)
(***************************************************************************)
\* The kernel ends a process: on its own, or because Stop signalled it.
Exit(p) ==
    /\ p \in alive
    /\ \/ p \in signalled /\ fuel' = fuel
       \/ p \notin signalled /\ fuel > 0 /\ fuel' = fuel - 1
    /\ alive' = alive \ {p}
    /\ zombies' = zombies \cup {p}
    /\ UNCHANGED <<exec, doneClosed, signalled, starts, call, holdVars, closed>>

\* Mutant of Owns: wait gives up on an execution that is no longer desired.
OwnsDesired(p) ==
    exec[p[1]].cmd = p[2] /\ exec[p[1]].generation = p[2] /\ exec[p[1]].desired

Owns(p) == exec[p[1]].cmd = p[2] /\ exec[p[1]].generation = p[2]

WaitSuperseded(p) ==
    /\ p \in zombies /\ ~Owns(p)
    /\ zombies' = zombies \ {p}
    /\ UNCHANGED <<exec, alive, doneClosed, signalled, starts, call, holdVars, closed, fuel>>

Reap(p) ==
    /\ p \in zombies /\ Owns(p)
    /\ zombies' = zombies \ {p}
    /\ doneClosed' = doneClosed \cup {p}
    /\ UNCHANGED <<alive, signalled, call, holdVars, closed, fuel>>

WaitStopped(p) ==
    /\ Reap(p)
    /\ ~exec[p[1]].desired
    /\ exec' = [exec EXCEPT ![p[1]] = [@ EXCEPT !.pid = 0, !.state = "STOPPED"]]
    /\ UNCHANGED starts

\* Mutant of CrashCount: off by two.
CrashCountOff(kept) == kept - 1

\* Crashes older than CrashWindow are dropped before this one is counted.
CrashCount(kept) == kept + 1

WaitCrashed(p) ==
    /\ Reap(p)
    /\ exec[p[1]].desired
    /\ \E kept \in 0 .. exec[p[1]].crashes :
        LET e == p[1]
            crashes == CrashCount(kept)
            next == exec[e].generation + 1
        IN  \/ /\ e \notin OnFailure
               /\ exec' = [exec EXCEPT ![e] = [@ EXCEPT !.pid = 0, !.crashes = crashes,
                                                     !.desired = FALSE, !.state = "CRASHED"]]
               /\ UNCHANGED starts
            \/ /\ e \in OnFailure /\ crashes >= CrashLimit
               /\ exec' = [exec EXCEPT ![e] = [@ EXCEPT !.pid = 0, !.crashes = crashes,
                                                     !.desired = FALSE, !.state = "FAILED"]]
               /\ UNCHANGED starts
            \/ /\ e \in OnFailure /\ crashes < CrashLimit
               /\ exec' = [exec EXCEPT ![e] = [@ EXCEPT !.pid = 0, !.crashes = crashes,
                                                     !.state = "BACKOFF", !.generation = next,
                                                     !.backoff = next]]
               /\ starts' = starts \cup
                    {[by |-> "watchdog", exec |-> e, gen |-> next, phase |-> "sleep"]}

\* The backoff timer wins the watchdog's select.
WatchdogFires(s) ==
    /\ s \in starts /\ s.phase = "sleep"
    /\ Advance(s, "fired")
    /\ UNCHANGED <<exec, processVars, call, holdVars, closed, fuel>>

WatchdogRestarts(s) ==
    /\ s \in starts /\ s.phase = "fired"
    /\ exec' = [exec EXCEPT ![s.exec] =
                  [@ EXCEPT !.backoff = IF exec[s.exec].backoff = s.gen
                                        THEN 0 ELSE exec[s.exec].backoff]]
    /\ IF Current(s) /\ ~closed
       THEN Advance(s, "check")
       ELSE starts' = starts \ {s}
    /\ UNCHANGED <<processVars, call, holdVars, closed, fuel>>

-----------------------------------------------------------------------------
(***************************************************************************)
(* Stop, and the operations built from it.                                 *)
(***************************************************************************)
\* After a Stop returns: Restart goes on to its Start, ApplyMaintenanceHold and
\* Shutdown go on to their next execution, a plain Stop returns to its client.
AfterStop(r) ==
    CASE r.op = "restart"            -> [r EXCEPT !.pc = "restart", !.cmd = 0]
      [] r.op \in {"hold", "shutdown"} -> [r EXCEPT !.pc = "next", !.exec = 0, !.cmd = 0]
      [] OTHER                       -> Idle

\* The first critical section of Stop(e) run by caller c, whose record is then r.
StopSection(c, e, r) ==
    /\ starts' = starts \ CancelBackoff(e)
    /\ IF exec[e].state = "STOPPED" \/ exec[e].pid = 0
       THEN /\ exec' = [exec EXCEPT ![e] = [@ EXCEPT !.desired = FALSE, !.backoff = 0,
                                                  !.generation = exec[e].generation + 1,
                                                  !.state = "STOPPED"]]
            /\ call' = [call EXCEPT ![c] = AfterStop(r)]
            /\ UNCHANGED signalled
       ELSE /\ exec' = [exec EXCEPT ![e] = [@ EXCEPT !.desired = FALSE, !.backoff = 0,
                                                  !.state = "STOPPING"]]
            /\ signalled' = signalled \cup {<<e, exec[e].pid>>}
            /\ call' = [call EXCEPT ![c] =
                   [r EXCEPT !.pc = "stopping", !.exec = e, !.cmd = exec[e].cmd]]
    /\ UNCHANGED <<alive, zombies, doneClosed, holdVars, closed>>

\* An ExecutionID the map does not know is reported STOPPED and nothing changes.
Stop(c, e) ==
    /\ c \in CommandThreads /\ call[c].pc = "idle"
    /\ exec[e].state # "NONE"
    /\ fuel > 0 /\ fuel' = fuel - 1
    /\ StopSection(c, e, [Idle EXCEPT !.op = "stop"])

\* Mutant of ProcessGone: Stop returns after SIGKILL without receiving from done.
ProcessGoneAssumed(c) == TRUE

ProcessGone(c) == <<call[c].exec, call[c].cmd>> \in doneClosed

\* <-done, then the last critical section of Stop.
FinishStop(c) ==
    /\ call[c].pc = "stopping"
    /\ ProcessGone(c)
    /\ exec' = [exec EXCEPT ![call[c].exec] = [@ EXCEPT !.state = "STOPPED", !.pid = 0]]
    /\ call' = [call EXCEPT ![c] = AfterStop(@)]
    /\ UNCHANGED <<processVars, starts, holdVars, closed, fuel>>

Restart(c, e) ==
    /\ c \in CommandThreads /\ call[c].pc = "idle"
    /\ exec[e].state # "NONE"
    /\ fuel > 0 /\ fuel' = fuel - 1
    /\ StopSection(c, e, [Idle EXCEPT !.op = "restart", !.exec = e])

RestartStart(c) ==
    /\ call[c].pc = "restart"
    /\ \/ AcceptStart(c, call[c].exec)
       \/ /\ closed \/ maintenance \/ AlreadyRunning(call[c].exec)
          /\ call' = [call EXCEPT ![c] = Idle]
          /\ UNCHANGED <<exec, processVars, starts, holdVars, closed>>
    /\ UNCHANGED fuel

-----------------------------------------------------------------------------
(***************************************************************************)
(* Maintenance Hold and shutdown.                                          *)
(***************************************************************************)
\* Mutant of HoldTargets: executions that are already stopping are not waited for.
HoldTargetsDesired == {e \in Exec : exec[e].desired}

HoldTargets ==
    {e \in Exec : exec[e].desired \/ exec[e].state \notin {"NONE", "STOPPED"}}

\* A revision below the current one, or the current one with the other value,
\* is refused and changes nothing, so such a call is a stuttering step.
ApplyMaintenanceHold(c, active, revision) ==
    /\ c \in HoldThreads /\ call[c].pc = "idle"
    /\ fuel > 0 /\ fuel' = fuel - 1
    /\ revision > holdRevision \/ (revision = holdRevision /\ active = maintenance)
    /\ holdRevision' = revision
    /\ maintenance' = active
    /\ call' = [call EXCEPT ![c] =
                  [Idle EXCEPT !.pc = "next", !.op = "hold", !.rev = revision,
                               !.todo = IF active THEN HoldTargets ELSE {}]]
    /\ UNCHANGED <<exec, processVars, starts, closed, acked>>

\* Mutant of ShutdownTargets: only executions reported RUNNING are stopped.
ShutdownTargetsRunning == {e \in Exec : exec[e].state = "RUNNING"}

ShutdownTargets == {e \in Exec : exec[e].state # "NONE"}

Shutdown(c) ==
    /\ c \in ShutdownThreads /\ call[c].pc = "idle"
    /\ fuel > 0 /\ fuel' = fuel - 1
    /\ closed' = TRUE
    /\ call' = [call EXCEPT ![c] = [Idle EXCEPT !.pc = "next", !.op = "shutdown",
                                      !.todo = ShutdownTargets]]
    /\ UNCHANGED <<exec, processVars, starts, holdVars>>

\* ctx.Done wins Shutdown's select: the Stop that was spawned, whether or not it
\* has taken the lock yet, goes on in its own goroutine, and the remaining
\* executions are never stopped.
ShutdownTimeout(c) ==
    /\ call[c].op = "shutdown"
    /\ \/ /\ call[c].pc = "stopping"
          /\ call' = [call EXCEPT ![c].op = "stop", ![c].todo = {}]
       \/ /\ call[c].pc = "next"
          /\ \E e \in call[c].todo :
                call' = [call EXCEPT ![c].op = "stop", ![c].todo = {e}]
    /\ UNCHANGED <<exec, processVars, starts, holdVars, closed, fuel>>

-----------------------------------------------------------------------------
\* The next Stop of ApplyMaintenanceHold's loop (ids are sorted) or of
\* Shutdown's (a map's range order).
StopNext(c) ==
    /\ call[c].pc = "next"
    /\ \E e \in call[c].todo :
        /\ call[c].op = "hold" => \A f \in call[c].todo : e <= f
        /\ StopSection(c, e, [call[c] EXCEPT !.todo = @ \ {e}])
    /\ UNCHANGED fuel

HoldReturns(c) ==
    /\ call[c].pc = "next" /\ call[c].op = "hold" /\ call[c].todo = {}
    /\ acked' = IF call[c].rev > acked THEN call[c].rev ELSE acked
    /\ call' = [call EXCEPT ![c] = Idle]
    /\ UNCHANGED <<exec, processVars, starts, maintenance, holdRevision, closed, fuel>>

ShutdownReturns(c) ==
    /\ call[c].pc = "next" /\ call[c].op = "shutdown" /\ call[c].todo = {}
    /\ call' = [call EXCEPT ![c].pc = "down"]
    /\ UNCHANGED <<exec, processVars, starts, holdVars, closed, fuel>>

-----------------------------------------------------------------------------
StartStep(s) ==
    \/ CheckStart(s) \/ ValidateStart(s) \/ RejectStart(s)
    \/ CommitSuppressed(s) \/ CommitSuperseded(s)
    \/ CommitSpawn(s) \/ CommitSpawnFails(s)
    \/ WatchdogFires(s) \/ WatchdogRestarts(s)

WaitStep(p) == WaitSuperseded(p) \/ WaitStopped(p) \/ WaitCrashed(p)

CallStep(c) ==
    FinishStop(c) \/ RestartStart(c) \/ StopNext(c) \/ HoldReturns(c) \/ ShutdownReturns(c)

Next ==
    \/ \E c \in Caller, e \in Exec : Start(c, e) \/ Stop(c, e) \/ Restart(c, e)
    \/ \E c \in Caller, active \in BOOLEAN, revision \in 1 .. MaxRevision :
            ApplyMaintenanceHold(c, active, revision)
    \/ \E c \in Caller : Shutdown(c) \/ ShutdownTimeout(c) \/ CallStep(c)
    \/ \E s \in starts : StartStep(s)
    \/ \E p \in alive : Exit(p)
    \/ \E p \in zombies : WaitStep(p)

Spec == Init /\ [][Next]_vars

(***************************************************************************)
(* Fairness: a goroutine whose next critical section is enabled runs, a    *)
(* backoff timer expires, and a process that was sent SIGTERM and then     *)
(* SIGKILL exits.  Clients and spontaneous exits owe nothing.              *)
(***************************************************************************)
Fairness ==
    /\ \A c \in Caller : WF_vars(CallStep(c))
    /\ WF_vars(\E s \in starts : StartStep(s))
    /\ WF_vars(\E p \in alive \cap signalled : Exit(p))
    /\ WF_vars(\E p \in zombies : WaitStep(p))

FairSpec == Spec /\ Fairness

-----------------------------------------------------------------------------
\* Types of the Supervisor's fields; a caller inside Stop or Restart names a real
\* execution.
TypeOK ==
    /\ exec \in [Exec -> ExecRec]
    /\ alive \subseteq Exec \X Nat
    /\ zombies \subseteq Exec \X Nat
    /\ doneClosed \subseteq Exec \X Nat
    /\ signalled \subseteq Exec \X Nat
    /\ starts \subseteq StartRec
    /\ call \in [Caller -> CallRec]
    /\ \A c \in Caller : NamesExecution(call[c]) => call[c].exec \in Exec
    /\ maintenance \in BOOLEAN
    /\ holdRevision \in Nat
    /\ closed \in BOOLEAN
    /\ acked \in Nat
    /\ fuel \in Nat

\* README: the Supervisor owns one process per execution. However Start, Stop,
\* Restart, the wait goroutines and the watchdog interleave, an ExecutionID never
\* has two live processes (the CPU or the GPUs it claims would be driven twice).
OneProcess ==
    \A p, q \in alive : p[1] = q[1] => p = q

\* The Controller sends a replacement START once it observes STOPPED, FAILED or
\* CRASHED: an execution reported in one of these states has no live process.
TerminalMeansDead ==
    \A p \in alive : exec[p[1]].state \notin {"STOPPED", "FAILED", "CRASHED", "BACKOFF"}

\* A Maintenance Hold whose ApplyMaintenanceHold has returned leaves no managed
\* process alive while the hold lasts: the reply is what the Controller shows as a
\* confirmed hold.
HoldConfirmedQuiet ==
    maintenance /\ acked = holdRevision => alive = {}

\* Shutdown that returns nil leaves nothing alive, now or later.
ShutdownQuiet ==
    (\E c \in Caller : call[c].pc = "down") => alive = {}

\* Every Stop returns: its done channel is closed once the process is gone.
StopReturns ==
    \A c \in Caller : call[c].pc = "stopping" ~> call[c].pc # "stopping"

\* The watchdog never forgets a crashed execution: BACKOFF ends in a restart or
\* in another state, unless Shutdown has closed the Supervisor.
BackoffEnds ==
    \A e \in Exec : exec[e].state = "BACKOFF" ~> exec[e].state # "BACKOFF" \/ closed

\* What the naming of processes by generation rests on: a generation of an
\* execution is started by one goroutine only, and once.
GenerationStartsOnce ==
    /\ \A s, t \in starts : s.exec = t.exec /\ s.gen = t.gen => s = t
    /\ \A s \in starts : <<s.exec, s.gen>> \notin alive \cup zombies \cup doneClosed

=============================================================================
