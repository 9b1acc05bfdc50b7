--------------------------- MODULE SupervisorProofs ---------------------------
(***************************************************************************)
(* What TLAPS proves of Supervisor for every number of executions, API     *)
(* goroutines, crashes and calls.                                          *)
(***************************************************************************)
EXTENDS Supervisor, TLAPS

\* The record of an idle goroutine, and of one about to call Stop, is a call.
LEMMA IdleType ==
  /\ Idle \in CallRec
  /\ ~NamesExecution(Idle)
  /\ ~NamesExecution([Idle EXCEPT !.op = "stop"])
  /\ [Idle EXCEPT !.op = "stop"] \in CallRec
  /\ \A e \in Exec : [Idle EXCEPT !.op = "restart", !.exec = e] \in CallRec
  BY DEF Idle, CallRec, NamesExecution

\* The status constants are states.
LEMMA StatesMembers ==
  /\ "STARTING" \in States /\ "RUNNING" \in States /\ "STOPPING" \in States
  /\ "STOPPED" \in States /\ "BACKOFF" \in States /\ "CRASHED" \in States
  /\ "FAILED" \in States
  BY DEF States

\* The assignments the critical sections make to an execution keep its type.
LEMMA ExecUpdates ==
  ASSUME NEW x \in ExecRec, NEW n \in Nat, NEW k \in Nat,
         NEW flag \in BOOLEAN, NEW st \in States
  PROVE  /\ x.generation \in Nat /\ x.crashes \in Nat /\ x.backoff \in Nat
         /\ x.cmd \in Nat /\ x.pid \in Nat
         /\ [x EXCEPT !.desired = flag, !.state = st] \in ExecRec
         /\ [x EXCEPT !.pid = n, !.state = st] \in ExecRec
         /\ [x EXCEPT !.state = st, !.pid = n] \in ExecRec
         /\ [x EXCEPT !.state = st, !.cmd = n, !.pid = n] \in ExecRec
         /\ [x EXCEPT !.state = st, !.desired = flag, !.cmd = n] \in ExecRec
         /\ [x EXCEPT !.backoff = n] \in ExecRec
         /\ [x EXCEPT !.state = st, !.desired = flag, !.generation = n] \in ExecRec
         /\ [x EXCEPT !.desired = flag, !.state = st, !.generation = n] \in ExecRec
         /\ [x EXCEPT !.desired = flag, !.generation = n, !.crashes = k, !.backoff = k]
               \in ExecRec
         /\ [x EXCEPT !.desired = flag, !.backoff = k, !.state = st] \in ExecRec
         /\ [x EXCEPT !.desired = flag, !.backoff = k, !.generation = n, !.state = st]
               \in ExecRec
         /\ [x EXCEPT !.pid = k, !.crashes = n, !.desired = flag, !.state = st] \in ExecRec
         /\ \A g \in Nat : [x EXCEPT !.pid = k, !.crashes = n, !.state = st,
                                     !.generation = g, !.backoff = g] \in ExecRec
  BY DEF ExecRec

\* A goroutine that leaves startExisting, API call or watchdog, leaves calls typed.
LEMMA ReturnType ==
  ASSUME TypeOK, NEW by, call' = Return(by)
  PROVE  /\ call' \in [Caller -> CallRec]
         /\ \A c \in Caller :
               NamesExecution(call'[c]) => call'[c].exec \in Exec
  BY IdleType DEF Return, TypeOK

\* A step of a pending start keeps the type of the set of starts.
LEMMA AdvanceType ==
  ASSUME starts \subseteq StartRec, NEW s \in starts,
         NEW phase \in {"sleep", "fired", "check", "validate", "commit", "rejected"},
         Advance(s, phase)
  PROVE  starts' \subseteq StartRec
  BY DEF Advance, StartRec

\* The record a caller continues with when its Stop of e returns is a call; if
\* the caller is a Restart it still names e.
LEMMA AfterStopType ==
  ASSUME NEW r \in CallRec, NamesExecution(r) => r.exec \in Exec
  PROVE  /\ AfterStop(r) \in CallRec
         /\ NamesExecution(AfterStop(r)) => AfterStop(r).exec \in Exec
  <1>1. CASE r.op = "restart"
    BY <1>1 DEF AfterStop, CallRec, NamesExecution
  <1>2. CASE r.op \in {"hold", "shutdown"}
    BY <1>2 DEF AfterStop, CallRec, NamesExecution
  <1>3. CASE r.op \notin {"restart", "hold", "shutdown"}
    BY <1>3, IdleType DEF AfterStop
  <1> QED
    BY <1>1, <1>2, <1>3

\* The first critical section of Stop keeps every variable's type.
LEMMA StopSectionType ==
  ASSUME TypeOK, NEW c \in Caller, NEW e \in Exec, NEW r \in CallRec,
         NamesExecution(r) => r.exec \in Exec,
         StopSection(c, e, r), fuel' \in Nat
  PROVE  TypeOK'
  <1> USE DEF TypeOK, processVars, holdVars
  <1>1. exec' \in [Exec -> ExecRec]
    <2> DEFINE a == [exec[e] EXCEPT !.desired = FALSE, !.backoff = 0,
                                    !.generation = exec[e].generation + 1, !.state = "STOPPED"]
               b == [exec[e] EXCEPT !.desired = FALSE, !.backoff = 0, !.state = "STOPPING"]
    <2>0. exec[e] \in ExecRec /\ exec[e].generation + 1 \in Nat
      BY DEF ExecRec
    <2>1. a \in ExecRec /\ b \in ExecRec
      BY <2>0, ExecUpdates, StatesMembers
    <2>2. exec' = [exec EXCEPT ![e] = a] \/ exec' = [exec EXCEPT ![e] = b]
      BY DEF StopSection
    <2> HIDE DEF a, b
    <2> QED
      BY <2>1, <2>2
  <1>2. starts' \subseteq StartRec
    BY DEF StopSection
  <1>3. /\ call' \in [Caller -> CallRec]
        /\ \A d \in Caller :
              NamesExecution(call'[d]) => call'[d].exec \in Exec
    <2> DEFINE a == AfterStop(r)
               b == [r EXCEPT !.pc = "stopping", !.exec = e, !.cmd = exec[e].cmd]
    <2>1. a \in CallRec /\ (NamesExecution(a) => a.exec \in Exec)
      BY AfterStopType
    <2>2. b \in CallRec /\ b.exec \in Exec
      BY DEF CallRec, ExecRec
    <2>3. call' = [call EXCEPT ![c] = a] \/ call' = [call EXCEPT ![c] = b]
      BY DEF StopSection
    <2> HIDE DEF a, b
    <2> QED
      BY <2>1, <2>2, <2>3
  <1>4. signalled' \subseteq Exec \X Nat
    BY DEF StopSection, ExecRec
  <1> QED
    BY <1>1, <1>2, <1>3, <1>4 DEF StopSection

\* An accepted START keeps every variable's type.
LEMMA AcceptStartType ==
  ASSUME TypeOK, NEW c \in Caller, NEW e \in Exec, AcceptStart(c, e), fuel' \in Nat
  PROVE  TypeOK'
  <1> USE DEF TypeOK, processVars, holdVars
  <1>1. exec' \in [Exec -> ExecRec]
    <2> DEFINE a == [exec[e] EXCEPT !.state = "STARTING", !.desired = TRUE, !.generation = 1]
               b == [exec[e] EXCEPT !.desired = TRUE, !.generation = NextGeneration(e),
                                    !.crashes = 0, !.backoff = 0]
    <2>0. exec[e] \in ExecRec /\ NextGeneration(e) \in Nat
      BY DEF ExecRec, NextGeneration
    <2>1. a \in ExecRec /\ b \in ExecRec
      BY <2>0, ExecUpdates, StatesMembers
    <2>2. exec' = [exec EXCEPT ![e] = a] \/ exec' = [exec EXCEPT ![e] = b]
      BY DEF AcceptStart
    <2> HIDE DEF a, b
    <2> QED
      BY <2>1, <2>2
  <1>2. starts' \subseteq StartRec
    BY DEF AcceptStart, NextGeneration, StartRec, ExecRec
  <1>3. /\ call' \in [Caller -> CallRec]
        /\ \A d \in Caller :
              NamesExecution(call'[d]) => call'[d].exec \in Exec
    BY DEF AcceptStart, Idle, CallRec, NamesExecution
  <1> QED
    BY <1>1, <1>2, <1>3 DEF AcceptStart

\* The steps of startExisting and of a watchdog keep every variable's type.
LEMMA StartStepType ==
  ASSUME TypeOK, NEW s \in starts, StartStep(s)
  PROVE  TypeOK'
  <1> USE DEF TypeOK, processVars, holdVars
  <1>s. s \in StartRec /\ s.exec \in Exec /\ s.gen \in Nat
    BY DEF StartRec
  <1>1. CASE CheckStart(s)
    BY <1>1, ReturnType, AdvanceType DEF CheckStart, Leave
  <1>2. CASE ValidateStart(s)
    BY <1>2, AdvanceType DEF ValidateStart
  <1>3. CASE RejectStart(s)
    <2>1. exec' \in [Exec -> ExecRec]
      BY <1>s, <1>3, ExecUpdates, StatesMembers DEF RejectStart
    <2> QED
      BY <1>3, <2>1, ReturnType DEF RejectStart, Leave
  <1>4. CASE CommitSuppressed(s)
    <2>0. exec[s.exec] \in ExecRec /\ exec[s.exec].generation + 1 \in Nat
      BY <1>s DEF ExecRec
    <2>1. exec' \in [Exec -> ExecRec]
      BY <1>s, <1>4, <2>0, ExecUpdates, StatesMembers DEF CommitSuppressed
    <2> QED
      BY <1>4, <2>1, ReturnType DEF CommitSuppressed, Leave
  <1>5. CASE CommitSuperseded(s)
    BY <1>5, ReturnType DEF CommitSuperseded, Leave
  <1>6. CASE CommitSpawn(s)
    <2>1. exec' \in [Exec -> ExecRec]
      BY <1>s, <1>6, ExecUpdates, StatesMembers DEF CommitSpawn
    <2>2. alive' \subseteq Exec \X Nat
      BY <1>s, <1>6 DEF CommitSpawn
    <2> QED
      BY <1>6, <2>1, <2>2, ReturnType DEF CommitSpawn, Leave
  <1>7. CASE CommitSpawnFails(s)
    <2>1. exec' \in [Exec -> ExecRec]
      BY <1>s, <1>7, ExecUpdates, StatesMembers DEF CommitSpawnFails
    <2>2. doneClosed' \subseteq Exec \X Nat
      BY <1>s, <1>7 DEF CommitSpawnFails
    <2> QED
      BY <1>7, <2>1, <2>2, ReturnType DEF CommitSpawnFails, Leave
  <1>8. CASE WatchdogFires(s)
    BY <1>8, AdvanceType DEF WatchdogFires
  <1>9. CASE WatchdogRestarts(s)
    <2>0. exec[s.exec] \in ExecRec /\ exec[s.exec].backoff \in Nat
      BY <1>s DEF ExecRec
    <2>1. exec' \in [Exec -> ExecRec]
      BY <1>s, <1>9, <2>0 DEF WatchdogRestarts, ExecRec
    <2> QED
      BY <1>9, <2>1, AdvanceType DEF WatchdogRestarts
  <1> QED
    BY <1>1, <1>2, <1>3, <1>4, <1>5, <1>6, <1>7, <1>8, <1>9 DEF StartStep

\* What a wait goroutine does to an execution that crashed: the generation stays,
\* or it grows and a watchdog is left behind with it.
LEMMA CrashOutcome ==
  ASSUME TypeOK, NEW p \in zombies, WaitCrashed(p)
  PROVE  \E x \in ExecRec :
           /\ exec' = [exec EXCEPT ![p[1]] = x]
           /\ x.state # "NONE"
           /\ \/ starts' = starts /\ x.generation = exec[p[1]].generation
              \/ /\ x.generation = exec[p[1]].generation + 1
                 /\ starts' = starts \cup
                      {[by |-> "watchdog", exec |-> p[1],
                        gen |-> exec[p[1]].generation + 1, phase |-> "sleep"]}
  <1>1. p[1] \in Exec /\ exec[p[1]] \in ExecRec
    BY DEF TypeOK
  <1>2. PICK kept \in 0 .. exec[p[1]].crashes : WaitCrashed(p)!3!(kept)
    BY DEF WaitCrashed
  <1> DEFINE n == CrashCount(kept)
             g == exec[p[1]].generation + 1
             x == [exec[p[1]] EXCEPT !.pid = 0, !.crashes = n,
                                     !.desired = FALSE, !.state = "CRASHED"]
             y == [exec[p[1]] EXCEPT !.pid = 0, !.crashes = n,
                                     !.desired = FALSE, !.state = "FAILED"]
             z == [exec[p[1]] EXCEPT !.pid = 0, !.crashes = n, !.state = "BACKOFF",
                                     !.generation = g, !.backoff = g]
  <1>3. \/ exec' = [exec EXCEPT ![p[1]] = x] /\ starts' = starts
        \/ exec' = [exec EXCEPT ![p[1]] = y] /\ starts' = starts
        \/ /\ exec' = [exec EXCEPT ![p[1]] = z]
           /\ starts' = starts \cup
                {[by |-> "watchdog", exec |-> p[1], gen |-> g, phase |-> "sleep"]}
    BY <1>2
  <1>4. n \in Nat /\ g \in Nat
    BY <1>1 DEF CrashCount, ExecRec
  <1> HIDE DEF n
  <1>5. x \in ExecRec /\ x.state # "NONE" /\ x.generation = exec[p[1]].generation
    BY <1>1, <1>4 DEF ExecRec, States
  <1>6. y \in ExecRec /\ y.state # "NONE" /\ y.generation = exec[p[1]].generation
    BY <1>1, <1>4 DEF ExecRec, States
  <1>7. z \in ExecRec /\ z.state # "NONE" /\ z.generation = g
    <2> HIDE DEF g
    <2> QED BY <1>1, <1>4 DEF ExecRec, States
  <1> HIDE DEF x, y, z
  <1> QED
    BY <1>3, <1>5, <1>6, <1>7

\* The wait goroutine of an exited process keeps every variable's type.
LEMMA WaitStepType ==
  ASSUME TypeOK, NEW p \in zombies, WaitStep(p)
  PROVE  TypeOK'
  <1> USE DEF TypeOK, processVars, holdVars
  <1>p. p[1] \in Exec /\ p[2] \in Nat
    OBVIOUS
  <1>1. CASE WaitSuperseded(p)
    BY <1>1 DEF WaitSuperseded
  <1>2. CASE WaitStopped(p)
    <2>1. exec' \in [Exec -> ExecRec]
      BY <1>p, <1>2, ExecUpdates, StatesMembers DEF WaitStopped
    <2> QED
      BY <1>2, <2>1 DEF WaitStopped, Reap
  <1>3. CASE WaitCrashed(p)
    <2>1. PICK x \in ExecRec :
            /\ exec' = [exec EXCEPT ![p[1]] = x]
            /\ \/ starts' = starts
               \/ starts' = starts \cup
                    {[by |-> "watchdog", exec |-> p[1],
                      gen |-> exec[p[1]].generation + 1, phase |-> "sleep"]}
      BY <1>3, CrashOutcome
    <2>2. exec' \in [Exec -> ExecRec]
      BY <1>p, <2>1
    <2>3. exec[p[1]].generation + 1 \in Nat
      BY <1>p DEF ExecRec
    <2>4. starts' \subseteq StartRec
      BY <1>p, <2>1, <2>3 DEF StartRec
    <2> QED
      BY <1>3, <2>2, <2>4 DEF WaitCrashed, Reap
  <1> QED
    BY <1>1, <1>2, <1>3 DEF WaitStep

\* What a caller inside Stop, Restart, ApplyMaintenanceHold or Shutdown does next
\* keeps every variable's type.
LEMMA CallStepType ==
  ASSUME TypeOK, NEW c \in Caller, CallStep(c)
  PROVE  TypeOK'
  <1> USE DEF TypeOK, processVars, holdVars
  <1>1. CASE FinishStop(c)
    <2>0. call[c].exec \in Exec /\ exec[call[c].exec] \in ExecRec
      BY <1>1 DEF FinishStop, NamesExecution
    <2>1. exec' \in [Exec -> ExecRec]
      BY <1>1, <2>0, ExecUpdates, StatesMembers DEF FinishStop
    <2> DEFINE a == AfterStop(call[c])
    <2>2. a \in CallRec /\ (NamesExecution(a) => a.exec \in Exec)
      BY AfterStopType
    <2>3. call' = [call EXCEPT ![c] = a]
      BY <1>1 DEF FinishStop
    <2> HIDE DEF a
    <2> QED
      BY <1>1, <2>1, <2>2, <2>3 DEF FinishStop
  <1>2. CASE RestartStart(c)
    <2>1. call[c].exec \in Exec
      BY <1>2 DEF RestartStart, NamesExecution
    <2>2. CASE AcceptStart(c, call[c].exec)
      BY <1>2, <2>1, <2>2, AcceptStartType DEF RestartStart
    <2>3. CASE ~AcceptStart(c, call[c].exec)
      BY <1>2, <2>3, IdleType DEF RestartStart
    <2> QED
      BY <2>2, <2>3
  <1>3. CASE StopNext(c)
    <2>1. PICK e \in call[c].todo : StopSection(c, e, [call[c] EXCEPT !.todo = @ \ {e}])
      BY <1>3 DEF StopNext
    <2> DEFINE r == [call[c] EXCEPT !.todo = @ \ {e}]
    <2>2. e \in Exec /\ r \in CallRec /\ (NamesExecution(r) => r.exec \in Exec)
      <3>1. call[c] \in CallRec /\ e \in Exec
        BY DEF CallRec
      <3>2. r \in CallRec /\ r.pc = call[c].pc /\ r.op = call[c].op /\ r.exec = call[c].exec
        BY <3>1 DEF CallRec
      <3> QED
        BY <3>1, <3>2 DEF NamesExecution
    <2>3. fuel' \in Nat /\ StopSection(c, e, r)
      BY <1>3, <2>1 DEF StopNext
    <2> HIDE DEF r
    <2> QED
      BY <2>2, <2>3, StopSectionType
  <1>4. CASE HoldReturns(c)
    <2>1. acked' \in Nat
      BY <1>4 DEF HoldReturns, CallRec
    <2> QED
      BY <1>4, <2>1, IdleType DEF HoldReturns
  <1>5. CASE ShutdownReturns(c)
    <2>1. call' \in [Caller -> CallRec]
      BY <1>5 DEF ShutdownReturns, CallRec
    <2> QED
      BY <1>5, <2>1 DEF ShutdownReturns, NamesExecution
  <1> QED
    BY <1>1, <1>2, <1>3, <1>4, <1>5 DEF CallStep

\* TypeOK is inductive: every step of every goroutine keeps each variable's type.
LEMMA TypeOKInductive == TypeOK /\ [Next]_vars => TypeOK'
  <1> SUFFICES ASSUME TypeOK, [Next]_vars
               PROVE  TypeOK'
    OBVIOUS
  <1> USE DEF TypeOK, processVars, holdVars
  <1>0. \A k \in Nat : k > 0 => k - 1 \in Nat
    OBVIOUS
  <1>1. ASSUME NEW c \in Caller, NEW e \in Exec, Start(c, e)
        PROVE  TypeOK'
    BY <1>0, <1>1, AcceptStartType DEF Start
  <1>2. ASSUME NEW c \in Caller, NEW e \in Exec, Stop(c, e)
        PROVE  TypeOK'
    <2>1. fuel' \in Nat
      BY <1>2 DEF Stop
    <2> QED
      BY <1>2, <2>1, IdleType, StopSectionType DEF Stop
  <1>3. ASSUME NEW c \in Caller, NEW e \in Exec, Restart(c, e)
        PROVE  TypeOK'
    <2>1. fuel' \in Nat
      BY <1>3 DEF Restart
    <2>2. [Idle EXCEPT !.op = "restart", !.exec = e].exec \in Exec
      BY DEF Idle
    <2> QED
      BY <1>3, <2>1, <2>2, IdleType, StopSectionType DEF Restart
  <1>4. ASSUME NEW c \in Caller, NEW active \in BOOLEAN, NEW revision \in 1 .. MaxRevision,
               ApplyMaintenanceHold(c, active, revision)
        PROVE  TypeOK'
    <2>1. HoldTargets \subseteq Exec
      BY DEF HoldTargets
    <2> DEFINE t == IF active THEN HoldTargets ELSE {}
               r == [Idle EXCEPT !.pc = "next", !.op = "hold", !.rev = revision, !.todo = t]
    <2>a. t \in SUBSET Exec /\ revision \in Nat
      BY <2>1, SupervisorAssumption
    <2>b. call' = [call EXCEPT ![c] = r]
      BY <1>4 DEF ApplyMaintenanceHold
    <2>c. r \in CallRec /\ ~NamesExecution(r)
      <3> HIDE DEF t
      <3> QED BY <2>a DEF Idle, CallRec, NamesExecution
    <2>2. /\ call' \in [Caller -> CallRec]
          /\ ~NamesExecution(call'[c])
          /\ \A d \in Caller \ {c} : call'[d] = call[d]
      <3> HIDE DEF r
      <3> QED BY <2>b, <2>c
    <2> QED
      BY <1>4, <2>2, SupervisorAssumption DEF ApplyMaintenanceHold
  <1>5. ASSUME NEW c \in Caller, Shutdown(c)
        PROVE  TypeOK'
    <2>1. ShutdownTargets \subseteq Exec
      BY DEF ShutdownTargets
    <2>2. /\ call' \in [Caller -> CallRec]
          /\ ~NamesExecution(call'[c])
          /\ \A d \in Caller \ {c} : call'[d] = call[d]
      BY <1>5, <2>1 DEF Shutdown, Idle, CallRec, NamesExecution
    <2> QED
      BY <1>5, <2>2 DEF Shutdown
  <1>6. ASSUME NEW c \in Caller, ShutdownTimeout(c)
        PROVE  TypeOK'
    <2>1. /\ call' \in [Caller -> CallRec]
          /\ call'[c].pc = call[c].pc /\ call'[c].op = "stop" /\ call'[c].exec = call[c].exec
          /\ \A d \in Caller \ {c} : call'[d] = call[d]
      BY <1>6 DEF ShutdownTimeout, CallRec
    <2> QED
      BY <1>6, <2>1 DEF ShutdownTimeout, NamesExecution
  <1>7. ASSUME NEW p \in alive, Exit(p)
        PROVE  TypeOK'
    <2>1. fuel' \in Nat
      BY <1>7 DEF Exit
    <2> QED
      BY <1>7, <2>1 DEF Exit
  <1>8. CASE UNCHANGED vars
    BY <1>8 DEF vars
  <1> QED
    BY <1>1, <1>2, <1>3, <1>4, <1>5, <1>6, <1>7, <1>8,
       CallStepType, StartStepType, WaitStepType DEF Next

\* The Supervisor starts typed.
LEMMA TypeOKInit == Init => TypeOK
  <1> SUFFICES ASSUME Init PROVE TypeOK
    OBVIOUS
  <1>1. NoExecution \in ExecRec
    BY DEF NoExecution, ExecRec, States
  <1> QED
    BY <1>1, IdleType, SupervisorAssumption DEF Init, TypeOK

\* Type correctness of the Supervisor: whatever API calls, exits, crashes and
\* watchdog restarts interleave, every field of supervisor_linux.go's execution
\* struct keeps its type, and every Stop under way names an execution.
THEOREM TypeCorrect == Spec => []TypeOK
  BY TypeOKInit, TypeOKInductive, PTL DEF Spec

-----------------------------------------------------------------------------
Processes == alive \cup zombies \cup doneClosed

\* Nothing the Supervisor started carries a generation it has not reached yet;
\* that is why GenerationStartsOnce survives the next generation being handed out.
GenerationInv ==
    /\ \A e \in Exec : exec[e].state = "NONE" => exec[e].generation = 0
    /\ \A s \in starts : s.gen <= exec[s.exec].generation
    /\ \A p \in Processes : p[2] <= exec[p[1]].generation
    /\ GenerationStartsOnce

\* No critical section lowers a generation or forgets an execution.
GenerationsGrow ==
    \A e \in Exec : /\ exec[e].generation <= exec'[e].generation
                    /\ exec'[e].state = "NONE" =>
                         exec[e].state = "NONE" /\ exec'[e].generation = exec[e].generation

\* A step that only removes pending starts and moves processes keeps the invariant.
LEMMA Shrinks ==
  ASSUME TypeOK, TypeOK', GenerationInv, GenerationsGrow,
         starts' \subseteq starts, Processes' \subseteq Processes
  PROVE  GenerationInv'
  <1>1. \A s \in starts : s.exec \in Exec /\ s.gen \in Nat
    BY DEF TypeOK, StartRec
  <1>2. \A e \in Exec : exec[e].generation \in Nat /\ exec'[e].generation \in Nat
    BY DEF TypeOK, ExecRec
  <1>3. \A p \in Processes : p[1] \in Exec /\ p[2] \in Nat
    BY DEF TypeOK, Processes
  <1> QED
    BY <1>1, <1>2, <1>3 DEF GenerationInv, GenerationsGrow, GenerationStartsOnce, Processes

\* A pending start that moves to its next phase keeps its generation.
LEMMA Advances ==
  ASSUME TypeOK, GenerationInv, GenerationsGrow, TypeOK',
         NEW s \in starts, NEW phase, Advance(s, phase), Processes' = Processes
  PROVE  GenerationInv'
  <1> DEFINE t == [s EXCEPT !.phase = phase]
  <1>1. \A u \in starts : u.exec \in Exec /\ u.gen \in Nat
    BY DEF TypeOK, StartRec
  <1>2. \A e \in Exec : exec[e].generation \in Nat /\ exec'[e].generation \in Nat
    BY DEF TypeOK, ExecRec
  <1>3. \A p \in Processes : p[1] \in Exec /\ p[2] \in Nat
    BY DEF TypeOK, Processes
  <1>4. t.exec = s.exec /\ t.gen = s.gen
    BY DEF TypeOK, StartRec
  <1>5. starts' = (starts \ {s}) \cup {t}
    BY DEF Advance
  <1> HIDE DEF t
  <1>6. \A u \in starts' : u.gen <= exec'[u.exec].generation
    BY <1>1, <1>2, <1>4, <1>5 DEF GenerationInv, GenerationsGrow
  <1>7. \A u, v \in starts' : u.exec = v.exec /\ u.gen = v.gen => u = v
    BY <1>4, <1>5 DEF GenerationInv, GenerationStartsOnce
  <1>8. \A u \in starts' : <<u.exec, u.gen>> \notin Processes'
    BY <1>4, <1>5 DEF GenerationInv, GenerationStartsOnce, Processes
  <1> QED
    BY <1>2, <1>3, <1>6, <1>7, <1>8
    DEF GenerationInv, GenerationsGrow, GenerationStartsOnce, Processes

\* A start whose process is created, or whose cmd.Start fails, leaves the set.
LEMMA Spawns ==
  ASSUME TypeOK, GenerationInv, GenerationsGrow, TypeOK',
         NEW s \in starts, starts' = starts \ {s},
         Processes' \subseteq Processes \cup {<<s.exec, s.gen>>}
  PROVE  GenerationInv'
  <1>1. \A u \in starts : u.exec \in Exec /\ u.gen \in Nat
    BY DEF TypeOK, StartRec
  <1>2. \A e \in Exec : exec[e].generation \in Nat /\ exec'[e].generation \in Nat
    BY DEF TypeOK, ExecRec
  <1>3. \A p \in Processes : p[1] \in Exec /\ p[2] \in Nat
    BY DEF TypeOK, Processes
  <1>4. \A u \in starts' : <<u.exec, u.gen>> \notin Processes'
    BY DEF GenerationInv, GenerationStartsOnce, Processes
  <1>5. \A p \in Processes' : p[2] <= exec'[p[1]].generation
    BY <1>1, <1>2, <1>3 DEF GenerationInv, GenerationsGrow
  <1> QED
    BY <1>1, <1>2, <1>4, <1>5 DEF GenerationInv, GenerationsGrow, GenerationStartsOnce, Processes

\* A start accepted by Start, or planned by the watchdog, has a fresh generation.
LEMMA Schedules ==
  ASSUME TypeOK, GenerationInv, GenerationsGrow, TypeOK',
         NEW n \in StartRec, n.gen = exec[n.exec].generation + 1,
         n.gen = exec'[n.exec].generation,
         NEW T \in SUBSET starts, starts' = T \cup {n}, Processes' \subseteq Processes
  PROVE  GenerationInv'
  <1>1. \A u \in starts : u.exec \in Exec /\ u.gen \in Nat
    BY DEF TypeOK, StartRec
  <1>2. \A e \in Exec : exec[e].generation \in Nat /\ exec'[e].generation \in Nat
    BY DEF TypeOK, ExecRec
  <1>3. \A p \in Processes : p[1] \in Exec /\ p[2] \in Nat
    BY DEF TypeOK, Processes
  <1>4. n.exec \in Exec /\ n.gen \in Nat
    BY DEF StartRec
  <1>5. \A u \in starts : u.exec = n.exec => u.gen < n.gen
    BY <1>1, <1>2, <1>4 DEF GenerationInv
  <1>6. \A p \in Processes : p[1] = n.exec => p[2] < n.gen
    BY <1>2, <1>3, <1>4 DEF GenerationInv
  <1>7. \A u \in starts' : u.gen <= exec'[u.exec].generation
    BY <1>1, <1>2, <1>4 DEF GenerationInv, GenerationsGrow
  <1>8. \A u, v \in starts' : u.exec = v.exec /\ u.gen = v.gen => u = v
    BY <1>1, <1>4, <1>5 DEF GenerationInv, GenerationStartsOnce
  <1>9. \A u \in starts' : <<u.exec, u.gen>> \notin Processes'
    <2>1. <<n.exec, n.gen>> \notin Processes
      BY <1>4, <1>6
    <2> QED
      BY <2>1 DEF GenerationInv, GenerationStartsOnce, Processes
  <1> QED
    BY <1>2, <1>3, <1>7, <1>8, <1>9
    DEF GenerationInv, GenerationsGrow, GenerationStartsOnce, Processes

\* The first critical section of Stop never hands out a start.
LEMMA StopSectionGeneration ==
  ASSUME TypeOK, TypeOK', GenerationInv, NEW c \in Caller, NEW e \in Exec, NEW r,
         StopSection(c, e, r)
  PROVE  GenerationInv'
  <1>1. exec[e].generation \in Nat
    BY DEF TypeOK, ExecRec
  <1>2. GenerationsGrow
    <2>1. \A f \in Exec \ {e} : exec'[f] = exec[f]
      BY DEF StopSection, TypeOK
    <2>2. CASE exec[e].state = "STOPPED" \/ exec[e].pid = 0
      <3>1. exec'[e].state = "STOPPED" /\ exec'[e].generation = exec[e].generation + 1
        <4> DEFINE a == [exec[e] EXCEPT !.desired = FALSE, !.backoff = 0,
                                        !.generation = exec[e].generation + 1, !.state = "STOPPED"]
        <4>1. exec' = [exec EXCEPT ![e] = a]
          BY <2>2 DEF StopSection
        <4>2. a.state = "STOPPED" /\ a.generation = exec[e].generation + 1
          BY DEF TypeOK, ExecRec
        <4> HIDE DEF a
        <4> QED
          BY <4>1, <4>2 DEF TypeOK
      <3> QED
        BY <1>1, <2>1, <3>1 DEF GenerationsGrow, TypeOK, ExecRec
    <2>3. CASE ~(exec[e].state = "STOPPED" \/ exec[e].pid = 0)
      <3>1. exec'[e].state = "STOPPING" /\ exec'[e].generation = exec[e].generation
        <4> DEFINE a == [exec[e] EXCEPT !.desired = FALSE, !.backoff = 0, !.state = "STOPPING"]
        <4>1. exec' = [exec EXCEPT ![e] = a]
          BY <2>3 DEF StopSection
        <4>2. a.state = "STOPPING" /\ a.generation = exec[e].generation
          BY DEF TypeOK, ExecRec
        <4> HIDE DEF a
        <4> QED
          BY <4>1, <4>2 DEF TypeOK
      <3> QED
        BY <1>1, <2>1, <3>1 DEF GenerationsGrow, TypeOK, ExecRec
    <2> QED
      BY <2>2, <2>3
  <1>3. starts' \subseteq starts /\ Processes' = Processes
    BY DEF StopSection, Processes
  <1> QED
    BY <1>2, <1>3, Shrinks

\* An accepted START hands out one start, of the execution's next generation.
LEMMA AcceptStartGeneration ==
  ASSUME TypeOK, TypeOK', GenerationInv, NEW c \in Caller, NEW e \in Exec, AcceptStart(c, e)
  PROVE  GenerationInv'
  <1> DEFINE n == [by |-> c, exec |-> e, gen |-> NextGeneration(e), phase |-> "check"]
  <1>1. exec \in [Exec -> ExecRec] /\ exec[e] \in ExecRec /\ exec[e].generation \in Nat
    BY DEF TypeOK, ExecRec
  <1>2. n \in StartRec /\ n.exec = e /\ n.gen = exec[e].generation + 1
    BY <1>1 DEF StartRec, NextGeneration
  <1>3. exec'[e].generation = exec[e].generation + 1 /\ exec'[e].state # "NONE"
    <2>1. exec[e].state = "NONE" => exec[e].generation = 0
      BY DEF GenerationInv
    <2>2. CASE exec[e].state = "NONE"
      BY <2>1, <2>2, <1>1 DEF AcceptStart, ExecRec
    <2>3. CASE exec[e].state # "NONE"
      BY <2>3, <1>1 DEF AcceptStart, NextGeneration, ExecRec
    <2> QED
      BY <2>2, <2>3
  <1>4. \A f \in Exec \ {e} : exec'[f] = exec[f]
    BY <1>1 DEF AcceptStart
  <1>5. GenerationsGrow
    BY <1>1, <1>3, <1>4 DEF GenerationsGrow, TypeOK, ExecRec
  <1>6. starts' = (starts \ CancelBackoff(e)) \cup {n} /\ Processes' = Processes
    BY DEF AcceptStart, Processes, processVars
  <1> HIDE DEF n
  <1> QED
    BY <1>2, <1>3, <1>5, <1>6, Schedules

\* A wait goroutine hands out a start only for a crash it answers with BACKOFF.
LEMMA WaitStepGeneration ==
  ASSUME TypeOK, TypeOK', GenerationInv, NEW p \in zombies, WaitStep(p)
  PROVE  GenerationInv'
  <1>p. p[1] \in Exec /\ p[2] \in Nat /\ p \in Processes
    BY DEF TypeOK, Processes
  <1>e. exec \in [Exec -> ExecRec] /\ exec[p[1]] \in ExecRec /\ exec[p[1]].generation \in Nat
    BY <1>p DEF TypeOK, ExecRec
  <1>1. CASE WaitSuperseded(p)
    <2>1. GenerationsGrow
      BY <1>1 DEF WaitSuperseded, GenerationsGrow, TypeOK, ExecRec
    <2> QED
      BY <1>1, <2>1, Shrinks DEF WaitSuperseded, Processes
  <1>2. CASE WaitStopped(p)
    <2>1. GenerationsGrow
      BY <1>2, <1>p, <1>e DEF WaitStopped, GenerationsGrow, TypeOK, ExecRec
    <2>2. Processes' \subseteq Processes
      BY <1>2, <1>p DEF WaitStopped, Reap, Processes
    <2> QED
      BY <1>2, <2>1, <2>2, Shrinks DEF WaitStopped
  <1>3. CASE WaitCrashed(p)
    <2> DEFINE e == p[1]
               n == [by |-> "watchdog", exec |-> e, gen |-> exec[e].generation + 1,
                     phase |-> "sleep"]
    <2>1. Processes' \subseteq Processes
      BY <1>3, <1>p DEF WaitCrashed, Reap, Processes
    <2>2. PICK x \in ExecRec :
            /\ exec' = [exec EXCEPT ![e] = x]
            /\ x.state # "NONE"
            /\ \/ starts' = starts /\ x.generation = exec[e].generation
               \/ starts' = starts \cup {n} /\ x.generation = exec[e].generation + 1
      BY <1>3, CrashOutcome
    <2>3. exec'[e] = x /\ \A f \in Exec \ {e} : exec'[f] = exec[f]
      BY <2>2, <1>e, <1>p
    <2>4. GenerationsGrow
      BY <2>2, <2>3, <1>e DEF GenerationsGrow, TypeOK, ExecRec
    <2>5. n \in StartRec /\ n.exec = e /\ n.gen = exec[e].generation + 1
      BY <1>p, <1>e DEF StartRec
    <2> HIDE DEF n
    <2>6. CASE starts' = starts
      BY <2>1, <2>4, <2>6, Shrinks
    <2>7. CASE starts' # starts
      BY <2>1, <2>2, <2>3, <2>4, <2>5, <2>7, Schedules
    <2> QED
      BY <2>6, <2>7
  <1> QED
    BY <1>1, <1>2, <1>3 DEF WaitStep

\* startExisting turns its start into at most one process, and never into another start.
LEMMA StartStepGeneration ==
  ASSUME TypeOK, TypeOK', GenerationInv, NEW s \in starts, StartStep(s)
  PROVE  GenerationInv'
  <1>s. s.exec \in Exec /\ s.gen \in Nat
    BY DEF TypeOK, StartRec
  <1>e. exec \in [Exec -> ExecRec] /\ exec[s.exec] \in ExecRec
        /\ \A e \in Exec : exec[e].generation \in Nat
    BY <1>s DEF TypeOK, ExecRec
  <1>g. exec' = exec => GenerationsGrow
    BY <1>e DEF GenerationsGrow
  <1>1. CASE CheckStart(s)
    <2>1. GenerationsGrow /\ Processes' = Processes
      BY <1>1, <1>g DEF CheckStart, Processes, processVars
    <2>2. CASE starts' \subseteq starts
      BY <2>1, <2>2, Shrinks
    <2>3. CASE ~(starts' \subseteq starts)
      BY <1>1, <2>1, <2>3, Advances DEF CheckStart, Leave
    <2> QED
      BY <2>2, <2>3
  <1>2. CASE ValidateStart(s)
    <2>1. GenerationsGrow /\ Processes' = Processes
      BY <1>2, <1>g DEF ValidateStart, Processes, processVars
    <2> QED
      BY <1>2, <2>1, Advances DEF ValidateStart
  <1>3. CASE RejectStart(s)
    <2>1. GenerationsGrow
      BY <1>3, <1>s, <1>e DEF RejectStart, GenerationsGrow, ExecRec
    <2> QED
      BY <1>3, <2>1, Shrinks DEF RejectStart, Leave, Processes, processVars
  <1>4. CASE CommitSuppressed(s)
    <2>1. GenerationsGrow
      BY <1>4, <1>s, <1>e DEF CommitSuppressed, GenerationsGrow, ExecRec
    <2> QED
      BY <1>4, <2>1, Shrinks DEF CommitSuppressed, Leave, Processes, processVars
  <1>5. CASE CommitSuperseded(s)
    BY <1>5, <1>g, Shrinks DEF CommitSuperseded, Leave, Processes, processVars
  <1>6. CASE CommitSpawn(s)
    <2>1. GenerationsGrow
      BY <1>6, <1>s, <1>e DEF CommitSpawn, GenerationsGrow, ExecRec
    <2>2. Processes' \subseteq Processes \cup {<<s.exec, s.gen>>} /\ starts' = starts \ {s}
      BY <1>6 DEF CommitSpawn, Processes, Leave
    <2> QED
      BY <2>1, <2>2, Spawns
  <1>7. CASE CommitSpawnFails(s)
    <2>1. GenerationsGrow
      BY <1>7, <1>s, <1>e DEF CommitSpawnFails, GenerationsGrow, ExecRec
    <2>2. Processes' \subseteq Processes \cup {<<s.exec, s.gen>>} /\ starts' = starts \ {s}
      BY <1>7 DEF CommitSpawnFails, Processes, Leave
    <2> QED
      BY <2>1, <2>2, Spawns
  <1>8. CASE WatchdogFires(s)
    <2>1. GenerationsGrow /\ Processes' = Processes
      BY <1>8, <1>g DEF WatchdogFires, Processes, processVars
    <2> QED
      BY <1>8, <2>1, Advances DEF WatchdogFires
  <1>9. CASE WatchdogRestarts(s)
    <2>0. /\ exec'[s.exec].generation = exec[s.exec].generation
          /\ exec'[s.exec].state = exec[s.exec].state
          /\ \A f \in Exec \ {s.exec} : exec'[f] = exec[f]
      BY <1>9, <1>s, <1>e DEF WatchdogRestarts, ExecRec
    <2>1. GenerationsGrow
      BY <2>0, <1>s, <1>e DEF GenerationsGrow, ExecRec
    <2>2. Processes' = Processes
      BY <1>9 DEF WatchdogRestarts, Processes, processVars
    <2>3. CASE Current(s) /\ ~closed
      BY <1>9, <2>1, <2>2, <2>3, Advances DEF WatchdogRestarts
    <2>4. CASE ~(Current(s) /\ ~closed)
      BY <1>9, <2>1, <2>2, <2>4, Shrinks DEF WatchdogRestarts
    <2> QED
      BY <2>3, <2>4
  <1> QED
    BY <1>1, <1>2, <1>3, <1>4, <1>5, <1>6, <1>7, <1>8, <1>9 DEF StartStep

\* Every step keeps the strengthened invariant.
LEMMA GenerationInductive ==
  TypeOK /\ TypeOK' /\ GenerationInv /\ [Next]_vars => GenerationInv'
  <1> SUFFICES ASSUME TypeOK, TypeOK', GenerationInv, [Next]_vars
               PROVE  GenerationInv'
    OBVIOUS
  <1>e. exec \in [Exec -> ExecRec] /\ \A e \in Exec : exec[e].generation \in Nat
    BY DEF TypeOK, ExecRec
  <1>g. exec' = exec => GenerationsGrow
    BY <1>e DEF GenerationsGrow
  <1>1. ASSUME NEW c \in Caller, NEW e \in Exec, Start(c, e) \/ Stop(c, e) \/ Restart(c, e)
        PROVE  GenerationInv'
    BY <1>1, AcceptStartGeneration, StopSectionGeneration DEF Start, Stop, Restart
  <1>2. ASSUME NEW c \in Caller, NEW active \in BOOLEAN, NEW revision \in 1 .. MaxRevision,
               ApplyMaintenanceHold(c, active, revision)
        PROVE  GenerationInv'
    BY <1>2, <1>g, Shrinks DEF ApplyMaintenanceHold, Processes, processVars
  <1>3. ASSUME NEW c \in Caller, Shutdown(c) \/ ShutdownTimeout(c)
        PROVE  GenerationInv'
    BY <1>3, <1>g, Shrinks DEF Shutdown, ShutdownTimeout, Processes, processVars
  <1>4. ASSUME NEW c \in Caller, CallStep(c)
        PROVE  GenerationInv'
    <2>1. CASE FinishStop(c)
      <3>1. GenerationsGrow
        BY <2>1, <1>e DEF FinishStop, GenerationsGrow, ExecRec
      <3> QED
        BY <2>1, <3>1, Shrinks DEF FinishStop, Processes, processVars
    <2>2. CASE RestartStart(c)
      <3>1. call[c].exec \in Exec
        BY <2>2 DEF RestartStart, TypeOK, NamesExecution
      <3>2. CASE AcceptStart(c, call[c].exec)
        BY <3>1, <3>2, AcceptStartGeneration
      <3>3. CASE ~AcceptStart(c, call[c].exec)
        BY <2>2, <3>3, <1>g, Shrinks DEF RestartStart, Processes, processVars
      <3> QED
        BY <3>2, <3>3
    <2>3. CASE StopNext(c)
      <3>1. call[c].todo \subseteq Exec
        BY DEF TypeOK, CallRec
      <3> QED
        BY <2>3, <3>1, StopSectionGeneration DEF StopNext
    <2>4. CASE HoldReturns(c) \/ ShutdownReturns(c)
      BY <2>4, <1>g, Shrinks DEF HoldReturns, ShutdownReturns, Processes, processVars
    <2> QED
      BY <1>4, <2>1, <2>2, <2>3, <2>4 DEF CallStep
  <1>5. ASSUME NEW p \in alive, Exit(p)
        PROVE  GenerationInv'
    BY <1>5, <1>g, Shrinks DEF Exit, Processes
  <1>6. CASE UNCHANGED vars
    BY <1>6, <1>g, Shrinks DEF vars, Processes
  <1> QED
    BY <1>1, <1>2, <1>3, <1>4, <1>5, <1>6, StartStepGeneration, WaitStepGeneration DEF Next

\* supervisor_linux.go lets Start, Restart and the watchdog race: each of them may
\* be inside startExisting for the same execution. For any number of them, a
\* generation belongs to one of these goroutines and becomes at most one process,
\* so the generation alone tells wait which process it has reaped.
THEOREM OneStartPerGeneration == Spec => []GenerationStartsOnce
  <1>1. Init => GenerationInv
    BY DEF Init, NoExecution, GenerationInv, GenerationStartsOnce, Processes
  <1>2. GenerationInv => GenerationStartsOnce
    BY DEF GenerationInv
  <1> QED
    BY <1>1, <1>2, TypeCorrect, GenerationInductive, PTL DEF Spec
===============================================================================
