------------------------ MODULE SupervisorSafetyProofs ------------------------
(***************************************************************************)
(* TLAPS proofs that the Supervisor's four safety invariants hold for      *)
(* every number of executions, Shutdown goroutines, crashes and calls.     *)
(*                                                                         *)
(* OneSession is what they assume of the environment: one goroutine        *)
(* dispatches the Controller's commands and one its holds, and no          *)
(* execution with a watchdog meets a hold (SupervisorHoldWatchdog.cfg      *)
(* shows what goes wrong when one does).                                   *)
(***************************************************************************)
EXTENDS SupervisorProofs

OneSession ==
    /\ \A c, d \in CommandThreads : c = d
    /\ \A c, d \in HoldThreads : c = d
    /\ OnFailure = {} \/ HoldThreads = {}

\* The processes whose wait goroutine has not settled them yet.
Unreaped == alive \cup zombies

Stopping(c, e) == call[c].pc = "stopping" /\ call[c].exec = e

\* Execution f still reports what it said of its process, or is now STOPPING.
SameProcess(f) ==
    /\ exec'[f].generation = exec[f].generation
    /\ exec'[f].cmd = exec[f].cmd /\ exec'[f].pid = exec[f].pid
    /\ \/ exec'[f].state = "STOPPING"
       \/ exec'[f].state = exec[f].state /\ exec'[f].desired = exec[f].desired

\* An unreaped process is the one its execution names, and the execution says so.
OwnInv ==
    /\ alive \cap zombies = {}
    /\ doneClosed \cap Unreaped = {}
    /\ \A p \in Unreaped :
          /\ p[2] > 0
          /\ exec[p[1]].generation = p[2] /\ exec[p[1]].cmd = p[2] /\ exec[p[1]].pid = p[2]
          /\ \/ exec[p[1]].state = "STOPPING"
             \/ exec[p[1]].state = "RUNNING" /\ exec[p[1]].desired
    /\ \A e \in Exec : exec[e].pid # 0 => <<e, exec[e].pid>> \in Unreaped

\* Starts come from the command goroutine, at most one, or from a watchdog; one
\* of the former never finds a process of its execution, which is why a START that
\* a hold suppresses may raise the generation without looking.
StartInv ==
    /\ \A s \in starts : s.gen > 0
    /\ \A s \in starts : s.by = "watchdog" => s.exec \in OnFailure
    /\ \A s \in starts : s.by # "watchdog" =>
          s.by \in CommandThreads /\ call[s.by].pc = "starting"
    /\ \A s, t \in starts : s.by # "watchdog" /\ t.by # "watchdog" => s = t
    /\ OnFailure = {} => \A s \in starts, p \in Unreaped : p[1] # s.exec

\* What a goroutine inside Stop, or between two of its Stops, may rely on: nobody
\* wants the execution again, because the Supervisor is closed, a hold forbids
\* starts, or this goroutine is the only one that dispatches them.
StopInv(c) ==
    /\ call[c].pc = "stopping" =>
          /\ ~exec[call[c].exec].desired
          /\ \A p \in Unreaped : p[1] = call[c].exec => p[2] = call[c].cmd
          /\ \/ closed
             \/ maintenance /\ call[c].op = "hold"
             \/ c \in CommandThreads /\ call[c].op # "hold"
    /\ call[c].pc = "next" =>
          \/ closed
          \/ call[c].op = "hold" /\ (maintenance \/ call[c].todo = {})

\* Which goroutines run which operation.
RoleInv(c) ==
    /\ call[c].pc = "restart" => c \in CommandThreads /\ call[c].op = "restart"
    /\ call[c].pc = "starting" => c \in CommandThreads
    /\ call[c].op = "restart" => c \in CommandThreads
    /\ call[c].op = "hold" => c \in HoldThreads

CallInv ==
    /\ \A e \in Exec : exec[e].state = "STOPPING" => closed \/ \E c \in Caller : Stopping(c, e)
    /\ \A c \in Caller : StopInv(c) /\ RoleInv(c)

\* Every live process is one that c's loop still has to stop, or is stopping.
Covered(c) == \A p \in alive : p[1] \in call[c].todo \/ Stopping(c, p[1])

HoldInv ==
    /\ HoldThreads = {} => ~maintenance
    /\ acked <= holdRevision
    /\ maintenance /\ acked = holdRevision => alive = {}
    /\ \A c \in Caller : call[c].op = "hold" =>
          call[c].rev = holdRevision /\ (maintenance => Covered(c))

ShutdownInv ==
    \A c \in Caller :
        /\ call[c].op = "shutdown" => closed /\ Covered(c)
        /\ call[c].pc = "down" => call[c].op = "shutdown" /\ call[c].todo = {}

SafetyInv == OwnInv /\ StartInv /\ CallInv /\ HoldInv /\ ShutdownInv

-----------------------------------------------------------------------------
\* A process is its execution and its generation.
LEMMA ProcessPairs ==
  ASSUME TypeOK
  PROVE  /\ \A p \in Unreaped : p[1] \in Exec /\ p[2] \in Nat /\ p = <<p[1], p[2]>>
         /\ \A e \in Exec : exec[e] \in ExecRec /\ exec[e].generation \in Nat
                            /\ exec[e].cmd \in Nat /\ exec[e].pid \in Nat
         /\ \A s \in starts : s \in StartRec /\ s.exec \in Exec /\ s.gen \in Nat
         /\ \A c \in Caller : call[c] \in CallRec /\ call[c].todo \subseteq Exec
  BY DEF TypeOK, Unreaped, ExecRec, StartRec, CallRec

\* An execution without a pid has no unreaped process, and conversely; and it
\* never has two.
LEMMA PidTellsProcess ==
  ASSUME TypeOK, OwnInv
  PROVE  /\ \A p \in Unreaped : exec[p[1]].pid = p[2] /\ p[2] # 0
         /\ \A p, q \in Unreaped : p[1] = q[1] => p = q
         /\ \A e \in Exec : (\A p \in Unreaped : p[1] # e) => exec[e].pid = 0
  <1>1. \A p \in Unreaped : exec[p[1]].pid = p[2] /\ p[2] # 0
    BY ProcessPairs DEF OwnInv
  <1>2. \A p, q \in Unreaped : p[1] = q[1] => p = q
    BY <1>1, ProcessPairs
  <1>3. \A e \in Exec : (\A p \in Unreaped : p[1] # e) => exec[e].pid = 0
    BY DEF OwnInv
  <1> QED
    BY <1>1, <1>2, <1>3

\* A start that is still current finds no process of its execution: that process
\* would have the generation of the start.
LEMMA CurrentIsFree ==
  ASSUME TypeOK, OwnInv, GenerationInv, NEW s \in starts, Current(s)
  PROVE  /\ \A p \in Unreaped : p[1] # s.exec
         /\ exec[s.exec].pid = 0
         /\ <<s.exec, s.gen>> \notin Unreaped \cup doneClosed
  <1>1. <<s.exec, s.gen>> \notin Unreaped \cup doneClosed
    BY DEF GenerationInv, GenerationStartsOnce, Unreaped
  <1>2. \A p \in Unreaped : p[1] # s.exec
    BY <1>1, ProcessPairs DEF Current, OwnInv
  <1> QED
    BY <1>1, <1>2, PidTellsProcess, ProcessPairs

\* A step that moves no process and leaves what executions say of theirs alone,
\* or marks it STOPPING, keeps OwnInv.
LEMMA OwnKept ==
  ASSUME TypeOK, OwnInv, \A f \in Exec : SameProcess(f),
         alive' = alive, zombies' = zombies, doneClosed' = doneClosed
  PROVE  OwnInv'
  BY ProcessPairs DEF OwnInv, Unreaped, SameProcess

\* So does one that settles an execution which has no process.
LEMMA OwnSettled ==
  ASSUME TypeOK, OwnInv, NEW e \in Exec, \A p \in Unreaped : p[1] # e,
         \A f \in Exec \ {e} : exec'[f] = exec[f], exec'[e].pid = 0,
         alive' = alive, zombies' = zombies, doneClosed' \cap Unreaped = {}
  PROVE  OwnInv'
  BY ProcessPairs DEF OwnInv, Unreaped

\* The record of a goroutine that calls nothing.
LEMMA IdleFields == Idle.pc = "idle" /\ Idle.op = "none" /\ Idle.todo = {}
  BY DEF Idle

\* Pending starts may go away, and processes too.
LEMMA StartShrinks ==
  ASSUME StartInv, starts' \subseteq starts, Unreaped' \subseteq Unreaped,
         \A s \in starts' : s.by # "watchdog" => call'[s.by] = call[s.by]
  PROVE  StartInv'
  BY DEF StartInv

\* A pending start that moves to its next phase is still the same start.
LEMMA StartAdvances ==
  ASSUME TypeOK, StartInv, NEW s \in starts, NEW phase, Advance(s, phase),
         call' = call, Unreaped' = Unreaped
  PROVE  StartInv'
  <1> DEFINE t == [s EXCEPT !.phase = phase]
  <1>1. t.by = s.by /\ t.exec = s.exec /\ t.gen = s.gen
    BY ProcessPairs DEF StartRec
  <1>2. starts' = (starts \ {s}) \cup {t}
    BY DEF Advance
  <1> HIDE DEF t
  <1> QED
    BY <1>1, <1>2 DEF StartInv

\* A goroutine that leaves startExisting takes its start with it.
LEMMA Leaves ==
  ASSUME TypeOK, StartInv, NEW s \in starts, Leave(s)
  PROVE  /\ starts' \subseteq starts
         /\ \A c \in Caller : \/ call'[c] = call[c]
                              \/ call'[c] = Idle /\ call[c].pc = "starting"
         /\ \A u \in starts' : u.by # "watchdog" => call'[u.by] = call[u.by]
  <1>1. CASE s.by = "watchdog"
    BY <1>1, SupervisorAssumption DEF Leave, Return
  <1>2. CASE s.by # "watchdog"
    <2>1. s.by \in Caller /\ call[s.by].pc = "starting"
      BY <1>2 DEF StartInv, Caller
    <2>2. starts' = starts \ {s} /\ call' = [call EXCEPT ![s.by] = Idle]
      BY <2>1 DEF Leave, Return
    <2>3. \A u \in starts' : u.by = "watchdog"
      BY <1>2, <2>2 DEF StartInv
    <2> QED
      BY <2>1, <2>2, <2>3 DEF TypeOK
  <1> QED
    BY <1>1, <1>2

\* A step in which callers go on or become idle, and nobody wants what is being
\* stopped, keeps what the callers rely on.
LEMMA CallKept ==
  ASSUME TypeOK, CallInv, closed' = closed, maintenance' = maintenance,
         \A c \in Caller : \/ call'[c] = call[c]
                           \/ call'[c] = Idle /\ call[c].pc # "stopping",
         \A e \in Exec : exec'[e].state = "STOPPING" => exec[e].state = "STOPPING",
         \A c \in Caller : call[c].pc = "stopping" => ~exec'[call[c].exec].desired,
         \A p \in Unreaped', c \in Caller : Stopping(c, p[1]) => p \in Unreaped
  PROVE  CallInv'
  <1>1. \A e \in Exec : exec'[e].state = "STOPPING" =>
           closed' \/ \E c \in Caller : Stopping(c, e)'
    BY DEF CallInv, Stopping
  <1>2. ASSUME NEW c \in Caller PROVE StopInv(c)'
    BY IdleFields DEF CallInv, StopInv, Stopping
  <1>3. ASSUME NEW c \in Caller PROVE RoleInv(c)'
    BY IdleFields DEF CallInv, RoleInv
  <1> QED
    BY <1>1, <1>2, <1>3 DEF CallInv

\* A step in which no process is created during a hold keeps the hold's promise.
LEMMA HoldKept ==
  ASSUME HoldInv, UNCHANGED <<maintenance, holdRevision, acked>>,
         alive' \subseteq alive \/ ~maintenance,
         \A c \in Caller : call'[c] = call[c] \/ call'[c] = Idle
  PROVE  HoldInv'
  BY IdleFields DEF HoldInv, Covered, Stopping

\* A step in which no process is created after Shutdown keeps Shutdown's promise.
LEMMA ShutdownKept ==
  ASSUME ShutdownInv, closed' = closed,
         alive' \subseteq alive \/ ~closed,
         \A c \in Caller : call'[c] = call[c] \/ call'[c] = Idle
  PROVE  ShutdownInv'
  BY IdleFields DEF ShutdownInv, Covered, Stopping

-----------------------------------------------------------------------------
\* The steps of startExisting that settle the execution of s, which has no
\* process: a failed validation, a START that a hold suppresses, a failed spawn.
LEMMA SettlesStart ==
  ASSUME TypeOK, SafetyInv, NEW s \in starts, Leave(s),
         \A p \in Unreaped : p[1] # s.exec,
         \A f \in Exec \ {s.exec} : exec'[f] = exec[f],
         exec'[s.exec].pid = exec[s.exec].pid, ~exec'[s.exec].desired,
         exec'[s.exec].state # "STOPPING",
         alive' = alive, zombies' = zombies, doneClosed' \cap Unreaped = {},
         UNCHANGED <<maintenance, holdRevision, acked, closed>>
  PROVE  SafetyInv'
  <1> USE DEF SafetyInv
  <1>s. s.exec \in Exec
    BY ProcessPairs
  <1>u. Unreaped' = Unreaped
    BY DEF Unreaped
  <1>1. OwnInv'
    BY <1>s, OwnSettled, PidTellsProcess
  <1>2. StartInv'
    BY <1>u, Leaves, StartShrinks
  <1>3. CallInv'
    <2>1. \A c \in Caller : call'[c] = call[c] \/ (call'[c] = Idle /\ call[c].pc # "stopping")
      BY Leaves
    <2>2. \A e \in Exec : exec'[e].state = "STOPPING" => exec[e].state = "STOPPING"
      OBVIOUS
    <2>3. \A c \in Caller : call[c].pc = "stopping" => ~exec'[call[c].exec].desired
      <3> SUFFICES ASSUME NEW c \in Caller, call[c].pc = "stopping"
                   PROVE  ~exec'[call[c].exec].desired
        OBVIOUS
      <3>1. call[c].exec \in Exec /\ ~exec[call[c].exec].desired
        BY DEF TypeOK, NamesExecution, CallInv, StopInv
      <3> QED
        BY <3>1
    <2> QED
      BY <1>u, <2>1, <2>2, <2>3, CallKept
  <1>4. HoldInv' /\ ShutdownInv'
    <2>1. \A c \in Caller : call'[c] = call[c] \/ call'[c] = Idle
      BY Leaves
    <2> QED
      BY <2>1, HoldKept, ShutdownKept
  <1> QED
    BY <1>1, <1>2, <1>3, <1>4

\* The steps of startExisting and of a watchdog that create no process and settle
\* nothing.
LEMMA PassesStart ==
  ASSUME TypeOK, SafetyInv, NEW s \in starts,
         \/ Leave(s)
         \/ \E phase : Advance(s, phase) /\ call' = call
         \/ starts' = starts \ {s} /\ call' = call,
         \A f \in Exec : SameProcess(f) /\ exec'[f].state = exec[f].state
                         /\ exec'[f].desired = exec[f].desired,
         UNCHANGED <<alive, zombies, doneClosed, maintenance, holdRevision, acked, closed>>
  PROVE  SafetyInv'
  <1> USE DEF SafetyInv
  <1>u. Unreaped' = Unreaped
    BY DEF Unreaped
  <1>c. \A c \in Caller : call'[c] = call[c] \/ (call'[c] = Idle /\ call[c].pc # "stopping")
    BY Leaves
  <1>1. OwnInv'
    BY OwnKept
  <1>2. StartInv'
    <2>1. CASE Leave(s)
      BY <1>u, <2>1, Leaves, StartShrinks
    <2>2. CASE \E phase : Advance(s, phase) /\ call' = call
      BY <1>u, <2>2, StartAdvances
    <2>3. CASE starts' = starts \ {s} /\ call' = call
      BY <1>u, <2>3, StartShrinks
    <2> QED
      BY <2>1, <2>2, <2>3
  <1>3. CallInv'
    <2>1. \A e \in Exec : exec'[e].state = "STOPPING" => exec[e].state = "STOPPING"
      OBVIOUS
    <2>2. \A c \in Caller : call[c].pc = "stopping" => ~exec'[call[c].exec].desired
      BY DEF TypeOK, NamesExecution, CallInv, StopInv
    <2> QED
      BY <1>u, <1>c, <2>1, <2>2, CallKept
  <1>4. HoldInv' /\ ShutdownInv'
    BY <1>c, HoldKept, ShutdownKept
  <1> QED
    BY <1>1, <1>2, <1>3, <1>4

\* A process is created only for an execution that has none, outside any hold and
\* before Shutdown, and nobody is stopping that execution.
LEMMA SpawnSafe ==
  ASSUME TypeOK, GenerationInv, SafetyInv, NEW s \in starts, CommitSpawn(s)
  PROVE  SafetyInv'
  <1> USE DEF SafetyInv
  <1>s. s.exec \in Exec /\ s.gen \in Nat /\ exec[s.exec] \in ExecRec
    BY ProcessPairs
  <1>e. /\ exec'[s.exec].state = "RUNNING" /\ exec'[s.exec].desired
        /\ exec'[s.exec].cmd = s.gen /\ exec'[s.exec].pid = s.gen
        /\ exec'[s.exec].generation = s.gen
        /\ \A f \in Exec \ {s.exec} : exec'[f] = exec[f]
    BY <1>s DEF CommitSpawn, Current, TypeOK, ExecRec
  <1>f. /\ \A p \in Unreaped : p[1] # s.exec
        /\ <<s.exec, s.gen>> \notin Unreaped \cup doneClosed
    BY CurrentIsFree DEF CommitSpawn
  <1>c. /\ exec[s.exec].desired /\ ~maintenance /\ ~closed /\ Leave(s)
        /\ alive' = alive \cup {<<s.exec, s.gen>>}
        /\ zombies' = zombies /\ doneClosed' = doneClosed
        /\ UNCHANGED <<maintenance, holdRevision, acked, closed>>
    BY DEF CommitSpawn, Current, holdVars
  <1>u. Unreaped' = Unreaped \cup {<<s.exec, s.gen>>}
    BY <1>c DEF Unreaped
  <1>1. OwnInv'
    <2>1. alive' \cap zombies' = {} /\ doneClosed' \cap Unreaped' = {}
      BY <1>c, <1>f, <1>u DEF OwnInv, Unreaped
    <2>2. s.gen > 0
      BY DEF StartInv
    <2>3. \A p \in Unreaped' :
            /\ p[2] > 0
            /\ exec'[p[1]].generation = p[2] /\ exec'[p[1]].cmd = p[2] /\ exec'[p[1]].pid = p[2]
            /\ \/ exec'[p[1]].state = "STOPPING"
               \/ exec'[p[1]].state = "RUNNING" /\ exec'[p[1]].desired
      BY <1>e, <1>f, <1>u, <2>2, ProcessPairs DEF OwnInv
    <2>4. \A e \in Exec : exec'[e].pid # 0 => <<e, exec'[e].pid>> \in Unreaped'
      BY <1>e, <1>u DEF OwnInv
    <2> QED
      BY <2>1, <2>3, <2>4 DEF OwnInv
  <1>2. StartInv'
    <2>1. /\ starts' = starts \ {s}
          /\ \A u \in starts' : u.by # "watchdog" => call'[u.by] = call[u.by]
      BY <1>c, Leaves DEF Leave
    <2>2. OnFailure = {} => starts' = {}
      BY <2>1 DEF StartInv
    <2> QED
      BY <2>1, <2>2 DEF StartInv
  <1>3. CallInv'
    <2>1. \A c \in Caller : \/ call'[c] = call[c]
                            \/ call'[c] = Idle /\ call[c].pc # "stopping"
      BY <1>c, Leaves
    <2>2. \A e \in Exec : exec'[e].state = "STOPPING" => exec[e].state = "STOPPING"
      BY <1>e
    <2>3. \A c \in Caller : call[c].pc = "stopping" => call[c].exec \in Exec \ {s.exec}
      BY <1>c DEF TypeOK, NamesExecution, CallInv, StopInv
    <2>4. \A c \in Caller : call[c].pc = "stopping" => ~exec'[call[c].exec].desired
      BY <1>e, <2>3 DEF CallInv, StopInv
    <2>5. \A p \in Unreaped', c \in Caller : Stopping(c, p[1]) => p \in Unreaped
      BY <1>u, <2>3 DEF Stopping
    <2> QED
      BY <1>c, <2>1, <2>2, <2>4, <2>5, CallKept
  <1>4. HoldInv' /\ ShutdownInv'
    <2>1. \A c \in Caller : call'[c] = call[c] \/ call'[c] = Idle
      BY <1>c, Leaves
    <2> QED
      BY <1>c, <2>1, HoldKept, ShutdownKept
  <1> QED
    BY <1>1, <1>2, <1>3, <1>4

\* Every step of startExisting and of a watchdog is safe.
LEMMA StartStepSafe ==
  ASSUME OneSession, TypeOK, GenerationInv, SafetyInv, NEW s \in starts, StartStep(s)
  PROVE  SafetyInv'
  <1> USE DEF processVars, holdVars
  <1>s. s.exec \in Exec /\ s.gen \in Nat
        /\ exec \in [Exec -> ExecRec] /\ exec[s.exec] \in ExecRec
    BY ProcessPairs DEF TypeOK
  <1>k. exec' = exec => \A f \in Exec : SameProcess(f) /\ exec'[f].state = exec[f].state
                                        /\ exec'[f].desired = exec[f].desired
    BY DEF SameProcess
  <1>1. CASE CheckStart(s)
    BY <1>1, <1>k, PassesStart DEF CheckStart
  <1>2. CASE ValidateStart(s)
    BY <1>2, <1>k, PassesStart DEF ValidateStart
  <1>3. CASE RejectStart(s)
    <2>1. CASE Current(s) /\ ~closed
      <3>1. /\ exec'[s.exec].pid = exec[s.exec].pid /\ ~exec'[s.exec].desired
            /\ exec'[s.exec].state # "STOPPING"
            /\ \A f \in Exec \ {s.exec} : exec'[f] = exec[f]
        BY <1>3, <1>s, <2>1 DEF RejectStart, ExecRec
      <3>2. \A p \in Unreaped : p[1] # s.exec
        BY <2>1, CurrentIsFree DEF SafetyInv
      <3>3. doneClosed \cap Unreaped = {}
        BY DEF SafetyInv, OwnInv
      <3> QED
        BY <1>3, <3>1, <3>2, <3>3, SettlesStart DEF RejectStart
    <2>2. CASE ~(Current(s) /\ ~closed)
      BY <1>3, <1>k, <2>2, PassesStart DEF RejectStart
    <2> QED
      BY <2>1, <2>2
  <1>4. CASE CommitSuppressed(s)
    <2>1. /\ exec'[s.exec].pid = exec[s.exec].pid /\ ~exec'[s.exec].desired
          /\ exec'[s.exec].state # "STOPPING"
          /\ \A f \in Exec \ {s.exec} : exec'[f] = exec[f]
      BY <1>4, <1>s DEF CommitSuppressed, ExecRec
    <2>2. \A p \in Unreaped : p[1] # s.exec
      BY <1>4 DEF CommitSuppressed, SafetyInv, HoldInv, StartInv, OneSession
    <2>3. doneClosed \cap Unreaped = {}
      BY DEF SafetyInv, OwnInv
    <2> QED
      BY <1>4, <2>1, <2>2, <2>3, SettlesStart DEF CommitSuppressed
  <1>5. CASE CommitSuperseded(s)
    BY <1>5, <1>k, PassesStart DEF CommitSuperseded
  <1>6. CASE CommitSpawn(s)
    BY <1>6, SpawnSafe
  <1>7. CASE CommitSpawnFails(s)
    <2>1. /\ exec'[s.exec].pid = exec[s.exec].pid /\ ~exec'[s.exec].desired
          /\ exec'[s.exec].state # "STOPPING"
          /\ \A f \in Exec \ {s.exec} : exec'[f] = exec[f]
      BY <1>7, <1>s DEF CommitSpawnFails, ExecRec
    <2>2. /\ \A p \in Unreaped : p[1] # s.exec
          /\ <<s.exec, s.gen>> \notin Unreaped
      BY <1>7, CurrentIsFree DEF CommitSpawnFails, SafetyInv
    <2>3. doneClosed' \cap Unreaped = {}
      BY <1>7, <2>2 DEF CommitSpawnFails, SafetyInv, OwnInv
    <2> QED
      BY <1>7, <2>1, <2>2, <2>3, SettlesStart DEF CommitSpawnFails
  <1>8. CASE WatchdogFires(s)
    BY <1>8, <1>k, PassesStart DEF WatchdogFires
  <1>9. CASE WatchdogRestarts(s)
    <2>1. \A f \in Exec : SameProcess(f) /\ exec'[f].state = exec[f].state
                          /\ exec'[f].desired = exec[f].desired
      BY <1>9, <1>s DEF WatchdogRestarts, SameProcess, ExecRec
    <2> QED
      BY <1>9, <2>1, PassesStart DEF WatchdogRestarts
  <1> QED
    BY <1>1, <1>2, <1>3, <1>4, <1>5, <1>6, <1>7, <1>8, <1>9 DEF StartStep

-----------------------------------------------------------------------------
\* A process that exits is still unreaped.
LEMMA ExitSafe ==
  ASSUME TypeOK, SafetyInv, NEW p \in alive, Exit(p)
  PROVE  SafetyInv'
  <1> USE DEF SafetyInv
  <1>1. /\ alive' = alive \ {p} /\ zombies' = zombies \cup {p}
        /\ UNCHANGED <<exec, doneClosed, starts, call, maintenance, holdRevision, acked, closed>>
    BY DEF Exit, holdVars
  <1>u. Unreaped' = Unreaped
    BY <1>1 DEF Unreaped
  <1>2. OwnInv'
    BY <1>1, <1>u DEF OwnInv
  <1>3. StartInv'
    BY <1>1, <1>u, StartShrinks
  <1>4. CallInv'
    BY <1>1, <1>u, CallKept DEF CallInv, StopInv
  <1>5. HoldInv' /\ ShutdownInv'
    BY <1>1, HoldKept, ShutdownKept
  <1> QED
    BY <1>2, <1>3, <1>4, <1>5

\* What wait does for a process p it has reaped and still owns.
LEMMA ReapSafe ==
  ASSUME TypeOK, SafetyInv, NEW p \in zombies, Reap(p),
         \A f \in Exec \ {p[1]} : exec'[f] = exec[f],
         exec'[p[1]].pid = 0, exec'[p[1]].state # "STOPPING",
         exec'[p[1]].desired => exec[p[1]].desired,
         \/ starts' = starts
         \/ p[1] \in OnFailure /\ \E n \in StartRec :
              n.by = "watchdog" /\ n.gen > 0 /\ n.exec = p[1] /\ starts' = starts \cup {n}
  PROVE  SafetyInv'
  <1> USE DEF SafetyInv
  <1>p. p \in Unreaped /\ p[1] \in Exec
    BY ProcessPairs DEF Unreaped
  <1>r. /\ alive' = alive /\ zombies' = zombies \ {p} /\ doneClosed' = doneClosed \cup {p}
        /\ UNCHANGED <<call, maintenance, holdRevision, acked, closed>>
    BY DEF Reap, holdVars
  <1>u. Unreaped' = Unreaped \ {p}
    BY <1>r DEF Unreaped, OwnInv
  <1>1. OwnInv'
    <2>1. \A q \in Unreaped' : q[1] \in Exec \ {p[1]}
      BY <1>p, <1>u, PidTellsProcess, ProcessPairs
    <2>2. alive' \cap zombies' = {} /\ doneClosed' \cap Unreaped' = {}
      BY <1>r, <1>u DEF OwnInv
    <2>3. \A e \in Exec : exec'[e].pid # 0 => <<e, exec'[e].pid>> \in Unreaped'
      <3> SUFFICES ASSUME NEW e \in Exec, exec'[e].pid # 0
                   PROVE  <<e, exec'[e].pid>> \in Unreaped'
        OBVIOUS
      <3>1. e # p[1] /\ exec'[e] = exec[e]
        OBVIOUS
      <3>2. <<e, exec[e].pid>> \in Unreaped
        BY <3>1 DEF OwnInv
      <3>3. <<e, exec[e].pid>> # p
        BY <3>1
      <3> QED
        BY <1>u, <3>1, <3>2, <3>3
    <2> QED
      BY <1>u, <2>1, <2>2, <2>3 DEF OwnInv
  <1>2. StartInv'
    BY <1>r, <1>u, StartShrinks DEF StartInv
  <1>3. CallInv'
    <2>1. \A c \in Caller : call[c].pc = "stopping" => ~exec'[call[c].exec].desired
      BY DEF TypeOK, NamesExecution, CallInv, StopInv
    <2> QED
      BY <1>r, <1>u, <2>1, CallKept
  <1>4. HoldInv' /\ ShutdownInv'
    BY <1>r, HoldKept, ShutdownKept
  <1> QED
    BY <1>1, <1>2, <1>3, <1>4

\* Every step of a wait goroutine is safe: it always owns the process it reaps.
LEMMA WaitStepSafe ==
  ASSUME TypeOK, SafetyInv, NEW p \in zombies, WaitStep(p)
  PROVE  SafetyInv'
  <1>p. /\ p[1] \in Exec /\ p \in Unreaped /\ exec[p[1]] \in ExecRec
        /\ exec \in [Exec -> ExecRec] /\ exec[p[1]].generation \in Nat
        /\ exec[p[1]].crashes \in Nat
    BY ProcessPairs DEF Unreaped, TypeOK, ExecRec
  <1>1. CASE WaitSuperseded(p)
    BY <1>1, <1>p DEF WaitSuperseded, Owns, SafetyInv, OwnInv
  <1>2. CASE WaitStopped(p)
    <2>1. /\ exec'[p[1]].pid = 0 /\ exec'[p[1]].state # "STOPPING"
          /\ exec'[p[1]].desired = exec[p[1]].desired
          /\ \A f \in Exec \ {p[1]} : exec'[f] = exec[f]
      BY <1>2, <1>p DEF WaitStopped, ExecRec
    <2> QED
      BY <1>2, <2>1, ReapSafe DEF WaitStopped
  <1>3. CASE WaitCrashed(p)
    <2>1. PICK kept \in 0 .. exec[p[1]].crashes : WaitCrashed(p)!3!(kept)
      BY <1>3 DEF WaitCrashed
    <2>2. Reap(p) /\ exec[p[1]].desired
      BY <1>3 DEF WaitCrashed
    <2> DEFINE n == CrashCount(kept)
               g == exec[p[1]].generation + 1
               w == [by |-> "watchdog", exec |-> p[1], gen |-> g, phase |-> "sleep"]
               x(st) == [exec[p[1]] EXCEPT !.pid = 0, !.crashes = n,
                                           !.desired = FALSE, !.state = st]
               z == [exec[p[1]] EXCEPT !.pid = 0, !.crashes = n, !.state = "BACKOFF",
                                       !.generation = g, !.backoff = g]
    <2>3. \/ exec' = [exec EXCEPT ![p[1]] = x("CRASHED")] /\ starts' = starts
          \/ exec' = [exec EXCEPT ![p[1]] = x("FAILED")] /\ starts' = starts
          \/ /\ exec' = [exec EXCEPT ![p[1]] = z]
             /\ p[1] \in OnFailure /\ starts' = starts \cup {w}
      BY <2>1
    <2>4. g \in Nat /\ g > 0
      BY <1>p
    <2> HIDE DEF n, g
    <2>5. \A st : x(st).pid = 0 /\ x(st).state = st
      BY <1>p DEF ExecRec
    <2>6. z.pid = 0 /\ z.state = "BACKOFF"
      BY <1>p DEF ExecRec
    <2>7. w \in StartRec /\ w.by = "watchdog" /\ w.gen > 0 /\ w.exec = p[1]
      BY <1>p, <2>4 DEF StartRec
    <2> HIDE DEF x, z, w
    <2>8. /\ exec'[p[1]].pid = 0 /\ exec'[p[1]].state # "STOPPING"
          /\ \A f \in Exec \ {p[1]} : exec'[f] = exec[f]
      BY <1>p, <2>3, <2>5, <2>6
    <2> QED
      BY <2>2, <2>3, <2>7, <2>8, ReapSafe
  <1> QED
    BY <1>1, <1>2, <1>3 DEF WaitStep

-----------------------------------------------------------------------------
\* What caller c, about to stop e with record r left to do, may rely on.
MayStop(c, e, r) ==
    /\ \/ closed
       \/ maintenance /\ r.op = "hold"
       \/ c \in CommandThreads /\ r.op # "hold"
    /\ r.op = "restart" => c \in CommandThreads
    /\ r.op = "hold" =>
          /\ c \in HoldThreads /\ r.rev = holdRevision
          /\ maintenance => \A p \in alive : p[1] \in r.todo \cup {e}
    /\ r.op = "shutdown" => closed /\ \A p \in alive : p[1] \in r.todo \cup {e}

\* Where a caller goes when its Stop returns.
LEMMA AfterStopFields ==
  ASSUME NEW r \in CallRec
  PROVE  \/ AfterStop(r) = Idle
         \/ r.op = "restart" /\ AfterStop(r).pc = "restart" /\ AfterStop(r).op = "restart"
         \/ /\ r.op \in {"hold", "shutdown"}
            /\ AfterStop(r).pc = "next" /\ AfterStop(r).op = r.op
            /\ AfterStop(r).todo = r.todo /\ AfterStop(r).rev = r.rev
  <1>1. CASE r.op = "restart"
    BY <1>1 DEF AfterStop, CallRec
  <1>2. CASE r.op \in {"hold", "shutdown"}
    BY <1>2 DEF AfterStop, CallRec
  <1>3. CASE r.op \notin {"restart", "hold", "shutdown"}
    BY <1>3 DEF AfterStop
  <1> QED
    BY <1>1, <1>2, <1>3

\* One caller moves, nothing else its peers rely on does.
LEMMA CallMoves ==
  ASSUME TypeOK, CallInv, NEW c \in Caller,
         \A d \in Caller \ {c} : call'[d] = call[d],
         closed' = closed, maintenance' = maintenance, Unreaped' = Unreaped,
         \A d \in Caller \ {c} : call[d].pc = "stopping" => ~exec'[call[d].exec].desired,
         \A e \in Exec : exec'[e].state = "STOPPING" =>
            Stopping(c, e)' \/ (exec[e].state = "STOPPING" /\ ~Stopping(c, e)),
         StopInv(c)', RoleInv(c)'
  PROVE  CallInv'
  <1>1. \A e \in Exec : exec'[e].state = "STOPPING" =>
           closed' \/ \E d \in Caller : Stopping(d, e)'
    BY DEF CallInv, Stopping
  <1>2. \A d \in Caller \ {c} : StopInv(d)' /\ RoleInv(d)'
    BY DEF CallInv, StopInv, RoleInv
  <1> QED
    BY <1>1, <1>2 DEF CallInv

\* One caller moves, and no process does.
LEMMA PromisesMove ==
  ASSUME HoldInv, ShutdownInv, NEW c \in Caller,
         \A d \in Caller \ {c} : call'[d] = call[d],
         UNCHANGED <<alive, maintenance, holdRevision, acked, closed>>,
         call'[c].op = "hold" =>
            call'[c].rev = holdRevision /\ (maintenance => Covered(c)'),
         call'[c].op = "shutdown" => closed /\ Covered(c)',
         call'[c].pc = "down" => call'[c].op = "shutdown" /\ call'[c].todo = {}
  PROVE  HoldInv' /\ ShutdownInv'
  <1>1. \A d \in Caller \ {c} : Covered(d)' <=> Covered(d)
    BY DEF Covered, Stopping
  <1>2. HoldInv'
    BY <1>1 DEF HoldInv
  <1>3. ShutdownInv'
    BY <1>1 DEF ShutdownInv
  <1> QED
    BY <1>2, <1>3

\* The last critical section of a Stop, or the only one when nothing runs: the
\* execution has no process, is STOPPED, and the caller goes on.
LEMMA StopEnds ==
  ASSUME TypeOK, SafetyInv, NEW c \in Caller, NEW e \in Exec, NEW r \in CallRec,
         MayStop(c, e, r), \A p \in Unreaped : p[1] # e,
         \A f \in Exec \ {e} : exec'[f] = exec[f],
         exec'[e].pid = 0, exec'[e].state = "STOPPED", ~exec'[e].desired,
         starts' \subseteq starts,
         call' = [call EXCEPT ![c] = AfterStop(r)], call[c].pc # "starting",
         call[c].pc = "stopping" => call[c].exec = e,
         UNCHANGED <<alive, zombies, doneClosed, maintenance, holdRevision, acked, closed>>
  PROVE  SafetyInv'
  <1> USE DEF SafetyInv
  <1>c. /\ call'[c] = AfterStop(r)
        /\ \A d \in Caller \ {c} : call'[d] = call[d]
    BY DEF TypeOK
  <1>u. Unreaped' = Unreaped
    BY DEF Unreaped
  <1>1. OwnInv'
    BY OwnSettled DEF OwnInv
  <1>2. StartInv'
    <2>1. \A u \in starts : u.by # "watchdog" => u.by \in Caller \ {c}
      BY DEF StartInv, Caller
    <2> QED
      BY <1>c, <1>u, <2>1, StartShrinks
  <1>3. CallInv'
    <2>1. StopInv(c)' /\ RoleInv(c)'
      BY <1>c, AfterStopFields, IdleFields DEF StopInv, RoleInv, MayStop
    <2>2. \A d \in Caller \ {c} : call[d].pc = "stopping" => ~exec'[call[d].exec].desired
      BY DEF TypeOK, NamesExecution, CallInv, StopInv
    <2>3. \A f \in Exec : exec'[f].state = "STOPPING" =>
             exec[f].state = "STOPPING" /\ ~Stopping(c, f)
      BY DEF Stopping
    <2> QED
      BY <1>c, <1>u, <2>1, <2>2, <2>3, CallMoves
  <1>4. HoldInv' /\ ShutdownInv'
    <2>1. \A p \in alive : p[1] # e
      BY DEF Unreaped
    <2>2. call'[c].op = "hold" =>
             call'[c].rev = holdRevision /\ (maintenance => Covered(c)')
      BY <1>c, <2>1, AfterStopFields, IdleFields DEF MayStop, Covered
    <2>3. call'[c].op = "shutdown" => closed /\ Covered(c)'
      BY <1>c, <2>1, AfterStopFields, IdleFields DEF MayStop, Covered
    <2>4. call'[c].pc # "down"
      BY <1>c, AfterStopFields, IdleFields
    <2> QED
      BY <1>c, <2>2, <2>3, <2>4, PromisesMove
  <1> QED
    BY <1>1, <1>2, <1>3, <1>4

\* The first critical section of Stop signals the process the execution names; an
\* execution that reports STOPPED, or has no pid, has none.
LEMMA StopSectionSafe ==
  ASSUME TypeOK, SafetyInv, NEW c \in Caller, NEW e \in Exec, NEW r \in CallRec,
         MayStop(c, e, r), StopSection(c, e, r),
         call[c].pc \notin {"starting", "stopping"}
  PROVE  SafetyInv'
  <1> USE DEF SafetyInv
  <1>t. /\ exec \in [Exec -> ExecRec] /\ exec[e] \in ExecRec
        /\ call \in [Caller -> CallRec]
    BY DEF TypeOK
  <1>s. /\ starts' \subseteq starts
        /\ UNCHANGED <<alive, zombies, doneClosed, maintenance, holdRevision, acked, closed>>
    BY DEF StopSection, holdVars
  <1>u. Unreaped' = Unreaped
    BY <1>s DEF Unreaped
  <1>1. CASE exec[e].state = "STOPPED" \/ exec[e].pid = 0
    <2>1. \A p \in Unreaped : p[1] # e
      BY <1>1, PidTellsProcess DEF OwnInv
    <2>2. exec[e].pid = 0
      BY <2>1, PidTellsProcess
    <2> DEFINE x == [exec[e] EXCEPT !.desired = FALSE, !.backoff = 0,
                                    !.generation = exec[e].generation + 1,
                                    !.state = "STOPPED"]
    <2>3. exec' = [exec EXCEPT ![e] = x] /\ call' = [call EXCEPT ![c] = AfterStop(r)]
      BY <1>1 DEF StopSection
    <2>4. x.pid = exec[e].pid /\ x.state = "STOPPED" /\ x.desired = FALSE
      BY <1>t DEF ExecRec
    <2> HIDE DEF x
    <2>5. /\ exec'[e].pid = 0 /\ exec'[e].state = "STOPPED" /\ ~exec'[e].desired
          /\ \A f \in Exec \ {e} : exec'[f] = exec[f]
      BY <1>t, <2>2, <2>3, <2>4
    <2> QED
      BY <1>s, <2>1, <2>3, <2>5, StopEnds
  <1>2. CASE ~(exec[e].state = "STOPPED" \/ exec[e].pid = 0)
    <2> DEFINE x == [exec[e] EXCEPT !.desired = FALSE, !.backoff = 0, !.state = "STOPPING"]
               k == [r EXCEPT !.pc = "stopping", !.exec = e, !.cmd = exec[e].cmd]
    <2>1. exec' = [exec EXCEPT ![e] = x] /\ call' = [call EXCEPT ![c] = k]
      BY <1>2 DEF StopSection
    <2>2. /\ x.generation = exec[e].generation /\ x.cmd = exec[e].cmd
          /\ x.pid = exec[e].pid /\ x.state = "STOPPING" /\ x.desired = FALSE
      BY <1>t DEF ExecRec
    <2>3. /\ k.pc = "stopping" /\ k.exec = e /\ k.cmd = exec[e].cmd
          /\ k.op = r.op /\ k.todo = r.todo /\ k.rev = r.rev
      BY DEF CallRec
    <2> HIDE DEF x, k
    <2>4. exec'[e] = x /\ \A f \in Exec \ {e} : exec'[f] = exec[f]
      BY <1>t, <2>1
    <2>5. call'[c] = k /\ \A d \in Caller \ {c} : call'[d] = call[d]
      BY <1>t, <2>1
    <2>6. OwnInv'
      BY <1>s, <2>2, <2>4, OwnKept DEF SameProcess
    <2>7. StartInv'
      <3>1. \A v \in starts : v.by # "watchdog" => v.by \in Caller \ {c}
        BY DEF StartInv, Caller
      <3> QED
        BY <1>s, <1>u, <2>5, <3>1, StartShrinks
    <2>8. CallInv'
      <3>1. \A p \in Unreaped : p[1] = e => p[2] = exec[e].cmd
        BY DEF OwnInv
      <3>2. StopInv(c)' /\ RoleInv(c)'
        BY <1>s, <1>u, <2>2, <2>3, <2>4, <2>5, <3>1 DEF StopInv, RoleInv, MayStop
      <3>3. \A d \in Caller \ {c} : call[d].pc = "stopping" => ~exec'[call[d].exec].desired
        BY <2>2, <2>4 DEF TypeOK, NamesExecution, CallInv, StopInv
      <3>4. \A f \in Exec : exec'[f].state = "STOPPING" =>
               Stopping(c, f)' \/ (exec[f].state = "STOPPING" /\ ~Stopping(c, f))
        BY <2>3, <2>4, <2>5 DEF Stopping
      <3> QED
        BY <1>s, <1>u, <2>5, <3>2, <3>3, <3>4, CallMoves
    <2>9. HoldInv' /\ ShutdownInv'
      <3>1. \A p \in alive : p[1] \in r.todo \cup {e} => p[1] \in call'[c].todo \/ Stopping(c, p[1])'
        BY <2>3, <2>5 DEF Stopping
      <3>2. call'[c].op = "hold" =>
               call'[c].rev = holdRevision /\ (maintenance => Covered(c)')
        BY <1>s, <2>3, <2>5, <3>1 DEF MayStop, Covered
      <3>3. call'[c].op = "shutdown" => closed /\ Covered(c)'
        BY <1>s, <2>3, <2>5, <3>1 DEF MayStop, Covered
      <3> QED
        BY <1>s, <2>3, <2>5, <3>2, <3>3, PromisesMove
    <2> QED
      BY <2>6, <2>7, <2>8, <2>9
  <1> QED
    BY <1>1, <1>2

-----------------------------------------------------------------------------
\* An accepted START finds no process: what is RUNNING and wanted refuses it, and
\* what is STOPPING is being stopped by the very goroutine that would send it.
LEMMA AcceptStartSafe ==
  ASSUME OneSession, TypeOK, SafetyInv, NEW c \in CommandThreads, NEW e \in Exec,
         AcceptStart(c, e), call[c].pc \in {"idle", "restart"}
  PROVE  SafetyInv'
  <1> USE DEF SafetyInv
  <1>t. /\ exec \in [Exec -> ExecRec] /\ exec[e] \in ExecRec /\ exec[e].generation \in Nat
        /\ call \in [Caller -> CallRec] /\ c \in Caller
    BY DEF TypeOK, Caller, ExecRec
  <1>a. /\ ~closed /\ ~maintenance /\ ~AlreadyRunning(e)
        /\ UNCHANGED <<alive, zombies, doneClosed, maintenance, holdRevision, acked, closed>>
    BY DEF AcceptStart, processVars, holdVars
  <1>u. Unreaped' = Unreaped
    BY <1>a DEF Unreaped
  <1> DEFINE n == [by |-> c, exec |-> e, gen |-> NextGeneration(e), phase |-> "check"]
             k == [Idle EXCEPT !.pc = "starting", !.op = "start", !.exec = e]
  <1>n. n.by = c /\ n.exec = e /\ n.gen > 0
    BY <1>t DEF NextGeneration
  <1>k. k.pc = "starting" /\ k.op = "start"
    BY DEF Idle
  <1>e. /\ \A f \in Exec \ {e} : exec'[f] = exec[f]
        /\ exec'[e].pid = exec[e].pid
        /\ exec'[e].state \in {exec[e].state, "STARTING"}
    BY <1>t DEF AcceptStart, ExecRec
  <1>c. /\ starts' \subseteq starts \cup {n}
        /\ call'[c] = k /\ \A d \in Caller \ {c} : call'[d] = call[d]
    BY <1>t DEF AcceptStart
  <1> HIDE DEF n, k
  <1>1. \A d \in Caller : call[d].pc # "stopping"
    BY <1>a DEF CallInv, StopInv, RoleInv, OneSession
  <1>2. \A f \in Exec : exec[f].state # "STOPPING"
    BY <1>a, <1>1 DEF CallInv, Stopping
  <1>3. \A p \in Unreaped : p[1] # e
    BY <1>a, <1>2, ProcessPairs DEF OwnInv, AlreadyRunning
  <1>4. \A s \in starts : s.by = "watchdog"
    BY DEF StartInv, OneSession
  <1>5. OwnInv'
    BY <1>a, <1>e, <1>3, OwnSettled, PidTellsProcess DEF OwnInv
  <1>6. StartInv'
    <2>1. \A s \in starts' : s.gen > 0
      BY <1>c, <1>n DEF StartInv
    <2>2. \A s \in starts' : s.by = "watchdog" => s.exec \in OnFailure
      BY <1>c, <1>n, <1>t, SupervisorAssumption DEF StartInv
    <2>3. \A s \in starts' : s.by # "watchdog" => s = n
      BY <1>c, <1>4
    <2>4. OnFailure = {} => \A s \in starts', p \in Unreaped' : p[1] # s.exec
      BY <1>c, <1>n, <1>u, <1>3 DEF StartInv
    <2> QED
      BY <1>c, <1>k, <1>n, <2>1, <2>2, <2>3, <2>4 DEF StartInv
  <1>7. CallInv'
    <2>1. StopInv(c)' /\ RoleInv(c)'
      BY <1>c, <1>k DEF StopInv, RoleInv
    <2>2. \A f \in Exec : exec'[f].state # "STOPPING"
      BY <1>e, <1>2
    <2> QED
      BY <1>a, <1>c, <1>t, <1>u, <1>1, <2>1, <2>2, CallMoves
  <1>8. HoldInv' /\ ShutdownInv'
    BY <1>a, <1>c, <1>k, <1>t, PromisesMove
  <1> QED
    BY <1>5, <1>6, <1>7, <1>8

\* What a caller inside Stop, Restart, ApplyMaintenanceHold or Shutdown does next.
LEMMA CallStepSafe ==
  ASSUME OneSession, TypeOK, SafetyInv, NEW c \in Caller, CallStep(c)
  PROVE  SafetyInv'
  <1> USE DEF SafetyInv
  <1>t. /\ exec \in [Exec -> ExecRec] /\ call \in [Caller -> CallRec]
        /\ call[c] \in CallRec /\ call[c].todo \subseteq Exec
    BY ProcessPairs DEF TypeOK
  <1>i. StopInv(c) /\ RoleInv(c)
    BY DEF CallInv
  <1>1. CASE FinishStop(c)
    <2> DEFINE e == call[c].exec
    <2>1. e \in Exec /\ exec[e] \in ExecRec
      BY <1>1, <1>t DEF FinishStop, TypeOK, NamesExecution
    <2>2. \A p \in Unreaped : p[1] # e
      BY <1>1, <1>i, ProcessPairs DEF FinishStop, ProcessGone, StopInv, OwnInv
    <2>3. MayStop(c, e, call[c])
      <3>1. Covered(c) => \A p \in alive : p[1] \in call[c].todo \cup {e}
        BY DEF Covered, Stopping
      <3> QED
        BY <1>1, <1>i, <3>1 DEF FinishStop, MayStop, StopInv, RoleInv, HoldInv, ShutdownInv
    <2>4. /\ exec'[e].pid = 0 /\ exec'[e].state = "STOPPED"
          /\ exec'[e].desired = exec[e].desired
          /\ \A f \in Exec \ {e} : exec'[f] = exec[f]
      BY <1>1, <1>t, <2>1 DEF FinishStop, ExecRec
    <2>5. ~exec'[e].desired
      BY <1>1, <1>i, <2>4 DEF FinishStop, StopInv
    <2>6. /\ call' = [call EXCEPT ![c] = AfterStop(call[c])] /\ call[c].pc = "stopping"
          /\ starts' \subseteq starts
          /\ UNCHANGED <<alive, zombies, doneClosed, maintenance, holdRevision, acked, closed>>
      BY <1>1 DEF FinishStop, processVars, holdVars
    <2> HIDE DEF e
    <2>7. call[c].exec = e
      BY DEF e
    <2> QED
      BY <1>t, <2>1, <2>2, <2>3, <2>4, <2>5, <2>6, <2>7, StopEnds
  <1>2. CASE RestartStart(c)
    <2>1. c \in CommandThreads /\ call[c].pc = "restart" /\ call[c].exec \in Exec
      BY <1>2, <1>i DEF RestartStart, RoleInv, TypeOK, NamesExecution
    <2>2. CASE AcceptStart(c, call[c].exec)
      BY <2>1, <2>2, AcceptStartSafe
    <2>3. CASE ~AcceptStart(c, call[c].exec)
      <3>1. /\ UNCHANGED <<exec, alive, zombies, doneClosed, starts, maintenance,
                           holdRevision, acked, closed>>
            /\ call'[c] = Idle /\ \A d \in Caller \ {c} : call'[d] = call[d]
        BY <1>2, <1>t, <2>3 DEF RestartStart, processVars, holdVars
      <3>2. Unreaped' = Unreaped
        BY <3>1 DEF Unreaped
      <3>3. OwnInv'
        BY <3>1, <3>2 DEF OwnInv
      <3>4. StartInv'
        <4>1. \A u \in starts : u.by # "watchdog" => u.by \in Caller \ {c}
          BY <2>1 DEF StartInv, Caller
        <4> QED
          BY <3>1, <3>2, <4>1, StartShrinks
      <3>5. CallInv'
        BY <2>1, <3>1, <3>2, CallKept DEF CallInv, StopInv
      <3>6. HoldInv' /\ ShutdownInv'
        BY <3>1, HoldKept, ShutdownKept
      <3> QED
        BY <3>3, <3>4, <3>5, <3>6
    <2> QED
      BY <2>2, <2>3
  <1>3. CASE StopNext(c)
    <2>1. PICK e \in call[c].todo : StopSection(c, e, [call[c] EXCEPT !.todo = @ \ {e}])
      BY <1>3 DEF StopNext
    <2> DEFINE r == [call[c] EXCEPT !.todo = @ \ {e}]
    <2>2. /\ r \in CallRec /\ r.op = call[c].op /\ r.rev = call[c].rev
          /\ r.todo \cup {e} = call[c].todo /\ e \in Exec
      BY <1>t DEF CallRec
    <2>3. StopSection(c, e, r) /\ call[c].pc = "next"
      BY <1>3, <2>1 DEF StopNext
    <2> HIDE DEF r
    <2>4. MayStop(c, e, r)
      <3>1. Covered(c) => \A p \in alive : p[1] \in r.todo \cup {e}
        BY <2>2, <2>3 DEF Covered, Stopping
      <3> QED
        BY <1>i, <2>2, <2>3, <3>1 DEF MayStop, StopInv, RoleInv, HoldInv, ShutdownInv
    <2> QED
      BY <2>2, <2>3, <2>4, StopSectionSafe
  <1>4. CASE HoldReturns(c)
    <2>1. /\ call[c].pc = "next" /\ call[c].op = "hold" /\ call[c].todo = {}
          /\ acked' = IF call[c].rev > acked THEN call[c].rev ELSE acked
          /\ UNCHANGED <<exec, alive, zombies, doneClosed, starts, maintenance,
                         holdRevision, closed>>
          /\ call'[c] = Idle /\ \A d \in Caller \ {c} : call'[d] = call[d]
      BY <1>4, <1>t DEF HoldReturns, processVars
    <2>2. Unreaped' = Unreaped
      BY <2>1 DEF Unreaped
    <2>3. OwnInv'
      BY <2>1, <2>2 DEF OwnInv
    <2>4. StartInv'
      <3>1. \A u \in starts : u.by # "watchdog" => u.by \in Caller \ {c}
        BY <2>1 DEF StartInv, Caller
      <3> QED
        BY <2>1, <2>2, <3>1, StartShrinks
    <2>5. CallInv'
      BY <2>1, <2>2, CallKept DEF CallInv, StopInv
    <2>6. HoldInv'
      <3>1. maintenance => alive = {}
        BY <2>1 DEF HoldInv, Covered, Stopping
      <3>2. call[c].rev = holdRevision /\ acked \in Nat /\ holdRevision \in Nat
        BY <2>1 DEF HoldInv, TypeOK
      <3>3. acked' <= holdRevision
        BY <2>1, <3>2 DEF HoldInv
      <3>4. \A d \in Caller : call'[d].op = "hold" =>
               call'[d].rev = holdRevision /\ (maintenance => Covered(d)')
        BY <2>1, <3>1, IdleFields DEF HoldInv, Covered
      <3> QED
        BY <2>1, <3>1, <3>3, <3>4 DEF HoldInv
    <2>7. ShutdownInv'
      BY <2>1, ShutdownKept
    <2> QED
      BY <2>3, <2>4, <2>5, <2>6, <2>7
  <1>5. CASE ShutdownReturns(c)
    <2> DEFINE k == [call[c] EXCEPT !.pc = "down"]
    <2>1. /\ call[c].pc = "next" /\ call[c].op = "shutdown" /\ call[c].todo = {}
          /\ call' = [call EXCEPT ![c] = k]
          /\ UNCHANGED <<exec, alive, zombies, doneClosed, starts, maintenance,
                         holdRevision, acked, closed>>
      BY <1>5 DEF ShutdownReturns, processVars, holdVars
    <2>2. k.pc = "down" /\ k.op = "shutdown" /\ k.todo = {}
      BY <1>t, <2>1 DEF CallRec
    <2> HIDE DEF k
    <2>3. call'[c] = k /\ \A d \in Caller \ {c} : call'[d] = call[d]
      BY <1>t, <2>1
    <2>4. Unreaped' = Unreaped
      BY <2>1 DEF Unreaped
    <2>5. OwnInv'
      BY <2>1, <2>4 DEF OwnInv
    <2>6. StartInv'
      <3>1. \A u \in starts : u.by # "watchdog" => u.by \in Caller \ {c}
        BY <2>1 DEF StartInv, Caller
      <3> QED
        BY <2>1, <2>3, <2>4, <3>1, StartShrinks
    <2>7. CallInv'
      <3>1. StopInv(c)' /\ RoleInv(c)'
        BY <2>2, <2>3 DEF StopInv, RoleInv
      <3> QED
        BY <2>1, <2>3, <2>4, <3>1, CallMoves DEF CallInv, StopInv, Stopping
    <2>8. HoldInv' /\ ShutdownInv'
      <3>1. closed /\ Covered(c)
        BY <2>1 DEF ShutdownInv
      <3>2. alive = {}
        BY <2>1, <3>1 DEF Covered, Stopping
      <3> QED
        BY <2>1, <2>2, <2>3, <3>1, <3>2, PromisesMove DEF Covered
    <2> QED
      BY <2>5, <2>6, <2>7, <2>8
  <1> QED
    BY <1>1, <1>2, <1>3, <1>4, <1>5 DEF CallStep

\* A client's command, START, STOP or RESTART.
LEMMA CommandSafe ==
  ASSUME OneSession, TypeOK, SafetyInv, NEW c \in Caller, NEW e \in Exec,
         Start(c, e) \/ Stop(c, e) \/ Restart(c, e)
  PROVE  SafetyInv'
  <1>1. CASE Start(c, e)
    BY <1>1, AcceptStartSafe DEF Start
  <1>2. CASE Stop(c, e)
    <2>1. MayStop(c, e, [Idle EXCEPT !.op = "stop"])
      BY <1>2 DEF Stop, MayStop, Idle
    <2> QED
      BY <1>2, <2>1, IdleType, StopSectionSafe DEF Stop
  <1>3. CASE Restart(c, e)
    <2>1. MayStop(c, e, [Idle EXCEPT !.op = "restart", !.exec = e])
      BY <1>3 DEF Restart, MayStop, Idle
    <2> QED
      BY <1>3, <2>1, IdleType, StopSectionSafe DEF Restart
  <1> QED
    BY <1>1, <1>2, <1>3

\* A hold that is accepted sets out to stop whatever is alive.
LEMMA HoldSafe ==
  ASSUME OneSession, TypeOK, SafetyInv, NEW c \in Caller, NEW active \in BOOLEAN,
         NEW revision \in 1 .. MaxRevision, ApplyMaintenanceHold(c, active, revision)
  PROVE  SafetyInv'
  <1> USE DEF SafetyInv
  <1> DEFINE t == IF active THEN HoldTargets ELSE {}
             k == [Idle EXCEPT !.pc = "next", !.op = "hold", !.rev = revision, !.todo = t]
  <1>1. /\ call[c].pc = "idle" /\ c \in HoldThreads
        /\ revision > holdRevision \/ (revision = holdRevision /\ active = maintenance)
        /\ holdRevision' = revision /\ maintenance' = active
        /\ call' = [call EXCEPT ![c] = k]
        /\ UNCHANGED <<exec, alive, zombies, doneClosed, starts, closed, acked>>
    BY DEF ApplyMaintenanceHold, processVars
  <1>2. /\ k.pc = "next" /\ k.op = "hold" /\ k.rev = revision
        /\ active => k.todo = HoldTargets
        /\ ~active => k.todo = {}
    BY DEF Idle
  <1> HIDE DEF k, t
  <1>3. call'[c] = k /\ \A d \in Caller \ {c} : call'[d] = call[d]
    BY <1>1 DEF TypeOK
  <1>4. \A d \in Caller \ {c} : call[d].op # "hold"
    BY <1>1 DEF CallInv, RoleInv, OneSession
  <1>u. Unreaped' = Unreaped
    BY <1>1 DEF Unreaped
  <1>5. OwnInv'
    BY <1>1, <1>u DEF OwnInv
  <1>6. StartInv'
    <2>1. \A v \in starts : v.by # "watchdog" => v.by \in Caller \ {c}
      BY <1>1 DEF StartInv, Caller
    <2> QED
      BY <1>1, <1>3, <1>u, <2>1, StartShrinks
  <1>7. CallInv'
    <2>1. \A e \in Exec : exec'[e].state = "STOPPING" =>
             closed' \/ \E d \in Caller : Stopping(d, e)'
      BY <1>1, <1>3 DEF CallInv, Stopping
    <2>2. StopInv(c)' /\ RoleInv(c)'
      BY <1>1, <1>2, <1>3 DEF StopInv, RoleInv
    <2>3. \A d \in Caller \ {c} : StopInv(d)' /\ RoleInv(d)'
      BY <1>1, <1>3, <1>4, <1>u DEF CallInv, StopInv, RoleInv
    <2> QED
      BY <2>1, <2>2, <2>3 DEF CallInv
  <1>8. HoldInv'
    <2>1. \A p \in alive : p[1] \in HoldTargets
      BY ProcessPairs DEF OwnInv, Unreaped, HoldTargets
    <2>2. acked \in Nat /\ holdRevision \in Nat /\ revision \in Nat
      BY DEF TypeOK
    <2>3. acked' <= holdRevision'
      BY <1>1, <2>2 DEF HoldInv
    <2>4. maintenance' /\ acked' = holdRevision' => alive' = {}
      <3>1. acked' = holdRevision' => ~(revision > holdRevision) /\ acked = holdRevision
        BY <1>1, <2>2 DEF HoldInv
      <3> QED
        BY <1>1, <3>1, Zenon DEF HoldInv
    <2>5. \A d \in Caller : call'[d].op = "hold" =>
             call'[d].rev = holdRevision' /\ (maintenance' => Covered(d)')
      BY <1>1, <1>2, <1>3, <1>4, <2>1 DEF Covered
    <2> QED
      BY <1>1, <2>3, <2>4, <2>5 DEF HoldInv
  <1>9. ShutdownInv'
    <2>1. \A d \in Caller \ {c} : Covered(d)' <=> Covered(d)
      BY <1>1, <1>3 DEF Covered, Stopping
    <2> QED
      BY <1>1, <1>2, <1>3, <2>1 DEF ShutdownInv
  <1> QED
    BY <1>5, <1>6, <1>7, <1>8, <1>9

\* Shutdown closes the Supervisor and sets out to stop whatever is alive; one that
\* times out promises nothing any more.
LEMMA ShutdownSafe ==
  ASSUME TypeOK, SafetyInv, NEW c \in Caller, Shutdown(c) \/ ShutdownTimeout(c)
  PROVE  SafetyInv'
  <1> USE DEF SafetyInv
  <1>1. PICK k \in CallRec :
          /\ call' = [call EXCEPT ![c] = k] /\ closed'
          /\ UNCHANGED <<exec, alive, zombies, doneClosed, starts, maintenance,
                         holdRevision, acked>>
          /\ \/ /\ call[c].pc = "idle" /\ k.pc = "next" /\ k.op = "shutdown"
                /\ k.todo = ShutdownTargets
             \/ /\ call[c].pc \in {"stopping", "next"} /\ closed
                /\ k.pc = call[c].pc /\ k.exec = call[c].exec /\ k.cmd = call[c].cmd
                /\ k.op = "stop"
    <2>0. call[c] \in CallRec /\ call \in [Caller -> CallRec]
      BY DEF TypeOK
    <2>1. CASE Shutdown(c)
      <3> DEFINE k == [Idle EXCEPT !.pc = "next", !.op = "shutdown", !.todo = ShutdownTargets]
      <3>1. k \in CallRec /\ k.pc = "next" /\ k.op = "shutdown" /\ k.todo = ShutdownTargets
        BY DEF Idle, CallRec, ShutdownTargets
      <3>2. /\ call' = [call EXCEPT ![c] = k] /\ closed' /\ call[c].pc = "idle"
            /\ UNCHANGED <<exec, alive, zombies, doneClosed, starts, maintenance,
                           holdRevision, acked>>
        BY <2>1 DEF Shutdown, processVars, holdVars
      <3> HIDE DEF k
      <3> QED
        BY <3>1, <3>2
    <2>2. CASE ShutdownTimeout(c)
      <3> DEFINE k(T) == [call[c] EXCEPT !.op = "stop", !.todo = T]
      <3>1. closed /\ closed'
        BY <2>2 DEF ShutdownTimeout, ShutdownInv
      <3>2. PICK T \in SUBSET Exec : call' = [call EXCEPT ![c] = k(T)]
        <4>1. CASE call[c].pc = "stopping"
          BY <2>0, <2>2, <4>1 DEF ShutdownTimeout
        <4>2. CASE call[c].pc = "next"
          BY <2>0, <2>2, <4>2 DEF ShutdownTimeout, CallRec
        <4> QED
          BY <2>2, <4>1, <4>2 DEF ShutdownTimeout
      <3>3. /\ k(T) \in CallRec /\ k(T).pc = call[c].pc /\ k(T).exec = call[c].exec
            /\ k(T).cmd = call[c].cmd /\ k(T).op = "stop"
        BY <2>0 DEF CallRec
      <3>4. /\ call[c].pc \in {"stopping", "next"}
            /\ UNCHANGED <<exec, alive, zombies, doneClosed, starts, maintenance,
                           holdRevision, acked>>
        BY <2>2 DEF ShutdownTimeout, processVars, holdVars
      <3> HIDE DEF k
      <3> QED
        BY <3>1, <3>2, <3>3, <3>4
    <2> QED
      BY <2>1, <2>2
  <1>2. call'[c] = k /\ \A d \in Caller \ {c} : call'[d] = call[d]
    BY <1>1 DEF TypeOK
  <1>u. Unreaped' = Unreaped
    BY <1>1 DEF Unreaped
  <1>3. OwnInv'
    BY <1>1, <1>u DEF OwnInv
  <1>4. StartInv'
    <2>1. \A v \in starts : v.by # "watchdog" => v.by \in Caller \ {c}
      BY <1>1 DEF StartInv, Caller
    <2> QED
      BY <1>1, <1>2, <1>u, <2>1, StartShrinks
  <1>5. CallInv'
    <2>1. StopInv(c)' /\ RoleInv(c)'
      BY <1>1, <1>2, <1>u DEF CallInv, StopInv, RoleInv
    <2>2. \A d \in Caller \ {c} : StopInv(d)' /\ RoleInv(d)'
      BY <1>1, <1>2, <1>u DEF CallInv, StopInv, RoleInv
    <2> QED
      BY <1>1, <2>1, <2>2 DEF CallInv
  <1>6. \A d \in Caller \ {c} : Covered(d)' <=> Covered(d)
    BY <1>1, <1>2 DEF Covered, Stopping
  <1>7. HoldInv'
    BY <1>1, <1>2, <1>6 DEF HoldInv
  <1>8. ShutdownInv'
    <2>1. \A p \in alive : p[1] \in ShutdownTargets
      BY ProcessPairs DEF OwnInv, Unreaped, ShutdownTargets
    <2> QED
      BY <1>1, <1>2, <1>6, <2>1 DEF ShutdownInv, Covered
  <1> QED
    BY <1>3, <1>4, <1>5, <1>7, <1>8

\* The initial Supervisor is safe: it has no execution and no caller.
LEMMA SafetyInit == Init => SafetyInv
  <1> SUFFICES ASSUME Init PROVE SafetyInv
    OBVIOUS
  <1>1. alive = {} /\ Unreaped = {}
    BY DEF Init, Unreaped
  <1>2. OwnInv
    BY <1>1 DEF Init, NoExecution, OwnInv
  <1>3. StartInv
    BY DEF Init, StartInv
  <1>4. CallInv
    BY IdleFields DEF Init, NoExecution, CallInv, StopInv, RoleInv
  <1>5. HoldInv /\ ShutdownInv
    BY IdleFields, <1>1 DEF Init, HoldInv, ShutdownInv
  <1> QED
    BY <1>2, <1>3, <1>4, <1>5 DEF SafetyInv

\* Every step keeps the inductive invariant.
LEMMA SafetyInductive ==
  OneSession /\ TypeOK /\ GenerationInv /\ SafetyInv /\ [Next]_vars => SafetyInv'
  <1> SUFFICES ASSUME OneSession, TypeOK, GenerationInv, SafetyInv, [Next]_vars
               PROVE  SafetyInv'
    OBVIOUS
  <1>1. CASE UNCHANGED vars
    <2> USE <1>1 DEF vars
    <2>1. Unreaped' = Unreaped /\ \A c \in Caller : Covered(c)' <=> Covered(c)
      BY DEF Unreaped, Covered, Stopping
    <2>2. OwnInv' /\ StartInv'
      BY <2>1 DEF SafetyInv, OwnInv, StartInv
    <2>3. CallInv'
      BY <2>1 DEF SafetyInv, CallInv, StopInv, RoleInv, Stopping
    <2>4. HoldInv' /\ ShutdownInv'
      BY <2>1 DEF SafetyInv, HoldInv, ShutdownInv
    <2> QED
      BY <2>2, <2>3, <2>4 DEF SafetyInv
  <1>2. CASE Next
    BY <1>2, CommandSafe, HoldSafe, ShutdownSafe, CallStepSafe, StartStepSafe,
       ExitSafe, WaitStepSafe DEF Next
  <1> QED
    BY <1>1, <1>2

-----------------------------------------------------------------------------
\* The inductive invariant of the Supervisor's critical sections: processes and
\* what executions say of them agree, whoever stops an execution can count on
\* nobody wanting it again, and holds and Shutdown have met what they promise.
THEOREM SafetyInvariant == OneSession => (Spec => []SafetyInv)
  <1>1. Init => GenerationInv
    BY DEF Init, NoExecution, GenerationInv, GenerationStartsOnce, Processes
  <1>2. (OneSession /\ Spec) => []OneSession
    <2>1. OneSession /\ [Next]_vars => OneSession'
      BY DEF OneSession
    <2> QED
      BY <2>1, PTL DEF Spec
  <1> QED
    BY <1>1, <1>2, TypeCorrect, GenerationInductive, SafetyInit, SafetyInductive, PTL DEF Spec

\* However many executions, Shutdowns, crashes and restarts there are, an
\* ExecutionID never has two live processes (Start, startExisting and wait,
\* supervisor_linux.go).
THEOREM OneProcessAlways == OneSession => (Spec => []OneProcess)
  <1>1. TypeOK /\ SafetyInv => OneProcess
    BY PidTellsProcess DEF SafetyInv, OneProcess, Unreaped
  <1> QED
    BY <1>1, TypeCorrect, SafetyInvariant, PTL

\* An execution the Supervisor reports STOPPED, FAILED, CRASHED or BACKOFF has no
\* live process, so the Controller may replace it.
THEOREM TerminalMeansDeadAlways == OneSession => (Spec => []TerminalMeansDead)
  <1>1. SafetyInv => TerminalMeansDead
    BY DEF SafetyInv, OwnInv, TerminalMeansDead, Unreaped
  <1> QED
    BY <1>1, SafetyInvariant, PTL

\* A confirmed Maintenance Hold has no managed process alive, for any number of
\* executions and of hold revisions.
THEOREM HoldConfirmedAlways == OneSession => (Spec => []HoldConfirmedQuiet)
  <1>1. SafetyInv => HoldConfirmedQuiet
    BY DEF SafetyInv, HoldInv, HoldConfirmedQuiet
  <1> QED
    BY <1>1, SafetyInvariant, PTL

\* Once a Shutdown has returned nil nothing is alive, then or later, however many
\* goroutines shut down or time out.
THEOREM ShutdownQuietAlways == OneSession => (Spec => []ShutdownQuiet)
  <1>1. SafetyInv => ShutdownQuiet
    BY DEF SafetyInv, ShutdownInv, ShutdownQuiet, Covered, Stopping
  <1> QED
    BY <1>1, SafetyInvariant, PTL

===============================================================================
