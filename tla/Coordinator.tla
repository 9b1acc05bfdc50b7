----------------------------- MODULE Coordinator -----------------------------
(***************************************************************************)
(* One Host under reconciliation: the Controller's coordinator             *)
(* (src/internal/reconcile/coordinator.go) over the desired state, the     *)
(* observed store and the planner; the gRPC session to the Host's Agent    *)
(* (src/internal/controllernet); and the Agent's command loop              *)
(* (src/internal/agentnet, src/internal/minerruntime) over a Supervisor    *)
(* reduced to the status of each execution.                                *)
(*                                                                         *)
(* A step is one critical section of the Host lock, one iteration of the   *)
(* session's stream loop, or one command of the Agent.  Between its Host   *)
(* lock sections a reconcile worker has a program counter, so a desired    *)
(* state written by the operator, a result, a timeout or a disconnect can  *)
(* come between the plan, the last check, the send and its bookkeeping.    *)
(*                                                                         *)
(* GET_STATUS, GET_INVENTORY and GET_UNMANAGED_PROCESSES are always sent   *)
(* one after the other and answered in that order by one goroutine: they   *)
(* travel as one query, "facts", whose answer holds the three results.     *)
(***************************************************************************)
EXTENDS Planner, Sequences, SequencesExt

CONSTANTS
    Worker,     \* goroutines inside ReconcileHost
    Expiring,   \* the observations that may outlive the freshness timeout
    ScanFails,  \* whether a scan for unmanaged processes may fail
    Restored,   \* whether the database was restored: a barrier, a lost execution
    MaxGen,     \* bound: DesiredGeneration of a workload
    MaxHold,    \* bound: revision of the Maintenance Hold
    MaxEpoch,   \* bound: sessions
    Faults      \* bound: failures of the Agent, the Host and the timeouts

ASSUME CoordinatorAssumption ==
    /\ Workload \subseteq Nat /\ Id = Workload \X (0..MaxGen)
    /\ Claim \in [Workload -> SUBSET Resource]
    /\ Expiring \subseteq {"executions", "inventory", "processes"}
    /\ Restored \in BOOLEAN /\ ScanFails \in BOOLEAN
    /\ MaxGen \in Nat \ {0} /\ MaxHold \in Nat /\ MaxEpoch \in Nat /\ Faults \in Nat

VARIABLES
    desired,    \* DesiredWorkload and its runtime binding, per workload
    snaps,      \* ExecutionIDs that have a resolved snapshot
    hold,       \* the persistent MaintenanceHold
    barrier,    \* the RestoreHostBarrier
    obs,        \* the ObservedStore entry
    inFlight,   \* the in-flight keys with their dispatch sequence
    worker,     \* what each reconcile worker is doing
    holdCall,   \* the SetMaintenanceHold call that has the authority lock
    session,    \* the liveSession and the local flags of its stream loop
    link,       \* whether the stream of the newest session is up
    epoch,      \* Server.nextEpoch
    pending,    \* liveSession.pending
    replies,    \* what the Agent sent and the stream loop has not handled
    inbox,      \* per session, what its Agent-side command goroutine has to do
    busyCmd,    \* per session, the START its command goroutine is preparing
    holdInbox,  \* a SET_MAINTENANCE_HOLD its receive goroutine has to do
    agent,      \* the Supervisor: executions, maintenance, holdRevision
    unmanaged,  \* resources that unmanaged processes occupy
    faults      \* what is left of Faults

configVars == <<desired, snaps, hold, barrier>>
coordVars == <<obs, inFlight, worker, holdCall>>
sessionVars == <<session, link, epoch, pending, replies>>
agentVars == <<inbox, busyCmd, holdInbox, agent>>
envVars == <<unmanaged, faults>>
vars == <<configVars, coordVars, sessionVars, agentVars, envVars>>

None == <<0, 0>>
Queries == {"executions", "facts"}
Command(kind, i, seq) == [kind |-> kind, id |-> i, seq |-> seq, active |-> FALSE]
HoldCommand(kind, h) == [Command(kind, None, h.rev) EXCEPT !.active = h.active]
NoCommand == Command("none", None, 0)
IsRuntime(c) == c.kind \in {"START", "STOP"}

IdleWorker == [pc |-> "idle", key |-> Key("NONE", None, 0), seq |-> 0, seen |-> NoEntry]
NoSession == [state |-> "none", ready |-> FALSE, revoked |-> FALSE, seq |-> 0, got |-> {}]
NoHoldCall == [pc |-> "idle", active |-> FALSE, rev |-> 0]

\* The database holds the workloads in their first generation, some of them RUNNING.
\* After a restore the Agent may still run what the discarded history started.
Init ==
    /\ \E wanted \in {s \in SUBSET Workload : \A v, w \in s : v # w => ~Overlap(v, w)} :
          /\ desired = [w \in Workload |->
                [exists |-> TRUE, run |-> w \in wanted, gen |-> 1, blocked |-> 0]]
          /\ snaps = wanted \X {1}
    /\ hold = [active |-> FALSE, rev |-> 0]
    /\ barrier = IF Restored THEN "PENDING" ELSE "NONE"
    /\ obs = NoEntry /\ inFlight = {}
    /\ worker = [r \in Worker |-> IdleWorker] /\ holdCall = NoHoldCall
    /\ session = NoSession /\ link = FALSE /\ epoch = 0 /\ pending = {} /\ replies = <<>>
    /\ inbox = [e \in 1..MaxEpoch |-> <<>>]
    /\ busyCmd = [e \in 1..MaxEpoch |-> NoCommand] /\ holdInbox = NoCommand
    /\ \E lost \in SUBSET Workload :
          /\ lost # {} => Restored /\ \A v, w \in lost : v # w => ~Overlap(v, w)
          /\ agent = [exec |-> [i \in Id |-> IF i[1] \in lost /\ i[2] = 0 THEN "RUNNING" ELSE "NONE"],
                   hold |-> FALSE, rev |-> 0]
    /\ unmanaged = {} /\ faults = Faults

Keys == {f.key : f \in inFlight}
Without(key) == {f \in inFlight : f.key # key}
SessionLive == session.state \in {"hello", "open"} /\ ~session.revoked

-----------------------------------------------------------------------------
(***************************************************************************)
(* Desired state (src/internal/farmconfig): the operator's writes.         *)
(***************************************************************************)
\* checkResourceConflict: RUNNING workloads of a Host claim disjoint resources.
ResourceConflict(w) == \E v \in Workload \ {w} : desired[v].run /\ Overlap(v, w)

\* UpdateDesiredWorkload; any change of what is resolved is a new generation.
UpdateDesiredWorkload(w, run) ==
    /\ desired[w].exists /\ desired[w].gen < MaxGen
    /\ run \/ desired[w].run
    /\ run => ~ResourceConflict(w)
    /\ desired' = [desired EXCEPT ![w].run = run, ![w].gen = @ + 1]
    /\ snaps' = IF run THEN snaps \cup {<<w, desired[w].gen + 1>>} ELSE snaps
    /\ UNCHANGED <<hold, barrier, coordVars, sessionVars, agentVars, envVars>>

RetryWorkload(w) ==
    /\ desired[w].exists /\ desired[w].run /\ desired[w].gen < MaxGen
    /\ desired[w].blocked = desired[w].gen
    /\ desired' = [desired EXCEPT ![w].gen = @ + 1, ![w].blocked = 0]
    /\ snaps' = snaps \cup {<<w, desired[w].gen + 1>>}
    /\ UNCHANGED <<hold, barrier, coordVars, sessionVars, agentVars, envVars>>

\* Mutant of RetirementProof: runtime activity in flight is not looked at.
RetirementProofObservedOnly(w) ==
    \A i \in snaps : i[1] = w => Usable(obs) /\ ~HoldsResources(obs.execs[i])

WorkloadHasInFlight(w) == \E k \in Keys : k.id[1] = w

\* What DeleteDesiredWorkload asks for under the Host lock before it deletes.
RetirementProof(w) ==
    /\ ~WorkloadHasInFlight(w)
    /\ \A i \in snaps : i[1] = w => Usable(obs) /\ ~HoldsResources(obs.execs[i])

DeleteDesiredWorkload(w) ==
    /\ desired[w].exists /\ ~desired[w].run
    /\ RetirementProof(w)
    /\ desired' = [desired EXCEPT ![w].exists = FALSE]
    /\ UNCHANGED <<snaps, hold, barrier, coordVars, sessionVars, agentVars, envVars>>

\* BlockDesiredGeneration: a stale result is no transition of the current generation.
Block(d, w, gen) ==
    IF d[w].run /\ d[w].gen = gen THEN [d EXCEPT ![w].blocked = gen] ELSE d

-----------------------------------------------------------------------------
(***************************************************************************)
(* ReconcileHost.                                                          *)
(***************************************************************************)
\* Mutant of AuthorityFree: workers do not take the authority lock.
AuthorityFreeAlways == TRUE

\* The read lock: SetMaintenanceHold has the write lock for its whole duration.
AuthorityFree == holdCall.pc = "idle"

\* Mutant of HostHasInFlight: only a key of the same action counts.
HostHasInFlightNever == FALSE

HostHasInFlight == \E k \in Keys : k.epoch = obs.epoch

\* markInFlight reserves a key, without a dispatch sequence for now.
MarkInFlight(key) == key \notin Keys /\ inFlight' = inFlight \cup {[key |-> key, seq |-> 0]}

MayPrepare(r) == worker[r].pc = "idle" /\ AuthorityFree /\ Usable(obs)

\* The session has to be the one the plan was made from.
SessionMatches == SessionLive /\ session.ready /\ epoch = obs.epoch

BarrierLifted == barrier = "NONE"

\* Mutant of BarrierConflict: only executions the database knows are compared.
BarrierConflictKnown ==
    \E i \in snaps : HoldsResources(obs.execs[i]) /\ desired[i[1]].gen # i[2]

\* applyRestoreBarrierLocked: compare reality with the restored intent.
BarrierConflict ==
    \E i \in Id : /\ HoldsResources(obs.execs[i])
                  /\ ~(i \in snaps /\ desired[i[1]].exists /\ desired[i[1]].run
                         /\ desired[i[1]].gen = i[2])

ApplyRestoreBarrier(r) ==
    /\ MayPrepare(r) /\ ~BarrierLifted
    /\ {"inventory", "processes"} \subseteq obs.fresh
    /\ barrier' = IF BarrierConflict THEN "CONFLICT" ELSE "NONE"
    /\ UNCHANGED <<desired, snaps, hold, coordVars, sessionVars, agentVars, envVars>>

PlanOf(w) == Plan(w, desired[w], snaps, hold.active, obs, Keys)

\* ValidateResolvedSnapshotForStart against the fresh facts: invalid are the workloads
\* whose claim, hardware, packages or settings no longer allow their snapshot.
RefusedStart(w, invalid) ==
    /\ PlanOf(w).act = "START" /\ w \in invalid
    /\ {"inventory", "processes"} \subseteq obs.fresh

\* Workloads whose plan ends the pass; one whose START is refused is passed over.
Dispatching(invalid) ==
    {w \in Workload : /\ desired[w].exists
                      /\ PlanOf(w).act \in {"START", "STOP"}
                      /\ ~RefusedStart(w, invalid)}

First(S) == CHOOSE w \in S : \A v \in S : w <= v

\* The workloads the pass reaches, and blocks because their execution FAILED.
Blocked(invalid) ==
    {w \in Workload : /\ desired[w].exists /\ PlanOf(w).act = "BLOCK"
                      /\ \A v \in Dispatching(invalid) : w < v}

ApplyBlocks(invalid) ==
    desired' = [w \in Workload |->
        IF w \in Blocked(invalid) THEN [desired[w] EXCEPT !.blocked = desired[w].gen]
                                  ELSE desired[w]]

\* prepareDispatchLocked: plan each workload in turn, reserve the first action.
PrepareDispatch(r, invalid) ==
    /\ MayPrepare(r) /\ BarrierLifted /\ ~HostHasInFlight
    /\ Dispatching(invalid) # {}
    /\ LET w == First(Dispatching(invalid))
           p == PlanOf(w)
       IN  /\ p.act = "START" => {"inventory", "processes"} \subseteq obs.fresh
           /\ SessionMatches
           /\ \E i \in p.ids :
                LET key == Key(p.act, i, obs.epoch)
                IN  /\ MarkInFlight(key)
                    /\ worker' = [worker EXCEPT ![r] =
                            [pc |-> "reserved", key |-> key, seq |-> 0, seen |-> obs]]
    /\ ApplyBlocks(invalid)
    /\ UNCHANGED <<snaps, hold, barrier, obs, holdCall, sessionVars, agentVars, envVars>>

\* A pass that blocks failed generations and dispatches nothing.
PrepareBlocks(r, invalid) ==
    /\ MayPrepare(r) /\ BarrierLifted /\ ~HostHasInFlight
    /\ Blocked(invalid) # {}
    /\ Dispatching(invalid) # {} =>
         \/ ~SessionMatches
         \/ /\ PlanOf(First(Dispatching(invalid))).act = "START"
            /\ ~({"inventory", "processes"} \subseteq obs.fresh)
    /\ ApplyBlocks(invalid)
    /\ UNCHANGED <<snaps, hold, barrier, coordVars, sessionVars, agentVars, envVars>>

\* actionStillCurrent: the last look at desired and observed before the send.
ActionStillCurrent(r) ==
    LET k == worker[r].key
        w == k.id[1]
        seen == worker[r].seen
    IN  /\ BarrierLifted /\ desired[w].exists
        /\ Usable(obs) /\ obs.epoch = seen.epoch /\ obs.execs = seen.execs
        /\ k.act = "START" =>
             /\ {"inventory", "processes"} \subseteq obs.fresh /\ obs.busy = seen.busy
             /\ ~hold.active
             /\ desired[w].run /\ desired[w].gen = k.id[2]

Recheck(r) ==
    /\ worker[r].pc = "reserved"
    /\ IF ActionStillCurrent(r)
       THEN /\ worker' = [worker EXCEPT ![r].pc = "send"]
            /\ UNCHANGED inFlight
       ELSE /\ worker' = [worker EXCEPT ![r] = IdleWorker]
            /\ inFlight' = Without(worker[r].key)
    /\ UNCHANGED <<configVars, obs, holdCall, sessionVars, agentVars, envVars>>

\* Mutant of Disconnected: the in-flight keys of the session stay.
DisconnectedKeepsKeys(e) == obs' = Disconnect(obs, e) /\ UNCHANGED inFlight

\* The coordinator's part of a lost session.
Disconnected(e) ==
    /\ obs' = Disconnect(obs, e)
    /\ inFlight' = {f \in inFlight : f.key.epoch # e}

SessionFor(r) == SessionLive /\ session.ready /\ epoch = worker[r].key.epoch

\* liveSession.send: a runtime command takes the next sequence number of the session
\* and is pending before it is on the stream.
Send(act, i) ==
    /\ link /\ session' = [session EXCEPT !.seq = @ + 1]
    /\ LET c == Command(act, i, session.seq + 1)
       IN  /\ pending' = pending \cup {c}
           /\ inbox' = [inbox EXCEPT ![epoch] = Append(@, c)]

SendRuntime(r) ==
    /\ worker[r].pc = "send" /\ SessionFor(r)
    /\ Send(worker[r].key.act, worker[r].key.id)
    /\ worker' = [worker EXCEPT ![r].pc = "sent", ![r].seq = session.seq + 1]
    /\ UNCHANGED <<configVars, obs, inFlight, holdCall, link, epoch, replies,
                   busyCmd, holdInbox, agent, envVars>>

\* The send fails or runs into its deadline: the Agent may have the command.
SendFails(r) ==
    /\ worker[r].pc = "send" /\ (SessionFor(r) => epoch < MaxEpoch)
    /\ IF SessionFor(r)
       THEN /\ session' = [session EXCEPT !.seq = @ + 1, !.revoked = TRUE]
            /\ \/ UNCHANGED inbox
               \/ link /\ inbox' = [inbox EXCEPT ![epoch] = Append(@,
                      Command(worker[r].key.act, worker[r].key.id, session.seq + 1))]
       ELSE UNCHANGED <<session, inbox>>
    /\ Disconnected(worker[r].key.epoch)
    /\ worker' = [worker EXCEPT ![r] = IdleWorker]
    /\ UNCHANGED <<configVars, holdCall, link, epoch, pending, replies,
                   busyCmd, holdInbox, agent, envVars>>

\* setDispatchSequence: unless a later observation has already resolved the key.
SetDispatchSequence(r) ==
    /\ worker[r].pc = "sent"
    /\ LET k == worker[r].key
           seq == worker[r].seq
       IN  inFlight' = IF k \notin Keys \/ (obs.epoch = k.epoch /\ obs.seq >= seq)
                       THEN Without(k)
                       ELSE Without(k) \cup {[key |-> k, seq |-> seq]}
    /\ worker' = [worker EXCEPT ![r] = IdleWorker]
    /\ UNCHANGED <<configVars, obs, holdCall, sessionVars, agentVars, envVars>>

-----------------------------------------------------------------------------
(***************************************************************************)
(* SetMaintenanceHold: the authority write lock is held from the database  *)
(* write to the Agent's confirmation.                                      *)
(***************************************************************************)
SetMaintenanceHold(active) ==
    /\ AuthorityFree /\ \A r \in Worker : worker[r].pc = "idle"
    /\ hold.rev < MaxHold /\ active # hold.active
    /\ hold' = [active |-> active, rev |-> hold.rev + 1]
    /\ IF SessionLive
       THEN /\ holdCall' = [pc |-> "waiting", active |-> active, rev |-> hold.rev + 1]
            /\ holdInbox' = HoldCommand("hold", hold')
       ELSE UNCHANGED <<holdCall, holdInbox>>
    /\ UNCHANGED <<desired, snaps, barrier, obs, inFlight, worker, sessionVars,
                   inbox, busyCmd, agent, envVars>>

\* No confirmation within the deadline, or the session is gone.
HoldFails ==
    /\ holdCall.pc = "waiting" /\ (SessionLive => epoch < MaxEpoch)
    /\ session' = IF SessionLive THEN [session EXCEPT !.revoked = TRUE] ELSE session
    /\ holdCall' = NoHoldCall
    /\ UNCHANGED <<configVars, obs, inFlight, worker, link, epoch, pending, replies,
                   agentVars, envVars>>

\* A confirmed exit asks for a new bootstrap before anything is planned again.
HoldReturns ==
    /\ holdCall.pc = "confirmed"
    /\ obs' = IF holdCall.active THEN obs ELSE RequireFreshBootstrap(obs, epoch)
    /\ holdCall' = NoHoldCall
    /\ UNCHANGED <<configVars, inFlight, worker, sessionVars, agentVars, envVars>>

-----------------------------------------------------------------------------
(***************************************************************************)
(* The session: Server.Connect and its stream loop.                        *)
(***************************************************************************)
\* The Agent dials, says hello and waits for the hello that carries the hold.
ConnectOnce ==
    /\ ~link /\ link' = TRUE
    /\ inbox' = [inbox EXCEPT ![epoch + 1] = <<HoldCommand("hello", hold)>>]
    /\ holdInbox' = NoCommand

\* A new stream; the previous session has finished.
ServerConnect ==
    /\ session.state = "none" /\ epoch < MaxEpoch /\ holdCall.pc = "idle"
    /\ epoch' = epoch + 1 /\ ConnectOnce
    /\ session' = [NoSession EXCEPT !.state = "hello"]
    /\ pending' = {} /\ replies' = <<>>
    /\ UNCHANGED <<configVars, coordVars, busyCmd, agent, envVars>>

\* Queries of the kinds in ks that are not yet pending, in the order they are sent.
Absent(ks) ==
    LET ask(q, seq) == IF q \in ks /\ \A c \in pending : c.kind # q
                       THEN <<Command(q, None, seq)>> ELSE <<>>
    IN  ask("executions", session.seq) \o ask("facts", 0)

\* SessionConnected, then the first GET_EXECUTIONS.
SessionConnected ==
    /\ session.state = "hello"
    /\ obs' = Connect(obs, epoch)
    /\ session' = [session EXCEPT !.state = "open"]
    /\ pending' = Range(Absent({"executions"}))
    /\ inbox' = [inbox EXCEPT ![epoch] = @ \o Absent({"executions"})]
    /\ UNCHANGED <<configVars, inFlight, worker, holdCall, link, epoch, replies,
                   busyCmd, holdInbox, agent, envVars>>

\* Mutant of Refreshed: executions are only listed at the start of a session.
RefreshedFacts == {"facts"}

Refreshed == Queries

\* A heartbeat of a READY session refreshes whatever is not being asked already.
Heartbeat ==
    /\ session.state = "open" /\ ~session.revoked /\ session.ready /\ link
    /\ LET new == Absent(Refreshed)
       IN  /\ new # <<>>
           /\ pending' = pending \cup Range(new)
           /\ inbox' = [inbox EXCEPT ![epoch] = @ \o new]
    /\ UNCHANGED <<configVars, coordVars, session, link, epoch, replies,
                   busyCmd, holdInbox, agent, envVars>>

\* The end of the loop body: the session is READY once everything was answered.
Got(kinds) ==
    LET got == session.got \cup kinds
    IN  [session EXCEPT !.got = got, !.ready = @ \/ got = Facts \cup {"executions"}]

\* Takes the next reply; one whose command is not pending any more is dropped.
Take(reply) ==
    /\ session.state = "open" /\ ~session.revoked /\ replies # <<>>
    /\ reply = Head(replies)
    /\ replies' = Tail(replies)

\* Mutant of ResolvedBy: off by one, a list right after the dispatch is too old.
ResolvedByLater(f, seq) == f.key.epoch = epoch /\ f.seq > 0 /\ f.seq < seq

\* resolveInFlightThroughObservation: the list was taken after the dispatch.
ResolvedBy(f, seq) == f.key.epoch = epoch /\ f.seq > 0 /\ f.seq <= seq

\* ExecutionsObserved, and the bootstrap queries after the first list.
ExecutionsReply ==
    \E m \in Range(replies) :
    /\ Take(m) /\ m.cmd.kind = "executions" /\ m.cmd \in pending
    /\ LET seq == m.cmd.seq
       IN  /\ obs' = MarkReady(SetExecutions(obs, epoch, m.execs, seq), epoch)
           /\ inFlight' = IF Accepts(obs, epoch, seq)
                          THEN {f \in inFlight : ~ResolvedBy(f, seq)} ELSE inFlight
    /\ session' = Got({"executions"})
    /\ LET new == IF "executions" \in session.got THEN <<>> ELSE Absent({"facts"})
       IN  /\ pending' = (pending \ {m.cmd}) \cup Range(new)
           /\ inbox' = [inbox EXCEPT ![epoch] = @ \o new]
    /\ UNCHANGED <<configVars, worker, holdCall, link, epoch, busyCmd, holdInbox,
                   agent, envVars>>

\* StatusObserved, InventoryObserved and ProcessesObserved; a failed scan of the
\* unmanaged processes is an error result, which only takes it off pending.
FactsReply ==
    \E m \in Range(replies) :
    /\ Take(m) /\ m.cmd.kind = "facts" /\ m.cmd \in pending
    /\ pending' = pending \ {m.cmd}
    /\ LET known == SetInventory(SetAgentState(obs, epoch), epoch)
       IN  IF m.outcome = "error"
           THEN obs' = MarkReady(known, epoch) /\ session' = Got({"status", "inventory"})
           ELSE /\ obs' = MarkReady(SetUnmanagedProcesses(known, epoch, m.busy), epoch)
                /\ session' = Got(Facts)
    /\ UNCHANGED <<configVars, inFlight, worker, holdCall, link, epoch, agentVars, envVars>>

RequestStillCurrent(i) ==
    desired[i[1]].exists /\ desired[i[1]].run /\ desired[i[1]].gen = i[2]

\* RuntimeResult, for a command of the current session.
RuntimeResult(c, outcome) ==
    LET key == Key(c.kind, c.id, epoch)
        start == c.kind = "START" /\ RequestStillCurrent(c.id)
        known == obs.connected /\ "executions" \in obs.fresh /\ obs.epoch = epoch
        rejected == outcome = "rejected" /\ start
        observed == /\ outcome \in {"RUNNING", "STOPPED", "FAILED"}
                    /\ CanUpsert(obs, epoch, c.seq)
    IN  /\ inFlight' = IF known => rejected \/ observed THEN Without(key) ELSE inFlight
        /\ obs' = IF known /\ observed THEN UpsertExecution(obs, epoch, c.id, outcome, c.seq)
                  ELSE obs
        /\ desired' = IF known /\ (rejected \/ (observed /\ start /\ outcome = "FAILED"))
                      THEN Block(desired, c.id[1], c.id[2]) ELSE desired

RuntimeReply ==
    \E m \in Range(replies) :
    /\ Take(m) /\ IsRuntime(m.cmd) /\ m.cmd \in pending
    /\ RuntimeResult(m.cmd, m.outcome)
    /\ pending' = pending \ {m.cmd}
    /\ UNCHANGED <<snaps, hold, barrier, worker, holdCall, session, link, epoch,
                   agentVars, envVars>>

\* expireRuntimeResult: the deadline passes first; the outcome is uncertain.
ExpireRuntimeResult ==
    /\ SessionLive
    /\ \E c \in pending : /\ IsRuntime(c)
                          /\ RuntimeResult(c, "uncertain")
                          /\ pending' = pending \ {c}
    /\ UNCHANGED <<snaps, hold, barrier, worker, holdCall, session, link, epoch, replies,
                   agentVars, envVars>>

LateReply ==
    \E m \in Range(replies) :
    /\ Take(m) /\ m.cmd.kind # "hold" /\ m.cmd \notin pending
    /\ UNCHANGED <<configVars, coordVars, session, link, epoch, pending, agentVars, envVars>>

\* The Agent's confirmation reaches the waiting SetMaintenanceHold.
HoldReply ==
    \E m \in Range(replies) :
    /\ Take(m) /\ m.cmd.kind = "hold"
    /\ holdCall' = IF holdCall.pc = "waiting" /\ m.cmd.seq = holdCall.rev
                   THEN [holdCall EXCEPT !.pc = "confirmed"] ELSE holdCall
    /\ UNCHANGED <<configVars, obs, inFlight, worker, session, link, epoch, pending,
                   agentVars, envVars>>

\* The stream loop returns; its deferred function first unregisters the session
\* and then, under the Host lock, tells the coordinator.
ServerEnds ==
    /\ session.state = "open" /\ (session.revoked \/ ~link)
    /\ session' = [session EXCEPT !.state = "closing", !.revoked = TRUE]
    /\ link' = FALSE
    /\ UNCHANGED <<configVars, coordVars, epoch, pending, replies, agentVars, envVars>>

SessionDisconnected ==
    /\ session.state = "closing"
    /\ Disconnected(epoch)
    /\ session' = NoSession /\ pending' = {} /\ replies' = <<>>
    /\ UNCHANGED <<configVars, worker, holdCall, link, epoch, agentVars, envVars>>

-----------------------------------------------------------------------------
(***************************************************************************)
(* The Agent: a receive goroutine and one command goroutine per session.   *)
(* When its stream is gone a command goroutine still finishes what it was  *)
(* doing, and may take more of its buffered commands before it quits.      *)
(***************************************************************************)
Connected(e) == link /\ e = epoch

Reply(e, c, outcome, execs, busy) ==
    replies' = IF Connected(e)
               THEN Append(replies, [cmd |-> c, outcome |-> outcome,
                                     execs |-> execs, busy |-> busy])
               ELSE replies

Ready(e, kind) ==
    inbox[e] # <<>> /\ Head(inbox[e]).kind = kind /\ busyCmd[e] = NoCommand

\* ApplyMaintenanceHold: the gate first, then every execution is stopped.
ApplyHold(c) ==
    IF c.seq < agent.rev THEN agent
    ELSE [exec |-> [i \in Id |-> IF c.active /\ agent.exec[i] = "RUNNING"
                                 THEN "STOPPED" ELSE agent.exec[i]],
          hold |-> c.active, rev |-> c.seq]

AgentHello ==
    /\ epoch > 0 /\ link /\ Ready(epoch, "hello")
    /\ agent' = ApplyHold(Head(inbox[epoch]))
    /\ inbox' = [inbox EXCEPT ![epoch] = Tail(@)]
    /\ UNCHANGED <<configVars, coordVars, sessionVars, busyCmd, holdInbox, envVars>>

\* Handled in the receive goroutine, past the commands that wait in the buffer.
AgentHold ==
    /\ holdInbox # NoCommand /\ ~Ready(epoch, "hello")
    /\ agent' = ApplyHold(holdInbox)
    /\ Reply(epoch, holdInbox, "ok", agent.exec, {})
    /\ holdInbox' = NoCommand
    /\ UNCHANGED <<configVars, coordVars, session, link, epoch, pending, inbox, busyCmd,
                   envVars>>

AgentQuery(e, outcome) ==
    /\ \E kind \in Queries : Ready(e, kind)
    /\ outcome = "error" => Head(inbox[e]).kind = "facts" /\ ScanFails /\ faults > 0
    /\ faults' = IF outcome = "error" THEN faults - 1 ELSE faults
    /\ Reply(e, Head(inbox[e]), outcome, agent.exec, unmanaged)
    /\ inbox' = [inbox EXCEPT ![e] = Tail(@)]
    /\ UNCHANGED <<configVars, coordVars, session, link, epoch, pending, busyCmd, holdInbox,
                   agent, unmanaged>>

\* MinerRuntime.Stop; an ExecutionID the Supervisor has never had is STOPPED
\* without an ownership.
AgentStop(e) ==
    /\ Ready(e, "STOP")
    /\ LET c == Head(inbox[e])
       IN  /\ agent' = IF agent.exec[c.id] = "NONE" THEN agent
                       ELSE [agent EXCEPT !.exec[c.id] = "STOPPED"]
           /\ Reply(e, c, IF agent.exec[c.id] = "NONE" THEN "unowned" ELSE "STOPPED",
                    agent.exec, {})
    /\ inbox' = [inbox EXCEPT ![e] = Tail(@)]
    /\ UNCHANGED <<configVars, coordVars, session, link, epoch, pending, busyCmd, holdInbox,
                   envVars>>

\* MinerRuntime.Start up to Prepare: the Supervisor does not know the execution yet.
AgentPrepare(e) ==
    /\ Ready(e, "START")
    /\ busyCmd' = [busyCmd EXCEPT ![e] = Head(inbox[e])]
    /\ inbox' = [inbox EXCEPT ![e] = Tail(@)]
    /\ UNCHANGED <<configVars, coordVars, sessionVars, holdInbox, agent, envVars>>

\* unmanagedConflict: a process the Agent did not start occupies what the plan claims.
UnmanagedConflict(i) == unmanaged \cap Claim[i[1]] # {}

\* Supervisor.Start with its final validation.
AgentStart(e) ==
    /\ busyCmd[e] # NoCommand
    /\ LET c == busyCmd[e]
           refused == agent.hold \/ UnmanagedConflict(c.id)
       IN  IF agent.exec[c.id] # "RUNNING" /\ refused
           THEN Reply(e, c, "uncertain", agent.exec, {}) /\ UNCHANGED agent
           ELSE /\ agent' = [agent EXCEPT !.exec[c.id] = "RUNNING"]
                /\ Reply(e, c, "RUNNING", agent.exec, {})
    /\ busyCmd' = [busyCmd EXCEPT ![e] = NoCommand]
    /\ UNCHANGED <<configVars, coordVars, session, link, epoch, pending, inbox, holdInbox,
                   envVars>>

\* A START that fails: rejected for good, for now, or with the execution FAILED.
AgentStartFails(e, outcome) ==
    /\ busyCmd[e] # NoCommand /\ agent.exec[busyCmd[e].id] # "RUNNING" /\ faults > 0
    /\ faults' = faults - 1
    /\ agent' = IF outcome = "spawn" /\ ~agent.hold
                THEN [agent EXCEPT !.exec[busyCmd[e].id] = "FAILED"] ELSE agent
    /\ Reply(e, busyCmd[e], IF outcome = "spawn" THEN "uncertain" ELSE outcome, agent.exec, {})
    /\ busyCmd' = [busyCmd EXCEPT ![e] = NoCommand]
    /\ UNCHANGED <<configVars, coordVars, session, link, epoch, pending, inbox, holdInbox,
                   unmanaged>>

\* A command goroutine whose session is over sees the cancelled context.
AgentQuit(e) ==
    /\ ~Connected(e) /\ inbox[e] # <<>> /\ busyCmd[e] = NoCommand
    /\ inbox' = [inbox EXCEPT ![e] = <<>>]
    /\ UNCHANGED <<configVars, coordVars, sessionVars, busyCmd, holdInbox, agent, envVars>>

\* The watchdog gives an execution up.
ExecutionFails(i) ==
    /\ agent.exec[i] = "RUNNING" /\ faults > 0
    /\ agent' = [agent EXCEPT !.exec[i] = "FAILED"]
    /\ faults' = faults - 1
    /\ UNCHANGED <<configVars, coordVars, sessionVars, inbox, busyCmd, holdInbox, unmanaged>>

-----------------------------------------------------------------------------
(***************************************************************************)
(* The environment.                                                        *)
(***************************************************************************)
LinkBreaks ==
    /\ link /\ epoch < MaxEpoch
    /\ link' = FALSE
    /\ UNCHANGED <<configVars, coordVars, session, epoch, pending, replies, agentVars, envVars>>

\* The Agent is killed and its processes die with it (Pdeathsig); it starts anew.
AgentRestarts ==
    /\ 0 < epoch /\ epoch < MaxEpoch
    /\ link' = FALSE
    /\ agent' = [exec |-> [i \in Id |-> "NONE"], hold |-> FALSE, rev |-> 0]
    /\ inbox' = [e \in DOMAIN inbox |-> <<>>]
    /\ busyCmd' = [e \in DOMAIN busyCmd |-> NoCommand]
    /\ holdInbox' = NoCommand
    /\ UNCHANGED <<configVars, coordVars, session, epoch, pending, replies, envVars>>

ObservationExpires(kind) ==
    /\ kind \in obs.fresh /\ faults > 0
    /\ obs' = Expire(obs, kind)
    /\ faults' = faults - 1
    /\ UNCHANGED <<configVars, inFlight, worker, holdCall, sessionVars, agentVars, unmanaged>>

UnmanagedProcess(b) ==
    /\ b # unmanaged /\ faults > 0
    /\ unmanaged' = b /\ faults' = faults - 1
    /\ UNCHANGED <<configVars, coordVars, sessionVars, agentVars>>

-----------------------------------------------------------------------------
Operator ==
    \/ \E w \in Workload, run \in BOOLEAN : UpdateDesiredWorkload(w, run)
    \/ \E w \in Workload : RetryWorkload(w) \/ DeleteDesiredWorkload(w)
    \/ \E active \in BOOLEAN : SetMaintenanceHold(active)

Reconcile(r) ==
    \/ ApplyRestoreBarrier(r)
    \/ \E invalid \in SUBSET Workload : PrepareDispatch(r, invalid) \/ PrepareBlocks(r, invalid)
    \/ Recheck(r) \/ SendRuntime(r) \/ SendFails(r) \/ SetDispatchSequence(r)

Server ==
    \/ ServerConnect \/ SessionConnected \/ Heartbeat \/ ServerEnds \/ SessionDisconnected
    \/ ExecutionsReply \/ FactsReply \/ RuntimeReply \/ ExpireRuntimeResult
    \/ LateReply \/ HoldReply \/ HoldFails \/ HoldReturns

Agent ==
    \/ AgentHello \/ AgentHold
    \/ \E e \in 1..MaxEpoch :
          \/ AgentQuery(e, "ok") \/ AgentQuery(e, "error")
          \/ AgentStop(e) \/ AgentPrepare(e) \/ AgentStart(e) \/ AgentQuit(e)
          \/ \E outcome \in {"rejected", "uncertain", "spawn"} : AgentStartFails(e, outcome)

Environment ==
    \/ LinkBreaks \/ AgentRestarts
    \/ \E i \in Id : ExecutionFails(i)
    \/ \E kind \in Expiring : ObservationExpires(kind)
    \/ \E b \in SUBSET Resource : UnmanagedProcess(b)

Next == Operator \/ (\E r \in Worker : Reconcile(r)) \/ Server \/ Agent \/ Environment

Spec == Init /\ [][Next]_vars

\* The Controller's ticker and callbacks keep reconcile workers coming, and every
\* goroutine goes on with what it can do.  Nothing obliges the operator to act,
\* a fault to happen, a deadline to pass or a valid plan to be found invalid.
Fairness ==
    /\ \A r \in Worker :
          /\ WF_vars(PrepareDispatch(r, {}) \/ PrepareBlocks(r, {}) \/ ApplyRestoreBarrier(r))
          /\ WF_vars(Recheck(r) \/ SendRuntime(r) \/ SetDispatchSequence(r))
          /\ WF_vars(SendFails(r) /\ ~(SessionFor(r) /\ link))
    /\ WF_vars(ServerConnect) /\ WF_vars(SessionConnected) /\ WF_vars(Heartbeat)
    /\ WF_vars(ExecutionsReply \/ FactsReply \/ RuntimeReply \/ LateReply \/ HoldReply)
    /\ WF_vars(ServerEnds) /\ WF_vars(SessionDisconnected)
    /\ WF_vars(HoldReturns) /\ WF_vars(HoldFails /\ ~(SessionLive /\ link))
    /\ WF_vars(AgentHello) /\ WF_vars(AgentHold)
    /\ \A e \in 1..MaxEpoch :
          WF_vars(AgentQuery(e, "ok") \/ AgentStop(e) \/ AgentPrepare(e) \/ AgentStart(e))

FairSpec == Spec /\ Fairness
-----------------------------------------------------------------------------
(***************************************************************************)
(* What has to hold.                                                       *)
(***************************************************************************)
Commands == [kind : {"none", "START", "STOP", "hello", "hold"} \cup Queries,
             id : Id \cup {None}, seq : Nat, active : BOOLEAN]

Replies == [cmd : Commands, execs : [Id -> Statuses], busy : SUBSET Resource,
            outcome : {"ok", "error", "RUNNING", "STOPPED", "unowned", "uncertain", "rejected"}]

ActionKeys == [act : {"NONE", "START", "STOP"}, id : Id \cup {None}, epoch : 0..MaxEpoch]

\* Types of the variables, over the lifetime of one Controller process.
TypeOK ==
    /\ desired \in [Workload -> [exists : BOOLEAN, run : BOOLEAN,
                                 gen : 1..MaxGen, blocked : 0..MaxGen]]
    /\ snaps \subseteq Id
    /\ hold \in [active : BOOLEAN, rev : 0..MaxHold]
    /\ barrier \in {"NONE", "PENDING", "CONFLICT"}
    /\ obs \in Entry
    /\ inFlight \subseteq [key : ActionKeys, seq : Nat]
    /\ worker \in [Worker -> [pc : {"idle", "reserved", "send", "sent"}, key : ActionKeys,
                              seq : Nat, seen : Entry]]
    /\ holdCall \in [pc : {"idle", "waiting", "confirmed"}, active : BOOLEAN, rev : 0..MaxHold]
    /\ session \in [state : {"none", "hello", "open", "closing"}, ready : BOOLEAN,
                    revoked : BOOLEAN, seq : Nat, got : SUBSET (Facts \cup {"executions"})]
    /\ link \in BOOLEAN /\ epoch \in 0..MaxEpoch
    /\ pending \subseteq Commands
    /\ replies \in Seq(Replies)
    /\ inbox \in [1..MaxEpoch -> Seq(Commands)]
    /\ busyCmd \in [1..MaxEpoch -> Commands] /\ holdInbox \in Commands
    /\ agent \in [exec : [Id -> Statuses], hold : BOOLEAN, rev : Nat]
    /\ unmanaged \subseteq Resource /\ faults \in 0..Faults

\* Runtime commands of session e that the Agent has yet to carry out.
Outstanding(e) == {c \in Range(inbox[e]) \cup {busyCmd[e]} : IsRuntime(c)}

\* No two live executions of the Host claim the same resource: a replacement is
\* started only when the one before is known to be stopped or absent.
NoOverlap ==
    \A i, j \in Id : i # j /\ agent.exec[i] = "RUNNING" /\ agent.exec[j] = "RUNNING"
                       => ~Overlap(i[1], j[1])

\* Convergence is serialised per Host: the Controller never has a second runtime
\* command on its way to the Agent while the outcome of the first is open.
Serialised ==
    epoch > 0 =>
    \A c, d \in Outstanding(epoch) : c = d

\* A deleted workload has left nothing behind: no live execution, and no START
\* that could still make one.
RetiredIsDead ==
    \A w \in Workload : ~desired[w].exists =>
       /\ \A i \in Id : i[1] = w /\ i[2] > 0 => agent.exec[i] # "RUNNING"
       /\ \A e \in 1..MaxEpoch : \A c \in Outstanding(e) : ~(c.kind = "START" /\ c.id[1] = w)

\* While the restore barrier of the Host stands nothing is dispatched to it, and it
\* stands as long as an execution of the discarded history lives.
BarrierQuiet ==
    /\ barrier # "NONE" => inFlight = {} /\ \A e \in 1..MaxEpoch : Outstanding(e) = {}
    /\ \A w \in Workload : agent.exec[<<w, 0>>] = "RUNNING" => barrier # "NONE"

\* A START goes out only while no hold is in force, and only to an Agent that
\* has applied the newest revision of the hold.
StartsFollowHold ==
    [][\A e \in 1..MaxEpoch :
          Len(inbox'[e]) > Len(inbox[e]) /\ Last(inbox'[e]).kind = "START"
          => ~hold.active /\ ~agent.hold /\ agent.rev = hold.rev]_vars

\* No in-flight key is leaked: it belongs to the newest session, and while it
\* has no dispatch sequence, which no observation could resolve, a worker that
\* will set or clear it is on its way.  A leaked key would stop the Host.
NoLeakedGuard ==
    \A f \in inFlight :
       \/ \E r \in Worker : worker[r].pc # "idle" /\ worker[r].key = f.key
       \/ f.seq > 0 /\ f.key.epoch = epoch /\ session.state # "none"

\* What the operator's records ask the Host to run.
Wanted(i) == RequestStillCurrent(i) /\ ~hold.active

\* An execution that stays wanted and unblocked, on a Host free of unmanaged
\* miners, ends up running: no lost, late or failed command stops convergence.
Converges ==
    \A i \in Id : <>[](Wanted(i) /\ desired[i[1]].blocked # i[2] /\ unmanaged = {})
                      => <>[](agent.exec[i] = "RUNNING")

\* An execution of an existing workload that stays unwanted ends up not running,
\* even one that an old session of the Agent started late.
Retires ==
    \A i \in Id : <>[](~Wanted(i) /\ desired[i[1]].exists /\ i[2] > 0)
                      => <>[](agent.exec[i] # "RUNNING")
=============================================================================
